\* Two pull requests, three runs, cases that sharpen the suite, and
\* merges of verdicts that may be old.
SPECIFICATION Spec
CONSTANTS
    p1 = p1
    p2 = p2
    r1 = r1
    r2 = r2
    r3 = r3
    None = None
    PRs = {p1, p2}
    Runs = {r1, r2, r3}
    Heads <- MCHeads
    Entries <- MCEntries
    MaxSuite = 1
    MaxSha = 1
    MaxCount = 1
    Moves = {"close", "reopen", "sharpen"}
CHECK_DEADLOCK FALSE
INVARIANTS TypeOK StaleRejectIsSafe
PROPERTIES FollowsTheRule
SYMMETRY Symmetry
