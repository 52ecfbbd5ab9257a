\* One pull request and a bot that crashes.
SPECIFICATION Spec
CONSTANTS
    p1 = p1
    p2 = p2
    r1 = r1
    r2 = r2
    r3 = r3
    None = None
    PRs = {p1}
    Runs = {r1}
    Heads <- MCHeads
    Entries <- MCEntries
    MaxSuite = 1
    MaxSha = 1
    MaxCount = 1
    Moves = {"crash"}
CHECK_DEADLOCK FALSE
INVARIANTS HandledWasClosed
SYMMETRY Symmetry
