\* One pull request that is pushed to, closed and sharpened against while the
\* bot loses artifacts, crashes and is started again.
SPECIFICATION Spec
CONSTANTS
    p1 = p1
    p2 = p2
    r1 = r1
    r2 = r2
    r3 = r3
    None = None
    PRs = {p1}
    Runs = {r1, r2}
    Heads <- MCBotHeads
    Entries <- MCBotEntries
    MaxSuite = 1
    MaxSha = 2
    MaxCount = 1
    Moves = {"push", "close", "vanish", "sharpen", "infra", "lose", "crash"}
CHECK_DEADLOCK FALSE
INVARIANTS ClosedWasRejected OneCommentPerHead
PROPERTIES RejectedIsClosed
