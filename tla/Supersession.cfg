SPECIFICATION FairSpec
CONSTANTS
    x = x
    y = y
    p1 = p1
    p2 = p2
    MaxMemories = 3
    Texts = {x, y}
    TextOf <- Alternating
    Procs = {p1, p2}
    Sweepers = {p2}
    Touched = {1, 2}
    OptsOut = {3}
    PerSweep = 1
    MaxMishaps = 1
INVARIANT ReplacedOnce
INVARIANT OneReplacement
INVARIANT NoConflictStands
INVARIANT StandsUnlessLost
INVARIANT NoCheckLost
PROPERTY OwedIsChecked
CHECK_DEADLOCK FALSE
