SPECIFICATION FairSpec
CONSTANTS
    t1 = t1
    t2 = t2
    p1 = p1
    p2 = p2
    Turns = {t1, t2}
    Procs = {p1, p2}
    Targets = {"main", "other"}
    TargetOf <- Apart
    Capacity <- SmallAndLarge
    FlushRows <- Large
    MaxMishaps = 2
INVARIANT CursorIsDurable
INVARIANT StoredOnce
PROPERTY HooksTakeTurns
PROPERTY ImplementsCapturedTurns
PROPERTY CapturedInTheEnd
PROPERTY QueueEmpties
CHECK_DEADLOCK FALSE
