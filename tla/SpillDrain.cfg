SPECIFICATION FairSpec
CONSTANTS
    t1 = t1
    t2 = t2
    d1 = d1
    d2 = d2
    f1 = f1
    f2 = f2
    Turns = {t1, t2}
    Targets = {"main", "other"}
    TargetOf <- Apart
    Foreign = {"other"}
    Drains = {d1, d2}
    Names = {f1, f2}
    MaxAttempts = 2
    MaxMishaps = 1
INVARIANT NothingDropped
PROPERTY ImplementsShelf
PROPERTY Lands
CHECK_DEADLOCK FALSE
