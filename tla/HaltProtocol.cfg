SPECIFICATION FairSpec
CONSTANTS
    l1 = l1
    s1 = s1
    i1 = i1
    i2 = i2
    Loops <- OneLoop
    Servers <- OneServer
    Installers <- TwoInstallers
    Elusive <- OneLoop
    MaxStarts = 2
    None = None
INVARIANT ExclusiveIsQuiet
INVARIANT OnlyNewcomers
PROPERTY LoopsResume
CHECK_DEADLOCK FALSE
