SPECIFICATION FairSpec
CONSTANTS
  p1 = p1
  p2 = p2
  p3 = p3
  Procs = {p1, p2, p3}
  HostOf <- TwoHosts3
  MaxFiles = 3
  Predecessor = p3
  MayCrash = {p2}
  MayAge = TRUE
  NoFile = NoFile
INVARIANT TypeOK
INVARIANT ExclusiveUnlessAged
PROPERTY DeletedWasStale
PROPERTY ImplementsMutex
PROPERTY DeadLockReclaimed
