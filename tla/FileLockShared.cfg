SPECIFICATION Spec
CONSTANTS
  p1 = p1
  p2 = p2
  p3 = p3
  Procs = {p1, p2, p3}
  HostOf <- SameHost3
  MaxFiles = 3
  Predecessor = NoFile
  MayCrash = {}
  MayAge = FALSE
  NoFile = NoFile
INVARIANT Exclusive
