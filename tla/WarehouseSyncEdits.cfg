SPECIFICATION Spec
CONSTANTS
  d1 = d1
  d2 = d2
  i1 = i1
  Devices = {d1, d2}
  Ids = {i1}
  AgentOf <- Written
  MaxClock = 6
  MaxEdits = 2
  MaxFaults = 1
  NoRow = NoRow
CONSTRAINT LateRowsEndEarly
SYMMETRY Interchangeable
CHECK_DEADLOCK FALSE
INVARIANT NothingUnsent
INVARIANT NothingUnpulled
INVARIANT SettledAgree
PROPERTY ImplementsRegister
