SPECIFICATION Spec
CONSTANTS
  d1 = d1
  d2 = d2
  i1 = i1
  Devices = {d1, d2}
  Ids = {i1}
  AgentOf <- Written
  MaxClock = 6
  MaxEdits = 0
  MaxFaults = 0
  NoRow = NoRow
SYMMETRY Interchangeable
CHECK_DEADLOCK FALSE
INVARIANT AllDelivered
