SPECIFICATION Spec
CONSTANTS
  p1 = p1
  p2 = p2
  Polls = {p1, p2}
  Limit = 2
  Cap = 2
  Milli = 2
  MaxTime = 4
  MaxEvents = 3
  MaxCount = 0
  MaxWire = 3
  MaxFaults = 1
SYMMETRY Alike
INVARIANTS
  NoneSkipped
  NewestOnTop
CHECK_DEADLOCK FALSE
