SPECIFICATION FairSpec
CONSTANTS
  p1 = p1
  p2 = p2
  Polls = {p1, p2}
  Limit = 2
  Cap = 2
  Milli = 2
  MaxTime = 2
  MaxEvents = 2
  MaxCount = 1
  MaxWire = 2
  MaxFaults = 1
PROPERTIES
  EveryEventIsDrawn
  BadgeIsRight
CHECK_DEADLOCK FALSE
