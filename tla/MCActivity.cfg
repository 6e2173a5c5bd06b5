SPECIFICATION Spec
CONSTANTS
  station = station
  broker = broker
  oem = oem
  v1 = v1
  v2 = v2
  Nobody = Nobody
  Issuers = {station, oem}
  Recipients = {station, broker}
  Viewers = {v1, v2}
  ActingAs <- MCActingAs
  Timers = {1, 2, 3}
  BacklogSize = 2
  PendingCap = 2
  InServiceCap = 2
  MaxVisits = 2
  DockCap = 1
  MaxReleases = 3
  MaxJoins = 2
  MaxPosts = 0
  MaxFaults = 1
  EarlyClose = TRUE
INVARIANTS
  TypeOK
  NeverStalls
  ChainsAccounted
  IdlesWithoutOverlap
  HistoriesDoNotFork
  CheckedOnce
CHECK_DEADLOCK FALSE
