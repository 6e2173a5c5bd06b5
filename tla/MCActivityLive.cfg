SPECIFICATION FairSpec
CONSTANTS
  station = station
  broker = broker
  oem = oem
  v1 = v1
  v2 = v2
  Nobody = Nobody
  Issuers = {station, oem}
  Recipients = {station, broker}
  Viewers = {v1, v2}
  ActingAs <- MCActingAs
  Timers = {1, 2, 3}
  BacklogSize = 1
  PendingCap = 2
  InServiceCap = 2
  MaxVisits = 3
  DockCap = 1
  MaxReleases = 2
  MaxJoins = 2
  MaxPosts = 1
  MaxFaults = 1
  EarlyClose = FALSE
INVARIANT DealtWithIsGone
PROPERTIES
  PromiseKept
  Quiesces
CHECK_DEADLOCK FALSE
