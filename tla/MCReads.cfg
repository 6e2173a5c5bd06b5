SPECIFICATION Spec
CONSTANTS
  Orgs = {1, 2, 3}
  Parts = {"p", "q"}
  MaxChainDepth = 2
  RelatedLimit = 1
  MaxReleases = 4
  MaxAttestations = 2
  MaxRecords = 5
  MaxWrites = 1
  Collide = FALSE
INVARIANTS
  TwinsAgree
  CoverageWithinTotal
  PagesAgree
  QuietPartsTrace
CHECK_DEADLOCK FALSE
