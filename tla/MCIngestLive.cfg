SPECIFICATION FairSpec
INVARIANT ProfilesSigned
INVARIANT CaughtUpAgrees
INVARIANT ReindexRebuilds
PROPERTY SignedCommitsGetIndexed
CONSTANTS
  A = A
  r1 = r1
  Repos = {A}
  Rkeys = {k1}
  Releases = {r1, r2}
  Attestations = {a1}
  Profiles = {p1, p2, p3}
  Malformed = {r2, p3}
  IssuerDID <- MCIssuerDID
  None = None
  MaxSeq = 3
  MaxOps = 1
  MaxRotations = 0
  MaxForgotten = 1
  MaxFaults = 1
  MaxReindex = 1
  RecordUpdates = FALSE
  Duplicates = FALSE
  InclusiveCursor = FALSE
CHECK_DEADLOCK FALSE
