SPECIFICATION Spec
INVARIANT TypeOK
INVARIANT NoCommitLost
INVARIANT RowsSigned
PROPERTY ImplementsDerivedIndex
PROPERTY FirstLearntIsKept
PROPERTY RedeliveryIsNoOp
CONSTANTS
  A = A
  r1 = r1
  Repos = {A, B}
  Rkeys = {k1}
  Releases = {}
  Attestations = {a1, a2}
  Profiles = {}
  Malformed = {}
  IssuerDID <- MCIssuerDID
  None = None
  MaxSeq = 3
  MaxOps = 2
  MaxRotations = 1
  MaxForgotten = 1
  MaxFaults = 1
  MaxReindex = 0
  RecordUpdates = TRUE
  Duplicates = TRUE
  InclusiveCursor = TRUE
SYMMETRY MCSymmetry
CHECK_DEADLOCK FALSE
