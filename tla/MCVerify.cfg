SPECIFICATION Spec
CONSTANTS
  None = None
  Null = Null
  NoUri = NoUri
  Malformed = Malformed
  Elsewhere = Elsewhere
  Dids = {"A", "B"}
  Handles = {"a.example", "b.example"}
  Owner <- MCOwner
  HomeHandle <- MCHomeHandle
  Documents <- MCDocuments
  Opaque = {"B"}
  MAX_CHAIN_DEPTH = 2
  MaxChanges = 1
  MaxFaults = 1
INVARIANTS
  ReportsAreWhole
  VerifiedWasIssued
  HistoriesHold
  GenuineVerifies
CHECK_DEADLOCK FALSE
