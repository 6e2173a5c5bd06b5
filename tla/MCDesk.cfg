SPECIFICATION Spec
CONSTANTS
  None = None
  Public = Public
  Orgs = {"a", "b"}
  Default = "a"
  Sent <- MCSent
  Tabs = {1}
  Environments <- MCEnvironments
  DockCap = 25
  MaxCalls = 2
  MaxFlips = 1
  MaxRestarts = 1
INVARIANTS
  LeavesForCause
  CheckedBeforeSaid
  ProductionStaysLive
CHECK_DEADLOCK FALSE
