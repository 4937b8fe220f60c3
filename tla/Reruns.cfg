SPECIFICATION Spec
CONSTANTS
  b1 = b1
  b2 = b2
  r1 = r1
  r2 = r2
  Requests = {r1, r2}
  BranchIds = {b1, b2}
  RunIds = {"a", "c", b1, b2}
  Models = {"base", "candidate"}
  EventIds = {"e1", "e2", "e3"}
  Fields = {"text", "prompt", "token", "id"}
  Values = {"o1", "o2", "s1", hidden}
  Sensitive = {"token"}
  Hidden = hidden
  Alike <- MCAlike
  Inputs <- MCInputs
  Model = "candidate"
  Replies <- MCReplies
  RerunOptions <- MCOptions
  Comparisons <- MCComparisons
  Permits = 1
  MaxCalls = 2
  None = None
CONSTRAINTS
  Apart
  InTurn
  Sole
SYMMETRY Interchangeable
CHECK_DEADLOCK FALSE
INVARIANTS
  PermitsReturned
  StoredNormal
  BranchesFaithful
  LiveCallsApproved
  ReportsFailClosed
