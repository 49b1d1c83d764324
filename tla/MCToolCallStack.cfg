CONSTANTS
  Run = {r1, r2}
  Call = {c1, c2}
  Tool = {"fetch_issue", "grade_response"}
  EagerTool = {"fetch_issue"}
  FailureThreshold = 2
  MaxAttempts = 2
  MaxCalls = 3
  MaxLoops = 1
  MaxFailures = 3
  MaxResets = 1
  MaxIssued = 2
SPECIFICATION Spec
SYMMETRY Slots
INVARIANTS
  TypeOK
  CircuitMatchesCount
  RunStaysInBudget
  ExclusiveRunSeesOwnFailures
PROPERTY FailedProbeReopens
