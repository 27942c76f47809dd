SPECIFICATION Spec
SYMMETRY Symmetry
CONSTANTS
  Driver = "queue"
  MaxDepth = 1
  Requests = {r1, r2}
  Targets <- MCTargets
  PrimaryTarget = "app"
  Boundaries <- MCBoundaries
  Covers <- MCCovers
  InitialRules <- MCInitialRules
  Capabilities <- MCCapabilities
  Declared <- MCCapabilities
  Gated <- MCGated
  Bodies <- MCBodies
  OperatorRules <- MCOperatorRules
  MaxAgents = 2
  MaxApprovals = 2
  MaxFailures = 1
INVARIANTS
  TypeOK
  QueuedIsAuthorised
  NobodyWaitsForNothing
PROPERTIES
  OnlyDecisionReopens
  ScopeGate
