SPECIFICATION Spec
SYMMETRY Symmetry
CONSTANTS
  Driver = "simulated"
  MaxDepth = 2
  Requests = {r1, r2}
  Targets <- MCTargets
  PrimaryTarget = "app"
  Boundaries <- MCBoundaries
  Covers <- MCCovers
  InitialRules <- MCInitialRules
  Capabilities <- MCCapabilities
  Declared <- MCCapabilities
  Gated <- MCGated
  Bodies <- MCBodies
  OperatorRules = {}
  MaxAgents = 3
  MaxApprovals = 1
  MaxFailures = 0
INVARIANTS
  MetricsFresh
