SPECIFICATION FairSpec
CONSTANTS
  Driver = "queue"
  MaxDepth = 1
  Requests = {r1, r2}
  Targets <- MCTargets
  PrimaryTarget = "app"
  Boundaries <- MCBoundaries
  Covers <- MCCovers
  InitialRules <- MCInitialRules
  Capabilities <- MCCapabilities
  Declared <- MCCapabilities
  Gated <- MCGated
  Bodies <- MCFewBodies
  OperatorRules = {}
  MaxAgents = 3
  MaxApprovals = 1
  MaxFailures = 0
INVARIANTS
  LineageSound
PROPERTIES
  StartingIsLaunched
