SPECIFICATION Spec
CONSTANTS
  s1 = s1
  s2 = s2
  a1 = a1
  a2 = a2
  none = none
  nothing = nothing
  Sessions <- TwoSessions
  Foreign <- OneForeign
  Agents <- MCAgents
  NoSession = none
  Nothing = nothing
  MaxFaults = 0
INVARIANTS
  OnlyForeignAbandoned
CHECK_DEADLOCK FALSE
