SPECIFICATION FairSpec
CONSTANTS
  s1 = s1
  s2 = s2
  a1 = a1
  a2 = a2
  none = none
  nothing = nothing
  Sessions <- OneSession
  Foreign <- NoForeign
  Agents <- MCAgents
  NoSession = none
  Nothing = nothing
  MaxFaults = 1
INVARIANTS
  TypeOK
  OneWorker
  NoPollWaitsBesideWork
  AnsweredIsRetired
PROPERTIES
  AnswerNotSwallowed
  EveryEventEnds
CHECK_DEADLOCK FALSE
