SPECIFICATION FairSpec
CONSTANTS
  Requests = {r1}
  Agents <- MCAgents
  Root = "orchestrator"
  Manifests <- MCManifests
  Shipped <- MCShipped
  Preferred <- MCPreferred
  Finish = "finish"
  Faulty = "faulty"
  MaxTurns = 2
  MaxAgents = 2
  MaxCalls = 2
  Others = others
  MaxOthers = 1
  MaxErrors = 1
INVARIANTS
  TypeOK
  LimitKept
  OutcomeIsTrue
  OnlyWhatWasOffered
PROPERTIES
  EveryRequestEnds
CHECK_DEADLOCK FALSE
