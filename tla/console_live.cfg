CONSTANTS
  p1 = p1
  p2 = p2
  Projects <- MCProjects
  FirstProject = p1
  MaxVersion = 1
  MaxCommands = 2
  MaxErrors = 1
SPECIFICATION FairSpec
INVARIANTS
  TypeOK
  OneEventRefresh
PROPERTIES
  NeverBackwards
  FinalUpdateShown
CHECK_DEADLOCK FALSE
