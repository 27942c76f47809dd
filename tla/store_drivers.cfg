SPECIFICATION FairSpec
CONSTANTS
  demo = demo
  second = second
  none = none
  nobody = nobody
  Projects <- MCProjects
  FirstProject = demo
  FirstBoard <- MCFirstBoard
  Boards <- MCBoards
  Missing = none
  NoProject = none
  Mutations <- MCMutations
  Creations <- MCCreations
  Activations <- MCActivations
  Place <- MCPlace
  Created <- MCCreated
  Belongs <- RuleBelongs
  Throws <- RuleThrows
  Result <- RuleResult
  Change <- MCChange
  Rules <- MCRules
  Agents <- MCAgents
  PoolSize = 2
  Nobody = nobody
  MaxErrors = 1
  MaxStops = 1
INVARIANTS
  TypeOK
  ActiveExists
  TouchesItsProject
PROPERTIES
  IsAtomic
  LastAllowKept
  EveryCallEnds
CHECK_DEADLOCK FALSE
