SPECIFICATION FairSpec
CONSTANTS
  a1 = a1
  a2 = a2
  Runs <- MCRuns
  Tasks = {a1}
  Slots = 1
  Attempts = 2
  Handlers = 2
  MaxLines = 0
  MaxOrders = 0
  MaxErrors = 2
  MaxStops = 0
PROPERTIES
  JobSettles
CHECK_DEADLOCK FALSE
