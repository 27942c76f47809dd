SPECIFICATION Spec
CONSTANTS
  a1 = a1
  a2 = a2
  Runs = {a1}
  Tasks = {a1}
  Slots = 1
  Attempts = 2
  Handlers = 2
  MaxLines = 0
  MaxOrders = 1
  MaxErrors = 0
  MaxStops = 0
INVARIANTS
  TerminateStops
CHECK_DEADLOCK FALSE
