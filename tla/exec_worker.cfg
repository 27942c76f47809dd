SPECIFICATION Spec
CONSTANTS
  a1 = a1
  a2 = a2
  Runs = {a1}
  Tasks = {a1}
  Slots = 1
  Attempts = 2
  Handlers = 2
  MaxLines = 1
  MaxOrders = 1
  MaxErrors = 2
  MaxStops = 1
INVARIANTS
  TypeOK
  CompletedIsReported
  EvidenceBeforeExit
  LiveIsWatched
  DispatchedOnce
CHECK_DEADLOCK FALSE
