CONSTANTS
  x = x
  y = y
  Target = {x, y}
  Thread = {main, w1}
  EventLoop = main
  Selection <- SomeSelections
  MaxTime = 1
  MaxLogs = 1
  Faults = FALSE
SPECIFICATION Spec
INVARIANT NoOrphanLogs
