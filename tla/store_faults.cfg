CONSTANTS
  x = x
  y = y
  Target = {x, y}
  Thread = {main, w1}
  EventLoop = main
  Selection <- SomeSelections
  MaxTime = 1
  MaxLogs = 2
  Faults = TRUE
SPECIFICATION Spec
INVARIANTS TypeOK CreatedStays DeletedStaysGone ReportedIsLogged
PROPERTY NotPickedUpAgain
