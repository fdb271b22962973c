CONSTANTS
  Counts = {1, 2, 3}
  Rtt = {0, 3, 4}
  NoRtt = NoRtt
  Other = Other
  MaxExtra = 1
SPECIFICATION Spec
INVARIANTS TypeOK ReceivedTrue FiguresHonest
CHECK_DEADLOCK FALSE
