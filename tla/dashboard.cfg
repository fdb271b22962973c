CONSTANTS
  Schedule = {periodic}
  NoSchedule = NoSchedule
  Handler = {h1}
  Task = {t1}
  NoTask = NoTask
  Conn = {c1, c2}
  Room = 1
  Poll = poll
  NoCall = NoCall
  Awaited = Awaited
  NoConn = NoConn
  MaxDrops = 1
SPECIFICATION DFairSpec
INVARIANTS TypeOK OneChain ShownCurrent
PROPERTY Reconnected
