CONSTANTS
  Schedule = {periodic}
  NoSchedule = NoSchedule
  Handler = {h1, h2}
  Task = {t1, t2}
  NoTask = NoTask
  Conn = {c1}
  Room = 1
  Poll = poll
  NoCall = NoCall
  Awaited = Awaited
  NoConn = NoConn
  MaxDrops = 0
SPECIFICATION DSpec
INVARIANT ShownCurrent
