CONSTANTS
  Handler = {h1, h2}
  Task = {t1, t2, t3, t4}
  NoTask = NoTask
  Selection = {all}
  AllTargets = all
  Counts = {1}
  CycleCap = 1
  PoolSize = 1
  NoSchedule = NoSchedule
SPECIFICATION FifoSpec
INVARIANT SingleLoop
