CONSTANTS
  Handler = {h1}
  Task = {t1, t2, t3}
  NoTask = NoTask
  Selection = {all, some}
  AllTargets = all
  Counts = {1, 2}
  CycleCap = 2
  PoolSize = 1
  NoSchedule = NoSchedule
SPECIFICATION FairFifoSpec
INVARIANTS TypeOK StatusTruthful JobIsConfig StreamTruthful
PROPERTIES ExactCount StopStops EndAnnounced ContractSpec RepeatEnds QueuedCycleStarts
