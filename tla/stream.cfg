CONSTANTS
  Schedule <- TwoSchedules
  NoSchedule = NoSchedule
  NoLimit = 0
  Cap = 2
  Conn = {c1, c2}
  Flaky = {c1}
  QueueMax = 2
  MaxEvents = 4
SPECIFICATION FairSpec
INVARIANTS TypeOK NothingMissed ViewTruthful
PROPERTIES Delivered KeepsFeed
