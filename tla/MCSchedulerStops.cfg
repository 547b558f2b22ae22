SPECIFICATION FairSpec
CONSTANTS
  t1 = t1
  t2 = t2
  t3 = t3
  u1 = u1
  u2 = u2
  d1 = d1
  NoTask = NoTask
  Task = {t1, t2}
  Key = {u1, d1}
  KeyOf <- PairKeyOf
  DirOf <- PairDirOf
  PresetTotal = {t1}
  MaxConcurrency <- OneEach
  EventCapacity = 1
PROPERTIES
  StopsSettle
  CloseReturns
CHECK_DEADLOCK FALSE
