SPECIFICATION FairSpec
CONSTANTS
  Scenarios = {"faulty", "executor", "download", "callbacks", "blocking"}
  t1 = t1
  t2 = t2
  l1 = l1
  l2 = l2
INVARIANT PoolsAreExact StopIsHonoured OkIsOneResponse NothingOwedIsLost
PROPERTY WaitsEnd
CHECK_DEADLOCK FALSE
