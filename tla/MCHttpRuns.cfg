SPECIFICATION FairSpec
CONSTANTS
  Scenarios = {"upload", "retried", "serial", "parallel", "timed", "signing", "shared"}
  t1 = t1
  t2 = t2
  a = a
  b = b
  NoThread = NoThread
  NoTotal = NoTotal
  NoPlan = NoPlan
  NoJob = NoJob
INVARIANT CompletedIsCommitted StopsAreObeyed AbortIsFailure SignedFromOnePlan
PROPERTY RunEnds
CHECK_DEADLOCK FALSE
