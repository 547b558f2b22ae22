SPECIFICATION FairSpec
CONSTANTS
  Scenarios = {"mixed", "crowd", "plain", "stranded"}
  c1 = c1
  c2 = c2
  cb = cb
  p1 = p1
  b1 = b1
INVARIANT ClosedLeavesNothing OneTeardown
PROPERTIES RetryIsPartial CallsReturn
CHECK_DEADLOCK FALSE
