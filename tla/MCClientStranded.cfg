SPECIFICATION FairSpec
CONSTANTS
  Scenarios = {"stranded"}
  c1 = c1
  c2 = c2
  cb = cb
  p1 = p1
  b1 = b1
PROPERTY CloseReturns
CHECK_DEADLOCK FALSE
