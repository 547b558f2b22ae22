SPECIFICATION Spec
CONSTANTS
  Scenarios = {"lease", "trio", "namespace", "source", "readers"}
  a = a
  b = b
  c = c
  Nobody = Nobody
  w1 = w1
  w2 = w2
  i1 = i1
  i2 = i2
  v1 = v1
  v2 = v2
SYMMETRY Interchangeable
INVARIANT OneWriter OneSidecar ReportedHoldsNothing NamespaceIsShared SentIsSigned CompletionReadsVisible
CHECK_DEADLOCK FALSE
