SPECIFICATION FairSpec
CONSTANTS
  Scenarios = {"one", "two"}
  fu = fu
  fd = fd
INVARIANT PrefixIsStored Quiescent
PROPERTIES KeepsContract GroupEnds
CHECK_DEADLOCK FALSE
