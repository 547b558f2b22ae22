SPECIFICATION Spec
CONSTANTS
  t1 = t1
  t2 = t2
  t3 = t3
  u1 = u1
  u2 = u2
  d1 = d1
  NoTask = NoTask
  Task = {t1, t2, t3}
  Key = {u1, u2}
  KeyOf <- UploadKeyOf
  DirOf <- UploadDirOf
  PresetTotal = {t1, t2, t3}
  MaxConcurrency <- OneEach
  EventCapacity = 1
SYMMETRY SameFile
INVARIANTS
  Bookkeeping
  SlotAccounting
  WorkConserving
  NoStaleProgress
  IdleIsResumable
  OneAnswerPerWorker
  EndsAreEarned
PROPERTY
  StatusRefinement
CHECK_DEADLOCK FALSE
