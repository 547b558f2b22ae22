SPECIFICATION Spec
CONSTANT Providers = {"oss"}
INVARIANT DoneIsCommitted
CHECK_DEADLOCK FALSE
