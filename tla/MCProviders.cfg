SPECIFICATION Spec
CONSTANT Providers = {"oss", "oss again", "azure", "azure expiry", "presigned"}
INVARIANT CommittedIsSource AckedIsHeld SessionsAccounted
CHECK_DEADLOCK FALSE
