SPECIFICATION Spec
CONSTANT Scenarios = {"crashed", "tampered", "latched", "serial", "serial tampered"}
INVARIANT CompletesWhole ProgressIsReal KeptSurvives
CHECK_DEADLOCK FALSE
