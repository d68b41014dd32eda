CONSTANTS
    Limit = 3
    LastId = 9
    Sessions = {"a"}
    Callers = {"c"}
    TargetOf <- TargetFirst
    Offered = {"warp", "recordingStart", "replayStart", "shutdown"}
    Batch = 1
    Faults = {"start", "crash", "refusal", "disk", "report", "listener"}
SPECIFICATION Spec
CHECK_DEADLOCK FALSE
INVARIANTS
    StateIsTruthful
    AdmissionCloses
    CursorsAgree
    ResultIsTruthful
PROPERTIES
    StopReturns
