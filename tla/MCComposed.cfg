CONSTANTS
    LastId = 5
    Answers = {"ok"}
    DiskFaults = TRUE
    Plans <- OnePlan
    LoaderFaults = FALSE
    Offered = {"game", "recordingStart", "recordingStop", "replayStart", "replayStop", "shutdown"}
    Faults = {"wait"}
    EventCap = 1
    Batch = 1
SPECIFICATION SafetySpec
INVARIANTS
    SectionIsWireInterval
PROPERTIES
    RecorderSpec
    ReplaySpec
