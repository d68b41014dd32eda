CONSTANTS
    LastId = 5
    Answers = {"ok"}
    DiskFaults = TRUE
    Plans <- OnePlan
    LoaderFaults = FALSE
    Offered = {"game", "recordingStart", "recordingStop", "replayStart", "replayStop"}
    Faults = {}
    EventCap = 1
    Batch = 1
SPECIFICATION GameSpec
PROPERTIES
    AcceptedSettles
