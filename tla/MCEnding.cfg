CONSTANTS
    LastId = 3
    Answers = {"ok", "rejected"}
    DiskFaults = FALSE
    Plans <- OnePlan
    LoaderFaults = FALSE
    Offered = {"game", "recordingStart", "replayStart", "shutdown"}
    Faults = {"exit", "eof", "reader", "writer", "marker", "cancel"}
    EventCap = 1
    Batch = 1
SPECIFICATION SafetySpec
INVARIANTS
    OneHolder
    CleanShutdown
    OwnKillIsNoFailure
PROPERTIES
    KeepsContract
    EofStopsWork
