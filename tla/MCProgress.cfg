CONSTANTS
    LastId = 2
    Answers = {"ok", "rejected"}
    DiskFaults = FALSE
    Plans <- NoPlans
    LoaderFaults = FALSE
    Offered = {"game", "shutdown"}
    Faults = {"exit", "eof", "writer", "stray", "cancel"}
    EventCap = 1
    Batch = 1
SPECIFICATION Spec
PROPERTIES
    SessionEnds
    SubmitReturns
