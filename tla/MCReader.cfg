CONSTANTS
    LastId = 2
    Answers = {"ok"}
    DiskFaults = FALSE
    Plans <- NoPlans
    LoaderFaults = FALSE
    Offered = {"game"}
    Faults = {"reader"}
    EventCap = 1
    Batch = 1
SPECIFICATION Spec
PROPERTIES
    SessionEnds
