CONSTANTS
    PlatformCap = 0
    Paths = {"a"}
    DiskFails = TRUE
    MaxId = 2
    Requests <- ShotRequests
    Repeats <- Resent
    Batch = 1
    Faults = {"stdout"}
SPECIFICATION Spec
INVARIANTS
    AnsweredOnce
    WriterServesActive
PROPERTIES
    EveryLineAnswered
