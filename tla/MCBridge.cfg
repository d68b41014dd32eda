CONSTANTS
    PlatformCap = 1
    Paths = {"a"}
    DiskFails = TRUE
    MaxId = 4
    Requests <- InputRequests
    Repeats = {}
    Batch = 1
    Faults = {"malformed", "eof"}
SPECIFICATION SafetySpec
INVARIANTS
    TicksAreWarps
    InputArrivesWhole
PROPERTIES
    ExitIsFlushed
