CONSTANTS
    LastId = 6
    Answers = {"ok", "rejected", "protocol"}
    Plans <- MCPlans
    LoaderFaults = TRUE
    Externals = 1
SPECIFICATION MCSpec
INVARIANTS
    ReplayTypeOK
    CancelOnlyByStop
    WarpRunsAlone
    EndsTruthfully
    ControlAnsweredOnce
PROPERTY RunsEnd
