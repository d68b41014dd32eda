CONSTANTS
    LastId = 6
    Answers = {"ok", "protocol"}
    DiskFaults = TRUE
    Backlog = 3
    LoadedLines = 4
SPECIFICATION MCSpec
CONSTRAINT BacklogBound
INVARIANTS
    RecordingsLoad
    RepliesMatch
    FooterMeansComplete
    LossIsReported
PROPERTY FailureHitsItsRecording
