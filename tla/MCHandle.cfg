CONSTANTS
    Ids <- TwoIds
    EventCap = 1
    Settings <- SomeSettings
SPECIFICATION Spec
INVARIANTS
    StartIsConfirmed
    DeathIsReportedOnce
    DiagnosticsAreTheRest
    PendingsAreServed
