CONSTANTS
    Limit = 2
    InputCap = 1
    Signatures = {"s", "t"}
    Settings <- SomeSettings
SPECIFICATION Spec
INVARIANTS
    ScriptIsTruthful
    ReplKeepsItsWord
    ReportsAreTruthful
