SPECIFICATION Spec
CONSTANTS
    RetryUnchanged = TRUE
    HandlerOnResume = TRUE
    Backends <- TwoBackends
    BackendNames <- TwoBackends
    SecretNames <- OneSecret
    Specs <- MoveBackend
    Labels <- ResetOnly
    Defaults <- TwoBackends
    Faults = {}
    Budget <- BudgetReset
INVARIANTS
    PublishedIsLive
    NoOrphan
    ResetRotates
PROPERTIES
    KeepsContract
CHECK_DEADLOCK FALSE
