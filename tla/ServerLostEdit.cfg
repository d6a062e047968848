SPECIFICATION Spec
CONSTANTS
    RetryUnchanged = TRUE
    HandlerOnResume = FALSE
    Backends <- OneBackend
    BackendNames <- OneBackend
    SecretNames <- OneSecret
    Specs <- TwoSpecs
    Labels <- ResetOnly
    Defaults <- OneBackend
    Faults = {}
    Budget <- BudgetOnce
INVARIANTS
    FinishedIsApplied
CHECK_DEADLOCK FALSE
