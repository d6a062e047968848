SPECIFICATION Spec
CONSTANTS
    RetryUnchanged = TRUE
    HandlerOnResume = FALSE
    Backend = "helm"
    GrantsIn = "admin"
    DeleteFake = FALSE
    Servers <- OneServer
    SecretNames <- OneSecret
    Specs <- OneSpec
    Labels <- BothLabels
    Faults = {}
    Budget <- BudgetReset
INVARIANTS
    PublishedIsLive
    NoDatabaseLeft
    ResetRotates
PROPERTIES
    KeepsContract
CHECK_DEADLOCK FALSE
