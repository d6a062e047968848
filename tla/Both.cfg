SPECIFICATION FairBothSpec
CONSTANTS
    RetryUnchanged = TRUE
    HandlerOnResume = FALSE
    Backend = "helm"
    GrantsIn = "admin"
    DeleteFake = FALSE
    Servers <- OneServer
    SecretNames <- OneSecret
    Specs <- OneSpec
    Labels = {}
    Faults = {}
    Budget <- DatabaseBudget
    Backends <- OneBackend
    BackendNames <- OneBackend
    Defaults <- OneBackend
    SSecretNames <- OneSecret
    SSpecs <- SOneSpec
    SLabels <- ResetOnly
    SFaults = {}
    SBudget <- ServerBudget
INVARIANTS
    DatabaseIsUsable
    NothingInside
PROPERTIES
    DatabaseConverges
CHECK_DEADLOCK FALSE
