SPECIFICATION FairSpec
CONSTANTS
    RetryUnchanged = TRUE
    HandlerOnResume = TRUE
    Backends <- OneBackend
    BackendNames <- OneBackend
    SecretNames <- OneSecret
    Specs <- InvalidSpec
    Labels = {}
    Defaults <- OneBackend
    Faults = {"get_secret", "delete_secret", "server_exists"}
    Budget <- BudgetLiveness
INVARIANTS
    FinishedIsApplied
    FinishedIsUsable
PROPERTIES
    Converges
    DeletionCompletes
CHECK_DEADLOCK FALSE
