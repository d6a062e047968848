SPECIFICATION FairSpec
CONSTANTS
    RetryUnchanged = TRUE
    HandlerOnResume = FALSE
    Backend = "aws"
    GrantsIn = "own"
    DeleteFake = FALSE
    Servers <- OneServer
    SecretNames <- TwoSecrets
    Specs <- TwoNames
    Labels = {}
    Faults = {"get_secret", "delete_secret", "get_object", "server_exists"}
    Budget <- BudgetLiveness
INVARIANTS
    FinishedIsUsable
PROPERTIES
    Converges
    DeletionCompletes
CHECK_DEADLOCK FALSE
