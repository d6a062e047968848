SPECIFICATION FairSpec
CONSTANTS
    Versions = {1, 2}
    Classes = {1, 2}
    DeletionProtection = FALSE
    Specs <- AllSpecs
    NoSpec = NoSpec
    Faults = {"describe_db_clusters", "describe_db_instances"}
    Budget <- BudgetUpdate
INVARIANTS
    FinishedIsReady
    NothingLeft
PROPERTIES
    KeepsContract
    Converges
CHECK_DEADLOCK FALSE
