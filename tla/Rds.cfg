SPECIFICATION FairSpec
CONSTANTS
    Versions = {1, 2}
    Classes = {1, 2}
    DeletionProtection = FALSE
    Specs <- AllSpecs
    NoSpec = NoSpec
    Faults = {"describe_db_instances", "delete_secret"}
    Budget <- BudgetUpdate
INVARIANTS
    FinishedIsAccepted
    NothingLeft
PROPERTIES
    ComesIntoForce
    Converges
CHECK_DEADLOCK FALSE
