SPECIFICATION FairSpec
CONSTANTS
    Specs = {1, 2}
    NoSpec = 0
    Faults = {"helm_list", "delete_pvc", "delete_secret"}
    Budget <- BudgetUpdate
INVARIANTS
    NothingLeft
    FinishedIsUsable
PROPERTIES
    Converges
CHECK_DEADLOCK FALSE
