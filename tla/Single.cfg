SPECIFICATION FairSpec
CONSTANTS
    NoSpec = NoSpec
    RuleKinds <- BothKinds
    RuleNames = {"office", "azure"}
    Ranges = {0, 1, 2}
    Readable = {0, 1}
    ExtraRules <- AzureRule
    Options <- AllOptions
    Extensions = {"pg_cron", "timescaledb"}
    Specs <- AllSpecs
    Faults = {"servers_get", "delete_secret"}
    Budget <- BudgetUpdate
INVARIANTS
    TypeOK
    FinishedIsConfigured
PROPERTIES
    KeepsContract
    Converges
CHECK_DEADLOCK FALSE
