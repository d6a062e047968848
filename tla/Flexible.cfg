SPECIFICATION FairSpec
CONSTANTS
    NoSpec = NoSpec
    RuleKinds = {"firewall"}
    RuleNames <- AllRules
    Ranges = {0, 1, 2}
    ConfigRules <- OfficeRule
    ExtraRules <- AzureRule
    Options <- AllOptions
    Extensions <- AllExts
    Always <- AlwaysExts
    Preloads <- PreloadExts
    Parameters = {"work_mem", "wal_level"}
    Specs <- Specs3
    Faults = {"servers_get", "delete_secret"}
    Budget <- BudgetUpdate
INVARIANTS
    FinishedIsConfigured
    NoServerLeft
PROPERTIES
    WantedRulesStay
    KeepsContract
    Converges
CHECK_DEADLOCK FALSE
