SPECIFICATION Translation
CONSTANTS
    UserSpecs <- AllSpecs
    Confs <- ConfType
    ClassNames = {"dev", "large"}
    Cpus = {1, 3, 48, 65}
    Storages = {20, 64, 100}
    Majors = {9, 10, 14, 16}
    NameLengths = {63, 64}
INVARIANTS
    AcceptedIsTranslated
    TranslatedIsGranted
CHECK_DEADLOCK FALSE
