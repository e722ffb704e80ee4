SPECIFICATION FairCompanySpec
CONSTANTS
    s1 = s1
    s2 = s2
    a1 = a1
    a2 = a2
    Providers = {"greenhouse", "lever"}
    Curated = {"greenhouse"}
    Syncs = {s1, s2}
    Resolvers = {a1}
    Confirmations = 2
    Retries = 2
INVARIANTS
    CompanyTypeOK
PROPERTIES
    PruneTakesDeadOnly
    CatalogKeepsSteadyBoards
    DeadBoardIsPruned
CHECK_DEADLOCK FALSE
