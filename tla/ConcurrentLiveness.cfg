SPECIFICATION FairSpec
CONSTANTS
    t1 = t1
    ea = ea
    eb = eb
    ec = ec
    None = None
    Calls = {c1, c2}
    Tokens = {t1}
    Entities = {ea, ec}
    RuleLists <- MCLivenessLists
    CacheEnabled = TRUE
    SingleflightEnabled = TRUE
    ClientSideCache = FALSE
    PoolSize = 1
PROPERTIES
    EveryCallReturns
    CancelledCallReturns
