SPECIFICATION Spec
CONSTANTS
    t1 = t1
    ea = ea
    eb = eb
    ec = ec
    None = None
    Calls = {c1, c2}
    Tokens = {t1}
    Entities = {ea, eb, ec}
    RuleLists <- MCMatches
    CacheEnabled = TRUE
    SingleflightEnabled = TRUE
    ClientSideCache = FALSE
    PoolSize = 2
INVARIANTS
    LeaderAnswersFirstMatch
