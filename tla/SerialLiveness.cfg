SPECIFICATION FairSpec
CONSTANTS
    t1 = t1
    t2 = t2
    ea = ea
    eb = eb
    ec = ec
    None = None
    Calls = {c1, c2}
    Tokens = {t1}
    Entities = {ea, eb, ec}
    RuleLists <- MCTwoLists
    CacheEnabled = TRUE
    SingleflightEnabled = TRUE
    ClientSideCache = FALSE
    Hanging = {c2}
PROPERTIES
    EveryCallReturns
    CancelledCallReturns
