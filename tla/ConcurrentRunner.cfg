SPECIFICATION Spec
CONSTANTS
    t1 = t1
    ea = ea
    eb = eb
    ec = ec
    None = None
    Calls = {c1, c2}
    Tokens = {t1}
    Entities = {ea, eb, ec}
    RuleLists <- MCRuleLists
    CacheEnabled = TRUE
    SingleflightEnabled = TRUE
    ClientSideCache = TRUE
    PoolSize = 2
SYMMETRY Symmetry
INVARIANTS
    TypeOK
    CacheSound
    WaiterAnswersFirstMatch
    ChannelNeverBlocks
    CollectorIsFed
PROPERTIES
    SharedMapFrozen
    ImplementsService
