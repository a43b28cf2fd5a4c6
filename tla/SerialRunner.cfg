SPECIFICATION Spec
CONSTANTS
    t1 = t1
    t2 = t2
    ea = ea
    eb = eb
    ec = ec
    None = None
    Calls = {c1, c2, c3}
    Tokens = {t1}
    Entities = {ea, eb, ec}
    RuleLists <- MCRuleLists
    CacheEnabled = TRUE
    SingleflightEnabled = TRUE
    ClientSideCache = TRUE
    Hanging = {}
SYMMETRY Symmetry
INVARIANTS
    TypeOK
    CacheSound
    AnswersFirstMatch
    OneFlightPerToken
    OneSavePerCall
PROPERTIES
    SharedMapFrozen
    JoinInFlightOnly
    ImplementsService
