SPECIFICATION Spec
CONSTANTS
    t1 = t1
    t2 = t2
    ea = ea
    eb = eb
    ec = ec
    None = None
    Calls = {c1}
    Tokens = {t1, t2}
    Entities = {ea}
    RuleLists <- MCIPLists
    CacheEnabled = FALSE
    SingleflightEnabled = FALSE
    ClientSideCache = FALSE
    Hanging = {}
INVARIANTS
    AnswersFirstMatch
