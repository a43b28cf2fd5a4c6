SPECIFICATION FairFactorySpec
CONSTANTS
    NoRule = NoRule
    Panics = Panics
    Calls = {c1, c2}
    Documents <- MCDocuments
    Pools <- MCPools
    Options <- MCOptions
INVARIANTS
    TypeOK
    OutputExact
    RetriesLeakNothing
    StopReleasesPools
PROPERTIES
    NoLateAction
    EveryAnonymizeReturns
