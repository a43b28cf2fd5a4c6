SPECIFICATION FactorySpec
CONSTANTS
    NoRule = NoRule
    Panics = Panics
    Calls = {c1, c2}
    Documents <- MCTwoDocuments
    Pools <- MCTokenPool
    Options <- MCOneTokenWorker
INVARIANTS
    StoppedAnalyzesSequentially
