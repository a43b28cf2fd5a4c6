SPECIFICATION MCSpec
CONSTANTS
    MaxPatterns = 5
    MaxThreshold = 6
    Seeds <- MCSeeds
    ShortSeeds <- MCShortSeeds
    Alphabet <- MCAlphabet
    MaxEdits = 2
INVARIANTS
    VerdictIsCount
    NumericSliceFits
    EntitiesDisjoint
    VersionsAgree
    OneCompletion
PROPERTIES
    SeparatorsInvisible
CHECK_DEADLOCK FALSE
