SPECIFICATION MCSpec
CONSTANTS
    MaxPatterns = 5
    MaxThreshold = 6
    Seeds <- MCSeeds
    ShortSeeds <- MCShortSeeds
    Alphabet <- MCAlphabet
    MaxEdits = 2
INVARIANTS
    CardsPassLuhn
CHECK_DEADLOCK FALSE
