SPECIFICATION FairSpec
CONSTANTS
    Entities = {ea, eb}
    Savers = {s1, s2}
    Options <- MCOptions
INVARIANTS
    TypeOK
    HoldsOnlySaved
    KeyHasExpiry
    ExpiryInBand
PROPERTIES
    ExpiryNeverExtended
    EntriesExpire
