SPECIFICATION FairSpec
CONSTANT MaxLength = 6
INVARIANTS
    TypeOK
    YieldsEveryRun
PROPERTIES
    Terminates
