CONSTANTS
    Bytes = {0, 1}
    MaxM = 7
    MaxN = 5
    WordSize = 2
SPECIFICATION FairSpec
INVARIANTS
    TypeOK
    FailArrayRight
    NothingPassed
    ResultRight
PROPERTIES
    Terminates
