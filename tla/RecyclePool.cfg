CONSTANTS
    Threads = {t1, t2}
    Obj = {o1, o2, o3, o4}
    NoThread = NoThread
    NoObj = NoObj
    InitNum = 1
    PoolCounts <- MCPoolCounts
    MaxOwned = 1
SPECIFICATION FairSpec
INVARIANTS
    TypeOK
    Exclusive
    OnlyNegativePopsEmpty
    SizeReached
PROPERTIES
    AdmittedCallReturns
    LeaseRefined
