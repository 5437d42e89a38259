CONSTANTS
    Threads = {t1, t2, t3}
    NoThread = NoThread
    Objects = {o1, o2}
    Null = Null
    Checked = TRUE
    First = t1
    MaxCalls = 1
    Uids = {1}
    Delegates = {d1, d2}
    Absent = Absent
    Empty = Empty
    None = None
    MaxOps = 2
CHECK_DEADLOCK FALSE
SPECIFICATION FactorySpec
SYMMETRY Symmetry
INVARIANTS
    FactoryTypeOK
    GetIsSafe
    CarefulIsSafe
    AcceptedIsCalled
