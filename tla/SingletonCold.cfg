CONSTANTS
    Threads = {t1, t2, t3}
    NoThread = NoThread
    Objects = {o1, o2, o3}
    Null = Null
    Checked = TRUE
    First = NoThread
    MaxCalls = 1
CHECK_DEADLOCK FALSE
SPECIFICATION Spec
SYMMETRY Symmetry
INVARIANT
    GetIsSafe
