CONSTANTS
    NoThread = NoThread
    NoPacket = NoPacket
    Producers = {p1, p2}
    Consumers = {}
    Packets = {k1, k2, k3}
    InitRecycled = 1
    MaxHeld = 1
    MaxDebt = 1
    MaxCount = 2
CHECK_DEADLOCK FALSE
SPECIFICATION Spec
SYMMETRY Symmetry
INVARIANT
    CountAtRest
