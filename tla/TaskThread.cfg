CONSTANTS
    Clients = {c1, c2}
    Worker = Worker
    NoThread = NoThread
    Tasks = {k1, k2, NullTask}
    NullTask = NullTask
    NoTask = NoTask
    MaxOffers = 2
    MaxLives = 2
    MaxClears = 1
SPECIFICATION FairSpec
INVARIANTS
    TypeOK
    QueueAccounting
    AtMostOneAfterStop
PROPERTIES
    StopEndsRun
    TasksServed
