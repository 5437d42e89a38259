CONSTANTS
    Clients = {c1, c2}
    Worker = Worker
    NoThread = NoThread
    Tasks = {k1, k2}
    NullTask = NullTask
    NoTask = NoTask
    MaxOffers = 2
    MaxLives = 1
    MaxClears = 1
SPECIFICATION FairSpec
PROPERTY
    DelayStopStops
