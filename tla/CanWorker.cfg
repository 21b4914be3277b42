SPECIFICATION FairSpec
CONSTANTS
    Ids = {i1, i2}
    Payloads = {d1, d2}
    FifoSize = 2
    QueueSize = 1
    MaxIds = 1
    CountMod = 2
    MaxArrivals = 3
INVARIANTS
    Watched
    Conservation
    ReadConsistent
    Announced
    StopClean
PROPERTIES
    ImplementsTable
    EveryWaitEnds
