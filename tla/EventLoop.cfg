SPECIFICATION FairSpec
CONSTANTS
    Objects <- MCObjects
    Edge <- MCOne
    Once <- MCNone
    Capacity <- MCCapacity
    Producers = 1
    MaxItems = 2
    MaxCommands = 1
    MaxPends = 2
    MaxRuns = 1
INVARIANTS ItemsAlive NoEventLost WorkRemembered
PROPERTIES EventuallyServed StopEnds
