SPECIFICATION FairSpec
CONSTANTS
    InputPins <- MCInputPins
    DebounceTicks = 2
    LongCounts = 2
    QueueSize = 1
    MaxEdges = 3
    CounterRange = 6
    Deltas <- MCDeltas
    MaxExpiries = 2
INVARIANTS NothingMissed
PROPERTIES ImplementsKeyProtocol ReportsSettle
CHECK_DEADLOCK FALSE
