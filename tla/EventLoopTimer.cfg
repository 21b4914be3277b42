SPECIFICATION FairSpec
CONSTANTS
    Timers <- MCTimers
    Periodic <- MCPeriodic
    Intervals = {1, 2}
    TickInterval = 1
    Wrap = 4
    MaxLate = 1
    Eager = FALSE
INVARIANTS FrontExpiresFirst KeepsTime
PROPERTIES FiresOnlyWanted EventuallyFires
