SPECIFICATION Spec
CONSTANTS
    Timers <- MCTimers
    Periodic <- MCPeriodic
    Intervals = {1}
    TickInterval = 1
    Wrap = 4
    MaxLate = 2
    Eager = FALSE
PROPERTIES TicksSkipped
