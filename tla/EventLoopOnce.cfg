SPECIFICATION Spec
CONSTANTS
    Objects <- MCObjects
    Edge <- MCOne
    Once <- MCOne
    Capacity <- MCCapacity
    Producers = 1
    MaxItems = 2
    MaxCommands = 0
    MaxPends = 0
    MaxRuns = 1
INVARIANTS ItemsAlive
