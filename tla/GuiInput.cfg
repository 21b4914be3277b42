SPECIFICATION FairSpec
CONSTANTS
    Keys <- MCKeys
    InputQueueSize = 2
    AppQueueSize = 16
    MaxPresses = 4
INVARIANTS TargetAttached PortsBalanced ScreenRestored
PROPERTIES NothingHangs
CHECK_DEADLOCK FALSE
