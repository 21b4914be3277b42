SPECIFICATION FairSpec
CONSTANTS
    Keys <- MCTwoKeys
    InputQueueSize = 2
    AppQueueSize = 5
    MaxPresses = 8
PROPERTY ProcessedTillEmpty
CHECK_DEADLOCK FALSE
