SPECIFICATION Spec
CONSTANTS
    Drawers = {app, worker}
    QueueSize = 2
    MaxEvents = 3
    MaxChanges = 2
INVARIANT QueueEmptied
CHECK_DEADLOCK FALSE
