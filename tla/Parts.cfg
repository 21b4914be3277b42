SPECIFICATION PartsSpec
CONSTANTS
    Drawers = {d1, d2}
    QueueSize = 2
    MaxEvents = 3
    MaxChanges = 2
    HolderKeys = {ok, back}
    MaxHolderPresses = 3
    Keys = {ok, back}
    Views = {v1, v2}
    None = None
    QueueLen = 2
    MaxPresses = 3
    MaxItems = 7
    WordSize = 16
    Threads = {t1, t2, t3}
    ScrubLength = 1
    Clients <- MCClients
    Names <- MCNames
    Program <- MCProgram
    LoopFrom <- MCLoopFrom
    HeapSize = 24
    Header = 2
    Align = 2
    Requests = {1, 4, 7}
    Tasks = {a, b}
    Arrivals <- MCArrivals
    StartPages = {1, 8}
    MaxTurns = 2
INVARIANTS ReadingsDrawn ScreenFresh UseSafe ViewsAlive Balanced CursorVisible JoinedIsGone RecordsKept HeapWellFormed
PROPERTIES PartsProceed ImplementsAllocator
CHECK_DEADLOCK FALSE
