INIT ThreadsInit
NEXT ThreadsNext
CONSTANTS
    Threads = {t1, t2}
    ScrubLength = 1
INVARIANT ReleasedAlone
