SPECIFICATION CoFairSpec
CONSTANTS
    c1 = c1
    c2 = c2
    c3 = c3
    f1 = f1
    f2 = f2
    f3 = f3
    Coroutines = {c1, c2, c3}
    Fds = {f1, f2, f3}
    First = c1
    FirstFd = f1
INVARIANTS
    SchedulerSound
    EventsHaveWaiters
PROPERTIES
    ReadyGetsTurn
    ReadableIsResumed
    RoundEnds
CHECK_DEADLOCK FALSE
