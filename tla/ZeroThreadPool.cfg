SPECIFICATION FairSpec
CONSTANTS
    w1 = w1
    w2 = w2
    c1 = c1
    c2 = c2
    Workers = {w1, w2}
    Clients = {c1, c2}
    MaxTasks = 3
INVARIANTS
    TasksSound
PROPERTIES
    EveryTaskDone
    WaitersReturn
    StopReturns
