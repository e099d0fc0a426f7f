SPECIFICATION FairSpec
CONSTANTS
    NULL = NULL
    w1 = w1
    w2 = w2
    w3 = w3
    j1 = j1
    j2 = j2
    Workers = {w1, w2, w3}
    Jobs = {j1, j2}
    MaxJobs = 3
INVARIANTS
    JobsSound
PROPERTIES
    EveryJobTaken
    ToldWorkersExit
