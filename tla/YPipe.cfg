SPECIFICATION FairSpec
CONSTANTS
    k1 = k1
    k2 = k2
    k3 = k3
    k4 = k4
    Chunks = {k1, k2, k3, k4}
    N = 2
    MaxWrites = 6
INVARIANTS
    PipeSound
PROPERTIES
    ImplementsFifo
    EveryItemRead
