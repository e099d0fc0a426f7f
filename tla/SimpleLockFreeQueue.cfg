SPECIFICATION FairSpec
CONSTANTS
    p1 = p1
    p2 = p2
    c1 = c1
    Producers = {p1, p2}
    Consumers = {c1}
    MaxCalls = 2
    VersionMod = 16
INVARIANTS
    NodesSound
    TakenAsEnqueued
PROPERTY EveryItemClaimed
