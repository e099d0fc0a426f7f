SPECIFICATION Spec
CONSTANTS
    p1 = p1
    c1 = c1
    c2 = c2
    Producers = {p1}
    Consumers = {c1, c2}
    MaxCalls = 3
    VersionMod = 16
INVARIANT TakenAsEnqueued
