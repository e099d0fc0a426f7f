SPECIFICATION FairSpec
CONSTANTS
    p1 = p1
    p2 = p2
    c1 = c1
    c2 = c2
    Producers = {p1, p2}
    Consumers = {c1, c2}
    QSize = 3
    MaxCalls = 2
    CountMod = 16
INVARIANTS
    ConsumedInReservationOrder
    PublishedIntact
    CountExactWhenQuiet
    IndInv
PROPERTIES
    ImplementsFifo
    EveryElementConsumed
