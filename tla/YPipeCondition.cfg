SPECIFICATION FairConditionSpec
CONSTANTS
    k1 = k1
    k2 = k2
    k3 = k3
    Chunks = {k1, k2, k3}
    N = 2
    MaxWrites = 3
PROPERTY
    ConsumerFinishes
CHECK_DEADLOCK FALSE
