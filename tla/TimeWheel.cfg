SPECIFICATION Spec
CONSTANTS
    TIME_NEAR = 2
    TIME_LEVEL = 2
    n1 = n1
    n2 = n2
    Nodes = {n1, n2}
    Delays = {1, 3, 8, 29}
INVARIANTS
    WheelSound
    ClearFreesAll
    FiresOnTime
    OverdueOnlyInNeverMoved
PROPERTIES
    FreedInItsTick
SYMMETRY Symmetry
