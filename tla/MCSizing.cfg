SPECIFICATION Spec
CONSTANTS
    MaxUnits = 15
    MaxPer = 9
    PoolBound = 16
    Precision = 4
INVARIANTS
    LeastCoveringCount
    FloatIsExact
