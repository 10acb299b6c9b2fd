SPECIFICATION Spec
CONSTANTS
    x = x
    y = y
    z = z
    NoValue = NoValue
    Labels = {x, y}
    MaxLen = 3
    MaxId = 4
INVARIANTS
    TypeOK
    MirrorWhileSafe
    PathsExist
    DataReachesTarget
    DiffApplies
CHECK_DEADLOCK FALSE
