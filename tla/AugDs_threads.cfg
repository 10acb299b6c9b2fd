SPECIFICATION Spec
CONSTANTS
    p1 = p1
    p2 = p2
    t1 = t1
    t2 = t2
    mA = mA
    mB = mB
    f1 = f1
    f2 = f2
    v1 = v1
    v2 = v2
    Absent = Absent
    Corrupt = Corrupt
    Partial = Partial
    None = None
    Threads = {t1, t2}
    Procs = {p1}
    ProcOf <- SharedProcess
    Mods = {mA, mB}
    Files = {f1, f2}
    ModOf <- FilePerModule
    Vals = {v1, v2}
    Uses64 = {}
    Faults = {}
    MaxCalls = 2
    MaxUpsets = 0
INVARIANTS
    StoreOkSaved
CHECK_DEADLOCK FALSE
