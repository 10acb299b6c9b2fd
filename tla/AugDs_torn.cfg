SPECIFICATION Spec
CONSTANTS
    p1 = p1
    p2 = p2
    t1 = t1
    t2 = t2
    mA = mA
    mB = mB
    f1 = f1
    f2 = f2
    v1 = v1
    v2 = v2
    Absent = Absent
    Corrupt = Corrupt
    Partial = Partial
    None = None
    Threads = {t1, t2}
    Procs = {p1, p2}
    ProcOf <- OwnProcess
    Mods = {mA}
    Files = {f1}
    ModOf <- OneFile
    Vals = {v1, v2}
    Uses64 = {}
    Faults = {}
    MaxCalls = 4
    MaxUpsets = 3
SYMMETRY SymmetricProcs
INVARIANTS
    CommittedSurvives
CHECK_DEADLOCK FALSE
