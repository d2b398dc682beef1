CONSTANTS
    None = None
    Keys = {k1}
    Objects = {o1}
    Turns = {t1}
    Cancels = {}
    Peekers = {}
    Probes = {}
    Sweepers = {s1}
    Purgers = {}
    Deleters = {}
    MaxSessionsPerUser = 2
    WorkersMayHang = FALSE
SPECIFICATION Spec
INVARIANTS NoUseAfterFree
SYMMETRY Symmetry
CHECK_DEADLOCK FALSE
