CONSTANTS
    None = None
    Keys = {k1, k2}
    Objects = {o1, o2}
    Turns = {t1}
    Cancels = {c1}
    Peekers = {r1}
    Probes = {b1}
    Sweepers = {s1}
    Purgers = {e1}
    Deleters = {d1}
    MaxSessionsPerUser = 1
    WorkersMayHang = TRUE
SPECIFICATION FairSpec
INVARIANTS MapSound RefsMatchPins SessionLimit
PROPERTIES ShutdownCompletes
CHECK_DEADLOCK FALSE
