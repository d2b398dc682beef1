CONSTANTS
    None = None
    Keys = {k1, k2}
    Objects = {o1, o2, o3}
    Turns = {t1, t2}
    Cancels = {c1}
    Peekers = {r1}
    Probes = {}
    Sweepers = {}
    Purgers = {e1}
    Deleters = {d1, d2}
    MaxSessionsPerUser = 2
    WorkersMayHang = FALSE
    Users = {"u", "v"}
    Readers = {q1}
    Patches = {p1, p2}
    UserOf <- MCUserOf
    Runtimes = {x1, x2}
    IdleTtl = 1
    MaxUsers = 1
    MaxNow = 2
    Seed = "seed"
SPECIFICATION LevelsSpec
INVARIANTS NoUseAfterFree OneTurnPerKey TurnsInFlightSpared IdleSparesRecent StaleIsMarked EditsKept
CONSTRAINTS PurgesAlone FewRequests
SYMMETRY Symmetry
CHECK_DEADLOCK FALSE
