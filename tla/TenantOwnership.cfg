CONSTANTS
    None = None
    Owners = {"a", "b"}
    Calls <- MCCalls
    LeaseSecs = 2
    Overlap = FALSE
    MaxNow = 6
    Files = {f1, f2, f3, f4}
    MaxFileNow = 2
SPECIFICATION OwnershipSpec
INVARIANTS ExclusiveOwners StandingOnRecord
PROPERTIES BlocksOthers
SYMMETRY FileSymmetry
CHECK_DEADLOCK FALSE
