CONSTANTS
    None = None
    Owners = {"a", "b"}
    Calls <- MCCalls
    LeaseSecs = 2
    Overlap = TRUE
    MaxNow = 6
SPECIFICATION Spec
INVARIANTS ExclusiveOwners
CHECK_DEADLOCK FALSE
