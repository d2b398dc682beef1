CONSTANTS
    None = None
    MaxRounds = 2
    MaxChunks = 2
    MaxBeats = 1
SPECIFICATION FairSpec
INVARIANTS KeepaliveJoined StreamEndsOnce SuccessHasReply
PROPERTIES RequestReturns HandlerUnwinds
CHECK_DEADLOCK FALSE
