CONSTANTS
    None = None
    MaxRounds = 2
    MaxChunks = 2
    MaxBeats = 1
SPECIFICATION Spec
INVARIANTS OkHasReply

CHECK_DEADLOCK FALSE
