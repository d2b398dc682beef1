CONSTANTS
    None = None
    Mapped = mapped
    Unmapped = unmapped
    traffic = traffic
    Binding = binding
    other = other
    ours = ours
    theirs = theirs
    u1 = u1
    Deliveries = {mapped, unmapped, traffic}
    Edits = {binding, other}
    Ids = {ours, theirs}
    Users = {u1}
    IdOf <- MCIdOf
    UserOf <- MCUserOf
    UpdateOf <- MCUpdateOf
    EditOf <- MCEditOf
    PositiveTtl = 1
    NegativeTtl = 1
    MaxNow = 1
    MaxFaults = 1
    MaxRejected = 1
    TrafficKinds = {"group"}
    StrictSettings <- MCStrictSettings
    CommandLines <- MCCommandLines
    Latencies <- MCLatencies
    MaxMessages = 3
SPECIFICATION ScriptsSpec
INVARIANTS StaleIsBounded StaleOnlyByRace ProcessedAtMostOnce SuccessMeansStrict BindingTakesEffect RefusalsCounted GateSound DiagnosticsBracket ContextIsOwn
CHECK_DEADLOCK FALSE
