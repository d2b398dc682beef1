CONSTANTS
    None = None
    Turns = {t1, t2, t3}
    Cancels = {c1}
    Unmentioned = {t2, t3}
    Messages = {"chat"}
    Settings <- NoSettings
    Configured <- LatestOldest
    MayExpire = FALSE
SPECIFICATION FairSpec
INVARIANTS NoStaleCancel
PROPERTIES EveryTurnReturns CancelEndsTurn
