CONSTANTS
    None = None
    Turns = {t1, t2, t3, t4}
    Cancels = {}
    Unmentioned = {}
    Messages = {"chat", "reset"}
    Settings <- NoSettings
    Configured <- SerialSummarize
    MayExpire = FALSE
SPECIFICATION Spec
PROPERTIES ResetIsWhole
