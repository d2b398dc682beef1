CONSTANTS
    None = None
    Turns = {t1, t2, t3, t4}
    Cancels = {}
    Unmentioned = {}
    Messages = {"chat", "queue", "reset"}
    Settings <- SwitchSettings
    Configured <- SerialOldest
    MayExpire = TRUE
SPECIFICATION SwitchSpec
INVARIANTS WaitersCounted SequencesDistinct SupersededByNewer OldestByOverflow NoticeAtMostOnce
PROPERTIES PlainResetIsWhole
SYMMETRY Symmetry
