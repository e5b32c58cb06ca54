SPECIFICATION ControllerSpec
CONSTANTS
    Ids = {t1, t2, t3}
    Slots = {s1, s2}
    Callers = {c1}
    NoId = NoId
    CommandCap = 1
    MaxSlotQueue = 2
    MaxPending = 2
    MaxSlots = 1
    AdmissionCap = 1
    IdentityCap = 1
INVARIANTS
    NothingLost
    SlotExclusive
    WithinBudgets
    SlotsMoveOn
PROPERTIES
    VerdictIsFinal
SYMMETRY ControllerSymmetry
