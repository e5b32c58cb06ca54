SPECIFICATION ControllerFairSpec
CONSTANTS
    Ids = {t1, t2}
    Slots = {s1}
    Callers = {c1, c2}
    NoId = NoId
    CommandCap = 1
    MaxSlotQueue = 1
    MaxPending = 2
    MaxSlots = 1
    AdmissionCap = 1
    IdentityCap = 1
INVARIANT
    AnswersHonest
PROPERTIES
    ReplacedOwnerLeaves
    ShutdownResolves
