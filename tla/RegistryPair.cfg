SPECIFICATION QuerySpec
CONSTANTS
    Ids = {t1, t2}
    Names = {"a"}
    NameOf <- OneName
    NoId = NoId
    Limit = 2
    QueueCap = 2
    MaxStops = 2
INVARIANTS
    PromiseInvariant
    NameExclusive
    ActorsOwned
    LatchesHonest
    OutcomeHonest
    VerdictSound
    NeverOverlooked
PROPERTIES
    TerminalIsFinal
    ImplementsLease
SYMMETRY IdSymmetry
