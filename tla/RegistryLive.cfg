SPECIFICATION WaiterSpec
CONSTANTS
    Ids = {t1, t2}
    Names = {t1, t2}
    NameOf <- OwnNames
    NoId = NoId
    Limit = 1
    QueueCap = 1
    MaxStops = 1
INVARIANT
    WithinLimit
PROPERTIES
    RequestsSettle
    ShutdownEnds
    EmptyNoticed
