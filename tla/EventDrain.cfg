SPECIFICATION DeliverySpec
CONSTANTS
    Lanes <- SharedPair
    Dedicated = {}
    Hung = {}
    Panicky = {}
    SharedWorker = "shared"
    Publishers = {p1}
    RingCapacity = 2
    LaneCapacity = 2
    Quantum = 2
    DrainLimit = 2
    MaxEvents = 2
    MaxPanics = 0
INVARIANT
    CloseDrains
CHECK_DEADLOCK FALSE
