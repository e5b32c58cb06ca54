SPECIFICATION DeliveryFairSpec
CONSTANTS
    Lanes <- MixedPair
    Dedicated = {"d1"}
    Hung = {"d1"}
    Panicky = {"s1"}
    SharedWorker = "shared"
    Publishers = {p1}
    RingCapacity = 2
    LaneCapacity = 2
    Quantum = 2
    DrainLimit = 1
    MaxEvents = 3
    MaxPanics = 1
INVARIANTS
    LossAccounted
    SerialInOrder
    LanesAttended
PROPERTY
    Settles
CHECK_DEADLOCK FALSE
