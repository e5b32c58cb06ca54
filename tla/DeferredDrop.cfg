SPECIFICATION DropSpec
CONSTANTS
    Owners = {o1, o2, o3, o4}
    Stuck = {}
    Limit = 3
    CoreWorkers = 1
    MaxWorkers = 3
    Slots = {"outcome"}
    NoOwner = NoOwner
INVARIANTS
    UnitsConserved
    PoolExact
    BacklogAttended
PROPERTY
    NoBarging
SYMMETRY OwnerSymmetry
