SPECIFICATION DropFairSpec
CONSTANTS
    Owners = {o1, o2, o3}
    Stuck = {o1}
    Limit = 3
    CoreWorkers = 2
    MaxWorkers = 3
    Slots = {}
    NoOwner = NoOwner
PROPERTY
    ValuesDestroyed
