SPECIFICATION ServingSpec
CONSTANTS
    u1 = u1
    u2 = u2
    u3 = u3
    u4 = u4
    None = None
    Workers = {w1}
    Controllers = {c1}
    AllocSlots = 2
    Users <- FourUsers
    Pairs <- DisjointPairs
    Keys = {k1, k2}
    MaxRooms = 1
    MaxInstances = 1
    MinInstances = 1
    Capacities = {}
    Readings <- CalmOnly
    Terms = {FALSE}
    Retention = FALSE
    Posted = {}
    Faults = {"halt", "provider"}
    Up = {w1}
SYMMETRY Symmetry
INVARIANTS
    OneRoomPerUser
    CapacityNeverExceeded
PROPERTIES
    RoomsEndOnce
