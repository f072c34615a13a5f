SPECIFICATION ServingSpec
CONSTANTS
    u1 = u1
    u2 = u2
    u3 = u3
    u4 = u4
    None = None
    Workers = {w1, w2}
    Controllers = {c1}
    AllocSlots = 1
    Users <- TwoUsers
    Pairs <- OnePair
    Keys = {k1}
    MaxRooms = 1
    MaxInstances = 2
    MinInstances = 1
    Capacities = {}
    Readings <- CalmOnly
    Terms = {FALSE}
    Retention = FALSE
    Posted = {}
    Faults = {}
    Up = {w1, w2}
SYMMETRY Symmetry
PROPERTIES
    FailuresAreLocal
