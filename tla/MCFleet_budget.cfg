SPECIFICATION Spec
CONSTANTS
    u1 = u1
    u2 = u2
    u3 = u3
    u4 = u4
    None = None
    Workers = {w1, w2}
    Controllers = {c1}
    AllocSlots = 0
    Users <- TwoUsers
    Pairs <- OnePair
    Keys = {k1}
    MaxRooms = 1
    MaxInstances = 1
    MinInstances = 1
    Capacities = {1}
    Readings <- CalmOnly
    Terms = {FALSE}
    Retention = TRUE
    Posted = {}
    Faults = {"crash", "halt", "provider"}
    Up = {}
SYMMETRY Symmetry
INVARIANTS
    CostCeiling
