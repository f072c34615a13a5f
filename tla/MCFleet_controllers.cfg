SPECIFICATION Spec
CONSTANTS
    u1 = u1
    u2 = u2
    u3 = u3
    u4 = u4
    None = None
    Workers = {w1}
    Controllers = {c1, c2}
    AllocSlots = 0
    Users <- TwoUsers
    Pairs <- OnePair
    Keys = {k1}
    MaxRooms = 1
    MaxInstances = 1
    MinInstances = 1
    Capacities = {1}
    Readings <- CalmOnly
    Terms = {FALSE, TRUE}
    Retention = FALSE
    Posted = {TRUE, FALSE}
    Faults = {"crash", "halt", "provider"}
    Up = {}
SYMMETRY Symmetry
INVARIANTS
    StartOnce
    FencedResults
