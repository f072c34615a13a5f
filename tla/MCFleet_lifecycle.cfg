SPECIFICATION Spec
CONSTANTS
    u1 = u1
    u2 = u2
    u3 = u3
    u4 = u4
    None = None
    Workers = {w1}
    Controllers = {c1}
    AllocSlots = 1
    Users <- TwoUsers
    Pairs <- OnePair
    Keys = {k1}
    MaxRooms = 1
    MaxInstances = 1
    MinInstances = 0
    Capacities = {1}
    Readings <- CalmOrBusy
    Terms = {FALSE, TRUE}
    Retention = TRUE
    Posted = {}
    Faults = {"crash", "halt", "provider"}
    Up = {}
INVARIANTS
    TypeOK
    RoomsOnServingWorkers
    OutboxMatchesRooms
    DeletesOnlyEmptyWorkers
PROPERTIES
    WorkersEndOnce
