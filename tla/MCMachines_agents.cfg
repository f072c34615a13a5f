SPECIFICATION Spec
CONSTANTS
    Workers = {w1}
    Other = other
    Talking = {w1}
    PageSize = 1
    MaxPages = 2
    MaxMachines = 2
    MaxFaults = 1
    MaxSettings = 1
    MaxLosses = 1
CHECK_DEADLOCK FALSE
INVARIANTS
    NoOrphans
PROPERTIES
    EventuallyFound
    EventuallyStopped
    EventuallyReleased
