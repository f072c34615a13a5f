SPECIFICATION Spec
CONSTANTS
    Workers = {w1}
    Other = other
    Talking = {}
    PageSize = 1
    MaxPages = 3
    MaxMachines = 3
    MaxFaults = 1
    MaxSettings = 1
    MaxLosses = 1
CHECK_DEADLOCK FALSE
INVARIANTS
    OneMachine
    ListIsComplete
    NoFalseAlarm
