SPECIFICATION Spec
CONSTANTS
    TTL = 3
    ResumeTTL = 2
    Reconnect = 4
    Lag = 1
    MaxClock = 10
CHECK_DEADLOCK FALSE
INVARIANTS
    NoEntryAfterExpiry
    NoResumeAfterWindow
    AbsencesAreTimed
PROPERTIES
    TicketsVerify
