SPECIFICATION MCSpec
CONSTANTS
    Allocations = {a1}
    Users = {u1, u2}
    Controllers = {p1, p2}
    MaxRevision = 2
    MaxCrashes = 1
    Workers = {w1}
CHECK_DEADLOCK FALSE
INVARIANTS
    RecordedWasSent
    SuccessWasServed
    TimeoutIsDeserved
PROPERTIES
    NotifiedNeverFalls
    EventuallyTold
    CreateIsAnswered
