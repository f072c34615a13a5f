SPECIFICATION MCSpec
CONSTANTS
    Processes = {p1, p2}
    Nobody = Nobody
    LeaseTerm = 6
    CallLimit = 1
    TxLimit = 1
    MaxClock = 15
    Workers = {w1, w2, w3}
    Poll = 2
    MaxRefusals = 1
CHECK_DEADLOCK FALSE
INVARIANTS
    OneCaller
    AnswersAreRecorded
PROPERTIES
    NobodyIsLeftAside
