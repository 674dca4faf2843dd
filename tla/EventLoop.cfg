SPECIFICATION FairSpec
CONSTANTS
    Work = {w1, w2}
    Limit = Limit
    UserExit = UserExit
    Cycles = {2, 9}
    MaxTick = 4
    InnerDelay = {0, 1, 2}
    OuterDelay = {0, 1, 2}
    NULL = NULL
INVARIANTS
    TypeOK
    NoEventOverdue
    NeverAsleep
    NoMissedEvent
    SimulateFindsExit
PROPERTY
    SimulateReturns
CHECK_DEADLOCK FALSE
