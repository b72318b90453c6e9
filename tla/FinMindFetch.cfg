\* two tasks on one client: bursts, waits and retries over three time periods
SPECIFICATION FetchSpec
CONSTANTS
    MaxAttempts = 3
    NoReply = NoReply
    Callers = {c1, c2}
    MaxRate = 2
    TimePeriod = 3
    WaitInitial = 1
    WaitMax = 2
    Jitter = {0, 1}
    Timeout = 2
    MaxTime = 8
SYMMETRY Symmetry
INVARIANTS
    FetchTypeOK
    RateBound
    WaitIsShort
    GivesUpLate
