SPECIFICATION FairSpec
CONSTANTS
    o1 = o1
    o2 = o2
    b = b
    Actors = {b}
    Outside = {o1, o2}
    Host = b
    Asked = {b}
    Nested = {b}
    Modes <- MCModes
    Timers <- MCTimers
    WaitCap = 1
    Blocking = {b}
    Capacity = 1
    MaxCalls = 1
    MaxResponds = 2
CHECK_DEADLOCK FALSE
INVARIANT AskInv
INVARIANT TokensExact
PROPERTY EveryFutureCompletes
PROPERTY EveryAskReturns
