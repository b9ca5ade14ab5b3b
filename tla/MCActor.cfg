SPECIFICATION FairSpec
CONSTANTS
    m1 = m1
    m2 = m2
    Senders = {s1, s2}
    Starter = st
    Messages = {m1, m2}
    NoMessage = NoMessage
    Durable = {m1, m2}
    Marshal <- MCMarshal
    Capacity = 1
    UsedPolicies = {"expand", "block"}
    MaxRuns = 2
    MaxTears = 1
    Cuts = {2, 4, 5}
CHECK_DEADLOCK FALSE
INVARIANT TypeOK
INVARIANT ReplaySound
INVARIANT OncePerRun
PROPERTY OwedIsHandled
PROPERTY StopReturns
PROPERTY CloseFreesPush
