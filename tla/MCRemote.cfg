SPECIFICATION FairSpec
CONSTANTS
    s1 = s1
    s2 = s2
    Senders = {s1, s2}
    Addrs = {b}
    Here = Here
    Nowhere = Nowhere
    MaxCalls <- MCCalls
    MaxEnabled = 2
    MaxMoves = 2
CHECK_DEADLOCK FALSE
INVARIANT TypeOK
INVARIANT NilMeansReached
INVARIANT StoppedIsClosed
INVARIANT PanicOnlyAtStop
PROPERTY TellReturns
