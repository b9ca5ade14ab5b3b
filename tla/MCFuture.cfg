SPECIFICATION FairSpec
CONSTANTS
    Completers = {k1, k2}
    Registrars = {r1, r2}
    Awaiters = {w1, w2}
    Timed = {d1}
    None = None
CHECK_DEADLOCK FALSE
INVARIANT FutureInv
PROPERTY EarlyCallbackRuns
PROPERTY AwaitReturns
