SPECIFICATION FairBreakerSpec
CONSTANTS
    Askers = {a1, a2, a3}
    Degraders = {a3}
    Threshold = 2
    OpenFor = 1
    MaxClock = 1
    MaxFailures = 3
CHECK_DEADLOCK FALSE
INVARIANT BreakerInv
PROPERTY ProbeResolved
