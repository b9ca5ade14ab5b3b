SPECIFICATION BucketSpec
CONSTANTS
    Callers = {a, b}
    Setters = {s}
    Rate = 1
    NewRates = {0, 2}
    Burst = 2
    Need = 1
    Second = 2
    Half = 4
    MaxNow = 4
    MaxGranted = 5
INVARIANT BucketTypeOK
INVARIANT RateLimit
SYMMETRY Symmetry
CHECK_DEADLOCK FALSE
