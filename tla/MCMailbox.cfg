SPECIFICATION Spec
CONSTANTS
    Pushers = {p1, p2}
    Closers = {x1}
    UsedPolicies = {"expand", "block", "drop"}
    LaneSize = 2
    UsedLanes = {"urgent", "normal"}
    Durable = {TRUE}
    MaxPushes = 2
CHECK_DEADLOCK FALSE
SYMMETRY Symmetry
INVARIANT TypeOK
INVARIANT NoLostWakeup
INVARIANT SizeAccounting
INVARIANT UrgentFirst
INVARIANT WriteAhead
