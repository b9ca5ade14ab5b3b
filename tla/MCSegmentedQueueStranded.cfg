SPECIFICATION Spec
CONSTANTS
    Producers = {p1}
    Consumers = {c1}
    SegCap = 2
    MaxSeg = 2
    CountModulus = 16
    MaxSends = 3
INVARIANT NoneStranded
