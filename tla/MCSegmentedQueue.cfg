SPECIFICATION Spec
CONSTANTS
    Producers = {p1, p2}
    Consumers = {c1}
    SegCap = 2
    MaxSeg = 2
    CountModulus = 16
    MaxSends = 4
SYMMETRY Symmetry
INVARIANT SegmentInv
INVARIANT ProducerOrder
