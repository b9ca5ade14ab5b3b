SPECIFICATION Spec
CONSTANTS
    Producers = {p1, p2}
    Consumers = {c1, c2}
    Values = {v1, v2}
    Nil = Nil
    Capacity = 2
    MaxTickets = 3
SYMMETRY Symmetry
INVARIANT TypeOK
INVARIANT RingInv
INVARIANT CellExclusive
INVARIANT FifoDelivery
PROPERTY RefinesTicketQueue
