CONSTANTS
    Capacity = 2
    Producers = {p1, p2}
    Consumers = {c1, c2}
    Tasks = {a, b}
    Nil = Nil
    BatchSizes = {2}
SPECIFICATION FairSpec
INVARIANTS RingInvariant NoLostSignal
PROPERTIES RefinesFifo QueueServes
CHECK_DEADLOCK FALSE
