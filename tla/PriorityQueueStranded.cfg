SPECIFICATION Spec
CONSTANTS
    BucketCount = 2
    BucketCapacity = 1
    PriorityRange = 10
    StarvationN = 2
    low = low
    high = high
    top = top
    Tasks = {low, top}
    Priority <- Priorities
    Producers = {p1}
    Consumers = {c1, c2}
    BatchSizes = {}
    PopModes = {TRUE}
    Nobody = Nobody
    Closer = Closer
    NoTask = NoTask
SYMMETRY Symmetry
PROPERTY WorkersLeaveNone
CHECK_DEADLOCK FALSE
