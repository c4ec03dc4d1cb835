SPECIFICATION FairSpec
CONSTANTS
    BucketCount = 2
    BucketCapacity = 1
    PriorityRange = 10
    StarvationN = 2
    low = low
    high = high
    top = top
    Tasks = {low, top}
    Priority <- Priorities
    Producers = {p1}
    Consumers = {c1, c2}
    BatchSizes = {2}
    PopModes = {TRUE, FALSE}
    Nobody = Nobody
    Closer = Closer
    NoTask = NoTask
INVARIANTS BucketsConsistent
PROPERTIES QuitLeaves LowestIsServed
CHECK_DEADLOCK FALSE
