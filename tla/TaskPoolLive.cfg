SPECIFICATION FairSpec
CONSTANTS
    Submitters = {s1}
    Calls = {"push", "pushWait"}
    Resizers = {}
    Closers = {k1}
    Modes = {"Shutdown", "ShutdownNow"}
    Tasks = {a}
    TimedTasks = {}
    Workers = {w1, w2, w3}
    MinWorkers = 1
    MaxWorkers = 2
    QueueSize = 1
    AutoScale = TRUE
    NoTask = NoTask
INVARIANTS WorkersBounded
PROPERTIES AcceptedIsRun CallsReturn
CHECK_DEADLOCK FALSE
