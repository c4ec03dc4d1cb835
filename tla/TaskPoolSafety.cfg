SPECIFICATION Spec
CONSTANTS
    Submitters = {s1, s2}
    Calls = {"push", "pushAsync", "pushWait"}
    Resizers = {r1}
    Closers = {k1}
    Modes = {"Shutdown", "ShutdownNow"}
    Tasks = {a, b}
    TimedTasks = {b}
    Workers = {w1, w2}
    MinWorkers = 1
    MaxWorkers = 2
    QueueSize = 1
    AutoScale = FALSE
    NoTask = NoTask
SYMMETRY Symmetry
INVARIANTS TaskInOnePlace FutureHonest WorkersBounded ShutdownDrains
CHECK_DEADLOCK FALSE
