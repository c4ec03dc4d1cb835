SPECIFICATION FairSpec
CONSTANTS
    Names = {x, y}
    Blocking = {y}
    Runner = runner
    Closers = {k}
    AddPhases = {"before", "running", "closing"}
    ClosePhases = {"startup", "running", "closing"}
    MaxGoroutines = 2
INVARIANTS RegistryConsistent WorkerReachable HooksAfterWorkers
PROPERTIES ShutdownEnds
CHECK_DEADLOCK FALSE
