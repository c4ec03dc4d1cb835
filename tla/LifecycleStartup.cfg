SPECIFICATION Spec
CONSTANTS
    Names = {x, y}
    Blocking = {y}
    Runner = runner
    Closers = {k}
    AddPhases = {"startup"}
    ClosePhases = {"running", "closing"}
    MaxGoroutines = 4
INVARIANT WorkerReachable
CHECK_DEADLOCK FALSE
