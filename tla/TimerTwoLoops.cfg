SPECIFICATION TimerSpec
CONSTANTS
    Ids = {i}
    MaxTimers = 2
    MaxGoroutines = 3
INVARIANT OneLoop
CHECK_DEADLOCK FALSE
