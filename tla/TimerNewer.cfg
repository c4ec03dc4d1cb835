SPECIFICATION TimerSpec
CONSTANTS
    Ids = {i}
    MaxTimers = 2
    MaxGoroutines = 2
PROPERTY RemovesItsOwn
CHECK_DEADLOCK FALSE
