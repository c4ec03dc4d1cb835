SPECIFICATION TimerSpec
CONSTANTS
    Ids = {i}
    MaxTimers = 1
    MaxGoroutines = 1
PROPERTY ExecutedCanBeReset
CHECK_DEADLOCK FALSE
