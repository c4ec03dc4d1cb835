SPECIFICATION Spec
CONSTANTS
    Algorithms = {"reno", "cubic", "vegas", "bbr"}
    PacketSize = 3
    InitialCWnd = 6
    MaxCWnd = 10
    DefaultSsthresh = 8
    Rtts = {0, 1, 3}
    Ticks = 4
    MaxSamples = 2
    MaxLosses = 1
    MaxDuplicates = 4
    States = {"a", "p", "q", "b", "x"}
    Events = {"e", "f"}
    Initial = "a"
    Parent <- MCParent
    Rules <- MCRules
    LateRules <- MCLateRules
    QueueSize = 1
    MaxEvents = 2
    MaxStarts = 2
    Uses <- MCUses
    Ids = {i, j}
    MaxTimers = 2
    MaxGoroutines = 3
INVARIANTS CallbacksFollow EventsInOrder WindowHolds RegisteredIsServed
PROPERTIES AcceptedIsHandled WindowRecovers StoppedEnds
CHECK_DEADLOCK FALSE
