SPECIFICATION FairSpec
CONSTANTS
    Callers = {c1}
    MaxEdits = 1
    MaxWatchers = 2
    MaxCrashes = 1
    Torn = Torn
    Partial = Partial
    NoFile = NoFile
INVARIANTS FileIntact ListenerIsCurrent
PROPERTIES SeenIsServed
CHECK_DEADLOCK FALSE
