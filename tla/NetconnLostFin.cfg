SPECIFICATION FairSpec
CONSTANTS
    MaxConnects = 1
    MaxStarts = 1
    Budgets <- OneOfEach
    Protocols = {"udp"}
PROPERTY DisconnectIsTold
CHECK_DEADLOCK FALSE
