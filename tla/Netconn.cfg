SPECIFICATION FairSpec
CONSTANTS
    MaxConnects = 2
    MaxStarts = 2
    Budgets <- MCBudgets
    Protocols = {"tcp", "udp"}
INVARIANTS NothingOutlivesHandler ClientTellsOnce
PROPERTIES EndsAreNoticed
CHECK_DEADLOCK FALSE
