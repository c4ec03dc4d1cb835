SPECIFICATION BothSpec
CONSTANTS
    Adders = {a1}
    Matchers = {m1, m2}
    Requests <- MCRequests
    Routes = {"user", "again", "fixed", "files", "bad"}
    Pattern <- MCPattern
    Wrapped = {"user"}
    MaxParams = 1
    Method = "GET"
    Threshold = 1
    MaxEntries = 1
    EvictCount = 1
    MaxCount = 2
    None = None
    Layouts <- MCLayouts
    Elements <- MCElements
    Numbers = {0, 1, 2, 7}
    MaxLen = 2
    HalfByte = 1
    Dirt = {0, 1}
SYMMETRY Symmetry
CONSTRAINT TwoAtATime
INVARIANTS AnswerFits MatchIsRight CacheBounded RoundTrip
CHECK_DEADLOCK FALSE
