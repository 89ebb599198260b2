SPECIFICATION FairSpec
CONSTANTS
    e1 = e1
    e2 = e2
    r1 = r1
    p1 = p1
    p2 = p2
    a = a
    b = b
    Editors = {e1, e2}
    Readers = {r1}
    Procs = {p1, p2}
    ProcOf <- TwoProcesses
    Texts = {a, b}
    TokensOf <- TokenCounts
    MaxId = 4
    Kinds <- AllKinds
    MaxCalls = 2
    MaxFaults = 1
INVARIANTS
    RowIsFindable
    
    PositionsDistinct
    CacheIsFresh
PROPERTIES
    CallsEnd
CHECK_DEADLOCK FALSE
