SPECIFICATION FairSpec
CONSTANTS
    c1 = c1
    c2 = c2
    Callers = {c1, c2}
    g1 = g1
    f = f
    Groups = {g1, f}
    FileGroup = f
    Questions = 2
    Batch = 1
    Kinds <- AllKinds
    MaxCalls = 2
    MaxFaults = 1
INVARIANTS
    VectorsMatchRows
    EsMatchesRows
    OneVersion
PROPERTIES
    DeletedIsPurged
CHECK_DEADLOCK FALSE
