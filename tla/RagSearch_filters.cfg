SPECIFICATION Spec
CONSTANTS
    Corpus <- MCCorpus
    Files = {"gone", "kept"}
    Doomed = "gone"
    Requests <- MCFilterRequests
    Sims <- MCSims
    MatchScore = 2
    RerankThreshold = 4
    RetrievalNum = 4
    RerankNum = 3
    TopK = 3
    MaxItems = 1
INVARIANT FiltersHonoured
CHECK_DEADLOCK FALSE
