SPECIFICATION Spec
CONSTANTS
    Corpus <- MCCorpus
    Files = {"gone", "kept"}
    Doomed = "gone"
    Requests <- MCRequests
    Sims <- MCSims
    MatchScore = 2
    RerankThreshold = 4
    RetrievalNum = 4
    RerankNum = 3
    TopK = 3
    MaxItems = 1
INVARIANTS NeverUnderrated DirectAnswerEarned DeletedUnseen StreamOrder
CHECK_DEADLOCK FALSE
