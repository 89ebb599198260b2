SPECIFICATION SpecContexts
CONSTANTS
    Documents <- MCDocuments
    Budget = 4
    MaxHits = 3
    SpiltMax = 4
    MergeMin = 3
    MergeMax = 5
    ForceMerge = 2
    Background = 6
    MaxDeaths = 1
INVARIANTS Restored  ReadsLikeDocument  HitsGiven EveryChunkTold
CHECK_DEADLOCK FALSE
