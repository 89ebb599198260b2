CONSTANTS
    MaxTurns = 2
    MaxSteps = 2
    MaxTasks = 2
    MaxDeltas = 1
    Interval = 1
    Files = {f1}
    Modes <- BothModes
SPECIFICATION FairSpec
INVARIANTS NothingCutOff FramesIntact EventOrder 
PROPERTIES ResultsKept RunEnds
CHECK_DEADLOCK FALSE
