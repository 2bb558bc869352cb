SPECIFICATION FairSpec
CONSTANTS
    a1 = a1
    a2 = a2
    Artifacts = {a1, a2}
    Blocking = {a1}
    Size <- MCSize
    MaxQueueBytes = 2
    Capacity = 1
    MaxConcurrent = 1
    MaxAttempts = 1
    Threshold = 1
    Racing = {}
    MaxLives = 1
PROPERTIES
    WaitersAnswered
    DrainEnds
CHECK_DEADLOCK FALSE
