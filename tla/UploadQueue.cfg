SPECIFICATION Spec
CONSTANTS
    a1 = a1
    a2 = a2
    Artifacts = {a1, a2}
    Blocking = {a1}
    Size <- MCSize
    MaxQueueBytes = 2
    Capacity = 1
    MaxConcurrent = 1
    MaxAttempts = 2
    Threshold = 1
    Racing = {a2}
    MaxLives = 2
INVARIANTS
    TypeOK
    NothingLost
    FlushIsTruthful
CHECK_DEADLOCK FALSE
