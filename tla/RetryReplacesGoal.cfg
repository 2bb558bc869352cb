SPECIFICATION Spec
CONSTANTS
    StallThreshold = 2
    CapBonus = 1
    StrategistEvery = 2
    AmenderMaxRuns = 1
    InfraRetryMax = 4
    ReapproachAfter = 1
    CutoffAfter = 2
    IdleCutoffAfter = 1
    MaxRounds = 2
    PlanSizes = {1}
    MaxRows = 1
    Depends <- Chain
    MaxRuns = 2
    Gaps = {1}
    Answers = {"achieved", "rejected"}
    PendingCap = 1
    BlockedAttempts = 2
    FailureLimit = 3
    ClassifierEnabled = TRUE
    DebugAssertions = TRUE
    HasBudget = FALSE
    RoundResults = {"ok", "infra"}
    ModelOps = {"toggle", "claim"}
    UserOps = {"cancel"}
    MaxTurns = 4
PROPERTIES
    RetryNeverReplacesGoal
\* A session whose turns are used up stays idle.
CHECK_DEADLOCK FALSE
