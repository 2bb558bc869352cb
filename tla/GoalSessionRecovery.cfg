SPECIFICATION Spec
CONSTANTS
    StallThreshold = 2
    CapBonus = 1
    StrategistEvery = 2
    AmenderMaxRuns = 2
    InfraRetryMax = 2
    ReapproachAfter = 1
    CutoffAfter = 2
    IdleCutoffAfter = 1
    MaxRounds = 2
    PlanSizes = {1}
    MaxRows = 1
    Depends <- Chain
    MaxRuns = 2
    Gaps = {1}
    Answers = {"achieved", "rejected"}
    PendingCap = 1
    BlockedAttempts = 2
    FailureLimit = 3
    ClassifierEnabled = TRUE
    DebugAssertions = TRUE
    HasBudget = TRUE
    RoundResults = {"ok", "infra", "auth"}
    ModelOps = {"toggle", "claim"}
    UserOps = {"posture"}
    MaxTurns = 4
INVARIANTS
    RetryNeverLost
\* A session whose turns are used up stays idle.
CHECK_DEADLOCK FALSE
