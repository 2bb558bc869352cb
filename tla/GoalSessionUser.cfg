SPECIFICATION Spec
CONSTANTS
    StallThreshold = 2
    CapBonus = 1
    StrategistEvery = 2
    AmenderMaxRuns = 1
    InfraRetryMax = 1
    ReapproachAfter = 1
    CutoffAfter = 2
    IdleCutoffAfter = 1
    MaxRounds = 2
    PlanSizes = {1}
    MaxRows = 2
    Depends <- Chain
    MaxRuns = 1
    Gaps = {1}
    Answers = {"achieved", "rejected", "blocked", "fail_open"}
    PendingCap = 1
    BlockedAttempts = 2
    FailureLimit = 2
    ClassifierEnabled = TRUE
    DebugAssertions = TRUE
    HasBudget = TRUE
    RoundResults = {"ok", "refused", "failed"}
    ModelOps = {"toggle", "claim", "blocked", "add_row"}
    UserOps = {"cancel", "send_now", "posture", "resume", "pause", "clear"}
    MaxTurns = 2
INVARIANTS
    BonusEarned
    PendingOnlyWhileActive
PROPERTIES
    ImplementsAuthority
\* A session whose turns are used up stays idle.
CHECK_DEADLOCK FALSE
