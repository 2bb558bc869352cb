SPECIFICATION Spec
CONSTANTS
    StallThreshold = 1
    CapBonus = 1
    StrategistEvery = 2
    AmenderMaxRuns = 1
    InfraRetryMax = 1
    ReapproachAfter = 1
    CutoffAfter = 2
    IdleCutoffAfter = 1
    MaxRounds = 2
    PlanSizes = {2, 3}
    MaxRows = 3
    Depends <- Chain
    MaxRuns = 1
    Gaps = {1}
    Answers = {"achieved", "rejected", "blocked"}
    PendingCap = 2
    BlockedAttempts = 2
    FailureLimit = 2
    ClassifierEnabled = TRUE
    DebugAssertions = TRUE
    HasBudget = FALSE
    RoundResults = {"ok"}
    ModelOps = {"toggle", "claim"}
    UserOps = {}
    MaxTurns = 2
INVARIANTS
    TypeOK
    AuditRespectsDependencies
    AttemptsBounded
PROPERTIES
    TurnEnds
    ImplementsAuthority
\* A session whose turns are used up stays idle.
CHECK_DEADLOCK FALSE
