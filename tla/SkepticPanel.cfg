SPECIFICATION Spec
CONSTANTS
    Sizes = {1, 2, 3, 4}
    Verdicts <- MCVerdicts
    MaxSpawns = 4
INVARIANTS
    ApprovalIsIndependent
    BlockedOnlyOnWrittenBlockers
    FailuresNeverApprove
PROPERTIES
    GatekeeperFollowsGoal
CHECK_DEADLOCK FALSE
