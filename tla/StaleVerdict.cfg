SPECIFICATION Spec
CONSTANTS
    Sizes = {1, 3}
    Verdicts <- MCVerdicts
    MaxSpawns = 6
INVARIANTS
    ApprovalIsCurrent
CHECK_DEADLOCK FALSE
