SPECIFICATION Spec
CONSTANTS
    ReapproachAfter = 3
    CutoffAfter = 6
    IdleCutoffAfter = 3
    MaxRounds = 13
    o1 = o1
    o2 = o2
    quiet = quiet
    c1 = c1
    Observations <- MCObservations
    IdleObservations <- MCIdleObservations
    Claims <- MCClaims
INVARIANTS
    StallNeverOutrunsCutoff
    AcceptedExactlyWhenEarned
    CutOffsSpacedOut
PROPERTIES
    EscalationIsSticky
    LoopTerminates
\* A prompt whose loop ended starts nothing by itself.
CHECK_DEADLOCK FALSE
