SPECIFICATION FairSpec
CONSTANTS
    MaxArrivals = 2
    Budgets <- MCBudgets
    Orders <- MCOrders
INVARIANTS
    RunningIsFront
PROPERTIES
    CancelHitsOnlyStarted
    StartedOnce
    EveryPromptAnswered
    NoAsideStranded
