SPECIFICATION Spec
CONSTANTS
    StallThreshold = 1
    CapBonus = 1
    StrategistEvery = 1
    AmenderMaxRuns = 1
    InfraRetryMax = 1
    Criteria <- TrackedCriteria
    Gaps <- TrackedGaps
    MaxCount = 2
INVARIANTS
    TimerRunsExactlyWhileActive
    StrategistNeverSilenced
PROPERTIES
    TerminalIsFinal
