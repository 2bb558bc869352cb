SPECIFICATION FairSpec
CONSTANTS
    Criteria = 3
    Tables <- MCTables
    Files <- MCFiles
    Wild <- MCWild
    Braces <- MCBraces
INVARIANTS
    NoLostEdit
    AlwaysSchedulable
    DeclaredOrderKept
    MalformedRunsSerially
    InvalidatesExactlyDependents
PROPERTIES
    LoopsEnd
CHECK_DEADLOCK FALSE
