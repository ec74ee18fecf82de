SPECIFICATION FairSpec
CONSTANTS
    MaxFollows = 2
    MaxUndos = 1
INVARIANTS
    AgreeWhenQuiet
    NoGhost
PROPERTIES
    ConsentKept
    SyncSettles
CHECK_DEADLOCK FALSE
