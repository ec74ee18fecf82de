SPECIFICATION FairSpec
CONSTANTS
    Inboxes = {i1, i2}
    Fetchers = {i2}
    Marks = {up}
    Up = up
    Refusing = {}
    Edits = FALSE
    MaxAttempts = 3
    LongBackoff = 3
    Prunes = TRUE
    MaxFailures = 1
    MaxCrashes = 1
INVARIANTS
    TypeOK
    NothingLost
PROPERTIES
    EventuallyDelivered
CHECK_DEADLOCK FALSE
