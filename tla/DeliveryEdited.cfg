SPECIFICATION Spec
CONSTANTS
    Inboxes = {i1}
    Fetchers = {}
    Marks = {up}
    Up = up
    Refusing = {i1}
    Edits = TRUE
    MaxAttempts = 2
    LongBackoff = 2
    Prunes = TRUE
    MaxFailures = 0
    MaxCrashes = 1
INVARIANTS
    FinishedIsMarked
PROPERTIES
    NoLateCreate
    OutboxKept
CHECK_DEADLOCK FALSE
