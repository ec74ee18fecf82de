SPECIFICATION Spec
CONSTANTS
    Inboxes = {i1}
    Fetchers = {}
    Marks = {up}
    Up = up
    Refusing = {}
    Edits = FALSE
    MaxAttempts = 2
    LongBackoff = 2
    Prunes = FALSE
    MaxFailures = 0
    MaxCrashes = 0
INVARIANTS
    DeleteFollowsAccept
CHECK_DEADLOCK FALSE
