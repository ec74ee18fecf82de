SPECIFICATION Spec
CONSTANTS
    Inboxes = {i1}
    Fetchers = {}
    Marks = {up}
    Up = up
    Refusing = {}
    Edits = FALSE
    MaxAttempts = 2
    LongBackoff = 2
    Prunes = TRUE
    MaxFailures = 0
    MaxCrashes = 1
PROPERTIES
    DeliveredOnce
CHECK_DEADLOCK FALSE
