SPECIFICATION FairSpec
CONSTANTS
    Frames = {f1, f2}
    Scripts = {e1, e2}
    Heights = {10, 20}
    DefaultHeight = 15
    Undefined = Undefined
    MaxEvents = 1
INVARIANTS
    FitsWhenQuiet
PROPERTIES
    OwnHeight
    EventuallyFits
CHECK_DEADLOCK FALSE
