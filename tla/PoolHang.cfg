SPECIFICATION FairSpec
CONSTANTS
    Clients = {c1, c2}
    Streams = {s1}
    Tokens = {1}
    Routes = {r1}
    Workers = {w1, w2}
    MaxConnections = 1
    ReclaimMax = 1
    OpenProtocols = {"http"}
    Renegotiates = FALSE
    CallTimeouts = FALSE
    MaxLeases = 1
    Mortal = {}
    NoTimer = NoTimer
    None = None
PROPERTIES
    LockReleased
CHECK_DEADLOCK FALSE
