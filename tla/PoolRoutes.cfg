SPECIFICATION Spec
CONSTANTS
    Clients = {c1, c2}
    Streams = {s1}
    Tokens = {1}
    Routes = {r1, r2}
    Workers = {w1, w2, w3}
    MaxConnections = 2
    ReclaimMax = 1
    OpenProtocols = {"http", "http2"}
    Renegotiates = TRUE
    CallTimeouts = FALSE
    MaxLeases = 1
    Mortal = {}
    NoTimer = NoTimer
    None = None
SYMMETRY Symmetric
INVARIANTS
    TypeOK
    OneOpeningPerRoute
    OnlyOwnConn
    LimitRespected
    NoStrayLease
PROPERTIES
    LeasesKept
CHECK_DEADLOCK FALSE
