SPECIFICATION FairSpec
CONSTANTS
    Clients = {c1, c2}
    Streams = {s1}
    Tokens = {1, 2}
    Routes = {r1}
    Workers = {w1}
    MaxConnections = 1
    ReclaimMax = 1
    OpenProtocols = {"http", "http2"}
    Renegotiates = FALSE
    CallTimeouts = TRUE
    MaxLeases = 1
    Mortal = {c1}
    NoTimer = NoTimer
    None = None
INVARIANTS
    HeldIsLeased
    Http1Exclusive
    IdleIsTimed
    OnlyOwnConn
    WaitersExpected
PROPERTIES
    NoEviction
    LeasesKept
    LockReleasedUnlessNoproc
    WaitersAnswered
    DeadForgotten
    IdleEnds
CHECK_DEADLOCK FALSE
