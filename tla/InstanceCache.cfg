SPECIFICATION FairSpec
CONSTANTS
    Hosts = {h1, h2}
    Writers = {w1, w2}
    Readers = {r1}
PROPERTIES
    CacheRepaired
    CacheSettles
    LookupsKept
