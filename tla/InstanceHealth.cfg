SPECIFICATION FairSpec
CONSTANTS
    Hosts = {h1}
    Jobs = {d1}
    Tasks = {t1}
    None = None
INVARIANTS
    TypeOK
    CutOffNeedsSilence
PROPERTIES
    DroppedOnlyAfterSilence
    Recovered
