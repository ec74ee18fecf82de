SPECIFICATION Spec
CONSTANTS
    l1 = l1
    l2 = l2
    like1 = like1
    again1 = again1
    like2 = like2
    None = None
    Likes = {l1, l2}
    Actors = {l1, l2}
    LikeJobs = {like1, again1, like2}
    Undos = {undo1}
    LikedBy <- OneEach
    Of <- About
    Replies = {r}
    Votes = {v}
    Deletes = {d}
    Retried = {v}
SYMMETRY Symmetric
CONSTRAINT Claimed
INVARIANTS
    TypeOK
    LikesAgree
PROPERTIES
    EffectsKept
CHECK_DEADLOCK FALSE
