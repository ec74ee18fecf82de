---------------------------- MODULE PostAggregates ----------------------------
(***************************************************************************)
(* What the row of a post promises about the Likes, replies and votes it   *)
(* counts: each of them takes effect at once and once, none takes back     *)
(* what another did, an undone Like is not taken again, and a post that is *)
(* deleted stays so.  Who reads, locks, caches and fails on the way is     *)
(* left out.  The promise ends where somebody writes over a newer row,     *)
(* for the counts, and where a vote does, for the post: from then on a     *)
(* step may do what it wants.  ObjectAggregates implements this.           *)
(***************************************************************************)
CONSTANTS
    Likes, LikedBy,     \* the Like activities and who likes
    Countable           \* the replies and the votes

VARIABLES
    likes,      \* the actors the post lists
    counts,     \* the replies and votes it counts
    deleted,
    stored,     \* the activities that are kept
    undone,     \* the Likes that were taken back
    over        \* what was written over: "counts", "post"

postVars == <<likes, counts, deleted, stored, undone, over>>

PostInit ==
    /\ likes = {} /\ counts = {} /\ deleted = FALSE
    /\ stored = {} /\ undone = {}
    /\ over = {}

Sound == ~deleted /\ "post" \notin over

CountsAre(c) == "counts" \notin over => counts' = c

Like(l) ==
    /\ Sound /\ l \notin stored \cup undone
    /\ likes' = likes \cup {LikedBy[l]} /\ stored' = stored \cup {l}
    /\ CountsAre(counts)
    /\ UNCHANGED <<deleted, undone, over>>

Undo(l) ==
    /\ Sound /\ l \in stored
    /\ likes' = likes \ {LikedBy[l]} /\ stored' = stored \ {l}
    /\ undone' = undone \cup {l}
    /\ CountsAre(counts)
    /\ UNCHANGED <<deleted, over>>

Count(x) ==
    /\ Sound
    /\ stored' = stored \cup {x}
    /\ CountsAre(counts \cup {x})
    /\ UNCHANGED <<likes, deleted, undone, over>>

\* The post goes, and its Likes with it.
Delete ==
    /\ Sound /\ deleted'
    /\ likes' = {} /\ counts' = {}
    /\ stored' = stored \ Likes
    /\ UNCHANGED <<undone, over>>

\* A job has taken an older copy for its own, and is about to commit it.
Overtaken ==
    /\ over' # over /\ over \subseteq over'
    /\ UNCHANGED <<likes, counts, deleted, stored, undone>>

\* Nothing is promised of a tombstone but that it is one.
OfTombstone == deleted /\ deleted' /\ UNCHANGED over

Spoilt == "post" \in over /\ UNCHANGED over

PostNext ==
    \/ \E l \in Likes : Like(l) \/ Undo(l)
    \/ \E x \in Countable : Count(x)
    \/ Delete \/ Overtaken \/ OfTombstone \/ Spoilt

PostSpec == PostInit /\ [][PostNext]_postVars
=============================================================================
