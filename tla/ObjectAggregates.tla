--------------------------- MODULE ObjectAggregates ---------------------------
(***************************************************************************)
(* One post, a poll, and the activities that change its row: Likes, their  *)
(* Undos, replies, votes and its deletion.  The row is one JSON value that *)
(* holds the content and what is counted (likes, repliesCount, votes).     *)
(* Every activity goes through the pipeline in a transaction of its own,   *)
(* at read committed; Likes, Undos and Deletes take the advisory lock of   *)
(* the post's id, replies and votes that of their own.  Object.data is     *)
(* written as a whole, except for the reply count, and the cache of        *)
(* objects is written inside the transactions.                             *)
(***************************************************************************)
EXTENDS Naturals

CONSTANTS
    Likes, Actors, LikedBy,     \* the Like activities and who likes
    LikeJobs, Undos,            \* deliveries of Likes, Undo activities
    Of,                         \* the Like that each of these is about
    Replies, Votes, Deletes,    \* the other activities
    Retried,                    \* bound: which of them are tried again
    None

Jobs == LikeJobs \cup Undos \cup Replies \cup Votes \cup Deletes
Kinds == {"Like", "Undo", "Reply", "Vote", "Delete"}

Kind(j) ==
    CASE j \in LikeJobs -> "Like"
      [] j \in Undos    -> "Undo"
      [] j \in Replies  -> "Reply"
      [] j \in Votes    -> "Vote"
      [] OTHER          -> "Delete"

ASSUME LikesAssumption ==
    LikedBy \in [Likes -> Actors] /\ Of \in [LikeJobs \cup Undos -> Likes]
ASSUME DisjointAssumption ==
    /\ LikeJobs \cap (Undos \cup Replies \cup Votes \cup Deletes) = {}
    /\ Undos \cap (Replies \cup Votes \cup Deletes) = {}
    /\ Replies \cap (Votes \cup Deletes) = {}
    /\ Votes \cap Deletes = {}
    /\ Likes \cap Jobs = {}
    /\ None \notin Jobs

VARIABLES
    row,        \* the committed row of the object
    cache,      \* its entry in the object cache, None if there is none
    view,       \* what a page view has loaded and is about to cache, or None
    lock,       \* the job that holds the advisory lock of the post's id
    stored,     \* the Like activities, replies and votes that are committed
    undone,     \* the Likes with a committed Undo
    step,       \* where each job is
    copy,       \* the row as a job has read it, then as it has written it
    older       \* history: the kinds of jobs that wrote over a newer row

activities == <<stored, undone>>
vars == <<row, cache, view, lock, activities, step, copy, older>>

Rows == [likes : SUBSET Actors, replies : SUBSET Replies, votes : SUBSET Votes, deleted : BOOLEAN]
Fresh == [likes |-> {}, replies |-> {}, votes |-> {}, deleted |-> FALSE]
Tombstone == [Fresh EXCEPT !.deleted = TRUE]

Steps == {"new", "checked", "waiting", "handling", "read", "written", "ready", "empty", "done"}

TypeOK ==
    /\ row \in Rows
    /\ cache \in Rows \cup {None} /\ view \in Rows \cup {None}
    /\ lock \in Jobs \cup {None}
    /\ stored \subseteq Likes \cup Replies \cup Votes
    /\ undone \subseteq Likes
    /\ step \in [Jobs -> Steps]
    /\ copy \in [Jobs -> Rows]
    /\ older \subseteq Kinds

Init ==
    /\ row = Fresh
    /\ cache = None /\ view = None
    /\ lock = None
    /\ stored = {} /\ undone = {}
    /\ step = [j \in Jobs |-> "new"]
    /\ copy = [j \in Jobs |-> Fresh]
    /\ older = {}

Go(j, s) == step' = [step EXCEPT ![j] = s]
Keep(j, r) == copy' = [copy EXCEPT ![j] = r]
End(j, s) == Go(j, s) /\ Keep(j, Fresh) /\ lock' = IF lock = j THEN None ELSE lock

\* get_cached_by_ap_id; a miss is loaded and put.
Seen == IF cache = None THEN row ELSE cache
Load == cache' = Seen

\* PostgreSQL's row lock, from a job's write to its commit.
RowFree == \A j \in Jobs : step[j] # "written"

\* update_and_set_cache: the cache is set before the commit.
Write(j, new) ==
    /\ RowFree
    /\ Go(j, "written") /\ Keep(j, new)
    /\ older' = IF copy[j] = row THEN older ELSE older \cup {Kind(j)}
    /\ cache' = new
    /\ UNCHANGED <<row, view, lock, activities>>

\* Ecto sends no UPDATE where nothing is changed, and the cache is set.
WriteLikes(j, likes) ==
    IF likes # copy[j].likes THEN Write(j, [copy[j] EXCEPT !.likes = likes])
    ELSE /\ Go(j, "ready") /\ cache' = copy[j]
         /\ UNCHANGED <<row, view, lock, activities, copy, older>>

(***************************************************************************)
(* Like and Undo                                                           *)
(***************************************************************************)

\* LikeValidator: the object is visible, the actor has no Like of it.
LikeCheck(j) ==
    /\ j \in LikeJobs /\ step[j] = "new"
    /\ Go(j, IF Seen.deleted \/ \E m \in stored \cap Likes : LikedBy[m] = LikedBy[Of[j]]
             THEN "done" ELSE "waiting")
    /\ Load
    /\ UNCHANGED <<row, view, lock, activities, copy, older>>

\* UndoValidator: the Like is there.
UndoCheck(j) ==
    /\ j \in Undos /\ step[j] = "new"
    /\ Go(j, IF Of[j] \in stored THEN "checked" ELSE "done")
    /\ UNCHANGED <<row, cache, view, lock, activities, copy, older>>

\* mutated_object_id: the post's id is in the Like; without it, no lock.
UndoFind(j) ==
    /\ j \in Undos /\ step[j] = "checked"
    /\ Go(j, IF Of[j] \in stored THEN "waiting" ELSE "handling")
    /\ UNCHANGED <<row, cache, view, lock, activities, copy, older>>

\* mutant: the lock of the activity's own id
MutLock(j) ==
    /\ step[j] = "waiting"
    /\ Go(j, "handling")
    /\ UNCHANGED <<row, cache, view, lock, activities, copy, older>>

\* maybe_lock_mutated_object
Lock(j) ==
    /\ step[j] = "waiting" /\ lock = None
    /\ lock' = j
    /\ Go(j, "handling")
    /\ UNCHANGED <<row, cache, view, activities, copy, older>>

\* The Like is a duplicate, or came after its Undo and is deleted again.
LikeSkip(j) ==
    /\ j \in LikeJobs /\ step[j] = "handling"
    /\ Of[j] \in stored \cup undone
    /\ End(j, "done")
    /\ UNCHANGED <<row, cache, view, activities, older>>

\* mutant: the cached object is taken, and a miss with it
MutReadRow(j) ==
    /\ step[j] = "handling"
    /\ \/ j \in LikeJobs /\ Of[j] \notin stored \cup undone
       \/ j \in Undos /\ Of[j] \in stored
    /\ Keep(j, cache) /\ Go(j, "read")
    /\ UNCHANGED <<row, cache, view, lock, activities, older>>

\* mutant: activity_already_undone? is not asked
ForgetUndo(j) ==
    /\ step[j] = "handling"
    /\ \/ j \in LikeJobs /\ Of[j] \notin stored
       \/ j \in Undos /\ Of[j] \in stored
    /\ Keep(j, row) /\ Go(j, "read")
    /\ UNCHANGED <<row, cache, view, lock, activities, older>>

\* The side effects of a Like and of its Undo read the row with get_by_ap_id.
ReadRow(j) ==
    /\ step[j] = "handling"
    /\ \/ j \in LikeJobs /\ Of[j] \notin stored \cup undone
       \/ j \in Undos /\ Of[j] \in stored
    /\ Keep(j, row) /\ Go(j, "read")
    /\ UNCHANGED <<row, cache, view, lock, activities, older>>

\* Nothing is left to be undone; the Undo is kept.
UndoNothing(j) ==
    /\ j \in Undos /\ step[j] = "handling" /\ Of[j] \notin stored
    /\ Go(j, "empty")
    /\ UNCHANGED <<row, cache, view, lock, activities, copy, older>>

AddLike(j) ==
    /\ j \in LikeJobs /\ step[j] = "read"
    /\ WriteLikes(j, copy[j].likes \cup {LikedBy[Of[j]]})

RemoveLike(j) ==
    /\ j \in Undos /\ step[j] = "read"
    /\ WriteLikes(j, copy[j].likes \ {LikedBy[Of[j]]})

(***************************************************************************)
(* Reply, vote and deletion                                                *)
(***************************************************************************)

\* increase_replies_count: one UPDATE, which sees the newest committed row.
\* Nothing comes back from update_all, and the cache is not set.
Reply(j) ==
    /\ j \in Replies /\ step[j] = "new"
    /\ RowFree
    /\ Keep(j, [row EXCEPT !.replies = @ \cup {j}]) /\ Go(j, "written")
    /\ UNCHANGED <<row, cache, view, lock, activities, older>>

\* AnswerValidator: the poll is visible.
VoteCheck(j) ==
    /\ j \in Votes /\ step[j] = "new"
    /\ Go(j, IF Seen.deleted THEN "done" ELSE "checked")
    /\ Load
    /\ UNCHANGED <<row, view, lock, activities, copy, older>>

\* increase_vote_count reads the cached poll, ...
VoteRead(j) ==
    /\ j \in Votes /\ step[j] = "checked"
    /\ IF Seen.deleted THEN Go(j, "ready") /\ UNCHANGED copy
       ELSE Keep(j, Seen) /\ Go(j, "read")
    /\ Load
    /\ UNCHANGED <<row, view, lock, activities, older>>

\* ... and writes all of it; an option's count has changed in any case.
VoteWrite(j) ==
    /\ j \in Votes /\ step[j] = "read"
    /\ Write(j, [copy[j] EXCEPT !.votes = @ \cup {j}])

\* DeleteValidator, maybe_skip_idempotent_delete
DeleteCheck(j) ==
    /\ j \in Deletes /\ step[j] = "new"
    /\ Go(j, IF Seen.deleted THEN "done" ELSE "waiting")
    /\ Load
    /\ UNCHANGED <<row, view, lock, activities, copy, older>>

\* Object.delete: the tombstone replaces the row, the entry of the cache goes
\* before the commit.
Bury(j) ==
    /\ j \in Deletes /\ step[j] = "handling"
    /\ IF Seen.deleted
       THEN Go(j, "ready") /\ Load /\ UNCHANGED copy
       ELSE RowFree /\ Go(j, "written") /\ Keep(j, Tombstone) /\ cache' = None
    /\ UNCHANGED <<row, view, lock, activities, older>>

(***************************************************************************)
(* The end of a transaction, and the cache                                 *)
(***************************************************************************)

\* What a job stores and removes besides the row.  delete_all_by_object_ap_id
\* takes the Likes with their Undos.
Record(j) ==
    CASE Kind(j) = "Like"   -> stored' = stored \cup {Of[j]} /\ UNCHANGED undone
      [] Kind(j) = "Undo"   -> stored' = (IF step[j] = "empty" THEN stored ELSE stored \ {Of[j]})
                               /\ undone' = undone \cup {Of[j]}
      [] Kind(j) = "Delete" -> stored' = stored \ Likes /\ undone' = undone \ stored
      [] OTHER              -> stored' = stored \cup {j} /\ UNCHANGED undone

\* Repo.delete raises where the Like is gone meanwhile: then only Abort is left.
Commit(j) ==
    /\ step[j] \in {"written", "ready", "empty"}
    /\ Kind(j) = "Undo" /\ step[j] # "empty" => Of[j] \in stored
    /\ row' = IF step[j] = "written" THEN copy[j] ELSE row
    /\ Record(j)
    /\ End(j, "done")
    /\ UNCHANGED <<cache, view, older>>

\* The transaction fails or the node stops; an incoming activity is tried again.
Abort(j) ==
    /\ step[j] \in Steps \ {"new", "done"}
    /\ \/ End(j, "done")
       \/ j \in Retried /\ End(j, "new")
    /\ UNCHANGED <<row, cache, view, activities, older>>

\* A page view loads the object, ...
ViewLoad ==
    /\ cache = None /\ view = None
    /\ view' = row
    /\ UNCHANGED <<row, cache, lock, activities, step, copy, older>>

\* ... and puts it into the cache.
ViewPut ==
    /\ view # None
    /\ cache' = view /\ view' = None
    /\ UNCHANGED <<row, lock, activities, step, copy, older>>

\* The time to live is over, or the cache was too large.
Expire ==
    /\ cache # None /\ cache' = None
    /\ UNCHANGED <<row, view, lock, activities, step, copy, older>>

Next ==
    \/ \E j \in Jobs :
        \/ LikeCheck(j) \/ UndoCheck(j) \/ UndoFind(j) \/ Lock(j)
        \/ LikeSkip(j) \/ ReadRow(j) \/ UndoNothing(j) \/ AddLike(j) \/ RemoveLike(j)
        \/ Reply(j) \/ VoteCheck(j) \/ VoteRead(j) \/ VoteWrite(j)
        \/ DeleteCheck(j) \/ Bury(j)
        \/ Commit(j) \/ Abort(j)
    \/ ViewLoad \/ ViewPut \/ Expire

Spec == Init /\ [][Next]_vars

(***************************************************************************)
(* Properties                                                              *)
(***************************************************************************)

\* The post's list of likes is that of the stored Likes, whoever likes, undoes
\* and redelivers at once, as long as no vote wrote an older copy.  An actor of
\* two stored Likes is not listed any more when one of them was undone.
LikesAgree ==
    ~row.deleted /\ "Vote" \notin older =>
        /\ row.likes \subseteq {LikedBy[l] : l \in stored \cap Likes}
        /\ \A l \in stored \cap Likes :
            \/ LikedBy[l] \in row.likes
            \/ \E m \in undone : LikedBy[m] = LikedBy[l]

\* A Like that arrives again, before, with or after its Undo, is not stored once
\* the Undo is.
UndoneStaysUndone ==
    ~row.deleted /\ "Vote" \notin older => stored \cap undone = {}

\* A deleted post does not come back by a like, an undo or a reply that was
\* under way.
DeletedStaysDeleted ==
    [][row.deleted => row'.deleted \/ "Vote" \in older']_vars

(***************************************************************************)
(* The promise of PostAggregates, and what it sees of the row              *)
(***************************************************************************)

Overwritten ==
    (IF older = {} THEN {} ELSE {"counts"}) \cup (IF "Vote" \in older THEN {"post"} ELSE {})

Post == INSTANCE PostAggregates WITH
    Countable <- Replies \cup Votes,
    likes <- row.likes, counts <- row.replies \cup row.votes, deleted <- row.deleted,
    over <- Overwritten

\* However the transactions, the cache and the redeliveries interleave, the row
\* changes as if every Like, Undo, reply, vote and deletion were one step: its
\* own effect is there when it commits, and no other's is gone.
EffectsKept == Post!PostSpec
=============================================================================
