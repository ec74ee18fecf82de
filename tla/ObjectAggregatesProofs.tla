------------------------ MODULE ObjectAggregatesProofs ------------------------
(***************************************************************************)
(* For any activities: the types, the two locks, and that the list of      *)
(* likes, the Undos and the tombstone are kept as long as no vote has      *)
(* written an older copy of the row; and that the transactions implement   *)
(* PostAggregates.                                                         *)
(***************************************************************************)
EXTENDS ObjectAggregates, TLAPS

LEMMA KindOf ==
    ASSUME NEW j \in Jobs
    PROVE  /\ Kind(j) \in Kinds
           /\ j \in LikeJobs <=> Kind(j) = "Like"
           /\ j \in Undos <=> Kind(j) = "Undo"
           /\ j \in Replies <=> Kind(j) = "Reply"
           /\ j \in Votes <=> Kind(j) = "Vote"
           /\ j \in Deletes <=> Kind(j) = "Delete"
BY DisjointAssumption DEF Jobs, Kind, Kinds

LEMMA FreshType == Fresh \in Rows /\ Tombstone \in Rows /\ Tombstone.deleted /\ ~Fresh.deleted
BY DEF Fresh, Tombstone, Rows

LEMMA SeenType == TypeOK => Seen \in Rows
BY DEF TypeOK, Seen

\* The Like and its actor are known.
LEMMA OfType ==
    ASSUME NEW j \in LikeJobs \cup Undos
    PROVE  Of[j] \in Likes /\ LikedBy[Of[j]] \in Actors
BY LikesAssumption

\* A row with other likes is a row, and nothing else in it is changed.
LEMMA LikesOfRow ==
    ASSUME NEW r \in Rows, NEW likes \in SUBSET Actors
    PROVE  /\ [r EXCEPT !.likes = likes] \in Rows
           /\ [r EXCEPT !.likes = likes].likes = likes
           /\ [r EXCEPT !.likes = likes].deleted = r.deleted
           /\ [r EXCEPT !.likes = likes].replies = r.replies
           /\ [r EXCEPT !.likes = likes].votes = r.votes
BY DEF Rows

LEMMA RepliesOfRow ==
    ASSUME NEW r \in Rows, NEW j \in Replies
    PROVE  LET new == [r EXCEPT !.replies = @ \cup {j}]
           IN  /\ new \in Rows
               /\ new.replies = r.replies \cup {j}
               /\ new.deleted = r.deleted /\ new.likes = r.likes /\ new.votes = r.votes
BY DEF Rows

LEMMA VotesOfRow ==
    ASSUME NEW r \in Rows, NEW j \in Votes
    PROVE  LET new == [r EXCEPT !.votes = @ \cup {j}]
           IN  /\ new \in Rows
               /\ new.votes = r.votes \cup {j}
               /\ new.deleted = r.deleted /\ new.likes = r.likes /\ new.replies = r.replies
BY DEF Rows

\* Which steps a job of each kind takes.
Path(j) ==
    CASE Kind(j) = "Reply"  -> {"new", "written", "done"}
      [] Kind(j) = "Vote"   -> {"new", "checked", "read", "written", "ready", "done"}
      [] Kind(j) = "Delete" -> {"new", "waiting", "handling", "written", "ready", "done"}
      [] Kind(j) = "Like"   -> {"new", "waiting", "handling", "read", "written", "ready", "done"}
      [] OTHER              -> Steps

Lockers == LikeJobs \cup Undos \cup Deletes
Inside == {"handling", "read", "written", "ready", "empty"}

PathOK == \A j \in Jobs : step[j] \in Path(j)

\* At most one job has written the row, only Undos go on without the lock.
LocksOK ==
    /\ \A i, j \in Jobs : step[i] = "written" /\ step[j] = "written" => i = j
    /\ lock # None => lock \in Lockers /\ step[lock] \in Inside
    /\ \A j \in LikeJobs \cup Deletes : step[j] \in Inside => lock = j

Base == TypeOK /\ PathOK /\ LocksOK

LEMMA BaseInit == Init => Base
<1> SUFFICES ASSUME Init PROVE Base
  OBVIOUS
<1>1. \A j \in Jobs : "new" \in Path(j)
  BY KindOf DEF Path, Steps, Kinds
<1>2. LocksOK
  BY DEF Init, LocksOK, Inside, Lockers, Jobs
<1>3. TypeOK
  BY FreshType DEF Init, TypeOK, Steps
<1> QED BY <1>1, <1>2, <1>3 DEF Init, Base, PathOK

\* What a write does, whoever writes.
LEMMA WriteDoes ==
    ASSUME TypeOK, NEW j \in Jobs, NEW new \in Rows, Write(j, new)
    PROVE  /\ RowFree /\ step' = [step EXCEPT ![j] = "written"]
           /\ copy' = [copy EXCEPT ![j] = new] /\ copy' \in [Jobs -> Rows]
           /\ cache' = new /\ cache' \in Rows
           /\ older \subseteq older' /\ older' \subseteq Kinds
           /\ "Vote" \notin older' => "Vote" \notin older /\ (j \in Votes => copy[j] = row)
           /\ older' = {} => older = {} /\ copy[j] = row
           /\ UNCHANGED <<row, view, lock, stored, undone>>
BY KindOf DEF Write, Go, Keep, TypeOK, activities

\* A Like or an Undo either writes, or finds nothing to be changed.
LEMMA LikesDoes ==
    ASSUME TypeOK, NEW j \in LikeJobs \cup Undos, NEW likes \in SUBSET Actors, WriteLikes(j, likes)
    PROVE  \/ /\ likes = copy[j].likes
              /\ step' = [step EXCEPT ![j] = "ready"] /\ cache' = copy[j]
              /\ UNCHANGED <<row, view, lock, stored, undone, copy, older>>
           \/ \E new \in Rows :
              /\ Write(j, new)
              /\ new.likes = likes /\ new.deleted = copy[j].deleted
              /\ new.replies = copy[j].replies /\ new.votes = copy[j].votes
<1>1. copy[j] \in Rows
  BY DEF TypeOK, Jobs
<1>2. CASE likes = copy[j].likes
  BY <1>2 DEF WriteLikes, Go, activities
<1>3. CASE likes # copy[j].likes
  BY <1>1, <1>3, LikesOfRow DEF WriteLikes
<1> QED BY <1>2, <1>3

LEMMA NewLikes ==
    ASSUME TypeOK, NEW j \in LikeJobs \cup Undos
    PROVE  /\ copy[j].likes \cup {LikedBy[Of[j]]} \in SUBSET Actors
           /\ copy[j].likes \ {LikedBy[Of[j]]} \in SUBSET Actors
BY OfType DEF TypeOK, Jobs, Rows

\* What is stored and removed with a commit.
LEMMA RecordDoes ==
    ASSUME TypeOK, NEW j \in Jobs, Record(j)
    PROVE  /\ j \in LikeJobs => stored' = stored \cup {Of[j]} /\ undone' = undone
           /\ j \in Undos => /\ stored' = IF step[j] = "empty" THEN stored ELSE stored \ {Of[j]}
                             /\ undone' = undone \cup {Of[j]}
           /\ j \in Deletes => stored' = stored \ Likes /\ undone' = undone \ stored
           /\ j \in Replies \cup Votes => stored' = stored \cup {j} /\ undone' = undone
           /\ stored' \subseteq Likes \cup Replies \cup Votes
           /\ undone' \subseteq Likes
<1>1. CASE j \in LikeJobs
  BY <1>1, KindOf, OfType, DisjointAssumption DEF Record, TypeOK
<1>2. CASE j \in Undos
  BY <1>2, KindOf, OfType, DisjointAssumption DEF Record, TypeOK
<1>3. CASE j \in Deletes
  BY <1>3, KindOf, DisjointAssumption DEF Record, TypeOK
<1>4. CASE j \in Replies \cup Votes
  BY <1>4, KindOf, DisjointAssumption DEF Record, TypeOK
<1> QED BY <1>1, <1>2, <1>3, <1>4 DEF Jobs

LEMMA BaseStep == Base /\ [Next]_vars => Base'
<1> SUFFICES ASSUME Base, [Next]_vars PROVE Base'
  OBVIOUS
<1> USE DEF Base, activities
<1>k. ASSUME NEW j \in Jobs
      PROVE  /\ Path(j) \subseteq Steps /\ {"new", "done"} \subseteq Path(j)
             /\ j \in Undos => Path(j) = Steps
             /\ j \in LikeJobs => Path(j) = Steps \ {"checked", "empty"}
             /\ j \in Deletes => Path(j) = Steps \ {"checked", "read", "empty"}
             /\ j \in Votes => Path(j) = Steps \ {"waiting", "handling", "empty"}
             /\ j \in Replies => Path(j) = {"new", "written", "done"}
  BY KindOf DEF Path, Steps
<1>p. ASSUME NEW j \in Jobs, NEW s \in Path(j), step' = [step EXCEPT ![j] = s]
      PROVE  PathOK' /\ step' \in [Jobs -> Steps]
  BY <1>p, <1>k DEF PathOK, TypeOK
<1>d. lock # None => lock \in Jobs
  BY DEF TypeOK
<1>1. ASSUME NEW j \in Jobs, LikeCheck(j) \/ DeleteCheck(j) \/ VoteCheck(j) \/ UndoCheck(j)
      PROVE  Base'
  <2>1. PICK s \in {"waiting", "checked", "done"} :
          /\ step' = [step EXCEPT ![j] = s]
          /\ j \in LikeJobs \cup Deletes => s # "checked"
          /\ j \in Votes \cup Undos => s # "waiting"
    BY <1>1, DisjointAssumption DEF LikeCheck, DeleteCheck, VoteCheck, UndoCheck, Go
  <2>2. j \in LikeJobs \cup Undos \cup Votes \cup Deletes /\ step[j] = "new"
    BY <1>1 DEF LikeCheck, DeleteCheck, VoteCheck, UndoCheck
  <2>3. cache' \in Rows \cup {None}
    BY <1>1, SeenType DEF LikeCheck, DeleteCheck, VoteCheck, UndoCheck, Load, TypeOK
  <2>4. UNCHANGED <<row, view, lock, stored, undone, copy, older>>
    BY <1>1 DEF LikeCheck, DeleteCheck, VoteCheck, UndoCheck
  <2>5. s \in Path(j)
    BY <2>1, <2>2, <1>k DEF Steps
  <2>6. PathOK' /\ step' \in [Jobs -> Steps]
    BY <2>1, <2>5, <1>p
  <2>7. LocksOK'
    BY <2>1, <2>2, <2>4, <1>d DEF LocksOK, TypeOK, Inside
  <2> QED BY <2>3, <2>4, <2>6, <2>7 DEF TypeOK
<1>2. ASSUME NEW j \in Jobs, UndoFind(j) PROVE Base'
  <2>1. PICK s \in {"waiting", "handling"} : step' = [step EXCEPT ![j] = s]
    BY <1>2 DEF UndoFind, Go
  <2>2. j \in Undos /\ step[j] = "checked" /\ j \notin LikeJobs \cup Deletes
    BY <1>2, DisjointAssumption DEF UndoFind
  <2>3. UNCHANGED <<row, cache, view, lock, stored, undone, copy, older>>
    BY <1>2 DEF UndoFind
  <2>4. PathOK' /\ step' \in [Jobs -> Steps]
    BY <2>1, <2>2, <1>p, <1>k DEF Steps
  <2>5. LocksOK'
    BY <2>1, <2>2, <2>3, <1>d DEF LocksOK, TypeOK, Inside
  <2> QED BY <2>3, <2>4, <2>5 DEF TypeOK
<1>3. ASSUME NEW j \in Jobs, Lock(j) PROVE Base'
  <2>1. step[j] = "waiting" /\ lock = None /\ lock' = j /\ step' = [step EXCEPT ![j] = "handling"]
    BY <1>3 DEF Lock, Go
  <2>2. UNCHANGED <<row, cache, view, stored, undone, copy, older>>
    BY <1>3 DEF Lock
  <2>3. j \in Lockers
    BY <2>1, <1>k DEF PathOK, Lockers, Jobs
  <2>4. PathOK' /\ step' \in [Jobs -> Steps]
    BY <2>1, <2>3, <1>p, <1>k DEF Steps, Lockers
  <2>5. LocksOK'
    BY <2>1, <2>3, DisjointAssumption DEF LocksOK, TypeOK, Inside, Lockers, Jobs
  <2> QED BY <2>1, <2>2, <2>4, <2>5 DEF TypeOK
<1>4. ASSUME NEW j \in Jobs, NEW s \in {"new", "done"}, End(j, s), row' \in Rows,
             stored' \subseteq Likes \cup Replies \cup Votes, undone' \subseteq Likes,
             UNCHANGED <<cache, view, older>>
      PROVE  Base'
  <2>1. /\ step' = [step EXCEPT ![j] = s] /\ copy' = [copy EXCEPT ![j] = Fresh]
        /\ lock' = IF lock = j THEN None ELSE lock
    BY <1>4 DEF End, Go, Keep
  <2>2. PathOK' /\ step' \in [Jobs -> Steps]
    BY <2>1, <1>p, <1>k
  <2>3. LocksOK'
    BY <2>1, <1>d DEF LocksOK, TypeOK, Inside, Lockers, Jobs
  <2> QED BY <1>4, <2>1, <2>2, <2>3, FreshType DEF TypeOK
<1>5. ASSUME NEW j \in Jobs, LikeSkip(j) PROVE Base'
  BY <1>4, <1>5 DEF LikeSkip, TypeOK
<1>6. ASSUME NEW j \in Jobs, ReadRow(j) \/ UndoNothing(j) PROVE Base'
  <2>1. PICK s \in {"read", "empty"} :
          step' = [step EXCEPT ![j] = s] /\ (j \notin Undos => s = "read")
    BY <1>6 DEF ReadRow, UndoNothing, Go
  <2>2. j \in LikeJobs \cup Undos /\ step[j] = "handling"
    BY <1>6 DEF ReadRow, UndoNothing
  <2>3. copy' \in [Jobs -> Rows] /\ UNCHANGED <<row, cache, view, lock, stored, undone, older>>
    BY <1>6 DEF ReadRow, UndoNothing, Keep, TypeOK
  <2>4. PathOK' /\ step' \in [Jobs -> Steps]
    BY <2>1, <2>2, <1>p, <1>k, DisjointAssumption DEF Steps
  <2>5. LocksOK'
    BY <2>1, <2>2, <2>3, <1>d DEF LocksOK, TypeOK, Inside
  <2> QED BY <2>3, <2>4, <2>5 DEF TypeOK
<1>7. ASSUME NEW j \in LikeJobs \cup Undos \cup Votes, NEW new \in Rows, step[j] = "read", Write(j, new)
      PROVE  Base'
  <2>0. j \in Jobs
    BY DEF Jobs
  <2>1. /\ RowFree /\ step' = [step EXCEPT ![j] = "written"]
        /\ UNCHANGED <<row, view, lock, stored, undone>>
        /\ copy' \in [Jobs -> Rows] /\ cache' \in Rows /\ older' \subseteq Kinds
    BY <1>7, <2>0, WriteDoes
  <2>2. PathOK' /\ step' \in [Jobs -> Steps]
    BY <2>0, <2>1, <1>p, <1>k DEF Steps
  <2>3. LocksOK'
    BY <1>7, <2>0, <2>1, <1>d DEF LocksOK, TypeOK, Inside, RowFree
  <2> QED BY <2>1, <2>2, <2>3 DEF TypeOK
<1>8. ASSUME NEW j \in Jobs, AddLike(j) \/ RemoveLike(j) PROVE Base'
  <2>1. j \in LikeJobs \cup Undos /\ step[j] = "read"
        /\ \E likes \in SUBSET Actors : WriteLikes(j, likes)
    BY <1>8, NewLikes DEF AddLike, RemoveLike
  <2>2. CASE \E new \in Rows : Write(j, new)
    BY <2>1, <2>2, <1>7
  <2>3. CASE /\ step' = [step EXCEPT ![j] = "ready"] /\ cache' = copy[j]
             /\ UNCHANGED <<row, view, lock, stored, undone, copy, older>>
    <3>1. PathOK' /\ step' \in [Jobs -> Steps]
      BY <2>1, <2>3, <1>p, <1>k DEF Steps
    <3>2. LocksOK'
      BY <2>1, <2>3, <1>d DEF LocksOK, TypeOK, Inside
    <3> QED BY <2>1, <2>3, <3>1, <3>2 DEF TypeOK
  <2> QED BY <2>1, <2>2, <2>3, LikesDoes
<1>9. ASSUME NEW j \in Jobs, Reply(j) PROVE Base'
  <2>1. /\ j \in Replies /\ step[j] = "new" /\ RowFree /\ step' = [step EXCEPT ![j] = "written"]
        /\ copy' = [copy EXCEPT ![j] = [row EXCEPT !.replies = @ \cup {j}]]
        /\ UNCHANGED <<row, cache, view, lock, stored, undone, older>>
    BY <1>9 DEF Reply, Go, Keep
  <2>2. copy' \in [Jobs -> Rows]
    BY <2>1, RepliesOfRow DEF TypeOK
  <2>3. PathOK' /\ step' \in [Jobs -> Steps]
    BY <2>1, <1>p, <1>k
  <2>4. j \notin Lockers
    BY <2>1, DisjointAssumption DEF Lockers
  <2>5. LocksOK'
    BY <2>1, <2>4, <1>d DEF LocksOK, TypeOK, Inside, RowFree, Lockers
  <2> QED BY <2>1, <2>2, <2>3, <2>5 DEF TypeOK
<1>10. ASSUME NEW j \in Jobs, VoteRead(j) PROVE Base'
  <2>1. PICK s \in {"ready", "read"} : step' = [step EXCEPT ![j] = s]
    BY <1>10 DEF VoteRead, Go
  <2>2. j \in Votes /\ step[j] = "checked" /\ j \notin Lockers
    BY <1>10, DisjointAssumption DEF VoteRead, Lockers
  <2>3. /\ copy' \in [Jobs -> Rows] /\ cache' \in Rows
        /\ UNCHANGED <<row, view, lock, stored, undone, older>>
    BY <1>10, SeenType DEF VoteRead, Keep, Load, TypeOK
  <2>4. PathOK' /\ step' \in [Jobs -> Steps]
    BY <2>1, <2>2, <1>p, <1>k DEF Steps
  <2>5. LocksOK'
    BY <2>1, <2>2, <2>3, <1>d DEF LocksOK, TypeOK, Inside, Lockers
  <2> QED BY <2>3, <2>4, <2>5 DEF TypeOK
<1>11. ASSUME NEW j \in Jobs, VoteWrite(j) PROVE Base'
  <2>1. j \in Votes /\ step[j] = "read" /\ Write(j, [copy[j] EXCEPT !.votes = @ \cup {j}])
    BY <1>11 DEF VoteWrite
  <2>2. [copy[j] EXCEPT !.votes = @ \cup {j}] \in Rows
    BY <2>1, VotesOfRow DEF TypeOK
  <2> QED BY <2>1, <2>2, <1>7
<1>12. ASSUME NEW j \in Jobs, Bury(j) PROVE Base'
  <2>1. PICK s \in {"ready", "written"} :
          step' = [step EXCEPT ![j] = s] /\ (s = "written" => RowFree)
    BY <1>12 DEF Bury, Go
  <2>2. j \in Deletes /\ step[j] = "handling"
    BY <1>12 DEF Bury
  <2>3. /\ copy' \in [Jobs -> Rows] /\ cache' \in Rows \cup {None}
        /\ UNCHANGED <<row, view, lock, stored, undone, older>>
    BY <1>12, SeenType, FreshType DEF Bury, Keep, Load, TypeOK
  <2>4. PathOK' /\ step' \in [Jobs -> Steps]
    BY <2>1, <2>2, <1>p, <1>k DEF Steps
  <2>5. LocksOK'
    BY <2>1, <2>2, <2>3, <1>d DEF LocksOK, TypeOK, Inside, RowFree
  <2> QED BY <2>3, <2>4, <2>5 DEF TypeOK
<1>13. ASSUME NEW j \in Jobs, Commit(j) PROVE Base'
  <2>1. row' \in Rows
    BY <1>13 DEF Commit, TypeOK
  <2>2. stored' \subseteq Likes \cup Replies \cup Votes /\ undone' \subseteq Likes
    BY <1>13, RecordDoes DEF Commit
  <2> QED BY <1>13, <1>4, <2>1, <2>2 DEF Commit
<1>14. ASSUME NEW j \in Jobs, Abort(j) PROVE Base'
  BY <1>14, <1>4 DEF Abort, TypeOK
<1>15. CASE ViewLoad \/ ViewPut \/ Expire \/ UNCHANGED vars
  BY <1>15 DEF ViewLoad, ViewPut, Expire, vars, TypeOK, PathOK, LocksOK
<1> QED
  BY <1>1, <1>2, <1>3, <1>5, <1>6, <1>8, <1>9, <1>10, <1>11, <1>12, <1>13, <1>14, <1>15 DEF Next

(***************************************************************************)
(* The invariant behind the properties.  Clean says that no vote has       *)
(* written an older copy, Good that the post is there as well.             *)
(***************************************************************************)

Clean == "Vote" \notin older
Good == Clean /\ ~row.deleted
Actor(j) == LikedBy[Of[j]]

\* What a job has in its hands has the tombstone of the row, or brings it.
TombOK(j) ==
    /\ j \in LikeJobs \cup Undos /\ step[j] \in {"read", "written"} => copy[j].deleted = row.deleted
    /\ j \in Replies \cup Votes /\ step[j] = "written" => copy[j].deleted = row.deleted
    /\ j \in Votes /\ step[j] = "read" => ~copy[j].deleted
    /\ j \in Votes \cup Deletes /\ step[j] = "ready" => row.deleted
    /\ j \in Deletes /\ step[j] = "written" => copy[j] = Tombstone

\* A Like and an Undo hold the row's own likes, changed by what they do; an
\* Undo without the lock has nothing to undo.
LikeOK(j) ==
    /\ step[j] = "read" => copy[j].likes = row.likes
    /\ step[j] \in {"read", "written", "ready"} => Of[j] \notin stored \cup undone
    /\ step[j] = "written" => copy[j].likes = row.likes \cup {Actor(j)}
    /\ step[j] = "ready" => Actor(j) \in row.likes

UndoOK(j) ==
    /\ step[j] \notin {"new", "done"} => Of[j] \in stored \cup undone
    /\ step[j] \in Inside /\ lock # j => Of[j] \in undone /\ step[j] \in {"handling", "empty"}
    /\ step[j] = "read" => copy[j].likes = row.likes
    /\ step[j] \in {"read", "written", "ready"} => Of[j] \in stored
    /\ step[j] = "written" => copy[j].likes = row.likes \ {Actor(j)}
    /\ step[j] = "ready" => Actor(j) \notin row.likes
    /\ step[j] = "empty" => Of[j] \notin stored

\* Who writes no likes has those of the row.
OtherOK(j) == step[j] = "written" => copy[j].likes = row.likes

\* Without an older copy, a job writes the row's counts and its own.
CountOK(j) ==
    /\ step[j] = "written" => /\ copy[j].replies = row.replies \cup ({j} \cap Replies)
                              /\ copy[j].votes = row.votes \cup ({j} \cap Votes)

JobOK(j) ==
    /\ Clean => TombOK(j)
    /\ Good => /\ j \in LikeJobs => LikeOK(j)
               /\ j \in Undos => UndoOK(j)
               /\ j \in Replies \cup Votes => OtherOK(j)
    /\ Good /\ older = {} /\ j \notin Deletes => CountOK(j)

CacheOK ==
    Clean => /\ cache # None /\ cache.deleted => row.deleted
             /\ view # None /\ view.deleted => row.deleted

Core ==
    /\ \A j \in Jobs : JobOK(j)
    /\ CacheOK
    /\ LikesAgree /\ UndoneStaysUndone

LEMMA CoreInit == Init => Core
<1> SUFFICES ASSUME Init PROVE Core
  OBVIOUS
<1>1. ASSUME NEW j \in Jobs PROVE JobOK(j)
  <2>1. step[j] = "new"
    BY DEF Init
  <2> QED BY <2>1 DEF JobOK, TombOK, LikeOK, UndoOK, OtherOK, CountOK, Inside
<1>2. CacheOK /\ LikesAgree /\ UndoneStaysUndone
  BY DEF Init, CacheOK, LikesAgree, UndoneStaysUndone, Fresh
<1> QED BY <1>1, <1>2 DEF Core

\* What is cached is not deleted before the row is.
LEMMA SeenOK ==
    ASSUME CacheOK, Clean
    PROVE  Seen.deleted => row.deleted
BY DEF CacheOK, Seen

\* Nobody but job j is affected where the row and the activities stay.
LEMMA Quiet ==
    ASSUME Core, NEW j \in Jobs, UNCHANGED <<row, stored, undone>>, older \subseteq older',
           \A i \in Jobs \ {j} : step'[i] = step[i] /\ copy'[i] = copy[i] /\ (lock' = i <=> lock = i),
           JobOK(j)', CacheOK'
    PROVE  Core'
<1>1. ASSUME NEW i \in Jobs, i # j PROVE JobOK(i)'
  <2>1. JobOK(i) /\ step'[i] = step[i] /\ copy'[i] = copy[i] /\ (lock' = i <=> lock = i)
    BY <1>1 DEF Core
  <2>2. (Clean' => Clean) /\ (Good' => Good) /\ (older' = {} => older = {})
    BY DEF Clean, Good
  <2>3. TombOK(i)' <=> TombOK(i)
    BY <2>1 DEF TombOK
  <2>4. LikeOK(i)' <=> LikeOK(i)
    BY <2>1 DEF LikeOK, Actor
  <2>5. UndoOK(i)' <=> UndoOK(i)
    BY <2>1 DEF UndoOK, Actor
  <2>6. (OtherOK(i)' <=> OtherOK(i)) /\ (CountOK(i)' <=> CountOK(i))
    BY <2>1 DEF OtherOK, CountOK
  <2> QED BY <2>1, <2>2, <2>3, <2>4, <2>5, <2>6 DEF JobOK
<1>2. (LikesAgree /\ UndoneStaysUndone)'
  BY DEF Core, LikesAgree, UndoneStaysUndone
<1> QED BY <1>1, <1>2 DEF Core

\* What the invariant says of the row and the activities outlives every step but a commit.
LEMMA QuietStep ==
    ASSUME Base, Core, [Next]_vars, \A j \in Jobs : ~Commit(j)
    PROVE  Core'
<1> USE DEF activities
<1>d. ASSUME NEW j \in Jobs
      PROVE  /\ j \in LikeJobs => j \notin Undos \cup Replies \cup Votes \cup Deletes
             /\ j \in Undos => j \notin LikeJobs \cup Replies \cup Votes \cup Deletes
             /\ j \in Replies => j \notin LikeJobs \cup Undos \cup Votes \cup Deletes
             /\ j \in Votes => j \notin LikeJobs \cup Undos \cup Replies \cup Deletes
             /\ j \in Deletes => j \notin LikeJobs \cup Undos \cup Replies \cup Votes
  BY DisjointAssumption
<1>t. TypeOK /\ (\A j \in Jobs : JobOK(j)) /\ CacheOK /\ (Clean /\ Seen.deleted => row.deleted)
  BY SeenOK DEF Base, Core
<1>i. ASSUME NEW j \in Jobs,
             \/ step'[j] \in {"new", "done"}
             \/ j \notin Undos /\ step'[j] \in {"checked", "waiting", "handling"}
      PROVE  JobOK(j)'
  BY <1>i DEF JobOK, TombOK, LikeOK, UndoOK, OtherOK, CountOK, Inside
<1>1. ASSUME NEW j \in Jobs, LikeCheck(j) \/ DeleteCheck(j) \/ VoteCheck(j) PROVE Core'
  <2>1. PICK s \in {"waiting", "checked", "done"} : step' = [step EXCEPT ![j] = s]
    BY <1>1 DEF LikeCheck, DeleteCheck, VoteCheck, Go
  <2>2. j \notin Undos /\ cache' = Seen /\ UNCHANGED <<row, view, lock, stored, undone, copy, older>>
    BY <1>1, <1>d DEF LikeCheck, DeleteCheck, VoteCheck, Load
  <2>3. JobOK(j)'
    BY <1>i, <1>t, <2>1, <2>2 DEF TypeOK
  <2>4. CacheOK'
    BY <1>t, <2>2 DEF CacheOK, Clean
  <2> QED BY <2>1, <2>2, <2>3, <2>4, <1>t, Quiet DEF TypeOK
<1>2. ASSUME NEW j \in Jobs, UndoCheck(j) \/ UndoFind(j) PROVE Core'
  <2>1. PICK s \in {"checked", "waiting", "handling", "done"} :
          /\ step' = [step EXCEPT ![j] = s]
          /\ s \in {"checked", "waiting"} => Of[j] \in stored
          /\ s = "handling" => step[j] = "checked" /\ Of[j] \notin stored
    BY <1>2 DEF UndoCheck, UndoFind, Go
  <2>2. j \in Undos /\ UNCHANGED <<row, cache, view, lock, stored, undone, copy, older>>
    BY <1>2 DEF UndoCheck, UndoFind
  <2>3. JobOK(j)'
    <3>1. JobOK(j) /\ step'[j] = s
      BY <1>t, <2>1 DEF TypeOK
    <3> QED
      BY <3>1, <2>1, <2>2, <1>d
      DEF JobOK, TombOK, LikeOK, UndoOK, OtherOK, CountOK, Inside, Clean, Good, Actor
  <2>4. CacheOK'
    BY <1>t, <2>2 DEF CacheOK, Clean
  <2> QED BY <2>1, <2>2, <2>3, <2>4, <1>t, Quiet DEF TypeOK
<1>3. ASSUME NEW j \in Jobs, Lock(j) PROVE Core'
  <2>1. /\ lock = None /\ lock' = j /\ step[j] = "waiting" /\ step' = [step EXCEPT ![j] = "handling"]
        /\ UNCHANGED <<row, cache, view, stored, undone, copy, older>>
    BY <1>3 DEF Lock, Go
  <2>2. JobOK(j)'
    <3>1. JobOK(j) /\ step'[j] = "handling"
      BY <1>t, <2>1 DEF TypeOK
    <3> QED
      BY <3>1, <2>1, <1>d
      DEF JobOK, TombOK, LikeOK, UndoOK, OtherOK, CountOK, Inside, Clean, Good, Actor
  <2>3. CacheOK'
    BY <1>t, <2>1 DEF CacheOK, Clean
  <2>4. None \notin Jobs
    BY DisjointAssumption
  <2> QED BY <2>1, <2>2, <2>3, <2>4, <1>t, Quiet DEF TypeOK
<1>4. ASSUME NEW j \in Jobs, LikeSkip(j) \/ Abort(j) PROVE Core'
  <2>1. PICK s \in {"new", "done"} : End(j, s)
    BY <1>4 DEF LikeSkip, Abort
  <2>2. /\ step' = [step EXCEPT ![j] = s] /\ copy' = [copy EXCEPT ![j] = Fresh]
        /\ lock' = IF lock = j THEN None ELSE lock
    BY <2>1 DEF End, Go, Keep
  <2>3. UNCHANGED <<row, cache, view, stored, undone, older>>
    BY <1>4 DEF LikeSkip, Abort
  <2>4. JobOK(j)'
    BY <1>i, <1>t, <2>2 DEF TypeOK
  <2>5. CacheOK'
    BY <1>t, <2>3 DEF CacheOK, Clean
  <2>6. None \notin Jobs
    BY DisjointAssumption
  <2> QED BY <2>2, <2>3, <2>4, <2>5, <2>6, <1>t, Quiet DEF TypeOK
<1>5. ASSUME NEW j \in Jobs, ReadRow(j) \/ UndoNothing(j) PROVE Core'
  <2>1. PICK s \in {"read", "empty"} :
          /\ step' = [step EXCEPT ![j] = s]
          /\ s = "empty" => j \in Undos /\ Of[j] \notin stored /\ copy' = copy
          /\ s = "read" => /\ copy' = [copy EXCEPT ![j] = row]
                           /\ \/ j \in LikeJobs /\ Of[j] \notin stored \cup undone
                              \/ j \in Undos /\ Of[j] \in stored
    BY <1>5 DEF ReadRow, UndoNothing, Go, Keep
  <2>2. /\ j \in LikeJobs \cup Undos /\ step[j] = "handling"
        /\ UNCHANGED <<row, cache, view, lock, stored, undone, older>>
    BY <1>5 DEF ReadRow, UndoNothing
  <2>3. JobOK(j)'
    <3>1. JobOK(j) /\ step'[j] = s /\ (s = "read" => copy'[j] = row)
      BY <1>t, <2>1 DEF TypeOK
    <3>2. Good => stored \cap undone = {}
      BY DEF Core, UndoneStaysUndone, Good, Clean
    <3>3. TombOK(j)'
      BY <3>1, <2>1, <2>2, <1>d DEF TombOK
    <3>4. CASE j \in LikeJobs
      <4>1. LikeOK(j)'
        BY <3>1, <3>4, <2>1, <2>2, <1>d DEF LikeOK
      <4> QED BY <3>1, <3>3, <3>4, <4>1, <1>d DEF JobOK, CountOK
    <3>5. CASE j \in Undos
      <4>1. Good => UndoOK(j)
        BY <3>1, <3>5 DEF JobOK
      <4>2. Good => UndoOK(j)'
        BY <3>1, <3>2, <3>5, <4>1, <2>1, <2>2, <1>d DEF UndoOK, Inside
      <4>3. Good' => Good
        BY <2>2 DEF Good, Clean
      <4> QED BY <3>1, <3>3, <3>5, <4>2, <4>3, <1>d DEF JobOK, CountOK
    <3> QED BY <3>4, <3>5, <2>2
  <2>4. CacheOK'
    BY <1>t, <2>2 DEF CacheOK, Clean
  <2> QED BY <2>1, <2>2, <2>3, <2>4, <1>t, Quiet DEF TypeOK
<1>6. ASSUME NEW j \in Jobs, NEW new \in Rows, Write(j, new), step[j] = "read",
             \/ /\ j \in LikeJobs /\ new.likes = copy[j].likes \cup {Actor(j)}
                /\ new.replies = copy[j].replies /\ new.votes = copy[j].votes
             \/ /\ j \in Undos /\ new.likes = copy[j].likes \ {Actor(j)}
                /\ new.replies = copy[j].replies /\ new.votes = copy[j].votes
             \/ /\ j \in Votes /\ new.likes = copy[j].likes
                /\ new.replies = copy[j].replies /\ new.votes = copy[j].votes \cup {j},
             new.deleted = copy[j].deleted
      PROVE  Core'
  <2>1. /\ step' = [step EXCEPT ![j] = "written"] /\ copy' = [copy EXCEPT ![j] = new]
        /\ cache' = new /\ older \subseteq older'
        /\ "Vote" \notin older' => "Vote" \notin older /\ (j \in Votes => copy[j] = row)
        /\ older' = {} => older = {} /\ copy[j] = row
        /\ UNCHANGED <<row, view, lock, stored, undone>>
    BY <1>6, <1>t, WriteDoes
  <2>2. JobOK(j) /\ step'[j] = "written" /\ copy'[j] = new
    BY <1>t, <2>1 DEF TypeOK
  <2>3. Clean' => Clean /\ copy[j].deleted = row.deleted
    BY <1>6, <2>1, <2>2, <1>d DEF Clean, JobOK, TombOK
  <2>4. Clean' => TombOK(j)'
    BY <1>6, <2>1, <2>2, <2>3, <1>d DEF TombOK
  <2>5. Good' => Good
    BY <2>1, <2>3 DEF Good
  <2>6. older' = {} => CountOK(j)'
    BY <1>6, <2>1, <2>2, <1>d DEF CountOK
  <2>7. ASSUME j \in LikeJobs PROVE JobOK(j)'
    <3>1. Good => LikeOK(j)
      BY <2>2, <2>7 DEF JobOK
    <3>2. Good => LikeOK(j)'
      BY <1>6, <2>1, <2>2, <2>7, <3>1, <1>d DEF LikeOK, Actor
    <3> QED BY <2>4, <2>5, <2>6, <2>7, <3>2, <1>d DEF JobOK
  <2>8. ASSUME j \in Undos PROVE JobOK(j)'
    <3>1. Good => UndoOK(j)
      BY <2>2, <2>8 DEF JobOK
    <3>2. Good => UndoOK(j)'
      BY <1>6, <2>1, <2>2, <2>8, <3>1, <1>d DEF UndoOK, Actor, Inside
    <3> QED BY <2>4, <2>5, <2>6, <2>8, <3>2, <1>d DEF JobOK
  <2>9. ASSUME j \in Votes PROVE JobOK(j)'
    <3>1. Good' => OtherOK(j)'
      BY <1>6, <2>1, <2>2, <2>9, <1>d DEF OtherOK, Good, Clean
    <3> QED BY <2>4, <2>5, <2>6, <2>9, <3>1, <1>d DEF JobOK
  <2>10. CacheOK'
    BY <1>6, <1>t, <2>1, <2>3 DEF CacheOK, Clean
  <2>11. JobOK(j)'
    BY <1>6, <2>7, <2>8, <2>9
  <2> QED BY <2>1, <2>10, <2>11, <1>t, Quiet DEF TypeOK
<1>7. ASSUME NEW j \in Jobs, AddLike(j) \/ RemoveLike(j) PROVE Core'
  <2>1. PICK likes \in SUBSET Actors :
          /\ step[j] = "read" /\ WriteLikes(j, likes)
          /\ \/ j \in LikeJobs /\ likes = copy[j].likes \cup {Actor(j)}
             \/ j \in Undos /\ likes = copy[j].likes \ {Actor(j)}
    BY <1>7, <1>t, NewLikes DEF AddLike, RemoveLike, Actor
  <2>2. CASE \E new \in Rows :
              /\ Write(j, new)
              /\ new.likes = likes /\ new.deleted = copy[j].deleted
              /\ new.replies = copy[j].replies /\ new.votes = copy[j].votes
    BY <2>1, <2>2, <1>6
  <2>3. CASE /\ likes = copy[j].likes
             /\ step' = [step EXCEPT ![j] = "ready"] /\ cache' = copy[j]
             /\ UNCHANGED <<row, view, lock, stored, undone, copy, older>>
    <3>1. JobOK(j) /\ step'[j] = "ready"
      BY <1>t, <2>3 DEF TypeOK
    <3>2. Clean => TombOK(j)' /\ copy[j].deleted = row.deleted
      BY <2>1, <2>3, <3>1, <1>d DEF JobOK, TombOK
    <3>3. (Clean' <=> Clean) /\ (Good' <=> Good)
      BY <2>3 DEF Clean, Good
    <3>4. ASSUME j \in LikeJobs PROVE JobOK(j)'
      <4>1. Good => LikeOK(j)
        BY <3>1, <3>4 DEF JobOK
      <4>2. Good => LikeOK(j)'
        BY <4>1, <2>1, <2>3, <3>1, <3>4, <1>d DEF LikeOK, Actor
      <4> QED BY <3>1, <3>2, <3>3, <3>4, <4>2, <1>d DEF JobOK, CountOK
    <3>5. ASSUME j \in Undos PROVE JobOK(j)'
      <4>1. Good => UndoOK(j)
        BY <3>1, <3>5 DEF JobOK
      <4>2. Good => UndoOK(j)'
        BY <4>1, <2>1, <2>3, <3>1, <3>5, <1>d DEF UndoOK, Actor, Inside
      <4> QED BY <3>1, <3>2, <3>3, <3>5, <4>2, <1>d DEF JobOK, CountOK
    <3>6. JobOK(j)'
      BY <3>4, <3>5, <2>1
    <3>7. CacheOK'
      BY <1>t, <2>3, <3>2 DEF CacheOK, Clean
    <3> QED BY <2>3, <3>6, <3>7, <1>t, Quiet DEF TypeOK
  <2> QED BY <2>1, <2>2, <2>3, <1>t, LikesDoes
<1>8. ASSUME NEW j \in Jobs, Reply(j) PROVE Core'
  <2> DEFINE new == [row EXCEPT !.replies = @ \cup {j}]
  <2>1. /\ j \in Replies /\ step' = [step EXCEPT ![j] = "written"] /\ copy' = [copy EXCEPT ![j] = new]
        /\ UNCHANGED <<row, cache, view, lock, stored, undone, older>>
    BY <1>8 DEF Reply, Go, Keep
  <2>2. /\ new.replies = row.replies \cup {j} /\ new.votes = row.votes
        /\ new.deleted = row.deleted /\ new.likes = row.likes
    BY <2>1, <1>t, RepliesOfRow DEF TypeOK
  <2>3. step'[j] = "written" /\ copy'[j] = new
    BY <1>t, <2>1 DEF TypeOK
  <2> HIDE DEF new
  <2>4. JobOK(j)'
    BY <2>1, <2>2, <2>3, <1>d DEF JobOK, TombOK, OtherOK, CountOK
  <2>5. CacheOK'
    BY <1>t, <2>1 DEF CacheOK, Clean
  <2> QED BY <2>1, <2>4, <2>5, <1>t, Quiet DEF TypeOK
<1>9. ASSUME NEW j \in Jobs, VoteRead(j) PROVE Core'
  <2>1. /\ j \in Votes /\ cache' = Seen /\ UNCHANGED <<row, view, lock, stored, undone, older>>
        /\ \/ Seen.deleted /\ step' = [step EXCEPT ![j] = "ready"] /\ copy' = copy
           \/ /\ ~Seen.deleted /\ step' = [step EXCEPT ![j] = "read"]
              /\ copy' = [copy EXCEPT ![j] = Seen]
    BY <1>9 DEF VoteRead, Go, Keep, Load
  <2>2. \/ Seen.deleted /\ step'[j] = "ready"
        \/ ~Seen.deleted /\ step'[j] = "read" /\ copy'[j] = Seen
    BY <1>t, <2>1 DEF TypeOK
  <2>3. JobOK(j)'
    BY <1>t, <2>1, <2>2, <1>d DEF JobOK, TombOK, OtherOK, CountOK, Clean
  <2>4. CacheOK'
    BY <1>t, <2>1 DEF CacheOK, Clean
  <2> QED BY <2>1, <2>3, <2>4, <1>t, Quiet DEF TypeOK
<1>10. ASSUME NEW j \in Jobs, VoteWrite(j) PROVE Core'
  <2>1. /\ j \in Votes /\ step[j] = "read" /\ copy[j] \in Rows
        /\ Write(j, [copy[j] EXCEPT !.votes = @ \cup {j}])
    BY <1>10, <1>t DEF VoteWrite, TypeOK
  <2> QED BY <2>1, <1>6, VotesOfRow
<1>11. ASSUME NEW j \in Jobs, Bury(j) PROVE Core'
  <2>1. /\ j \in Deletes /\ UNCHANGED <<row, view, lock, stored, undone, older>>
        /\ \/ /\ Seen.deleted /\ step' = [step EXCEPT ![j] = "ready"] /\ copy' = copy
              /\ cache' = Seen
           \/ /\ step' = [step EXCEPT ![j] = "written"] /\ cache' = None
              /\ copy' = [copy EXCEPT ![j] = Tombstone]
    BY <1>11 DEF Bury, Go, Keep, Load
  <2>2. \/ Seen.deleted /\ step'[j] = "ready"
        \/ step'[j] = "written" /\ copy'[j] = Tombstone
    BY <1>t, <2>1 DEF TypeOK
  <2>3. JobOK(j)'
    BY <1>t, <2>1, <2>2, <1>d DEF JobOK, TombOK, Clean
  <2>4. CacheOK'
    BY <1>t, <2>1 DEF CacheOK, Clean
  <2> QED BY <2>1, <2>3, <2>4, <1>t, Quiet DEF TypeOK
<1>12. CASE ViewLoad \/ ViewPut \/ Expire \/ UNCHANGED vars
  <2>1. UNCHANGED <<row, lock, stored, undone, step, copy, older>>
    BY <1>12 DEF ViewLoad, ViewPut, Expire, vars
  <2>2. CacheOK'
    BY <1>12, <1>t, <2>1 DEF ViewLoad, ViewPut, Expire, vars, CacheOK, Clean
  <2>3. (\A j \in Jobs : JobOK(j)) /\ LikesAgree /\ UndoneStaysUndone
    BY DEF Core
  <2>4. (\A j \in Jobs : JobOK(j))'
    BY <2>1, <2>3
    DEF JobOK, TombOK, LikeOK, UndoOK, OtherOK, CountOK, Inside, Clean, Good, Actor
  <2>5. (LikesAgree /\ UndoneStaysUndone)'
    BY <2>1, <2>3 DEF LikesAgree, UndoneStaysUndone
  <2> QED BY <2>2, <2>4, <2>5 DEF Core
<1> QED
  BY <1>1, <1>2, <1>3, <1>4, <1>5, <1>7, <1>8, <1>9, <1>10, <1>11, <1>12 DEF Next

\* Whoever commits a row has the tombstone that is there, or a Delete brings it.
LEMMA RowDoes ==
    ASSUME Base, Core, NEW j \in Jobs, Commit(j), Clean
    PROVE  /\ row.deleted => row'.deleted
           /\ j \in Deletes => row'.deleted
           /\ j \notin Deletes => row'.deleted = row.deleted
           /\ step[j] # "written" => row' = row
           /\ step[j] = "written" => row' = copy[j]
<1>1. JobOK(j) /\ row' = IF step[j] = "written" THEN copy[j] ELSE row
  BY DEF Commit, Core
<1>2. TombOK(j)
  BY <1>1 DEF JobOK
<1>3. CASE j \in Deletes
  <2>1. step[j] \in {"written", "ready"}
    BY <1>3, KindOf DEF Commit, Base, PathOK, Path
  <2> QED BY <1>1, <1>2, <1>3, <2>1, FreshType DEF TombOK
<1>4. CASE j \notin Deletes
  BY <1>1, <1>2, <1>4 DEF TombOK, Jobs
<1> QED BY <1>1, <1>3, <1>4

\* What a commit does to the likes, the stored activities and the Undos of a post
\* that stays.
LEMMA CommitDoes ==
    ASSUME Base, Core, NEW j \in Jobs, Commit(j), Good'
    PROVE  /\ Good /\ j \notin Deletes
           /\ \/ /\ j \in LikeJobs /\ lock = j /\ Of[j] \notin stored \cup undone
                 /\ stored' = stored \cup {Of[j]} /\ undone' = undone
                 /\ row'.likes = row.likes \cup {Actor(j)}
              \/ /\ j \in Undos /\ lock = j /\ Of[j] \in stored
                 /\ stored' = stored \ {Of[j]} /\ undone' = undone \cup {Of[j]}
                 /\ row'.likes = row.likes \ {Actor(j)}
              \/ j \in Undos /\ row' = row /\ stored' = stored /\ undone' = undone
              \/ /\ j \in Replies \cup Votes /\ step[j] = "written"
                 /\ stored' = stored \cup {j} /\ undone' = undone /\ row'.likes = row.likes
           /\ j \in LikeJobs \cup Undos /\ older = {} => row'.replies = row.replies /\ row'.votes = row.votes
           /\ j \in Replies \cup Votes /\ older = {} =>
                 row'.replies \cup row'.votes = row.replies \cup row.votes \cup {j}
<1>1. Clean
  BY DEF Commit, Good, Clean
<1>2. /\ Good /\ j \notin Deletes /\ row'.deleted = row.deleted
      /\ step[j] # "written" => row' = row
      /\ step[j] = "written" => row' = copy[j]
  BY <1>1, RowDoes DEF Good
<1>3. JobOK(j) /\ step[j] \in {"written", "ready", "empty"} /\ step[j] \in Path(j)
  BY DEF Core, Commit, Base, PathOK
<1>4. Record(j) /\ TypeOK
  BY DEF Commit, Base
<1>5. older = {} => CountOK(j)
  BY <1>2, <1>3 DEF JobOK
<1>e. ASSUME j \in LikeJobs \cup Undos, older = {}
      PROVE  row'.replies = row.replies /\ row'.votes = row.votes
  <2>1. j \notin Replies /\ j \notin Votes
    BY <1>e, DisjointAssumption
  <2>2. \A r : r \cup ({j} \cap Replies) = r /\ r \cup ({j} \cap Votes) = r
    BY <2>1
  <2>3. CASE step[j] = "written"
    <3>1. /\ copy[j].replies = row.replies \cup ({j} \cap Replies)
          /\ copy[j].votes = row.votes \cup ({j} \cap Votes)
      BY <1>e, <1>5, <2>3 DEF CountOK
    <3> QED BY <1>2, <2>2, <2>3, <3>1
  <2> QED BY <1>2, <2>3
<1>6. CASE j \in LikeJobs
  <2>1. step[j] \in {"written", "ready"} /\ LikeOK(j)
    BY <1>2, <1>3, <1>6, KindOf DEF JobOK, Path
  <2>2. lock = j
    BY <2>1, <1>6 DEF Base, LocksOK, Inside
  <2>3. row'.likes = row.likes \cup {Actor(j)}
    BY <2>1, <1>2 DEF LikeOK
  <2>4. stored' = stored \cup {Of[j]} /\ undone' = undone
    BY <1>4, <1>6, RecordDoes
  <2>5. older = {} => row'.replies = row.replies /\ row'.votes = row.votes
    BY <1>6, <1>e
  <2> QED BY <1>2, <1>6, <2>1, <2>2, <2>3, <2>4, <2>5, DisjointAssumption DEF LikeOK
<1>7. CASE j \in Undos
  <2>1. UndoOK(j)
    BY <1>2, <1>3, <1>7 DEF JobOK
  <2>2. /\ stored' = IF step[j] = "empty" THEN stored ELSE stored \ {Of[j]}
        /\ undone' = undone \cup {Of[j]}
    BY <1>4, <1>7, RecordDoes
  <2>3. older = {} => row'.replies = row.replies /\ row'.votes = row.votes
    BY <1>7, <1>e
  <2>4. CASE step[j] = "empty"
    <3>1. Of[j] \in undone
      BY <2>1, <2>4 DEF UndoOK
    <3> QED BY <1>2, <1>7, <2>2, <2>3, <2>4, <3>1, DisjointAssumption
  <2>5. CASE step[j] # "empty"
    <3>1. lock = j /\ Of[j] \in stored /\ row'.likes = row.likes \ {Actor(j)}
      BY <1>2, <1>3, <2>1, <2>5 DEF UndoOK, Inside
    <3> QED BY <1>2, <1>7, <2>2, <2>3, <2>5, <3>1, DisjointAssumption
  <2> QED BY <2>4, <2>5
<1>8. CASE j \in Replies \cup Votes
  <2>1. step[j] = "written"
    BY <1>2, <1>3, <1>8, KindOf DEF JobOK, TombOK, Path, Good
  <2>2. OtherOK(j)
    BY <1>2, <1>3, <1>8 DEF JobOK
  <2>3. stored' = stored \cup {j} /\ undone' = undone
    BY <1>4, <1>8, RecordDoes
  <2>4. older = {} => row'.replies \cup row'.votes = row.replies \cup row.votes \cup {j}
    BY <1>2, <1>5, <1>8, <2>1 DEF CountOK
  <2> QED BY <1>2, <1>8, <2>1, <2>2, <2>3, <2>4, DisjointAssumption DEF OtherOK
<1> QED BY <1>2, <1>6, <1>7, <1>8 DEF Jobs

LEMMA CommitStep ==
    ASSUME Base, Core, NEW j \in Jobs, Commit(j)
    PROVE  Core'
<1>t. TypeOK /\ (\A i \in Jobs : JobOK(i)) /\ CacheOK /\ LikesAgree /\ UndoneStaysUndone
  BY DEF Base, Core
<1>1. /\ step' = [step EXCEPT ![j] = "done"] /\ copy' = [copy EXCEPT ![j] = Fresh]
      /\ lock' = IF lock = j THEN None ELSE lock
      /\ UNCHANGED <<cache, view, older>>
      /\ step[j] \in {"written", "ready", "empty"}
  BY DEF Commit, End, Go, Keep
<1>2. (Clean' <=> Clean) /\ (Good' => Good)
  BY <1>1, CommitDoes DEF Clean
<1>3. JobOK(j)'
  <2>1. step'[j] = "done"
    BY <1>1, <1>t DEF TypeOK
  <2> QED BY <2>1 DEF JobOK, TombOK, LikeOK, UndoOK, OtherOK, CountOK, Inside
<1>4. ASSUME NEW i \in Jobs, i # j PROVE JobOK(i)'
  <2>1. /\ JobOK(i) /\ step'[i] = step[i] /\ copy'[i] = copy[i] /\ (lock' = i <=> lock = i)
        /\ step[i] \in Path(i)
    BY <1>1, <1>t, <1>4, DisjointAssumption DEF TypeOK, Base, PathOK
  <2>2. Clean /\ step[i] = "written" => row' = row
    BY <1>4, RowDoes DEF Base, LocksOK
  <2>3. Clean => TombOK(i)'
    <3> SUFFICES ASSUME Clean PROVE TombOK(i)'
      OBVIOUS
    <3>1. TombOK(i)
      BY <2>1 DEF JobOK
    <3>2. /\ row.deleted => row'.deleted
          /\ j \notin Deletes => row'.deleted = row.deleted
      BY RowDoes
    <3>3. ASSUME i \in LikeJobs \cup Undos, step[i] \in {"read", "written"}
          PROVE  row'.deleted = row.deleted
      <4>1. CASE row.deleted
        BY <4>1, <3>2, RowDoes, <1>t, <2>1 DEF TypeOK, Rows, Commit
      <4>2. CASE ~row.deleted /\ j \in Deletes
        <5>1. lock = j
          BY <1>1, <4>2 DEF Base, LocksOK, Inside
        <5>2. i \in LikeJobs => lock = i
          BY <3>3 DEF Base, LocksOK, Inside
        <5>3. i \in Undos => UndoOK(i)
          BY <2>1, <4>2 DEF JobOK, Good
        <5>4. i \in Undos => lock = i
          BY <5>3, <3>3 DEF UndoOK, Inside
        <5> QED BY <5>1, <5>2, <5>4, <3>3, <1>4
      <4> QED BY <4>1, <4>2, <3>2
    <3> QED BY <2>1, <2>2, <3>1, <3>2, <3>3 DEF TombOK
  <2>4. ASSUME Good', i \in LikeJobs PROVE LikeOK(i)'
    <3>1. LikeOK(i) /\ Of[i] \in Likes
      BY <1>2, <2>1, <2>4, OfType DEF JobOK
    <3>2. step[i] \in {"read", "written", "ready"} => lock = i
      BY <2>4 DEF Base, LocksOK, Inside
    <3>3. CASE lock = i
      <4>1. row'.likes = row.likes /\ stored' \cap Likes = stored \cap Likes /\ undone' = undone
        BY <2>4, <3>3, <1>4, CommitDoes, DisjointAssumption DEF Jobs
      <4> QED BY <2>1, <3>1, <4>1 DEF LikeOK, Actor
    <3>4. CASE step[i] \notin {"read", "written", "ready"}
      BY <2>1, <3>4 DEF LikeOK
    <3> QED BY <3>2, <3>3, <3>4
  <2>5. ASSUME Good', i \in Undos PROVE UndoOK(i)'
    <3>1. UndoOK(i) /\ Of[i] \in Likes
      BY <1>2, <2>1, <2>5, OfType DEF JobOK
    <3>2. stored \cup undone \subseteq stored' \cup undone' /\ undone \subseteq undone'
      BY <2>5, CommitDoes
    <3>3. CASE lock = i
      <4>1. row'.likes = row.likes /\ stored' \cap Likes = stored \cap Likes /\ undone' = undone
        BY <2>5, <3>3, <1>4, CommitDoes, DisjointAssumption DEF Jobs
      <4> QED BY <2>1, <3>1, <3>3, <4>1 DEF UndoOK, Actor
    <3>4. CASE lock # i
      <4>1. step[i] \in Inside => Of[i] \in undone /\ step[i] \in {"handling", "empty"}
        BY <3>1, <3>4 DEF UndoOK
      <4>2. step[i] = "empty" => Of[i] \notin stored'
        <5>1. step[i] = "empty" => Of[i] \in undone /\ Of[i] \notin stored
          BY <3>1, <4>1 DEF UndoOK, Inside
        <5> QED BY <2>5, <3>1, <5>1, CommitDoes, DisjointAssumption DEF Jobs
      <4>3. step[i] \notin {"read", "written", "ready"}
        BY <4>1 DEF Inside
      <4>4. /\ step[i] \notin {"new", "done"} => Of[i] \in stored' \cup undone'
            /\ step[i] \in Inside => Of[i] \in undone' /\ step[i] \in {"handling", "empty"}
        BY <3>1, <3>2, <4>1 DEF UndoOK
      <4> QED BY <2>1, <4>2, <4>3, <4>4 DEF UndoOK
    <3> QED BY <3>3, <3>4
  <2>6. ASSUME Good', i \in Replies \cup Votes PROVE OtherOK(i)'
    <3>1. OtherOK(i) /\ Clean
      BY <1>2, <2>1, <2>6 DEF JobOK, Good
    <3> QED BY <2>1, <2>2, <3>1 DEF OtherOK
  <2>7. ASSUME Good', older' = {}, i \notin Deletes PROVE CountOK(i)'
    <3>1. CountOK(i) /\ Clean
      BY <1>1, <1>2, <2>1, <2>7 DEF JobOK, Good
    <3> QED BY <2>1, <2>2, <3>1 DEF CountOK
  <2> QED BY <1>2, <2>3, <2>4, <2>5, <2>6, <2>7 DEF JobOK
<1>5. CacheOK'
  BY <1>1, <1>2, <1>t, RowDoes DEF CacheOK
<1>6. (LikesAgree /\ UndoneStaysUndone)'
  <2> SUFFICES ASSUME Good'
               PROVE  /\ row'.likes \subseteq {LikedBy[l] : l \in stored' \cap Likes}
                      /\ \A l \in stored' \cap Likes :
                          \/ LikedBy[l] \in row'.likes
                          \/ \E m \in undone' : LikedBy[m] = LikedBy[l]
                      /\ stored' \cap undone' = {}
    BY DEF LikesAgree, UndoneStaysUndone, Good, Clean
  <2>1. /\ row.likes \subseteq {LikedBy[l] : l \in stored \cap Likes}
        /\ \A l \in stored \cap Likes :
            \/ LikedBy[l] \in row.likes
            \/ \E m \in undone : LikedBy[m] = LikedBy[l]
        /\ stored \cap undone = {}
    BY <1>2, <1>t DEF LikesAgree, UndoneStaysUndone, Good, Clean
  <2>2. CASE /\ j \in LikeJobs /\ Of[j] \notin stored \cup undone
             /\ stored' = stored \cup {Of[j]} /\ undone' = undone
             /\ row'.likes = row.likes \cup {Actor(j)}
    <3>1. Of[j] \in Likes
      BY <2>2, OfType
    <3> QED BY <2>1, <2>2, <3>1 DEF Actor
  <2>3. CASE /\ j \in Undos /\ Of[j] \in stored
             /\ stored' = stored \ {Of[j]} /\ undone' = undone \cup {Of[j]}
             /\ row'.likes = row.likes \ {Actor(j)}
    BY <2>1, <2>3 DEF Actor
  <2>4. CASE row' = row /\ stored' = stored /\ undone' = undone
    BY <2>1, <2>4
  <2>5. CASE stored' = stored \cup {j} /\ undone' = undone /\ row'.likes = row.likes
    <3>1. j \notin Likes /\ stored' \cap Likes = stored \cap Likes /\ undone \subseteq Likes
      BY <2>5, <1>t, DisjointAssumption DEF TypeOK
    <3> QED BY <2>1, <2>5, <3>1
  <2> QED BY <2>2, <2>3, <2>4, <2>5, CommitDoes
<1> QED BY <1>3, <1>4, <1>5, <1>6 DEF Core

LEMMA CoreStep == Base /\ Core /\ [Next]_vars => Core'
BY QuietStep, CommitStep

LEMMA Invariant == Spec => [](Base /\ Core)
BY BaseInit, BaseStep, CoreInit, CoreStep, PTL DEF Spec

\* The row, the cache, the copies and the steps keep their types.
THEOREM TypeCorrect == Spec => []TypeOK
<1>1. Base => TypeOK
  BY DEF Base
<1> QED BY <1>1, Invariant, PTL

\* The row's likes are those of the stored Likes, as long as no vote wrote an
\* older copy.
THEOREM LikesAgreeCorrect == Spec => []LikesAgree
<1>1. Core => LikesAgree
  BY DEF Core
<1> QED BY <1>1, Invariant, PTL

\* A Like that was undone is not stored again.
THEOREM UndoneStaysUndoneCorrect == Spec => []UndoneStaysUndone
<1>1. Core => UndoneStaysUndone
  BY DEF Core
<1> QED BY <1>1, Invariant, PTL

\* No like, undo or reply brings a deleted post back.
THEOREM DeletedStaysDeletedCorrect == Spec => DeletedStaysDeleted
<1>1. Base /\ Core /\ [Next]_vars => [row.deleted => row'.deleted \/ "Vote" \in older']_vars
  <2> SUFFICES ASSUME Base, Core, [Next]_vars, row.deleted, "Vote" \notin older'
               PROVE  row'.deleted
    OBVIOUS
  <2>1. CASE row' = row
    BY <2>1
  <2>2. CASE \E j \in Jobs : Commit(j)
    <3>1. PICK j \in Jobs : Commit(j)
      BY <2>2
    <3>2. Clean
      BY <3>1 DEF Commit, Clean
    <3> QED BY <3>1, <3>2, RowDoes
  <2>3. row' = row \/ \E j \in Jobs : Commit(j)
    BY DEF Next, vars, LikeCheck, UndoCheck, UndoFind, Lock, LikeSkip, ReadRow, UndoNothing,
           AddLike, RemoveLike, WriteLikes, Write, Reply, VoteCheck, VoteRead, VoteWrite,
           DeleteCheck, Bury, Abort, ViewLoad, ViewPut, Expire
  <2> QED BY <2>1, <2>2, <2>3
<1> QED BY <1>1, Invariant, PTL DEF Spec, DeletedStaysDeleted

(***************************************************************************)
(* That the rows implement PostAggregates: a commit is one of its steps,   *)
(* all else is none.                                                       *)
(***************************************************************************)

LEMMA PostStarts == Init => Post!PostInit
BY DEF Init, Fresh, Overwritten, Post!PostInit

\* Before its commit a job may write, on its own copy, and write over a newer row.
LEMMA StillUntilCommit ==
    ASSUME TypeOK, [Next]_vars, ~\E j \in Jobs : Commit(j)
    PROVE  row' = row /\ stored' = stored /\ undone' = undone /\ older \subseteq older'
BY DEF Next, vars, activities, LikeCheck, UndoCheck, UndoFind, Lock, LikeSkip, ReadRow,
       UndoNothing, AddLike, RemoveLike, WriteLikes, Write, Reply, VoteCheck, VoteRead,
       VoteWrite, DeleteCheck, Bury, Abort, ViewLoad, ViewPut, Expire

LEMMA StillIsNoStep ==
    ASSUME row' = row, stored' = stored, undone' = undone, older \subseteq older'
    PROVE  [Post!PostNext]_Post!postVars
<1>1. Overwritten \subseteq Overwritten'
  BY DEF Overwritten
<1>2. CASE Overwritten' = Overwritten
  BY <1>2 DEF Post!postVars
<1>3. CASE Overwritten' # Overwritten
  <2>1. Post!Overtaken
    BY <1>1, <1>3 DEF Post!Overtaken
  <2> QED BY <2>1 DEF Post!PostNext
<1> QED BY <1>2, <1>3

\* A vote wrote over the post, or it is deleted: little is promised.
LEMMA CommitAfterAll ==
    ASSUME Base, Core, NEW j \in Jobs, Commit(j), ~Good
    PROVE  Post!PostNext
<1>1. older' = older /\ Overwritten' = Overwritten
  BY DEF Commit, Overwritten
<1>2. CASE ~Clean
  BY <1>1, <1>2 DEF Clean, Overwritten, Post!Spoilt, Post!PostNext
<1>3. CASE Clean
  <2>1. row.deleted /\ row'.deleted
    BY <1>3, RowDoes DEF Good
  <2> QED BY <1>1, <2>1 DEF Post!OfTombstone, Post!PostNext
<1> QED BY <1>2, <1>3

\* The deletion of a post: the tombstone is empty, the Likes go, the Undos stay.
LEMMA CommitDeletes ==
    ASSUME Base, Core, NEW j \in Jobs, Commit(j), Good, row'.deleted
    PROVE  Post!PostNext
<1>1. older' = older /\ Overwritten' = Overwritten /\ Record(j) /\ TypeOK
  BY DEF Commit, Overwritten, Base
<1>2. j \in Deletes /\ row' = copy[j] /\ step[j] = "written"
  BY RowDoes DEF Good
<1>3. copy[j] = Tombstone
  BY <1>2 DEF Core, JobOK, TombOK, Good
<1>4. stored' = stored \ Likes /\ undone' = undone
  <2>1. stored' = stored \ Likes /\ undone' = undone \ stored
    BY <1>1, <1>2, RecordDoes
  <2>2. stored \cap undone = {}
    BY DEF Core, UndoneStaysUndone, Good, Clean
  <2> QED BY <2>1, <2>2
<1>5. row'.likes = {} /\ row'.replies \cup row'.votes = {}
  BY <1>2, <1>3 DEF Tombstone, Fresh
<1>6. Post!Sound
  BY DEF Good, Clean, Overwritten, Post!Sound
<1> QED BY <1>1, <1>4, <1>5, <1>6 DEF Post!Delete, Post!PostNext

\* The commit of a Like, an Undo, a reply or a vote has the effect of that one.
LEMMA CommitTakesEffect ==
    ASSUME Base, Core, NEW j \in Jobs, Commit(j), Good'
    PROVE  [Post!PostNext]_Post!postVars
<1>1. older' = older /\ Overwritten' = Overwritten
  BY DEF Commit, Overwritten
<1>2. Good /\ Post!Sound /\ row'.deleted = row.deleted
  BY CommitDoes, RowDoes DEF Good, Clean, Overwritten, Post!Sound
<1>3. ASSUME NEW c, older = {} => row'.replies \cup row'.votes = c
      PROVE  Post!CountsAre(c)
  BY <1>3 DEF Overwritten, Post!CountsAre
<1>4. CASE /\ j \in LikeJobs /\ Of[j] \notin stored \cup undone
           /\ stored' = stored \cup {Of[j]} /\ undone' = undone
           /\ row'.likes = row.likes \cup {Actor(j)}
  <2>1. Of[j] \in Likes
    BY <1>4, OfType
  <2>2. Post!CountsAre(row.replies \cup row.votes)
    BY <1>3, <1>4, CommitDoes
  <2>3. Post!Like(Of[j])
    BY <1>1, <1>2, <1>4, <2>2 DEF Post!Like, Actor
  <2> QED BY <2>1, <2>3 DEF Post!PostNext
<1>5. CASE /\ j \in Undos /\ Of[j] \in stored
           /\ stored' = stored \ {Of[j]} /\ undone' = undone \cup {Of[j]}
           /\ row'.likes = row.likes \ {Actor(j)}
  <2>1. Of[j] \in Likes
    BY <1>5, OfType
  <2>2. Post!CountsAre(row.replies \cup row.votes)
    BY <1>3, <1>5, CommitDoes
  <2>3. Post!Undo(Of[j])
    BY <1>1, <1>2, <1>5, <2>2 DEF Post!Undo, Actor
  <2> QED BY <2>1, <2>3 DEF Post!PostNext
<1>6. CASE row' = row /\ stored' = stored /\ undone' = undone
  BY <1>1, <1>6, StillIsNoStep
<1>7. CASE /\ j \in Replies \cup Votes
           /\ stored' = stored \cup {j} /\ undone' = undone /\ row'.likes = row.likes
  <2>1. Post!CountsAre((row.replies \cup row.votes) \cup {j})
    BY <1>3, <1>7, CommitDoes
  <2>2. Post!Count(j)
    BY <1>1, <1>2, <1>7, <2>1 DEF Post!Count
  <2> QED BY <1>7, <2>2 DEF Post!PostNext
<1> QED BY <1>4, <1>5, <1>6, <1>7, CommitDoes

\* The row changes as if every Like, Undo, reply, vote and deletion were one step.
THEOREM EffectsKeptCorrect == Spec => EffectsKept
<1>1. Base /\ Core /\ [Next]_vars => [Post!PostNext]_Post!postVars
  <2> SUFFICES ASSUME Base, Core, [Next]_vars
               PROVE  [Post!PostNext]_Post!postVars
    OBVIOUS
  <2>1. CASE ~\E j \in Jobs : Commit(j)
    BY <2>1, StillUntilCommit, StillIsNoStep DEF Base
  <2>2. CASE \E j \in Jobs : Commit(j)
    <3>1. PICK j \in Jobs : Commit(j)
      BY <2>2
    <3>2. Good' \/ ~Good \/ row'.deleted
      BY <3>1 DEF Good, Clean, Commit
    <3> QED BY <3>1, <3>2, CommitAfterAll, CommitDeletes, CommitTakesEffect
  <2> QED BY <2>1, <2>2
<1> QED BY <1>1, PostStarts, Invariant, PTL DEF Spec, EffectsKept, Post!PostSpec
=============================================================================
