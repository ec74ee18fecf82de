------------------------- MODULE MCObjectAggregates -------------------------
(* The activities of the TLC run of ObjectAggregates.                      *)
EXTENDS ObjectAggregates, TLC

CONSTANTS l1, l2, like1, again1, like2

\* Every Like has an actor of its own.
OneEach == [l \in Likes |-> l]

\* like2 is the only delivery of the second Like, all else is about the first.
About == [j \in LikeJobs \cup Undos |-> IF j = like2 THEN l2 ELSE l1]

\* The two deliveries of the first Like are alike.
Symmetric == Permutations({like1, again1})

\* Nothing is claimed after a vote has written an older copy of the row.
Claimed == "Vote" \notin older
=============================================================================
