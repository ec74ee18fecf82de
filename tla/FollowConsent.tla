---------------------------- MODULE FollowConsent -----------------------------
(***************************************************************************)
(* What a follow promises to the two people it is between.  Each of their  *)
(* servers keeps its own view of the relation; nobody is a follower in     *)
(* either view unless he has asked, and unless the other's server has      *)
(* granted a request of his.  How requests and answers travel, and when a  *)
(* view ends, is left open: FollowRelation implements this.                *)
(***************************************************************************)
CONSTANT Follows    \* requests

VARIABLES
    asked,      \* the requests the follower has made
    granted,    \* those the followed has granted
    rel         \* the relation as each server has it

consentVars == <<asked, granted, rel>>

ConsentInit ==
    /\ asked = {} /\ granted = {}
    /\ rel = [s \in {"a", "b"} |-> "none"]

\* The follower asks; he may be one already.
Ask(n) ==
    /\ n \notin asked /\ asked' = asked \cup {n}
    /\ rel' = [rel EXCEPT !["a"] = IF @ = "none" THEN "pending" ELSE @]
    /\ UNCHANGED granted

Notice ==
    /\ asked # {} /\ rel["b"] = "none"
    /\ rel' = [rel EXCEPT !["b"] = "pending"]
    /\ UNCHANGED <<asked, granted>>

\* A request may be granted again after the relation has ended.
Grant(n) ==
    /\ n \in asked /\ granted' = granted \cup {n}
    /\ rel' = [rel EXCEPT !["b"] = "accept"]
    /\ UNCHANGED asked

Learn ==
    /\ granted # {}
    /\ rel' = [rel EXCEPT !["a"] = "accept"]
    /\ UNCHANGED <<asked, granted>>

End(s) ==
    /\ rel' = [rel EXCEPT ![s] = "none"]
    /\ UNCHANGED <<asked, granted>>

ConsentNext ==
    \/ \E n \in Follows : Ask(n) \/ Grant(n)
    \/ Notice \/ Learn \/ End("a") \/ End("b")

ConsentSpec == ConsentInit /\ [][ConsentNext]_consentVars
=============================================================================
