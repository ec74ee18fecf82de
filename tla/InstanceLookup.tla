---------------------------- MODULE InstanceLookup ----------------------------
(***************************************************************************)
(* What the snapshot of unreachable hosts promises to those who ask: the   *)
(* answer for a host is "no date", or it is what the table says when it is *)
(* given.  InstanceHealth is written against this promise (Seen), the      *)
(* snapshot itself is InstanceCache.                                       *)
(***************************************************************************)
CONSTANTS
    Hosts,      \* peers
    Readers     \* processes that ask

VARIABLES
    dated,      \* the hosts with a date in the table
    asked,      \* the host a reader asks for; any host if it does not
    answer      \* "none" while a reader waits, else "date" or "clear"

lookupVars == <<dated, asked, answer>>

LookupInit ==
    /\ dated = {}
    /\ asked \in [Readers -> Hosts]
    /\ answer = [r \in Readers |-> "clear"]

\* A row is written.
Write ==
    /\ \E h \in Hosts : dated' \in {dated \cup {h}, dated \ {h}}
    /\ UNCHANGED <<asked, answer>>

Ask(r, h) ==
    /\ answer[r] # "none"
    /\ asked' = [asked EXCEPT ![r] = h]
    /\ answer' = [answer EXCEPT ![r] = "none"]
    /\ UNCHANGED dated

Answer(r) ==
    /\ answer[r] = "none"
    /\ \E a \in {"clear", IF asked[r] \in dated THEN "date" ELSE "clear"} :
        answer' = [answer EXCEPT ![r] = a]
    /\ UNCHANGED <<dated, asked>>

\* A restart ends all of them.
Forget ==
    /\ answer' = [r \in Readers |-> "clear"]
    /\ UNCHANGED <<dated, asked>>

LookupNext ==
    \/ Write \/ Forget
    \/ \E r \in Readers : Answer(r) \/ \E h \in Hosts : Ask(r, h)

LookupSpec == LookupInit /\ [][LookupNext]_lookupVars
=============================================================================
