---------------------------- MODULE FollowRelation ----------------------------
(***************************************************************************)
(* One user, on server "a", follows another one, on server "b"; both run   *)
(* this code.  Each server has a row of following_relationships for the    *)
(* pair and the Follow activities it knows, with a state in each.  Follow, *)
(* Undo, Accept and Reject travel by delivery jobs: in any order, more     *)
(* than once, or never.  A header on what b posts lets a's server compare  *)
(* and repair its row (FEP-8fcf), where that is enabled.                   *)
(***************************************************************************)
EXTENDS Naturals, Sequences

CONSTANTS
    MaxFollows,     \* bound: how often a asks
    MaxUndos        \* bound: how often a leaves

ASSUME BoundsAssumption == MaxFollows \in Nat /\ MaxUndos \in Nat

VARIABLES
    rel,        \* the row of each server: "none" if there is no row
    state,      \* the states of the Follow activities on a's server
    latest,     \* the Follow b's server has inserted last, 0 if none
    sent,       \* the activities each server has published to the other
    got,        \* the places in sent of the other's that a server has handled
    leaving,    \* a's row is deleted, the Undo is not yet written
    removing,   \* b's server has cancelled the Follow, its row is still there
    click,      \* the answer b is about to give
    sync,       \* the synchronization job of a's server
    crossed,    \* history: an unfollow and an answer, or two activities of
                \* one server, have met on the way, or a server stopped half-way
    silent      \* history: a's row was taken from it without a word

rows == <<rel, state, latest>>
mail == <<sent, got>>
vars == <<rows, mail, leaving, removing, click, sync, crossed, silent>>

Servers == {"a", "b"}
Follows == 1..MaxFollows
Answers == [type : {"Accept", "Reject"}, follow : Follows]
Activities == Answers \cup [type : {"Follow", "Undo"}, follow : Follows]
NoClick == [type |-> "none", follow |-> 0]

TypeOK ==
    /\ rel \in [Servers -> {"none", "pending", "accept"}]
    /\ state \in [Follows -> {"none", "pending", "accept", "reject", "cancelled"}]
    /\ latest \in 0..MaxFollows
    /\ sent \in [Servers -> Seq(Activities)]
    /\ got \in [Servers -> SUBSET Nat]
    /\ leaving \in BOOLEAN /\ removing \in BOOLEAN
    /\ click \in Answers \cup {NoClick}
    /\ sync \in [at : {"idle", "queued", "fetched", "accept", "unfollow"}, listed : BOOLEAN]
    /\ crossed \in BOOLEAN /\ silent \in BOOLEAN

NoSync == [at |-> "idle", listed |-> FALSE]

Init ==
    /\ rel = [s \in Servers |-> "none"]
    /\ state = [n \in Follows |-> "none"]
    /\ latest = 0
    /\ sent = [s \in Servers |-> <<>>]
    /\ got = [s \in Servers |-> {}]
    /\ leaving = FALSE /\ removing = FALSE
    /\ click = NoClick
    /\ sync = NoSync
    /\ crossed = FALSE /\ silent = FALSE

Other(s) == IF s = "a" THEN "b" ELSE "a"
Asked == {n \in Follows : state[n] # "none"}
Granted == {n \in Follows : \E i \in DOMAIN sent["b"] : sent["b"][i] = [type |-> "Accept", follow |-> n]}
InFlight(s) == {i \in DOMAIN sent[s] : i \notin got[Other(s)]}
Undos == {i \in DOMAIN sent["a"] : sent["a"][i].type = "Undo"}
UndoUnderWay == leaving \/ removing \/ InFlight("a") \cap Undos # {}

Activity(type, n) == [type |-> type, follow |-> n]
Send(s, type, n) == sent' = [sent EXCEPT ![s] = Append(@, Activity(type, n))]

\* The server handles the i-th activity of the other one, which the guard
\* against duplicates lets through once.
Handle(s, i) == i \in InFlight(Other(s)) /\ got' = [got EXCEPT ![s] = @ \cup {i}]
Late(s, i) == \E j \in got[s] : j > i

\* mutant: only the requests that wait
MutStateForAll(new) ==
    [n \in Follows |-> IF state[n] = "pending" THEN new ELSE state[n]]

\* update_follow_state_for_all
StateForAll(new) ==
    [n \in Follows |-> IF state[n] \in {"pending", "accept"} THEN new ELSE state[n]]

(***************************************************************************)
(* The follower                                                            *)
(***************************************************************************)

\* CommonAPI.follow: one transaction.
Follow(n) ==
    /\ n \notin Asked /\ Asked = 1..(n - 1)
    /\ state' = [state EXCEPT ![n] = "pending"]
    /\ rel' = [rel EXCEPT !["a"] = IF @ = "none" THEN "pending" ELSE @]
    /\ Send("a", "Follow", n)
    /\ silent' = FALSE
    /\ UNCHANGED <<latest, got, leaving, removing, click, sync, crossed>>

\* CommonAPI.unfollow: User.unfollow deletes the row, ...
Leave ==
    /\ rel["a"] # "none" /\ ~leaving
    /\ Len(SelectSeq(sent["a"], LAMBDA m : m.type = "Undo")) < MaxUndos
    /\ rel' = [rel EXCEPT !["a"] = "none"]
    /\ leaving' = TRUE
    /\ crossed' = (crossed \/ InFlight("b") # {})
    /\ UNCHANGED <<state, latest, mail, removing, click, sync, silent>>

\* ... then ActivityPub.unfollow cancels the latest Follow and undoes it.
Cancel ==
    /\ leaving /\ leaving' = FALSE
    /\ \E n \in Asked :
        /\ Asked = 1..n
        /\ state' = [state EXCEPT ![n] = "cancelled"]
        /\ Send("a", "Undo", n)
    /\ crossed' = (crossed \/ InFlight("b") # {})
    /\ silent' = FALSE
    /\ UNCHANGED <<rel, latest, got, removing, click, sync>>

\* handle_accepted: also for a Follow that was cancelled since.
TakeAccept(i) ==
    /\ Handle("a", i) /\ sent["b"][i].type = "Accept"
    /\ state' = StateForAll("accept")
    /\ rel' = [rel EXCEPT !["a"] = "accept"]
    /\ crossed' = (crossed \/ Late("a", i))
    /\ silent' = FALSE
    /\ UNCHANGED <<latest, sent, leaving, removing, click, sync>>

TakeReject(i) ==
    /\ Handle("a", i) /\ sent["b"][i].type = "Reject"
    /\ state' = StateForAll("reject")
    /\ rel' = [rel EXCEPT !["a"] = "none"]
    /\ crossed' = (crossed \/ Late("a", i))
    /\ silent' = FALSE
    /\ UNCHANGED <<latest, sent, leaving, removing, click, sync>>

(***************************************************************************)
(* The followed                                                            *)
(***************************************************************************)

\* mutant: the row of a locked account begins as accepted
MutTakeFollow(i, answer) ==
    /\ Handle("b", i) /\ sent["a"][i].type = "Follow"
    /\ latest' = sent["a"][i].follow
    /\ rel' = [rel EXCEPT !["b"] = IF answer = "Reject" THEN "none" ELSE "accept"]
    /\ IF answer = "none" THEN sent' = sent ELSE Send("b", answer, latest')
    /\ crossed' = (crossed \/ Late("b", i) \/ UndoUnderWay)
    /\ UNCHANGED <<state, leaving, removing, click, sync, silent>>

\* A request, in one transaction: noted if the account is locked, accepted if
\* it is not, refused if it is deactivated or blocks the follower.
TakeFollow(i, answer) ==
    /\ Handle("b", i) /\ sent["a"][i].type = "Follow"
    /\ latest' = sent["a"][i].follow
    /\ CASE answer = "none" ->
              /\ rel' = [rel EXCEPT !["b"] = IF @ = "none" THEN "pending" ELSE @]
              /\ sent' = sent
         [] answer = "Accept" ->
              rel' = [rel EXCEPT !["b"] = "accept"] /\ Send("b", answer, latest')
         [] answer = "Reject" ->
              rel' = [rel EXCEPT !["b"] = "none"] /\ Send("b", answer, latest')
    /\ crossed' = (crossed \/ Late("b", i) \/ UndoUnderWay)
    /\ UNCHANGED <<state, leaving, removing, click, sync, silent>>

\* An Undo cancels the Follow that was inserted last, whichever it names; one
\* that comes before any Follow is dropped.
TakeUndo(i) ==
    /\ Handle("b", i) /\ sent["a"][i].type = "Undo"
    /\ ~removing /\ removing' = (latest # 0)
    /\ crossed' = (crossed \/ Late("b", i))
    /\ UNCHANGED <<rows, sent, leaving, click, sync, silent>>

RemoveRow ==
    /\ removing /\ removing' = FALSE
    /\ rel' = [rel EXCEPT !["b"] = "none"]
    /\ UNCHANGED <<state, latest, mail, leaving, click, sync, crossed, silent>>

\* accept_follow_request, reject_follow_request: the latest Follow is read ...
Choose(type) ==
    /\ click = NoClick /\ latest # 0
    /\ click' = Activity(type, latest)
    /\ UNCHANGED <<rows, mail, leaving, removing, sync, crossed, silent>>

\* mutant: a reject is sent but the row stays
MutDecide ==
    /\ click # NoClick /\ click' = NoClick
    /\ IF \E i \in DOMAIN sent["b"] : sent["b"][i] = click
       THEN UNCHANGED <<rel, sent, crossed>>
       ELSE /\ Send("b", click.type, click.follow)
            /\ rel' = [rel EXCEPT !["b"] = IF click.type = "Accept" THEN "accept" ELSE @]
            /\ crossed' = (crossed \/ UndoUnderWay)
    /\ UNCHANGED <<state, latest, got, leaving, removing, sync, silent>>

\* ... and answered, unless that answer was given before: its id is the same.
Decide ==
    /\ click # NoClick /\ click' = NoClick
    /\ IF \E i \in DOMAIN sent["b"] : sent["b"][i] = click
       THEN UNCHANGED <<rel, sent, crossed>>
       ELSE /\ Send("b", click.type, click.follow)
            /\ rel' = [rel EXCEPT !["b"] = IF click.type = "Accept" THEN "accept" ELSE "none"]
            /\ crossed' = (crossed \/ UndoUnderWay)
    /\ UNCHANGED <<state, latest, got, leaving, removing, sync, silent>>

(***************************************************************************)
(* The synchronization of followers                                        *)
(***************************************************************************)
Listed == rel["b"] = "accept"

\* Something of b is delivered to a's server, with the digest of the list; if
\* it is not that of a's rows, a job is queued.  The digest is of all of b's
\* followers there: it may differ for another one.  One job at a time is a
\* bound: the code has one per digest.
Post ==
    /\ sync.at = "idle" /\ sync' = [at |-> "queued", listed |-> Listed]
    /\ UNCHANGED <<rows, mail, leaving, removing, click, crossed, silent>>

\* The list must have the digest that was announced.
Fetch ==
    /\ sync.at = "queued"
    /\ sync' = IF Listed = sync.listed THEN [sync EXCEPT !.at = "fetched"] ELSE NoSync
    /\ UNCHANGED <<rows, mail, leaving, removing, click, crossed, silent>>

\* mutant: only requests that wait are settled
MutReadRow ==
    /\ sync.at = "fetched"
    /\ sync' = IF rel["a"] = "pending" /\ sync.listed THEN [sync EXCEPT !.at = "accept"] ELSE NoSync
    /\ UNCHANGED <<rows, mail, leaving, removing, click, crossed, silent>>

\* reconcile: the row is read, ...
ReadRow ==
    /\ sync.at = "fetched"
    /\ sync' = CASE rel["a"] = "pending" /\ sync.listed -> [sync EXCEPT !.at = "accept"]
                 [] rel["a"] = "accept" /\ ~sync.listed -> [sync EXCEPT !.at = "unfollow"]
                 [] OTHER -> NoSync
    /\ UNCHANGED <<rows, mail, leaving, removing, click, crossed, silent>>

\* ... then updated, or inserted again, or deleted.
Reconcile ==
    /\ sync.at \in {"accept", "unfollow"} /\ sync' = NoSync
    /\ rel' = [rel EXCEPT !["a"] = IF sync.at = "accept" THEN "accept" ELSE "none"]
    /\ crossed' = (crossed \/ InFlight("a") # {} \/ InFlight("b") # {} \/ leaving \/ removing
                    \/ Listed # sync.listed)
    /\ silent' = (silent \/ (sync.at = "unfollow" /\ rel["a"] # "none"))
    /\ UNCHANGED <<state, latest, mail, leaving, removing, click>>

(***************************************************************************)
(* Restarts: what is between two transactions is lost; jobs are kept       *)
(***************************************************************************)
RestartA ==
    /\ leaving \/ sync.at \in {"fetched", "accept", "unfollow"}
    /\ leaving' = FALSE
    /\ sync' = IF sync.at = "idle" THEN sync ELSE [sync EXCEPT !.at = "queued"]
    /\ crossed' = (crossed \/ leaving) /\ silent' = (silent \/ leaving)
    /\ UNCHANGED <<rows, mail, removing, click>>

RestartB ==
    /\ removing \/ click # NoClick
    /\ removing' = FALSE /\ click' = NoClick
    /\ crossed' = (crossed \/ removing)
    /\ UNCHANGED <<rows, mail, leaving, sync, silent>>

Handled ==
    \/ \E i \in DOMAIN sent["a"] :
          TakeUndo(i) \/ \E answer \in {"none", "Accept", "Reject"} : TakeFollow(i, answer)
    \/ \E i \in DOMAIN sent["b"] : TakeAccept(i) \/ TakeReject(i)
Finishing == Cancel \/ RemoveRow \/ Decide
Syncing == Fetch \/ ReadRow \/ Reconcile
Chosen ==
    \/ \E n \in Follows : Follow(n)
    \/ Leave
    \/ \E type \in {"Accept", "Reject"} : Choose(type)
Restarts == RestartA \/ RestartB

Next == Handled \/ Finishing \/ Post \/ Syncing \/ Chosen \/ Restarts

Spec == Init /\ [][Next]_vars

\* What a server has begun it ends, and its jobs run.
FairSpec == Spec /\ WF_vars(Finishing) /\ WF_vars(Syncing)

(***************************************************************************)
(* Properties                                                              *)
(***************************************************************************)

\* Neither server has the relation as accepted unless a asked and b's server
\* granted a request, whichever way the rows come to say so.
Consent == INSTANCE FollowConsent WITH asked <- Asked, granted <- Granted
ConsentKept == Consent!ConsentInit /\ [][Consent!ConsentNext]_Consent!consentVars

\* When everything is handled both servers agree on who follows, unless an
\* unfollow crossed an answer, an activity overtook another, or a restart fell
\* between two steps.
AgreeWhenQuiet ==
    /\ InFlight("a") = {} /\ InFlight("b") = {}
    /\ ~leaving /\ ~removing
    => crossed \/ (rel["a"] = "accept") = (rel["b"] = "accept")

\* get_follow_state tells a of the latest Follow if there is no row: it tells
\* of no relation that has ended, unless the row was taken silently.
NoGhost ==
    rel["a"] = "none" /\ ~leaving /\ ~silent =>
        \A n \in Asked : Asked = 1..n => state[n] \in {"reject", "cancelled"}

\* Where the synchronization is enabled and what b posts reaches a's server
\* again and again, the rows agree in the end, whatever was lost, reordered or
\* interrupted before, except that a row that is gone does not come back.
SyncSettles ==
    /\ <>[][~Chosen /\ ~Restarts]_vars
    /\ []<><<Post>>_vars
    => <>[](rel["a"] # "none" => (rel["a"] = "accept") = (rel["b"] = "accept"))
=============================================================================
