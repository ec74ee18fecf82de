------------------------- MODULE FollowRelationProofs --------------------------
(***************************************************************************)
(* For any number of Follows and Undos: the types, that the two servers    *)
(* keep what FollowConsent promises, and that without a row the latest     *)
(* Follow tells of no relation that has ended.                             *)
(***************************************************************************)
EXTENDS FollowRelation, TLAPS

SyncJobs == [at : {"idle", "queued", "fetched", "accept", "unfollow"}, listed : BOOLEAN]

LEMMA SendType ==
    ASSUME TypeOK, NEW s \in Servers, NEW n \in Follows,
           NEW type \in {"Follow", "Undo", "Accept", "Reject"}, Send(s, type, n)
    PROVE  sent' \in [Servers -> Seq(Activities)]
<1>1. Activity(type, n) \in Activities
  BY DEF Activity, Activities, Answers
<1> QED BY <1>1 DEF TypeOK, Send

LEMMA StateForAllType ==
    ASSUME TypeOK, NEW new \in {"accept", "reject"}
    PROVE  /\ StateForAll(new) \in [Follows -> {"none", "pending", "accept", "reject", "cancelled"}]
           /\ \A n \in Follows : StateForAll(new)[n] = "none" <=> state[n] = "none"
BY DEF TypeOK, StateForAll

LEMMA FollowOf ==
    ASSUME TypeOK, NEW s \in Servers, NEW i \in DOMAIN sent[s]
    PROVE  i \in Nat /\ sent[s][i].follow \in Follows
<1>1. sent[s][i] \in Activities /\ i \in Nat
  BY DEF TypeOK
<1> QED BY <1>1 DEF Activities, Answers

LEMMA HandleType ==
    ASSUME TypeOK, NEW s \in Servers, NEW i \in Nat, Handle(s, i)
    PROVE  got' \in [Servers -> SUBSET Nat]
BY DEF TypeOK, Handle

LEMMA ClickType ==
    ASSUME TypeOK, click # NoClick
    PROVE  click \in Answers /\ click.type \in {"Accept", "Reject"} /\ click.follow \in Follows
BY DEF TypeOK, Answers

\* Follows are numbered from 1 to the bound.
LEMMA NumberType == Follows \subseteq 0..MaxFollows /\ 0 \in 0..MaxFollows
BY BoundsAssumption DEF Follows

LEMMA TypeInit == Init => TypeOK
<1> SUFFICES ASSUME Init PROVE TypeOK
  OBVIOUS
<1>1. sync \in [at : {"idle", "queued", "fetched", "accept", "unfollow"}, listed : BOOLEAN]
  BY DEF Init, NoSync
<1>2. sent \in [Servers -> Seq(Activities)]
  BY DEF Init
<1>3. latest \in 0..MaxFollows
  BY NumberType DEF Init
<1> QED BY <1>1, <1>2, <1>3 DEF Init, TypeOK

LEMMA TypeStep == TypeOK /\ [Next]_vars => TypeOK'
<1> SUFFICES ASSUME TypeOK, [Next]_vars PROVE TypeOK'
  OBVIOUS
<1> USE DEF mail, rows
<1>a. "a" \in Servers /\ "b" \in Servers
  BY DEF Servers
<1>1. ASSUME NEW n \in Follows, Follow(n) PROVE TypeOK'
  <2>1. sent' \in [Servers -> Seq(Activities)]
    BY <1>1, <1>a, SendType DEF Follow
  <2> QED BY <1>1, <2>1 DEF Follow, TypeOK
<1>2. CASE Leave
  BY <1>2 DEF Leave, TypeOK
<1>3. CASE Cancel
  <2>1. PICK n \in Follows : /\ state' = [state EXCEPT ![n] = "cancelled"]
                             /\ Send("a", "Undo", n)
    BY <1>3 DEF Cancel, Asked
  <2>2. sent' \in [Servers -> Seq(Activities)]
    BY <2>1, <1>a, SendType
  <2> QED BY <1>3, <2>1, <2>2 DEF Cancel, TypeOK
<1>4. ASSUME NEW i \in DOMAIN sent["b"], TakeAccept(i) \/ TakeReject(i) PROVE TypeOK'
  <2>1. got' \in [Servers -> SUBSET Nat]
    BY <1>4, <1>a, FollowOf, HandleType DEF TakeAccept, TakeReject
  <2>2. state' \in [Follows -> {"none", "pending", "accept", "reject", "cancelled"}]
    BY <1>4, StateForAllType DEF TakeAccept, TakeReject
  <2> QED BY <1>4, <2>1, <2>2 DEF TakeAccept, TakeReject, TypeOK
<1>5. ASSUME NEW i \in DOMAIN sent["a"], NEW answer \in {"none", "Accept", "Reject"},
             TakeFollow(i, answer)
      PROVE  TypeOK'
  <2>1. got' \in [Servers -> SUBSET Nat]
    BY <1>5, <1>a, FollowOf, HandleType DEF TakeFollow
  <2>2. latest' \in Follows
    BY <1>5, <1>a, FollowOf DEF TakeFollow
  <2>3. sent' \in [Servers -> Seq(Activities)]
    <3>1. CASE answer = "none"
      BY <1>5, <3>1 DEF TakeFollow, TypeOK
    <3>2. CASE answer # "none"
      <4>1. Send("b", answer, latest')
        BY <1>5, <3>2 DEF TakeFollow
      <4> QED BY <4>1, <2>2, <3>2, <1>a, SendType
    <3> QED BY <3>1, <3>2
  <2>4. rel' \in [Servers -> {"none", "pending", "accept"}]
    BY <1>5 DEF TakeFollow, TypeOK
  <2> QED BY <1>5, <2>1, <2>2, <2>3, <2>4, NumberType DEF TakeFollow, TypeOK
<1>6. ASSUME NEW i \in DOMAIN sent["a"], TakeUndo(i) PROVE TypeOK'
  <2>1. got' \in [Servers -> SUBSET Nat]
    BY <1>6, <1>a, FollowOf, HandleType DEF TakeUndo
  <2> QED BY <1>6, <2>1 DEF TakeUndo, TypeOK
<1>7. CASE RemoveRow
  BY <1>7 DEF RemoveRow, TypeOK
<1>8. ASSUME NEW type \in {"Accept", "Reject"}, Choose(type) PROVE TypeOK'
  <2>1. latest \in Follows
    BY <1>8, BoundsAssumption DEF Choose, TypeOK, Follows
  <2>2. click' \in Answers
    BY <1>8, <2>1 DEF Choose, Activity, Answers
  <2> QED BY <1>8, <2>2 DEF Choose, TypeOK
<1>9. CASE Decide
  <2>1. sent' \in [Servers -> Seq(Activities)]
    BY <1>9, <1>a, ClickType, SendType DEF Decide, TypeOK
  <2>2. rel' \in [Servers -> {"none", "pending", "accept"}]
    BY <1>9 DEF Decide, TypeOK
  <2>3. crossed' \in BOOLEAN
    BY <1>9 DEF Decide, TypeOK
  <2> QED BY <1>9, <2>1, <2>2, <2>3 DEF Decide, TypeOK
<1>10. CASE Post \/ Fetch \/ ReadRow
  <2>1. (rel["b"] = "accept") \in BOOLEAN
    OBVIOUS
  <2>2. /\ NoSync \in SyncJobs
        /\ \A l \in BOOLEAN, at \in {"fetched", "accept", "unfollow"} :
              [at |-> at, listed |-> l] \in SyncJobs
    BY DEF NoSync, SyncJobs
  <2>3. sync' \in SyncJobs
    <3>1. CASE Post
      BY <3>1, <2>1 DEF Post, Listed, SyncJobs
    <3>2. CASE Fetch
      <4>1. sync' \in {NoSync, [at |-> "fetched", listed |-> sync.listed]} /\ sync.listed \in BOOLEAN
        BY <3>2 DEF Fetch, TypeOK
      <4> QED BY <4>1, <2>2
    <3>3. CASE ReadRow
      <4>1. /\ sync.listed \in BOOLEAN
            /\ sync' \in {NoSync, [at |-> "accept", listed |-> sync.listed],
                                  [at |-> "unfollow", listed |-> sync.listed]}
        BY <3>3 DEF ReadRow, TypeOK
      <4> QED BY <4>1, <2>2
    <3> QED BY <1>10, <3>1, <3>2, <3>3
  <2> QED BY <1>10, <2>3 DEF Post, Fetch, ReadRow, TypeOK, SyncJobs
<1>11. CASE Reconcile
  BY <1>11 DEF Reconcile, TypeOK, NoSync
<1>12. CASE RestartA \/ RestartB
  BY <1>12 DEF RestartA, RestartB, TypeOK
<1>13. CASE UNCHANGED vars
  BY <1>13 DEF vars, TypeOK
<1> QED
  BY <1>1, <1>2, <1>3, <1>4, <1>5, <1>6, <1>7, <1>8, <1>9, <1>10, <1>11, <1>12, <1>13
  DEF Next, Handled, Finishing, Syncing, Chosen, Restarts

\* TypeOK: rows, Follows, activities and the job of the synchronization keep
\* their types, in particular no row is ever written as rejected
\* (FollowingRelationship.update deletes it).
THEOREM TypeCorrect == Spec => []TypeOK
BY TypeInit, TypeStep, PTL DEF Spec

(***************************************************************************)
(* Consent                                                                 *)
(***************************************************************************)

\* Nothing speaks of a request that was not made, and nothing says accepted
\* without a grant, wherever the word of it is at the moment.
Founded ==
    /\ \A i \in DOMAIN sent["a"] : sent["a"][i].follow \in Asked
    /\ latest # 0 => latest \in Asked
    /\ click # NoClick => click.follow \in Asked
    /\ rel["b"] = "accept" => Granted # {}
    /\ sync.listed => Granted # {}
    /\ sync.at = "accept" => sync.listed

CInv == TypeOK /\ Founded

\* What the other server handles was sent, and only an Accept grants.
LEMMA GrantedSent ==
    ASSUME TypeOK, NEW n \in Follows, NEW type \in {"Accept", "Reject"}, Send("b", type, n)
    PROVE  Granted' = IF type = "Accept" THEN Granted \cup {n} ELSE Granted
<1> DEFINE m == Activity(type, n)
           s == sent["b"]
<1>1. s \in Seq(Activities) /\ sent'["b"] = Append(s, m)
  BY DEF TypeOK, Servers, Send
<1>2. DOMAIN sent'["b"] = DOMAIN s \cup {Len(s) + 1} /\ Len(s) + 1 \notin DOMAIN s
  BY <1>1
<1>3. \A i \in DOMAIN s : sent'["b"][i] = s[i]
  BY <1>1
<1>4. sent'["b"][Len(s) + 1] = m
  BY <1>1
<1>5. \A k \in Follows : k \in Granted' <=> k \in Granted \/ m = [type |-> "Accept", follow |-> k]
  BY <1>2, <1>3, <1>4 DEF Granted
<1>6. \A k \in Follows : m = [type |-> "Accept", follow |-> k] <=> type = "Accept" /\ k = n
  BY DEF Activity
<1>7. Granted \subseteq Follows /\ Granted' \subseteq Follows
  BY DEF Granted, Follows
<1> QED BY <1>5, <1>6, <1>7

LEMMA GrantedKept == sent'["b"] = sent["b"] => Granted' = Granted
BY DEF Granted, Follows

LEMMA SentByA ==
    ASSUME TypeOK, NEW n \in Follows, NEW type \in {"Follow", "Undo"}, Send("a", type, n)
    PROVE  /\ sent'["b"] = sent["b"]
           /\ \A i \in DOMAIN sent'["a"] :
                 sent'["a"][i].follow = n \/ (i \in DOMAIN sent["a"] /\ sent'["a"][i] = sent["a"][i])
<1>1. sent["a"] \in Seq(Activities) /\ sent'["a"] = Append(sent["a"], Activity(type, n))
  BY DEF TypeOK, Servers, Send
<1>2. sent'["b"] = sent["b"]
  BY DEF TypeOK, Servers, Send
<1> QED BY <1>1, <1>2 DEF Activity

LEMMA SentByB ==
    ASSUME TypeOK, NEW n \in Follows, NEW type \in {"Accept", "Reject"}, Send("b", type, n)
    PROVE  sent'["a"] = sent["a"]
BY DEF TypeOK, Servers, Send

LEMMA AskedKept ==
    ASSUME TypeOK, NEW new \in {"accept", "reject"}, state' = StateForAll(new)
    PROVE  Asked' = Asked
BY StateForAllType DEF Asked

LEMMA FoundedInit == Init => Founded
BY DEF Init, Founded, Servers, NoSync

LEMMA FoundedStep == CInv /\ [Next]_vars => Founded'
<1> SUFFICES ASSUME TypeOK, Founded, [Next]_vars PROVE Founded'
  BY DEF CInv
<1> USE DEF mail, rows
<1>1. ASSUME NEW n \in Follows, Follow(n) PROVE Founded'
  <2>1. Asked' = Asked \cup {n}
    BY <1>1 DEF Follow, Asked, TypeOK
  <2>2. Granted' = Granted
    BY <1>1, SentByA, GrantedKept DEF Follow
  <2>3. \A i \in DOMAIN sent'["a"] : sent'["a"][i].follow \in Asked'
    BY <1>1, <2>1, SentByA DEF Follow, Founded
  <2>4. rel'["b"] = rel["b"]
    BY <1>1 DEF Follow, TypeOK, Servers
  <2> QED BY <1>1, <2>1, <2>2, <2>3, <2>4 DEF Follow, Founded
<1>2. CASE Leave
  <2>1. Asked' = Asked /\ Granted' = Granted
    BY <1>2, GrantedKept DEF Leave, Asked
  <2>2. rel'["b"] = rel["b"]
    BY <1>2 DEF Leave, TypeOK, Servers
  <2> QED BY <1>2, <2>1, <2>2 DEF Leave, Founded
<1>3. CASE Cancel
  <2>1. PICK n \in Asked : state' = [state EXCEPT ![n] = "cancelled"] /\ Send("a", "Undo", n)
    BY <1>3 DEF Cancel
  <2>2. n \in Follows /\ Asked' = Asked
    BY <2>1 DEF Asked, TypeOK
  <2>3. Granted' = Granted
    BY <2>1, <2>2, SentByA, GrantedKept
  <2>4. \A i \in DOMAIN sent'["a"] : sent'["a"][i].follow \in Asked'
    BY <2>1, <2>2, SentByA DEF Founded
  <2> QED BY <1>3, <2>2, <2>3, <2>4 DEF Cancel, Founded
<1>4. ASSUME NEW i \in DOMAIN sent["b"], TakeAccept(i) \/ TakeReject(i) PROVE Founded'
  <2>1. Asked' = Asked /\ Granted' = Granted
    BY <1>4, AskedKept, GrantedKept DEF TakeAccept, TakeReject
  <2>2. rel'["b"] = rel["b"]
    BY <1>4 DEF TakeAccept, TakeReject, TypeOK, Servers
  <2> QED BY <1>4, <2>1, <2>2 DEF TakeAccept, TakeReject, Founded
<1>5. ASSUME NEW i \in DOMAIN sent["a"], NEW answer \in {"none", "Accept", "Reject"},
             TakeFollow(i, answer)
      PROVE  Founded'
  <2>1. Asked' = Asked /\ latest' \in Asked' /\ latest' \in Follows
    BY <1>5 DEF TakeFollow, Asked, Founded
  <2>2. sent'["a"] = sent["a"] /\ Granted \subseteq Granted'
        /\ (rel'["b"] = "accept" => Granted' # {})
    <3>1. CASE answer = "none"
      <4>1. sent' = sent /\ (rel'["b"] = "accept" => rel["b"] = "accept")
        BY <1>5, <3>1 DEF TakeFollow, TypeOK, Servers
      <4> QED BY <4>1, GrantedKept DEF Founded
    <3>2. CASE answer = "Accept"
      <4>1. Send("b", "Accept", latest')
        BY <1>5, <3>2 DEF TakeFollow
      <4> QED BY <4>1, <2>1, SentByB, GrantedSent
    <3>3. CASE answer = "Reject"
      <4>1. Send("b", "Reject", latest') /\ rel'["b"] = "none"
        BY <1>5, <3>3 DEF TakeFollow, TypeOK, Servers
      <4>2. Granted' = Granted
        BY <4>1, <2>1, GrantedSent
      <4> QED BY <4>1, <4>2, <2>1, SentByB
    <3> QED BY <3>1, <3>2, <3>3
  <2> QED BY <1>5, <2>1, <2>2 DEF TakeFollow, Founded
<1>6. ASSUME NEW i \in DOMAIN sent["a"], TakeUndo(i) PROVE Founded'
  <2>1. Asked' = Asked /\ Granted' = Granted
    BY <1>6, GrantedKept DEF TakeUndo, Asked
  <2> QED BY <1>6, <2>1 DEF TakeUndo, Founded
<1>7. CASE RemoveRow
  <2>1. Asked' = Asked /\ Granted' = Granted
    BY <1>7, GrantedKept DEF RemoveRow, Asked
  <2>2. rel'["b"] = "none"
    BY <1>7 DEF RemoveRow, TypeOK, Servers
  <2> QED BY <1>7, <2>1, <2>2 DEF RemoveRow, Founded
<1>8. ASSUME NEW type \in {"Accept", "Reject"}, Choose(type) PROVE Founded'
  <2>1. Asked' = Asked /\ Granted' = Granted
    BY <1>8, GrantedKept DEF Choose, Asked
  <2>2. click'.follow \in Asked
    BY <1>8 DEF Choose, Activity, Founded
  <2> QED BY <1>8, <2>1, <2>2 DEF Choose, Founded
<1>9. CASE Decide
  <2>1. Asked' = Asked
    BY <1>9 DEF Decide, Asked
  <2>2. sent'["a"] = sent["a"] /\ Granted \subseteq Granted'
        /\ (rel'["b"] = "accept" => Granted' # {})
    <3>1. CASE UNCHANGED <<rel, sent>>
      BY <3>1, GrantedKept DEF Founded
    <3>2. CASE ~UNCHANGED <<rel, sent>>
      <4>1. /\ Send("b", click.type, click.follow)
            /\ click.type \in {"Accept", "Reject"} /\ click.follow \in Follows
            /\ rel'["b"] = "accept" => click.type = "Accept"
        BY <1>9, <3>2, ClickType DEF Decide, TypeOK, Servers
      <4> QED BY <4>1, SentByB, GrantedSent
    <3> QED BY <3>1, <3>2
  <2> QED BY <1>9, <2>1, <2>2 DEF Decide, Founded
<1>10. CASE Post \/ Fetch \/ ReadRow
  <2>1. Asked' = Asked /\ Granted' = Granted /\ UNCHANGED <<sent, latest, click, rel>>
    BY <1>10, GrantedKept DEF Post, Fetch, ReadRow, Asked
  <2>2. (sync'.listed => Granted # {}) /\ (sync'.at = "accept" => sync'.listed)
    <3>1. CASE Post
      BY <3>1 DEF Post, Listed, Founded
    <3>2. CASE Fetch
      <4>1. sync' \in {NoSync, [at |-> "fetched", listed |-> sync.listed]}
        BY <3>2 DEF Fetch, TypeOK
      <4> QED BY <4>1 DEF NoSync, Founded
    <3>3. CASE ReadRow
      <4>1. \/ sync' = NoSync
            \/ sync' = [at |-> "accept", listed |-> sync.listed] /\ sync.listed
            \/ sync' = [at |-> "unfollow", listed |-> sync.listed]
        BY <3>3 DEF ReadRow, TypeOK
      <4> QED BY <4>1 DEF NoSync, Founded
    <3> QED BY <1>10, <3>1, <3>2, <3>3
  <2> QED BY <2>1, <2>2 DEF Founded
<1>11. CASE Reconcile
  <2>1. Asked' = Asked /\ Granted' = Granted /\ UNCHANGED <<sent, latest, click>>
    BY <1>11, GrantedKept DEF Reconcile, Asked
  <2>2. rel'["b"] = rel["b"] /\ sync' = NoSync
    BY <1>11 DEF Reconcile, TypeOK, Servers
  <2> QED BY <2>1, <2>2 DEF Founded, NoSync
<1>12. CASE RestartA
  <2>1. Asked' = Asked /\ Granted' = Granted /\ UNCHANGED <<sent, latest, click, rel>>
    BY <1>12, GrantedKept DEF RestartA, Asked
  <2>2. sync' = sync \/ sync' = [at |-> "queued", listed |-> sync.listed]
    BY <1>12 DEF RestartA, TypeOK
  <2> QED BY <2>1, <2>2 DEF Founded
<1>13. CASE RestartB
  <2>1. Asked' = Asked /\ Granted' = Granted /\ UNCHANGED <<sent, latest, rel, sync>>
    BY <1>13, GrantedKept DEF RestartB, Asked
  <2> QED BY <1>13, <2>1 DEF RestartB, Founded
<1>14. CASE UNCHANGED vars
  <2>1. Asked' = Asked /\ Granted' = Granted
    BY <1>14, GrantedKept DEF vars, Asked
  <2> QED BY <1>14, <2>1 DEF vars, Founded
<1> QED
  BY <1>1, <1>2, <1>3, <1>4, <1>5, <1>6, <1>7, <1>8, <1>9, <1>10, <1>11, <1>12, <1>13, <1>14
  DEF Next, Handled, Finishing, Syncing, Chosen, Restarts

LEMMA Inductive == Spec => []CInv
<1>1. Init => CInv
  BY TypeInit, FoundedInit DEF CInv
<1>2. CInv /\ [Next]_vars => CInv'
  BY TypeStep, FoundedStep DEF CInv
<1> QED BY <1>1, <1>2, PTL DEF Spec

LEMMA ConsentInitRefined == Init => Consent!ConsentInit
<1> SUFFICES ASSUME Init PROVE Consent!ConsentInit
  OBVIOUS
<1>1. Asked = {} /\ Granted = {}
  BY DEF Init, Asked, Granted, Servers
<1> QED BY <1>1 DEF Init, Consent!ConsentInit, Servers

\* Each step is a step of FollowConsent or leaves what it sees alone.
LEMMA ConsentStepRefined ==
    CInv /\ [Next]_vars => [Consent!ConsentNext]_Consent!consentVars
<1> DEFINE Refined == [Consent!ConsentNext]_Consent!consentVars
<1> SUFFICES ASSUME TypeOK, Founded, [Next]_vars PROVE Refined
  BY DEF CInv
<1> USE DEF mail, rows
<1>a. rel = [[s \in Servers |-> "none"] EXCEPT !["a"] = rel["a"], !["b"] = rel["b"]]
  BY DEF TypeOK, Servers
<1>1. ASSUME NEW n \in Follows, Follow(n) PROVE Refined
  <2>1. Asked' = Asked \cup {n} /\ n \notin Asked
    BY <1>1 DEF Follow, Asked, TypeOK
  <2>2. Granted' = Granted
    BY <1>1, SentByA, GrantedKept DEF Follow
  <2> QED BY <1>1, <2>1, <2>2 DEF Follow, Consent!ConsentNext, Consent!Ask
<1>2. CASE Leave
  <2>1. Asked' = Asked /\ Granted' = Granted
    BY <1>2, GrantedKept DEF Leave, Asked
  <2> QED BY <1>2, <2>1 DEF Leave, Consent!ConsentNext, Consent!End
<1>3. CASE Cancel
  <2>1. PICK n \in Asked : state' = [state EXCEPT ![n] = "cancelled"] /\ Send("a", "Undo", n)
    BY <1>3 DEF Cancel
  <2>2. n \in Follows /\ Asked' = Asked
    BY <2>1 DEF Asked, TypeOK
  <2>3. Granted' = Granted
    BY <2>1, <2>2, SentByA, GrantedKept
  <2> QED BY <1>3, <2>2, <2>3 DEF Cancel, Consent!consentVars
<1>4. ASSUME NEW i \in DOMAIN sent["b"], TakeAccept(i) \/ TakeReject(i) PROVE Refined
  <2>1. Asked' = Asked /\ Granted' = Granted
    BY <1>4, AskedKept, GrantedKept DEF TakeAccept, TakeReject
  <2>2. CASE TakeAccept(i)
    <3>1. sent["b"][i].follow \in Granted
      <4>1. sent["b"][i] \in Activities
        BY DEF TypeOK, Servers
      <4>2. /\ sent["b"][i] = [type |-> "Accept", follow |-> sent["b"][i].follow]
            /\ sent["b"][i].follow \in Follows
        BY <2>2, <4>1 DEF TakeAccept, Activities, Answers
      <4> QED BY <4>2 DEF Granted
    <3> QED BY <2>1, <2>2, <3>1 DEF TakeAccept, Consent!ConsentNext, Consent!Learn
  <2>3. CASE TakeReject(i)
    BY <2>1, <2>3 DEF TakeReject, Consent!ConsentNext, Consent!End
  <2> QED BY <1>4, <2>2, <2>3
<1>5. ASSUME NEW i \in DOMAIN sent["a"], NEW answer \in {"none", "Accept", "Reject"},
             TakeFollow(i, answer)
      PROVE  Refined
  <2>1. Asked' = Asked /\ latest' \in Asked /\ latest' \in Follows
    BY <1>5 DEF TakeFollow, Asked, Founded
  <2>2. CASE answer = "none"
    <3>1. Granted' = Granted
      BY <1>5, <2>2, GrantedKept DEF TakeFollow
    <3>2. CASE rel["b"] = "none"
      BY <1>5, <2>1, <2>2, <3>1, <3>2 DEF TakeFollow, Consent!ConsentNext, Consent!Notice
    <3>3. CASE rel["b"] # "none"
      <4>1. rel' = rel
        BY <1>5, <2>2, <3>3 DEF TakeFollow, TypeOK, Servers
      <4> QED BY <2>1, <3>1, <4>1 DEF Consent!consentVars
    <3> QED BY <3>2, <3>3
  <2>3. CASE answer = "Accept"
    <3>1. Send("b", "Accept", latest') /\ rel' = [rel EXCEPT !["b"] = "accept"]
      BY <1>5, <2>3 DEF TakeFollow
    <3>2. Granted' = Granted \cup {latest'}
      BY <3>1, <2>1, GrantedSent
    <3> QED BY <2>1, <3>1, <3>2 DEF Consent!ConsentNext, Consent!Grant
  <2>4. CASE answer = "Reject"
    <3>1. Send("b", "Reject", latest') /\ rel' = [rel EXCEPT !["b"] = "none"]
      BY <1>5, <2>4 DEF TakeFollow
    <3>2. Granted' = Granted
      BY <3>1, <2>1, GrantedSent
    <3> QED BY <2>1, <3>1, <3>2 DEF Consent!ConsentNext, Consent!End
  <2> QED BY <2>2, <2>3, <2>4
<1>6. ASSUME NEW i \in DOMAIN sent["a"], TakeUndo(i) PROVE Refined
  <2>1. Asked' = Asked /\ Granted' = Granted /\ rel' = rel
    BY <1>6, GrantedKept DEF TakeUndo, Asked
  <2> QED BY <2>1 DEF Consent!consentVars
<1>7. CASE RemoveRow
  <2>1. Asked' = Asked /\ Granted' = Granted
    BY <1>7, GrantedKept DEF RemoveRow, Asked
  <2> QED BY <1>7, <2>1 DEF RemoveRow, Consent!ConsentNext, Consent!End
<1>8. ASSUME NEW type \in {"Accept", "Reject"}, Choose(type) PROVE Refined
  <2>1. Asked' = Asked /\ Granted' = Granted /\ rel' = rel
    BY <1>8, GrantedKept DEF Choose, Asked
  <2> QED BY <2>1 DEF Consent!consentVars
<1>9. CASE Decide
  <2>1. Asked' = Asked /\ click.follow \in Asked
    BY <1>9 DEF Decide, Asked, Founded
  <2>2. CASE UNCHANGED <<rel, sent>>
    BY <2>1, <2>2, GrantedKept DEF Consent!consentVars
  <2>3. CASE ~UNCHANGED <<rel, sent>>
    <3>1. /\ Send("b", click.type, click.follow)
          /\ click.type \in {"Accept", "Reject"} /\ click.follow \in Follows
          /\ rel' = [rel EXCEPT !["b"] = IF click.type = "Accept" THEN "accept" ELSE "none"]
      BY <1>9, <2>3, ClickType DEF Decide
    <3>2. CASE click.type = "Accept"
      <4>1. Granted' = Granted \cup {click.follow}
        BY <3>1, <3>2, GrantedSent
      <4> QED BY <2>1, <3>1, <3>2, <4>1 DEF Consent!ConsentNext, Consent!Grant
    <3>3. CASE click.type = "Reject"
      <4>1. Granted' = Granted
        BY <3>1, <3>3, GrantedSent
      <4> QED BY <2>1, <3>1, <3>3, <4>1 DEF Consent!ConsentNext, Consent!End
    <3> QED BY <3>1, <3>2, <3>3
  <2> QED BY <2>2, <2>3
<1>10. CASE Post \/ Fetch \/ ReadRow \/ RestartA \/ RestartB
  <2>1. Asked' = Asked /\ Granted' = Granted /\ rel' = rel
    BY <1>10, GrantedKept DEF Post, Fetch, ReadRow, RestartA, RestartB, Asked
  <2> QED BY <2>1 DEF Consent!consentVars
<1>11. CASE Reconcile
  <2>1. Asked' = Asked /\ Granted' = Granted
    BY <1>11, GrantedKept DEF Reconcile, Asked
  <2>2. CASE sync.at = "accept"
    BY <1>11, <2>1, <2>2 DEF Reconcile, Founded, Consent!ConsentNext, Consent!Learn
  <2>3. CASE sync.at = "unfollow"
    BY <1>11, <2>1, <2>3 DEF Reconcile, Consent!ConsentNext, Consent!End
  <2> QED BY <1>11, <2>2, <2>3 DEF Reconcile
<1>12. CASE UNCHANGED vars
  <2>1. Asked' = Asked /\ Granted' = Granted /\ rel' = rel
    BY <1>12, GrantedKept DEF vars, Asked
  <2> QED BY <2>1 DEF Consent!consentVars
<1> QED
  BY <1>1, <1>2, <1>3, <1>4, <1>5, <1>6, <1>7, <1>8, <1>9, <1>10, <1>11, <1>12
  DEF Next, Handled, Finishing, Syncing, Chosen, Restarts

\* ConsentKept: neither server has the relation as accepted unless a request
\* was made and granted, however Follow, Undo, Accept, Reject and the
\* synchronization of followers are delayed, reordered or interrupted.
THEOREM ConsentCorrect == Spec => ConsentKept
<1>1. Init => Consent!ConsentInit
  BY ConsentInitRefined
<1>2. CInv /\ [Next]_vars => [Consent!ConsentNext]_Consent!consentVars
  BY ConsentStepRefined
<1> QED BY <1>1, <1>2, Inductive, PTL DEF Spec, ConsentKept

(***************************************************************************)
(* What the API tells                                                      *)
(***************************************************************************)
LEMMA NoGhostInit == Init => NoGhost
BY DEF Init, NoGhost, Asked

LEMMA NoGhostStep == TypeOK /\ NoGhost /\ [Next]_vars => NoGhost'
<1> SUFFICES ASSUME TypeOK, NoGhost, [Next]_vars PROVE NoGhost'
  OBVIOUS
<1> USE DEF mail, rows
<1>1. ASSUME NEW n \in Follows, Follow(n) PROVE NoGhost'
  <2>1. rel'["a"] # "none"
    BY <1>1 DEF Follow, TypeOK, Servers
  <2> QED BY <2>1 DEF NoGhost
<1>2. CASE Leave
  BY <1>2 DEF Leave, NoGhost
<1>3. CASE Cancel
  <2>1. PICK n \in Asked : Asked = 1..n /\ state' = [state EXCEPT ![n] = "cancelled"]
    BY <1>3 DEF Cancel
  <2>2. n \in Follows /\ Asked' = Asked /\ state'[n] = "cancelled"
    BY <2>1 DEF Asked, TypeOK
  <2>3. \A m \in Asked : Asked = 1..m => m = n
    BY <2>1 DEF Asked, Follows
  <2> QED BY <2>2, <2>3 DEF NoGhost
<1>4. ASSUME NEW i \in DOMAIN sent["b"], TakeAccept(i) PROVE NoGhost'
  <2>1. rel'["a"] # "none"
    BY <1>4 DEF TakeAccept, TypeOK, Servers
  <2> QED BY <2>1 DEF NoGhost
<1>5. ASSUME NEW i \in DOMAIN sent["b"], TakeReject(i) PROVE NoGhost'
  <2>1. \A n \in Asked' : state'[n] \in {"reject", "cancelled"}
    BY <1>5 DEF TakeReject, Asked, StateForAll, TypeOK
  <2> QED BY <2>1 DEF NoGhost
<1>6. ASSUME rel'["a"] = rel["a"], state' = state, leaving' = leaving, silent' = silent
      PROVE  NoGhost'
  <2>1. Asked' = Asked
    BY <1>6 DEF Asked
  <2> QED BY <1>6, <2>1 DEF NoGhost
<1>7. ASSUME NEW i \in DOMAIN sent["a"], NEW answer \in {"none", "Accept", "Reject"},
             TakeFollow(i, answer) \/ TakeUndo(i)
      PROVE  NoGhost'
  BY <1>6, <1>7 DEF TakeFollow, TakeUndo, TypeOK, Servers
<1>8. ASSUME NEW type \in {"Accept", "Reject"},
             Choose(type) \/ RemoveRow \/ Decide \/ RestartB
      PROVE  NoGhost'
  BY <1>6, <1>8 DEF Choose, RemoveRow, Decide, RestartB, TypeOK, Servers
<1>9. CASE Post \/ Fetch \/ ReadRow \/ UNCHANGED vars
  BY <1>6, <1>9 DEF Post, Fetch, ReadRow, vars
<1>10. CASE Reconcile
  <2>1. CASE rel'["a"] # "none"
    BY <2>1 DEF NoGhost
  <2>2. CASE rel'["a"] = "none"
    <3>1. sync.at = "unfollow"
      BY <1>10, <2>2 DEF Reconcile, TypeOK, Servers
    <3>2. CASE rel["a"] # "none"
      BY <1>10, <3>1, <3>2 DEF Reconcile, NoGhost
    <3>3. CASE rel["a"] = "none"
      BY <1>6, <1>10, <2>2, <3>3 DEF Reconcile, TypeOK
    <3> QED BY <3>2, <3>3
  <2> QED BY <2>1, <2>2
<1>11. CASE RestartA
  <2>1. CASE leaving
    BY <1>11, <2>1 DEF RestartA, NoGhost
  <2>2. CASE ~leaving
    BY <1>6, <1>11, <2>2 DEF RestartA, TypeOK
  <2> QED BY <2>1, <2>2
<1> QED
  BY <1>1, <1>2, <1>3, <1>4, <1>5, <1>7, <1>8, <1>9, <1>10, <1>11
  DEF Next, Handled, Finishing, Syncing, Chosen, Restarts

\* NoGhost: where there is no row, User.get_follow_state, which tells of the
\* latest Follow, tells of no relation that has ended, unless the row was taken
\* by the synchronization or by a restart within an unfollow.
THEOREM NoGhostCorrect == Spec => []NoGhost
BY NoGhostInit, NoGhostStep, TypeCorrect, PTL DEF Spec

(***************************************************************************)
(* Agreement                                                               *)
(***************************************************************************)
\* What the synchronization has read and is about to do go together; b's server
\* has no row and no answer before the first Follow.
SyncOK ==
    /\ sync.at = "accept" => sync.listed
    /\ sync.at = "unfollow" => ~sync.listed
    /\ latest = 0 => rel["b"] = "none" /\ click = NoClick

\* What b's server has said last.
LastWord == sent["b"][Len(sent["b"])].type

\* While nothing has crossed: an unfollow and an answer are never under way at
\* once, what is under way from b ends with what b's row says, and else the rows
\* agree.
Together ==
    ~crossed =>
        /\ UndoUnderWay => InFlight("b") = {} /\ rel["a"] # "accept"
        /\ InFlight("b") # {} => (rel["b"] = "accept" <=> LastWord = "Accept")
        /\ InFlight("b") = {} /\ ~UndoUnderWay => (rel["a"] = "accept" <=> rel["b"] = "accept")

LEMMA SyncOKInit == Init => SyncOK
<1> SUFFICES ASSUME Init PROVE SyncOK
  OBVIOUS
<1>1. sync.at = "idle"
  BY DEF Init, NoSync
<1>2. rel["b"] = "none" /\ click = NoClick
  BY DEF Init, Servers
<1> QED BY <1>1, <1>2 DEF SyncOK

LEMMA SyncOKStep == TypeOK /\ SyncOK /\ [Next]_vars => SyncOK'
<1> SUFFICES ASSUME TypeOK, SyncOK, [Next]_vars PROVE SyncOK'
  OBVIOUS
<1> USE DEF mail, rows
<1>1. ASSUME sync' = sync, latest' = latest, rel'["b"] = rel["b"], click' = click PROVE SyncOK'
  BY <1>1 DEF SyncOK
<1>2. ASSUME NEW n \in Follows, Follow(n) PROVE SyncOK'
  BY <1>1, <1>2 DEF Follow, TypeOK, Servers
<1>0. CASE Leave \/ Cancel
  BY <1>1, <1>0 DEF Leave, Cancel, TypeOK, Servers
<1>3. ASSUME NEW i \in DOMAIN sent["b"], TakeAccept(i) \/ TakeReject(i) PROVE SyncOK'
  BY <1>1, <1>3 DEF TakeAccept, TakeReject, TypeOK, Servers
<1>4. ASSUME NEW i \in DOMAIN sent["a"], NEW answer \in {"none", "Accept", "Reject"},
             TakeFollow(i, answer)
      PROVE  SyncOK'
  <2>1. latest' \in Follows
    BY <1>4, FollowOf DEF TakeFollow, Servers
  <2>2. latest' # 0
    BY <2>1 DEF Follows
  <2> QED BY <1>4, <2>2 DEF TakeFollow, SyncOK
<1>5. ASSUME NEW i \in DOMAIN sent["a"], TakeUndo(i) PROVE SyncOK'
  BY <1>1, <1>5 DEF TakeUndo
<1>6. CASE RemoveRow
  <2>1. rel'["b"] = "none"
    BY <1>6 DEF RemoveRow, TypeOK, Servers
  <2> QED BY <1>6, <2>1 DEF RemoveRow, SyncOK
<1>7. ASSUME NEW type \in {"Accept", "Reject"}, Choose(type) PROVE SyncOK'
  BY <1>7 DEF Choose, SyncOK
<1>8. CASE Decide
  <2>1. latest # 0 /\ latest' = latest /\ sync' = sync
    BY <1>8 DEF Decide, SyncOK
  <2> QED BY <2>1 DEF SyncOK
<1>9. CASE Post \/ Fetch
  <2>1. sync'.at \notin {"accept", "unfollow"} /\ UNCHANGED <<latest, rel, click>>
    BY <1>9 DEF Post, Fetch, NoSync, TypeOK
  <2> QED BY <2>1 DEF SyncOK
<1>10. CASE ReadRow
  <2>1. /\ sync'.at = "accept" => sync'.listed
        /\ sync'.at = "unfollow" => ~sync'.listed
    BY <1>10 DEF ReadRow, NoSync, TypeOK
  <2> QED BY <1>10, <2>1 DEF ReadRow, SyncOK
<1>11. CASE Reconcile
  <2>1. sync'.at = "idle" /\ rel'["b"] = rel["b"] /\ UNCHANGED <<latest, click>>
    BY <1>11 DEF Reconcile, NoSync, TypeOK, Servers
  <2> QED BY <2>1 DEF SyncOK
<1>12. CASE RestartA
  <2>1. sync' = sync \/ sync'.at = "queued"
    BY <1>12 DEF RestartA, TypeOK
  <2> QED BY <1>12, <2>1 DEF RestartA, SyncOK
<1>13. CASE RestartB
  <2>1. click' = NoClick /\ UNCHANGED <<sync, latest, rel>>
    BY <1>13 DEF RestartB
  <2> QED BY <2>1 DEF SyncOK
<1>14. CASE UNCHANGED vars
  BY <1>1, <1>14 DEF vars
<1> QED
  BY <1>0, <1>2, <1>3, <1>4, <1>5, <1>6, <1>7, <1>8, <1>9, <1>10, <1>11, <1>12, <1>13, <1>14
  DEF Next, Handled, Finishing, Syncing, Chosen, Restarts

\* Only what was sent has been handled.
Mailed == \A s \in Servers : got[s] \subseteq DOMAIN sent[Other(s)]

LEMMA MailedInit == Init => Mailed
BY DEF Init, Mailed, Servers

LEMMA MailedStep == TypeOK /\ Mailed /\ [Next]_vars => Mailed'
<1> SUFFICES ASSUME TypeOK, Mailed, [Next]_vars PROVE Mailed'
  OBVIOUS
<1> USE DEF mail, rows
<1>1. ASSUME sent' = sent, got' = got PROVE Mailed'
  BY <1>1 DEF Mailed
<1>2. ASSUME NEW s \in Servers, NEW m \in Activities,
             sent' = [sent EXCEPT ![s] = Append(@, m)] PROVE
             \A r \in Servers : DOMAIN sent[r] \subseteq DOMAIN sent'[r]
  <2>1. sent[s] \in Seq(Activities)
    BY DEF TypeOK
  <2>2. DOMAIN sent[s] \subseteq DOMAIN Append(sent[s], m)
    BY <2>1
  <2> QED BY <1>2, <2>2 DEF TypeOK
<1>3. ASSUME NEW s \in Servers, NEW type \in {"Follow", "Undo", "Accept", "Reject"},
             NEW n \in Follows, type \in {"Follow", "Undo"} \/ type \in {"Accept", "Reject"},
             Send(s, type, n)
      PROVE  \A r \in Servers : DOMAIN sent[r] \subseteq DOMAIN sent'[r]
  <2>1. Activity(type, n) \in Activities
    BY <1>3 DEF Activity, Activities, Answers
  <2> QED BY <1>2, <1>3, <2>1 DEF Send
<1>4. ASSUME \A r \in Servers : DOMAIN sent[r] \subseteq DOMAIN sent'[r],
             got' = got \/ \E s \in Servers : \E i \in DOMAIN sent[Other(s)] : Handle(s, i)
      PROVE  Mailed'
  BY <1>4 DEF Mailed, Handle, TypeOK, Servers, Other
<1>5. ASSUME NEW n \in Follows, Follow(n) PROVE Mailed'
  BY <1>3, <1>4, <1>5 DEF Follow, Servers
<1>6. CASE Cancel
  BY <1>3, <1>4, <1>6 DEF Cancel, Asked, Servers
<1>7. ASSUME NEW i \in DOMAIN sent["b"], TakeAccept(i) \/ TakeReject(i) PROVE Mailed'
  BY <1>4, <1>7 DEF TakeAccept, TakeReject, Servers, Other
<1>8. ASSUME NEW i \in DOMAIN sent["a"], TakeUndo(i) PROVE Mailed'
  BY <1>4, <1>8 DEF TakeUndo, Servers, Other
<1>9. ASSUME NEW i \in DOMAIN sent["a"], NEW answer \in {"none", "Accept", "Reject"},
             TakeFollow(i, answer)
      PROVE  Mailed'
  <2>1. latest' \in Follows
    BY <1>9, FollowOf DEF TakeFollow, Servers
  <2>2. sent' = sent \/ (answer \in {"Accept", "Reject"} /\ Send("b", answer, latest'))
    BY <1>9 DEF TakeFollow
  <2>3. \A r \in Servers : DOMAIN sent[r] \subseteq DOMAIN sent'[r]
    BY <1>3, <2>1, <2>2 DEF Servers
  <2> QED BY <1>4, <1>9, <2>3 DEF TakeFollow, Servers, Other
<1>10. CASE Decide
  <2>1. click \in Answers
    BY <1>10 DEF Decide, TypeOK
  <2>2. sent' = sent \/ Send("b", click.type, click.follow)
    BY <1>10 DEF Decide
  <2>3. \A r \in Servers : DOMAIN sent[r] \subseteq DOMAIN sent'[r]
    BY <1>3, <2>1, <2>2 DEF Servers, Answers
  <2> QED BY <1>4, <1>10, <2>3 DEF Decide
<1>11. CASE Leave \/ RemoveRow \/ Post \/ Syncing \/ Restarts
  BY <1>1, <1>11 DEF Leave, RemoveRow, Post, Syncing, Fetch, ReadRow, Reconcile,
       Restarts, RestartA, RestartB
<1>12. ASSUME NEW type \in {"Accept", "Reject"}, Choose(type) PROVE Mailed'
  BY <1>1, <1>12 DEF Choose
<1>13. CASE UNCHANGED vars
  BY <1>1, <1>13 DEF vars
<1> QED
  BY <1>5, <1>6, <1>7, <1>8, <1>9, <1>10, <1>11, <1>12, <1>13
  DEF Next, Handled, Finishing, Chosen

LEMMA TogetherInit == Init => Together
<1> SUFFICES ASSUME Init PROVE Together
  OBVIOUS
<1>1. sent["a"] = <<>> /\ sent["b"] = <<>> /\ rel["a"] = "none" /\ rel["b"] = "none"
  BY DEF Init, Servers
<1>2. InFlight("a") = {} /\ InFlight("b") = {}
  BY <1>1 DEF InFlight
<1>3. ~UndoUnderWay
  BY <1>2 DEF UndoUnderWay, Init
<1> QED BY <1>1, <1>2, <1>3 DEF Together

\* What b sends is under way, and its last word.
LEMMA Sending ==
    ASSUME TypeOK, Mailed, NEW type \in {"Accept", "Reject"}, NEW n \in Follows,
           Send("b", type, n), got'["a"] = got["a"]
    PROVE  InFlight("b")' # {} /\ LastWord' = type
<1>1. sent["b"] \in Seq(Activities) /\ sent'["b"] = Append(sent["b"], Activity(type, n))
  BY DEF Send, TypeOK, Servers
<1>2. Activity(type, n) \in Activities
  BY DEF Activity, Activities, Answers
<1> DEFINE k == Len(sent["b"]) + 1
<1>3. k \in DOMAIN sent'["b"] /\ Len(sent'["b"]) = k /\ sent'["b"][k] = Activity(type, n)
  BY <1>1, <1>2
<1>4. k \notin got["a"]
  BY <1>1 DEF Mailed, Servers, Other
<1>5. k \in InFlight("b")'
  BY <1>3, <1>4 DEF InFlight, Other
<1>6. LastWord' = type
  BY <1>3 DEF LastWord, Activity
<1> QED BY <1>5, <1>6

\* If what is handled was not late and nothing is left, it was the last word.
LEMMA LastHandled ==
    ASSUME TypeOK, NEW i \in DOMAIN sent["b"], Handle("a", i), ~Late("a", i),
           sent' = sent, InFlight("b")' = {}
    PROVE  sent["b"][i].type = LastWord
<1>1. sent["b"] \in Seq(Activities) /\ got["a"] \in SUBSET Nat
  BY DEF TypeOK, Servers
<1> DEFINE k == Len(sent["b"])
<1>2. k \in DOMAIN sent["b"] /\ i \in 1..k
  BY <1>1
<1>3. k \in got'["a"]
  BY <1>2 DEF InFlight, Other
<1>4. got'["a"] = got["a"] \cup {i}
  BY DEF Handle, TypeOK, Servers
<1>5. k = i
  BY <1>1, <1>2, <1>3, <1>4 DEF Late
<1> QED BY <1>5 DEF LastWord

\* Whatever moves neither the letters of b nor the end of an unfollow, nor says
\* another thing of who follows, keeps Together.
LEMMA TogetherKept ==
    ASSUME Together, crossed' \/ ~crossed, InFlight("b")' = InFlight("b"),
           sent'["b"] = sent["b"], UndoUnderWay' = UndoUnderWay \/ (~UndoUnderWay /\ ~UndoUnderWay'),
           rel'["a"] = "accept" <=> rel["a"] = "accept", rel'["b"] = "accept" <=> rel["b"] = "accept"
    PROVE  Together'
BY DEF Together, LastWord

LEMMA TogetherStep == TypeOK /\ SyncOK /\ Mailed /\ Together /\ [Next]_vars => Together'
<1> SUFFICES ASSUME TypeOK, SyncOK, Mailed, Together, [Next]_vars, ~crossed' PROVE Together'
  BY DEF Together
<1> USE DEF mail, rows
<1>0. ASSUME sent' = sent, got' = got, rel' = rel, crossed' \/ ~crossed,
             leaving' = leaving, removing' = removing
      PROVE  Together'
  <2>1. InFlight("b")' = InFlight("b") /\ UndoUnderWay' = UndoUnderWay
    BY <1>0 DEF InFlight, UndoUnderWay, Undos
  <2> QED BY <1>0, <2>1, TogetherKept
<1>1. ASSUME NEW n \in Follows, Follow(n) PROVE Together'
  <2>1. sent'["a"] = Append(sent["a"], Activity("Follow", n)) /\ sent'["b"] = sent["b"]
    BY <1>1 DEF Follow, Send, TypeOK, Servers
  <2>2. sent["a"] \in Seq(Activities) /\ Activity("Follow", n) \in Activities
    BY DEF TypeOK, Servers, Activity, Activities
  <2>3. Undos' = Undos /\ Undos \subseteq DOMAIN sent["a"] /\ DOMAIN sent["a"] \subseteq DOMAIN sent'["a"]
    BY <2>1, <2>2 DEF Undos, Activity
  <2>4. InFlight("a")' \cap Undos' = InFlight("a") \cap Undos
    BY <1>1, <2>3 DEF InFlight, Follow
  <2>5. UndoUnderWay' = UndoUnderWay
    BY <1>1, <2>4 DEF UndoUnderWay, Follow
  <2>6. InFlight("b")' = InFlight("b")
    BY <1>1, <2>1 DEF InFlight, Follow
  <2>7. (rel'["a"] = "accept" <=> rel["a"] = "accept") /\ rel'["b"] = rel["b"] /\ crossed' = crossed
    BY <1>1 DEF Follow, TypeOK, Servers
  <2> QED BY <2>1, <2>5, <2>6, <2>7, TogetherKept
<1>2. CASE Leave
  <2>1. InFlight("b")' = {} /\ rel'["a"] = "none" /\ UndoUnderWay'
    BY <1>2 DEF Leave, InFlight, UndoUnderWay, TypeOK, Servers
  <2> QED BY <2>1 DEF Together
<1>3. CASE Cancel
  <2>1. PICK n \in Asked : Send("a", "Undo", n)
    BY <1>3 DEF Cancel
  <2>2. sent["a"] \in Seq(Activities) /\ Activity("Undo", n) \in Activities
    BY DEF TypeOK, Servers, Activity, Activities, Asked
  <2>3. sent'["a"] = Append(sent["a"], Activity("Undo", n)) /\ sent'["b"] = sent["b"]
    BY <2>1 DEF Send, TypeOK, Servers
  <2> DEFINE k == Len(sent["a"]) + 1
  <2>4. k \in DOMAIN sent'["a"] /\ sent'["a"][k] = Activity("Undo", n)
    BY <2>2, <2>3
  <2>5. k \notin got["b"]
    BY <2>2 DEF Mailed, Servers, Other
  <2>6. k \in InFlight("a")' /\ k \in Undos'
    BY <1>3, <2>4, <2>5 DEF Cancel, InFlight, Undos, Other, Activity
  <2>7. UndoUnderWay'
    BY <2>6 DEF UndoUnderWay
  <2>8. ~crossed /\ UndoUnderWay /\ rel' = rel
    BY <1>3 DEF Cancel, UndoUnderWay
  <2>9. InFlight("b")' = {} /\ rel'["a"] # "accept"
    BY <1>3, <2>3, <2>8 DEF Cancel, InFlight, Together
  <2> QED BY <2>7, <2>9 DEF Together
<1>4. ASSUME NEW i \in DOMAIN sent["b"], NEW type \in {"Accept", "Reject"},
             Handle("a", i), ~Late("a", i), sent["b"][i].type = type, ~crossed,
             rel'["a"] = "accept" <=> type = "Accept", rel'["b"] = rel["b"],
             UNCHANGED <<sent, leaving, removing>>
      PROVE  Together'
  <2>1. InFlight("b") # {} /\ InFlight("b")' \subseteq InFlight("b") /\ InFlight("a")' = InFlight("a")
    BY <1>4 DEF Handle, InFlight, Other, TypeOK, Servers
  <2>2. ~UndoUnderWay /\ ~UndoUnderWay'
    BY <1>4, <2>1 DEF Together, UndoUnderWay, Undos
  <2>3. LastWord' = LastWord /\ (rel["b"] = "accept" <=> LastWord = "Accept")
    BY <1>4, <2>1 DEF Together, LastWord
  <2>4. InFlight("b")' = {} => LastWord = type
    BY <1>4, LastHandled
  <2> QED BY <1>4, <2>2, <2>3, <2>4 DEF Together
<1>5. ASSUME NEW i \in DOMAIN sent["b"], TakeAccept(i) \/ TakeReject(i) PROVE Together'
  <2>1. CASE TakeAccept(i)
    BY <1>4, <2>1 DEF TakeAccept, TypeOK, Servers
  <2>2. CASE TakeReject(i)
    BY <1>4, <2>2 DEF TakeReject, TypeOK, Servers
  <2> QED BY <1>5, <2>1, <2>2
<1>6. ASSUME NEW type \in {"Accept", "Reject"}, NEW n \in Follows,
             Send("b", type, n), got'["a"] = got["a"], ~UndoUnderWay, sent'["a"] = sent["a"],
             got["b"] \subseteq got'["b"], UNCHANGED <<leaving, removing>>,
             rel'["b"] = "accept" <=> type = "Accept"
      PROVE  Together'
  <2>1. InFlight("b")' # {} /\ LastWord' = type
    BY <1>6, Sending
  <2>2. InFlight("a")' \cap Undos' \subseteq InFlight("a") \cap Undos
    BY <1>6 DEF InFlight, Undos, Other
  <2>3. ~UndoUnderWay'
    BY <1>6, <2>2 DEF UndoUnderWay
  <2> QED BY <1>6, <2>1, <2>3 DEF Together
<1>7. ASSUME NEW i \in DOMAIN sent["a"], NEW answer \in {"none", "Accept", "Reject"},
             TakeFollow(i, answer)
      PROVE  Together'
  <2>1. latest' \in Follows
    BY <1>7, FollowOf DEF TakeFollow, Servers
  <2>2. /\ ~crossed /\ ~UndoUnderWay /\ UNCHANGED <<leaving, removing>>
        /\ got'["a"] = got["a"] /\ got["b"] \subseteq got'["b"] /\ rel'["a"] = rel["a"]
    BY <1>7 DEF TakeFollow, Handle, TypeOK, Servers
  <2>3. CASE answer = "none"
    <3>1. sent' = sent /\ (rel'["b"] = "accept" <=> rel["b"] = "accept")
      BY <1>7, <2>3 DEF TakeFollow, TypeOK, Servers
    <3>2. InFlight("b")' = InFlight("b") /\ ~UndoUnderWay'
      BY <2>2, <3>1 DEF InFlight, UndoUnderWay, Undos, Other
    <3> QED BY <2>2, <3>1, <3>2, TogetherKept
  <2>4. CASE answer # "none"
    <3>1. Send("b", answer, latest') /\ sent'["a"] = sent["a"]
      BY <1>7, <2>4 DEF TakeFollow, Send, TypeOK, Servers
    <3>2. rel'["b"] = "accept" <=> answer = "Accept"
      BY <1>7, <2>4 DEF TakeFollow, TypeOK, Servers
    <3> QED BY <1>6, <2>1, <2>2, <2>4, <3>1, <3>2
  <2> QED BY <2>3, <2>4
<1>8. ASSUME NEW i \in DOMAIN sent["a"], TakeUndo(i) PROVE Together'
  <2>1. i \in InFlight("a") \cap Undos
    BY <1>8 DEF TakeUndo, Handle, Undos, Other
  <2>2. ~crossed /\ UndoUnderWay /\ rel' = rel
    BY <1>8, <2>1 DEF TakeUndo, UndoUnderWay
  <2>3. InFlight("b") = {} /\ rel["a"] # "accept"
    BY <2>2 DEF Together
  <2>4. InFlight("b")' = {}
    BY <1>8, <2>3 DEF TakeUndo, Handle, InFlight, Other, TypeOK, Servers
  <2>5. ~UndoUnderWay' => rel["b"] = "none"
    BY <1>8 DEF TakeUndo, UndoUnderWay, SyncOK
  <2> QED BY <2>2, <2>3, <2>4, <2>5 DEF Together
<1>9. CASE RemoveRow
  <2>1. ~crossed /\ UndoUnderWay
    BY <1>9 DEF RemoveRow, UndoUnderWay
  <2>2. InFlight("b")' = {} /\ rel'["a"] # "accept" /\ rel'["b"] = "none"
    BY <1>9, <2>1 DEF RemoveRow, InFlight, Together, TypeOK, Servers
  <2> QED BY <2>2 DEF Together
<1>10. CASE Decide
  <2>1. CASE \E i \in DOMAIN sent["b"] : sent["b"][i] = click
    BY <1>0, <1>10, <2>1 DEF Decide
  <2>2. CASE ~\E i \in DOMAIN sent["b"] : sent["b"][i] = click
    <3>1. click.type \in {"Accept", "Reject"} /\ click.follow \in Follows
      BY <1>10 DEF Decide, TypeOK, Answers
    <3>2. /\ Send("b", click.type, click.follow) /\ got' = got /\ ~UndoUnderWay
          /\ UNCHANGED <<leaving, removing>> /\ sent'["a"] = sent["a"]
      BY <1>10, <2>2 DEF Decide, Send, TypeOK, Servers
    <3>3. rel'["b"] = "accept" <=> click.type = "Accept"
      BY <1>10, <2>2, <3>1 DEF Decide, TypeOK, Servers
    <3> QED BY <1>6, <3>1, <3>2, <3>3
  <2> QED BY <2>1, <2>2
<1>11. CASE Post \/ Fetch \/ ReadRow
  BY <1>0, <1>11 DEF Post, Fetch, ReadRow
<1>12. CASE Reconcile
  <2>1. InFlight("b") = {} /\ ~UndoUnderWay /\ Listed = sync.listed
    BY <1>12 DEF Reconcile, UndoUnderWay
  <2>2. InFlight("b")' = {} /\ ~UndoUnderWay' /\ rel'["b"] = rel["b"]
    BY <1>12, <2>1 DEF Reconcile, InFlight, UndoUnderWay, Undos, TypeOK, Servers
  <2>3. rel'["a"] = "accept" <=> sync.listed
    BY <1>12 DEF Reconcile, SyncOK, TypeOK, Servers
  <2> QED BY <2>1, <2>2, <2>3 DEF Together, Listed
<1>13. ASSUME NEW type \in {"Accept", "Reject"}, Choose(type) PROVE Together'
  BY <1>0, <1>13 DEF Choose
<1>14. CASE RestartA
  BY <1>0, <1>14 DEF RestartA, TypeOK
<1>15. CASE RestartB
  BY <1>0, <1>15 DEF RestartB, TypeOK
<1>16. CASE UNCHANGED vars
  BY <1>0, <1>16 DEF vars
<1> QED
  BY <1>1, <1>2, <1>3, <1>5, <1>7, <1>8, <1>9, <1>10, <1>11, <1>12, <1>13, <1>14, <1>15, <1>16
  DEF Next, Handled, Finishing, Syncing, Chosen, Restarts

\* AgreeWhenQuiet: when everything is handled both servers say the same of who
\* follows, unless an unfollow met an answer, an activity overtook another, or
\* a restart fell between two steps.
THEOREM AgreeWhenQuietCorrect == Spec => []AgreeWhenQuiet
<1>1. Together => AgreeWhenQuiet
  BY DEF Together, AgreeWhenQuiet, UndoUnderWay
<1> QED
  BY <1>1, SyncOKInit, SyncOKStep, MailedInit, MailedStep, TogetherInit, TogetherStep,
     TypeCorrect, PTL DEF Spec
=============================================================================
