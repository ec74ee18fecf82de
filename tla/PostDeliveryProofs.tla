------------------------- MODULE PostDeliveryProofs -------------------------
(***************************************************************************)
(* PostDelivery, for any audience and any bounds: type correctness, which  *)
(* is inductive once the attempts are tied to the states of the jobs; the  *)
(* flag `federated` is sound and complete; no Create leaves after the post *)
(* is gone; no inbox a fan-out has on its list is left out; and the jobs   *)
(* implement Outbox.                                                       *)
(***************************************************************************)
EXTENDS PostDelivery, TLAPS

\* A job that waits has an attempt left, one that runs has used one; the
\* Delete's job is not there before its transaction.
AttemptsInv ==
    /\ \A k \in Kinds :
        /\ pub[k] \in Waiting => pubTries[k] < MaxAttempts
        /\ pub[k] = "none" => pubTries[k] = 0
    /\ dpc # "deleted" => pub["Delete"] = "none"
    /\ \A d \in Deliveries :
        /\ job[d] \in Waiting => tries[d] < MaxAttempts
        /\ worker[d] # "none" => tries[d] > 0

TypeInv == TypeOK /\ AttemptsInv

\* All that a peer's fetch leaves as it is.
restVars == <<row, federated, jobVars, accepted, finished, deleteVars, bounds>>

LEMMA RestStays ==
    ASSUME UNCHANGED vars \/ \E i \in Fetchers : Fetch(i)
    PROVE  UNCHANGED restVars
BY DEF vars, restVars, Fetch

LEMMA InitType == Init => TypeInv
<1>1. Init => TypeOK
  <2>1. 0 \in 0..MaxAttempts /\ 0 \in 0..MaxFailures /\ 0 \in 0..MaxCrashes
    BY AttemptsAssumption, BoundsAssumption
  <2>2. "none" \in JobStates /\ "none" \in {"none"} \cup Working
    BY DEF JobStates
  <2> QED  BY <2>1, <2>2, Zenon DEF Init, TypeOK
<1>2. Init => AttemptsInv
  BY DEF Init, AttemptsInv, Waiting, Kinds
<1> QED  BY <1>1, <1>2 DEF TypeInv

\* The steps of the user and of CommonAPI.delete.
LEMMA UserType ==
    ASSUME TypeInv, Post \/ Edit \/ Delete
    PROVE  TypeInv'
<1>1. CASE Post
  BY <1>1, AttemptsAssumption DEF Post, TypeInv, TypeOK, AttemptsInv, JobStates, Incomplete, Waiting, Kinds, deleteVars, bounds, fetchVars
<1>2. CASE Edit
  BY <1>2, AttemptsAssumption DEF Edit, TypeInv, TypeOK, AttemptsInv, JobStates, Incomplete, Waiting, Kinds, deleteVars, bounds, fetchVars
<1>3. CASE FindPost
  BY <1>3 DEF FindPost, TypeInv, TypeOK, AttemptsInv, jobVars, bounds, fetchVars
<1>4. CASE CancelJobs
  BY <1>4 DEF CancelJobs, TypeInv, TypeOK, AttemptsInv, JobStates, Ended, Waiting, bounds, fetchVars
<1>5. CASE DeletePost
  <2>1. /\ dpc = "cancelled" /\ dpc' = "deleted" /\ row' = FALSE /\ federated' = FALSE
        /\ pub' = [pub EXCEPT !["Delete"] = "available"] \/ pub' = pub
        /\ UNCHANGED <<pubTries, todo, job, tries, worker, accepted, finished, known, fetched, seen, failures, crashes>>
    BY <1>5, Zenon DEF DeletePost, fetchVars, bounds
  <2>2. TypeOK'
    BY <2>1 DEF TypeInv, TypeOK, JobStates, Incomplete, Waiting, fetchVars
  <2>3. AttemptsInv'
    BY <2>1, AttemptsAssumption DEF TypeInv, TypeOK, AttemptsInv, Kinds, Waiting, fetchVars
  <2> QED  BY <2>2, <2>3 DEF TypeInv
<1>6. CASE DeleteFails
  BY <1>6 DEF DeleteFails, TypeInv, TypeOK, AttemptsInv, jobVars, bounds, fetchVars
<1> QED  BY <1>1, <1>2, <1>3, <1>4, <1>5, <1>6 DEF Delete

LEMMA PublishType ==
    ASSUME TypeInv, NEW k \in Kinds, Publish(k)
    PROVE  TypeInv'
<1> USE AttemptsAssumption, BoundsAssumption
<1>1. CASE StartPublish(k)
  <2>1. Audience(k) \subseteq Inboxes
    BY InboxesAssumption DEF Audience, TypeInv, TypeOK
  <2>2. /\ pub' \in [Kinds -> JobStates] /\ pubTries' \in [Kinds -> 0..MaxAttempts]
        /\ todo' \in [Kinds -> SUBSET Inboxes] /\ known' \in SUBSET Fetchers
    BY <1>1, <2>1 DEF StartPublish, TypeInv, TypeOK, AttemptsInv, JobStates, Incomplete, Ended, Waiting
  <2>3. UNCHANGED <<row, federated, job, tries, worker, accepted, finished, fetched, dpc, seen, failures, crashes>>
    BY <1>1 DEF StartPublish, deleteVars, bounds
  <2>4. AttemptsInv'
    BY <1>1, <2>2, <2>3 DEF StartPublish, TypeInv, TypeOK, AttemptsInv, Waiting, Kinds
  <2> QED BY <2>2, <2>3, <2>4 DEF TypeInv, TypeOK
<1>2. CASE EnqueueDelivery(k)
  <2>1. PICK i \in todo[k], m \in Marks :
          /\ todo' = [todo EXCEPT ![k] = @ \ {i}]
          /\ job' = Insert(<<k, i, m>>)
          /\ tries' = [tries EXCEPT ![<<k, i, m>>] = IF job'[<<k, i, m>>] = job[<<k, i, m>>] THEN @ ELSE 0]
          /\ job[<<k, i, m>>] \in {"none"} \cup Ended => worker[<<k, i, m>>] = "none"
    BY <1>2 DEF EnqueueDelivery
  <2> DEFINE e == <<k, i, m>>
  <2>2. e \in Deliveries
    BY <2>1 DEF TypeInv, TypeOK, Deliveries
  <2>3. UNCHANGED <<row, federated, pub, pubTries, worker, accepted, finished, known, fetched, dpc, seen, failures, crashes>>
    BY <1>2 DEF EnqueueDelivery, fetchVars, deleteVars, bounds
  <2> HIDE DEF e
  <2>4. TypeOK'
    <3>1. job' \in [Deliveries -> JobStates] /\ tries' \in [Deliveries -> 0..MaxAttempts]
      BY <2>1, <2>2 DEF e, Insert, TypeInv, TypeOK, JobStates, Incomplete, Waiting, fetchVars
    <3>2. todo' \in [Kinds -> SUBSET Inboxes]
      BY <2>1 DEF TypeInv, TypeOK
    <3> QED  BY <2>3, <3>1, <3>2 DEF TypeInv, TypeOK
  <2>5. \A d \in Deliveries : d # e => job'[d] = job[d] /\ tries'[d] = tries[d]
    BY <2>1, <2>2 DEF e, Insert, TypeInv, TypeOK
  <2>6. \/ job'[e] = job[e] /\ tries'[e] = tries[e]
        \/ tries'[e] = 0 /\ worker[e] = "none"
    BY <2>1, <2>2 DEF e, Insert, TypeInv, TypeOK, JobStates, Incomplete, Ended
  <2>7. AttemptsInv'
    BY <2>2, <2>3, <2>4, <2>5, <2>6 DEF TypeInv, TypeOK, AttemptsInv
  <2> QED  BY <2>4, <2>7 DEF TypeInv
<1>3. CASE FinishPublish(k)
  BY <1>3 DEF FinishPublish, Kinds, TypeInv, TypeOK, AttemptsInv, JobStates, Ended, Waiting, deleteVars, bounds, fetchVars
<1>4. CASE PublishFails(k)
  BY <1>4 DEF PublishFails, AfterFailure, Kinds, TypeInv, TypeOK, AttemptsInv, JobStates, Incomplete, Ended, Waiting, deleteVars, fetchVars
<1>5. CASE RescuePublish(k)
  BY <1>5 DEF RescuePublish, AfterRescue, Kinds, TypeInv, TypeOK, AttemptsInv, JobStates, Incomplete, Ended, Waiting, deleteVars, bounds, fetchVars
<1> QED  BY <1>1, <1>2, <1>3, <1>4, <1>5 DEF Publish

LEMMA DeliverType ==
    ASSUME TypeInv, NEW d \in Deliveries, Deliver(d)
    PROVE  TypeInv'
<1> USE AttemptsAssumption, BoundsAssumption
<1> USE DEF TypeInv, TypeOK, AttemptsInv, JobStates, Incomplete, Ended, Waiting, Working, Advance, Acknowledge, deleteVars, bounds, fetchVars
<1>1. CASE StartDelivery(d)
  BY <1>1 DEF StartDelivery
<1>2. CASE ValidateSource(d)
  BY <1>2 DEF ValidateSource
<1>3. CASE Snooze(d)
  BY <1>3 DEF Snooze
<1>4. CASE Refuse(d)
  BY <1>4 DEF Refuse
<1>5. CASE Accept(d)
  BY <1>5 DEF Accept
<1>6. CASE MarkDelivered(d)
  BY <1>6 DEF MarkDelivered
<1>7. CASE CompleteDelivery(d)
  BY <1>7 DEF CompleteDelivery
<1>8. CASE DeliveryFails(d)
  BY <1>8 DEF DeliveryFails, AfterFailure
<1>9. CASE Kill(d)
  BY <1>9 DEF Kill
<1>10. CASE RescueDelivery(d)
  BY <1>10 DEF RescueDelivery, AfterRescue
<1>11. CASE Prune(d)
  BY <1>11 DEF Prune
<1> QED  BY <1>1, <1>2, <1>3, <1>4, <1>5, <1>6, <1>7, <1>8, <1>9, <1>10, <1>11 DEF Deliver

LEMMA CrashType ==
    ASSUME TypeInv, Crash
    PROVE  TypeInv'
BY BoundsAssumption DEF Crash, Orphan, Kinds, TypeInv, TypeOK, AttemptsInv, JobStates, Incomplete, Ended, Waiting, fetchVars

LEMMA NextType == TypeInv /\ [Next]_vars => TypeInv'
<1> SUFFICES ASSUME TypeInv, [Next]_vars PROVE TypeInv'
  OBVIOUS
<1>1. CASE Next /\ ~\E i \in Fetchers : Fetch(i)
  BY <1>1, UserType, PublishType, DeliverType, CrashType DEF Next
<1>2. ASSUME UNCHANGED restVars, known' \in SUBSET Fetchers, fetched' \in SUBSET Fetchers PROVE TypeInv'
  BY <1>2 DEF restVars, jobVars, deleteVars, bounds, TypeInv, TypeOK, AttemptsInv
<1>3. CASE UNCHANGED vars
  BY <1>2, <1>3, RestStays DEF vars, fetchVars, TypeInv, TypeOK
<1>4. CASE \E i \in Fetchers : Fetch(i)
  BY <1>2, <1>4, RestStays DEF Fetch, TypeInv, TypeOK
<1> QED  BY <1>1, <1>3, <1>4

\* The jobs, their attempts and their processes keep their types: in
\* particular no job is executed more than MaxAttempts times.
THEOREM TypeCorrect == Spec => []TypeOK
<1>1. Spec => []TypeInv
  BY InitType, NextType, PTL DEF Spec
<1> QED  BY <1>1, PTL DEF TypeInv

-----------------------------------------------------------------------------
\* DeleteOnlyAfterAccept by itself is not inductive: the flag is set by a
\* process that remembers its peer's answer, so the answer must be known.
AcceptInv ==
    /\ DeleteOnlyAfterAccept
    /\ \A d \in Deliveries : worker[d] \in {"accepted", "marked"} => d \in accepted

\* Nothing takes an accepted delivery back.
LEMMA AcceptedGrows == TypeInv /\ [Next]_vars => accepted \subseteq accepted'
BY DEF Next, Post, Edit, Fetch, Delete, FindPost, CancelJobs, DeletePost, DeleteFails, Crash,
       Publish, StartPublish, EnqueueDelivery, FinishPublish, PublishFails, RescuePublish,
       Deliver, StartDelivery, ValidateSource, Snooze, Refuse, Accept, MarkDelivered,
       CompleteDelivery, DeliveryFails, Kill, RescueDelivery, Prune, vars

LEMMA AcceptStep == TypeInv /\ AcceptInv /\ [Next]_vars => AcceptInv'
<1> SUFFICES ASSUME TypeInv, AcceptInv, [Next]_vars PROVE AcceptInv'
  OBVIOUS
<1>0. /\ PostAccepted => PostAccepted'
      /\ accepted \subseteq accepted'
  BY AcceptedGrows DEF PostAccepted
<1> USE DEF AcceptInv, DeleteOnlyAfterAccept, TypeInv, TypeOK
<1>1. CASE Post \/ Edit
  BY <1>0, <1>1 DEF Post, Edit, Kinds, deleteVars
<1>2. CASE Delete
  BY <1>0, <1>2 DEF Delete, FindPost, CancelJobs, DeletePost, DeleteFails, jobVars
<1>3. CASE Crash
  BY <1>0, <1>3 DEF Crash, Orphan, Kinds
<1>4. ASSUME NEW k \in Kinds, Publish(k) PROVE AcceptInv'
  <2>1. /\ UNCHANGED <<federated, worker, accepted, dpc, seen>>
        /\ pub["Delete"] = "none" => pub'["Delete"] = "none"
    BY <1>4 DEF Publish, StartPublish, EnqueueDelivery, FinishPublish, PublishFails, RescuePublish,
                Waiting, Kinds, deleteVars
  <2> QED  BY <1>0, <2>1
<1>5. ASSUME NEW d \in Deliveries, Deliver(d) PROVE AcceptInv'
  <2>1. UNCHANGED <<pub, seen>>
    BY <1>5 DEF Deliver, StartDelivery, ValidateSource, Snooze, Refuse, Accept, MarkDelivered,
                CompleteDelivery, DeliveryFails, Kill, RescueDelivery, Prune, deleteVars
  <2>2. \A e \in Deliveries : worker'[e] \in {"accepted", "marked"} => e \in accepted'
    BY <1>0, <1>5 DEF Deliver, StartDelivery, ValidateSource, Snooze, Refuse, Accept, MarkDelivered,
                CompleteDelivery, DeliveryFails, Kill, RescueDelivery, Prune, Advance, Acknowledge
  <2>3. federated' => PostAccepted'
    <3>1. CASE MarkDelivered(d)
      BY <1>0, <3>1 DEF MarkDelivered, PostAccepted
    <3>2. CASE ~MarkDelivered(d)
      <4>1. federated' = federated
        BY <1>5, <3>2 DEF Deliver, StartDelivery, ValidateSource, Snooze, Refuse, Accept,
              CompleteDelivery, DeliveryFails, Kill, RescueDelivery, Prune
      <4> QED  BY <1>0, <4>1
    <3> QED  BY <3>1, <3>2
  <2> QED  BY <1>0, <2>1, <2>2, <2>3
<1>6. CASE UNCHANGED restVars
  BY <1>0, <1>6 DEF restVars, jobVars, deleteVars
<1> QED  BY <1>1, <1>2, <1>3, <1>4, <1>5, <1>6, RestStays DEF Next

\* A Delete is federated, and the flag is set, only after some peer has
\* accepted the post.
THEOREM DeleteOnlyAfterAcceptCorrect == Spec => []DeleteOnlyAfterAccept
<1>1. Init => AcceptInv
  BY DEF Init, AcceptInv, DeleteOnlyAfterAccept, Kinds
<1>2. Spec => [](TypeInv /\ AcceptInv)
  BY <1>1, InitType, NextType, AcceptStep, PTL DEF Spec
<1> QED  BY <1>2, PTL DEF AcceptInv

-----------------------------------------------------------------------------
\* Before the post there is nothing that could have a part in its delivery.
Unposted ==
    /\ ~row /\ finished = {}
    /\ \A k \in Kinds : pub[k] = "none"
    /\ \A d \in Deliveries : job[d] = "none" /\ worker[d] = "none"
    /\ dpc = "none"

\* FinishedIsMarked is kept by the process between its UPDATE and its
\* acknowledgement: what it marked stays marked.
MarkedInv ==
    /\ FinishedIsMarked
    /\ \A d \in Deliveries : worker[d] = "marked" /\ Kind(d) # "Delete" /\ row => federated
    /\ pub["Create"] = "none" => Unposted

LEMMA MarkedStep == TypeInv /\ MarkedInv /\ [Next]_vars => MarkedInv'
<1> SUFFICES ASSUME TypeInv, MarkedInv, [Next]_vars PROVE MarkedInv'
  OBVIOUS
<1> USE DEF MarkedInv, FinishedIsMarked
<1>1. CASE Post
  BY <1>1 DEF Post, Unposted, TypeInv, TypeOK, Kinds, deleteVars
<1>2. CASE Edit
  BY <1>2 DEF Edit, Unposted, TypeInv, TypeOK, Kinds
<1>3. CASE Delete
  BY <1>3 DEF Delete, FindPost, CancelJobs, DeletePost, DeleteFails, jobVars, Unposted, TypeInv, TypeOK, Kinds
<1>4. CASE Crash
  BY <1>4 DEF Crash, Orphan, Unposted, TypeInv, TypeOK, Kinds
<1>5. ASSUME NEW k \in Kinds, Publish(k) PROVE MarkedInv'
  <2>1. pub["Create"] # "none" /\ pub'["Create"] # "none"
    BY <1>5 DEF Publish, StartPublish, EnqueueDelivery, FinishPublish, PublishFails, RescuePublish,
                AfterFailure, AfterRescue, Unposted, Waiting, TypeInv, TypeOK, Kinds
  <2>2. UNCHANGED <<row, federated, worker, finished>>
    BY <1>5 DEF Publish, StartPublish, EnqueueDelivery, FinishPublish, PublishFails, RescuePublish
  <2> QED  BY <2>1, <2>2
<1>6. ASSUME NEW d \in Deliveries, Deliver(d) PROVE MarkedInv'
  <2>1. pub["Create"] # "none" /\ UNCHANGED <<row, pub>>
    BY <1>6 DEF Deliver, StartDelivery, ValidateSource, Snooze, Refuse, Accept, MarkDelivered,
                CompleteDelivery, DeliveryFails, Kill, RescueDelivery, Prune, Unposted, Waiting,
                Ended, TypeInv, TypeOK
  <2>2. CASE MarkDelivered(d)
    BY <2>1, <2>2 DEF MarkDelivered, Advance, TypeInv, TypeOK
  <2>3. CASE CompleteDelivery(d)
    BY <2>1, <2>3 DEF CompleteDelivery, Advance, Acknowledge, TypeInv, TypeOK
  <2>4. CASE ~MarkDelivered(d) /\ ~CompleteDelivery(d)
    <3>1. UNCHANGED <<federated, finished>>
      BY <1>6, <2>4 DEF Deliver, StartDelivery, ValidateSource, Snooze, Refuse, Accept,
                DeliveryFails, Kill, RescueDelivery, Prune
    <3>2. \A e \in Deliveries : worker'[e] = "marked" => worker[e] = "marked"
      BY <1>6, <2>4 DEF Deliver, StartDelivery, ValidateSource, Snooze, Refuse, Accept,
                DeliveryFails, Kill, RescueDelivery, Prune, Advance, Acknowledge, TypeInv, TypeOK
    <3> QED  BY <2>1, <3>1, <3>2
  <2> QED  BY <2>2, <2>3, <2>4
<1>7. CASE UNCHANGED restVars
  BY <1>7 DEF restVars, jobVars, deleteVars, Unposted
<1> QED  BY <1>1, <1>2, <1>3, <1>4, <1>5, <1>6, <1>7, RestStays DEF Next

\* A completed delivery of an existing post is known to the next delete.
THEOREM FinishedIsMarkedCorrect == Spec => []FinishedIsMarked
<1>1. Init => MarkedInv
  BY DEF Init, MarkedInv, FinishedIsMarked, Unposted, Kinds
<1>2. Spec => [](TypeInv /\ MarkedInv)
  BY <1>1, InitType, NextType, MarkedStep, PTL DEF Spec
<1> QED  BY <1>2, PTL DEF MarkedInv

-----------------------------------------------------------------------------
\* Quiet is stable, and while it lasts no Create is accepted anywhere.
LEMMA QuietStep ==
    ASSUME TypeInv, Quiet, [Next]_vars
    PROVE  Quiet' /\ \A d \in accepted' \ accepted : Kind(d) # "Create"
<1> USE DEF Quiet
<1>1. CASE Post \/ Edit \/ Delete \/ Crash
  BY <1>1 DEF Post, Edit, Delete, FindPost, CancelJobs, DeletePost, DeleteFails, Crash, Orphan,
              jobVars, TypeInv, TypeOK, Kinds
<1>2. ASSUME NEW k \in Kinds, Publish(k)
      PROVE  UNCHANGED <<row, worker, accepted>> /\ pub'["Create"] # "none"
  BY <1>2 DEF Publish, StartPublish, EnqueueDelivery, FinishPublish, PublishFails, RescuePublish,
              AfterFailure, AfterRescue, TypeInv, TypeOK, Kinds
<1>3. ASSUME NEW d \in Deliveries, Deliver(d)
      PROVE  Quiet' /\ \A e \in accepted' \ accepted : Kind(e) # "Create"
  <2>1. UNCHANGED <<row, pub>>
    BY <1>3 DEF Deliver, StartDelivery, ValidateSource, Snooze, Refuse, Accept, MarkDelivered,
                CompleteDelivery, DeliveryFails, Kill, RescueDelivery, Prune
  <2>2. CASE Accept(d)
    BY <2>1, <2>2 DEF Accept, Advance, TypeInv, TypeOK
  <2>3. CASE ValidateSource(d)
    BY <2>1, <2>3 DEF ValidateSource, Acknowledge, Advance, TypeInv, TypeOK
  <2>4. CASE ~Accept(d) /\ ~ValidateSource(d)
    BY <1>3, <2>1, <2>4 DEF Deliver, StartDelivery, Snooze, Refuse, MarkDelivered, CompleteDelivery,
                DeliveryFails, Kill, RescueDelivery, Prune, Advance, Acknowledge, TypeInv, TypeOK
  <2> QED  BY <2>2, <2>3, <2>4
<1>4. CASE UNCHANGED restVars
  BY <1>4 DEF restVars, jobVars
<1> QED  BY <1>1, <1>2, <1>3, <1>4, RestStays DEF Next

\* Once the post is gone and the processes that had already checked for it
\* are done, no Create is sent any more, whatever the jobs.
THEOREM NoLateCreateCorrect == Spec => NoLateCreate
<1>1. TypeInv /\ [Next]_vars => [Quiet => /\ Quiet'
                                        /\ \A d \in accepted' \ accepted : Kind(d) # "Create"]_vars
  BY QuietStep
<1>2. Spec => []TypeInv
  BY InitType, NextType, PTL DEF Spec
<1> QED  BY <1>1, <1>2, PTL DEF Spec, NoLateCreate

-----------------------------------------------------------------------------
\* A completed job stays one where nothing prunes it, and no process is left
\* that could still write its row.
FinishedInv == \A c \in finished : job[c] = "completed" /\ worker[c] = "none"

LEMMA FinishedStep ==
    ASSUME ~Prunes, TypeInv, FinishedInv, [Next]_vars
    PROVE  FinishedInv' /\ finished \subseteq finished'
<1> USE DEF FinishedInv, TypeInv, TypeOK
<1>1. CASE Post \/ Edit \/ Crash
  BY <1>1 DEF Post, Edit, Crash, Orphan
<1>2. CASE Delete
  BY <1>2 DEF Delete, FindPost, CancelJobs, DeletePost, DeleteFails, jobVars, Incomplete, Waiting
<1>3. ASSUME NEW k \in Kinds, Publish(k) PROVE FinishedInv' /\ finished \subseteq finished'
  <2>1. UNCHANGED <<worker, finished>>
    BY <1>3 DEF Publish, StartPublish, EnqueueDelivery, FinishPublish, PublishFails, RescuePublish
  <2>2. \A c \in Deliveries : job[c] = "completed" => job'[c] = "completed"
    <3>1. CASE job' = job
      BY <3>1
    <3>2. CASE EnqueueDelivery(k)
      <4>1. PICK i \in todo[k], m \in Marks : job' = Insert(<<k, i, m>>)
        BY <3>2 DEF EnqueueDelivery
      <4> DEFINE e == <<k, i, m>>
      <4> HIDE DEF e
      <4>2. \A c \in Deliveries :
              job'[c] = IF c = e /\ job[c] \notin Incomplete \cup {"completed"} THEN "available" ELSE job[c]
        BY <4>1 DEF Insert, e
      <4> QED  BY <4>2
    <3> QED
      BY <1>3, <3>1, <3>2 DEF Publish, StartPublish, FinishPublish, PublishFails, RescuePublish
  <2> QED  BY <2>1, <2>2
<1>4. ASSUME NEW d \in Deliveries, Deliver(d) PROVE FinishedInv' /\ finished \subseteq finished'
  <2>1. \A c \in Deliveries : c # d => job'[c] = job[c] /\ worker'[c] = worker[c]
    BY <1>4 DEF Deliver, StartDelivery, ValidateSource, Snooze, Refuse, Accept, MarkDelivered,
                CompleteDelivery, DeliveryFails, Kill, RescueDelivery, Prune, Advance, Acknowledge
  <2>2. d \notin finished
    BY <1>4 DEF Deliver, StartDelivery, ValidateSource, Snooze, Refuse, Accept, MarkDelivered,
                CompleteDelivery, DeliveryFails, Kill, RescueDelivery, Prune, Waiting
  <2>3. CASE CompleteDelivery(d)
    BY <2>1, <2>2, <2>3 DEF CompleteDelivery, Advance, Acknowledge
  <2>4. CASE ~CompleteDelivery(d)
    <3>1. finished' = finished
      BY <1>4, <2>4 DEF Deliver, StartDelivery, ValidateSource, Snooze, Refuse, Accept, MarkDelivered,
                  DeliveryFails, Kill, RescueDelivery, Prune
    <3> QED  BY <2>1, <2>2, <3>1
  <2> QED  BY <2>3, <2>4
<1>5. CASE UNCHANGED restVars
  BY <1>5 DEF restVars, jobVars
<1> QED  BY <1>1, <1>2, <1>3, <1>4, <1>5, RestStays DEF Next

-----------------------------------------------------------------------------
\* Where the delete is while the row is there, and that no delivery exists whose
\* activity was not published.
LifeInv ==
    /\ pub["Create"] # "none" => (row <=> dpc # "deleted")
    /\ \A d \in Deliveries : job[d] # "none" \/ worker[d] # "none" => pub[Kind(d)] # "none"

LEMMA KindType ==
    ASSUME NEW d \in Deliveries
    PROVE  Kind(d) \in Kinds
BY DEF Deliveries, Kind

\* No publish job disappears.
LEMMA PubStays ==
    ASSUME TypeInv, [Next]_vars, NEW k \in Kinds, pub[k] # "none"
    PROVE  pub'[k] # "none"
<1> USE DEF TypeInv, TypeOK
<1>1. CASE Post \/ Edit \/ Delete \/ Crash
  BY <1>1 DEF Post, Edit, Delete, FindPost, CancelJobs, DeletePost, DeleteFails, Crash, Orphan,
              jobVars, Kinds
<1>2. CASE \E l \in Kinds : Publish(l)
  BY <1>2 DEF Publish, StartPublish, EnqueueDelivery, FinishPublish, PublishFails, RescuePublish,
              AfterFailure, AfterRescue
<1>3. CASE (\E d \in Deliveries : Deliver(d)) \/ UNCHANGED restVars
  BY <1>3 DEF Deliver, StartDelivery, ValidateSource, Snooze, Refuse, Accept, MarkDelivered,
              CompleteDelivery, DeliveryFails, Kill, RescueDelivery, Prune, restVars, jobVars
<1> QED BY <1>1, <1>2, <1>3, RestStays DEF Next

LEMMA LifeStep == TypeInv /\ MarkedInv /\ LifeInv /\ [Next]_vars => LifeInv'
<1> SUFFICES ASSUME TypeInv, MarkedInv, LifeInv, [Next]_vars PROVE LifeInv'
  OBVIOUS
<1> USE DEF LifeInv, TypeInv, TypeOK
<1>1. CASE Post \/ Edit \/ Delete \/ Crash
  <2>1. pub'["Create"] # "none" => (row' <=> dpc' # "deleted")
    BY <1>1 DEF Post, Edit, Delete, FindPost, CancelJobs, DeletePost, DeleteFails, Crash, Orphan,
                jobVars, deleteVars, Kinds, MarkedInv, Unposted
  <2>2. \A d \in Deliveries : job'[d] # "none" \/ worker'[d] # "none" => job[d] # "none" \/ worker[d] # "none"
    BY <1>1 DEF Post, Edit, Delete, FindPost, CancelJobs, DeletePost, DeleteFails, Crash, Orphan,
                jobVars, Incomplete, Waiting
  <2> QED BY <2>1, <2>2, PubStays, KindType
<1>2. ASSUME NEW k \in Kinds, Publish(k) PROVE LifeInv'
  <2>1. UNCHANGED <<row, dpc, worker>> /\ pub[k] # "none"
    BY <1>2 DEF Publish, StartPublish, EnqueueDelivery, FinishPublish, PublishFails, RescuePublish,
                deleteVars, Waiting
  <2>2. pub["Create"] # "none"
    BY <2>1 DEF MarkedInv, Unposted
  <2>3. \A d \in Deliveries : job'[d] # "none" => job[d] # "none" \/ Kind(d) = k
    <3>1. CASE EnqueueDelivery(k)
      BY <3>1 DEF EnqueueDelivery, Insert, Kind
    <3> QED
      BY <1>2, <3>1 DEF Publish, StartPublish, FinishPublish, PublishFails, RescuePublish
  <2> QED BY <2>1, <2>2, <2>3, PubStays, KindType
<1>3. ASSUME NEW d \in Deliveries, Deliver(d) PROVE LifeInv'
  <2>1. UNCHANGED <<row, dpc, pub>>
    BY <1>3 DEF Deliver, StartDelivery, ValidateSource, Snooze, Refuse, Accept, MarkDelivered,
                CompleteDelivery, DeliveryFails, Kill, RescueDelivery, Prune, deleteVars
  <2>2. job[d] # "none" \/ worker[d] # "none"
    BY <1>3 DEF Deliver, StartDelivery, ValidateSource, Snooze, Refuse, Accept, MarkDelivered,
                CompleteDelivery, DeliveryFails, Kill, RescueDelivery, Prune, Waiting, Ended
  <2>3. \A e \in Deliveries : e # d => job'[e] = job[e] /\ worker'[e] = worker[e]
    BY <1>3 DEF Deliver, StartDelivery, ValidateSource, Snooze, Refuse, Accept, MarkDelivered,
                CompleteDelivery, DeliveryFails, Kill, RescueDelivery, Prune, Advance, Acknowledge
  <2> QED BY <2>1, <2>2, <2>3
<1>4. CASE UNCHANGED restVars
  BY <1>4 DEF restVars, jobVars, deleteVars
<1> QED BY <1>1, <1>2, <1>3, <1>4, RestStays DEF Next

-----------------------------------------------------------------------------
\* Every job is accounted for, whatever is done to it, and where the fan-out
\* has been there is one.
JobsInv == \A d \in Deliveries : job[d] = "none" \/ Accounted(d)

Passed(k, i) == pub[k] = "completed" \/ (pub[k] = "executing" /\ i \notin todo[k])

FanInv ==
    \A k \in Kinds : \A i \in Listed(k) :
        Passed(k, i) => \E m \in Marks : job[<<k, i, m>>] # "none"

\* Until the Delete is fanned out every fetch is still on record.
FetchInv == pubTries["Delete"] = 0 => known = fetched

LostInv == TypeInv /\ AcceptInv /\ MarkedInv /\ LifeInv /\ JobsInv /\ FanInv /\ FetchInv

\* A job of which nothing but the answer of a peer has changed.
LEMMA AccountedStays ==
    ASSUME NEW d \in Deliveries, job[d] = "none" \/ Accounted(d),
           job'[d] = job[d], worker[d] # "none" => worker'[d] # "none", tries'[d] = tries[d],
           accepted \subseteq accepted'
    PROVE  job'[d] = "none" \/ Accounted(d)'
BY DEF Accounted, GivenUp

LEMMA JobsUser ==
    ASSUME LostInv, Post \/ Edit \/ Delete \/ Crash
    PROVE  JobsInv'
<1> SUFFICES ASSUME NEW d \in Deliveries PROVE job'[d] = "none" \/ Accounted(d)'
  BY DEF JobsInv
<1>0. job[d] = "none" \/ Accounted(d)
  BY DEF LostInv, JobsInv
<1>1. CASE Post \/ Edit \/ FindPost \/ DeletePost \/ DeleteFails
  BY <1>0, <1>1, AccountedStays DEF Post, Edit, FindPost, DeletePost, DeleteFails, jobVars
<1>2. CASE CancelJobs
  BY <1>0, <1>2 DEF CancelJobs, Accounted, GivenUp
<1>3. CASE Crash
  BY <1>0, <1>3 DEF Crash, Orphan, Accounted, GivenUp, Waiting
<1> QED BY <1>1, <1>2, <1>3 DEF Delete

LEMMA JobsPublish ==
    ASSUME LostInv, NEW k \in Kinds, Publish(k)
    PROVE  JobsInv'
<1> SUFFICES ASSUME NEW d \in Deliveries PROVE job'[d] = "none" \/ Accounted(d)'
  BY DEF JobsInv
<1>0. job[d] = "none" \/ Accounted(d)
  BY DEF LostInv, JobsInv
<1>1. CASE EnqueueDelivery(k)
  <2>1. PICK i \in todo[k], m \in Marks :
          /\ job' = Insert(<<k, i, m>>)
          /\ tries' = [tries EXCEPT ![<<k, i, m>>] = IF job'[<<k, i, m>>] = job[<<k, i, m>>] THEN @ ELSE 0]
    BY <1>1 DEF EnqueueDelivery
  <2> DEFINE e == <<k, i, m>>
  <2> HIDE DEF e
  <2>2. UNCHANGED <<worker, accepted>>
    BY <1>1 DEF EnqueueDelivery
  <2>3. CASE job'[d] = job[d]
    <3>1. tries'[d] = tries[d]
      BY <2>1, <2>3 DEF e, LostInv, TypeInv, TypeOK
    <3> QED BY <1>0, <2>2, <2>3, <3>1, AccountedStays
  <2>4. CASE job'[d] # job[d]
    <3>1. job'[d] = "available"
      BY <2>1, <2>4 DEF Insert, LostInv, TypeInv, TypeOK
    <3> QED BY <3>1 DEF Accounted, Waiting
  <2> QED BY <2>3, <2>4
<1>2. CASE StartPublish(k) \/ FinishPublish(k) \/ PublishFails(k) \/ RescuePublish(k)
  BY <1>0, <1>2, AccountedStays DEF StartPublish, FinishPublish, PublishFails, RescuePublish
<1> QED BY <1>1, <1>2 DEF Publish

LEMMA JobsDeliver ==
    ASSUME LostInv, NEW e \in Deliveries, Deliver(e)
    PROVE  JobsInv'
<1> SUFFICES ASSUME NEW d \in Deliveries PROVE job'[d] = "none" \/ Accounted(d)'
  BY DEF JobsInv
<1>0. job[d] = "none" \/ Accounted(d)
  BY DEF LostInv, JobsInv
<1>t. TypeInv /\ tries[d] \in 0..MaxAttempts /\ MaxAttempts \in Nat
  BY AttemptsAssumption DEF LostInv, TypeInv, TypeOK
<1>1. CASE d # e
  <2>1. job'[d] = job[d] /\ worker'[d] = worker[d] /\ tries'[d] = tries[d] /\ accepted \subseteq accepted'
    BY <1>1, <1>t DEF Deliver, StartDelivery, ValidateSource, Snooze, Refuse, Accept, MarkDelivered,
                CompleteDelivery, DeliveryFails, Kill, RescueDelivery, Prune, Advance, Acknowledge,
                TypeInv, TypeOK
  <2> QED BY <1>0, <2>1, AccountedStays
<1>2. CASE StartDelivery(d)
  BY <1>2, <1>t DEF StartDelivery, Advance, Accounted, TypeInv, TypeOK
<1>3. CASE ValidateSource(d)
  <2>1. CASE Kind(d) = "Create" /\ ~row
    BY <1>0, <1>3, <1>t, <2>1 DEF ValidateSource, Acknowledge, Accounted, GivenUp, TypeInv, TypeOK
  <2>2. CASE ~(Kind(d) = "Create" /\ ~row)
    BY <1>0, <1>3, <1>t, <2>2 DEF ValidateSource, Advance, Accounted, GivenUp, TypeInv, TypeOK
  <2> QED BY <2>1, <2>2
<1>4. CASE Snooze(d)
  BY <1>0, <1>4, <1>t DEF Snooze, Acknowledge, Accounted, GivenUp, Waiting, TypeInv, TypeOK
<1>5. CASE Refuse(d)
  BY <1>0, <1>5, <1>t DEF Refuse, Acknowledge, Accounted, GivenUp, TypeInv, TypeOK
<1>6. CASE Accept(d) \/ MarkDelivered(d)
  BY <1>0, <1>6, <1>t, AccountedStays DEF Accept, MarkDelivered, Advance, TypeInv, TypeOK
<1>7. CASE CompleteDelivery(d)
  <2>1. d \in accepted'
    BY <1>7 DEF CompleteDelivery, LostInv, AcceptInv
  <2> QED BY <1>0, <1>7, <1>t, <2>1 DEF CompleteDelivery, Acknowledge, Accounted, GivenUp, TypeInv, TypeOK
<1>8. CASE DeliveryFails(d)
  <2>1. AfterFailure(tries[d]) = "retryable" \/ (AfterFailure(tries[d]) = "discarded" /\ tries[d] = MaxAttempts)
    BY <1>t DEF AfterFailure
  <2> QED BY <1>0, <1>8, <1>t, <2>1 DEF DeliveryFails, Acknowledge, Accounted, GivenUp, Waiting, TypeInv, TypeOK
<1>9. CASE Kill(d)
  BY <1>0, <1>9, <1>t DEF Kill, Advance, Accounted, GivenUp, Waiting, TypeInv, TypeOK
<1>10. CASE RescueDelivery(d)
  <2>1. AfterRescue(tries[d]) = "available" \/ (AfterRescue(tries[d]) = "discarded" /\ tries[d] = MaxAttempts)
    BY <1>t DEF AfterRescue
  <2> QED BY <1>10, <1>t, <2>1 DEF RescueDelivery, Accounted, Waiting, TypeInv, TypeOK
<1>11. CASE Prune(d)
  BY <1>11, <1>t DEF Prune, TypeInv, TypeOK
<1> QED
  BY <1>1, <1>2, <1>3, <1>4, <1>5, <1>6, <1>7, <1>8, <1>9, <1>10, <1>11 DEF Deliver

\* Only the Pruner removes a job, and not while its fan-out may count on it.
LEMMA JobStays ==
    ASSUME TypeInv, [Next]_vars, NEW d \in Deliveries, job[d] # "none",
           pub[Kind(d)] \in {"executing", "completed"}
    PROVE  job'[d] # "none"
<1> USE DEF TypeInv, TypeOK, JobStates, Incomplete, Waiting, Ended
<1>1. CASE Post \/ Edit \/ Delete \/ Crash
  BY <1>1 DEF Post, Edit, Delete, FindPost, CancelJobs, DeletePost, DeleteFails, Crash, Orphan, jobVars
<1>2. ASSUME NEW k \in Kinds, Publish(k) PROVE job'[d] # "none"
  <2>1. CASE EnqueueDelivery(k)
    <3>1. PICK e : job' = Insert(e)
      BY <2>1 DEF EnqueueDelivery
    <3>2. job'[d] = job[d] \/ job'[d] = "available"
      BY <3>1 DEF Insert
    <3> QED BY <3>2
  <2>2. CASE job' = job
    BY <2>2
  <2> QED BY <1>2, <2>1, <2>2 DEF Publish, StartPublish, FinishPublish, PublishFails, RescuePublish
<1>3. CASE \E e \in Deliveries : Deliver(e)
  BY <1>3 DEF Deliver, StartDelivery, ValidateSource, Snooze, Refuse, Accept, MarkDelivered,
              CompleteDelivery, DeliveryFails, AfterFailure, Kill, RescueDelivery, AfterRescue, Prune,
              Advance, Acknowledge
<1>4. CASE UNCHANGED restVars
  BY <1>4 DEF restVars, jobVars
<1> QED BY <1>1, <1>2, <1>3, <1>4, RestStays DEF Next

\* An inbox the fan-out has passed had been passed, or its job is inserted now.
LEMMA PassedDoes ==
    ASSUME TypeInv, [Next]_vars, NEW k \in Kinds, NEW i \in Inboxes, Passed(k, i)', ~StartPublish(k)
    PROVE  \/ Passed(k, i)
           \/ \E m \in Marks : job'[<<k, i, m>>] # "none"
<1> USE DEF TypeInv, TypeOK, Passed
<1>1. CASE Post \/ Edit \/ Delete \/ Crash
  BY <1>1 DEF Post, Edit, Delete, FindPost, CancelJobs, DeletePost, DeleteFails, Crash, Orphan, jobVars, Kinds
<1>2. ASSUME NEW l \in Kinds, Publish(l), ~Passed(k, i)
      PROVE  \E m \in Marks : job'[<<k, i, m>>] # "none"
  <2>1. CASE EnqueueDelivery(l)
    <3>1. PICK j \in todo[l], m \in Marks :
            todo' = [todo EXCEPT ![l] = @ \ {j}] /\ job' = Insert(<<l, j, m>>)
      BY <2>1 DEF EnqueueDelivery
    <3>2. l = k /\ j = i
      BY <1>2, <2>1, <3>1 DEF EnqueueDelivery
    <3>3. job'[<<k, i, m>>] # "none"
      BY <3>1, <3>2 DEF Insert, Deliveries, Incomplete, Waiting
    <3> QED BY <3>3
  <2>2. CASE (StartPublish(l) /\ l # k) \/ FinishPublish(l) \/ PublishFails(l) \/ RescuePublish(l)
    BY <1>2, <2>2 DEF StartPublish, FinishPublish, PublishFails, RescuePublish, AfterFailure, AfterRescue
  <2> QED BY <1>2, <2>1, <2>2 DEF Publish
<1>3. CASE (\E d \in Deliveries : Deliver(d)) \/ UNCHANGED restVars
  BY <1>3 DEF Deliver, StartDelivery, ValidateSource, Snooze, Refuse, Accept, MarkDelivered,
              CompleteDelivery, DeliveryFails, Kill, RescueDelivery, Prune, restVars, jobVars
<1> QED BY <1>1, <1>2, <1>3, RestStays DEF Next

\* While the post is there its Delete has not been fanned out.
LEMMA RowUntried ==
    ASSUME TypeInv, MarkedInv, LifeInv, row
    PROVE  pubTries["Delete"] = 0
BY DEF TypeInv, AttemptsInv, MarkedInv, Unposted, LifeInv, Kinds

\* A list gets longer only when the Delete's first fan-out starts.
LEMMA ListedStays ==
    ASSUME LostInv, [Next]_vars, NEW k \in Kinds, ~StartPublish(k)
    PROVE  Listed(k)' \subseteq Listed(k)
<1> USE DEF LostInv, TypeInv, TypeOK, Listed
<1>1. CASE \E i \in Fetchers : Fetch(i)
  <2>1. pubTries["Delete"] = 0 /\ pubTries' = pubTries
    BY <1>1, RowUntried DEF Fetch, jobVars
  <2> QED BY <2>1
<1>2. CASE ~\E i \in Fetchers : Fetch(i)
  <2>1. fetched' = fetched
    BY <1>2 DEF Next, Post, Edit, Delete, FindPost, CancelJobs, DeletePost, DeleteFails, Crash,
         Publish, StartPublish, EnqueueDelivery, FinishPublish, PublishFails, RescuePublish,
         Deliver, StartDelivery, ValidateSource, Snooze, Refuse, Accept, MarkDelivered,
         CompleteDelivery, DeliveryFails, Kill, RescueDelivery, Prune, vars, fetchVars
  <2>2. pubTries'[k] = pubTries[k]
    BY <1>2 DEF Next, Post, Edit, Delete, FindPost, CancelJobs, DeletePost, DeleteFails, Crash,
         Publish, StartPublish, EnqueueDelivery, FinishPublish, PublishFails, RescuePublish,
         Deliver, StartDelivery, ValidateSource, Snooze, Refuse, Accept, MarkDelivered,
         CompleteDelivery, DeliveryFails, Kill, RescueDelivery, Prune, vars, jobVars
  <2> QED BY <2>1, <2>2
<1> QED BY <1>1, <1>2

\* A fan-out that starts has passed nobody on its list.
LEMMA StartedPassesNone ==
    ASSUME LostInv, NEW k \in Kinds, StartPublish(k), NEW i \in Listed(k)'
    PROVE  ~Passed(k, i)'
<1> USE DEF LostInv, TypeInv, TypeOK
<1>1. CASE k # "Delete" /\ ~row
  BY <1>1 DEF StartPublish, Passed
<1>2. CASE ~(k # "Delete" /\ ~row)
  <2>1. /\ pub'[k] = "executing" /\ todo'[k] = Audience(k)
        /\ pubTries'[k] = pubTries[k] + 1 /\ fetched' = fetched
    BY <1>2 DEF StartPublish
  <2>2. pubTries'[k] = 1 => pubTries[k] = 0
    BY <2>1, AttemptsAssumption
  <2>3. i \in Audience(k)
    BY <2>1, <2>2 DEF Listed, Audience, FetchInv
  <2> QED BY <2>1, <2>3 DEF Passed
<1> QED BY <1>1, <1>2

LEMMA FetchStep == LostInv /\ [Next]_vars => FetchInv'
<1> SUFFICES ASSUME LostInv, [Next]_vars PROVE FetchInv'
  OBVIOUS
<1> USE DEF LostInv, TypeInv, TypeOK, FetchInv
<1>1. CASE \E i \in Fetchers : Fetch(i)
  <2>1. pubTries["Delete"] = 0
    BY <1>1, RowUntried DEF Fetch
  <2> QED BY <1>1, <2>1 DEF Fetch, jobVars
<1>2. CASE StartPublish("Delete")
  <2>1. pubTries'["Delete"] = pubTries["Delete"] + 1 /\ pubTries["Delete"] \in Nat
    BY <1>2, AttemptsAssumption DEF StartPublish, Kinds
  <2> QED BY <2>1
<1>3. CASE ~(\E i \in Fetchers : Fetch(i)) /\ ~StartPublish("Delete")
  BY <1>3 DEF Next, Post, Edit, Delete, FindPost, CancelJobs, DeletePost, DeleteFails, Crash, Kinds,
         Publish, StartPublish, EnqueueDelivery, FinishPublish, PublishFails, RescuePublish,
         Deliver, StartDelivery, ValidateSource, Snooze, Refuse, Accept, MarkDelivered,
         CompleteDelivery, DeliveryFails, Kill, RescueDelivery, Prune, vars, jobVars, fetchVars
<1> QED BY <1>1, <1>2, <1>3

LEMMA LostStep == LostInv /\ [Next]_vars => LostInv'
<1> SUFFICES ASSUME LostInv, [Next]_vars PROVE LostInv'
  OBVIOUS
<1>1. TypeInv' /\ AcceptInv' /\ MarkedInv' /\ LifeInv' /\ FetchInv'
  BY NextType, AcceptStep, MarkedStep, LifeStep, FetchStep DEF LostInv
<1>2. JobsInv'
  <2>1. CASE UNCHANGED restVars
    BY <2>1, AccountedStays DEF restVars, jobVars, LostInv, JobsInv
  <2> QED BY <2>1, RestStays, JobsUser, JobsPublish, JobsDeliver DEF Next
<1>3. FanInv'
  <2> SUFFICES ASSUME NEW k \in Kinds, NEW i \in Listed(k)', Passed(k, i)'
               PROVE  \E m \in Marks : job'[<<k, i, m>>] # "none"
    BY DEF FanInv
  <2>0. ~StartPublish(k)
    BY StartedPassesNone
  <2>1. i \in Listed(k) /\ i \in Inboxes
    BY <2>0, ListedStays, InboxesAssumption DEF LostInv, TypeInv, TypeOK, Listed
  <2>2. CASE Passed(k, i)
    <3>1. PICK m \in Marks : job[<<k, i, m>>] # "none"
      BY <2>1, <2>2 DEF LostInv, FanInv
    <3>2. <<k, i, m>> \in Deliveries /\ pub[Kind(<<k, i, m>>)] \in {"executing", "completed"}
      BY <2>1, <2>2 DEF Deliveries, Kind, Passed
    <3>3. job'[<<k, i, m>>] # "none"
      BY <3>1, <3>2, JobStays DEF LostInv
    <3> QED BY <3>3
  <2>3. CASE ~Passed(k, i)
    BY <2>0, <2>1, <2>3, PassedDoes DEF LostInv
  <2> QED BY <2>2, <2>3
<1> QED BY <1>1, <1>2, <1>3 DEF LostInv

\* A listed inbox that the fan-out has passed has a delivery that goes on or has
\* ended for a reason, whatever was retried, cancelled, pruned or rescued; the
\* fetchers of a post are on the list of its Delete only until that has to start
\* again.
THEOREM NothingLostCorrect == Spec => []NothingLost
<1>1. Init => LostInv
  BY InitType DEF Init, LostInv, AcceptInv, DeleteOnlyAfterAccept, JobsInv, FanInv, FetchInv, Passed,
                  MarkedInv, FinishedIsMarked, Unposted, LifeInv, Deliveries, Kinds
<1>2. LostInv => NothingLost
  <2> SUFFICES ASSUME LostInv, NEW k \in Kinds, NEW i \in Listed(k), Passed(k, i)
               PROVE  \E d \in Deliveries : Kind(d) = k /\ Inbox(d) = i /\ Accounted(d)
    BY DEF NothingLost, Passed
  <2>1. PICK m \in Marks : job[<<k, i, m>>] # "none"
    BY DEF LostInv, FanInv
  <2>2. <<k, i, m>> \in Deliveries /\ Kind(<<k, i, m>>) = k /\ Inbox(<<k, i, m>>) = i
    BY InboxesAssumption DEF Deliveries, Kind, Inbox, Listed, LostInv, TypeInv, TypeOK
  <2> QED BY <2>1, <2>2 DEF LostInv, JobsInv
<1> QED BY <1>1, <1>2, LostStep, PTL DEF Spec

-----------------------------------------------------------------------------
(***************************************************************************)
(* That the jobs implement Outbox.                                         *)
(***************************************************************************)
SentInv == TypeInv /\ AcceptInv /\ MarkedInv /\ LifeInv /\ (~Prunes => FinishedInv)

LEMMA SentCorrect == Spec => []SentInv
<1>1. Init => SentInv
  BY InitType DEF Init, SentInv, AcceptInv, DeleteOnlyAfterAccept, MarkedInv, FinishedIsMarked, Unposted,
                  LifeInv, FinishedInv, Kinds
<1>2. SentInv /\ [Next]_vars => SentInv'
  BY NextType, AcceptStep, MarkedStep, LifeStep, FinishedStep DEF SentInv
<1> QED BY <1>1, <1>2, PTL DEF Spec

\* What Outbox sees of a step that leaves the post, the processes and the peers.
LEMMA OutboxStutters ==
    ASSUME Life' = Life, Flying' = Flying, Announced' = Announced,
           UNCHANGED <<accepted, finished, federated, seen>>
    PROVE  UNCHANGED Outbox!outboxVars
BY DEF Outbox!outboxVars

LEMMA OutboxUser ==
    ASSUME SentInv, Post \/ Edit \/ Delete \/ Crash
    PROVE  [Outbox!OutboxNext]_Outbox!outboxVars
<1> USE DEF SentInv, TypeInv, TypeOK
<1>1. CASE Post
  <2>1. Life = "none" /\ Life' = "there" /\ Flying' = Flying /\ Announced' = Announced
    BY <1>1 DEF Post, Life, Flying, Announced, Kinds, MarkedInv, Unposted
  <2> QED BY <1>1, <2>1 DEF Post, deleteVars, Outbox!Publish, Outbox!OutboxNext
<1>2. CASE Edit
  <2>1. Life' = Life /\ Flying' = Flying /\ Announced' = Announced
    BY <1>2 DEF Edit, Life, Flying, Announced, Kinds
  <2> QED BY <1>2, <2>1, OutboxStutters DEF Edit, deleteVars
<1>3. CASE FindPost
  <2>1. Life = "there" /\ Life' = Life /\ Flying' = Flying /\ Announced' = Announced
    BY <1>3 DEF FindPost, Life, Flying, Announced, jobVars
  <2> QED BY <1>3, <2>1 DEF FindPost, Outbox!Look, Outbox!OutboxNext
<1>4. CASE CancelJobs
  <2>1. Life' = Life /\ Flying' = Flying /\ Announced' = Announced
    BY <1>4 DEF CancelJobs, Life, Flying, Announced
  <2> QED BY <1>4, <2>1, OutboxStutters DEF CancelJobs
<1>5. ASSUME dpc \in {"found", "cancelled"} PROVE row /\ pub["Create"] # "none" /\ ~Announced
  BY <1>5 DEF LifeInv, MarkedInv, Unposted, AttemptsInv, Announced
<1>6. CASE DeletePost
  <2>1. Life = "there" /\ Life' = "gone" /\ Flying' = Flying /\ Announced' = seen
    BY <1>5, <1>6 DEF DeletePost, Life, Flying, Announced, Kinds
  <2> QED BY <1>6, <2>1 DEF DeletePost, Outbox!Erase, Outbox!OutboxNext
<1>7. CASE DeleteFails
  <2>1. Life = "there" /\ Life' = Life /\ Flying' = Flying /\ Announced' = Announced
    BY <1>5, <1>7 DEF DeleteFails, Life, Flying, Announced, jobVars
  <2> QED BY <1>7, <2>1 DEF DeleteFails, Outbox!LookAway, Outbox!OutboxNext
<1>8. CASE Crash
  <2>1. Life' = Life /\ Flying' = {} /\ Announced' = Announced
    BY <1>8 DEF Crash, Orphan, Life, Flying, Announced, Kinds
  <2>2. Life = "gone" <=> dpc = "deleted"
    BY DEF Life, LifeInv, MarkedInv, Unposted
  <2> QED BY <1>8, <2>1, <2>2 DEF Crash, Outbox!Stop, Outbox!OutboxNext
<1> QED BY <1>1, <1>2, <1>3, <1>4, <1>6, <1>7, <1>8 DEF Delete

\* The fan-out is not seen.
LEMMA OutboxPublish ==
    ASSUME SentInv, NEW k \in Kinds, Publish(k)
    PROVE  UNCHANGED Outbox!outboxVars
<1>1. UNCHANGED <<row, federated, worker, accepted, finished, dpc, seen>>
  BY DEF Publish, StartPublish, EnqueueDelivery, FinishPublish, PublishFails, RescuePublish, deleteVars
<1>2. \A l \in Kinds : pub'[l] # "none" <=> pub[l] # "none"
  BY DEF Publish, StartPublish, EnqueueDelivery, FinishPublish, PublishFails, RescuePublish,
         AfterFailure, AfterRescue, Waiting, SentInv, TypeInv, TypeOK
<1>3. Life' = Life /\ Flying' = Flying /\ Announced' = Announced
  BY <1>1, <1>2 DEF Life, Flying, Announced, Kinds
<1> QED BY <1>1, <1>3, OutboxStutters

\* A process goes on: its delivery flies, or does not any more.
LEMMA FlyingDoes ==
    ASSUME TypeInv, NEW d \in Deliveries, NEW at, worker' = [worker EXCEPT ![d] = at]
    PROVE  Flying' = IF at = "checked" THEN Flying \cup {d} ELSE Flying \ {d}
BY DEF Flying, TypeInv, TypeOK

\* A process that ends, or goes on to something else, has not sent its activity.
LEMMA OutboxFails ==
    ASSUME SentInv, NEW d \in Deliveries, NEW at, at # "checked", worker' = [worker EXCEPT ![d] = at],
           UNCHANGED <<row, federated, pub, accepted, finished, seen>>
    PROVE  [Outbox!OutboxNext]_Outbox!outboxVars
<1>1. Life' = Life /\ Flying' = Flying \ {d} /\ Announced' = Announced
  BY FlyingDoes DEF SentInv, Life, Announced
<1>2. CASE d \in Flying
  BY <1>1, <1>2 DEF Outbox!Fail, Outbox!OutboxNext
<1>3. CASE d \notin Flying
  BY <1>1, <1>3, OutboxStutters
<1> QED BY <1>2, <1>3

LEMMA OutboxDeparts ==
    ASSUME SentInv, NEW d \in Deliveries, ValidateSource(d)
    PROVE  [Outbox!OutboxNext]_Outbox!outboxVars
<1>1. UNCHANGED <<row, federated, pub, accepted, finished, seen>> /\ worker[d] = "started"
  BY DEF ValidateSource, deleteVars
<1>2. CASE Kind(d) = "Create" /\ ~row
  <2>1. worker' = [worker EXCEPT ![d] = "none"]
    BY <1>2 DEF ValidateSource, Acknowledge, Advance
  <2> QED BY <1>1, <2>1, OutboxFails
<1>3. CASE ~(Kind(d) = "Create" /\ ~row)
  <2>1. worker' = [worker EXCEPT ![d] = "checked"]
    BY <1>3 DEF ValidateSource, Advance
  <2>2. Life' = Life /\ Flying' = Flying \cup {d} /\ Announced' = Announced /\ d \notin Flying
    BY <1>1, <2>1, FlyingDoes DEF SentInv, Life, Announced, Flying
  <2>3. pub[Kind(d)] # "none" /\ pub["Create"] # "none"
    BY <1>1 DEF SentInv, LifeInv, MarkedInv, Unposted
  <2>4. Life # "none" /\ (d \in Carrying("Create") => Life = "there")
    BY <1>3, <2>3 DEF Life, Carrying
  <2>5. d \in Carrying("Delete") => Life = "gone" /\ Announced
    BY <2>3 DEF Carrying, Announced, Life, SentInv, TypeInv, AttemptsInv, LifeInv
  <2>6. Prunes \/ d \notin finished
    BY <1>1 DEF SentInv, FinishedInv
  <2> QED BY <1>1, <2>2, <2>4, <2>5, <2>6 DEF Outbox!Depart, Outbox!OutboxNext
<1> QED BY <1>2, <1>3

LEMMA OutboxLands ==
    ASSUME SentInv, NEW d \in Deliveries, Accept(d)
    PROVE  Outbox!OutboxNext
<1>1. UNCHANGED <<row, federated, pub, finished, seen>> /\ worker' = [worker EXCEPT ![d] = "accepted"]
  BY DEF Accept, Advance, deleteVars
<1>2. Flying' = Flying \ {d}
  <2>1. Flying' = IF "accepted" = "checked" THEN Flying \cup {d} ELSE Flying \ {d}
    BY <1>1, FlyingDoes, Zenon DEF SentInv
  <2> QED BY <2>1
<1>3. Life' = Life /\ Announced' = Announced /\ d \in Flying
  BY <1>1 DEF Accept, Life, Announced, Flying
<1> QED BY <1>1, <1>2, <1>3 DEF Accept, Outbox!Land, Outbox!OutboxNext

\* The flag is written for a delivery that a peer has answered.
LEMMA OutboxMarks ==
    ASSUME SentInv, NEW d \in Deliveries, MarkDelivered(d)
    PROVE  [Outbox!OutboxNext]_Outbox!outboxVars
<1>1. UNCHANGED <<row, pub, accepted, finished, seen>> /\ worker' = [worker EXCEPT ![d] = "marked"]
  BY DEF MarkDelivered, Advance, deleteVars
<1>2. Life' = Life /\ Flying' = Flying /\ Announced' = Announced
  BY <1>1, FlyingDoes DEF MarkDelivered, SentInv, Life, Announced, Flying
<1>3. CASE federated' = federated
  BY <1>1, <1>2, <1>3, OutboxStutters
<1>4. CASE federated' # federated
  <2>1. federated' /\ Kind(d) # "Delete" /\ row /\ d \in accepted
    BY <1>4 DEF MarkDelivered, SentInv, TypeInv, TypeOK, AcceptInv
  <2>2. Life = "there" /\ accepted \ Carrying("Delete") # {}
    BY <2>1 DEF Life, Carrying
  <2> QED BY <1>1, <1>2, <2>1, <2>2 DEF Outbox!Mark, Outbox!OutboxNext
<1> QED BY <1>3, <1>4

LEMMA OutboxSettles ==
    ASSUME SentInv, NEW d \in Deliveries, CompleteDelivery(d)
    PROVE  [Outbox!OutboxNext]_Outbox!outboxVars
<1>1. /\ UNCHANGED <<row, federated, pub, accepted, seen>>
      /\ worker[d] = "marked" /\ worker' = [worker EXCEPT ![d] = "none"]
  BY DEF CompleteDelivery, Acknowledge, Advance, deleteVars
<1>2. Life' = Life /\ Flying' = Flying /\ Announced' = Announced
  BY <1>1, FlyingDoes DEF SentInv, Life, Announced, Flying
<1>3. CASE finished' = finished
  BY <1>1, <1>2, <1>3, OutboxStutters
<1>4. CASE finished' = finished \cup {d}
  <2>1. d \in accepted /\ (Kind(d) # "Delete" /\ row => federated)
    BY <1>1 DEF SentInv, AcceptInv, MarkedInv
  <2>2. Life = "there" /\ d \notin Carrying("Delete") => federated
    BY <2>1 DEF Life, Carrying
  <2> QED BY <1>1, <1>2, <1>4, <2>1, <2>2 DEF Outbox!Settle, Outbox!OutboxNext
<1> QED BY <1>3, <1>4 DEF CompleteDelivery

LEMMA OutboxDeliver ==
    ASSUME SentInv, NEW d \in Deliveries, Deliver(d)
    PROVE  [Outbox!OutboxNext]_Outbox!outboxVars
<1>1. CASE StartDelivery(d)
  <2>1. UNCHANGED <<row, federated, pub, accepted, finished, seen>> /\ worker' = [worker EXCEPT ![d] = "started"]
    BY <1>1 DEF StartDelivery, Advance, deleteVars
  <2> QED BY <2>1, OutboxFails
<1>2. CASE Snooze(d) \/ Refuse(d) \/ DeliveryFails(d) \/ Kill(d)
  <2>1. UNCHANGED <<row, federated, pub, accepted, finished, seen>> /\ worker' = [worker EXCEPT ![d] = "none"]
    BY <1>2 DEF Snooze, Refuse, DeliveryFails, Kill, Acknowledge, Advance, deleteVars
  <2> QED BY <2>1, OutboxFails
<1>3. CASE RescueDelivery(d) \/ Prune(d)
  <2>1. UNCHANGED <<row, federated, pub, worker, accepted, finished, seen>>
    BY <1>3 DEF RescueDelivery, Prune, deleteVars
  <2>2. Life' = Life /\ Flying' = Flying /\ Announced' = Announced
    BY <2>1 DEF Life, Flying, Announced
  <2> QED BY <2>1, <2>2, OutboxStutters
<1> QED
  BY <1>1, <1>2, <1>3, OutboxDeparts, OutboxLands, OutboxMarks, OutboxSettles DEF Deliver

\* Whatever the jobs, the delete and the node do is a step of Outbox or none.
THEOREM OutboxKeptCorrect == Spec => OutboxKept
<1>1. Init => Outbox!OutboxInit
  BY DEF Init, Life, Flying, Announced, Kinds, Outbox!OutboxInit
<1>2. SentInv /\ [Next]_vars => [Outbox!OutboxNext]_Outbox!outboxVars
  <2> SUFFICES ASSUME SentInv, [Next]_vars
               PROVE  [Outbox!OutboxNext]_Outbox!outboxVars
    OBVIOUS
  <2>1. CASE Next /\ ~\E i \in Fetchers : Fetch(i)
    BY <2>1, OutboxUser, OutboxPublish, OutboxDeliver DEF Next
  <2>2. CASE UNCHANGED restVars
    <3>1. Life' = Life /\ Flying' = Flying /\ Announced' = Announced
      BY <2>2 DEF restVars, jobVars, Life, Flying, Announced
    <3> QED BY <2>2, <3>1, OutboxStutters DEF restVars, deleteVars
  <2> QED BY <2>1, <2>2, RestStays
<1> QED BY <1>1, <1>2, SentCorrect, PTL DEF Spec, OutboxKept, Outbox!OutboxSpec
=============================================================================
