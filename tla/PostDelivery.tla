---------------------------- MODULE PostDelivery ----------------------------
(***************************************************************************)
(* The outgoing life of one local post: the jobs of PublisherWorker that   *)
(* carry its Create, an Update and its Delete to the inboxes of its        *)
(* audience, and CommonAPI.delete, which runs beside them.                 *)
(*                                                                         *)
(* A "publish" job fans one activity out into one "publish_one" job per    *)
(* inbox (a delivery).  Jobs are rows of Oban's table; a row is executing  *)
(* while a worker process runs it, and orphaned when the node died with    *)
(* it.  The database row of the Create carries the flag `federated`: some  *)
(* peer has accepted the post.  A transaction is one step; everything      *)
(* between two queries or requests can interleave.                         *)
(***************************************************************************)
EXTENDS Naturals, FiniteSets

CONSTANTS
    Inboxes,        \* inboxes of the audience that are not dormant
    Fetchers,       \* those of actors who may fetch the post, and follow nobody
    Marks,          \* unreachable_since a delivery job may be given
    Up,             \* unreachable_since: nil
    Refusing,       \* inboxes that may answer with a terminal status
    MaxAttempts,    \* [:workers, :retries, :federator_outgoing]
    LongBackoff,    \* attempt after which a retry waits longer than max_age
    Prunes,         \* does the Pruner remove finished jobs? (max_age: 900)
    Edits,          \* bound: is the post edited, once, or never?
    MaxFailures,    \* bound: failed or snoozed executions
    MaxCrashes      \* bound: crashes of the node

ASSUME InboxesAssumption == Fetchers \subseteq Inboxes /\ Refusing \subseteq Inboxes
ASSUME MarksAssumption == Up \in Marks
ASSUME AttemptsAssumption == MaxAttempts \in Nat \ {0} /\ LongBackoff \in Nat
ASSUME SwitchAssumption == Prunes \in BOOLEAN /\ Edits \in BOOLEAN
ASSUME BoundsAssumption == MaxFailures \in Nat /\ MaxCrashes \in Nat

Kinds == {"Create", "Update", "Delete"}

\* The params of a delivery job: the activity, the inbox, and what was known
\* of the host when the job was inserted.
Deliveries == Kinds \X Inboxes \X Marks
Kind(d) == d[1]
Inbox(d) == d[2]
Mark(d) == d[3]

VARIABLES
    row,        \* is the Create activity in the database?
    federated,  \* its column `federated`
    pub,        \* state of each publish job
    pubTries,   \* its attempt
    todo,       \* inboxes a running publish job has still to insert jobs for
    job,        \* state of each delivery job
    tries,      \* its attempt
    worker,     \* how far the process running it has come
    accepted,   \* deliveries a peer has answered with 2xx
    finished,   \* deliveries whose job has been recorded as completed (history)
    known,      \* fetchers with a row in the table deliveries
    fetched,    \* fetchers that ever had one (history)
    dpc,        \* where CommonAPI.delete is
    seen,       \* `federated` of the activity it loaded
    failures, crashes

jobVars == <<pub, pubTries, todo, job, tries, worker>>
fetchVars == <<known, fetched>>
deleteVars == <<dpc, seen>>
bounds == <<failures, crashes>>
vars == <<row, federated, jobVars, accepted, finished, fetchVars, deleteVars, bounds>>

Waiting == {"available", "retryable"}
Incomplete == Waiting \cup {"executing", "orphaned"}
Ended == {"completed", "cancelled", "discarded"}
JobStates == {"none"} \cup Incomplete \cup Ended
Working == {"started", "checked", "accepted", "marked"}

TypeOK ==
    /\ row \in BOOLEAN /\ federated \in BOOLEAN /\ seen \in BOOLEAN
    /\ pub \in [Kinds -> JobStates]
    /\ pubTries \in [Kinds -> 0..MaxAttempts]
    /\ todo \in [Kinds -> SUBSET Inboxes]
    /\ job \in [Deliveries -> JobStates]
    /\ tries \in [Deliveries -> 0..MaxAttempts]
    /\ worker \in [Deliveries -> {"none"} \cup Working]
    /\ accepted \in SUBSET Deliveries /\ finished \in SUBSET Deliveries
    /\ known \subseteq Fetchers /\ fetched \subseteq Fetchers
    /\ dpc \in {"none", "found", "cancelled", "deleted"}
    /\ failures \in 0..MaxFailures /\ crashes \in 0..MaxCrashes

Init ==
    /\ row = FALSE /\ federated = FALSE
    /\ pub = [k \in Kinds |-> "none"]
    /\ pubTries = [k \in Kinds |-> 0]
    /\ todo = [k \in Kinds |-> {}]
    /\ job = [d \in Deliveries |-> "none"]
    /\ tries = [d \in Deliveries |-> 0]
    /\ worker = [d \in Deliveries |-> "none"]
    /\ accepted = {} /\ finished = {}
    /\ known = {} /\ fetched = {}
    /\ dpc = "none" /\ seen = FALSE
    /\ failures = 0 /\ crashes = 0

(***************************************************************************)
(* The user: the activity and its publish job are one transaction.         *)
(***************************************************************************)

Post ==
    /\ pub["Create"] = "none"
    /\ row' = TRUE
    /\ pub' = [pub EXCEPT !["Create"] = "available"]
    /\ UNCHANGED <<federated, pubTries, todo, job, tries, worker, accepted, finished, fetchVars, deleteVars, bounds>>

\* CommonAPI.update.
Edit ==
    /\ Edits /\ row /\ pub["Update"] = "none"
    /\ pub' = [pub EXCEPT !["Update"] = "available"]
    /\ UNCHANGED <<row, federated, pubTries, todo, job, tries, worker, accepted, finished, fetchVars, deleteVars, bounds>>

\* track_object_fetch: a peer's signed request for the post.
Fetch(i) ==
    /\ row /\ i \in Fetchers \ known
    /\ known' = known \cup {i} /\ fetched' = fetched \cup {i}
    /\ UNCHANGED <<row, federated, jobVars, accepted, finished, deleteVars, bounds>>

(***************************************************************************)
(* CommonAPI.delete                                                        *)
(***************************************************************************)

\* Activity.get_by_id: what it decides later, it decides from this copy.
FindPost ==
    /\ dpc = "none" /\ row
    /\ dpc' = "found" /\ seen' = federated
    /\ UNCHANGED <<row, federated, jobVars, accepted, finished, fetchVars, bounds>>

\* maybe_cancel_jobs: only deliveries that carry the Create's id.  The rows
\* change at once; a process that runs one is told to exit (Kill).
CancelJobs ==
    /\ dpc = "found" /\ dpc' = "cancelled"
    /\ job' = [d \in Deliveries |->
                  IF Kind(d) = "Create" /\ job[d] \in Incomplete THEN "cancelled" ELSE job[d]]
    /\ UNCHANGED <<row, federated, pub, pubTries, todo, tries, worker, accepted, finished, fetchVars, seen, bounds>>

\* common_pipeline with delete_pipeline_opts: the side effects remove the
\* activities of the object; the Delete is federated unless the loaded
\* activity said that no peer had accepted the post.
DeletePost ==
    /\ dpc = "cancelled" /\ dpc' = "deleted"
    /\ row' = FALSE /\ federated' = FALSE
    /\ pub' = IF seen THEN [pub EXCEPT !["Delete"] = "available"] ELSE pub
    /\ UNCHANGED <<pubTries, todo, job, tries, worker, accepted, finished, fetchVars, seen, bounds>>

\* An error before the transaction commits.  The user may try again.
DeleteFails ==
    /\ dpc \in {"found", "cancelled"}
    /\ dpc' = "none" /\ seen' = FALSE
    /\ UNCHANGED <<row, federated, jobVars, accepted, finished, fetchVars, bounds>>

(***************************************************************************)
(* A publish job                                                           *)
(***************************************************************************)

\* recipients: followers and mentioned users, for a Delete also those who
\* fetched the post.
Audience(k) == (Inboxes \ Fetchers) \cup (IF k = "Delete" THEN known ELSE {})

\* fetch_activity: the rows of the Create and the Update go together, the
\* Delete's stays.  The recipients of a Delete are read from rows of the table
\* deliveries, which are removed in doing so, before any job is inserted.
StartPublish(k) ==
    /\ pub[k] \in Waiting
    /\ pubTries' = [pubTries EXCEPT ![k] = @ + 1]
    /\ IF k # "Delete" /\ ~row
       THEN pub' = [pub EXCEPT ![k] = "cancelled"] /\ UNCHANGED <<todo, known>>
       ELSE /\ pub' = [pub EXCEPT ![k] = "executing"]
            /\ todo' = [todo EXCEPT ![k] = Audience(k)]
            /\ known' = IF k = "Delete" THEN {} ELSE known
    /\ UNCHANGED <<row, federated, job, tries, worker, accepted, finished, fetched, deleteVars, bounds>>

\* The unique option of enqueue_one: states that keep out a second job with
\* the same params.
Insert(d) == [job EXCEPT ![d] = IF @ \in Incomplete \cup {"completed"} THEN @ ELSE "available"]

\* enqueue_delivery.  A cancelled job's process is gone before a retry of the
\* publish job comes to its inbox: 10 s at most against a backoff of 16 s.
EnqueueDelivery(k) ==
    /\ pub[k] = "executing"
    /\ \E i \in todo[k], m \in Marks :
        LET d == <<k, i, m>>
        IN  /\ job[d] \in {"none"} \cup Ended => worker[d] = "none"
            /\ todo' = [todo EXCEPT ![k] = @ \ {i}]
            /\ job' = Insert(d)
            /\ tries' = [tries EXCEPT ![d] = IF job'[d] = job[d] THEN @ ELSE 0]
    /\ UNCHANGED <<row, federated, pub, pubTries, worker, accepted, finished, fetchVars, deleteVars, bounds>>

\* mutant: the insertions that failed are not noticed
MutFinishPublish(k) ==
    /\ pub[k] = "executing"
    /\ pub' = [pub EXCEPT ![k] = "completed"]
    /\ UNCHANGED <<row, federated, pubTries, todo, job, tries, worker, accepted, finished, fetchVars, deleteVars, bounds>>

FinishPublish(k) ==
    /\ pub[k] = "executing" /\ todo[k] = {}
    /\ pub' = [pub EXCEPT ![k] = "completed"]
    /\ UNCHANGED <<row, federated, pubTries, todo, job, tries, worker, accepted, finished, fetchVars, deleteVars, bounds>>

AfterFailure(attempt) == IF attempt < MaxAttempts THEN "retryable" ELSE "discarded"

\* An insertion failed, the relay failed, or the job ran into its timeout.
PublishFails(k) ==
    /\ pub[k] = "executing" /\ failures < MaxFailures
    /\ failures' = failures + 1
    /\ pub' = [pub EXCEPT ![k] = AfterFailure(pubTries[k])]
    /\ todo' = [todo EXCEPT ![k] = {}]
    /\ UNCHANGED <<row, federated, pubTries, job, tries, worker, accepted, finished, fetchVars, deleteVars, crashes>>

(***************************************************************************)
(* A delivery job                                                          *)
(***************************************************************************)

Advance(d, step) == worker' = [worker EXCEPT ![d] = step]

\* Oban records the result.  Whether a job cancelled meanwhile stays so is the
\* library's choice.
Acknowledge(d, result) ==
    /\ Advance(d, "none")
    /\ \/ job' = [job EXCEPT ![d] = result]
       \/ job[d] = "cancelled" /\ UNCHANGED job

MutStartDelivery(d) ==
    /\ job[d] \in Waiting
    /\ job' = [job EXCEPT ![d] = "executing"]
    /\ Advance(d, "started")
    /\ UNCHANGED <<row, federated, pub, pubTries, todo, tries, accepted, finished, fetchVars, deleteVars, bounds>>

StartDelivery(d) ==
    /\ job[d] \in Waiting
    /\ job' = [job EXCEPT ![d] = "executing"]
    /\ tries' = [tries EXCEPT ![d] = @ + 1]
    /\ Advance(d, "started")
    /\ UNCHANGED <<row, federated, pub, pubTries, todo, accepted, finished, fetchVars, deleteVars, bounds>>

MutValidateSource(d) ==
    /\ worker[d] = "started"
    /\ Advance(d, "checked")
    /\ UNCHANGED <<row, federated, pub, pubTries, todo, job, tries, accepted, finished, fetchVars, deleteVars, bounds>>

\* validate_source_activity: only a Create is checked against the database.
ValidateSource(d) ==
    /\ worker[d] = "started"
    /\ IF Kind(d) = "Create" /\ ~row THEN Acknowledge(d, "cancelled")
       ELSE Advance(d, "checked") /\ UNCHANGED job
    /\ UNCHANGED <<row, federated, pub, pubTries, todo, tries, accepted, finished, fetchVars, deleteVars, bounds>>

\* The host is in its backoff, or the connection pool is full: not an attempt.
Snooze(d) ==
    /\ worker[d] = "checked" /\ failures < MaxFailures
    /\ failures' = failures + 1
    /\ Acknowledge(d, "available")
    /\ tries' = [tries EXCEPT ![d] = @ - 1]
    /\ UNCHANGED <<row, federated, pub, pubTries, todo, accepted, finished, fetchVars, deleteVars, crashes>>

\* A terminal status or a dormant host; a transport error, when the host was
\* known to be unreachable.
Refuse(d) ==
    /\ worker[d] = "checked" /\ (Inbox(d) \in Refusing \/ Mark(d) # Up)
    /\ Acknowledge(d, "cancelled")
    /\ UNCHANGED <<row, federated, pub, pubTries, todo, tries, accepted, finished, fetchVars, deleteVars, bounds>>

\* The peer takes the activity.  DeliveryFails after this is an answer that
\* was lost, or an error when it was recorded.
Accept(d) ==
    /\ worker[d] = "checked"
    /\ accepted' = accepted \cup {d}
    /\ Advance(d, "accepted")
    /\ UNCHANGED <<row, federated, pub, pubTries, todo, job, tries, finished, fetchVars, deleteVars, bounds>>

MutMarkDelivered(d) ==
    /\ worker[d] = "accepted"
    /\ federated' = (federated \/ (Kind(d) = "Create" /\ row))
    /\ Advance(d, "marked")
    /\ UNCHANGED <<row, pub, pubTries, todo, job, tries, accepted, finished, fetchVars, deleteVars, bounds>>

\* mark_successful_delivery; an UPDATE that finds no row changes nothing.
MarkDelivered(d) ==
    /\ worker[d] = "accepted"
    /\ federated' = (federated \/ (Kind(d) # "Delete" /\ row))
    /\ Advance(d, "marked")
    /\ UNCHANGED <<row, pub, pubTries, todo, job, tries, accepted, finished, fetchVars, deleteVars, bounds>>

\* mutant: the job is acknowledged before the flag is written
MutCompleteDelivery(d) ==
    /\ worker[d] \in {"accepted", "marked"}
    /\ Acknowledge(d, "completed")
    /\ finished' = IF job'[d] = "completed" THEN finished \cup {d} ELSE finished
    /\ UNCHANGED <<row, federated, pub, pubTries, todo, tries, accepted, fetchVars, deleteVars, bounds>>

CompleteDelivery(d) ==
    /\ worker[d] = "marked"
    /\ Acknowledge(d, "completed")
    /\ finished' = IF job'[d] = "completed" THEN finished \cup {d} ELSE finished
    /\ UNCHANGED <<row, federated, pub, pubTries, todo, tries, accepted, fetchVars, deleteVars, bounds>>

MutDeliveryFails(d) ==
    /\ worker[d] # "none" /\ failures < MaxFailures
    /\ failures' = failures + 1
    /\ Acknowledge(d, "discarded")
    /\ UNCHANGED <<row, federated, pub, pubTries, todo, tries, accepted, finished, fetchVars, deleteVars, crashes>>

\* Another status, a transport error, an exception or the job's timeout.
DeliveryFails(d) ==
    /\ worker[d] # "none" /\ failures < MaxFailures
    /\ failures' = failures + 1
    /\ Acknowledge(d, AfterFailure(tries[d]))
    /\ UNCHANGED <<row, federated, pub, pubTries, todo, tries, accepted, finished, fetchVars, deleteVars, crashes>>

(***************************************************************************)
(* Oban and the node                                                       *)
(***************************************************************************)

\* The process of a cancelled job exits, wherever it is.
Kill(d) ==
    /\ job[d] = "cancelled" /\ worker[d] # "none"
    /\ Advance(d, "none")
    /\ UNCHANGED <<row, federated, pub, pubTries, todo, job, tries, accepted, finished, fetchVars, deleteVars, bounds>>

Orphan(state) == IF state = "executing" THEN "orphaned" ELSE state

\* The node stops: no process is left, the tables are.
Crash ==
    /\ crashes < MaxCrashes /\ crashes' = crashes + 1
    /\ pub' = [k \in Kinds |-> Orphan(pub[k])]
    /\ todo' = [k \in Kinds |-> {}]
    /\ job' = [d \in Deliveries |-> Orphan(job[d])]
    /\ worker' = [d \in Deliveries |-> "none"]
    /\ dpc' = IF dpc = "deleted" THEN dpc ELSE "none"
    /\ seen' = (seen /\ dpc = "deleted")
    /\ UNCHANGED <<row, federated, pubTries, tries, accepted, finished, fetchVars, failures>>

AfterRescue(attempt) == IF attempt < MaxAttempts THEN "available" ELSE "discarded"

\* Oban.Plugins.Lifeline, an hour after the attempt started.
RescuePublish(k) ==
    /\ pub[k] = "orphaned"
    /\ pub' = [pub EXCEPT ![k] = AfterRescue(pubTries[k])]
    /\ UNCHANGED <<row, federated, pubTries, todo, job, tries, worker, accepted, finished, fetchVars, deleteVars, bounds>>

RescueDelivery(d) ==
    /\ job[d] = "orphaned"
    /\ job' = [job EXCEPT ![d] = AfterRescue(tries[d])]
    /\ UNCHANGED <<row, federated, pub, pubTries, todo, tries, worker, accepted, finished, fetchVars, deleteVars, bounds>>

\* Oban.Plugins.Pruner removes a job that ended max_age ago.  It matters while
\* the publish job waits longer than that: for Lifeline, or for a late retry.
Prune(d) ==
    /\ Prunes
    /\ job[d] \in Ended /\ worker[d] = "none"
    /\ \/ pub[Kind(d)] = "orphaned"
       \/ pub[Kind(d)] = "retryable" /\ pubTries[Kind(d)] >= LongBackoff
    /\ job' = [job EXCEPT ![d] = "none"]
    /\ UNCHANGED <<row, federated, pub, pubTries, todo, tries, worker, accepted, finished, fetchVars, deleteVars, bounds>>

-----------------------------------------------------------------------------
Delete == FindPost \/ CancelJobs \/ DeletePost \/ DeleteFails

Publish(k) ==
    \/ StartPublish(k) \/ EnqueueDelivery(k) \/ FinishPublish(k) \/ PublishFails(k)
    \/ RescuePublish(k)

Deliver(d) ==
    \/ StartDelivery(d) \/ ValidateSource(d) \/ Snooze(d) \/ Refuse(d) \/ Accept(d)
    \/ MarkDelivered(d) \/ CompleteDelivery(d) \/ DeliveryFails(d) \/ Kill(d)
    \/ RescueDelivery(d) \/ Prune(d)

Next ==
    \/ Post \/ Edit \/ Delete \/ Crash
    \/ \E i \in Fetchers : Fetch(i)
    \/ \E k \in Kinds : Publish(k)
    \/ \E d \in Deliveries : Deliver(d)

Spec == Init /\ [][Next]_vars

(***************************************************************************)
(* Fairness: Oban runs what is due, a running job goes on, a peer answers, *)
(* Lifeline runs.  Nobody has to post, edit or delete, and nothing has to  *)
(* fail.                                                                   *)
(***************************************************************************)
Fairness ==
    /\ \A k \in Kinds :
        /\ WF_vars(StartPublish(k)) /\ WF_vars(EnqueueDelivery(k) \/ FinishPublish(k))
        /\ WF_vars(RescuePublish(k))
    /\ \A d \in Deliveries :
        /\ WF_vars(StartDelivery(d)) /\ WF_vars(ValidateSource(d))
        /\ WF_vars(Accept(d) \/ Refuse(d)) /\ WF_vars(MarkDelivered(d))
        /\ WF_vars(CompleteDelivery(d)) /\ WF_vars(Kill(d)) /\ WF_vars(RescueDelivery(d))

FairSpec == Spec /\ Fairness

(***************************************************************************)
(* Properties                                                              *)
(***************************************************************************)

\* Some peer has the post: it accepted the Create, or an Update instead.
PostAccepted == \E d \in accepted : Kind(d) # "Delete"

\* A post no peer accepted is deleted in silence (delete_pipeline_opts): the
\* flag, the copy the delete works with and the Delete's own job each mean
\* that a peer has answered with 2xx.
DeleteOnlyAfterAccept ==
    federated \/ seen \/ pub["Delete"] # "none" => PostAccepted

\* Once a delivery of the post is completed the flag is set for as long as the
\* post exists, so a delete that loads it from then on is federated, also
\* when the peers know the post only by an Update (mark_object_federated).
FinishedIsMarked ==
    row /\ (\E d \in finished : Kind(d) # "Delete") => federated

\* The post is gone and no process is between its check of the database and
\* its request.
Quiet ==
    /\ ~row /\ pub["Create"] # "none"
    /\ \A d \in Deliveries : Kind(d) = "Create" => worker[d] # "checked"

\* From then on no Create leaves, whatever jobs the fan-out inserted after the
\* delete cancelled those it found, and whatever is retried or rescued
\* (validate_source_activity).
NoLateCreate ==
    [][Quiet => /\ Quiet'
                /\ \A d \in accepted' \ accepted : Kind(d) # "Create"]_vars

\* However often the publish job is retried, an inbox whose delivery was
\* completed gets no second one ("the unique delivery jobs prevent
\* already-inserted work from being duplicated", at maybe_publish_relay).  The
\* Pruner forgets finished jobs long before their uniqueness ends.
DeliveredOnce ==
    [][\A c \in finished, d \in Deliveries :
        Kind(c) = Kind(d) /\ Inbox(c) = Inbox(d) /\ job'[d] = "available" =>
            job[d] \in Incomplete]_vars

\* A peer that has the post and is on the Delete's list is sent the Delete: at
\* the end of a deletion the post is known to nobody or its Delete is a job.
DeleteFollowsAccept ==
    dpc = "deleted" /\ PostAccepted => pub["Delete"] # "none"

\* What Outbox sees of the post and of the processes of its jobs.
Life == IF row THEN "there" ELSE IF pub["Create"] = "none" THEN "none" ELSE "gone"
Flying == {d \in Deliveries : worker[d] = "checked"}
Announced == pub["Delete"] # "none"
Carrying(k) == {d \in Deliveries : Kind(d) = k}

Outbox == INSTANCE Outbox WITH
    Creates <- Carrying("Create"),
    Deletes <- Carrying("Delete"),
    Forgets <- Prunes,
    life <- Life,
    flying <- Flying, landed <- accepted, settled <- finished,
    marked <- federated, announced <- Announced

\* Jobs that are retried, rescued, cancelled and killed, beside an edit, a
\* delete and crashes of the node, do nothing that Outbox does not allow: each
\* request that leaves, each mark and each Delete has its cause.
OutboxKept == Outbox!OutboxSpec

\* A delivery that will not be tried again: its Create was cancelled with the
\* post, or the host refuses or was known to be unreachable.
GivenUp(d) ==
    job[d] = "cancelled" /\ (Kind(d) = "Create" \/ Inbox(d) \in Refusing \/ Mark(d) # Up)

\* A delivery that waits, is under way with a process, or has ended as it may.
Accounted(d) ==
    \/ job[d] \in Waiting \cup {"orphaned"}
    \/ job[d] = "executing" /\ worker[d] # "none"
    \/ job[d] = "completed" /\ d \in accepted
    \/ job[d] = "discarded" /\ tries[d] = MaxAttempts
    \/ GivenUp(d)

\* The inboxes a fan-out has on its list: those of followers whenever it has
\* to start again, those of fetchers only when a Delete's starts for the first
\* time.
Listed(k) == (Inboxes \ Fetchers) \cup (IF k = "Delete" /\ pubTries[k] = 1 THEN fetched ELSE {})

\* What EventuallyDelivered rests on: a listed inbox that the fan-out has passed
\* has a delivery that somebody will go on with, or that has ended for a
\* reason; neither a second fan-out, nor the unique option, nor the Pruner, nor
\* a process that died leaves it out.
NothingLost ==
    \A k \in Kinds : \A i \in Listed(k) :
        pub[k] = "completed" \/ (pub[k] = "executing" /\ i \notin todo[k]) =>
            \E d \in Deliveries : Kind(d) = k /\ Inbox(d) = i /\ Accounted(d)

\* Every activity that is federated reaches every follower's inbox through
\* failures, crashes and retries (fewer than MaxAttempts), unless it is given
\* up or the post is gone before the fan-out.  Nothing stops a Delete to a
\* follower whose host is up.
EventuallyDelivered ==
    \A k \in Kinds, i \in Inboxes \ Fetchers :
        pub[k] = "available" ~>
            \/ \E d \in Deliveries : Kind(d) = k /\ Inbox(d) = i /\ (d \in accepted \/ GivenUp(d))
            \/ pub[k] = "cancelled" /\ k # "Delete"
=============================================================================
