---------------------------- MODULE InstanceHealth ----------------------------
(***************************************************************************)
(* What the server believes about its peers: the rows of the table         *)
(* instances, which many processes read, change in memory and write back   *)
(* without a lock, the daily probe of hosts that are cut off, and the      *)
(* deliveries that are held back or dropped by it.  The snapshot of the    *)
(* table in memory is in InstanceCache; here a lookup through it either    *)
(* misses, or gives what the table says (Seen).                            *)
(*                                                                         *)
(* Dates are kept as the age class they are compared by: 0 is recent, 1    *)
(* beyond the timeout after which nothing is delivered any more (7 days),  *)
(* 2 beyond the one after which the host is dormant (183 days).            *)
(***************************************************************************)
EXTENDS Naturals

CONSTANTS
    Hosts,      \* peers
    Jobs,       \* delivery jobs, of the queue federator_outgoing
    Tasks,      \* other processes: fetches, source lists, inbox requests
    None        \* nil

Procs == Jobs \cup Tasks \cup Hosts  \* the probe of a host is named after it
Ages == 0..2
Declared == 3                   \* a silence that excuses any date

ASSUME ProcsAssumption ==
    Jobs \cap Tasks = {} /\ Jobs \cap Hosts = {} /\ Tasks \cap Hosts = {}
ASSUME NoneAssumption == None \notin Nat /\ None \notin Procs

VARIABLES
    row,        \* unreachable_since (us) and backoff (meta) of each host
    proc,       \* the processes
    job,        \* the reachability job of each host
    up,         \* the peer answers as it should
    silence     \* history: how long the host has had a date and no recorded
                \* success, or Declared

vars == <<row, proc, job, up, silence>>

NoRow == [us |-> None, meta |-> "absent"]
Rows == [us : Ages \cup {None}, meta : {"absent", "clear", "backoff"}]

Process(at, task, host, mark) ==
    [at |-> at, task |-> task, host |-> host, mark |-> mark, answer |-> "none", copy |-> NoRow]
Idle == Process("idle", "none", None, FALSE)

Processes ==
    [at : {"idle", "queued", "request", "upsert", "cancel", "declare", "demote", "read", "write"},
     task : {"none", "delivery", "fetch", "source", "inbox", "probe"},
     host : Hosts \cup {None}, mark : BOOLEAN,
     answer : {"none", "success", "failure", "gone"},
     copy : Rows]
JobStates == {"none", "selected", "available", "executing", "cancelled", "orphaned"}

TypeOK ==
    /\ row \in [Hosts -> Rows]
    /\ proc \in [Procs -> Processes]
    /\ job \in [Hosts -> JobStates]
    /\ up \in [Hosts -> BOOLEAN]
    /\ silence \in [Hosts -> 0..Declared]

Init ==
    /\ row = [h \in Hosts |-> NoRow]
    /\ proc = [p \in Procs |-> Idle]
    /\ job = [h \in Hosts |-> "none"]
    /\ up = [h \in Hosts |-> TRUE]
    /\ silence = [h \in Hosts |-> 0]

CutOff(us) == us # None /\ us >= 1
Dormant(us) == us # None /\ us >= 2

\* What filter_reachable, reachable? and dormant? may find for a host: one
\* that is missing from the snapshot counts as reachable, one that is there is
\* looked up in the table.
MutSeen(h) == {row[h].us, None, 1}
Seen(h) == {row[h].us, None}

At(p, place) == proc[p].at = place
Goto(p, place) == proc' = [proc EXCEPT ![p].at = place]
End(p) == proc' = [proc EXCEPT ![p] = Idle]
Become(p, at, answer, copy) ==
    proc' = [proc EXCEPT ![p] = [at |-> at, task |-> @.task, host |-> @.host, mark |-> @.mark,
                                 answer |-> answer, copy |-> copy]]
Record(p, answer) == Become(p, "read", answer, NoRow)
Launch(w, h, task, place) ==
    /\ At(w, "idle")
    /\ proc' = [proc EXCEPT ![w] = Process(place, task, h, FALSE)]

\* A job that failed is tried again later, or was tried often enough.
Requeued(p) == Process("queued", "delivery", proc[p].host, proc[p].mark)
Retry(p) == \E next \in {Requeued(p), Idle} : proc' = [proc EXCEPT ![p] = next]

\* The end of a process: the result of a delivery decides about a retry.
Finish(p, failed) ==
    /\ IF proc[p].task = "delivery" /\ failed THEN Retry(p) ELSE End(p)
    /\ job' = IF p \in Hosts THEN [job EXCEPT ![p] = "none"] ELSE job

(***************************************************************************)
(* Deliveries                                                              *)
(***************************************************************************)

\* Publisher.do_publish: no job for a host that is cut off; the others keep
\* whether the host had a date at that time.
Enqueue(w, h) ==
    /\ At(w, "idle")
    /\ \E us \in Seen(h) :
        /\ ~CutOff(us)
        /\ proc' = [proc EXCEPT ![w] = Process("queued", "delivery", h, us # None)]
    /\ UNCHANGED <<row, job, up, silence>>

\* validate_delivery_target: dropped, sent, or else held back until the
\* backoff ends, which leaves everything as it is.
Drop(w) ==
    /\ At(w, "queued")
    /\ \E us \in Seen(proc[w].host) : CutOff(us)
    /\ End(w)
    /\ UNCHANGED <<row, job, up, silence>>

Send(w) ==
    /\ At(w, "queued")
    /\ \E us \in Seen(proc[w].host) :
        us = None \/ (~CutOff(us) /\ row[proc[w].host].meta # "backoff")
    /\ Goto(w, "request")
    /\ UNCHANGED <<row, job, up, silence>>

\* publish_one: what is recorded depends on the answer and on the mark.
Posted(w) ==
    /\ At(w, "request")
    /\ LET u == up[proc[w].host] IN
        \/ u /\ proc[w].mark /\ Record(w, "success")
        \/ u /\ ~proc[w].mark /\ End(w)
        \/ ~u /\ ~proc[w].mark /\ Record(w, "failure")
        \/ ~u /\ proc[w].mark /\ Retry(w)
        \/ ~u /\ Record(w, "gone")
        \/ End(w)                                           \* another final status
        \/ proc' = [proc EXCEPT ![w] = Requeued(w)]         \* no connection free
    /\ UNCHANGED <<row, job, up, silence>>

\* The job's timeout, wherever it is.
TimeOut(w) ==
    /\ ~At(w, "idle") /\ ~At(w, "queued")
    /\ Retry(w)
    /\ UNCHANGED <<row, job, up, silence>>

(***************************************************************************)
(* Fetches of objects and of source lists, incoming activities             *)
(***************************************************************************)
Fetch(w, h) ==
    /\ \E us \in Seen(h) : ~Dormant(us)
    /\ Launch(w, h, "fetch", "request")
    /\ UNCHANGED <<row, job, up, silence>>

Fetched(w) ==
    /\ At(w, "request") /\ proc[w].task = "fetch"
    /\ LET h == proc[w].host IN
        \/ up[h] /\ (\E us \in Seen(h) : CutOff(us)) /\ Goto(w, "upsert")
        \/ up[h] /\ (\E us \in Seen(h) : ~CutOff(us)) /\ End(w)
        \/ ~up[h] /\ Record(w, "failure")
        \/ ~up[h] /\ End(w)                                \* not a transport error
    /\ UNCHANGED <<row, job, up, silence>>

SourceItems(w, h) ==
    /\ Launch(w, h, "source", "request")
    /\ UNCHANGED <<row, job, up, silence>>

\* source_items_fetch_json and the feeds: an unreadable list declares the
\* host consistently unreachable.
SourceFetched(w) ==
    /\ At(w, "request") /\ proc[w].task = "source"
    /\ IF up[proc[w].host] THEN Record(w, "success")
       ELSE Record(w, "gone") \/ Goto(w, "declare") \/ End(w)
    /\ UNCHANGED <<row, job, up, silence>>

\* A signed activity arrives.
Inbox(w, h) ==
    /\ Launch(w, h, "inbox", "upsert")
    /\ UNCHANGED <<row, job, up, silence>>

(***************************************************************************)
(* Recording: update_instance_health reads the row, computes the changes   *)
(* and writes those fields that differ from what was read                  *)
(***************************************************************************)
Read(p) ==
    /\ At(p, "read")
    /\ Become(p, "write", proc[p].answer, row[proc[p].host])
    /\ UNCHANGED <<row, job, up, silence>>

\* What the row is to become, by the copy.
NewSince(answer, us) ==
    CASE answer = "success" -> None
      [] answer = "failure" /\ us = None -> 0
      [] OTHER -> us
NewMeta(answer) == IF answer = "success" THEN "clear" ELSE "backoff"

\* The history variable, from the new row: a recorded success ends the
\* silence; a declaration counts until the date is cleared.
Noted(h, answer) ==
    silence' = [silence EXCEPT ![h] =
        IF answer = "success" /\ (@ # Declared \/ row'[h].us = None) THEN 0 ELSE @]

\* delivery_success_recorded?: nothing to write.
Unchanged(p) ==
    /\ At(p, "write") /\ proc[p].task = "delivery" /\ proc[p].answer = "success"
    /\ proc[p].copy = [us |-> None, meta |-> "clear"]
    /\ End(p)
    /\ UNCHANGED <<row, job, up, silence>>

MutUpdate(p) ==
    /\ At(p, "write") /\ proc[p].copy.meta # "absent"
    /\ LET h == proc[p].host
       IN  /\ row' = [row EXCEPT ![h] =
                    [us |-> NewSince(proc[p].answer, proc[p].copy.us),
                     meta |-> NewMeta(proc[p].answer)]]
           /\ Noted(h, proc[p].answer)
    /\ Finish(p, proc[p].answer = "failure")
    /\ UNCHANGED up
Update(p) ==
    /\ At(p, "write") /\ proc[p].copy.meta # "absent"
    /\ LET h == proc[p].host
           us == NewSince(proc[p].answer, proc[p].copy.us)
       IN  /\ row' = [row EXCEPT ![h] =
                    [us |-> IF us # proc[p].copy.us THEN us ELSE row[h].us,
                     meta |-> NewMeta(proc[p].answer)]]
           /\ Noted(h, proc[p].answer)
    /\ Finish(p, proc[p].answer = "failure")
    /\ UNCHANGED up

\* The row was not there: it is inserted, or another process has inserted it
\* since.  Then update_conflicting_instance casts the changes once more, and a
\* cleared date is not among them; whether Ecto takes the changeset of the
\* metadata as a parameter, or raises, is left open.
Insert(p) ==
    /\ At(p, "write") /\ proc[p].copy.meta = "absent"
    /\ LET h == proc[p].host
       IN  /\ row' = [row EXCEPT ![h] =
                    [us |-> IF proc[p].answer = "failure" THEN 0 ELSE row[h].us,
                     meta |-> NewMeta(proc[p].answer)]]
           /\ Noted(h, proc[p].answer)
    /\ Finish(p, proc[p].answer = "failure")
    /\ UNCHANGED up

ConflictRaises(p) ==
    /\ At(p, "write") /\ proc[p].copy.meta = "absent" /\ row[proc[p].host].meta # "absent"
    /\ Finish(p, TRUE)
    /\ UNCHANGED <<row, up, silence>>

\* The metadata of a row that is not there is empty.
Present(meta) == IF meta = "absent" THEN "clear" ELSE meta

\* set_unreachable with a date as old as the timeout.
Declare(p) ==
    /\ At(p, "declare")
    /\ Become(p, "demote", "none", row[proc[p].host])
    /\ UNCHANGED <<row, job, up, silence>>

Demote(p) ==
    /\ At(p, "demote")
    /\ LET h == proc[p].host
           lost == proc[p].copy.meta = "absent" /\ row[h].meta # "absent"
           kept == lost \/ CutOff(proc[p].copy.us)
       IN  /\ row' = IF kept THEN row
                     ELSE [row EXCEPT ![h] = [us |-> 1, meta |-> Present(@.meta)]]
           /\ silence' = IF kept THEN silence ELSE [silence EXCEPT ![h] = Declared]
           /\ IF lost THEN Become(p, "declare", "none", NoRow) ELSE Record(p, "failure")
    /\ UNCHANGED <<job, up>>

\* set_reachable: an upsert of the date alone, then the jobs of the host are
\* cancelled.
Upsert(w) ==
    /\ At(w, "upsert")
    /\ LET h == proc[w].host IN
        /\ row' = [row EXCEPT ![h] = [us |-> None, meta |-> Present(@.meta)]]
        /\ Noted(h, "success")
    /\ Goto(w, "cancel")
    /\ UNCHANGED <<job, up>>

CancelJobs(w) ==
    /\ At(w, "cancel")
    /\ job' = [job EXCEPT ![proc[w].host] =
                CASE @ \in {"executing", "cancelled"} -> "cancelled"
                  [] @ = "selected" -> "selected"
                  [] OTHER -> "none"]
    /\ End(w)
    /\ UNCHANGED <<row, up, silence>>

(***************************************************************************)
(* Probes                                                                  *)
(***************************************************************************)

\* schedule_reachability_checks: the rows are read, then the incomplete jobs,
\* which an orphaned one is among.
CronSelect(h) ==
    /\ CutOff(row[h].us) /\ row[h].meta # "backoff"
    /\ job[h] = "none" /\ job' = [job EXCEPT ![h] = "selected"]
    /\ UNCHANGED <<row, proc, up, silence>>

CronInsert(h) ==
    /\ job[h] = "selected" /\ job' = [job EXCEPT ![h] = "available"]
    /\ UNCHANGED <<row, proc, up, silence>>

\* discard_dormant_delivery_jobs: one statement, by the table.
DiscardDormant ==
    /\ \E w \in Jobs : At(w, "queued") /\ Dormant(row[proc[w].host].us)
    /\ proc' = [p \in Procs |->
                IF At(p, "queued") /\ Dormant(row[proc[p].host].us) THEN Idle ELSE proc[p]]
    /\ UNCHANGED <<row, job, up, silence>>

\* SignatureRetryWorker asks for a probe of a host that sent something.
AskProbe(h) ==
    /\ \E us \in Seen(h) : CutOff(us)
    /\ job[h] \in {"none", "selected"} /\ job' = [job EXCEPT ![h] = "available"]
    /\ UNCHANGED <<row, proc, up, silence>>

StartProbe(h) ==
    /\ job[h] = "available" /\ job' = [job EXCEPT ![h] = "executing"]
    /\ proc' = [proc EXCEPT ![h] = Process("request", "probe", h, FALSE)]
    /\ UNCHANGED <<row, up, silence>>

\* reachable?: a host that serves no NodeInfo may serve WebFinger.
Probed(h) ==
    /\ At(h, "request")
    /\ Record(h, "success") \/ (~up[h] /\ Record(h, "failure"))
    /\ UNCHANGED <<row, job, up, silence>>

\* The process of a cancelled job is killed some time later.
KillProbe(h) ==
    /\ job[h] = "cancelled" /\ job' = [job EXCEPT ![h] = "none"]
    /\ End(h)
    /\ UNCHANGED <<row, up, silence>>

\* Lifeline: a job of a node that is gone has no attempt left.
MutLifeline(h) ==
    /\ job[h] = "orphaned" /\ UNCHANGED vars
Lifeline(h) ==
    /\ job[h] = "orphaned" /\ job' = [job EXCEPT ![h] = "none"]
    /\ UNCHANGED <<row, proc, up, silence>>

(***************************************************************************)
(* Time, the peers, restarts                                               *)
(***************************************************************************)
MutOlder(a) == IF a \in Ages THEN a + 1 ELSE a
Older(a) == IF a \in {0, 1} THEN a + 1 ELSE a

\* The thresholds are days apart, the time between a read of a row and the
\* write that follows is seconds.
Tick ==
    /\ \A p \in Procs : ~At(p, "write") /\ ~At(p, "demote")
    /\ row' = [h \in Hosts |-> [us |-> Older(row[h].us), meta |-> row[h].meta]]
    /\ silence' = [h \in Hosts |-> IF row[h].us = None THEN silence[h] ELSE Older(silence[h])]
    /\ UNCHANGED <<proc, job, up>>

BackoffEnds(h) ==
    /\ row[h].meta = "backoff" /\ row' = [row EXCEPT ![h].meta = "clear"]
    /\ UNCHANGED <<proc, job, up, silence>>

Change(h) ==
    /\ up' = [up EXCEPT ![h] = ~@]
    /\ UNCHANGED <<row, proc, job, silence>>

Crash ==
    /\ proc' = [p \in Procs |-> IF proc[p].task = "delivery" THEN Requeued(p) ELSE Idle]
    /\ job' = [h \in Hosts |->
                CASE job[h] = "executing" -> "orphaned"
                  [] job[h] \in {"cancelled", "selected"} -> "none"
                  [] OTHER -> job[h]]
    /\ UNCHANGED <<row, up, silence>>

Recording(p) ==
    \/ Read(p) \/ Unchanged(p) \/ Update(p) \/ Insert(p) \/ ConflictRaises(p)
    \/ Declare(p) \/ Demote(p) \/ Upsert(p) \/ CancelJobs(p)
Delivering(w) == Drop(w) \/ Send(w) \/ Posted(w) \/ TimeOut(w)
Probing(h) == CronSelect(h) \/ CronInsert(h) \/ StartProbe(h) \/ Probed(h)
              \/ KillProbe(h) \/ Lifeline(h)

Next ==
    \/ \E w \in Jobs : Delivering(w) \/ \E h \in Hosts : Enqueue(w, h)
    \/ \E w \in Tasks : Fetched(w) \/ SourceFetched(w)
                        \/ \E h \in Hosts : Fetch(w, h) \/ SourceItems(w, h) \/ Inbox(w, h)
    \/ \E p \in Procs : Recording(p)
    \/ \E h \in Hosts : Probing(h) \/ AskProbe(h) \/ BackoffEnds(h) \/ Change(h)
    \/ DiscardDormant \/ Tick \/ Crash

Spec == Init /\ [][Next]_vars

\* The server's own steps happen, and time goes on; what peers and users do
\* is left to them.
Fairness ==
    /\ \A p \in Procs : WF_vars(Recording(p))
    /\ \A h \in Hosts : WF_vars(Probing(h)) /\ WF_vars(BackoffEnds(h))
    /\ SF_vars(Tick)
FairSpec == Spec /\ Fairness

(***************************************************************************)
(* Properties                                                              *)
(***************************************************************************)

\* However the reads and writes of deliveries, fetches, probes and incoming
\* activities interleave, a date in the table is never older than the time the
\* host has had one and no success was recorded, unless the host was declared
\* unreachable since: a cleared date does not come back.
CutOffNeedsSilence ==
    \A h \in Hosts : row[h].us # None => row[h].us <= silence[h]

\* A queued delivery is dropped for the health of its host only if the host has
\* had a date and no recorded success for 7 days, or was declared unreachable:
\* what the snapshot remembers does not decide it.
DroppedOnlyAfterSilence ==
    [][\A w \in Jobs :
        At(w, "queued") /\ proc'[w].at = "idle" => silence[proc[w].host] >= 1]_vars

\* A host that answers again is in the end reachable in the table and stays
\* so, even if nothing is sent to it or received from it, whatever became of
\* its backoff, its jobs and their processes.
Recovered ==
    <>[][~Crash]_vars =>
        \A h \in Hosts : <>[]up[h] => <>[](row[h].us = None)
=============================================================================
