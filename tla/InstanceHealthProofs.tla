------------------------- MODULE InstanceHealthProofs -------------------------
(***************************************************************************)
(* Types, and the two properties about dates, for any number of hosts and  *)
(* processes.  The invariant says of a process that is about to write a    *)
(* row it has read without a date that the row has at most a recent one,   *)
(* or was declared unreachable: what it has not seen cannot be old.        *)
(***************************************************************************)
EXTENDS InstanceHealth, TLAPS

\* One process r, by the rows and silences rw and si.
Good(r, rw, si) ==
    /\ r \in Processes
    /\ r.at = "idle" => r.task = "none"
    /\ r.at # "idle" => r.host \in Hosts
    /\ r.at = "queued" => r.task = "delivery"
    /\ r.copy.meta = "absent" => r.copy.us = None
    /\ r.at = "write" /\ r.copy.us = None =>
            rw[r.host].us \in {None, 0} \/ si[r.host] = Declared

\* One row v and its silence n.
Sound(v, n) ==
    /\ v \in Rows /\ n \in 0..Declared
    /\ v.meta = "absent" => v.us = None
    /\ v.us # None => v.us <= n

Inv ==
    /\ row \in [Hosts -> Rows] /\ silence \in [Hosts -> 0..Declared]
    /\ proc \in [Procs -> Processes]
    /\ job \in [Hosts -> JobStates] /\ up \in [Hosts -> BOOLEAN]
    /\ \A h \in Hosts : Sound(row[h], silence[h])
    /\ \A p \in Procs : Good(proc[p], row, silence)

LEMMA InvImplies == Inv => TypeOK /\ CutOffNeedsSilence
BY DEF Inv, TypeOK, CutOffNeedsSilence, Sound

LEMMA IdleGood == \A rw, si : Good(Idle, rw, si)
<1>1. NoRow \in Rows /\ NoRow.us = None
  BY DEF NoRow, Rows
<1>2. /\ Idle \in Processes /\ Idle.at = "idle" /\ Idle.task = "none"
      /\ Idle.copy.us = None
  BY <1>1 DEF Idle, Process, Processes
<1> QED
  BY <1>2 DEF Good

\* A process that was launched or put back into the queue.
LEMMA ProcessGood ==
    ASSUME NEW at \in {"queued", "request", "upsert"},
           NEW task \in {"delivery", "fetch", "source", "inbox", "probe"},
           at = "queued" => task = "delivery",
           NEW h \in Hosts, NEW mark \in BOOLEAN, NEW rw, NEW si
    PROVE  Good(Process(at, task, h, mark), rw, si)
<1>1. NoRow \in Rows /\ NoRow.us = None
  BY DEF NoRow, Rows
<1> DEFINE r == Process(at, task, h, mark)
<1>2. r.at = at /\ r.task = task /\ r.host = h /\ r.copy = NoRow
  BY DEF Process
<1>3. r \in Processes
  BY <1>1 DEF Process, Processes
<1> HIDE DEF r
<1>4. Good(r, rw, si)
  BY <1>1, <1>2, <1>3 DEF Good
<1> QED
  BY <1>4 DEF r

LEMMA InvInit == Init => Inv
<1> SUFFICES ASSUME Init PROVE Inv
  OBVIOUS
<1>1. NoRow \in Rows /\ NoRow.us = None
  BY DEF NoRow, Rows
<1>2. Idle \in Processes
  BY IdleGood DEF Good
<1>3. /\ row \in [Hosts -> Rows] /\ silence \in [Hosts -> 0..Declared]
      /\ proc \in [Procs -> Processes]
      /\ job \in [Hosts -> JobStates] /\ up \in [Hosts -> BOOLEAN]
  BY <1>1, <1>2 DEF Init, Declared, JobStates
<1>4. \A h \in Hosts : Sound(row[h], silence[h])
  <2> TAKE h \in Hosts
  <2>1. row[h] = NoRow /\ silence[h] = 0
    BY DEF Init
  <2>2. 0 \in 0..Declared
    BY DEF Declared
  <2> QED
    BY <1>1, <2>1, <2>2 DEF Sound
<1>5. \A p \in Procs : Good(proc[p], row, silence)
  BY IdleGood DEF Init
<1> QED
  BY <1>3, <1>4, <1>5 DEF Inv

\* Steps of one process that write no row.
LEMMA OneProcess ==
    ASSUME Inv, NEW p \in Procs, NEW r, Good(r, row, silence),
           proc' = [proc EXCEPT ![p] = r],
           UNCHANGED <<row, silence, up>>, job' \in [Hosts -> JobStates]
    PROVE  Inv'
<1>1. r \in Processes
  BY DEF Good
<1>2. \A q \in Procs : Good(proc'[q], row', silence')
  <2> TAKE q \in Procs
  <2>1. CASE q = p
    <3>1. proc'[q] = r
      BY <2>1 DEF Inv
    <3> QED
      BY <3>1
  <2>2. CASE q # p
    <3>1. proc'[q] = proc[q]
      BY <2>2 DEF Inv
    <3> QED
      BY <3>1 DEF Inv
  <2> QED
    BY <2>1, <2>2
<1> QED
  BY <1>1, <1>2 DEF Inv

\* Steps of one process that write the row of one host: they leave at most a
\* recent date where there was at most a recent one.
LEMMA RowWritten ==
    ASSUME Inv, NEW p \in Procs, NEW h \in Hosts, NEW v, NEW n, Sound(v, n),
           row' = [row EXCEPT ![h] = v], silence' = [silence EXCEPT ![h] = n],
           row[h].us \in {None, 0} \/ silence[h] = Declared
                => v.us \in {None, 0} \/ n = Declared,
           NEW r, Good(r, row', silence'), proc' = [proc EXCEPT ![p] = r],
           up' = up, job' \in [Hosts -> JobStates]
    PROVE  Inv'
<1>1. r \in Processes /\ v \in Rows /\ n \in 0..Declared
  BY DEF Good, Sound
<1>2. /\ row' \in [Hosts -> Rows] /\ silence' \in [Hosts -> 0..Declared]
      /\ proc' \in [Procs -> Processes]
  BY <1>1 DEF Inv
<1>3. \A k \in Hosts : Sound(row'[k], silence'[k])
  <2> TAKE k \in Hosts
  <2>1. CASE k = h
    <3>1. row'[k] = v /\ silence'[k] = n
      BY <2>1 DEF Inv
    <3> QED
      BY <3>1
  <2>2. CASE k # h
    <3>1. row'[k] = row[k] /\ silence'[k] = silence[k]
      BY <2>2 DEF Inv
    <3> QED
      BY <3>1 DEF Inv
  <2> QED
    BY <2>1, <2>2
<1>4. \A q \in Procs : Good(proc'[q], row', silence')
  <2> TAKE q \in Procs
  <2>1. CASE q = p
    <3>1. proc'[q] = r
      BY <2>1 DEF Inv
    <3> QED
      BY <3>1
  <2>2. CASE q # p
    <3>1. proc'[q] = proc[q] /\ Good(proc[q], row, silence)
      BY <2>2 DEF Inv
    <3>2. ASSUME proc[q].at = "write", proc[q].copy.us = None
          PROVE  row'[proc[q].host].us \in {None, 0} \/ silence'[proc[q].host] = Declared
      <4>1. proc[q].host \in Hosts
        BY <3>1, <3>2 DEF Good
      <4>2. row[proc[q].host].us \in {None, 0} \/ silence[proc[q].host] = Declared
        BY <3>1, <3>2 DEF Good
      <4>3. CASE proc[q].host = h
        <5>1. row'[h] = v /\ silence'[h] = n
          BY DEF Inv
        <5> QED
          BY <4>2, <4>3, <5>1
      <4>4. CASE proc[q].host # h
        BY <4>1, <4>2, <4>4 DEF Inv
      <4> QED
        BY <4>3, <4>4
    <3> QED
      BY <3>1, <3>2 DEF Good
  <2> QED
    BY <2>1, <2>2
<1> QED
  BY <1>2, <1>3, <1>4 DEF Inv

-----------------------------------------------------------------------------
\* The ways in which a process goes on without writing a row.

LEMMA EndKeeps ==
    ASSUME Inv, NEW p \in Procs, End(p), UNCHANGED <<row, silence, up>>,
           job' \in [Hosts -> JobStates]
    PROVE  Inv'
<1>1. Good(Idle, row, silence)
  BY IdleGood
<1> QED
  BY <1>1, OneProcess DEF End

LEMMA RetryKeeps ==
    ASSUME Inv, NEW p \in Procs, proc[p].at # "idle", Retry(p),
           UNCHANGED <<row, silence, up>>, job' \in [Hosts -> JobStates]
    PROVE  Inv'
<1>1. Good(Idle, row, silence)
  BY IdleGood
<1>2. proc[p].host \in Hosts /\ proc[p].mark \in BOOLEAN
  BY DEF Inv, Good, Processes
<1>3. Good(Requeued(p), row, silence)
  BY <1>2, ProcessGood DEF Requeued
<1>4. PICK r \in {Requeued(p), Idle} : proc' = [proc EXCEPT ![p] = r]
  BY DEF Retry
<1>5. Good(r, row, silence)
  BY <1>1, <1>3
<1> QED
  BY <1>4, <1>5, OneProcess

LEMMA GotoKeeps ==
    ASSUME Inv, NEW p \in Procs, NEW place \in {"request", "upsert", "cancel", "declare"},
           proc[p].at # "idle", Goto(p, place), UNCHANGED <<row, silence, up>>,
           job' \in [Hosts -> JobStates]
    PROVE  Inv'
<1> DEFINE r == [proc[p] EXCEPT !.at = place]
<1>1. proc[p] \in Processes /\ Good(proc[p], row, silence)
  BY DEF Inv
<1>2. /\ r \in Processes /\ r.at = place /\ r.host = proc[p].host /\ r.task = proc[p].task
      /\ r.copy = proc[p].copy
  BY <1>1 DEF Processes
<1>3. proc' = [proc EXCEPT ![p] = r]
  BY DEF Goto
<1> HIDE DEF r
<1>4. Good(r, row, silence)
  BY <1>1, <1>2 DEF Good
<1> QED
  BY <1>3, <1>4, OneProcess

\* What Become makes of a process that runs.
LEMMA BecomeGood ==
    ASSUME Inv, NEW p \in Procs, proc[p].at # "idle",
           NEW at \in {"read", "declare", "write", "demote"},
           NEW answer \in {"none", "success", "failure", "gone"}, NEW copy \in Rows,
           copy.meta = "absent" => copy.us = None,
           at = "write" /\ copy.us = None =>
                row[proc[p].host].us \in {None, 0} \/ silence[proc[p].host] = Declared,
           Become(p, at, answer, copy)
    PROVE  \E r : Good(r, row, silence) /\ proc' = [proc EXCEPT ![p] = r]
<1> DEFINE r == [at |-> at, task |-> proc[p].task, host |-> proc[p].host,
                 mark |-> proc[p].mark, answer |-> answer, copy |-> copy]
<1>1. proc[p] \in Processes /\ proc[p].host \in Hosts
  BY DEF Inv, Good
<1>2. r \in Processes
  BY <1>1 DEF Processes
<1>3. r.at = at /\ r.host = proc[p].host /\ r.copy = copy
  OBVIOUS
<1>4. proc' = [proc EXCEPT ![p] = r]
  BY DEF Become
<1> HIDE DEF r
<1>5. Good(r, row, silence)
  BY <1>1, <1>2, <1>3 DEF Good
<1> QED
  BY <1>4, <1>5

LEMMA RecordKeeps ==
    ASSUME Inv, NEW p \in Procs, proc[p].at # "idle",
           NEW answer \in {"success", "failure", "gone"}, Record(p, answer),
           UNCHANGED <<row, silence, up>>, job' \in [Hosts -> JobStates]
    PROVE  Inv'
<1>1. NoRow \in Rows /\ NoRow.us = None
  BY DEF NoRow, Rows
<1>2. \E r : Good(r, row, silence) /\ proc' = [proc EXCEPT ![p] = r]
  BY <1>1, BecomeGood DEF Record
<1> QED
  BY <1>2, OneProcess

-----------------------------------------------------------------------------
LEMMA EnqueueKeeps ==
    ASSUME Inv, NEW w \in Jobs, NEW h \in Hosts, Enqueue(w, h)
    PROVE  Inv'
<1>1. PICK us \in Seen(h) : proc' = [proc EXCEPT ![w] = Process("queued", "delivery", h, us # None)]
  BY DEF Enqueue
<1>2. Good(Process("queued", "delivery", h, us # None), row, silence)
  BY ProcessGood
<1>3. w \in Procs /\ UNCHANGED <<row, silence, up>> /\ job' \in [Hosts -> JobStates]
  BY DEF Enqueue, Procs, Inv
<1> QED
  BY <1>1, <1>2, <1>3, OneProcess

LEMMA DeliveringKeeps ==
    ASSUME Inv, NEW w \in Jobs, Delivering(w)
    PROVE  Inv'
<1>1. w \in Procs /\ UNCHANGED <<row, silence, up>> /\ job' \in [Hosts -> JobStates]
  BY DEF Delivering, Drop, Send, Posted, TimeOut, Procs, Inv
<1>2. CASE Drop(w)
  BY <1>1, <1>2, EndKeeps DEF Drop
<1>3. CASE Send(w)
  <2>1. proc[w].at # "idle" /\ Goto(w, "request")
    BY <1>3 DEF Send, At
  <2> QED
    BY <1>1, <2>1, GotoKeeps
<1>4. CASE Posted(w)
  <2>1. proc[w].at # "idle"
    BY <1>4 DEF Posted, At
  <2>2. CASE proc' = [proc EXCEPT ![w] = Requeued(w)]
    <3>1. Retry(w)
      BY <2>2 DEF Retry
    <3> QED
      BY <1>1, <2>1, <3>1, RetryKeeps
  <2>3. CASE End(w)
    BY <1>1, <2>3, EndKeeps
  <2>4. CASE Retry(w)
    BY <1>1, <2>1, <2>4, RetryKeeps
  <2>5. ASSUME NEW a \in {"success", "failure", "gone"}, Record(w, a) PROVE Inv'
    BY <1>1, <2>1, <2>5, RecordKeeps
  <2> QED
    BY <1>4, <2>2, <2>3, <2>4, <2>5 DEF Posted
<1>5. CASE TimeOut(w)
  <2>1. proc[w].at # "idle" /\ Retry(w)
    BY <1>5 DEF TimeOut, At
  <2> QED
    BY <1>1, <2>1, RetryKeeps
<1> QED
  BY <1>2, <1>3, <1>4, <1>5 DEF Delivering

LEMMA LaunchKeeps ==
    ASSUME Inv, NEW w \in Tasks, NEW h \in Hosts, Fetch(w, h) \/ SourceItems(w, h) \/ Inbox(w, h)
    PROVE  Inv'
<1>1. w \in Procs /\ UNCHANGED <<row, silence, up>> /\ job' \in [Hosts -> JobStates]
  BY DEF Fetch, SourceItems, Inbox, Procs, Inv
<1>2. ASSUME NEW task \in {"fetch", "source", "inbox"}, NEW place \in {"request", "upsert"},
             Launch(w, h, task, place)
      PROVE  Inv'
  <2>1. Good(Process(place, task, h, FALSE), row, silence)
    BY ProcessGood
  <2> QED
    BY <1>1, <1>2, <2>1, OneProcess DEF Launch
<1> QED
  BY <1>2 DEF Fetch, SourceItems, Inbox

LEMMA FetchedKeeps ==
    ASSUME Inv, NEW w \in Tasks, Fetched(w) \/ SourceFetched(w)
    PROVE  Inv'
<1>1. w \in Procs /\ UNCHANGED <<row, silence, up>> /\ job' \in [Hosts -> JobStates]
  BY DEF Fetched, SourceFetched, Procs, Inv
<1>2. proc[w].at # "idle"
  BY DEF Fetched, SourceFetched, At
<1>3. CASE End(w)
  BY <1>1, <1>3, EndKeeps
<1>4. ASSUME NEW place \in {"upsert", "declare"}, Goto(w, place) PROVE Inv'
  BY <1>1, <1>2, <1>4, GotoKeeps
<1>5. ASSUME NEW a \in {"success", "failure", "gone"}, Record(w, a) PROVE Inv'
  BY <1>1, <1>2, <1>5, RecordKeeps
<1> QED
  BY <1>3, <1>4, <1>5 DEF Fetched, SourceFetched

-----------------------------------------------------------------------------
\* Recording

LEMMA FinishGood ==
    ASSUME Inv, NEW p \in Procs, proc[p].at # "idle", NEW failed \in BOOLEAN, Finish(p, failed)
    PROVE  /\ \E r : proc' = [proc EXCEPT ![p] = r] /\ \A rw, si : Good(r, rw, si)
           /\ job' \in [Hosts -> JobStates]
<1>1. job' \in [Hosts -> JobStates]
  BY DEF Finish, Inv, JobStates
<1>2. proc[p].host \in Hosts /\ proc[p].mark \in BOOLEAN
  BY DEF Inv, Good, Processes
<1>3. \A rw, si : Good(Requeued(p), rw, si)
  BY <1>2, ProcessGood DEF Requeued
<1>4. \E r \in {Requeued(p), Idle} : proc' = [proc EXCEPT ![p] = r]
  BY DEF Finish, Retry, End
<1> QED
  BY <1>1, <1>3, <1>4, IdleGood

LEMMA ReadKeeps ==
    ASSUME Inv, NEW p \in Procs, Read(p)
    PROVE  Inv'
<1>1. proc[p].at # "idle" /\ proc[p].host \in Hosts /\ proc[p].answer \in
        {"none", "success", "failure", "gone"}
  BY DEF Read, At, Inv, Good, Processes
<1>2. Sound(row[proc[p].host], silence[proc[p].host])
  BY <1>1 DEF Inv
<1>3. \E r : Good(r, row, silence) /\ proc' = [proc EXCEPT ![p] = r]
  BY <1>1, <1>2, BecomeGood DEF Read, Sound
<1>4. UNCHANGED <<row, silence, up>> /\ job' \in [Hosts -> JobStates]
  BY DEF Read, Inv
<1> QED
  BY <1>3, <1>4, OneProcess

LEMMA DeclareKeeps ==
    ASSUME Inv, NEW p \in Procs, Declare(p)
    PROVE  Inv'
<1>1. proc[p].at # "idle" /\ proc[p].host \in Hosts
  BY DEF Declare, At, Inv, Good
<1>2. Sound(row[proc[p].host], silence[proc[p].host])
  BY <1>1 DEF Inv
<1>3. \E r : Good(r, row, silence) /\ proc' = [proc EXCEPT ![p] = r]
  BY <1>1, <1>2, BecomeGood DEF Declare, Sound
<1>4. UNCHANGED <<row, silence, up>> /\ job' \in [Hosts -> JobStates]
  BY DEF Declare, Inv
<1> QED
  BY <1>3, <1>4, OneProcess

\* Writing a row after an answer: the date becomes nil, becomes recent, or is
\* left as it is; and a success leaves no old date unless it was declared.
LEMMA AnswerWritten ==
    ASSUME Inv, NEW p \in Procs, NEW h \in Hosts, NEW answer \in {"success", "failure", "gone", "none"},
           NEW us \in {None, 0, row[h].us}, NEW meta \in {"clear", "backoff"},
           row' = [row EXCEPT ![h] = [us |-> us, meta |-> meta]],
           Noted(h, answer), up' = up, job' \in [Hosts -> JobStates],
           answer = "success" => us \in {None, 0} \/ silence[h] = Declared,
           NEW r, \A rw, si : Good(r, rw, si), proc' = [proc EXCEPT ![p] = r]
    PROVE  Inv'
<1> DEFINE v == [us |-> us, meta |-> meta]
           n == IF answer = "success" /\ (silence[h] # Declared \/ us = None) THEN 0 ELSE silence[h]
<1>1. Sound(row[h], silence[h]) /\ row[h] \in Rows /\ silence[h] \in 0..Declared
  BY DEF Inv
<1>2. us \in Ages \cup {None} /\ v \in Rows /\ v.us = us /\ v.meta = meta
  BY <1>1 DEF Rows, Ages
<1>3. row'[h] = v
  BY DEF Inv
<1>4. silence' = [silence EXCEPT ![h] = n]
  BY <1>2, <1>3 DEF Noted
<1>5. n \in 0..Declared
  BY <1>1 DEF Declared
<1>6. us # None => us <= n
  <2>1. CASE us = 0
    BY <1>5, <2>1 DEF Declared
  <2>2. CASE us # 0 /\ us # None
    <3>1. us = row[h].us /\ us <= silence[h]
      BY <1>1, <2>2 DEF Sound
    <3>2. n = silence[h]
      BY <2>2
    <3> QED
      BY <3>1, <3>2
  <2> QED
    BY <2>1, <2>2
<1>7. row[h].us \in {None, 0} \/ silence[h] = Declared => us \in {None, 0} \/ n = Declared
  BY DEF Declared
<1> HIDE DEF v, n
<1>8. Sound(v, n)
  BY <1>2, <1>5, <1>6 DEF Sound
<1>9. row' = [row EXCEPT ![h] = v]
  BY DEF v
<1>10. Good(r, row', silence')
  OBVIOUS
<1> QED
  BY <1>2, <1>4, <1>7, <1>8, <1>9, <1>10, RowWritten

LEMMA UpdateKeeps ==
    ASSUME Inv, NEW p \in Procs, Update(p)
    PROVE  Inv'
<1> DEFINE h == proc[p].host
           a == proc[p].answer
           new == NewSince(a, proc[p].copy.us)
           us == IF new # proc[p].copy.us THEN new ELSE row[h].us
<1>1. /\ proc[p].at = "write" /\ h \in Hosts /\ a \in {"success", "failure", "gone", "none"}
      /\ Good(proc[p], row, silence)
  BY DEF Update, At, Inv, Good, Processes
<1>2. PICK r : proc' = [proc EXCEPT ![p] = r] /\ \A rw, si : Good(r, rw, si)
  BY <1>1, FinishGood DEF Update
<1>3. job' \in [Hosts -> JobStates]
  BY <1>1, FinishGood DEF Update
<1>4. us \in {None, 0, row[h].us}
  BY DEF NewSince
<1>5. a = "success" => us \in {None, 0} \/ silence[h] = Declared
  BY <1>1 DEF NewSince, Good
<1>6. NewMeta(a) \in {"clear", "backoff"}
  BY DEF NewMeta
<1>7. /\ row' = [row EXCEPT ![h] = [us |-> us, meta |-> NewMeta(a)]]
      /\ Noted(h, a) /\ up' = up
  BY DEF Update
<1> HIDE DEF us, a, h
<1> QED
  BY <1>1, <1>2, <1>3, <1>4, <1>5, <1>6, <1>7, AnswerWritten

LEMMA InsertKeeps ==
    ASSUME Inv, NEW p \in Procs, Insert(p)
    PROVE  Inv'
<1> DEFINE h == proc[p].host
           a == proc[p].answer
           us == IF a = "failure" THEN 0 ELSE row[h].us
<1>1. /\ proc[p].at = "write" /\ h \in Hosts /\ a \in {"success", "failure", "gone", "none"}
      /\ Good(proc[p], row, silence) /\ proc[p].copy.meta = "absent"
  BY DEF Insert, At, Inv, Good, Processes
<1>2. PICK r : proc' = [proc EXCEPT ![p] = r] /\ \A rw, si : Good(r, rw, si)
  BY <1>1, FinishGood DEF Insert
<1>3. job' \in [Hosts -> JobStates]
  BY <1>1, FinishGood DEF Insert
<1>4. us \in {None, 0, row[h].us}
  OBVIOUS
<1>5. a = "success" => us \in {None, 0} \/ silence[h] = Declared
  BY <1>1 DEF Good
<1>6. NewMeta(a) \in {"clear", "backoff"}
  BY DEF NewMeta
<1>7. /\ row' = [row EXCEPT ![h] = [us |-> us, meta |-> NewMeta(a)]]
      /\ Noted(h, a) /\ up' = up
  BY DEF Insert
<1> HIDE DEF us, a, h
<1> QED
  BY <1>1, <1>2, <1>3, <1>4, <1>5, <1>6, <1>7, AnswerWritten

LEMMA ConflictRaisesKeeps ==
    ASSUME Inv, NEW p \in Procs, ConflictRaises(p)
    PROVE  Inv'
<1>1. proc[p].at # "idle"
  BY DEF ConflictRaises, At
<1>2. PICK r : proc' = [proc EXCEPT ![p] = r] /\ \A rw, si : Good(r, rw, si)
  BY <1>1, FinishGood DEF ConflictRaises
<1>3. job' \in [Hosts -> JobStates]
  BY <1>1, FinishGood DEF ConflictRaises
<1> QED
  BY <1>2, <1>3, OneProcess DEF ConflictRaises

LEMMA UnchangedKeeps ==
    ASSUME Inv, NEW p \in Procs, Unchanged(p)
    PROVE  Inv'
<1>1. job' \in [Hosts -> JobStates]
  BY DEF Unchanged, Inv
<1> QED
  BY <1>1, EndKeeps DEF Unchanged

\* A declaration: its date is excused.
LEMMA DemoteKeeps ==
    ASSUME Inv, NEW p \in Procs, Demote(p)
    PROVE  Inv'
<1> DEFINE h == proc[p].host
           lost == proc[p].copy.meta = "absent" /\ row[h].meta # "absent"
           kept == lost \/ CutOff(proc[p].copy.us)
           v == [us |-> 1, meta |-> Present(row[h].meta)]
<1>1. proc[p].at # "idle" /\ h \in Hosts /\ row[h] \in Rows
  BY DEF Demote, At, Inv, Good
<1>2. NoRow \in Rows /\ NoRow.us = None
  BY DEF NoRow, Rows
<1>3. PICK r : proc' = [proc EXCEPT ![p] = r] /\ \A rw, si : Good(r, rw, si)
  <2> DEFINE x(at, answer) == [at |-> at, task |-> proc[p].task, host |-> h,
                               mark |-> proc[p].mark, answer |-> answer, copy |-> NoRow]
  <2>1. ASSUME NEW at \in {"read", "declare"}, NEW answer \in {"none", "failure"}
        PROVE  \A rw, si : Good(x(at, answer), rw, si)
    <3>1. proc[p] \in Processes
      BY DEF Inv
    <3>2. x(at, answer) \in Processes
      BY <1>2, <3>1 DEF Processes
    <3> QED
      BY <1>1, <1>2, <3>2 DEF Good
  <2>2. \/ proc' = [proc EXCEPT ![p] = x("declare", "none")]
        \/ proc' = [proc EXCEPT ![p] = x("read", "failure")]
    BY DEF Demote, Become, Record
  <2> HIDE DEF x
  <2> QED
    BY <2>1, <2>2
<1>4. job' \in [Hosts -> JobStates] /\ up' = up
  BY DEF Demote, Inv
<1>5. CASE kept
  <2>1. UNCHANGED <<row, silence>>
    BY <1>5 DEF Demote
  <2> QED
    BY <1>3, <1>4, <2>1, OneProcess
<1>6. CASE ~kept
  <2>1. row' = [row EXCEPT ![h] = v] /\ silence' = [silence EXCEPT ![h] = Declared]
    BY <1>6 DEF Demote
  <2>2. Present(row[h].meta) \in {"clear", "backoff"}
    BY <1>1 DEF Present, Rows
  <2>3. Sound(v, Declared)
    BY <2>2 DEF Sound, Rows, Ages, Declared
  <2> HIDE DEF v, h
  <2> QED
    BY <1>1, <1>3, <1>4, <2>1, <2>3, RowWritten
<1> QED
  BY <1>5, <1>6

LEMMA UpsertKeeps ==
    ASSUME Inv, NEW p \in Procs, Upsert(p)
    PROVE  Inv'
<1> DEFINE h == proc[p].host
           r == [proc[p] EXCEPT !.at = "cancel"]
<1>1. proc[p] \in Processes /\ Good(proc[p], row, silence) /\ proc[p].at = "upsert"
  BY DEF Inv, Upsert, At
<1>2. h \in Hosts /\ row[h] \in Rows
  BY <1>1 DEF Inv, Good
<1>3. /\ r \in Processes /\ r.at = "cancel" /\ r.host = h /\ r.task = proc[p].task
      /\ r.copy = proc[p].copy
  BY <1>1 DEF Processes
<1>4. proc' = [proc EXCEPT ![p] = r] /\ up' = up /\ job' \in [Hosts -> JobStates]
  BY DEF Upsert, Goto, Inv
<1>5. Present(row[h].meta) \in {"clear", "backoff"}
  BY <1>2 DEF Present, Rows
<1>6. /\ row' = [row EXCEPT ![h] = [us |-> None, meta |-> Present(row[h].meta)]]
      /\ Noted(h, "success")
  BY DEF Upsert
<1> HIDE DEF r
<1>7. \A rw, si : Good(r, rw, si)
  BY <1>1, <1>2, <1>3 DEF Good
<1> HIDE DEF h
<1> QED
  BY <1>2, <1>4, <1>5, <1>6, <1>7, AnswerWritten

LEMMA CancelJobsKeeps ==
    ASSUME Inv, NEW p \in Procs, CancelJobs(p)
    PROVE  Inv'
<1>1. job' \in [Hosts -> JobStates]
  BY DEF CancelJobs, Inv, JobStates
<1> QED
  BY <1>1, EndKeeps DEF CancelJobs

LEMMA RecordingKeeps ==
    ASSUME Inv, NEW p \in Procs, Recording(p)
    PROVE  Inv'
BY ReadKeeps, UnchangedKeeps, UpdateKeeps, InsertKeeps, ConflictRaisesKeeps, DeclareKeeps,
   DemoteKeeps, UpsertKeeps, CancelJobsKeeps DEF Recording

-----------------------------------------------------------------------------
\* Probes, time, restarts

LEMMA JobOnly ==
    ASSUME Inv, UNCHANGED <<row, silence, up, proc>>, job' \in [Hosts -> JobStates]
    PROVE  Inv'
BY DEF Inv

LEMMA ProbeKeeps ==
    ASSUME Inv, NEW h \in Hosts, Probing(h) \/ AskProbe(h)
    PROVE  Inv'
<1>1. h \in Procs
  BY DEF Procs
<1>2. ASSUME CronSelect(h) \/ CronInsert(h) \/ Lifeline(h) \/ AskProbe(h) PROVE Inv'
  <2>1. UNCHANGED <<row, silence, up, proc>> /\ job' \in [Hosts -> JobStates]
    BY <1>2 DEF CronSelect, CronInsert, Lifeline, AskProbe, Inv, JobStates
  <2> QED
    BY <2>1, JobOnly
<1>3. CASE StartProbe(h)
  <2>1. Good(Process("request", "probe", h, FALSE), row, silence)
    BY ProcessGood
  <2>2. UNCHANGED <<row, silence, up>> /\ job' \in [Hosts -> JobStates]
    BY <1>3 DEF StartProbe, Inv, JobStates
  <2>3. proc' = [proc EXCEPT ![h] = Process("request", "probe", h, FALSE)]
    BY <1>3 DEF StartProbe
  <2> QED
    BY <1>1, <2>1, <2>2, <2>3, OneProcess
<1>4. CASE Probed(h)
  <2>1. proc[h].at # "idle" /\ UNCHANGED <<row, silence, up>> /\ job' \in [Hosts -> JobStates]
    BY <1>4 DEF Probed, At, Inv
  <2> QED
    BY <1>1, <1>4, <2>1, RecordKeeps DEF Probed
<1>5. CASE KillProbe(h)
  <2>1. job' \in [Hosts -> JobStates]
    BY <1>5 DEF KillProbe, Inv, JobStates
  <2> QED
    BY <1>1, <1>5, <2>1, EndKeeps DEF KillProbe
<1> QED
  BY <1>2, <1>3, <1>4, <1>5 DEF Probing

\* Steps of several processes at once write no row: each goes on, rests, or is
\* put back into the queue.
LEMMA ManyProcesses ==
    ASSUME Inv, UNCHANGED <<row, silence, up>>, job' \in [Hosts -> JobStates],
           NEW f, proc' = [p \in Procs |-> f[p]],
           \A p \in Procs : Good(f[p], row, silence)
    PROVE  Inv'
<1>1. proc' \in [Procs -> Processes]
  BY DEF Good
<1> QED
  BY <1>1 DEF Inv

LEMMA DiscardDormantKeeps ==
    ASSUME Inv, DiscardDormant
    PROVE  Inv'
<1> DEFINE f == [p \in Procs |-> IF At(p, "queued") /\ Dormant(row[proc[p].host].us)
                                 THEN Idle ELSE proc[p]]
<1>1. \A p \in Procs : Good(f[p], row, silence)
  BY IdleGood DEF Inv
<1>2. proc' = [p \in Procs |-> f[p]]
  BY DEF DiscardDormant
<1>3. UNCHANGED <<row, silence, up>> /\ job' \in [Hosts -> JobStates]
  BY DEF DiscardDormant, Inv
<1> HIDE DEF f
<1> QED
  BY <1>1, <1>2, <1>3, ManyProcesses

LEMMA CrashKeeps ==
    ASSUME Inv, Crash
    PROVE  Inv'
<1> DEFINE f == [p \in Procs |-> IF proc[p].task = "delivery" THEN Requeued(p) ELSE Idle]
<1>1. \A p \in Procs : Good(f[p], row, silence)
  <2> TAKE p \in Procs
  <2>1. CASE proc[p].task = "delivery"
    <3>1. proc[p].host \in Hosts /\ proc[p].mark \in BOOLEAN
      BY <2>1 DEF Inv, Good, Processes
    <3>2. Good(Requeued(p), row, silence)
      BY <3>1, ProcessGood DEF Requeued
    <3> QED
      BY <2>1, <3>2
  <2>2. CASE proc[p].task # "delivery"
    BY <2>2, IdleGood
  <2> QED
    BY <2>1, <2>2
<1>2. proc' = [p \in Procs |-> f[p]]
  BY DEF Crash
<1>3. UNCHANGED <<row, silence, up>> /\ job' \in [Hosts -> JobStates]
  BY DEF Crash, Inv, JobStates
<1> HIDE DEF f
<1> QED
  BY <1>1, <1>2, <1>3, ManyProcesses

LEMMA OlderAges ==
    /\ \A a \in 0..Declared : Older(a) \in 0..Declared
    /\ \A a \in Ages : Older(a) \in Ages
    /\ \A a \in Ages, n \in 0..Declared : a <= n => Older(a) <= Older(n)
    /\ Older(None) = None
BY NoneAssumption DEF Older, Ages, Declared

LEMMA TickKeeps ==
    ASSUME Inv, Tick
    PROVE  Inv'
<1>1. ASSUME NEW h \in Hosts PROVE Sound(row'[h], silence'[h])
  <2>1. Sound(row[h], silence[h])
    BY DEF Inv
  <2>2. /\ row'[h] = [us |-> Older(row[h].us), meta |-> row[h].meta]
        /\ silence'[h] = IF row[h].us = None THEN silence[h] ELSE Older(silence[h])
    BY DEF Tick
  <2>3. CASE row[h].us = None
    <3>1. Older(row[h].us) = None
      BY <2>3, OlderAges
    <3> QED
      BY <2>1, <2>2, <2>3, <3>1 DEF Sound, Rows
  <2>4. CASE row[h].us # None
    <3>1. row[h].us \in Ages /\ row[h].us <= silence[h] /\ silence[h] \in 0..Declared
      BY <2>1, <2>4 DEF Sound, Rows
    <3>2. /\ Older(row[h].us) \in Ages /\ Older(silence[h]) \in 0..Declared
          /\ Older(row[h].us) <= Older(silence[h])
      BY <3>1, OlderAges
    <3>3. row[h].meta \in {"clear", "backoff"}
      BY <2>1, <2>4 DEF Sound, Rows
    <3> QED
      BY <2>2, <2>4, <3>2, <3>3 DEF Sound, Rows
  <2> QED
    BY <2>3, <2>4
<1>2. row' \in [Hosts -> Rows] /\ silence' \in [Hosts -> 0..Declared]
  BY <1>1 DEF Tick, Sound
<1>3. ASSUME NEW p \in Procs PROVE Good(proc'[p], row', silence')
  <2>1. Good(proc[p], row, silence) /\ proc[p].at # "write" /\ proc' = proc
    BY DEF Inv, Tick, At
  <2> QED
    BY <2>1 DEF Good
<1> QED
  BY <1>1, <1>2, <1>3 DEF Inv, Tick

LEMMA BackoffEndsKeeps ==
    ASSUME Inv, NEW h \in Hosts, BackoffEnds(h)
    PROVE  Inv'
<1> DEFINE v == [row[h] EXCEPT !.meta = "clear"]
<1>1. row' = [row EXCEPT ![h] = v] /\ UNCHANGED <<proc, job, up, silence>>
  BY DEF BackoffEnds
<1>2. row[h] \in Rows /\ Sound(row[h], silence[h])
  BY DEF Inv
<1>3. v \in Rows /\ v.us = row[h].us /\ v.meta = "clear"
  BY <1>2 DEF Rows
<1> HIDE DEF v
<1>4. \A k \in Hosts : row'[k].us = row[k].us /\ Sound(row'[k], silence[k])
  <2> TAKE k \in Hosts
  <2>1. CASE k = h
    <3>1. row'[k] = v
      BY <1>1, <2>1 DEF Inv
    <3> QED
      BY <1>2, <1>3, <2>1, <3>1 DEF Sound
  <2>2. CASE k # h
    <3>1. row'[k] = row[k]
      BY <1>1, <2>2 DEF Inv
    <3> QED
      BY <3>1 DEF Inv
  <2> QED
    BY <2>1, <2>2
<1>5. \A p \in Procs : Good(proc[p], row', silence)
  <2> TAKE p \in Procs
  <2>1. Good(proc[p], row, silence)
    BY DEF Inv
  <2> QED
    BY <1>4, <2>1 DEF Good
<1>6. row' \in [Hosts -> Rows]
  BY <1>1, <1>3 DEF Inv
<1> QED
  BY <1>1, <1>4, <1>5, <1>6 DEF Inv

LEMMA InvStep == Inv /\ [Next]_vars => Inv'
<1> SUFFICES ASSUME Inv, [Next]_vars PROVE Inv'
  OBVIOUS
<1>1. ASSUME NEW w \in Jobs, Delivering(w) \/ \E h \in Hosts : Enqueue(w, h) PROVE Inv'
  BY <1>1, DeliveringKeeps, EnqueueKeeps
<1>2. ASSUME NEW w \in Tasks,
             Fetched(w) \/ SourceFetched(w)
                 \/ \E h \in Hosts : Fetch(w, h) \/ SourceItems(w, h) \/ Inbox(w, h)
      PROVE  Inv'
  BY <1>2, FetchedKeeps, LaunchKeeps
<1>3. ASSUME NEW p \in Procs, Recording(p) PROVE Inv'
  BY <1>3, RecordingKeeps
<1>4. ASSUME NEW h \in Hosts, Probing(h) \/ AskProbe(h) \/ BackoffEnds(h) PROVE Inv'
  BY <1>4, ProbeKeeps, BackoffEndsKeeps
<1>5. ASSUME NEW h \in Hosts, Change(h) PROVE Inv'
  <2>1. up' \in [Hosts -> BOOLEAN]
    BY <1>5 DEF Change, Inv
  <2> QED
    BY <1>5, <2>1 DEF Change, Inv
<1>6. CASE DiscardDormant \/ Tick \/ Crash
  BY <1>6, DiscardDormantKeeps, TickKeeps, CrashKeeps
<1>7. CASE UNCHANGED vars
  BY <1>7 DEF vars, Inv
<1> QED
  BY <1>1, <1>2, <1>3, <1>4, <1>5, <1>6, <1>7 DEF Next

LEMMA InvHolds == Spec => []Inv
BY InvInit, InvStep, PTL DEF Spec

\* Rows, processes and jobs keep their types.
THEOREM TypeCorrect == Spec => []TypeOK
BY InvHolds, InvImplies, PTL

\* A date in the table is never older than the time the host has had one and
\* no success was recorded: no interleaving of the reads and writes brings a
\* cleared date back.
THEOREM SilenceCorrect == Spec => []CutOffNeedsSilence
BY InvHolds, InvImplies, PTL

-----------------------------------------------------------------------------
\* Whoever writes a row is not queued.
LEMMA QueuedNotRecording ==
    ASSUME Inv, NEW w \in Procs, At(w, "queued"), NEW p \in Procs, Recording(p)
    PROVE  proc'[w] = proc[w]
<1>1. p # w
  BY DEF Recording, Read, Unchanged, Update, Insert, ConflictRaises, Declare, Demote, Upsert,
         CancelJobs, At
<1>2. \E r : proc' = [proc EXCEPT ![p] = r]
  BY DEF Recording, Read, Unchanged, Update, Insert, ConflictRaises, Declare, Demote, Upsert,
         CancelJobs, Finish, Retry, End, Become, Record, Goto
<1> QED
  BY <1>1, <1>2 DEF Inv

LEMMA DroppedStep ==
    ASSUME Inv, [Next]_vars, NEW w \in Jobs, At(w, "queued"), proc'[w].at = "idle"
    PROVE  silence[proc[w].host] >= 1
<1>1. /\ w \in Procs /\ w \notin Tasks /\ w \notin Hosts
      /\ Good(proc[w], row, silence) /\ proc[w].at = "queued"
  BY ProcsAssumption DEF Procs, Inv, At
<1>2. proc[w].host \in Hosts /\ proc'[w] # proc[w]
  BY <1>1 DEF Good
<1>3. ASSUME CutOff(row[proc[w].host].us) PROVE silence[proc[w].host] >= 1
  <2>1. Sound(row[proc[w].host], silence[proc[w].host])
    BY <1>2 DEF Inv
  <2> QED
    BY <1>3, <2>1 DEF Sound, CutOff, Rows, Ages, Declared
<1>4. ASSUME NEW x \in Procs, x # w, \E r : proc' = [proc EXCEPT ![x] = r] PROVE FALSE
  BY <1>1, <1>2, <1>4 DEF Inv
<1>5. ASSUME NEW x \in Jobs, Delivering(x) PROVE silence[proc[w].host] >= 1
  <2>1. CASE x # w
    <3>1. \E r : proc' = [proc EXCEPT ![x] = r]
      BY <1>5 DEF Delivering, Drop, Send, Posted, TimeOut, End, Goto, Retry, Record, Become
    <3> QED
      BY <1>4, <2>1, <3>1 DEF Procs
  <2>2. CASE x = w /\ Drop(x)
    <3>1. CutOff(row[proc[w].host].us)
      BY <2>2 DEF Drop, Seen, CutOff
    <3> QED
      BY <1>3, <3>1
  <2>3. CASE x = w /\ Send(x)
    <3>1. proc'[w].at = "request"
      BY <1>1, <2>3 DEF Send, Goto, Inv
    <3> QED
      BY <3>1
  <2>4. CASE x = w /\ (Posted(x) \/ TimeOut(x))
    BY <1>1, <2>4 DEF Posted, TimeOut, At
  <2> QED
    BY <1>5, <2>1, <2>2, <2>3, <2>4 DEF Delivering
<1>6. ASSUME NEW x \in Jobs, NEW h \in Hosts, Enqueue(x, h) PROVE FALSE
  <2>1. x # w
    BY <1>1, <1>6 DEF Enqueue, At
  <2>2. \E r : proc' = [proc EXCEPT ![x] = r]
    BY <1>6 DEF Enqueue
  <2> QED
    BY <1>4, <2>1, <2>2 DEF Procs
<1>7. ASSUME NEW x \in Tasks,
             Fetched(x) \/ SourceFetched(x)
                 \/ \E h \in Hosts : Fetch(x, h) \/ SourceItems(x, h) \/ Inbox(x, h)
      PROVE  FALSE
  <2>1. \E r : proc' = [proc EXCEPT ![x] = r]
    BY <1>7 DEF Fetched, SourceFetched, Fetch, SourceItems, Inbox, Launch, End, Goto, Record, Become
  <2> QED
    BY <1>1, <1>4, <2>1 DEF Procs
<1>8. ASSUME NEW p \in Procs, Recording(p) PROVE FALSE
  BY <1>1, <1>2, <1>8, QueuedNotRecording
<1>9. ASSUME NEW h \in Hosts, Probing(h) PROVE FALSE
  <2>1. proc' = proc \/ \E r : proc' = [proc EXCEPT ![h] = r]
    BY <1>9 DEF Probing, CronSelect, CronInsert, StartProbe, Probed, KillProbe, Lifeline,
                End, Record, Become
  <2> QED
    BY <1>1, <1>2, <1>4, <2>1 DEF Procs
<1>10. ASSUME NEW h \in Hosts, AskProbe(h) \/ BackoffEnds(h) \/ Change(h) PROVE FALSE
  BY <1>2, <1>10 DEF AskProbe, BackoffEnds, Change
<1>11. CASE DiscardDormant
  <2>1. Dormant(row[proc[w].host].us)
    BY <1>1, <1>2, <1>11 DEF DiscardDormant
  <2>2. row[proc[w].host] \in Rows
    BY <1>2 DEF Inv
  <2>3. CutOff(row[proc[w].host].us)
    BY <2>1, <2>2 DEF Dormant, CutOff, Rows, Ages
  <2> QED
    BY <1>3, <2>3
<1>12. CASE Tick
  BY <1>2, <1>12 DEF Tick
<1>13. CASE Crash
  <2>1. proc'[w] = Requeued(w)
    BY <1>1, <1>13 DEF Crash, Good
  <2> QED
    BY <2>1 DEF Requeued, Process
<1>14. CASE UNCHANGED vars
  BY <1>2, <1>14 DEF vars
<1> QED
  BY <1>5, <1>6, <1>7, <1>8, <1>9, <1>10, <1>11, <1>12, <1>13, <1>14 DEF Next

LEMMA DroppedSteps ==
    Inv /\ [Next]_vars =>
        [\A w \in Jobs :
            At(w, "queued") /\ proc'[w].at = "idle" => silence[proc[w].host] >= 1]_vars
BY DroppedStep

\* A queued delivery is dropped for the health of its host only if the host
\* has had a date and no recorded success for 7 days, or was declared
\* unreachable, for any number of deliveries, hosts and processes.
THEOREM DroppedCorrect == Spec => DroppedOnlyAfterSilence
BY InvHolds, DroppedSteps, PTL DEF Spec, DroppedOnlyAfterSilence
=============================================================================
