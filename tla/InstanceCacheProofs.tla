-------------------------- MODULE InstanceCacheProofs --------------------------
(***************************************************************************)
(* The snapshot keeps its promise to those who ask, for any number of      *)
(* hosts, writers and readers.                                             *)
(***************************************************************************)
EXTENDS InstanceCache, TLAPS

\* A reader that goes on to the table waits for its answer.
Waiting ==
    /\ asked \in [Readers -> Hosts] /\ hit \in [Readers -> BOOLEAN]
    /\ answer \in [Readers -> {"none", "date", "clear"}]
    /\ \A r \in Readers : hit[r] => answer[r] = "none"

LEMMA WaitingInit == Init => Waiting
BY DEF Init, Waiting

LEMMA WaitingStep == Waiting /\ [Next]_vars => Waiting'
<1> SUFFICES ASSUME Waiting, [Next]_vars PROVE Waiting'
  OBVIOUS
<1>1. CASE UNCHANGED readVars
  BY <1>1 DEF Waiting, readVars
<1>2. ASSUME NEW r \in Readers, NEW h \in Hosts, Ask(r, h) PROVE Waiting'
  BY <1>2 DEF Waiting, Ask
<1>3. ASSUME NEW r \in Readers, Look(r) PROVE Waiting'
  BY <1>3 DEF Waiting, Look
<1>4. ASSUME NEW r \in Readers, ReadRow(r) PROVE Waiting'
  BY <1>4 DEF Waiting, ReadRow
<1>5. CASE Restart
  BY <1>5 DEF Waiting, Restart
<1>6. ASSUME NEW w \in Writers, Sync(w) \/ Put(w) \/ \E h \in Hosts : Commit(w, h)
      PROVE  UNCHANGED readVars
  BY <1>6 DEF Sync, Put, Commit
<1>7. ASSUME Refresh \/ Replace PROVE UNCHANGED readVars
  BY <1>7 DEF Refresh, Replace
<1> QED
  BY <1>1, <1>2, <1>3, <1>4, <1>5, <1>6, <1>7 DEF Next, vars

LEMMA LookupInitRefined == Init => Lookup!LookupInit
BY DEF Init, Lookup!LookupInit

\* Each step is a step of InstanceLookup or leaves what it sees alone.
LEMMA LookupStepRefined ==
    Waiting /\ [Next]_vars => [Lookup!LookupNext]_Lookup!lookupVars
<1> SUFFICES ASSUME Waiting, [Next]_vars PROVE [Lookup!LookupNext]_Lookup!lookupVars
  OBVIOUS
<1>1. ASSUME NEW w \in Writers, NEW h \in Hosts, Commit(w, h)
      PROVE  [Lookup!LookupNext]_Lookup!lookupVars
  <2>1. asked' = asked /\ answer' = answer
    BY <1>1 DEF Commit, readVars
  <2>2. dated' = dated \/ dated' \in {dated \cup {h}, dated \ {h}}
    BY <1>1 DEF Commit
  <2> QED
    BY <2>1, <2>2 DEF Lookup!LookupNext, Lookup!Write, Lookup!lookupVars
<1>2. ASSUME NEW w \in Writers, Sync(w) \/ Put(w) PROVE UNCHANGED Lookup!lookupVars
  BY <1>2 DEF Sync, Put, readVars, Lookup!lookupVars
<1>3. ASSUME Refresh \/ Replace PROVE UNCHANGED Lookup!lookupVars
  BY <1>3 DEF Refresh, Replace, readVars, Lookup!lookupVars
<1>4. ASSUME NEW r \in Readers, NEW h \in Hosts, Ask(r, h) PROVE Lookup!LookupNext
  BY <1>4 DEF Ask, Lookup!LookupNext, Lookup!Ask
<1>5. ASSUME NEW r \in Readers, Look(r) PROVE [Lookup!LookupNext]_Lookup!lookupVars
  <2>1. CASE ~loaded \/ asked[r] \in cached
    BY <1>5, <2>1 DEF Look, Lookup!lookupVars
  <2>2. CASE ~(~loaded \/ asked[r] \in cached)
    BY <1>5, <2>2 DEF Look, Lookup!LookupNext, Lookup!Answer
  <2> QED
    BY <2>1, <2>2
<1>6. ASSUME NEW r \in Readers, ReadRow(r) PROVE Lookup!LookupNext
  <2>1. answer[r] = "none"
    BY <1>6 DEF ReadRow, Waiting
  <2> QED
    BY <1>6, <2>1 DEF ReadRow, Lookup!LookupNext, Lookup!Answer
<1>7. CASE Restart
  BY <1>7 DEF Restart, Lookup!LookupNext, Lookup!Forget
<1>8. CASE UNCHANGED vars
  BY <1>8 DEF vars, readVars, Lookup!lookupVars
<1> QED
  BY <1>1, <1>2, <1>3, <1>4, <1>5, <1>6, <1>7, <1>8 DEF Next

\* Whoever asks for a host is told that it has no date, or what the table says
\* when the answer is given: the snapshot implements InstanceLookup, the
\* promise that InstanceHealth is written against.
THEOREM LookupsCorrect == Spec => LookupsKept
<1>1. Spec => []Waiting
  BY WaitingInit, WaitingStep, PTL DEF Spec
<1> QED
  BY <1>1, LookupInitRefined, LookupStepRefined, PTL DEF Spec, LookupsKept

LEMMA TypeInit == Init => TypeOK
<1> SUFFICES ASSUME Init PROVE TypeOK
  OBVIOUS
<1>1. Rest.at = "idle" /\ Rest.host \in Hosts /\ Rest.date = FALSE /\ Rest.map = {}
  BY HostsAssumption DEF Rest
<1>2. Rest \in [at : {"idle", "sync", "put"}, host : Hosts, date : BOOLEAN, map : SUBSET Hosts]
  BY <1>1 DEF Rest
<1> QED BY <1>2 DEF Init, TypeOK

\* What a writer is doing.
Doing == [at : {"idle", "sync", "put"}, host : Hosts, date : BOOLEAN, map : SUBSET Hosts]

LEMMA TypeStep == TypeOK /\ Waiting /\ [Next]_vars => TypeOK'
<1> SUFFICES ASSUME TypeOK, Waiting, [Next]_vars PROVE TypeOK'
  OBVIOUS
<1> USE DEF readVars, refreshVars
<1>r. Rest \in Doing
  <2>1. Rest.at = "idle" /\ Rest.host \in Hosts /\ Rest.date = FALSE /\ Rest.map = {}
    BY HostsAssumption DEF Rest
  <2> QED BY <2>1 DEF Rest, Doing
<1>w. writer \in [Writers -> Doing]
  BY DEF TypeOK, Doing
<1>1. ASSUME NEW w \in Writers, NEW h \in Hosts, Commit(w, h) PROVE TypeOK'
  <2>1. PICK d \in BOOLEAN :
          writer' = [writer EXCEPT ![w] = [Rest EXCEPT !.at = "sync", !.host = h, !.date = d]]
    BY <1>1, Zenon DEF Commit
  <2> DEFINE new == [Rest EXCEPT !.at = "sync", !.host = h, !.date = d]
  <2>3. new \in Doing
    <3>1. Rest.map \subseteq Hosts
      BY <1>r DEF Doing
    <3> QED BY <3>1, <1>r DEF Doing
  <2> HIDE DEF new
  <2>2. writer' \in [Writers -> Doing]
    <3>1. writer' = [writer EXCEPT ![w] = new]
      BY <2>1 DEF new
    <3> QED BY <1>w, <2>3, <3>1
  <2> QED BY <1>1, <2>2 DEF Commit, TypeOK, Doing
<1>2. ASSUME NEW w \in Writers, Sync(w) \/ Put(w) PROVE TypeOK'
  <2>1. writer' \in [Writers -> Doing]
    <3>1. writer[w] \in Doing /\ cached \subseteq Hosts
      BY <1>w DEF TypeOK
    <3>2. [writer[w] EXCEPT !.at = "put", !.map = cached] \in Doing
      BY <3>1 DEF Doing
    <3> QED BY <1>2, <1>r, <1>w, <3>2 DEF Sync, Put
  <2>2. cached' \subseteq Hosts
    BY <1>2 DEF Sync, Put, TypeOK
  <2> QED BY <1>2, <2>1, <2>2 DEF Sync, Put, TypeOK, Doing
<1>3. CASE Refresh \/ Replace
  BY <1>3 DEF Refresh, Replace, TypeOK
<1>4. ASSUME NEW r \in Readers, Look(r) \/ ReadRow(r) \/ \E h \in Hosts : Ask(r, h) PROVE TypeOK'
  <2>1. Waiting'
    BY WaitingStep
  <2>2. UNCHANGED <<dated, loaded, cached, refreshing, found, writer>>
    BY <1>4 DEF Look, ReadRow, Ask
  <2> QED BY <2>1, <2>2 DEF TypeOK, Waiting
<1>5. CASE Restart
  <2>1. writer' \in [Writers -> Doing]
    BY <1>5, <1>r DEF Restart
  <2> QED BY <1>5, <2>1 DEF Restart, TypeOK, Doing
<1>6. CASE UNCHANGED vars
  BY <1>6 DEF vars, TypeOK
<1> QED BY <1>1, <1>2, <1>3, <1>4, <1>5, <1>6 DEF Next

\* The table's dates, the snapshot, its copies in the hands of writers and the
\* answers keep their types.
THEOREM TypeCorrect == Spec => []TypeOK
BY TypeInit, TypeStep, WaitingInit, WaitingStep, PTL DEF Spec
=============================================================================
