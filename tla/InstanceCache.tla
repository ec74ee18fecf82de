---------------------------- MODULE InstanceCache -----------------------------
(***************************************************************************)
(* Instances.Cache: a snapshot of the hosts that have a date in the table, *)
(* kept in a persistent term.  A process of its own reads the table every  *)
(* five minutes; every process that writes a row puts the whole snapshot   *)
(* back with that host added or removed, by what it believes it has        *)
(* written (InstanceHealth has the writes).  Nothing orders these puts.    *)
(***************************************************************************)
EXTENDS FiniteSets

CONSTANTS
    Hosts,      \* peers
    Writers,    \* processes that record the health of a host
    Readers     \* processes that ask for it

ASSUME HostsAssumption == Hosts # {}

VARIABLES
    dated,      \* the hosts with a date in the table
    loaded,     \* there is a snapshot
    cached,     \* the hosts in it
    refreshing, \* a refresh is in progress
    found,      \* what it has read
    writer,     \* what each writer is about to do, for which host
    asked,      \* the host each reader has asked for
    hit,        \* a reader goes on to the table
    answer      \* what it was told

readVars == <<asked, hit, answer>>
refreshVars == <<refreshing, found>>
vars == <<dated, loaded, cached, refreshVars, writer, readVars>>

TypeOK ==
    /\ dated \subseteq Hosts
    /\ loaded \in BOOLEAN /\ cached \subseteq Hosts
    /\ refreshing \in BOOLEAN /\ found \subseteq Hosts
    /\ writer \in [Writers -> [at : {"idle", "sync", "put"}, host : Hosts,
                               date : BOOLEAN, map : SUBSET Hosts]]
    /\ asked \in [Readers -> Hosts] /\ hit \in [Readers -> BOOLEAN]
    /\ answer \in [Readers -> {"none", "date", "clear"}]

Rest == [at |-> "idle", host |-> CHOOSE h \in Hosts : TRUE, date |-> FALSE, map |-> {}]

Init ==
    /\ dated = {} /\ loaded = FALSE /\ cached = {}
    /\ refreshing = FALSE /\ found = {}
    /\ writer = [w \in Writers |-> Rest]
    /\ asked \in [Readers -> Hosts]
    /\ hit = [r \in Readers |-> FALSE]
    /\ answer = [r \in Readers |-> "clear"]

\* A row is written; what the writer holds may differ from it, since only the
\* fields it changed were written.
Commit(w, h) ==
    /\ writer[w].at = "idle"
    /\ dated' \in {dated, dated \cup {h}, dated \ {h}}
    /\ \E d \in BOOLEAN :
        writer' = [writer EXCEPT ![w] = [Rest EXCEPT !.at = "sync", !.host = h, !.date = d]]
    /\ UNCHANGED <<loaded, cached, refreshVars, readVars>>

\* sync: without a snapshot there is nothing to do, else all of it is read,
\* and then all of it is written.
Sync(w) ==
    /\ writer[w].at = "sync"
    /\ writer' = [writer EXCEPT ![w] =
                    IF loaded THEN [@ EXCEPT !.at = "put", !.map = cached] ELSE Rest]
    /\ UNCHANGED <<dated, loaded, cached, refreshVars, readVars>>

Put(w) ==
    /\ writer[w].at = "put"
    /\ cached' = IF writer[w].date THEN writer[w].map \cup {writer[w].host}
                 ELSE writer[w].map \ {writer[w].host}
    /\ writer' = [writer EXCEPT ![w] = Rest]
    /\ UNCHANGED <<dated, loaded, refreshVars, readVars>>

\* The rows may change while they are read, and before the term is replaced.
Refresh ==
    /\ ~refreshing /\ refreshing' = TRUE /\ found' = dated
    /\ UNCHANGED <<dated, loaded, cached, writer, readVars>>

MutReplace ==
    /\ refreshing /\ refreshing' = FALSE /\ found' = {}
    /\ loaded' = TRUE /\ cached' = cached \cup found
    /\ UNCHANGED <<dated, writer, readVars>>
MutReplaceOnce ==
    /\ refreshing /\ refreshing' = FALSE /\ found' = {}
    /\ loaded' = TRUE /\ cached' = IF loaded THEN cached ELSE found
    /\ UNCHANGED <<dated, writer, readVars>>
Replace ==
    /\ refreshing /\ refreshing' = FALSE /\ found' = {}
    /\ loaded' = TRUE /\ cached' = found
    /\ UNCHANGED <<dated, writer, readVars>>

\* reachable?, dormant?, filter_reachable: a host that is not in the snapshot
\* has no date, for one that is, or without a snapshot, the row is read.
Ask(r, h) ==
    /\ answer[r] # "none" /\ answer' = [answer EXCEPT ![r] = "none"]
    /\ asked' = [asked EXCEPT ![r] = h]
    /\ UNCHANGED <<hit, dated, loaded, cached, refreshVars, writer>>

Look(r) ==
    /\ answer[r] = "none" /\ ~hit[r]
    /\ IF ~loaded \/ asked[r] \in cached
       THEN hit' = [hit EXCEPT ![r] = TRUE] /\ answer' = answer
       ELSE answer' = [answer EXCEPT ![r] = "clear"] /\ hit' = hit
    /\ UNCHANGED <<asked, dated, loaded, cached, refreshVars, writer>>

MutReadRow(r) ==
    /\ hit[r] /\ hit' = [hit EXCEPT ![r] = FALSE]
    /\ answer' = [answer EXCEPT ![r] = "date"]
    /\ UNCHANGED <<asked, dated, loaded, cached, refreshVars, writer>>
ReadRow(r) ==
    /\ hit[r] /\ hit' = [hit EXCEPT ![r] = FALSE]
    /\ answer' = [answer EXCEPT ![r] = IF asked[r] \in dated THEN "date" ELSE "clear"]
    /\ UNCHANGED <<asked, dated, loaded, cached, refreshVars, writer>>

\* The server restarts: the term is lost, and whatever is under way.
Restart ==
    /\ loaded /\ loaded' = FALSE /\ cached' = {}
    /\ refreshing' = FALSE /\ found' = {}
    /\ writer' = [w \in Writers |-> Rest]
    /\ hit' = [r \in Readers |-> FALSE]
    /\ answer' = [r \in Readers |-> "clear"]
    /\ UNCHANGED <<dated, asked>>

Next ==
    \/ \E w \in Writers : Sync(w) \/ Put(w) \/ \E h \in Hosts : Commit(w, h)
    \/ Refresh \/ Replace
    \/ \E r \in Readers : Look(r) \/ ReadRow(r) \/ \E h \in Hosts : Ask(r, h)
    \/ Restart

Spec == Init /\ [][Next]_vars

\* The cache's process runs, and so do those that have begun to sync.
FairSpec ==
    /\ Spec
    /\ WF_vars(Refresh) /\ WF_vars(Replace)
    /\ \A w \in Writers : WF_vars(Sync(w) \/ Put(w))

\* A host with a date comes into the snapshot, whichever puts are lost and
\* however often, or loses its date; restarts must end.
CacheRepaired ==
    <>[][~Restart]_vars =>
        \A h \in Hosts : h \in dated ~> (loaded /\ h \in cached) \/ h \notin dated

\* When no row is written any more, the snapshot becomes the table's, although
\* the last puts may have come from stale copies and in the wrong order.
CacheSettles ==
    <>[][~Restart /\ \A w \in Writers, h \in Hosts : ~Commit(w, h)]_vars =>
        <>[](loaded /\ cached = dated)

\* Whoever asks is told that there is no date, or what the table says when
\* the answer is given.
Lookup == INSTANCE InstanceLookup
LookupsKept == Lookup!LookupInit /\ [][Lookup!LookupNext]_Lookup!lookupVars
=============================================================================
