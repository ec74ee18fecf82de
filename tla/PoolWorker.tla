---------------------------- MODULE PoolWorker ----------------------------
(***************************************************************************)
(* The state one Pleroma.Gun.ConnectionPool.Worker keeps about its clients *)
(* and the pure part of its callbacks: what each handler makes of that     *)
(* state.  ConnectionPool.tla supplies the processes that call it.         *)
(*                                                                         *)
(* `clients` is the worker's map from a client process to its lease; a     *)
(* client that is not a key of the map has a lease whose count is 0.  The  *)
(* LRFU score (`crf`, `last_reference`) is left out: it only orders the    *)
(* reclaimer's victims, and ConnectionPool lets it pick any.               *)
(*                                                                         *)
(* A definition Mut<Name>, here and in the other modules, is <Name> with a *)
(* mistake in it; PROJECT.json names the property that tells the two apart.*)
(***************************************************************************)
EXTENDS Naturals, FiniteSets

CONSTANTS
    Clients,        \* processes that use the pool
    Streams,        \* stream references of one client (gun stream refs)
    Tokens,         \* references made for idle timers
    NoTimer         \* `timer: nil`

ASSUME NoTimerAssumption == NoTimer \notin Tokens

Protocols == {"http", "http2"}

Lease == [count : Nat, streams : SUBSET Streams]
NoLease == [count |-> 0, streams |-> {}]

WorkerState == [protocol : Protocols,
                clients  : [Clients -> Lease],
                timer    : Tokens \cup {NoTimer}]

\* A worker that is not connected has no client (its GenServer state is nil).
NoState == [protocol |-> "http",
            clients  |-> [c \in Clients |-> NoLease],
            timer    |-> NoTimer]

\* The keys of the worker's `clients` map.
LeaseHolders(st) == {c \in Clients : st.clients[c].count > 0}

\* The state handle_continue builds: the process that asked for the worker
\* holds the first lease before any other call is handled.
Connected(c, protocol) ==
    [protocol |-> protocol,
     clients  |-> [NoState.clients EXCEPT ![c] = [count |-> 1, streams |-> {}]],
     timer    |-> NoTimer]

MutBusy(st) == st.protocol # "http2" /\ Cardinality(LeaseHolders(st)) > 1

\* handle_call(:checkout) replies :busy: only an HTTP/2 connection is shared.
Busy(st) == st.protocol # "http2" /\ LeaseHolders(st) # {}

AddClient(st, c) == [st EXCEPT !.clients[c].count = @ + 1]

\* handle_call(:checkout) of a worker that is not busy.
Checkout(st, c) == [AddClient(st, c) EXCEPT !.timer = NoTimer]

MutForget(st, c, token) ==
    [st EXCEPT !.clients = NoState.clients, !.timer = token]

\* mutant: the idle timer is not started again
ForgetUntimed(st, c, token) == [st EXCEPT !.clients[c] = NoLease]

\* schedule_idle_close runs when the last client leaves.
Forget(st, c, token) ==
    LET left == [st EXCEPT !.clients[c] = NoLease]
    IN  IF LeaseHolders(left) = {} THEN [left EXCEPT !.timer = token] ELSE left

MutRemoveClient(st, c, all, token) ==
    IF st.clients[c].count > 0 /\ ~all THEN [st EXCEPT !.clients[c].count = @ - 1]
    ELSE Forget(st, c, token)

RemoveClient(st, c, all, token) ==
    CASE st.clients[c].count = 0 -> st
      [] st.clients[c].count > 1 /\ ~all -> [st EXCEPT !.clients[c].count = @ - 1]
      [] OTHER -> Forget(st, c, token)

ActiveStreams(st, c) == st.clients[c].streams

\* update_stream ignores a caller without a lease.
PutStream(st, c, s) ==
    IF st.clients[c].count = 0 THEN st
    ELSE [st EXCEPT !.clients[c].streams = @ \cup {s}]

DropStream(st, c, s) == [st EXCEPT !.clients[c].streams = @ \ {s}]

\* An HTTP/1 connection cannot abandon a response: the worker stops instead.
MustStop(st, c) == ActiveStreams(st, c) # {} /\ st.protocol # "http2"

\* The two conditions under which a worker agrees to end: :reclaim, and an
\* :idle_close message that carries the token of the current timer.
MutReclaimable(st) == st.protocol \in Protocols

Reclaimable(st) == LeaseHolders(st) = {}
IdleExpired(st, token) == token = st.timer /\ LeaseHolders(st) = {}
=============================================================================
