-------------------------- MODULE ConnectionPool --------------------------
(***************************************************************************)
(* Pleroma.Gun.ConnectionPool: client processes check connections out of   *)
(* worker processes they find in a Registry, start workers under a lock    *)
(* per route, and free the pool with a reclaimer process when the          *)
(* supervisor's limit is reached.                                          *)
(*                                                                         *)
(* One action is one step of one process: a Registry lookup, one           *)
(* GenServer call as the worker handles it, one message received.  A       *)
(* caller is blocked while its call is handled, so a call and its reply    *)
(* are one step of the worker, except where the caller gives up first      *)
(* (CheckoutTimeout).  Pids are reused once nothing refers to them.        *)
(***************************************************************************)
EXTENDS PoolWorker, FiniteSets

CONSTANTS
    Routes,             \* connection keys (origin and option fingerprint)
    Workers,            \* pids of pool workers
    MaxConnections,     \* max_children of the WorkerSupervisor
    ReclaimMax,         \* connections one reclaimer run may close
    OpenProtocols,      \* protocols a new connection may negotiate
    Renegotiates,       \* may a reconnect (gun_up) change the protocol?
    CallTimeouts,       \* may a checkout outlive the caller's 5 s timeout?
    MaxLeases,          \* bound: leases of one client that nobody will give back
    Mortal,             \* clients that may be killed at any point
    None                \* no worker, no route, no client

ASSUME WorkersFinite == IsFiniteSet(Workers)
ASSUME LimitAssumption == MaxConnections \in Nat \ {0} /\ ReclaimMax \in Nat \ {0}
ASSUME OpenProtocolsAssumption == OpenProtocols \subseteq Protocols
ASSUME SwitchAssumption == Renegotiates \in BOOLEAN /\ CallTimeouts \in BOOLEAN
ASSUME MaxLeasesAssumption == MaxLeases \in Nat
ASSUME MortalAssumption == Mortal \subseteq Clients
ASSUME NoneAssumption == None \notin Clients /\ None \notin Workers /\ None \notin Routes
ASSUME StreamsAssumption == Streams # {}
\* An idle timer can be made: see TimerFires for the bound Tokens sets.
ASSUME TokensAssumption == Tokens # {}

VARIABLES
    pc,         \* where each client is in get_conn or in its request
    route,      \* the key the client asked for
    todo,       \* its Registry snapshot: workers it has still to try
    opening,    \* its Registry snapshot: workers registered with nil
    target,     \* the worker it waits for
    conn,       \* the worker whose connection it uses
    stream,     \* the stream its request runs on
    inbox,      \* {:conn_pid, _} messages it has not received
    watch,      \* what it knows of the reclaimer it monitors
    lock,       \* owner of each route lock (the unique Locks registry)
    status,     \* the life of each worker process
    key,        \* the key a worker serves
    owner,      \* the client a worker opens its connection for
    state,      \* the worker's GenServer state about clients
    fired,      \* {:idle_close, token} messages in the worker's mailbox
    reg,        \* the worker's entry in the Registry
    children,   \* pids the DynamicSupervisor counts
    late,       \* <<c, w>>: a :checkout of c in w's mailbox, c gone on
    rpc,        \* the reclaimer process
    rtodo,      \* workers it has still to ask for :reclaim_info
    unused,     \* workers that answered :idle
    reclaimed   \* its count of :reclaimed answers

clientVars == <<pc, route, todo, opening, target, conn, stream, inbox, watch>>
workerVars == <<status, key, owner, state, fired, reg, children>>
reclaimVars == <<rpc, rtodo, unused, reclaimed>>
vars == <<clientVars, lock, workerVars, late, reclaimVars>>

Holding == {"using", "streaming", "finished"}
Locked == {"locked_lookup", "locked_try", "start", "reclaim", "monitor",
           "reclaim_wait", "restart"}
Running == {"idle", "lookup", "try", "lock", "await", "wait"} \cup Locked \cup Holding

Live == {"connecting", "registering", "up"}

TypeOK ==
    /\ pc \in [Clients -> Running \cup {"dead"}]
    /\ route \in [Clients -> Routes \cup {None}]
    /\ todo \in [Clients -> SUBSET Workers]
    /\ opening \in [Clients -> SUBSET Workers]
    /\ target \in [Clients -> Workers \cup {None}]
    /\ conn \in [Clients -> Workers \cup {None}]
    /\ stream \in [Clients -> Streams \cup {None}]
    /\ inbox \in [Clients -> SUBSET Workers]
    /\ watch \in [Clients -> {"none", "alive", "exited", "noproc", "normal", "no_unused_conns"}]
    /\ lock \in [Routes -> Clients \cup {None}]
    /\ status \in [Workers -> Live \cup {"dead"}]
    /\ key \in [Workers -> Routes \cup {None}]
    /\ owner \in [Workers -> Clients \cup {None}]
    /\ state \in [Workers -> WorkerState]
    /\ fired \in [Workers -> SUBSET Tokens]
    /\ reg \in [Workers -> {"none", "opening", "open"}]
    /\ children \in SUBSET Workers
    /\ late \in SUBSET (Clients \X Workers)
    /\ rpc \in {"none", "select", "info", "reclaim"}
    /\ rtodo \in SUBSET Workers
    /\ unused \in SUBSET Workers
    /\ reclaimed \in 0..ReclaimMax

Init ==
    /\ pc = [c \in Clients |-> "idle"]
    /\ route = [c \in Clients |-> None]
    /\ todo = [c \in Clients |-> {}]
    /\ opening = [c \in Clients |-> {}]
    /\ target = [c \in Clients |-> None]
    /\ conn = [c \in Clients |-> None]
    /\ stream = [c \in Clients |-> None]
    /\ inbox = [c \in Clients |-> {}]
    /\ watch = [c \in Clients |-> "none"]
    /\ lock = [k \in Routes |-> None]
    /\ status = [w \in Workers |-> "dead"]
    /\ key = [w \in Workers |-> None]
    /\ owner = [w \in Workers |-> None]
    /\ state = [w \in Workers |-> NoState]
    /\ fired = [w \in Workers |-> {}]
    /\ reg = [w \in Workers |-> "none"]
    /\ children = {}
    /\ late = {}
    /\ rpc = "none" /\ rtodo = {} /\ unused = {} /\ reclaimed = 0

(***************************************************************************)
(* Helpers                                                                 *)
(***************************************************************************)

MutRegistered(k, entry) == {w \in Workers : reg[w] = entry}
Registered(k, entry) == {w \in Workers : reg[w] = entry /\ key[w] = k}

\* A reference that is neither pending nor current: make_ref in
\* schedule_idle_close.
SpareTokens(w) == {t \in Tokens : t \notin fired[w]}
FreshToken(w) == CHOOSE t \in SpareTokens(w) : TRUE

\* A stream reference the worker does not hold for this client.
FreshStreams(c, w) == Streams \ ActiveStreams(state[w], c)

\* release_conn, call_worker and worker_for_conn find the worker in the
\* Registry by its connection; the call fails when the process is gone.
Reachable(w) == reg[w] = "open" /\ status[w] = "up"

\* A process that ends takes its mailbox with it.  Its Registry entry and its
\* place among the supervisor's children go when those processes see the exit.
EndWorker(w) ==
    /\ status' = [status EXCEPT ![w] = "dead"]
    /\ state' = [state EXCEPT ![w] = NoState]
    /\ fired' = [fired EXCEPT ![w] = {}]
    /\ late' = {m \in late : m[2] # w}

SetWorker(w, st) ==
    /\ state' = [state EXCEPT ![w] = st]
    /\ UNCHANGED <<status, fired, late>>

Unlock(c) == lock' = [k \in Routes |-> IF lock[k] = c THEN None ELSE lock[k]]

\* A pid nothing refers to: no process, no entry, no client's variable.
FreePids ==
    {w \in Workers :
        /\ status[w] = "dead" /\ reg[w] = "none" /\ w \notin children
        /\ w \notin rtodo /\ w \notin unused
        /\ \A c \in Clients : /\ w \notin todo[c] /\ w \notin opening[c] /\ w \notin inbox[c]
                              /\ target[c] # w /\ conn[c] # w}

\* max_children: the supervisor counts the children it has not seen exit.
MutHasRoom == Cardinality(children) <= MaxConnections
HasRoom == Cardinality(children) < MaxConnections

\* `_worker, count when count == reclaim_max` halts the reclaimer.
MutMayReclaim == reclaimed <= ReclaimMax
MayReclaim == reclaimed < ReclaimMax

(***************************************************************************)
(* A client in get_conn                                                    *)
(***************************************************************************)

GoTo(c, label) == pc' = [pc EXCEPT ![c] = label]

\* get_conn ends with a connection.
Take(c, w) ==
    /\ GoTo(c, "using")
    /\ conn' = [conn EXCEPT ![c] = w]
    /\ target' = [target EXCEPT ![c] = None]
    /\ todo' = [todo EXCEPT ![c] = {}]
    /\ opening' = [opening EXCEPT ![c] = {}]

\* get_conn ends with an error, or the request is over.
Finish(c) ==
    /\ GoTo(c, "idle")
    /\ route' = [route EXCEPT ![c] = None]
    /\ target' = [target EXCEPT ![c] = None]
    /\ conn' = [conn EXCEPT ![c] = None]
    /\ stream' = [stream EXCEPT ![c] = None]

Request(c) ==
    /\ pc[c] = "idle"
    /\ \E k \in Routes : route' = [route EXCEPT ![c] = k]
    /\ GoTo(c, "lookup")
    /\ UNCHANGED <<todo, opening, target, conn, stream, inbox, watch, lock, workerVars, late, reclaimVars>>

Lookup(c) ==
    /\ pc[c] = "lookup"
    /\ todo' = [todo EXCEPT ![c] = Registered(route[c], "open")]
    /\ GoTo(c, "try")
    /\ UNCHANGED <<route, opening, target, conn, stream, inbox, watch, lock, workerVars, late, reclaimVars>>

\* checkout_existing asks the next worker of the snapshot, inside the route
\* lock or before it.  Its own earlier call is ahead of it in the mailbox.
CheckoutExisting(c) ==
    /\ pc[c] \in {"try", "locked_try"}
    /\ \E w \in todo[c] :
        /\ <<c, w>> \notin late
        /\ \/ /\ status[w] = "up" /\ ~Busy(state[w])
              /\ SetWorker(w, Checkout(state[w], c))
              /\ Take(c, w)
              /\ Unlock(c)
           \/ /\ status[w] = "up" => Busy(state[w])
              /\ todo' = [todo EXCEPT ![c] = @ \ {w}]
              /\ UNCHANGED <<pc, opening, target, conn, lock, status, state, fired, late>>
    /\ UNCHANGED <<route, stream, inbox, watch, key, owner, reg, children, reclaimVars>>

\* GenServer.call(worker, :checkout, 5_000) exits with :timeout; the request
\* stays in the mailbox of the worker.
CheckoutTimeout(c) ==
    /\ CallTimeouts
    /\ pc[c] \in {"try", "locked_try"}
    /\ \E w \in todo[c] :
        /\ status[w] = "up" /\ <<c, w>> \notin late
        /\ state[w].clients[c].count < MaxLeases
        /\ todo' = [todo EXCEPT ![c] = @ \ {w}]
        /\ late' = late \cup {<<c, w>>}
    /\ UNCHANGED <<pc, route, opening, target, conn, stream, inbox, watch, lock, workerVars, reclaimVars>>

NoneAvailable(c) ==
    /\ pc[c] = "try" /\ todo[c] = {}
    /\ GoTo(c, "lock")
    /\ UNCHANGED <<route, todo, opening, target, conn, stream, inbox, watch, lock, workerVars, late, reclaimVars>>

MutLockRoute(c) ==
    /\ pc[c] = "lock"
    /\ lock' = [lock EXCEPT ![route[c]] = c]
    /\ GoTo(c, "locked_lookup")
    /\ UNCHANGED <<route, todo, opening, target, conn, stream, inbox, watch, workerVars, late, reclaimVars>>

\* with_route_lock: a client that finds the lock taken sleeps and tries again.
LockRoute(c) ==
    /\ pc[c] = "lock"
    /\ lock[route[c]] = None
    /\ lock' = [lock EXCEPT ![route[c]] = c]
    /\ GoTo(c, "locked_lookup")
    /\ UNCHANGED <<route, todo, opening, target, conn, stream, inbox, watch, workerVars, late, reclaimVars>>

\* provision works on one snapshot: the checkouts and the search for a worker
\* that is still connecting read the same list.
ProvisionLookup(c) ==
    /\ pc[c] = "locked_lookup"
    /\ todo' = [todo EXCEPT ![c] = Registered(route[c], "open")]
    /\ opening' = [opening EXCEPT ![c] = Registered(route[c], "opening")]
    /\ GoTo(c, "locked_try")
    /\ UNCHANGED <<route, target, conn, stream, inbox, watch, lock, workerVars, late, reclaimVars>>

\* {:wait, worker}
WaitForOpening(c) ==
    /\ pc[c] = "locked_try" /\ todo[c] = {}
    /\ \E w \in opening[c] : target' = [target EXCEPT ![c] = w]
    /\ opening' = [opening EXCEPT ![c] = {}]
    /\ GoTo(c, "wait")
    /\ Unlock(c)
    /\ UNCHANGED <<route, todo, conn, stream, inbox, watch, workerVars, late, reclaimVars>>

NoneOpening(c) ==
    /\ pc[c] = "locked_try" /\ todo[c] = {} /\ opening[c] = {}
    /\ GoTo(c, "start")
    /\ UNCHANGED <<route, todo, opening, target, conn, stream, inbox, watch, lock, workerVars, late, reclaimVars>>

\* DynamicSupervisor.start_child: below the limit the worker runs init, which
\* registers the key with nil, before the supervisor answers {:ok, pid}.
Spawn(c) ==
    /\ HasRoom
    /\ \E w \in FreePids :
        /\ status' = [status EXCEPT ![w] = "connecting"]
        /\ key' = [key EXCEPT ![w] = route[c]]
        /\ owner' = [owner EXCEPT ![w] = c]
        /\ reg' = [reg EXCEPT ![w] = "opening"]
        /\ children' = children \cup {w}
        /\ target' = [target EXCEPT ![c] = w]
    /\ GoTo(c, "await")
    /\ watch' = [watch EXCEPT ![c] = "none"]
    /\ Unlock(c)
    /\ UNCHANGED <<route, todo, opening, conn, stream, inbox, state, fired, late, reclaimVars>>

StartWorker(c) == pc[c] = "start" /\ Spawn(c)

PoolFull(c) ==
    /\ pc[c] = "start"
    /\ ~HasRoom
    /\ GoTo(c, "reclaim")
    /\ UNCHANGED <<route, todo, opening, target, conn, stream, inbox, watch, lock, workerVars, late, reclaimVars>>

\* Reclaimer.start_monitor, first half: the pid of a new or of the running
\* reclaimer.
StartReclaimer(c) ==
    /\ pc[c] = "reclaim"
    /\ rpc' = IF rpc = "none" THEN "select" ELSE rpc
    /\ watch' = [watch EXCEPT ![c] = "alive"]
    /\ GoTo(c, "monitor")
    /\ UNCHANGED <<route, todo, opening, target, conn, stream, inbox, lock, workerVars, late, rtodo, unused, reclaimed>>

\* Second half: a monitor on a process that has already ended delivers :noproc.
MonitorReclaimer(c) ==
    /\ pc[c] = "monitor"
    /\ watch' = [watch EXCEPT ![c] = IF @ = "exited" THEN "noproc" ELSE @]
    /\ GoTo(c, "reclaim_wait")
    /\ UNCHANGED <<route, todo, opening, target, conn, stream, inbox, lock, workerVars, late, reclaimVars>>

\* wait_for_reclaimer_finish matches two exit reasons and has no timeout.
ReclaimerDown(c) ==
    /\ pc[c] = "reclaim_wait"
    /\ watch[c] \in {"normal", "no_unused_conns"}
    /\ watch' = [watch EXCEPT ![c] = "none"]
    /\ GoTo(c, "restart")
    /\ UNCHANGED <<route, todo, opening, target, conn, stream, inbox, lock, workerVars, late, reclaimVars>>

RestartWorker(c) == pc[c] = "restart" /\ Spawn(c)

MutGiveUp(c) ==
    /\ pc[c] = "restart"
    /\ ~HasRoom
    /\ Finish(c)
    /\ UNCHANGED <<todo, opening, inbox, watch, lock, workerVars, late, reclaimVars>>

\* {:error, :pool_full}
GiveUp(c) ==
    /\ pc[c] = "restart"
    /\ ~HasRoom
    /\ Finish(c)
    /\ Unlock(c)
    /\ UNCHANGED <<todo, opening, inbox, watch, workerVars, late, reclaimVars>>

\* get_gun_pid_from_worker receives any {:conn_pid, _} message.
ReceiveConn(c) ==
    /\ pc[c] = "await"
    /\ \E w \in inbox[c] :
        /\ inbox' = [inbox EXCEPT ![c] = @ \ {w}]
        /\ Take(c, w)
    /\ UNCHANGED <<route, stream, watch, lock, workerVars, late, reclaimVars>>

MutReceiveDown(c) ==
    /\ pc[c] = "await"
    /\ status[target[c]] = "dead"
    /\ Finish(c)
    /\ UNCHANGED <<todo, opening, inbox, watch, lock, workerVars, late, reclaimVars>>

\* The :DOWN of the worker comes after a message the worker sent.
ReceiveDown(c) ==
    /\ pc[c] = "await" /\ inbox[c] = {}
    /\ status[target[c]] = "dead"
    /\ Finish(c)
    /\ UNCHANGED <<todo, opening, inbox, watch, lock, workerVars, late, reclaimVars>>

\* checkout_worker(worker, :infinity) on a worker that was connecting.
WaitCheckout(c) ==
    /\ pc[c] = "wait"
    /\ <<c, target[c]>> \notin late
    /\ status[target[c]] = "up" /\ ~Busy(state[target[c]])
    /\ SetWorker(target[c], Checkout(state[target[c]], c))
    /\ Take(c, target[c])
    /\ UNCHANGED <<route, stream, inbox, watch, lock, key, owner, reg, children, reclaimVars>>

WaitBusy(c) ==
    /\ pc[c] = "wait"
    /\ <<c, target[c]>> \notin late
    /\ status[target[c]] = "up" /\ Busy(state[target[c]])
    /\ target' = [target EXCEPT ![c] = None]
    /\ GoTo(c, "lookup")
    /\ UNCHANGED <<route, todo, opening, conn, stream, inbox, watch, lock, workerVars, late, reclaimVars>>

WaitExit(c) ==
    /\ pc[c] = "wait"
    /\ status[target[c]] = "dead"
    /\ Finish(c)
    /\ UNCHANGED <<todo, opening, inbox, watch, lock, workerVars, late, reclaimVars>>

(***************************************************************************)
(* A client that holds a connection                                        *)
(***************************************************************************)

RegisterStream(c) ==
    /\ pc[c] = "using"
    /\ \E s \in IF Reachable(conn[c]) THEN FreshStreams(c, conn[c]) ELSE Streams :
        /\ stream' = [stream EXCEPT ![c] = s]
        /\ IF Reachable(conn[c])
           THEN SetWorker(conn[c], PutStream(state[conn[c]], c, s))
           ELSE UNCHANGED <<status, state, fired, late>>
    /\ <<c, conn[c]>> \notin late
    /\ GoTo(c, "streaming")
    /\ UNCHANGED <<route, todo, opening, target, conn, inbox, watch, lock, key, owner, reg, children, reclaimVars>>

FinishStream(c) ==
    /\ pc[c] = "streaming"
    /\ <<c, conn[c]>> \notin late
    /\ IF Reachable(conn[c])
       THEN SetWorker(conn[c], DropStream(state[conn[c]], c, stream[c]))
       ELSE UNCHANGED <<status, state, fired, late>>
    /\ GoTo(c, "finished")
    /\ UNCHANGED <<route, todo, opening, target, conn, stream, inbox, watch, lock, key, owner, reg, children, reclaimVars>>

\* The end of a request: the worker handles the call if it is still there.
EndRequest(c) ==
    /\ <<c, conn[c]>> \notin late
    /\ Finish(c)
    /\ UNCHANGED <<todo, opening, inbox, watch, lock, key, owner, reg, reclaimVars>>

\* release_conn / :remove_client
ReleaseConn(c) ==
    LET w == conn[c] IN
    /\ pc[c] \in Holding
    /\ EndRequest(c)
    /\ CASE ~Reachable(w) -> UNCHANGED <<status, state, fired, late>>
         [] Reachable(w) /\ MustStop(state[w], c) -> EndWorker(w)
         [] OTHER -> SetWorker(w, RemoveClient(state[w], c, FALSE, FreshToken(w)))
    /\ UNCHANGED children

MutReleaseStream(c) ==
    LET w == conn[c] IN
    /\ pc[c] = "streaming"
    /\ EndRequest(c)
    /\ IF Reachable(w)
       THEN SetWorker(w, DropStream(state[w], c, stream[c]))
       ELSE UNCHANGED <<status, state, fired, late>>
    /\ UNCHANGED children

\* release_stream: the body was read to its end.
ReleaseStream(c) ==
    LET w == conn[c] IN
    /\ pc[c] = "streaming"
    /\ EndRequest(c)
    /\ IF Reachable(w)
       THEN SetWorker(w, RemoveClient(DropStream(state[w], c, stream[c]), c, FALSE, FreshToken(w)))
       ELSE UNCHANGED <<status, state, fired, late>>
    /\ UNCHANGED children

\* cancel_stream: the response failed, timed out or is not wanted any more.
CancelStream(c) ==
    LET w == conn[c] IN
    /\ pc[c] = "streaming"
    /\ EndRequest(c)
    /\ CASE ~Reachable(w) -> UNCHANGED <<status, state, fired, late>>
         [] Reachable(w) /\ state[w].protocol # "http2" -> EndWorker(w)
         [] OTHER ->
              SetWorker(w, RemoveClient(DropStream(state[w], c, stream[c]), c, FALSE, FreshToken(w)))
    /\ UNCHANGED children

\* discard_conn: the supervisor terminates the worker, whoever else uses it.
DiscardConn(c) ==
    LET w == conn[c] IN
    /\ pc[c] \in {"using", "finished"}
    /\ EndRequest(c)
    /\ IF Reachable(w)
       THEN EndWorker(w) /\ children' = children \ {w}
       ELSE UNCHANGED <<status, state, fired, late, children>>

\* The answer was a redirect whose body is still open, and the middlewares
\* outside the pool's follow no more redirects, or refuse this one: their error
\* carries no connection, so nobody calls the worker.  Bound: the leases that
\* this may add up.
DropResponse(c) ==
    /\ pc[c] = "streaming"
    /\ state[conn[c]].clients[c].count <= MaxLeases
    /\ Finish(c)
    /\ UNCHANGED <<todo, opening, inbox, watch, lock, workerVars, late, reclaimVars>>

\* A client process is killed; the Locks registry drops its entries.
Crash(c) ==
    /\ c \in Mortal /\ pc[c] # "dead"
    /\ GoTo(c, "dead")
    /\ route' = [route EXCEPT ![c] = None]
    /\ todo' = [todo EXCEPT ![c] = {}]
    /\ opening' = [opening EXCEPT ![c] = {}]
    /\ target' = [target EXCEPT ![c] = None]
    /\ conn' = [conn EXCEPT ![c] = None]
    /\ stream' = [stream EXCEPT ![c] = None]
    /\ inbox' = [inbox EXCEPT ![c] = {}]
    /\ watch' = [watch EXCEPT ![c] = "none"]
    /\ Unlock(c)
    /\ UNCHANGED <<workerVars, late, reclaimVars>>

\* A new process takes the identity once no worker refers to the old one.
Respawn(c) ==
    /\ pc[c] = "dead"
    /\ \A w \in Workers : /\ state[w].clients[c].count = 0
                          /\ owner[w] # c
                          /\ <<c, w>> \notin late
    /\ GoTo(c, "idle")
    /\ UNCHANGED <<route, todo, opening, target, conn, stream, inbox, watch, lock, workerVars, late, reclaimVars>>

(***************************************************************************)
(* A worker                                                                *)
(***************************************************************************)

\* Gun.Conn.open returned a connection; the nil entry is unregistered first.
OpenConn(w) ==
    /\ status[w] = "connecting"
    /\ status' = [status EXCEPT ![w] = "registering"]
    /\ reg' = [reg EXCEPT ![w] = "none"]
    /\ UNCHANGED <<clientVars, lock, key, owner, state, fired, children, late, reclaimVars>>

MutRegisterConn(w) ==
    /\ status[w] = "registering"
    /\ status' = [status EXCEPT ![w] = "up"]
    /\ reg' = [reg EXCEPT ![w] = "open"]
    /\ \E p \in OpenProtocols : state' = [state EXCEPT ![w] = Connected(owner[w], p)]
    /\ owner' = [owner EXCEPT ![w] = None]
    /\ UNCHANGED <<clientVars, lock, key, fired, children, late, reclaimVars>>

\* ... and the connection registered, its pid sent to the client that asked.
\* A dead client gets no message, and its monitor fires (ClientDown).
RegisterConn(w) ==
    /\ status[w] = "registering"
    /\ status' = [status EXCEPT ![w] = "up"]
    /\ reg' = [reg EXCEPT ![w] = "open"]
    /\ \E p \in OpenProtocols : state' = [state EXCEPT ![w] = Connected(owner[w], p)]
    /\ owner' = [owner EXCEPT ![w] = None]
    /\ inbox' = [inbox EXCEPT ![owner[w]] = IF pc[owner[w]] = "dead" THEN @ ELSE @ \cup {w}]
    /\ UNCHANGED <<pc, route, todo, opening, target, conn, stream, watch, lock, key, fired, children, late, reclaimVars>>

\* Gun.Conn.open failed or timed out: {:stop, {:shutdown, error}, nil}; or the
\* gun process was gone when the worker linked to it.
OpenFails(w) ==
    /\ status[w] \in {"connecting", "registering"}
    /\ EndWorker(w)
    /\ owner' = [owner EXCEPT ![w] = None]
    /\ key' = IF reg[w] = "none" THEN [key EXCEPT ![w] = None] ELSE key
    /\ UNCHANGED <<clientVars, lock, reg, children, reclaimVars>>

\* The idle timer sends its message.  Bound: only while a reference is left
\* for the next timer.
TimerFires(w) ==
    /\ status[w] = "up"
    /\ state[w].timer \in SpareTokens(w)
    /\ SpareTokens(w) # {state[w].timer}
    /\ fired' = [fired EXCEPT ![w] = @ \cup {state[w].timer}]
    /\ UNCHANGED <<clientVars, lock, status, key, owner, state, reg, children, late, reclaimVars>>

\* handle_info({:idle_close, token}): a token of an older timer is ignored.
IdleClose(w) ==
    /\ status[w] = "up"
    /\ \E t \in fired[w] :
        IF IdleExpired(state[w], t) THEN EndWorker(w)
        ELSE fired' = [fired EXCEPT ![w] = @ \ {t}] /\ UNCHANGED <<status, state, late>>
    /\ UNCHANGED <<clientVars, lock, key, owner, reg, children, reclaimVars>>

MutClientDown(w) ==
    /\ status[w] = "up"
    /\ \E c \in LeaseHolders(state[w]) :
        /\ pc[c] = "dead" /\ ActiveStreams(state[w], c) = {}
        /\ SetWorker(w, RemoveClient(state[w], c, TRUE, FreshToken(w)))
    /\ UNCHANGED <<clientVars, lock, key, owner, reg, children, reclaimVars>>

\* handle_info({:DOWN, ...}) of a client that died with a lease.
ClientDown(w) ==
    /\ status[w] = "up"
    /\ \E c \in LeaseHolders(state[w]) :
        /\ pc[c] = "dead"
        /\ IF MustStop(state[w], c) THEN EndWorker(w)
           ELSE SetWorker(w, RemoveClient(state[w], c, TRUE, FreshToken(w)))
    /\ UNCHANGED <<clientVars, lock, key, owner, reg, children, reclaimVars>>

\* gun_down without streams or behind a proxy stops the worker; a gun process
\* that has used up its retries exits and takes the linked worker with it.
ConnLost(w) ==
    /\ status[w] = "up"
    /\ EndWorker(w)
    /\ UNCHANGED <<clientVars, lock, key, owner, reg, children, reclaimVars>>

\* gun_down with streams keeps the worker; gun_up sets the new protocol.
GunUp(w) ==
    /\ Renegotiates
    /\ status[w] = "up"
    /\ \E p \in OpenProtocols \ {state[w].protocol} :
        SetWorker(w, [state[w] EXCEPT !.protocol = p])
    /\ UNCHANGED <<clientVars, lock, key, owner, reg, children, reclaimVars>>

\* The worker comes to a :checkout whose caller has given up.  The reply goes
\* to nobody.
LateCheckout(w) ==
    /\ status[w] = "up"
    /\ \E c \in Clients :
        /\ <<c, w>> \in late
        /\ late' = late \ {<<c, w>>}
        /\ state' = IF Busy(state[w]) THEN state
                    ELSE [state EXCEPT ![w] = Checkout(state[w], c)]
    /\ UNCHANGED <<clientVars, lock, status, key, owner, fired, reg, children, reclaimVars>>

\* The Registry, and the supervisor, see the exit of a worker.
Unregister(w) ==
    /\ status[w] = "dead" /\ reg[w] # "none"
    /\ reg' = [reg EXCEPT ![w] = "none"]
    /\ key' = [key EXCEPT ![w] = None]
    /\ UNCHANGED <<clientVars, lock, status, owner, state, fired, children, late, reclaimVars>>

Reap(w) ==
    /\ status[w] = "dead" /\ w \in children
    /\ children' = children \ {w}
    /\ UNCHANGED <<clientVars, lock, status, key, owner, state, fired, reg, late, reclaimVars>>

(***************************************************************************)
(* The reclaimer                                                           *)
(***************************************************************************)

SelectWorkers ==
    /\ rpc = "select"
    /\ rtodo' = {w \in Workers : reg[w] = "open"}
    /\ rpc' = "info"
    /\ UNCHANGED <<clientVars, lock, workerVars, late, unused, reclaimed>>

ReclaimInfo ==
    /\ rpc = "info"
    /\ \E w \in rtodo :
        /\ rtodo' = rtodo \ {w}
        /\ unused' = IF status[w] = "up" /\ Reclaimable(state[w]) THEN unused \cup {w} ELSE unused
    /\ UNCHANGED <<clientVars, lock, workerVars, late, rpc, reclaimed>>

\* The reclaimer ends; its monitors get the reason, a client that has not
\* set its monitor yet gets nothing.
ReclaimerExit(reason) ==
    /\ rpc' = "none" /\ rtodo' = {} /\ unused' = {} /\ reclaimed' = 0
    /\ watch' = [c \in Clients |->
                    IF watch[c] # "alive" THEN watch[c]
                    ELSE IF pc[c] = "reclaim_wait" THEN reason ELSE "exited"]
    /\ UNCHANGED <<pc, route, todo, opening, target, conn, stream, inbox, lock, workerVars, late>>

NothingUnused ==
    /\ rpc = "info" /\ rtodo = {} /\ unused = {}
    /\ ReclaimerExit("no_unused_conns")

SomeUnused ==
    /\ rpc = "info" /\ rtodo = {} /\ unused # {}
    /\ rpc' = "reclaim"
    /\ UNCHANGED <<clientVars, lock, workerVars, late, rtodo, unused, reclaimed>>

\* The worker decides again: it may have a client since it said :idle.
Reclaim ==
    /\ rpc = "reclaim" /\ MayReclaim
    /\ \E w \in unused :
        /\ unused' = unused \ {w}
        /\ IF status[w] = "up" /\ Reclaimable(state[w])
           THEN EndWorker(w) /\ reclaimed' = reclaimed + 1
           ELSE UNCHANGED <<status, state, fired, late, reclaimed>>
    /\ UNCHANGED <<clientVars, lock, key, owner, reg, children, rpc, rtodo>>

ReclaimDone ==
    /\ rpc = "reclaim" /\ (unused = {} \/ ~MayReclaim)
    /\ ReclaimerExit("normal")

-----------------------------------------------------------------------------
Acquire(c) ==
    \/ Request(c) \/ Lookup(c) \/ CheckoutExisting(c) \/ CheckoutTimeout(c) \/ NoneAvailable(c)
    \/ LockRoute(c) \/ ProvisionLookup(c) \/ WaitForOpening(c) \/ NoneOpening(c)
    \/ StartWorker(c) \/ PoolFull(c) \/ StartReclaimer(c) \/ MonitorReclaimer(c)
    \/ ReclaimerDown(c) \/ RestartWorker(c) \/ GiveUp(c)
    \/ ReceiveConn(c) \/ ReceiveDown(c) \/ WaitCheckout(c) \/ WaitBusy(c) \/ WaitExit(c)

Use(c) ==
    \/ RegisterStream(c) \/ FinishStream(c) \/ ReleaseConn(c) \/ ReleaseStream(c)
    \/ CancelStream(c) \/ DiscardConn(c) \/ DropResponse(c)

WorkerStep(w) ==
    \/ OpenConn(w) \/ RegisterConn(w) \/ OpenFails(w) \/ TimerFires(w) \/ IdleClose(w)
    \/ ClientDown(w) \/ ConnLost(w) \/ GunUp(w) \/ LateCheckout(w) \/ Unregister(w) \/ Reap(w)

ReclaimerStep == SelectWorkers \/ ReclaimInfo \/ NothingUnused \/ SomeUnused \/ Reclaim \/ ReclaimDone

Next ==
    \/ \E c \in Clients : Acquire(c) \/ Use(c) \/ Crash(c) \/ Respawn(c)
    \/ \E w \in Workers : WorkerStep(w)
    \/ ReclaimerStep

Spec == Init /\ [][Next]_vars

(***************************************************************************)
(* Fairness: a process that can go on does.  Opening a connection ends     *)
(* (connect_timeout), a request ends (the adapter's receive timeouts), a   *)
(* timer fires, exits are seen.  Nobody has to make a request or die, and  *)
(* no connection has to break.                                             *)
(***************************************************************************)
Proceed(c) == Acquire(c) /\ pc[c] # "idle"

Fairness ==
    /\ \A c \in Clients : WF_vars(Proceed(c)) /\ WF_vars(Use(c))
    /\ \A w \in Workers :
        /\ WF_vars(OpenConn(w) \/ OpenFails(w)) /\ WF_vars(RegisterConn(w))
        /\ WF_vars(TimerFires(w)) /\ WF_vars(IdleClose(w))
        /\ WF_vars(ClientDown(w)) /\ WF_vars(Unregister(w)) /\ WF_vars(Reap(w))
        /\ \A c \in Clients : WF_vars(LateCheckout(w) /\ <<c, w>> \in late \ late')
    /\ WF_vars(ReclaimerStep)

FairSpec == Spec /\ Fairness

(***************************************************************************)
(* Properties                                                              *)
(***************************************************************************)

Uses(c, w) == conn[c] = w \/ w \in inbox[c]

\* max_children bounds the processes that exist, also while the supervisor
\* has yet to see exits, and every one of them is counted.
LimitRespected ==
    /\ {w \in Workers : status[w] \in Live} \subseteq children
    /\ Cardinality(children) <= MaxConnections

\* Whoever has been given a connection, or is being sent one, holds a lease at
\* its worker for as long as the worker lives: this is what keeps the idle
\* timer and the reclaimer off a connection in use (worker.ex, clients map).
HeldIsLeased ==
    \A c \in Clients, w \in Workers :
        status[w] = "up" /\ Uses(c, w) => state[w].clients[c].count > 0

\* The streams that c has open at w and no request of c will end.
Abandoned(c, w) ==
    state[w].clients[c].streams
        \ (IF pc[c] = "streaming" /\ conn[c] = w THEN {stream[c]} ELSE {})

\* A lease is kept until the body is consumed or cancelled (adapter_helper/
\* gun.ex:49), and no longer: it belongs to a client that uses the connection,
\* to a dead one whose :DOWN is on its way, or to one that has left a stream
\* open there, so every other connection becomes idle.  Holds while no
\* checkout outlives its caller.
NoStrayLease ==
    \A c \in Clients, w \in Workers :
        /\ state[w].clients[c].count > 0 =>
            Uses(c, w) \/ pc[c] = "dead" \/ Abandoned(c, w) # {}
        /\ state[w].clients[c].count > 1 => pc[c] = "dead" \/ Abandoned(c, w) # {}

\* An HTTP/1 connection is used by one client at a time.
Http1Exclusive ==
    \A w \in Workers, c, d \in Clients :
        status[w] = "up" /\ state[w].protocol = "http" /\ Uses(c, w) /\ Uses(d, w) => c = d

\* Two clients never open connections for one route at the same time: the
\* route lock and the nil entry that is there before the lock is released.
OneOpeningPerRoute ==
    \A v, w \in Workers :
        status[v] = "connecting" /\ status[w] = "connecting" /\ key[v] = key[w] => v = w

\* get_gun_pid_from_worker takes any {:conn_pid, _} message; the only one that
\* can be there is from the worker this client started.
OnlyOwnConn ==
    \A c \in Clients : inbox[c] # {} => pc[c] = "await" /\ inbox[c] = {target[c]}

\* What IdleEnds rests on: a connection has an idle timer from the moment its
\* last client leaves, however it leaves, and none while it has a client.
IdleIsTimed ==
    \A w \in Workers :
        status[w] = "up" => (LeaseHolders(state[w]) = {} <=> state[w].timer # NoTimer)

\* The worker a client has started opens the connection for this client, has
\* sent it, or is gone; the reclaimer it monitors is there or has told how it
\* ended, except that a monitor set too late brings :noproc.
Expected(c) ==
    /\ pc[c] = "await" =>
        \/ inbox[c] # {} \/ status[target[c]] = "dead"
        \/ status[target[c]] # "up" /\ owner[target[c]] = c
    /\ pc[c] = "monitor" => watch[c] = "exited" \/ (watch[c] = "alive" /\ rpc # "none")
    /\ pc[c] = "reclaim_wait" =>
        \/ watch[c] \in {"normal", "no_unused_conns", "noproc"}
        \/ watch[c] = "alive" /\ rpc # "none"

\* What WaitersAnswered and LockReleasedUnlessNoproc rest on: nobody waits for
\* what cannot come.
WaitersExpected == \A c \in Clients : Expected(c)

\* A worker that ends by its idle timer or at the reclaimer's request leaves
\* nobody with its connection, and the idle timer that ends it is the one
\* started when the last client left, not one an intervening checkout
\* cancelled after its message was sent.
NoEviction ==
    [][\A w \in Workers :
        (IdleClose(w) \/ Reclaim) /\ status[w] = "up" /\ status'[w] = "dead" =>
            /\ \A c \in Clients : ~Uses(c, w)
            /\ IdleClose(w) => state[w].timer \in fired[w]]_vars

\* The route lock is given back: nobody keeps the other clients of a route in
\* the retry loop of with_route_lock for ever.
LockReleased == \A c \in Clients, k \in Routes : lock[k] = c ~> lock[k] # c

\* The only way to keep it is to have monitored a reclaimer that was already
\* gone: every other path through provision gives the lock back.
LockReleasedUnlessNoproc ==
    \A c \in Clients, k \in Routes : lock[k] = c ~> lock[k] # c \/ watch[c] = "noproc"

\* A client that waits for a worker to connect, its own or another's, is
\* answered: with a connection, :busy or the worker's exit.
WaitersAnswered ==
    \A c \in Clients : pc[c] \in {"await", "wait"} ~> pc[c] \notin {"await", "wait"}

\* Nothing of a dead client stays in the pool: its leases, its unfinished
\* start and its abandoned calls all go.
DeadForgotten ==
    \A c \in Clients, w \in Workers :
        pc[c] = "dead" ~> (state[w].clients[c].count = 0 /\ owner[w] # c /\ <<c, w>> \notin late)

\* A connection nobody leases is taken again or closed.
IdleEnds ==
    \A w \in Workers :
        status[w] = "up" /\ LeaseHolders(state[w]) = {} ~>
            status[w] = "dead" \/ LeaseHolders(state[w]) # {}

(***************************************************************************)
(* The pool as its clients see it (LeaseService): a worker that is up is   *)
(* an open connection, and a client has been given one from the moment its *)
(* pid is sent.                                                            *)
(***************************************************************************)

Held == [c \in Clients |-> IF inbox[c] # {} THEN target[c] ELSE conn[c]]
Serves == [w \in Workers |-> IF status[w] = "up" THEN key[w] ELSE None]
Shared == {w \in Workers : status[w] = "up" /\ state[w].protocol = "http2"}

Service == INSTANCE LeaseService WITH
             wants <- route, held <- Held, serves <- Serves, shared <- Shared

\* Through lookups whose answers are old, workers that are still connecting,
\* idle timers and the reclaimer, a client gets a connection of the route it
\* asked for, open and not somebody else's, and the number of open ones keeps
\* the limit: the pool implements LeaseService.
LeasesKept == Service!ServiceInit /\ [][Service!ServiceStep]_Service!serviceVars

(***************************************************************************)
(* Invariants the safety properties rest on (ConnectionPoolProofs).        *)
(***************************************************************************)

\* A connection that is being opened belongs to nobody yet but is expected by
\* the client that asked for it, unless that client is dead: so the message
\* {:conn_pid, _} finds its receiver, and the lease RegisterConn writes finds
\* the client that will hold it.
LeaseInv ==
    /\ OnlyOwnConn
    /\ HeldIsLeased
    /\ \A c \in Clients : conn[c] # None => pc[c] \in Holding
    /\ \A w \in Workers :
        status[w] \in {"connecting", "registering"} =>
            /\ \A c \in Clients : ~Uses(c, w)
            /\ LET c == owner[w]
               IN  pc[c] = "dead" \/ (pc[c] = "await" /\ target[c] = w /\ inbox[c] = {})

\* At an HTTP/1 worker there is at most one lease.
SingleLease ==
    \A w \in Workers : status[w] = "up" /\ state[w].protocol = "http" =>
        \A c, d \in LeaseHolders(state[w]) : c = d

\* What the holder of a route lock knows of the workers that are connecting:
\* after its lookup all those of the route are in its snapshot, and once it
\* has decided to start one there are none.
RouteInv ==
    /\ OneOpeningPerRoute
    /\ \A c \in Clients :
        /\ pc[c] \notin {"idle", "dead"} => route[c] \in Routes
        /\ pc[c] \in Locked => lock[route[c]] = c
    /\ \A w \in Workers : status[w] = "connecting" => reg[w] = "opening"
    /\ \A c \in Clients, w \in Workers :
        status[w] = "connecting" /\ key[w] = route[c] =>
            /\ pc[c] = "locked_try" => w \in opening[c]
            /\ pc[c] \in Locked => pc[c] \in {"locked_lookup", "locked_try"}

Refers(c, w) == w \in todo[c] \/ w \in opening[c] \/ target[c] = w \/ Uses(c, w)

\* with_route_lock: whoever has left provision, with a worker, an error or an
\* exit, has left its route lock behind, and inside it has no other.
LockHeldInside ==
    \A c \in Clients, k \in Routes : lock[k] = c => pc[c] \in Locked /\ route[c] = k

\* A client that is not in get_conn and has no connection wants none, and the
\* workers a client refers to, in its snapshot or as the one it waits for or
\* uses, serve its route for as long as they live: their pids are not reused.
KeyInv ==
    /\ \A c \in Clients :
        /\ pc[c] \in {"idle", "dead"} <=> route[c] = None
        /\ todo[c] # {} => pc[c] \in {"try", "locked_try"}
        /\ opening[c] # {} => pc[c] = "locked_try"
        /\ target[c] # None => pc[c] \in {"await", "wait"}
        /\ \A w \in Workers : status[w] # "dead" /\ Refers(c, w) => key[w] = route[c]
    /\ \A w \in Workers : status[w] # "dead" => key[w] \in Routes

\* Where checkouts answer in time: a lease is at a connected worker, which the
\* Registry still shows, and knows of the stream its client reads.
StrayInv ==
    /\ NoStrayLease
    /\ late = {}
    /\ \A w \in Workers :
        /\ status[w] = "up" => reg[w] = "open"
        /\ status[w] # "up" => \A c \in Clients : state[w].clients[c].count = 0
    /\ \A c \in Clients, w \in Workers :
        status[w] = "up" /\ pc[c] = "streaming" /\ conn[c] = w =>
            stream[c] \in ActiveStreams(state[w], c)
=============================================================================
