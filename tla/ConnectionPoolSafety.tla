----------------------- MODULE ConnectionPoolSafety -----------------------
(***************************************************************************)
(* The safety theorems of ConnectionPool: leases cover use, HTTP/1         *)
(* connections are exclusive, idle closing evicts nobody, a route opens    *)
(* one connection at a time, the limit is kept, route locks are given      *)
(* back; and together: the pool implements LeaseService.                   *)
(***************************************************************************)
EXTENDS ConnectionPoolProofs

(***************************************************************************)
(* What the worker's callbacks do to its table of leases.                  *)
(***************************************************************************)

LEMMA CheckoutLease ==
  ASSUME NEW st \in WorkerState, NEW c \in Clients
  PROVE  /\ Checkout(st, c).protocol = st.protocol
         /\ Checkout(st, c).clients[c].count > 0
         /\ \A d \in Clients \ {c} : Checkout(st, c).clients[d] = st.clients[d]
  <1>1. /\ AddClient(st, c).protocol = st.protocol
        /\ AddClient(st, c).clients[c].count = st.clients[c].count + 1
        /\ \A d \in Clients \ {c} : AddClient(st, c).clients[d] = st.clients[d]
        /\ AddClient(st, c) \in WorkerState
    BY DEF AddClient, WorkerState, Lease
  <1>2. Checkout(st, c).clients = AddClient(st, c).clients
    BY <1>1 DEF Checkout, WorkerState
  <1>3. Checkout(st, c).protocol = AddClient(st, c).protocol
    BY <1>1 DEF Checkout, WorkerState
  <1> QED
    BY <1>1, <1>2, <1>3 DEF WorkerState, Lease

LEMMA StreamLease ==
  ASSUME NEW st \in WorkerState, NEW c \in Clients, NEW s
  PROVE  /\ PutStream(st, c, s).protocol = st.protocol
         /\ DropStream(st, c, s).protocol = st.protocol
         /\ \A d \in Clients : /\ PutStream(st, c, s).clients[d].count = st.clients[d].count
                               /\ DropStream(st, c, s).clients[d].count = st.clients[d].count
  BY DEF PutStream, DropStream, WorkerState, Lease

LEMMA RemoveClientLease ==
  ASSUME NEW st \in WorkerState, NEW c \in Clients, NEW all \in BOOLEAN, NEW t \in Tokens
  PROVE  /\ RemoveClient(st, c, all, t).protocol = st.protocol
         /\ \A d \in Clients \ {c} :
                RemoveClient(st, c, all, t).clients[d].count = st.clients[d].count
         /\ LeaseHolders(RemoveClient(st, c, all, t)) \subseteq LeaseHolders(st)
  <1>1. /\ Forget(st, c, t).protocol = st.protocol
        /\ \A d \in Clients \ {c} : Forget(st, c, t).clients[d].count = st.clients[d].count
        /\ Forget(st, c, t).clients[c].count = 0
    BY DEF Forget, NoLease, WorkerState, Lease
  <1>2. CASE st.clients[c].count > 1 /\ ~all
    BY <1>2 DEF RemoveClient, LeaseHolders, WorkerState, Lease
  <1> QED
    BY <1>1, <1>2 DEF RemoveClient, LeaseHolders

LEMMA ConnectedLease ==
  ASSUME NEW c \in Clients, NEW p \in Protocols
  PROVE  /\ Connected(c, p).protocol = p
         /\ Connected(c, p).clients[c].count = 1
         /\ LeaseHolders(Connected(c, p)) = {c}
  BY DEF Connected, NoState, NoLease, LeaseHolders

(***************************************************************************)
(* LeaseInv is inductive.                                                  *)
(***************************************************************************)

\* A step after which client c has no connection and none is sent to it, and
\* everybody else is where they were, with the leases they use.
LEMMA LeaseFrame ==
  ASSUME TypeInv, LeaseInv, NEW c \in Clients,
         conn'[c] = None, inbox'[c] = {},
         \A d \in Clients \ {c} : /\ conn'[d] = conn[d] /\ inbox'[d] = inbox[d]
                                  /\ pc'[d] = pc[d] /\ target'[d] = target[d],
         \A v \in Workers : status'[v] = status[v] \/ status'[v] = "dead",
         \A v \in Workers, d \in Clients \ {c} :
            status'[v] = "up" /\ Uses(d, v) => state'[v].clients[d].count > 0,
         \A v \in Workers : status'[v] \in {"connecting", "registering"} =>
            owner'[v] = owner[v] /\ (owner[v] # c \/ pc'[c] = "dead")
  PROVE  LeaseInv'
  <1>1. \A v \in Workers : /\ ~Uses(c, v)'
                           /\ \A d \in Clients \ {c} : Uses(d, v)' <=> Uses(d, v)
    BY NoneAssumption DEF Uses
  <1>2. OnlyOwnConn'
    BY DEF LeaseInv, OnlyOwnConn
  <1>3. HeldIsLeased'
    BY <1>1 DEF HeldIsLeased
  <1>4. \A d \in Clients : conn'[d] # None => pc'[d] \in Holding
    BY DEF LeaseInv
  <1>5. ASSUME NEW v \in Workers, status'[v] \in {"connecting", "registering"}
        PROVE  /\ \A d \in Clients : ~Uses(d, v)'
               /\ \/ pc'[owner'[v]] = "dead"
                  \/ /\ pc'[owner'[v]] = "await"
                     /\ target'[owner'[v]] = v /\ inbox'[owner'[v]] = {}
    <2>1. status[v] = status'[v] /\ owner[v] \in Clients
      BY <1>5 DEF TypeInv, Located
    <2>2. \A d \in Clients : ~Uses(d, v)
      BY <1>5, <2>1 DEF LeaseInv
    <2>3. \/ pc[owner[v]] = "dead"
          \/ pc[owner[v]] = "await" /\ target[owner[v]] = v /\ inbox[owner[v]] = {}
      BY <1>5, <2>1 DEF LeaseInv
    <2> QED BY <1>1, <1>5, <2>1, <2>2, <2>3
  <1> QED BY <1>2, <1>3, <1>4, <1>5 DEF LeaseInv

\* A step of a client that neither gets nor gives up a connection.
LEMMA LeaseQuiet ==
  ASSUME TypeInv, LeaseInv, NEW c \in Clients, NEW l \in Running,
         pc[c] \notin Holding \cup {"await", "dead"}, GoTo(c, l),
         \A d \in Clients \ {c} : target'[d] = target[d],
         UNCHANGED <<conn, inbox, status, owner, state>>
  PROVE  LeaseInv'
  BY DEF GoTo, TypeInv, TypeOK, Located, LeaseInv, OnlyOwnConn, HeldIsLeased, Uses, Holding, Running, Locked

\* A client without a connection is given one it holds a lease for.
LEMMA LeaseTake ==
  ASSUME TypeInv, LeaseInv, NEW c \in Clients, NEW w \in Workers, Take(c, w),
         pc[c] \notin Holding \cup {"dead"}, status[w] = "up",
         pc[c] # "await",
         SetWorker(w, Checkout(state[w], c)), UNCHANGED <<inbox, owner>>
  PROVE  LeaseInv'
  <1>1. state[w] \in WorkerState
    BY DEF TypeInv, TypeOK
  <1>2. /\ state'[w].clients[c].count > 0
        /\ \A d \in Clients \ {c} : state'[w].clients[d] = state[w].clients[d]
        /\ \A v \in Workers \ {w} : state'[v] = state[v]
    BY <1>1, CheckoutLease DEF SetWorker, TypeInv, TypeOK
  <1> QED
    BY <1>2 DEF Take, GoTo, SetWorker, TypeInv, TypeOK, Located, LeaseInv, OnlyOwnConn, HeldIsLeased, Uses, Holding

LEMMA LeaseAcquire ==
  ASSUME TypeInv, LeaseInv, NEW c \in Clients, Acquire(c)
  PROVE  LeaseInv'
  <1>n. pc[c] \notin Holding => conn[c] = None
    BY DEF LeaseInv
  <1>1. CASE \/ Request(c) \/ Lookup(c) \/ NoneAvailable(c) \/ LockRoute(c) \/ ProvisionLookup(c)
             \/ WaitForOpening(c) \/ NoneOpening(c) \/ PoolFull(c) \/ StartReclaimer(c)
             \/ MonitorReclaimer(c) \/ ReclaimerDown(c) \/ WaitBusy(c)
    <2>1. PICK l \in Running :
             /\ pc[c] \notin Holding \cup {"await", "dead"} /\ GoTo(c, l)
             /\ \A d \in Clients \ {c} : target'[d] = target[d]
             /\ UNCHANGED <<conn, inbox, status, owner, state>>
      BY <1>1
      DEF Request, Lookup, NoneAvailable, LockRoute, ProvisionLookup, WaitForOpening,
          NoneOpening, PoolFull, StartReclaimer, MonitorReclaimer, ReclaimerDown, WaitBusy,
          clientVars, workerVars, reclaimVars, vars, Holding, Running, Locked, TypeInv, TypeOK
    <2> QED BY <2>1, LeaseQuiet
  <1>2. CASE GiveUp(c) \/ WaitExit(c)
    <2>1. /\ pc[c] \notin Holding \cup {"await", "dead"} /\ GoTo(c, "idle")
          /\ \A d \in Clients \ {c} : target'[d] = target[d]
          /\ UNCHANGED <<inbox, status, owner, state>>
      BY <1>2 DEF GiveUp, WaitExit, Finish, clientVars, workerVars, reclaimVars, vars, Holding, TypeInv, TypeOK
    <2>2. conn' = conn
      BY <1>2, <1>n, <2>1 DEF GiveUp, WaitExit, Finish, TypeInv, TypeOK
    <2> QED BY <2>1, <2>2, LeaseQuiet DEF Running
  <1>3. CASE CheckoutExisting(c)
    <2>1. PICK w \in todo[c] : CheckoutExisting(c)!2!(w)
      BY <1>3 DEF CheckoutExisting
    <2>w. w \in Workers
      BY DEF TypeInv, TypeOK
    <2>2. CASE CheckoutExisting(c)!2!(w)!2!1
      BY <1>3, <2>w, <2>2, LeaseTake DEF CheckoutExisting, Holding
    <2>3. CASE CheckoutExisting(c)!2!(w)!2!2
      BY <1>3, <2>3 DEF CheckoutExisting, clientVars, workerVars, reclaimVars, vars, LeaseInv, OnlyOwnConn, HeldIsLeased, Uses
    <2> QED BY <2>1, <2>2, <2>3
  <1>4. CASE CheckoutTimeout(c)
    BY <1>4 DEF CheckoutTimeout, clientVars, workerVars, reclaimVars, vars, LeaseInv, OnlyOwnConn, HeldIsLeased, Uses
  <1>5. CASE WaitCheckout(c)
    <2>1. target[c] \in Workers
      BY <1>5 DEF WaitCheckout, TypeInv, Located
    <2> QED BY <1>5, <2>1, LeaseTake DEF WaitCheckout, Holding, clientVars, workerVars, reclaimVars, vars
  <1>6. CASE StartWorker(c) \/ RestartWorker(c)
    <2>1. Spawn(c) /\ pc[c] \in {"start", "restart"}
      BY <1>6 DEF StartWorker, RestartWorker
    <2>2. PICK w \in FreePids :
             /\ status' = [status EXCEPT ![w] = "connecting"]
             /\ owner' = [owner EXCEPT ![w] = c]
             /\ target' = [target EXCEPT ![c] = w]
      BY <2>1 DEF Spawn
    <2>3. w \in Workers /\ status[w] = "dead" /\ \A d \in Clients : ~Uses(d, w)
      BY DEF FreePids, Uses
    <2>4. UNCHANGED <<conn, inbox, state>> /\ GoTo(c, "await")
      BY <2>1 DEF Spawn
    <2> QED
      BY <2>1, <2>2, <2>3, <2>4 DEF GoTo, TypeInv, TypeOK, Located, LeaseInv, OnlyOwnConn, HeldIsLeased, Uses, Holding
  <1>7. CASE ReceiveConn(c)
    <2>1. PICK w \in inbox[c] : inbox' = [inbox EXCEPT ![c] = @ \ {w}] /\ Take(c, w)
      BY <1>7 DEF ReceiveConn
    <2>2. w \in Workers
      BY DEF TypeInv, TypeOK
    <2> QED
      BY <1>7, <2>1, <2>2
      DEF ReceiveConn, Take, GoTo, clientVars, workerVars, reclaimVars, vars, TypeInv, TypeOK, Located, LeaseInv, OnlyOwnConn, HeldIsLeased, Uses, Holding
  <1>8. CASE ReceiveDown(c)
    <2>1. /\ pc' = [pc EXCEPT ![c] = "idle"] /\ conn' = [conn EXCEPT ![c] = None]
          /\ target' = [target EXCEPT ![c] = None]
          /\ pc[c] = "await" /\ inbox[c] = {} /\ status[target[c]] = "dead"
          /\ UNCHANGED <<inbox, status, state, owner>>
      BY <1>8 DEF ReceiveDown, Finish, GoTo, clientVars, workerVars, reclaimVars, vars
    <2>2. \A v \in Workers : status[v] \in {"connecting", "registering"} => owner[v] # c
      BY <2>1 DEF LeaseInv
    <2>3. \A v \in Workers, d \in Clients \ {c} :
            status[v] = "up" /\ Uses(d, v) => state[v].clients[d].count > 0
      BY DEF LeaseInv, HeldIsLeased
    <2> QED
      BY <2>1, <2>2, <2>3, LeaseFrame DEF TypeInv, TypeOK
  <1> QED
    BY <1>1, <1>2, <1>3, <1>4, <1>5, <1>6, <1>7, <1>8 DEF Acquire

\* A worker goes on with a table that is right for all but one client, which
\* uses none of its connections; or it ends.
LEMMA LeaseTable ==
  ASSUME TypeInv, LeaseInv, NEW w \in Workers, status[w] = "up",
         UNCHANGED <<conn, inbox, pc, target>>,
         owner' = owner,
         \/ EndWorker(w)
         \/ \E st \in WorkerState :
              /\ status' = status /\ state' = [state EXCEPT ![w] = st]
              /\ \A d \in Clients : Uses(d, w) => st.clients[d].count > 0
  PROVE  LeaseInv'
  <1>1. \A v \in Workers, d \in Clients : Uses(d, v)' <=> Uses(d, v)
    BY DEF Uses
  <1>2. \A v \in Workers : status'[v] = status[v] \/ status'[v] = "dead"
    BY DEF EndWorker, TypeInv, TypeOK
  <1>3. HeldIsLeased'
    <2> SUFFICES ASSUME NEW d \in Clients, NEW v \in Workers, status'[v] = "up", Uses(d, v)
                 PROVE  state'[v].clients[d].count > 0
      BY <1>1 DEF HeldIsLeased
    <2>1. CASE v = w
      BY <2>1 DEF EndWorker, TypeInv, TypeOK
    <2>2. CASE v # w
      BY <2>2 DEF EndWorker, TypeInv, TypeOK, LeaseInv, HeldIsLeased
    <2> QED BY <2>1, <2>2
  <1>4. OnlyOwnConn'
    BY DEF LeaseInv, OnlyOwnConn
  <1> QED BY <1>1, <1>2, <1>3, <1>4 DEF LeaseInv

LEMMA LeaseUse ==
  ASSUME TypeInv, LeaseInv, NEW c \in Clients, Use(c)
  PROVE  LeaseInv'
  <1> DEFINE w == conn[c]
  <1>w. pc[c] \in Holding /\ w \in Workers /\ state[w] \in WorkerState /\ inbox[c] = {}
    BY DEF Use, RegisterStream, FinishStream, ReleaseConn, ReleaseStream, CancelStream,
           DiscardConn, DropResponse, TypeInv, TypeOK, Located, LeaseInv, OnlyOwnConn, Holding
  <1>t. FreshToken(w) \in Tokens
    BY <1>w, FreshTokenType DEF TypeInv
  <1>1. ASSUME NEW l \in Holding, GoTo(c, l), UNCHANGED <<conn, inbox, target, owner>>,
               \/ UNCHANGED <<status, state>>
               \/ \E st \in WorkerState :
                    /\ SetWorker(w, st)
                    /\ \A d \in Clients : st.clients[d].count = state[w].clients[d].count
        PROVE  LeaseInv'
    <2>1. /\ pc' = [pc EXCEPT ![c] = l] /\ status' = status
          /\ \A v \in Workers, d \in Clients :
               state'[v].clients[d].count = state[v].clients[d].count
      BY <1>w, <1>1 DEF GoTo, SetWorker, TypeInv, TypeOK
    <2>2. \A v \in Workers, d \in Clients : Uses(d, v)' <=> Uses(d, v)
      BY <1>1 DEF Uses
    <2>3. HeldIsLeased'
      BY <2>1, <2>2 DEF LeaseInv, HeldIsLeased
    <2>4. \A d \in Clients : pc'[d] # pc[d] => d = c
      BY <2>1 DEF TypeInv, TypeOK
    <2>5. pc'[c] \in Holding /\ pc[c] # "await" /\ pc[c] # "dead"
      BY <1>w, <2>1 DEF Holding, TypeInv, TypeOK
    <2>6. OnlyOwnConn'
      BY <1>1, <1>w, <2>4 DEF LeaseInv, OnlyOwnConn
    <2>7. \A d \in Clients : conn'[d] # None => pc'[d] \in Holding
      BY <1>1, <2>4, <2>5 DEF LeaseInv
    <2> QED BY <1>1, <2>1, <2>2, <2>3, <2>4, <2>5, <2>6, <2>7 DEF LeaseInv
  <1>2. CASE RegisterStream(c)
    <2>1. PICK s \in Streams : RegisterStream(c)!2!(s)
      BY <1>2 DEF RegisterStream, FreshStreams
    <2>2. PutStream(state[w], c, s) \in WorkerState
      BY <1>w, PutStreamType
    <2>3. \A d \in Clients :
            PutStream(state[w], c, s).clients[d].count = state[w].clients[d].count
      BY <1>w, StreamLease
    <2> QED BY <1>1, <1>2, <2>1, <2>2, <2>3 DEF RegisterStream, Holding, clientVars, workerVars, reclaimVars, vars
  <1>3. CASE FinishStream(c)
    <2>1. DropStream(state[w], c, stream[c]) \in WorkerState
      BY <1>w, DropStreamType
    <2>2. \A d \in Clients :
            DropStream(state[w], c, stream[c]).clients[d].count = state[w].clients[d].count
      BY <1>w, StreamLease
    <2> QED BY <1>1, <1>3, <2>1, <2>2 DEF FinishStream, Holding, clientVars, workerVars, reclaimVars, vars
  <1>4. ASSUME Finish(c), UNCHANGED <<inbox, owner>>,
               \/ UNCHANGED <<status, state>>
               \/ EndWorker(w)
               \/ \E st \in WorkerState :
                    /\ SetWorker(w, st)
                    /\ \A d \in Clients \ {c} : st.clients[d].count = state[w].clients[d].count
        PROVE  LeaseInv'
    <2>1. /\ conn' = [conn EXCEPT ![c] = None] /\ pc' = [pc EXCEPT ![c] = "idle"]
          /\ target' = [target EXCEPT ![c] = None]
          /\ UNCHANGED <<inbox, owner>>
      BY <1>4 DEF Finish, GoTo
    <2>2. \A v \in Workers : status'[v] = status[v] \/ status'[v] = "dead"
      BY <1>4, <1>w DEF EndWorker, SetWorker, TypeInv, TypeOK
    <2>3. \A v \in Workers, d \in Clients \ {c} :
            status'[v] = "up" => state'[v].clients[d].count = state[v].clients[d].count
      BY <1>4, <1>w DEF EndWorker, SetWorker, TypeInv, TypeOK
    <2>4. \A v \in Workers : status[v] \in {"connecting", "registering"} => owner[v] # c
      BY <1>w DEF LeaseInv, Holding
    <2>5. \A v \in Workers, d \in Clients \ {c} :
            status'[v] = "up" /\ Uses(d, v) => state'[v].clients[d].count > 0
      BY <2>2, <2>3 DEF LeaseInv, HeldIsLeased
    <2>6. \A v \in Workers : status'[v] \in {"connecting", "registering"} =>
            owner'[v] = owner[v] /\ (owner[v] # c \/ pc'[c] = "dead")
      BY <2>1, <2>2, <2>4
    <2>7. /\ conn'[c] = None /\ inbox'[c] = {}
          /\ \A d \in Clients \ {c} : /\ conn'[d] = conn[d] /\ inbox'[d] = inbox[d]
                                       /\ pc'[d] = pc[d] /\ target'[d] = target[d]
      BY <1>w, <2>1 DEF TypeInv, TypeOK
    <2> QED
      BY <2>2, <2>5, <2>6, <2>7, LeaseFrame
  <1>5. CASE ReleaseConn(c)
    <2>1. /\ RemoveClient(state[w], c, FALSE, FreshToken(w)) \in WorkerState
          /\ \A d \in Clients \ {c} :
               RemoveClient(state[w], c, FALSE, FreshToken(w)).clients[d].count
                 = state[w].clients[d].count
      BY <1>w, <1>t, RemoveClientType, RemoveClientLease
    <2> QED BY <1>4, <1>5, <2>1 DEF ReleaseConn, EndRequest
  <1>6. CASE ReleaseStream(c) \/ CancelStream(c)
    <2> DEFINE dropped == DropStream(state[w], c, stream[c])
    <2>1. /\ dropped \in WorkerState
          /\ \A d \in Clients : dropped.clients[d].count = state[w].clients[d].count
      BY <1>w, DropStreamType, StreamLease
    <2> HIDE DEF dropped
    <2>2. /\ RemoveClient(dropped, c, FALSE, FreshToken(w)) \in WorkerState
          /\ \A d \in Clients \ {c} :
               RemoveClient(dropped, c, FALSE, FreshToken(w)).clients[d].count
                 = state[w].clients[d].count
      BY <1>t, <2>1, RemoveClientType, RemoveClientLease
    <2> QED BY <1>4, <1>6, <2>2 DEF ReleaseStream, CancelStream, EndRequest, dropped
  <1>7. CASE DiscardConn(c)
    BY <1>4, <1>7 DEF DiscardConn, EndRequest
  <1>8. CASE DropResponse(c)
    BY <1>4, <1>8 DEF DropResponse, workerVars
  <1> QED
    BY <1>2, <1>3, <1>5, <1>6, <1>7, <1>8 DEF Use

LEMMA LeaseCrash ==
  ASSUME TypeInv, LeaseInv, NEW c \in Clients, Crash(c) \/ Respawn(c)
  PROVE  LeaseInv'
  <1>s. \A v \in Workers, d \in Clients \ {c} :
          status[v] = "up" /\ Uses(d, v) => state[v].clients[d].count > 0
    BY DEF LeaseInv, HeldIsLeased
  <1>1. CASE Crash(c)
    <2>1. /\ pc' = [pc EXCEPT ![c] = "dead"] /\ conn' = [conn EXCEPT ![c] = None]
          /\ target' = [target EXCEPT ![c] = None] /\ inbox' = [inbox EXCEPT ![c] = {}]
          /\ UNCHANGED <<status, state, owner>>
      BY <1>1 DEF Crash, GoTo, clientVars, workerVars, reclaimVars, vars
    <2> QED
      BY <1>s, <2>1, LeaseFrame DEF TypeInv, TypeOK
  <1>2. CASE Respawn(c)
    <2>1. /\ pc' = [pc EXCEPT ![c] = "idle"] /\ pc[c] = "dead"
          /\ \A v \in Workers : owner[v] # c
          /\ UNCHANGED <<conn, target, inbox, status, state, owner>>
      BY <1>2 DEF Respawn, GoTo, clientVars, workerVars, reclaimVars, vars
    <2>2. conn[c] = None /\ inbox[c] = {}
      BY <2>1 DEF LeaseInv, OnlyOwnConn, Holding, TypeInv, TypeOK
    <2> QED
      BY <1>s, <2>1, <2>2, LeaseFrame DEF TypeInv, TypeOK
  <1> QED BY <1>1, <1>2

LEMMA LeaseWorkerStep ==
  ASSUME TypeInv, LeaseInv, NEW w \in Workers, WorkerStep(w)
  PROVE  LeaseInv'
  <1>w. state[w] \in WorkerState
    BY DEF TypeInv, TypeOK
  <1>t. FreshToken(w) \in Tokens
    BY FreshTokenType DEF TypeInv
  <1>1. CASE OpenConn(w)
    BY <1>1 DEF OpenConn, clientVars, workerVars, reclaimVars, vars, TypeInv, TypeOK, LeaseInv, OnlyOwnConn, HeldIsLeased, Uses
  <1>2. CASE RegisterConn(w)
    <2> DEFINE c == owner[w]
    <2>1. c \in Clients /\ status[w] = "registering"
      BY <1>2 DEF RegisterConn, TypeInv, Located
    <2>2. PICK p \in OpenProtocols : state' = [state EXCEPT ![w] = Connected(c, p)]
      BY <1>2 DEF RegisterConn
    <2>3. state'[w].clients[c].count = 1 /\ \A v \in Workers \ {w} : state'[v] = state[v]
      BY <2>1, <2>2, OpenProtocolsAssumption, ConnectedLease DEF TypeInv, TypeOK
    <2>4. /\ status' = [status EXCEPT ![w] = "up"]
          /\ owner' = [owner EXCEPT ![w] = None]
          /\ inbox' = [inbox EXCEPT ![c] = IF pc[c] = "dead" THEN @ ELSE @ \cup {w}]
          /\ UNCHANGED <<pc, conn, target>>
      BY <1>2 DEF RegisterConn
    <2>5. /\ \A d \in Clients : ~Uses(d, w)
          /\ pc[c] = "dead" \/ (pc[c] = "await" /\ target[c] = w /\ inbox[c] = {})
      BY <2>1 DEF LeaseInv
    <2>6. \A v \in Workers \ {w}, d \in Clients : Uses(d, v)' <=> Uses(d, v)
      BY <2>1, <2>4 DEF Uses, TypeInv, TypeOK
    <2>7. \A d \in Clients : Uses(d, w)' => d = c
      BY <2>1, <2>4, <2>5 DEF Uses, TypeInv, TypeOK
    <2>8. HeldIsLeased'
      BY <2>1, <2>3, <2>4, <2>6, <2>7 DEF LeaseInv, HeldIsLeased, TypeInv, TypeOK
    <2>9. OnlyOwnConn'
      BY <2>1, <2>4, <2>5 DEF LeaseInv, OnlyOwnConn, TypeInv, TypeOK
    <2>10. \A v \in Workers :
             status'[v] \in {"connecting", "registering"} => v # w /\ owner'[v] = owner[v] /\ status'[v] = status[v]
      BY <2>4 DEF TypeInv, TypeOK
    <2>11. \A v \in Workers :
             status'[v] \in {"connecting", "registering"} =>
               LET d == owner[v]
               IN  pc[d] = "dead" \/ (pc[d] = "await" /\ target[d] = v /\ inbox'[d] = {})
      BY <2>1, <2>4, <2>5, <2>10 DEF LeaseInv, TypeInv, TypeOK, Located
    <2> QED
      BY <2>4, <2>6, <2>8, <2>9, <2>10, <2>11 DEF LeaseInv
  <1>3. CASE OpenFails(w)
    BY <1>3 DEF OpenFails, EndWorker, clientVars, workerVars, reclaimVars, vars, TypeInv, TypeOK, LeaseInv, OnlyOwnConn, HeldIsLeased, Uses
  <1>4. CASE TimerFires(w) \/ Unregister(w) \/ Reap(w)
    BY <1>4 DEF TimerFires, Unregister, Reap, clientVars, workerVars, reclaimVars, vars, LeaseInv, OnlyOwnConn, HeldIsLeased, Uses
  <1>5. CASE IdleClose(w)
    <2>1. PICK t \in fired[w] : IdleClose(w)!2!(t)
      BY <1>5 DEF IdleClose
    <2>2. CASE IdleExpired(state[w], t)
      BY <1>5, <2>1, <2>2, LeaseTable DEF IdleClose, clientVars, workerVars, reclaimVars, vars
    <2>3. CASE ~IdleExpired(state[w], t)
      BY <1>5, <2>1, <2>3 DEF IdleClose, clientVars, workerVars, reclaimVars, vars, LeaseInv, OnlyOwnConn, HeldIsLeased, Uses
    <2> QED BY <2>2, <2>3
  <1>6. CASE ClientDown(w)
    <2>1. PICK c \in LeaseHolders(state[w]) : ClientDown(w)!2!(c)
      BY <1>6 DEF ClientDown
    <2>c. c \in Clients /\ ~Uses(c, w)
      BY <2>1, NoneAssumption DEF LeaseHolders, Uses, LeaseInv, OnlyOwnConn, Holding
    <2>2. /\ RemoveClient(state[w], c, TRUE, FreshToken(w)) \in WorkerState
          /\ \A d \in Clients \ {c} :
               RemoveClient(state[w], c, TRUE, FreshToken(w)).clients[d].count
                 = state[w].clients[d].count
      BY <1>w, <1>t, <2>c, RemoveClientType, RemoveClientLease
    <2>3. CASE MustStop(state[w], c)
      BY <1>6, <2>1, <2>3, LeaseTable DEF ClientDown, clientVars, workerVars, reclaimVars, vars
    <2>4. CASE ~MustStop(state[w], c)
      <3>1. \A d \in Clients : Uses(d, w) =>
              RemoveClient(state[w], c, TRUE, FreshToken(w)).clients[d].count > 0
        BY <1>6, <2>c, <2>2 DEF ClientDown, LeaseInv, HeldIsLeased
      <3> QED
        BY <1>6, <2>1, <2>2, <2>4, <3>1, LeaseTable DEF ClientDown, SetWorker, clientVars, workerVars, reclaimVars, vars
    <2> QED BY <2>3, <2>4
  <1>7. CASE ConnLost(w)
    BY <1>7, LeaseTable DEF ConnLost, clientVars, workerVars, reclaimVars, vars
  <1>8. CASE GunUp(w)
    <2>1. PICK p \in OpenProtocols : SetWorker(w, [state[w] EXCEPT !.protocol = p])
      BY <1>8 DEF GunUp
    <2>2. /\ [state[w] EXCEPT !.protocol = p] \in WorkerState
          /\ [state[w] EXCEPT !.protocol = p].clients = state[w].clients
      BY <1>w, OpenProtocolsAssumption DEF WorkerState
    <2>3. \A d \in Clients : Uses(d, w) =>
            [state[w] EXCEPT !.protocol = p].clients[d].count > 0
      BY <1>8, <2>2 DEF GunUp, LeaseInv, HeldIsLeased
    <2> QED BY <1>8, <2>1, <2>2, <2>3, LeaseTable DEF GunUp, SetWorker, clientVars, workerVars, reclaimVars, vars
  <1>9. CASE LateCheckout(w)
    <2>1. PICK c \in Clients : LateCheckout(w)!2!(c)
      BY <1>9 DEF LateCheckout
    <2>2. /\ Checkout(state[w], c) \in WorkerState
          /\ Checkout(state[w], c).clients[c].count > 0
          /\ \A d \in Clients \ {c} : Checkout(state[w], c).clients[d] = state[w].clients[d]
      BY <1>w, CheckoutType, CheckoutLease
    <2>3. CASE Busy(state[w])
      BY <1>9, <2>1, <2>3 DEF LateCheckout, clientVars, workerVars, reclaimVars, vars, LeaseInv, OnlyOwnConn, HeldIsLeased, Uses
    <2>4. CASE ~Busy(state[w])
      <3>1. \A d \in Clients : Uses(d, w) => Checkout(state[w], c).clients[d].count > 0
        BY <1>9, <2>2 DEF LateCheckout, LeaseInv, HeldIsLeased
      <3> QED BY <1>9, <2>1, <2>2, <2>4, <3>1, LeaseTable DEF LateCheckout, clientVars, workerVars, reclaimVars, vars
    <2> QED BY <2>3, <2>4
  <1> QED
    BY <1>1, <1>2, <1>3, <1>4, <1>5, <1>6, <1>7, <1>8, <1>9 DEF WorkerStep

LEMMA LeaseReclaimerStep ==
  ASSUME TypeInv, LeaseInv, ReclaimerStep
  PROVE  LeaseInv'
  <1>1. CASE SelectWorkers \/ ReclaimInfo \/ NothingUnused \/ SomeUnused \/ ReclaimDone
    BY <1>1
    DEF SelectWorkers, ReclaimInfo, NothingUnused, SomeUnused, ReclaimDone, ReclaimerExit,
        clientVars, workerVars, reclaimVars, vars, LeaseInv, OnlyOwnConn, HeldIsLeased, Uses
  <1>2. CASE Reclaim
    <2>1. PICK w \in unused : Reclaim!2!(w)
      BY <1>2 DEF Reclaim
    <2>w. w \in Workers
      BY <2>1 DEF TypeInv, TypeOK
    <2>2. CASE status[w] = "up" /\ Reclaimable(state[w])
      BY <1>2, <2>1, <2>w, <2>2, LeaseTable DEF Reclaim, clientVars, workerVars, reclaimVars, vars
    <2>3. CASE ~(status[w] = "up" /\ Reclaimable(state[w]))
      BY <1>2, <2>1, <2>3 DEF Reclaim, clientVars, workerVars, reclaimVars, vars, LeaseInv, OnlyOwnConn, HeldIsLeased, Uses
    <2> QED BY <2>2, <2>3
  <1> QED BY <1>1, <1>2 DEF ReclaimerStep

\* A client that has been given a connection, or is being sent one, is in the
\* worker's table: this is what keeps the idle timer, the reclaimer and, on
\* HTTP/1, every other client off the connection.
THEOREM LeaseCorrect == Spec => [](TypeInv /\ LeaseInv)
  <1>1. Init => TypeInv /\ LeaseInv
    BY InitTypeInv, NoneAssumption DEF Init, LeaseInv, OnlyOwnConn, HeldIsLeased, Uses, Holding
  <1>2. TypeInv /\ LeaseInv /\ [Next]_vars => TypeInv' /\ LeaseInv'
    <2> SUFFICES ASSUME TypeInv, LeaseInv, [Next]_vars PROVE TypeInv' /\ LeaseInv'
      OBVIOUS
    <2>1. TypeInv'
      BY NextTypeInv
    <2>2. CASE UNCHANGED vars
      BY <2>1, <2>2 DEF clientVars, workerVars, reclaimVars, vars, LeaseInv, OnlyOwnConn, HeldIsLeased, Uses
    <2> QED
      BY <2>1, <2>2, LeaseAcquire, LeaseUse, LeaseCrash, LeaseWorkerStep, LeaseReclaimerStep
      DEF Next
  <1> QED BY <1>1, <1>2, PTL DEF Spec

\* The lease table covers use, in every reachable state.
THEOREM HeldIsLeasedCorrect == Spec => []HeldIsLeased
  <1>1. LeaseInv => HeldIsLeased
    BY DEF LeaseInv
  <1> QED BY <1>1, LeaseCorrect, PTL

\* Idle closing and reclaiming evict nobody: a worker that ends this way has an
\* empty table, and so no user.
THEOREM NoEvictionCorrect == Spec => NoEviction
  <1>1. ASSUME TypeInv, LeaseInv, NEW w \in Workers,
               IdleClose(w) \/ Reclaim, status[w] = "up", status'[w] = "dead"
        PROVE  /\ \A c \in Clients : ~Uses(c, w)
               /\ IdleClose(w) => state[w].timer \in fired[w]
    <2>1. CASE IdleClose(w)
      <3>1. PICK t \in fired[w] : IdleExpired(state[w], t)
        BY <1>1, <2>1 DEF IdleClose
      <3> QED
        BY <1>1, <3>1 DEF IdleExpired, LeaseHolders, LeaseInv, HeldIsLeased, TypeInv, TypeOK
    <2>2. CASE Reclaim /\ ~IdleClose(w)
      <3>1. PICK v \in unused : Reclaim!2!(v)
        BY <2>2 DEF Reclaim
      <3>2. v = w /\ Reclaimable(state[w])
        BY <1>1, <3>1 DEF EndWorker, TypeInv, TypeOK
      <3> QED
        BY <1>1, <2>2, <3>2 DEF Reclaimable, LeaseHolders, LeaseInv, HeldIsLeased
    <2> QED BY <1>1, <2>1, <2>2
  <1>2. TypeInv /\ LeaseInv /\ [Next]_vars =>
          [\A w \in Workers :
             (IdleClose(w) \/ Reclaim) /\ status[w] = "up" /\ status'[w] = "dead" =>
               /\ \A c \in Clients : ~Uses(c, w)
               /\ IdleClose(w) => state[w].timer \in fired[w]]_vars
    BY <1>1
  <1> QED BY <1>2, LeaseCorrect, PTL DEF Spec, NoEviction

(***************************************************************************)
(* One lease at an HTTP/1 worker, as long as a reconnect keeps the         *)
(* protocol.                                                               *)
(***************************************************************************)

LEMMA CheckoutSingle ==
  ASSUME NEW st \in WorkerState, NEW c \in Clients, ~Busy(st)
  PROVE  \/ Checkout(st, c).protocol = "http2"
         \/ LeaseHolders(Checkout(st, c)) \subseteq {c}
  <1>1. CASE st.protocol = "http2"
    BY <1>1, CheckoutLease
  <1>2. CASE LeaseHolders(st) = {}
    <2>1. \A d \in Clients \ {c} : ~(Checkout(st, c).clients[d].count > 0)
      BY <1>2, CheckoutLease DEF LeaseHolders
    <2> QED BY <2>1 DEF LeaseHolders
  <1> QED BY <1>1, <1>2 DEF Busy

LEMMA SingleQuiet ==
  ASSUME SingleLease, UNCHANGED <<status, state>>
  PROVE  SingleLease'
  BY DEF SingleLease, LeaseHolders

LEMMA SingleEnd ==
  ASSUME TypeInv, SingleLease, NEW w \in Workers, EndWorker(w)
  PROVE  SingleLease'
  BY DEF SingleLease, LeaseHolders, EndWorker, TypeInv, TypeOK

\* The table of one worker shrinks, or holds one client, or is not HTTP/1.
LEMMA SingleTable ==
  ASSUME TypeInv, SingleLease, NEW w \in Workers, NEW st \in WorkerState,
         state' = [state EXCEPT ![w] = st],
         \A v \in Workers \ {w} : status'[v] = status[v],
         \/ /\ status'[w] = status[w] /\ st.protocol = state[w].protocol
            /\ LeaseHolders(st) \subseteq LeaseHolders(state[w])
         \/ \E c \in Clients : LeaseHolders(st) \subseteq {c}
         \/ st.protocol = "http2"
  PROVE  SingleLease'
  <1> SUFFICES ASSUME NEW v \in Workers, status'[v] = "up", state'[v].protocol = "http",
                      NEW c \in LeaseHolders(state'[v]), NEW d \in LeaseHolders(state'[v])
               PROVE  c = d
    BY DEF SingleLease, LeaseHolders
  <1>1. CASE v # w
    BY <1>1 DEF SingleLease, TypeInv, TypeOK
  <1>2. CASE v = w
    <2>1. state'[v] = st
      BY <1>2 DEF TypeInv, TypeOK
    <2> QED BY <1>2, <2>1 DEF SingleLease
  <1> QED BY <1>1, <1>2

LEMMA SingleAcquire ==
  ASSUME TypeInv, SingleLease, NEW c \in Clients, Acquire(c)
  PROVE  SingleLease'
  <1>q. ASSUME NEW w \in Workers, ~Busy(state[w]), SetWorker(w, Checkout(state[w], c))
        PROVE  SingleLease'
    <2>1. state[w] \in WorkerState
      BY DEF TypeInv, TypeOK
    <2> QED BY <1>q, <2>1, CheckoutType, CheckoutSingle, SingleTable DEF SetWorker
  <1>1. CASE CheckoutExisting(c)
    <2>1. PICK w \in todo[c] : CheckoutExisting(c)!2!(w)
      BY <1>1 DEF CheckoutExisting
    <2>w. w \in Workers
      BY DEF TypeInv, TypeOK
    <2> QED BY <1>q, <2>1, <2>w, SingleQuiet
  <1>2. CASE WaitCheckout(c)
    <2>1. target[c] \in Workers
      BY <1>2 DEF WaitCheckout, TypeInv, Located
    <2> QED BY <1>2, <1>q, <2>1 DEF WaitCheckout
  <1>3. CASE StartWorker(c) \/ RestartWorker(c)
    <2>1. PICK w \in FreePids : status' = [status EXCEPT ![w] = "connecting"] /\ state' = state
      BY <1>3 DEF StartWorker, RestartWorker, Spawn
    <2> QED BY <2>1 DEF FreePids, SingleLease, LeaseHolders, TypeInv, TypeOK
  <1>4. CASE \/ Request(c) \/ Lookup(c) \/ CheckoutTimeout(c) \/ NoneAvailable(c)
             \/ LockRoute(c) \/ ProvisionLookup(c) \/ WaitForOpening(c) \/ NoneOpening(c)
             \/ PoolFull(c) \/ StartReclaimer(c) \/ MonitorReclaimer(c)
             \/ ReclaimerDown(c) \/ GiveUp(c)
             \/ ReceiveConn(c) \/ ReceiveDown(c) \/ WaitBusy(c) \/ WaitExit(c)
    <2>1. UNCHANGED <<status, state>>
      BY <1>4
      DEF Request, Lookup, CheckoutTimeout, NoneAvailable, LockRoute, ProvisionLookup,
          WaitForOpening, NoneOpening, PoolFull, StartReclaimer, MonitorReclaimer,
          ReclaimerDown, GiveUp, ReceiveConn, ReceiveDown, WaitBusy, WaitExit,
          workerVars
    <2> QED BY <2>1, SingleQuiet
  <1> QED BY <1>1, <1>2, <1>3, <1>4 DEF Acquire

LEMMA SingleUse ==
  ASSUME TypeInv, SingleLease, NEW c \in Clients, Use(c)
  PROVE  SingleLease'
  <1> DEFINE w == conn[c]
  <1>w. w \in Workers /\ state[w] \in WorkerState
    BY DEF Use, RegisterStream, FinishStream, ReleaseConn, ReleaseStream, CancelStream,
           DiscardConn, DropResponse, TypeInv, TypeOK, Located, Holding
  <1>t. FreshToken(w) \in Tokens
    BY <1>w, FreshTokenType DEF TypeInv
  <1>s. ASSUME NEW st \in WorkerState, SetWorker(w, st), st.protocol = state[w].protocol,
               LeaseHolders(st) \subseteq LeaseHolders(state[w])
        PROVE  SingleLease'
    BY <1>s, <1>w, SingleTable DEF SetWorker
  <1>d. ASSUME NEW st \in WorkerState, st.protocol = state[w].protocol,
               LeaseHolders(st) \subseteq LeaseHolders(state[w]),
               SetWorker(w, RemoveClient(st, c, FALSE, FreshToken(w)))
        PROVE  SingleLease'
    <2>1. /\ RemoveClient(st, c, FALSE, FreshToken(w)) \in WorkerState
          /\ RemoveClient(st, c, FALSE, FreshToken(w)).protocol = state[w].protocol
          /\ LeaseHolders(RemoveClient(st, c, FALSE, FreshToken(w))) \subseteq LeaseHolders(state[w])
      BY <1>d, <1>t, RemoveClientType, RemoveClientLease
    <2> QED BY <1>d, <1>s, <2>1
  <1>f. ASSUME NEW s
        PROVE  /\ DropStream(state[w], c, s) \in WorkerState
               /\ DropStream(state[w], c, s).protocol = state[w].protocol
               /\ LeaseHolders(DropStream(state[w], c, s)) \subseteq LeaseHolders(state[w])
    <2>1. DropStream(state[w], c, s) \in WorkerState
      BY <1>w, DropStreamType
    <2>2. /\ DropStream(state[w], c, s).protocol = state[w].protocol
          /\ \A d \in Clients :
               DropStream(state[w], c, s).clients[d].count = state[w].clients[d].count
      BY <1>w, StreamLease
    <2> QED BY <2>1, <2>2 DEF LeaseHolders
  <1>1. CASE RegisterStream(c)
    <2>1. PICK s \in Streams : RegisterStream(c)!2!(s)
      BY <1>1 DEF RegisterStream, FreshStreams
    <2>2. PutStream(state[w], c, s) \in WorkerState
      BY <1>w, PutStreamType
    <2>3. /\ PutStream(state[w], c, s).protocol = state[w].protocol
          /\ \A d \in Clients :
               PutStream(state[w], c, s).clients[d].count = state[w].clients[d].count
      BY <1>w, StreamLease
    <2>4. LeaseHolders(PutStream(state[w], c, s)) \subseteq LeaseHolders(state[w])
      BY <2>3 DEF LeaseHolders
    <2> QED BY <1>s, <2>1, <2>2, <2>3, <2>4, SingleQuiet
  <1>2. CASE FinishStream(c)
    BY <1>2, <1>s, <1>f, SingleQuiet DEF FinishStream
  <1>3. CASE ReleaseConn(c)
    BY <1>3, <1>w, <1>d, SingleEnd, SingleQuiet DEF ReleaseConn
  <1>4. CASE ReleaseStream(c)
    BY <1>4, <1>d, <1>f, SingleQuiet DEF ReleaseStream
  <1>5. CASE CancelStream(c)
    BY <1>5, <1>w, <1>d, <1>f, SingleEnd, SingleQuiet DEF CancelStream
  <1>6. CASE DiscardConn(c)
    BY <1>6, <1>w, SingleEnd, SingleQuiet DEF DiscardConn
  <1>7. CASE DropResponse(c)
    BY <1>7, SingleQuiet DEF DropResponse, workerVars
  <1> QED BY <1>1, <1>2, <1>3, <1>4, <1>5, <1>6, <1>7 DEF Use

LEMMA SingleWorkerStep ==
  ASSUME ~Renegotiates, TypeInv, SingleLease, NEW w \in Workers, WorkerStep(w)
  PROVE  SingleLease'
  <1>w. state[w] \in WorkerState
    BY DEF TypeInv, TypeOK
  <1>t. FreshToken(w) \in Tokens
    BY FreshTokenType DEF TypeInv
  <1>1. CASE OpenConn(w)
    BY <1>1 DEF OpenConn, SingleLease, LeaseHolders, TypeInv, TypeOK
  <1>2. CASE RegisterConn(w)
    <2>1. PICK p \in OpenProtocols : state' = [state EXCEPT ![w] = Connected(owner[w], p)]
      BY <1>2 DEF RegisterConn
    <2>2. owner[w] \in Clients /\ p \in Protocols
      BY <1>2, OpenProtocolsAssumption DEF RegisterConn, TypeInv, Located
    <2>3. \A v \in Workers \ {w} : status'[v] = status[v]
      BY <1>2 DEF RegisterConn, TypeInv, TypeOK
    <2>4. /\ Connected(owner[w], p) \in WorkerState
          /\ LeaseHolders(Connected(owner[w], p)) \subseteq {owner[w]}
      BY <2>2, ConnectedType, ConnectedLease
    <2> QED BY <2>1, <2>2, <2>3, <2>4, SingleTable
  <1>3. CASE OpenFails(w) \/ ConnLost(w)
    BY <1>3, SingleEnd DEF OpenFails, ConnLost
  <1>4. CASE TimerFires(w) \/ Unregister(w) \/ Reap(w)
    BY <1>4, SingleQuiet DEF TimerFires, Unregister, Reap
  <1>5. CASE IdleClose(w)
    BY <1>5, SingleEnd, SingleQuiet DEF IdleClose
  <1>6. CASE ClientDown(w)
    <2>1. PICK c \in LeaseHolders(state[w]) : ClientDown(w)!2!(c)
      BY <1>6 DEF ClientDown
    <2>2. c \in Clients
      BY DEF LeaseHolders
    <2>3. /\ RemoveClient(state[w], c, TRUE, FreshToken(w)) \in WorkerState
          /\ RemoveClient(state[w], c, TRUE, FreshToken(w)).protocol = state[w].protocol
          /\ LeaseHolders(RemoveClient(state[w], c, TRUE, FreshToken(w)))
               \subseteq LeaseHolders(state[w])
      BY <1>w, <1>t, <2>2, RemoveClientType, RemoveClientLease
    <2>4. CASE MustStop(state[w], c)
      BY <2>1, <2>4, SingleEnd
    <2>5. CASE ~MustStop(state[w], c)
      BY <2>1, <2>3, <2>5, SingleTable DEF SetWorker
    <2> QED BY <2>4, <2>5
  <1>7. CASE GunUp(w)
    BY <1>7 DEF GunUp
  <1>8. CASE LateCheckout(w)
    <2>1. PICK c \in Clients : LateCheckout(w)!2!(c)
      BY <1>8 DEF LateCheckout
    <2>2. status' = status
      BY <1>8 DEF LateCheckout
    <2>3. CASE Busy(state[w])
      BY <2>1, <2>2, <2>3, SingleQuiet
    <2>4. CASE ~Busy(state[w])
      BY <1>w, <2>1, <2>2, <2>4, CheckoutType, CheckoutSingle, SingleTable
    <2> QED BY <2>3, <2>4
  <1> QED
    BY <1>1, <1>2, <1>3, <1>4, <1>5, <1>6, <1>7, <1>8 DEF WorkerStep

\* While reconnects keep the protocol, an HTTP/1 worker never has two leases.
THEOREM SingleLeaseCorrect ==
  ASSUME ~Renegotiates
  PROVE  Spec => []SingleLease
  <1>1. Init => SingleLease
    BY DEF Init, SingleLease
  <1>2. TypeInv /\ SingleLease /\ [Next]_vars => SingleLease'
    <2> SUFFICES ASSUME TypeInv, SingleLease, [Next]_vars PROVE SingleLease'
      OBVIOUS
    <2>1. ASSUME NEW c \in Clients, Crash(c) \/ Respawn(c)
          PROVE  SingleLease'
      BY <2>1, SingleQuiet DEF Crash, Respawn, workerVars
    <2>2. CASE ReclaimerStep
      <3>1. CASE Reclaim
        <4>1. PICK w \in unused : Reclaim!2!(w)
          BY <3>1 DEF Reclaim
        <4>2. w \in Workers
          BY DEF TypeInv, TypeOK
        <4> QED BY <4>1, <4>2, SingleEnd, SingleQuiet
      <3>2. CASE SelectWorkers \/ ReclaimInfo \/ NothingUnused \/ SomeUnused \/ ReclaimDone
        BY <3>2, SingleQuiet
        DEF SelectWorkers, ReclaimInfo, NothingUnused, SomeUnused, ReclaimDone,
            ReclaimerExit, workerVars
      <3> QED BY <2>2, <3>1, <3>2 DEF ReclaimerStep
    <2>3. CASE UNCHANGED vars
      BY <2>3, SingleQuiet DEF vars, workerVars
    <2> QED
      BY <2>1, <2>2, <2>3, SingleAcquire, SingleUse, SingleWorkerStep DEF Next
  <1> QED BY <1>1, <1>2, LeaseCorrect, PTL DEF Spec

\* While reconnects keep the protocol, no two clients use an HTTP/1 connection
\* at the same time: who uses it has a lease, and there is one lease.
THEOREM Http1ExclusiveCorrect ==
  ASSUME ~Renegotiates
  PROVE  Spec => []Http1Exclusive
  <1>1. HeldIsLeased /\ SingleLease => Http1Exclusive
    BY DEF HeldIsLeased, SingleLease, Http1Exclusive, LeaseHolders
  <1> QED BY <1>1, HeldIsLeasedCorrect, SingleLeaseCorrect, PTL

(***************************************************************************)
(* One opening per route.                                                  *)
(***************************************************************************)

\* A step of client c, or of no client, that starts no worker and leaves the
\* route lock with the others.
LEMMA RouteFrame ==
  ASSUME TypeInv, RouteInv, NEW c \in Clients,
         \A d \in Clients \ {c} : /\ pc'[d] = pc[d] /\ route'[d] = route[d]
                                  /\ opening'[d] = opening[d]
                                  /\ \A k \in Routes : lock[k] = d => lock'[k] = d,
         \A w \in Workers : status'[w] = "connecting" =>
             status[w] = "connecting" /\ key'[w] = key[w] /\ reg'[w] = reg[w],
         pc'[c] \notin {"idle", "dead"} => route'[c] \in Routes,
         pc'[c] \in Locked => lock'[route'[c]] = c,
         \A w \in Workers : status[w] = "connecting" /\ key[w] = route'[c] =>
             /\ pc'[c] = "locked_try" => w \in opening'[c]
             /\ pc'[c] \in Locked => pc'[c] \in {"locked_lookup", "locked_try"}
  PROVE  RouteInv'
  <1>1. OneOpeningPerRoute'
    BY DEF RouteInv, OneOpeningPerRoute
  <1>2. \A d \in Clients : /\ pc'[d] \notin {"idle", "dead"} => route'[d] \in Routes
                           /\ pc'[d] \in Locked => lock'[route'[d]] = d
    BY DEF RouteInv, Locked
  <1>3. \A w \in Workers : status'[w] = "connecting" => reg'[w] = "opening"
    BY DEF RouteInv
  <1>4. \A d \in Clients, w \in Workers :
          status'[w] = "connecting" /\ key'[w] = route'[d] =>
            /\ pc'[d] = "locked_try" => w \in opening'[d]
            /\ pc'[d] \in Locked => pc'[d] \in {"locked_lookup", "locked_try"}
    BY DEF RouteInv
  <1> QED BY <1>1, <1>2, <1>3, <1>4 DEF RouteInv

\* A step that touches no client, lock or start.
LEMMA RouteQuiet ==
  ASSUME TypeInv, RouteInv, UNCHANGED <<pc, route, opening, lock>>,
         \A w \in Workers : status'[w] = "connecting" =>
             status[w] = "connecting" /\ key'[w] = key[w] /\ reg'[w] = reg[w]
  PROVE  RouteInv'
  <1>1. OneOpeningPerRoute'
    BY DEF RouteInv, OneOpeningPerRoute
  <1> QED BY <1>1 DEF RouteInv

LEMMA RouteStart ==
  ASSUME TypeInv, RouteInv, NEW c \in Clients, Spawn(c), pc[c] \in {"start", "restart"}
  PROVE  RouteInv'
  <1>1. PICK w \in FreePids :
          /\ status' = [status EXCEPT ![w] = "connecting"]
          /\ key' = [key EXCEPT ![w] = route[c]]
          /\ reg' = [reg EXCEPT ![w] = "opening"]
    BY DEF Spawn
  <1>w. w \in Workers /\ status[w] = "dead"
    BY DEF FreePids
  <1>2. /\ pc' = [pc EXCEPT ![c] = "await"]
        /\ lock' = [k \in Routes |-> IF lock[k] = c THEN None ELSE lock[k]]
        /\ UNCHANGED <<route, opening>>
    BY DEF Spawn, GoTo, Unlock
  <1>3. route[c] \in Routes /\ lock[route[c]] = c
    BY DEF RouteInv, Locked
  <1>4. \A v \in Workers : ~(status[v] = "connecting" /\ key[v] = route[c])
    BY DEF RouteInv, Locked
  <1>5. \A v \in Workers \ {w} : /\ status'[v] = status[v] /\ key'[v] = key[v] /\ reg'[v] = reg[v]
    BY <1>1, <1>w DEF TypeInv, TypeOK
  <1>6. status'[w] = "connecting" /\ key'[w] = route[c] /\ reg'[w] = "opening"
    BY <1>1, <1>w DEF TypeInv, TypeOK
  <1>7. OneOpeningPerRoute'
    BY <1>4, <1>5, <1>6 DEF RouteInv, OneOpeningPerRoute
  <1>8. pc'[c] = "await" /\ \A d \in Clients \ {c} : pc'[d] = pc[d]
    BY <1>2 DEF TypeInv, TypeOK
  <1>9. \A d \in Clients \ {c} : pc[d] \in Locked => route[d] # route[c]
    BY <1>3 DEF RouteInv
  <1>10. \A d \in Clients : /\ pc'[d] \notin {"idle", "dead"} => route'[d] \in Routes
                            /\ pc'[d] \in Locked => lock'[route'[d]] = d
    <2> SUFFICES ASSUME NEW d \in Clients
                 PROVE  /\ pc'[d] \notin {"idle", "dead"} => route[d] \in Routes
                        /\ pc'[d] \in Locked => lock'[route[d]] = d
      BY <1>2
    <2>1. CASE d = c
      BY <1>3, <1>8, <2>1 DEF Locked
    <2>2. CASE d # c
      BY <1>2, <1>8, <2>2 DEF RouteInv, Locked
    <2> QED BY <2>1, <2>2
  <1>11. \A v \in Workers : status'[v] = "connecting" => reg'[v] = "opening"
    BY <1>5, <1>6 DEF RouteInv
  <1>12. \A d \in Clients, v \in Workers :
          status'[v] = "connecting" /\ key'[v] = route'[d] =>
            /\ pc'[d] = "locked_try" => v \in opening'[d]
            /\ pc'[d] \in Locked => pc'[d] \in {"locked_lookup", "locked_try"}
    <2> SUFFICES ASSUME NEW d \in Clients, NEW v \in Workers,
                        status'[v] = "connecting", key'[v] = route[d], pc'[d] \in Locked
                 PROVE  pc'[d] \in {"locked_lookup", "locked_try"} /\
                        (pc'[d] = "locked_try" => v \in opening[d])
      BY <1>2 DEF Locked
    <2>1. d # c
      BY <1>8 DEF Locked
    <2>2. v # w
      BY <1>6, <1>8, <1>9, <2>1
    <2> QED BY <1>5, <1>8, <2>1, <2>2 DEF RouteInv
  <1> QED BY <1>7, <1>10, <1>11, <1>12 DEF RouteInv

LEMMA RouteAcquire ==
  ASSUME TypeInv, RouteInv, NEW c \in Clients, Acquire(c)
  PROVE  RouteInv'
  <1>u. ASSUME Unlock(c), UNCHANGED <<status, key, reg, route>>,
               NEW l \in {"using", "wait", "idle"}, GoTo(c, l),
               pc[c] \notin {"idle", "dead"},
               \A d \in Clients \ {c} : opening'[d] = opening[d]
        PROVE  RouteInv'
    <2>1. /\ pc'[c] = l /\ l \notin Locked
          /\ \A d \in Clients \ {c} : pc'[d] = pc[d]
                                      /\ \A k \in Routes : lock[k] = d => lock'[k] = d
      BY <1>u DEF Unlock, GoTo, Locked, TypeInv, TypeOK
    <2>2. route[c] \in Routes
      BY <1>u DEF RouteInv
    <2> QED BY <1>u, <2>1, <2>2, RouteFrame DEF Locked
  <1>1. CASE StartWorker(c) \/ RestartWorker(c)
    BY <1>1, RouteStart DEF StartWorker, RestartWorker
  <1>2. CASE LockRoute(c)
    <2>1. /\ pc[c] = "lock" /\ lock[route[c]] = None /\ lock' = [lock EXCEPT ![route[c]] = c]
          /\ pc' = [pc EXCEPT ![c] = "locked_lookup"]
          /\ UNCHANGED <<route, opening, status, key, reg>>
      BY <1>2 DEF LockRoute, GoTo, workerVars
    <2>2. route[c] \in Routes
      BY <2>1 DEF RouteInv
    <2>3. lock'[route[c]] = c /\ \A d \in Clients, k \in Routes : lock[k] = d => lock'[k] = d
      BY <2>1, <2>2, NoneAssumption DEF TypeInv, TypeOK
    <2>4. pc'[c] = "locked_lookup" /\ \A d \in Clients \ {c} : pc'[d] = pc[d]
      BY <2>1 DEF TypeInv, TypeOK
    <2> QED BY <2>1, <2>2, <2>3, <2>4, RouteFrame DEF Locked
  <1>3. CASE ProvisionLookup(c)
    <2>1. /\ pc[c] = "locked_lookup"
          /\ opening' = [opening EXCEPT ![c] = Registered(route[c], "opening")]
          /\ pc' = [pc EXCEPT ![c] = "locked_try"]
          /\ UNCHANGED <<route, lock, status, key, reg>>
      BY <1>3 DEF ProvisionLookup, GoTo, workerVars
    <2>2. route[c] \in Routes /\ lock[route[c]] = c
      BY <2>1 DEF RouteInv, Locked
    <2>3. \A w \in Workers : status[w] = "connecting" /\ key[w] = route[c] => w \in opening'[c]
      BY <2>1 DEF Registered, RouteInv, TypeInv, TypeOK
    <2>4. pc'[c] = "locked_try"
          /\ \A d \in Clients \ {c} : pc'[d] = pc[d] /\ opening'[d] = opening[d]
      BY <2>1 DEF TypeInv, TypeOK
    <2> QED BY <2>1, <2>2, <2>3, <2>4, RouteFrame
  <1>4. CASE CheckoutExisting(c)
    <2>1. PICK w \in todo[c] : CheckoutExisting(c)!2!(w)
      BY <1>4 DEF CheckoutExisting
    <2>2. pc[c] \in {"try", "locked_try"} /\ UNCHANGED <<route, key, reg>> /\ status' = status
      BY <1>4, <2>1 DEF CheckoutExisting, SetWorker
    <2>3. CASE CheckoutExisting(c)!2!(w)!2!1
      <3>1. GoTo(c, "using") /\ Unlock(c) /\ \A d \in Clients \ {c} : opening'[d] = opening[d]
        BY <2>3 DEF Take, TypeInv, TypeOK
      <3> QED BY <1>u, <2>2, <3>1
    <2>4. CASE CheckoutExisting(c)!2!(w)!2!2
      BY <2>2, <2>4, RouteQuiet
    <2> QED BY <2>1, <2>3, <2>4
  <1>5. CASE WaitForOpening(c)
    <2>1. /\ pc[c] = "locked_try" /\ UNCHANGED <<route, status, key, reg>>
          /\ GoTo(c, "wait") /\ Unlock(c)
          /\ opening' = [opening EXCEPT ![c] = {}]
      BY <1>5 DEF WaitForOpening, workerVars
    <2>2. \A d \in Clients \ {c} : opening'[d] = opening[d]
      BY <2>1 DEF TypeInv, TypeOK
    <2> QED BY <1>u, <2>1, <2>2
  <1>6. CASE NoneOpening(c)
    <2>1. /\ pc[c] = "locked_try" /\ opening[c] = {} /\ pc' = [pc EXCEPT ![c] = "start"]
          /\ UNCHANGED <<route, opening, lock, status, key, reg>>
      BY <1>6 DEF NoneOpening, GoTo, workerVars
    <2>2. route[c] \in Routes /\ lock[route[c]] = c
      BY <2>1 DEF RouteInv, Locked
    <2>3. \A w \in Workers : ~(status[w] = "connecting" /\ key[w] = route[c])
      BY <2>1 DEF RouteInv
    <2>4. pc'[c] = "start" /\ \A d \in Clients \ {c} : pc'[d] = pc[d]
      BY <2>1 DEF TypeInv, TypeOK
    <2> QED BY <2>1, <2>2, <2>3, <2>4, RouteFrame
  \* inside the lock, after the decision to start a worker
  <1>7. CASE PoolFull(c) \/ StartReclaimer(c) \/ MonitorReclaimer(c) \/ ReclaimerDown(c)
    <2>1. PICK l \in Locked :
             /\ pc[c] \in Locked \ {"locked_lookup", "locked_try"}
             /\ pc' = [pc EXCEPT ![c] = l]
             /\ UNCHANGED <<route, opening, lock, status, key, reg>>
      BY <1>7 DEF PoolFull, StartReclaimer, MonitorReclaimer, ReclaimerDown, GoTo, workerVars,
                  Locked
    <2>2. route[c] \in Routes /\ lock[route[c]] = c
      BY <2>1 DEF RouteInv, Locked
    <2>3. \A w \in Workers : ~(status[w] = "connecting" /\ key[w] = route[c])
      BY <2>1 DEF RouteInv
    <2>4. pc'[c] = l /\ \A d \in Clients \ {c} : pc'[d] = pc[d]
      BY <2>1 DEF TypeInv, TypeOK
    <2> QED BY <2>1, <2>2, <2>3, <2>4, RouteFrame
  \* outside the lock
  <1>8. CASE \/ Lookup(c) \/ CheckoutTimeout(c) \/ NoneAvailable(c) \/ WaitBusy(c)
    <2>1. CASE CheckoutTimeout(c)
      BY <2>1, RouteQuiet DEF CheckoutTimeout, workerVars
    <2>2. CASE Lookup(c) \/ NoneAvailable(c) \/ WaitBusy(c)
      <3>1. PICK l \in {"try", "lock", "lookup"} :
              /\ pc[c] \notin {"idle", "dead"} /\ pc' = [pc EXCEPT ![c] = l]
              /\ UNCHANGED <<route, opening, lock, status, key, reg>>
        BY <2>2 DEF Lookup, NoneAvailable, WaitBusy, GoTo, workerVars
      <3>2. route[c] \in Routes
        BY <3>1 DEF RouteInv
      <3>3. pc'[c] = l /\ l \notin Locked /\ \A d \in Clients \ {c} : pc'[d] = pc[d]
        BY <3>1 DEF TypeInv, TypeOK, Locked
      <3> QED BY <3>1, <3>2, <3>3, RouteFrame DEF Locked
    <2> QED BY <1>8, <2>1, <2>2
  <1>9. CASE Request(c)
    <2>1. PICK k \in Routes : route' = [route EXCEPT ![c] = k]
      BY <1>9 DEF Request
    <2>2. pc' = [pc EXCEPT ![c] = "lookup"] /\ UNCHANGED <<opening, lock, status, key, reg>>
      BY <1>9 DEF Request, GoTo, workerVars
    <2>3. /\ pc'[c] = "lookup" /\ route'[c] = k
          /\ \A d \in Clients \ {c} : pc'[d] = pc[d] /\ route'[d] = route[d]
      BY <2>1, <2>2 DEF TypeInv, TypeOK
    <2> QED BY <2>2, <2>3, RouteFrame DEF Locked
  <1>10. CASE ReceiveConn(c) \/ WaitCheckout(c)
    <2>1. /\ pc[c] \in {"await", "wait"} /\ GoTo(c, "using")
          /\ opening' = [opening EXCEPT ![c] = {}]
          /\ UNCHANGED <<route, lock, status, key, reg>>
      BY <1>10 DEF ReceiveConn, WaitCheckout, Take, SetWorker, workerVars
    <2>2. route[c] \in Routes
      BY <2>1 DEF RouteInv
    <2>3. /\ pc'[c] = "using"
          /\ \A d \in Clients \ {c} : pc'[d] = pc[d] /\ opening'[d] = opening[d]
      BY <2>1 DEF GoTo, TypeInv, TypeOK
    <2> QED BY <2>1, <2>2, <2>3, RouteFrame DEF Locked
  <1>11. CASE GiveUp(c) \/ ReceiveDown(c) \/ WaitExit(c)
    <2>1. /\ Finish(c) /\ UNCHANGED <<opening, status, key, reg>>
          /\ lock' = lock \/ Unlock(c)
      BY <1>11 DEF GiveUp, ReceiveDown, WaitExit, workerVars
    <2>2. /\ pc'[c] = "idle"
          /\ \A d \in Clients \ {c} : /\ pc'[d] = pc[d] /\ route'[d] = route[d]
                                      /\ \A k \in Routes : lock[k] = d => lock'[k] = d
      BY <2>1 DEF Finish, GoTo, Unlock, TypeInv, TypeOK
    <2> QED BY <2>1, <2>2, RouteFrame DEF Locked
  <1> QED
    BY <1>1, <1>2, <1>3, <1>4, <1>5, <1>6, <1>7, <1>8, <1>9, <1>10, <1>11 DEF Acquire

LEMMA RouteUse ==
  ASSUME TypeInv, RouteInv, NEW c \in Clients, Use(c) \/ Crash(c) \/ Respawn(c)
  PROVE  RouteInv'
  <1>w. \A w \in Workers : EndWorker(w) =>
          \A v \in Workers : status'[v] = status[v] \/ status'[v] = "dead"
    BY DEF EndWorker, TypeInv, TypeOK
  <1>1. CASE RegisterStream(c) \/ FinishStream(c)
    <2>1. PICK l \in Holding :
             /\ pc[c] \in Holding /\ GoTo(c, l)
             /\ status' = status /\ UNCHANGED <<route, opening, lock, key, reg>>
      BY <1>1 DEF RegisterStream, FinishStream, SetWorker, Holding
    <2>2. /\ pc'[c] = l /\ l \notin Locked
          /\ \A d \in Clients \ {c} : pc'[d] = pc[d]
      BY <2>1 DEF GoTo, Holding, Locked, TypeInv, TypeOK
    <2>3. route[c] \in Routes
      BY <2>1 DEF RouteInv, Holding
    <2> QED BY <2>1, <2>2, <2>3, RouteFrame DEF Locked
  <1>2. CASE ReleaseConn(c) \/ ReleaseStream(c) \/ CancelStream(c) \/ DiscardConn(c) \/ DropResponse(c)
    <2>1. /\ Finish(c) /\ UNCHANGED <<opening, lock, key, reg>>
          /\ pc[c] \in Holding
      BY <1>2 DEF ReleaseConn, ReleaseStream, CancelStream, DiscardConn, DropResponse, EndRequest, workerVars, Holding
    <2>2. conn[c] \in Workers
      BY <2>1 DEF TypeInv, Located
    <2>3. \A v \in Workers : status'[v] = status[v] \/ status'[v] = "dead"
      BY <1>2, <1>w, <2>2
      DEF ReleaseConn, ReleaseStream, CancelStream, DiscardConn, DropResponse, SetWorker, workerVars
    <2>4. /\ pc'[c] = "idle"
          /\ \A d \in Clients \ {c} : pc'[d] = pc[d] /\ route'[d] = route[d]
      BY <2>1 DEF Finish, GoTo, TypeInv, TypeOK
    <2> QED BY <2>1, <2>3, <2>4, RouteFrame DEF Locked
  <1>3. CASE Crash(c)
    <2>1. /\ Unlock(c) /\ pc' = [pc EXCEPT ![c] = "dead"] /\ route' = [route EXCEPT ![c] = None]
          /\ opening' = [opening EXCEPT ![c] = {}] /\ UNCHANGED <<status, key, reg>>
      BY <1>3 DEF Crash, GoTo, workerVars
    <2>2. /\ pc'[c] = "dead"
          /\ \A d \in Clients \ {c} :
               /\ pc'[d] = pc[d] /\ route'[d] = route[d] /\ opening'[d] = opening[d]
               /\ \A k \in Routes : lock[k] = d => lock'[k] = d
      BY <2>1 DEF Unlock, TypeInv, TypeOK
    <2> QED BY <2>1, <2>2, RouteFrame DEF Locked
  <1>4. CASE Respawn(c)
    <2>1. pc' = [pc EXCEPT ![c] = "idle"] /\ UNCHANGED <<route, opening, lock, status, key, reg>>
      BY <1>4 DEF Respawn, GoTo, workerVars
    <2>2. pc'[c] = "idle" /\ \A d \in Clients \ {c} : pc'[d] = pc[d]
      BY <2>1 DEF TypeInv, TypeOK
    <2> QED BY <2>1, <2>2, RouteFrame DEF Locked
  <1> QED BY <1>1, <1>2, <1>3, <1>4 DEF Use

LEMMA RouteWorkerStep ==
  ASSUME TypeInv, RouteInv,
         ReclaimerStep \/ \E w \in Workers : WorkerStep(w)
  PROVE  RouteInv'
  <1>w. \A w \in Workers : EndWorker(w) =>
          \A v \in Workers : status'[v] = "connecting" => status[v] = "connecting" /\ v # w
    BY DEF EndWorker, TypeInv, TypeOK
  <1>1. ASSUME NEW w \in Workers, WorkerStep(w)
        PROVE  RouteInv'
    <2>1. UNCHANGED <<pc, route, opening, lock>>
      BY <1>1
      DEF WorkerStep, OpenConn, RegisterConn, OpenFails, TimerFires, IdleClose, ClientDown,
          ConnLost, GunUp, LateCheckout, Unregister, Reap, clientVars
    <2>2. ASSUME NEW v \in Workers, status'[v] = "connecting"
          PROVE  status[v] = "connecting" /\ key'[v] = key[v] /\ reg'[v] = reg[v]
      <3>1. CASE OpenConn(w) \/ RegisterConn(w)
        BY <2>2, <3>1 DEF OpenConn, RegisterConn, TypeInv, TypeOK
      <3>2. CASE OpenFails(w)
        BY <1>w, <2>2, <3>2 DEF OpenFails, TypeInv, TypeOK
      <3>3. CASE IdleClose(w) \/ ClientDown(w) \/ ConnLost(w)
        BY <1>w, <2>2, <3>3 DEF IdleClose, ClientDown, ConnLost, SetWorker
      <3>4. CASE TimerFires(w) \/ GunUp(w) \/ LateCheckout(w) \/ Reap(w)
        BY <2>2, <3>4 DEF TimerFires, GunUp, LateCheckout, Reap, SetWorker
      <3>5. CASE Unregister(w)
        BY <2>2, <3>5 DEF Unregister, TypeInv, TypeOK
      <3> QED BY <1>1, <3>1, <3>2, <3>3, <3>4, <3>5 DEF WorkerStep
    <2> QED BY <2>1, <2>2, RouteQuiet
  <1>2. CASE ReclaimerStep
    <2>1. UNCHANGED <<pc, route, opening, lock, key, reg>>
      BY <1>2
      DEF ReclaimerStep, SelectWorkers, ReclaimInfo, NothingUnused, SomeUnused, Reclaim,
          ReclaimDone, ReclaimerExit, clientVars, workerVars
    <2>2. \A v \in Workers : status'[v] = "connecting" => status[v] = "connecting"
      <3>1. CASE Reclaim
        <4>1. PICK w \in unused : Reclaim!2!(w)
          BY <3>1 DEF Reclaim
        <4>2. w \in Workers
          BY DEF TypeInv, TypeOK
        <4> QED BY <1>w, <4>1, <4>2
      <3>2. CASE SelectWorkers \/ ReclaimInfo \/ NothingUnused \/ SomeUnused \/ ReclaimDone
        BY <3>2
        DEF SelectWorkers, ReclaimInfo, NothingUnused, SomeUnused, ReclaimDone,
            ReclaimerExit, workerVars
      <3> QED BY <1>2, <3>1, <3>2 DEF ReclaimerStep
    <2> QED BY <2>1, <2>2, RouteQuiet
  <1> QED BY <1>1, <1>2

\* What the holder of a route lock knows of the workers that are opening a
\* connection for the route is right, in every reachable state.
THEOREM RouteCorrect == Spec => []RouteInv
  <1>1. Init => RouteInv
    BY DEF Init, RouteInv, OneOpeningPerRoute, Locked
  <1>2. TypeInv /\ RouteInv /\ [Next]_vars => RouteInv'
    <2> SUFFICES ASSUME TypeInv, RouteInv, [Next]_vars PROVE RouteInv'
      OBVIOUS
    <2>1. CASE UNCHANGED vars
      BY <2>1, RouteQuiet DEF vars, clientVars, workerVars
    <2> QED BY <2>1, RouteAcquire, RouteUse, RouteWorkerStep DEF Next
  <1> QED BY <1>1, <1>2, LeaseCorrect, PTL DEF Spec

\* Two clients never open connections for one route at the same time.
THEOREM OneOpeningPerRouteCorrect == Spec => []OneOpeningPerRoute
  <1>1. RouteInv => OneOpeningPerRoute
    BY DEF RouteInv
  <1> QED BY <1>1, RouteCorrect, PTL

(***************************************************************************)
(* The limit of the pool.                                                  *)
(***************************************************************************)

\* A step that starts no worker and takes only dead ones off the list.
LEMMA LimitFrame ==
  ASSUME TypeInv, LimitRespected, children' \subseteq children,
         \A w \in Workers : status'[w] \in Live => status[w] \in Live /\ w \in children'
  PROVE  LimitRespected'
  <1>1. IsFiniteSet(children)
    BY WorkersFinite, FS_Subset DEF TypeInv, TypeOK
  <1>2. Cardinality(children') <= Cardinality(children)
        /\ Cardinality(children) \in Nat /\ Cardinality(children') \in Nat
    BY <1>1, FS_Subset, FS_CardinalityType
  <1>3. Cardinality(children') <= MaxConnections
    BY <1>2, LimitAssumption DEF LimitRespected
  <1> QED BY <1>3 DEF LimitRespected

LEMMA LimitStart ==
  ASSUME TypeInv, LimitRespected, NEW c \in Clients, Spawn(c)
  PROVE  LimitRespected'
  <1>1. PICK w \in FreePids :
          /\ status' = [status EXCEPT ![w] = "connecting"] /\ children' = children \cup {w}
    BY DEF Spawn
  <1>2. w \in Workers /\ w \notin children
    BY DEF FreePids
  <1>3. IsFiniteSet(children)
    BY WorkersFinite, FS_Subset DEF TypeInv, TypeOK
  <1>4. Cardinality(children') = Cardinality(children) + 1 /\ Cardinality(children) \in Nat
    BY <1>1, <1>2, <1>3, FS_AddElement, FS_CardinalityType
  <1>5. Cardinality(children') <= MaxConnections
    BY <1>4, LimitAssumption DEF Spawn, HasRoom
  <1>6. {v \in Workers : status'[v] \in Live} \subseteq children'
    BY <1>1, <1>2 DEF LimitRespected, TypeInv, TypeOK
  <1> QED BY <1>5, <1>6 DEF LimitRespected

\* No process the pool forgot: the supervisor counts every worker that lives,
\* and never more than the limit.
THEOREM LimitCorrect == Spec => []LimitRespected
  <1>1. Init => LimitRespected
    BY FS_EmptySet, LimitAssumption DEF Init, LimitRespected, Live
  <1>2. TypeInv /\ LimitRespected /\ [Next]_vars => LimitRespected'
    <2> SUFFICES ASSUME TypeInv, LimitRespected, [Next]_vars PROVE LimitRespected'
      OBVIOUS
    <2>e. ASSUME NEW w \in Workers, EndWorker(w),
                 children' = children \/ children' = children \ {w}
          PROVE  LimitRespected'
      <3>1. \A v \in Workers : status'[v] \in Live => v # w /\ status'[v] = status[v]
        BY <2>e DEF EndWorker, TypeInv, TypeOK, Live
      <3>2. \A v \in Workers : status'[v] \in Live => v \in children'
        BY <2>e, <3>1 DEF LimitRespected
      <3> QED BY <2>e, <3>1, <3>2, LimitFrame
    <2>q. ASSUME UNCHANGED <<status, children>>
          PROVE  LimitRespected'
      BY <2>q, LimitFrame DEF LimitRespected
    <2>1. ASSUME NEW c \in Clients, Acquire(c)
          PROVE  LimitRespected'
      <3>1. CASE StartWorker(c) \/ RestartWorker(c)
        BY <3>1, LimitStart DEF StartWorker, RestartWorker
      <3>2. CASE CheckoutExisting(c) \/ WaitCheckout(c)
        BY <3>2, <2>q DEF CheckoutExisting, WaitCheckout, SetWorker
      <3>3. CASE \/ Request(c) \/ Lookup(c) \/ CheckoutTimeout(c) \/ NoneAvailable(c)
                 \/ LockRoute(c) \/ ProvisionLookup(c) \/ WaitForOpening(c) \/ NoneOpening(c)
                 \/ PoolFull(c) \/ StartReclaimer(c) \/ MonitorReclaimer(c)
                 \/ ReclaimerDown(c) \/ GiveUp(c)
                 \/ ReceiveConn(c) \/ ReceiveDown(c) \/ WaitBusy(c) \/ WaitExit(c)
        BY <3>3, <2>q
        DEF Request, Lookup, CheckoutTimeout, NoneAvailable, LockRoute, ProvisionLookup,
            WaitForOpening, NoneOpening, PoolFull, StartReclaimer, MonitorReclaimer,
            ReclaimerDown, GiveUp, ReceiveConn, ReceiveDown, WaitBusy, WaitExit, workerVars
      <3> QED BY <2>1, <3>1, <3>2, <3>3 DEF Acquire
    <2>2. ASSUME NEW c \in Clients, Use(c)
          PROVE  LimitRespected'
      <3>1. conn[c] \in Workers
        BY <2>2 DEF Use, RegisterStream, FinishStream, ReleaseConn, ReleaseStream,
                    CancelStream, DiscardConn, DropResponse, TypeInv, Located, Holding
      <3> QED
        BY <2>2, <2>e, <2>q, <3>1
        DEF Use, RegisterStream, FinishStream, ReleaseConn, ReleaseStream, CancelStream,
            DiscardConn, DropResponse, SetWorker, workerVars
    <2>3. ASSUME NEW c \in Clients, Crash(c) \/ Respawn(c)
          PROVE  LimitRespected'
      BY <2>3, <2>q DEF Crash, Respawn, workerVars
    <2>4. ASSUME NEW w \in Workers, WorkerStep(w)
          PROVE  LimitRespected'
      <3>1. CASE OpenConn(w) \/ RegisterConn(w)
        <4>1. children' = children /\ \A v \in Workers : status'[v] \in Live => status[v] \in Live
          BY <3>1 DEF OpenConn, RegisterConn, TypeInv, TypeOK, Live
        <4> QED BY <4>1, LimitFrame DEF LimitRespected
      <3>2. CASE OpenFails(w) \/ IdleClose(w) \/ ClientDown(w) \/ ConnLost(w)
        BY <3>2, <2>e, <2>q DEF OpenFails, IdleClose, ClientDown, ConnLost, SetWorker
      <3>3. CASE TimerFires(w) \/ GunUp(w) \/ LateCheckout(w) \/ Unregister(w)
        BY <3>3, <2>q DEF TimerFires, GunUp, LateCheckout, Unregister, SetWorker
      <3>4. CASE Reap(w)
        BY <3>4, LimitFrame DEF Reap, LimitRespected, Live
      <3> QED BY <2>4, <3>1, <3>2, <3>3, <3>4 DEF WorkerStep
    <2>5. CASE ReclaimerStep
      <3>1. CASE Reclaim
        <4>1. PICK w \in unused : Reclaim!2!(w)
          BY <3>1 DEF Reclaim
        <4>2. w \in Workers /\ children' = children
          BY <3>1 DEF Reclaim, TypeInv, TypeOK
        <4> QED BY <2>e, <2>q, <4>1, <4>2
      <3>2. CASE SelectWorkers \/ ReclaimInfo \/ NothingUnused \/ SomeUnused \/ ReclaimDone
        BY <3>2, <2>q
        DEF SelectWorkers, ReclaimInfo, NothingUnused, SomeUnused, ReclaimDone,
            ReclaimerExit, workerVars
      <3> QED BY <2>5, <3>1, <3>2 DEF ReclaimerStep
    <2>6. CASE UNCHANGED vars
      BY <2>6, <2>q DEF vars, workerVars
    <2> QED BY <2>1, <2>2, <2>3, <2>4, <2>5, <2>6 DEF Next
  <1> QED BY <1>1, <1>2, LeaseCorrect, PTL DEF Spec

(***************************************************************************)
(* No lease outlives its use, as long as no checkout outlives its caller.  *)
(***************************************************************************)

\* The message that answers a start reaches the client that asked for it.
THEOREM OnlyOwnConnCorrect == Spec => []OnlyOwnConn
  <1>1. LeaseInv => OnlyOwnConn
    BY DEF LeaseInv
  <1> QED BY <1>1, LeaseCorrect, PTL

\* A client leaves a worker it had at most one lease of, or leaves it for good.
LEMMA LastLease ==
  ASSUME NEW st \in WorkerState, NEW c \in Clients, NEW all \in BOOLEAN, NEW t \in Tokens,
         all \/ st.clients[c].count <= 1
  PROVE  RemoveClient(st, c, all, t).clients[c].count = 0
  <1>1. Forget(st, c, t).clients[c].count = 0
    BY DEF Forget, NoLease, WorkerState, Lease
  <1>2. st.clients[c].count \in Nat
    BY DEF WorkerState, Lease
  <1> QED BY <1>1, <1>2 DEF RemoveClient

\* A client with more leases of a worker gives one back and keeps its streams.
LEMMA OneLeaseLess ==
  ASSUME NEW st \in WorkerState, NEW c \in Clients, NEW t \in Tokens,
         st.clients[c].count > 1
  PROVE  RemoveClient(st, c, FALSE, t).clients[c].streams = st.clients[c].streams
  BY DEF RemoveClient, WorkerState, Lease

\* The callbacks touch the lease of their caller only.
LEMMA OthersStreams ==
  ASSUME NEW st \in WorkerState, NEW c \in Clients, NEW s, NEW d \in Clients \ {c}
  PROVE  /\ PutStream(st, c, s).clients[d] = st.clients[d]
         /\ DropStream(st, c, s).clients[d] = st.clients[d]
  BY DEF PutStream, DropStream, WorkerState, Lease

LEMMA OthersLease ==
  ASSUME NEW st \in WorkerState, NEW c \in Clients, NEW all \in BOOLEAN, NEW t \in Tokens,
         NEW d \in Clients \ {c}
  PROVE  RemoveClient(st, c, all, t).clients[d] = st.clients[d]
  <1>1. Forget(st, c, t).clients[d] = st.clients[d]
    BY DEF Forget, NoLease, WorkerState, Lease
  <1>2. [st EXCEPT !.clients[c].count = @ - 1].clients[d] = st.clients[d]
    BY DEF WorkerState, Lease
  <1> QED BY <1>1, <1>2 DEF RemoveClient

\* What StrayInv says of one client and one worker.
Accounted(c, w) ==
    /\ state[w].clients[c].count > 0 =>
        Uses(c, w) \/ pc[c] = "dead" \/ Abandoned(c, w) # {}
    /\ state[w].clients[c].count > 1 => pc[c] = "dead" \/ Abandoned(c, w) # {}
    /\ status[w] # "up" => state[w].clients[c].count = 0
    /\ status[w] = "up" /\ pc[c] = "streaming" /\ conn[c] = w =>
        stream[c] \in ActiveStreams(state[w], c)

\* A step of c that takes nothing from w it would have to give back: c stays
\* where it is, dies, keeps using w outside a stream, or has no lease there.
Harmless(c, w) ==
    \/ pc'[c] = pc[c] /\ stream'[c] = stream[c] /\ conn'[c] = conn[c] /\ inbox'[c] = inbox[c]
    \/ pc'[c] = "dead"
    \/ pc'[c] # "streaming" /\ pc[c] # "dead" /\ (Uses(c, w) => Uses(c, w)')
    \/ pc'[c] # "streaming" /\ state[w].clients[c].count = 0

LEMMA StrayParts ==
  StrayInv <=> /\ \A c \in Clients, w \in Workers : Accounted(c, w)
               /\ late = {}
               /\ \A w \in Workers : status[w] = "up" => reg[w] = "open"
  BY DEF StrayInv, NoStrayLease, Accounted

LEMMA StrayPartsNext ==
  ASSUME \A c \in Clients, w \in Workers : Accounted(c, w)',
         late' = {},
         \A w \in Workers : status'[w] = "up" => reg'[w] = "open"
  PROVE  StrayInv'
  BY DEF StrayInv, NoStrayLease, Accounted

LEMMA AccountedStays ==
  ASSUME NEW c \in Clients, NEW w \in Workers, Accounted(c, w), Harmless(c, w),
         state'[w].clients[c] = state[w].clients[c],
         status'[w] = "up" <=> status[w] = "up"
  PROVE  Accounted(c, w)'
  <1>1. CASE pc'[c] = pc[c] /\ stream'[c] = stream[c] /\ conn'[c] = conn[c] /\ inbox'[c] = inbox[c]
    BY <1>1 DEF Accounted, Abandoned, ActiveStreams, Uses
  <1>2. CASE pc'[c] = "dead"
    BY <1>2 DEF Accounted
  <1>3. CASE pc'[c] # "streaming" /\ pc[c] # "dead" /\ (Uses(c, w) => Uses(c, w)')
    <2>1. Abandoned(c, w) \subseteq Abandoned(c, w)'
      BY <1>3 DEF Abandoned
    <2> QED BY <1>3, <2>1 DEF Accounted
  <1>4. CASE pc'[c] # "streaming" /\ state[w].clients[c].count = 0
    BY <1>4 DEF Accounted
  <1> QED BY <1>1, <1>2, <1>3, <1>4 DEF Harmless

LEMMA StrayQuiet ==
  ASSUME StrayInv, UNCHANGED <<state, late, reg>>,
         \A w \in Workers : status'[w] = "up" <=> status[w] = "up",
         \A c \in Clients, w \in Workers : Harmless(c, w)
  PROVE  StrayInv'
  <1>1. \A c \in Clients, w \in Workers : Accounted(c, w)'
    BY StrayParts, AccountedStays
  <1> QED BY <1>1, StrayParts, StrayPartsNext

\* A worker ends.
LEMMA StrayEnd ==
  ASSUME TypeInv, StrayInv, NEW w \in Workers, EndWorker(w), reg' = reg,
         \A c \in Clients, v \in Workers \ {w} : Harmless(c, v)
  PROVE  StrayInv'
  <1>1. /\ \A c \in Clients : state'[w].clients[c].count = 0
        /\ status'[w] = "dead"
        /\ \A v \in Workers \ {w} : state'[v] = state[v] /\ status'[v] = status[v]
    BY DEF EndWorker, NoState, NoLease, TypeInv, TypeOK
  <1>2. ASSUME NEW c \in Clients, NEW v \in Workers
        PROVE  Accounted(c, v)'
    <2>1. CASE v = w
      BY <1>1, <2>1 DEF Accounted
    <2>2. CASE v # w
      BY <1>1, <2>2, StrayParts, AccountedStays
    <2> QED BY <2>1, <2>2
  <1>3. late' = {}
    BY DEF EndWorker, StrayInv
  <1> QED BY <1>1, <1>2, <1>3, StrayParts, StrayPartsNext

\* One client's lease at one connected worker changes with its use.
LEMMA StrayTable ==
  ASSUME TypeInv, StrayInv, NEW w \in Workers, NEW st \in WorkerState, NEW c \in Clients,
         status[w] = "up", reg' = reg,
         SetWorker(w, st),
         \A d \in Clients \ {c} : /\ st.clients[d] = state[w].clients[d]
                                  /\ \A v \in Workers : Harmless(d, v),
         \A v \in Workers \ {w} : Harmless(c, v),
         Accounted(c, w)'
  PROVE  StrayInv'
  <1>1. /\ state'[w] = st
        /\ \A v \in Workers \ {w} : state'[v] = state[v]
        /\ status' = status /\ late' = late
    BY DEF SetWorker, TypeInv, TypeOK
  <1>2. ASSUME NEW d \in Clients, NEW v \in Workers
        PROVE  Accounted(d, v)'
    <2>1. CASE d = c /\ v = w
      BY <2>1
    <2>2. CASE d = c /\ v # w
      BY <1>1, <2>2, StrayParts, AccountedStays
    <2>3. CASE d # c
      <3>1. state'[v].clients[d] = state[v].clients[d]
        BY <1>1, <2>3
      <3> QED BY <1>1, <2>3, <3>1, StrayParts, AccountedStays
    <2> QED BY <2>1, <2>2, <2>3
  <1> QED BY <1>1, <1>2, StrayParts, StrayPartsNext

LEMMA StrayAcquire ==
  ASSUME ~CallTimeouts, TypeInv, LeaseInv, StrayInv, NEW c \in Clients, Acquire(c)
  PROVE  StrayInv'
  \* c moves to a place outside a stream and uses what it used; nobody else moves.
  <1>h. ASSUME NEW l \in Running \ {"streaming"}, GoTo(c, l), pc[c] # "dead",
               UNCHANGED <<stream, conn, inbox>>
        PROVE  \A d \in Clients, v \in Workers : Harmless(d, v)
    <2>1. pc'[c] # "streaming" /\ \A d \in Clients \ {c} : pc'[d] = pc[d]
      BY <1>h DEF GoTo, TypeInv, TypeOK
    <2>2. \A v \in Workers : Uses(c, v) => Uses(c, v)'
      BY <1>h DEF Uses
    <2> QED BY <1>h, <2>1, <2>2 DEF Harmless
  <1>q. ASSUME NEW w \in Workers, status[w] = "up", pc[c] \notin Holding \cup {"await", "dead"},
               SetWorker(w, Checkout(state[w], c)), Take(c, w), UNCHANGED <<stream, inbox, reg>>
        PROVE  StrayInv'
    <2>1. state[w] \in WorkerState /\ Checkout(state[w], c) \in WorkerState
      BY CheckoutType DEF TypeInv, TypeOK
    <2>2. conn[c] = None /\ inbox[c] = {}
      BY <1>q DEF LeaseInv, OnlyOwnConn
    <2>3. /\ pc'[c] = "using" /\ conn'[c] = w
          /\ \A d \in Clients \ {c} : pc'[d] = pc[d] /\ conn'[d] = conn[d]
      BY <1>q DEF Take, GoTo, TypeInv, TypeOK
    <2>4. \A d \in Clients \ {c} : /\ Checkout(state[w], c).clients[d] = state[w].clients[d]
                                   /\ \A v \in Workers : Harmless(d, v)
      BY <1>q, <2>1, <2>3, CheckoutLease DEF Harmless
    <2>5. \A v \in Workers \ {w} : Harmless(c, v)
      BY <1>q, <2>2, <2>3, NoneAssumption DEF Harmless, Uses
    <2>6. /\ Checkout(state[w], c).clients[c].count = state[w].clients[c].count + 1
          /\ Checkout(state[w], c).clients[c].streams = state[w].clients[c].streams
          /\ state[w].clients[c].count \in Nat
      BY <2>1 DEF Checkout, AddClient, WorkerState, Lease
    <2>7. state'[w] = Checkout(state[w], c) /\ status'[w] = "up"
      BY <1>q DEF SetWorker, TypeInv, TypeOK
    <2>8. Accounted(c, w)'
      <3>1. Uses(c, w)'
        BY <2>3 DEF Uses
      <3>2. state[w].clients[c].count > 0 => Abandoned(c, w) # {}
        BY <1>q, <2>2, NoneAssumption DEF StrayInv, NoStrayLease, Uses
      <3>3. Abandoned(c, w) \subseteq Abandoned(c, w)'
        BY <2>3, <2>6, <2>7 DEF Abandoned
      <3> QED BY <2>3, <2>6, <2>7, <3>1, <3>2, <3>3 DEF Accounted
    <2> QED BY <1>q, <2>1, <2>4, <2>5, <2>8, StrayTable
  <1>1. CASE CheckoutExisting(c)
    <2>1. PICK w \in todo[c] : CheckoutExisting(c)!2!(w)
      BY <1>1 DEF CheckoutExisting
    <2>w. /\ w \in Workers /\ pc[c] \notin Holding \cup {"await", "dead"}
          /\ UNCHANGED <<stream, inbox, reg>>
      BY <1>1 DEF CheckoutExisting, Holding, TypeInv, TypeOK
    <2>2. CASE status[w] = "up" /\ ~Busy(state[w])
      BY <1>q, <2>1, <2>w, <2>2
    <2>3. CASE status[w] = "up" => Busy(state[w])
      <3>1. UNCHANGED <<status, state, late, reg, pc, stream, conn, inbox>>
        BY <2>1, <2>w, <2>3
      <3> QED BY <3>1, StrayQuiet DEF Harmless
    <2> QED BY <2>2, <2>3
  <1>2. CASE WaitCheckout(c)
    <2>1. target[c] \in Workers
      BY <1>2 DEF WaitCheckout, TypeInv, Located
    <2> QED BY <1>2, <1>q, <2>1 DEF WaitCheckout, Holding
  <1>3. CASE StartWorker(c) \/ RestartWorker(c)
    <2>1. PICK w \in FreePids : /\ status' = [status EXCEPT ![w] = "connecting"]
                                /\ reg' = [reg EXCEPT ![w] = "opening"]
      BY <1>3 DEF StartWorker, RestartWorker, Spawn
    <2>2. /\ pc[c] # "dead" /\ GoTo(c, "await")
          /\ UNCHANGED <<stream, conn, inbox, state, late>>
      BY <1>3 DEF StartWorker, RestartWorker, Spawn
    <2>3. w \in Workers /\ status[w] = "dead"
      BY DEF FreePids
    <2>4. /\ \A v \in Workers : status'[v] = "up" <=> status[v] = "up"
          /\ \A v \in Workers : status'[v] = "up" => reg'[v] = reg[v]
      BY <2>1, <2>3 DEF TypeInv, TypeOK
    <2>5. \A d \in Clients, v \in Workers : Harmless(d, v)
      BY <1>h, <2>2 DEF Running
    <2>6. \A d \in Clients, v \in Workers : Accounted(d, v)'
      BY <2>2, <2>4, <2>5, StrayParts, AccountedStays
    <2> QED BY <2>2, <2>4, <2>6, StrayParts, StrayPartsNext
  <1>4. CASE CheckoutTimeout(c)
    BY <1>4 DEF CheckoutTimeout
  <1>5. CASE ReceiveConn(c)
    <2>1. PICK w \in inbox[c] : ReceiveConn(c)!2!(w)
      BY <1>5 DEF ReceiveConn
    <2>2. inbox[c] = {w} /\ pc[c] = "await" /\ conn[c] = None /\ w \in Workers
      BY <1>5, <2>1 DEF ReceiveConn, LeaseInv, OnlyOwnConn, Holding, TypeInv, TypeOK
    <2>3. /\ pc'[c] = "using" /\ conn'[c] = w
          /\ \A d \in Clients \ {c} : pc'[d] = pc[d] /\ conn'[d] = conn[d] /\ inbox'[d] = inbox[d]
      BY <1>5, <2>1 DEF ReceiveConn, Take, GoTo, TypeInv, TypeOK
    <2>4. UNCHANGED <<status, state, late, reg, stream>>
      BY <1>5 DEF ReceiveConn, workerVars
    <2>5. \A v \in Workers : Uses(c, v) => Uses(c, v)'
      BY <2>2, <2>3, NoneAssumption DEF Uses
    <2>6. \A d \in Clients, v \in Workers : Harmless(d, v)
      BY <2>2, <2>3, <2>4, <2>5 DEF Harmless
    <2> QED BY <2>4, <2>6, StrayQuiet
  <1>6. CASE GiveUp(c) \/ ReceiveDown(c) \/ WaitExit(c)
    <2>1. /\ pc[c] \notin Holding \cup {"dead"} /\ Finish(c)
          /\ UNCHANGED <<inbox, status, state, late, reg>>
      BY <1>6 DEF GiveUp, ReceiveDown, WaitExit, Holding, workerVars
    <2>2. conn[c] = None
      BY <2>1 DEF LeaseInv
    <2>3. /\ pc'[c] = "idle" /\ conn'[c] = None
          /\ \A d \in Clients \ {c} : pc'[d] = pc[d] /\ conn'[d] = conn[d] /\ stream'[d] = stream[d]
      BY <2>1 DEF Finish, GoTo, TypeInv, TypeOK
    <2>4. \A v \in Workers : Uses(c, v) => Uses(c, v)'
      BY <2>1, <2>2, <2>3 DEF Uses
    <2>5. \A d \in Clients, v \in Workers : Harmless(d, v)
      BY <2>1, <2>3, <2>4 DEF Harmless
    <2> QED BY <2>1, <2>5, StrayQuiet
  <1>7. CASE \/ Request(c) \/ Lookup(c) \/ NoneAvailable(c)
             \/ LockRoute(c) \/ ProvisionLookup(c) \/ WaitForOpening(c) \/ NoneOpening(c)
             \/ PoolFull(c) \/ StartReclaimer(c) \/ MonitorReclaimer(c)
             \/ ReclaimerDown(c) \/ WaitBusy(c)
    <2>1. /\ UNCHANGED <<status, state, late, reg, stream, conn, inbox>>
          /\ pc[c] # "dead" /\ \E l \in Running \ {"streaming"} : GoTo(c, l)
      BY <1>7
      DEF Request, Lookup, NoneAvailable, LockRoute, ProvisionLookup,
          WaitForOpening, NoneOpening, PoolFull, StartReclaimer, MonitorReclaimer,
          ReclaimerDown, WaitBusy, workerVars, Running, Locked, Holding
    <2>2. \A d \in Clients, v \in Workers : Harmless(d, v)
      BY <1>h, <2>1
    <2> QED BY <2>1, <2>2, StrayQuiet
  <1> QED BY <1>1, <1>2, <1>3, <1>4, <1>5, <1>6, <1>7 DEF Acquire

LEMMA StrayUse ==
  ASSUME TypeInv, LeaseInv, StrayInv, NEW c \in Clients, Use(c)
  PROVE  StrayInv'
  <1>w. PICK w \in Workers : w = conn[c] /\ state[w] \in WorkerState /\ pc[c] \in Holding
    BY DEF Use, RegisterStream, FinishStream, ReleaseConn, ReleaseStream, CancelStream,
           DiscardConn, DropResponse, TypeInv, TypeOK, Located, Holding
  <1>t. FreshToken(w) \in Tokens
    BY <1>w, FreshTokenType DEF TypeInv
  <1>i. \A v \in Workers \ {w} : ~Uses(c, v)
    BY <1>w DEF LeaseInv, OnlyOwnConn, Uses, Holding
  <1>a. /\ Accounted(c, w) /\ Uses(c, w) /\ pc[c] # "dead"
        /\ status[w] = "up" => state[w].clients[c].count > 0
    BY <1>w, StrayParts DEF Uses, Holding, LeaseInv, HeldIsLeased
  <1>n. state[w].clients[c].count \in Nat /\ ActiveStreams(state[w], c) \subseteq Streams
    BY <1>w DEF WorkerState, Lease, ActiveStreams
  \* The client goes on with its request: the others are where they were.
  <1>o. ASSUME NEW l \in {"streaming", "finished"}, GoTo(c, l), UNCHANGED <<conn, inbox>>,
               \A d \in Clients \ {c} : stream'[d] = stream[d]
        PROVE  /\ pc'[c] = l /\ Uses(c, w)'
               /\ \A d \in Clients \ {c}, v \in Workers : Harmless(d, v)
               /\ \A v \in Workers \ {w} : Accounted(c, v)
    <2>1. pc'[c] = l /\ \A d \in Clients \ {c} : pc'[d] = pc[d]
      BY <1>o DEF GoTo, TypeInv, TypeOK
    <2>2. Uses(c, w)'
      BY <1>a, <1>w, <1>o DEF Uses
    <2> QED BY <1>o, <2>1, <2>2, StrayParts DEF Harmless
  \* At another worker, which it does not use, its lease is as it was.
  <1>v. ASSUME NEW v \in Workers \ {w}, conn'[c] = conn[c], inbox'[c] = inbox[c],
               pc'[c] # "dead", state'[v] = state[v], status'[v] = status[v]
        PROVE  Accounted(c, v)'
    <2>1. ~Uses(c, v) /\ ~Uses(c, v)' /\ Accounted(c, v)
      BY <1>i, <1>v, StrayParts DEF Uses
    <2>2. conn[c] # v /\ conn'[c] # v
      BY <1>v, <1>w
    <2>3. Abandoned(c, v)' = Abandoned(c, v)
      BY <1>v, <2>2 DEF Abandoned
    <2> QED BY <1>a, <1>v, <2>1, <2>2, <2>3 DEF Accounted
  <1>s. ASSUME NEW st \in WorkerState, NEW l \in {"streaming", "finished"}, GoTo(c, l),
               UNCHANGED <<conn, inbox, reg>>,
               \A d \in Clients \ {c} : stream'[d] = stream[d],
               status[w] = "up", SetWorker(w, st), Accounted(c, w)',
               \A d \in Clients \ {c} : st.clients[d] = state[w].clients[d]
        PROVE  StrayInv'
    <2>1. /\ state'[w] = st /\ status' = status /\ late' = late
          /\ \A v \in Workers \ {w} : state'[v] = state[v]
      BY <1>s, <1>w DEF SetWorker, TypeInv, TypeOK
    <2>2. ASSUME NEW d \in Clients, NEW v \in Workers
          PROVE  Accounted(d, v)'
      <3>1. CASE d = c /\ v = w
        BY <1>s, <3>1
      <3>2. CASE d = c /\ v # w
        BY <1>o, <1>s, <1>v, <2>1, <3>2
      <3>3. CASE d # c
        <4>1. state'[v].clients[d] = state[v].clients[d] /\ Harmless(d, v)
          BY <1>o, <1>s, <2>1, <3>3
        <4> QED BY <2>1, <4>1, StrayParts, AccountedStays
      <3> QED BY <3>1, <3>2, <3>3
    <2> QED BY <1>s, <2>1, <2>2, StrayParts, StrayPartsNext
  <1>u. ASSUME NEW l \in {"streaming", "finished"}, GoTo(c, l),
               UNCHANGED <<status, state, late, conn, inbox, reg>>,
               \A d \in Clients \ {c} : stream'[d] = stream[d], ~Reachable(w)
        PROVE  StrayInv'
    <2>1. status[w] # "up"
      BY <1>u, <1>w DEF Reachable, StrayInv
    <2>2. Accounted(c, w)'
      BY <1>a, <1>u, <2>1 DEF Accounted
    <2>3. \A v \in Workers \ {w} : Accounted(c, v)'
      BY <1>o, <1>u, <1>v
    <2>4. \A d \in Clients \ {c}, v \in Workers : Accounted(d, v)'
      BY <1>o, <1>u, StrayParts, AccountedStays
    <2> QED BY <1>u, <2>2, <2>3, <2>4, StrayParts, StrayPartsNext
  \* It leaves the connection.
  <1>e. ASSUME Finish(c), UNCHANGED inbox
        PROVE  /\ pc'[c] = "idle" /\ conn'[c] = None
               /\ \A d \in Clients \ {c}, v \in Workers : Harmless(d, v)
               /\ \A v \in Workers \ {w} : Harmless(c, v)
    <2>1. /\ pc'[c] = "idle" /\ conn'[c] = None
          /\ \A d \in Clients \ {c} : pc'[d] = pc[d] /\ conn'[d] = conn[d] /\ stream'[d] = stream[d]
      BY <1>e DEF Finish, GoTo, TypeInv, TypeOK
    <2> QED BY <1>a, <1>e, <1>i, <2>1 DEF Harmless
  <1>g. ASSUME EndRequest(c), ~Reachable(w), UNCHANGED <<status, state, fired, late>>
        PROVE  StrayInv'
    <2>1. status[w] # "up"
      BY <1>g, <1>w DEF Reachable, StrayInv
    <2>2. Harmless(c, w)
      BY <1>a, <1>e, <1>g, <2>1 DEF Accounted, Harmless, EndRequest
    <2>3. \A d \in Clients, v \in Workers : Harmless(d, v)
      BY <1>e, <1>g, <2>2 DEF EndRequest
    <2> QED BY <1>g, <2>3, StrayQuiet DEF EndRequest
  <1>h. ASSUME EndRequest(c), Reachable(w), EndWorker(w)
        PROVE  StrayInv'
    <2>1. \A d \in Clients, v \in Workers \ {w} : Harmless(d, v)
      BY <1>e, <1>h DEF EndRequest
    <2> QED BY <1>h, <1>w, <2>1, StrayEnd DEF EndRequest
  <1>d. ASSUME EndRequest(c), Reachable(w),
               NEW st \in WorkerState,
               st.clients[c].count = state[w].clients[c].count,
               Abandoned(c, w) \subseteq st.clients[c].streams,
               \A d \in Clients \ {c} : st.clients[d] = state[w].clients[d],
               SetWorker(w, RemoveClient(st, c, FALSE, FreshToken(w)))
        PROVE  StrayInv'
    <2> DEFINE rest == RemoveClient(st, c, FALSE, FreshToken(w))
    <2>1. /\ rest \in WorkerState
          /\ \A d \in Clients \ {c} : rest.clients[d] = state[w].clients[d]
      BY <1>d, <1>t, RemoveClientType, OthersLease
    <2>2. state'[w] = rest /\ status'[w] = "up"
      BY <1>d, <1>w DEF SetWorker, Reachable, TypeInv, TypeOK
    <2>3. ASSUME st.clients[c].count <= 1
          PROVE  Accounted(c, w)'
      <3>1. rest.clients[c].count = 0
        BY <1>d, <1>t, <2>3, LastLease
      <3>2. pc'[c] = "idle"
        BY <1>d, <1>e DEF EndRequest
      <3> HIDE DEF rest
      <3> QED BY <2>2, <3>1, <3>2 DEF Accounted
    <2>4. ASSUME st.clients[c].count > 1
          PROVE  Accounted(c, w)'
      <3>1. rest.clients[c].streams = st.clients[c].streams
        BY <1>d, <1>t, <2>4, OneLeaseLess
      <3>2. Abandoned(c, w) # {}
        BY <1>a, <1>d, <2>4 DEF Accounted
      <3>3. pc'[c] = "idle"
        BY <1>d, <1>e DEF EndRequest
      <3>4. Abandoned(c, w)' # {}
        BY <1>d, <2>2, <3>1, <3>2, <3>3 DEF Abandoned
      <3> HIDE DEF rest
      <3> QED BY <2>2, <3>3, <3>4 DEF Accounted
    <2>5. Accounted(c, w)'
      <3>1. st.clients[c].count \in Nat
        BY <1>d DEF WorkerState, Lease
      <3> QED BY <2>3, <2>4, <3>1
    <2>6. /\ status[w] = "up" /\ reg' = reg
          /\ \A d \in Clients \ {c}, v \in Workers : Harmless(d, v)
          /\ \A v \in Workers \ {w} : Harmless(c, v)
      BY <1>d, <1>e DEF EndRequest, Reachable
    <2> HIDE DEF rest
    <2>7. SetWorker(w, rest)
      BY <1>d DEF rest
    <2> QED BY <2>1, <2>5, <2>6, <2>7, StrayTable
  \* Without the stream it reads its lease is the abandoned streams' alone.
  <1>f. ASSUME NEW s
        PROVE  /\ DropStream(state[w], c, s) \in WorkerState
               /\ DropStream(state[w], c, s).clients[c].count = state[w].clients[c].count
               /\ DropStream(state[w], c, s).clients[c].streams = ActiveStreams(state[w], c) \ {s}
               /\ \A d \in Clients \ {c} :
                    DropStream(state[w], c, s).clients[d] = state[w].clients[d]
    BY <1>w, DropStreamType DEF DropStream, WorkerState, Lease, ActiveStreams
  <1>1. CASE RegisterStream(c)
    <2>1. PICK s \in IF Reachable(w) THEN FreshStreams(c, w) ELSE Streams :
             RegisterStream(c)!2!(s)
      BY <1>1, <1>w DEF RegisterStream
    <2>2. /\ GoTo(c, "streaming") /\ UNCHANGED <<conn, inbox, reg>>
          /\ pc[c] = "using" /\ stream' = [stream EXCEPT ![c] = s]
      BY <1>1, <2>1 DEF RegisterStream
    <2>3. stream'[c] = s /\ \A d \in Clients \ {c} : stream'[d] = stream[d]
      BY <2>2 DEF TypeInv, TypeOK
    <2>5. CASE Reachable(w)
      <3> DEFINE put == PutStream(state[w], c, s)
      <3>1. s \in Streams \ ActiveStreams(state[w], c)
        BY <2>1, <2>5 DEF FreshStreams
      <3>2. /\ put \in WorkerState
            /\ \A d \in Clients \ {c} : put.clients[d] = state[w].clients[d]
        BY <1>w, <3>1, PutStreamType, OthersStreams
      <3>3. /\ put.clients[c].count = state[w].clients[c].count
            /\ put.clients[c].streams = ActiveStreams(state[w], c) \cup {s}
        BY <1>a, <1>w, <2>5, <3>1 DEF Reachable, PutStream, WorkerState, Lease, ActiveStreams
      <3>4. SetWorker(w, put)
        BY <1>w, <2>1, <2>5
      <3> HIDE DEF put
      <3>5. state'[w] = put /\ status'[w] = "up" /\ status[w] = "up"
        BY <1>w, <2>5, <3>4 DEF SetWorker, Reachable, TypeInv, TypeOK
      <3>6. pc'[c] = "streaming" /\ Uses(c, w)'
        BY <1>o, <2>2, <2>3
      <3>7. Abandoned(c, w) \subseteq Abandoned(c, w)'
        <4>1. Abandoned(c, w) = ActiveStreams(state[w], c)
          BY <2>2 DEF Abandoned, ActiveStreams
        <4>2. Abandoned(c, w)' = put.clients[c].streams \ {s}
          BY <1>w, <2>2, <2>3, <3>5, <3>6 DEF Abandoned
        <4> QED BY <3>1, <3>3, <4>1, <4>2
      <3>8. Accounted(c, w)'
        BY <1>a, <2>3, <3>3, <3>5, <3>6, <3>7 DEF Accounted, ActiveStreams
      <3> QED BY <1>s, <2>2, <2>3, <3>2, <3>4, <3>5, <3>8
    <2>6. CASE ~Reachable(w)
      BY <1>u, <1>w, <2>1, <2>2, <2>3, <2>6
    <2> QED BY <2>5, <2>6
  <1>2. CASE FinishStream(c)
    <2> DEFINE dropped == DropStream(state[w], c, stream[c])
    <2>1. GoTo(c, "finished") /\ UNCHANGED <<stream, conn, inbox, reg>> /\ pc[c] = "streaming"
      BY <1>2 DEF FinishStream
    <2>2. CASE Reachable(w)
      <3>1. SetWorker(w, dropped)
        BY <1>2, <1>w, <2>2 DEF FinishStream
      <3>2. /\ dropped \in WorkerState
            /\ dropped.clients[c].count = state[w].clients[c].count
            /\ dropped.clients[c].streams = Abandoned(c, w)
            /\ \A d \in Clients \ {c} : dropped.clients[d] = state[w].clients[d]
        BY <1>f, <1>w, <2>1 DEF Abandoned, ActiveStreams
      <3> HIDE DEF dropped
      <3>3. state'[w] = dropped /\ status'[w] = "up" /\ status[w] = "up"
        BY <1>w, <2>2, <3>1 DEF SetWorker, Reachable, TypeInv, TypeOK
      <3>4. pc'[c] = "finished" /\ Uses(c, w)'
        BY <1>o, <2>1
      <3>5. Abandoned(c, w)' = Abandoned(c, w)
        BY <3>2, <3>3, <3>4 DEF Abandoned
      <3>6. Accounted(c, w)'
        BY <1>a, <3>2, <3>3, <3>4, <3>5 DEF Accounted
      <3> QED BY <1>s, <2>1, <3>1, <3>2, <3>3, <3>6
    <2>3. CASE ~Reachable(w)
      BY <1>2, <1>w, <1>u, <2>1, <2>3 DEF FinishStream
    <2> QED BY <2>2, <2>3
  <1>3. CASE ReleaseConn(c)
    <2>1. Abandoned(c, w) \subseteq state[w].clients[c].streams
      BY DEF Abandoned
    <2> QED BY <1>3, <1>w, <1>d, <1>g, <1>h, <2>1 DEF ReleaseConn
  <1>4. ASSUME pc[c] = "streaming"
        PROVE  LET st == DropStream(state[w], c, stream[c])
               IN  /\ st \in WorkerState
                   /\ st.clients[c].count = state[w].clients[c].count
                   /\ Abandoned(c, w) \subseteq st.clients[c].streams
                   /\ \A d \in Clients \ {c} : st.clients[d] = state[w].clients[d]
    BY <1>4, <1>f, <1>w DEF Abandoned, ActiveStreams
  <1>5. CASE ReleaseStream(c)
    BY <1>4, <1>5, <1>w, <1>d, <1>g DEF ReleaseStream
  <1>6. CASE CancelStream(c)
    BY <1>4, <1>6, <1>w, <1>d, <1>g, <1>h DEF CancelStream
  <1>7. CASE DiscardConn(c)
    BY <1>7, <1>w, <1>g, <1>h DEF DiscardConn
  <1>8. CASE DropResponse(c)
    <2>1. /\ pc[c] = "streaming" /\ Finish(c)
          /\ UNCHANGED <<inbox, status, state, late, reg>>
      BY <1>8 DEF DropResponse, workerVars
    <2>2. pc'[c] = "idle"
      BY <1>e, <2>1
    <2>3. status[w] = "up" => Abandoned(c, w)' # {}
      BY <1>a, <1>w, <2>1, <2>2 DEF Accounted, Abandoned, ActiveStreams
    <2>4. Accounted(c, w)'
      BY <1>a, <2>1, <2>2, <2>3 DEF Accounted
    <2>5. \A v \in Workers \ {w} : Accounted(c, v)'
      BY <1>e, <2>1, StrayParts, AccountedStays
    <2>6. \A d \in Clients \ {c}, v \in Workers : Accounted(d, v)'
      BY <1>e, <2>1, StrayParts, AccountedStays
    <2> QED BY <2>1, <2>4, <2>5, <2>6, StrayParts, StrayPartsNext
  <1> QED BY <1>1, <1>2, <1>3, <1>5, <1>6, <1>7, <1>8 DEF Use

LEMMA StrayWorkerStep ==
  ASSUME TypeInv, LeaseInv, StrayInv, NEW w \in Workers, WorkerStep(w)
  PROVE  StrayInv'
  <1>w. state[w] \in WorkerState
    BY DEF TypeInv, TypeOK
  <1>t. FreshToken(w) \in Tokens
    BY FreshTokenType DEF TypeInv
  <1>s. ASSUME UNCHANGED clientVars
        PROVE  \A c \in Clients, v \in Workers : Harmless(c, v)
    BY <1>s DEF clientVars, Harmless
  <1>1. CASE OpenConn(w)
    <2>1. /\ UNCHANGED clientVars /\ UNCHANGED <<state, late>>
          /\ \A v \in Workers : status'[v] = "up" <=> status[v] = "up"
          /\ \A v \in Workers : status'[v] = "up" => reg'[v] = reg[v]
      BY <1>1 DEF OpenConn, TypeInv, TypeOK
    <2>2. \A c \in Clients, v \in Workers : Accounted(c, v)'
      BY <1>s, <2>1, StrayParts, AccountedStays
    <2> QED BY <2>1, <2>2, StrayParts, StrayPartsNext
  <1>2. CASE RegisterConn(w)
    <2>1. PICK p \in OpenProtocols : state' = [state EXCEPT ![w] = Connected(owner[w], p)]
      BY <1>2 DEF RegisterConn
    <2>2. PICK o \in Clients : o = owner[w]
      BY <1>2 DEF RegisterConn, TypeInv, Located
    <2>3. /\ \A c \in Clients : Connected(o, p).clients[c].count
                                  = IF c = o THEN 1 ELSE 0
          /\ state'[w] = Connected(o, p)
          /\ \A v \in Workers \ {w} : state'[v] = state[v]
      BY <2>1, <2>2 DEF Connected, NoState, NoLease, TypeInv, TypeOK
    <2>m. /\ pc' = pc /\ late' = late /\ conn' = conn /\ stream' = stream
          /\ inbox' = [inbox EXCEPT ![o] =
                         IF pc[o] = "dead" THEN @ ELSE @ \cup {w}]
      BY <1>2, <2>2 DEF RegisterConn
    <2>4. /\ \A c \in Clients \ {o} : inbox'[c] = inbox[c]
          /\ \A v \in Workers \ {w} : Uses(o, v)' <=> Uses(o, v)
          /\ pc[o] = "dead" \/ Uses(o, w)'
      BY <2>2, <2>m DEF Uses, TypeInv, TypeOK
    <2>5. \A c \in Clients : conn[c] # w
      BY <1>2 DEF RegisterConn, LeaseInv, Uses
    <2>6. /\ status'[w] = "up" /\ reg'[w] = "open"
          /\ \A v \in Workers \ {w} : status'[v] = status[v] /\ reg'[v] = reg[v]
      BY <1>2 DEF RegisterConn, TypeInv, TypeOK
    <2>7. ASSUME NEW c \in Clients, NEW v \in Workers
          PROVE  Accounted(c, v)'
      <3>0. Accounted(c, v)
        BY StrayParts
      <3>1. CASE v = w
        BY <2>3, <2>4, <2>5, <2>6, <2>m, <3>1 DEF Accounted
      <3>2. CASE v # w
        <4>1. Uses(c, v)' <=> Uses(c, v)
          BY <2>4, <2>m, <3>2 DEF Uses
        <4>2. /\ state'[v] = state[v] /\ status'[v] = status[v]
              /\ Abandoned(c, v)' = Abandoned(c, v)
          BY <2>3, <2>6, <2>m, <3>2 DEF Abandoned
        <4> QED BY <2>m, <3>0, <4>1, <4>2 DEF Accounted
      <3> QED BY <3>1, <3>2
    <2> QED BY <2>m, <2>6, <2>7, StrayParts, StrayPartsNext
  <1>3. CASE OpenFails(w) \/ ConnLost(w)
    BY <1>3, <1>s, StrayEnd DEF OpenFails, ConnLost
  <1>4. CASE TimerFires(w) \/ Reap(w)
    BY <1>4, <1>s, StrayQuiet DEF TimerFires, Reap
  <1>5. CASE Unregister(w)
    <2>1. /\ UNCHANGED clientVars /\ UNCHANGED <<status, state, late>>
          /\ \A v \in Workers : status'[v] = "up" => reg'[v] = reg[v]
      BY <1>5 DEF Unregister, TypeInv, TypeOK
    <2>2. \A c \in Clients, v \in Workers : Accounted(c, v)'
      BY <1>s, <2>1, StrayParts, AccountedStays
    <2> QED BY <2>1, <2>2, StrayParts, StrayPartsNext
  <1>6. CASE IdleClose(w)
    BY <1>6, <1>s, StrayEnd, StrayQuiet DEF IdleClose
  <1>7. CASE ClientDown(w)
    <2>1. PICK c \in LeaseHolders(state[w]) : ClientDown(w)!2!(c)
      BY <1>7 DEF ClientDown
    <2>2. c \in Clients /\ status[w] = "up"
      BY <1>7 DEF LeaseHolders, ClientDown
    <2>5. reg' = reg /\ UNCHANGED clientVars
      BY <1>7 DEF ClientDown
    <2>6. CASE MustStop(state[w], c)
      BY <1>s, <2>1, <2>5, <2>6, StrayEnd
    <2>7. CASE ~MustStop(state[w], c)
      <3> DEFINE rest == RemoveClient(state[w], c, TRUE, FreshToken(w))
      <3>1. /\ rest \in WorkerState
            /\ \A d \in Clients \ {c} : rest.clients[d] = state[w].clients[d]
            /\ rest.clients[c].count = 0
        BY <1>w, <1>t, <2>2, RemoveClientType, OthersLease, LastLease
      <3>2. SetWorker(w, rest) /\ pc[c] = "dead"
        BY <2>1, <2>7
      <3> HIDE DEF rest
      <3>3. state'[w] = rest /\ status'[w] = "up" /\ pc'[c] = "dead"
        BY <2>2, <2>5, <3>2 DEF SetWorker, clientVars, TypeInv, TypeOK
      <3>4. Accounted(c, w)'
        BY <3>1, <3>3 DEF Accounted
      <3> QED BY <1>s, <2>2, <2>5, <3>1, <3>2, <3>4, StrayTable
    <2> QED BY <2>6, <2>7
  <1>8. CASE GunUp(w)
    <2>1. PICK p : SetWorker(w, [state[w] EXCEPT !.protocol = p])
      BY <1>8 DEF GunUp
    <2>2. /\ status' = status /\ late' = late /\ reg' = reg /\ UNCHANGED clientVars
          /\ \A v \in Workers : state'[v].clients = state[v].clients
      BY <1>8, <1>w, <2>1 DEF GunUp, SetWorker, WorkerState, TypeInv, TypeOK
    <2>3. \A c \in Clients, v \in Workers : Accounted(c, v)'
      BY <1>s, <2>2, StrayParts, AccountedStays
    <2> QED BY <2>2, <2>3, StrayParts, StrayPartsNext
  <1>9. CASE LateCheckout(w)
    BY <1>9 DEF LateCheckout, StrayInv
  <1> QED
    BY <1>1, <1>2, <1>3, <1>4, <1>5, <1>6, <1>7, <1>8, <1>9 DEF WorkerStep

\* While checkouts answer in time, every lease belongs to a client that uses
\* the connection, to a dead one, or to one whose dropped response still has a
\* stream there: every other connection that is released becomes idle.
THEOREM NoStrayLeaseCorrect ==
  ASSUME ~CallTimeouts
  PROVE  Spec => []NoStrayLease
  <1>1. Init => StrayInv
    BY DEF Init, StrayInv, NoStrayLease, NoState, NoLease
  <1>2. TypeInv /\ LeaseInv /\ StrayInv /\ [Next]_vars => StrayInv'
    <2> SUFFICES ASSUME TypeInv, LeaseInv, StrayInv, [Next]_vars PROVE StrayInv'
      OBVIOUS
    <2>1. ASSUME NEW c \in Clients, Crash(c)
          PROVE  StrayInv'
      <3>1. /\ UNCHANGED <<status, state, late, reg>>
            /\ pc'[c] = "dead"
            /\ \A d \in Clients \ {c} : /\ pc'[d] = pc[d] /\ stream'[d] = stream[d]
                                        /\ conn'[d] = conn[d] /\ inbox'[d] = inbox[d]
        BY <2>1 DEF Crash, GoTo, workerVars, TypeInv, TypeOK
      <3> QED BY <3>1, StrayQuiet DEF Harmless
    <2>2. ASSUME NEW c \in Clients, Respawn(c)
          PROVE  StrayInv'
      <3>1. /\ UNCHANGED <<status, state, late, reg, stream, conn, inbox>>
            /\ \A v \in Workers : state[v].clients[c].count = 0
            /\ pc'[c] = "idle" /\ \A d \in Clients \ {c} : pc'[d] = pc[d]
        BY <2>2 DEF Respawn, GoTo, workerVars, TypeInv, TypeOK
      <3> QED BY <3>1, StrayQuiet DEF Harmless
    <2>3. CASE ReclaimerStep
      <3>s. UNCHANGED <<pc, stream, conn, inbox, reg>>
        BY <2>3 DEF ReclaimerStep, SelectWorkers, ReclaimInfo, NothingUnused, SomeUnused,
                    Reclaim, ReclaimDone, ReclaimerExit, clientVars, workerVars
      <3>u. \A c \in Clients, v \in Workers : Harmless(c, v)
        BY <3>s DEF Harmless
      <3>1. CASE Reclaim
        <4>1. PICK w \in unused : Reclaim!2!(w)
          BY <3>1 DEF Reclaim
        <4>2. w \in Workers
          BY DEF TypeInv, TypeOK
        <4> QED BY <3>s, <3>u, <4>1, <4>2, StrayEnd, StrayQuiet
      <3>2. CASE SelectWorkers \/ ReclaimInfo \/ NothingUnused \/ SomeUnused \/ ReclaimDone
        <4>1. UNCHANGED <<status, state, late, reg>>
          BY <3>2 DEF SelectWorkers, ReclaimInfo, NothingUnused, SomeUnused, ReclaimDone,
                      ReclaimerExit, workerVars
        <4> QED BY <3>u, <4>1, StrayQuiet
      <3> QED BY <2>3, <3>1, <3>2 DEF ReclaimerStep
    <2>4. CASE UNCHANGED vars
      BY <2>4, StrayQuiet DEF vars, clientVars, workerVars, Harmless
    <2> QED
      BY <2>1, <2>2, <2>3, <2>4, StrayAcquire, StrayUse, StrayWorkerStep DEF Next
  <1>3. StrayInv => NoStrayLease
    BY DEF StrayInv
  <1> QED BY <1>1, <1>2, <1>3, LeaseCorrect, PTL DEF Spec

(***************************************************************************)
(* Route locks are given back.                                             *)
(***************************************************************************)

\* A step of client c that gives its lock up, or leaves the locks alone while
\* c is outside them or stays inside the one it has.
LEMMA InsideFrame ==
  ASSUME TypeInv, LockHeldInside, NEW c \in Clients,
         \A d \in Clients \ {c} : pc'[d] = pc[d] /\ route'[d] = route[d],
         \/ Unlock(c)
         \/ lock' = lock /\ (pc[c] \notin Locked \/ (pc'[c] \in Locked /\ route'[c] = route[c]))
  PROVE  LockHeldInside'
  <1> SUFFICES ASSUME NEW d \in Clients, NEW k \in Routes, lock'[k] = d
               PROVE  pc'[d] \in Locked /\ route'[d] = k
    BY DEF LockHeldInside
  <1>1. lock[k] = d
    BY NoneAssumption DEF Unlock
  <1>2. Unlock(c) => d # c
    BY NoneAssumption DEF Unlock
  <1> QED BY <1>1, <1>2 DEF LockHeldInside

LEMMA InsideAcquire ==
  ASSUME TypeInv, LockHeldInside, NEW c \in Clients, Acquire(c)
  PROVE  LockHeldInside'
  <1>1. CASE LockRoute(c)
    <2>1. /\ pc[c] = "lock" /\ lock' = [lock EXCEPT ![route[c]] = c]
          /\ pc' = [pc EXCEPT ![c] = "locked_lookup"] /\ route' = route
      BY <1>1 DEF LockRoute, GoTo
    <2>2. \A d \in Clients, k \in Routes : lock'[k] = d => lock[k] = d \/ (d = c /\ k = route[c])
      BY <2>1 DEF TypeInv, TypeOK
    <2>3. pc[c] \notin Locked /\ pc'[c] \in Locked /\ \A d \in Clients \ {c} : pc'[d] = pc[d]
      BY <2>1 DEF Locked, TypeInv, TypeOK
    <2> QED BY <2>1, <2>2, <2>3 DEF LockHeldInside
  <1>2. CASE StartWorker(c) \/ RestartWorker(c) \/ WaitForOpening(c)
    <2>1. Unlock(c) /\ route' = route /\ \E l \in Running : GoTo(c, l)
      BY <1>2 DEF StartWorker, RestartWorker, Spawn, WaitForOpening, Running
    <2> QED BY <2>1, InsideFrame DEF GoTo, TypeInv, TypeOK
  <1>3. CASE CheckoutExisting(c)
    <2>1. route' = route /\ \/ Unlock(c) /\ GoTo(c, "using")
                            \/ UNCHANGED <<lock, pc>>
      BY <1>3 DEF CheckoutExisting, Take
    <2>2. CASE Unlock(c) /\ GoTo(c, "using")
      BY <2>1, <2>2, InsideFrame DEF GoTo, TypeInv, TypeOK
    <2> QED BY <2>1, <2>2 DEF LockHeldInside
  <1>4. CASE CheckoutTimeout(c)
    BY <1>4 DEF CheckoutTimeout, LockHeldInside
  <1>5. CASE ProvisionLookup(c) \/ NoneOpening(c) \/ PoolFull(c) \/ StartReclaimer(c)
             \/ MonitorReclaimer(c) \/ ReclaimerDown(c)
    <2>1. route' = route /\ lock' = lock /\ \E l \in Locked : GoTo(c, l)
      BY <1>5
      DEF ProvisionLookup, NoneOpening, PoolFull, StartReclaimer, MonitorReclaimer, ReclaimerDown, Locked
    <2> QED BY <2>1, InsideFrame DEF GoTo, TypeInv, TypeOK
  <1>6. CASE Lookup(c) \/ NoneAvailable(c) \/ WaitBusy(c) \/ ReceiveConn(c) \/ WaitCheckout(c)
    <2>1. /\ pc[c] \notin Locked /\ route' = route /\ lock' = lock
          /\ \E l \in Running : GoTo(c, l)
      BY <1>6 DEF Lookup, NoneAvailable, WaitBusy, ReceiveConn, WaitCheckout, Take, Locked, Running, Holding
    <2> QED BY <2>1, InsideFrame DEF GoTo, TypeInv, TypeOK
  <1>7. CASE Request(c)
    <2>1. /\ pc[c] \notin Locked /\ GoTo(c, "lookup") /\ lock' = lock
          /\ \E k \in Routes : route' = [route EXCEPT ![c] = k]
      BY <1>7 DEF Request, Locked
    <2> QED BY <2>1, InsideFrame DEF GoTo, TypeInv, TypeOK
  <1>8. CASE GiveUp(c) \/ ReceiveDown(c) \/ WaitExit(c)
    <2>1. Finish(c) /\ (Unlock(c) \/ (lock' = lock /\ pc[c] \notin Locked))
      BY <1>8 DEF GiveUp, ReceiveDown, WaitExit, Locked
    <2> QED BY <2>1, InsideFrame DEF Finish, GoTo, TypeInv, TypeOK
  <1> QED BY <1>1, <1>2, <1>3, <1>4, <1>5, <1>6, <1>7, <1>8 DEF Acquire

LEMMA InsideUse ==
  ASSUME TypeInv, LockHeldInside, NEW c \in Clients, Use(c) \/ Crash(c) \/ Respawn(c)
  PROVE  LockHeldInside'
  <1>1. CASE RegisterStream(c) \/ FinishStream(c)
    <2>1. /\ pc[c] \notin Locked /\ route' = route /\ lock' = lock
          /\ \E l \in Running : GoTo(c, l)
      BY <1>1 DEF RegisterStream, FinishStream, Locked, Running, Holding
    <2> QED BY <2>1, InsideFrame DEF GoTo, TypeInv, TypeOK
  <1>2. CASE ReleaseConn(c) \/ ReleaseStream(c) \/ CancelStream(c) \/ DiscardConn(c) \/ DropResponse(c)
    <2>1. Finish(c) /\ lock' = lock /\ pc[c] \notin Locked
      BY <1>2 DEF ReleaseConn, ReleaseStream, CancelStream, DiscardConn, DropResponse, EndRequest, workerVars, Locked, Holding
    <2> QED BY <2>1, InsideFrame DEF Finish, GoTo, TypeInv, TypeOK
  <1>3. CASE Crash(c)
    BY <1>3, InsideFrame DEF Crash, GoTo, TypeInv, TypeOK
  <1>4. CASE Respawn(c)
    BY <1>4, InsideFrame DEF Respawn, GoTo, Locked, TypeInv, TypeOK
  <1> QED BY <1>1, <1>2, <1>3, <1>4 DEF Use

LEMMA QuietStep ==
  ASSUME ReclaimerStep \/ \E w \in Workers : WorkerStep(w)
  PROVE  UNCHANGED <<pc, route, todo, opening, target, conn, lock>>
  BY DEF ReclaimerStep, SelectWorkers, ReclaimInfo, NothingUnused, SomeUnused, Reclaim,
         ReclaimDone, ReclaimerExit, clientVars, workerVars, WorkerStep, OpenConn,
         RegisterConn, OpenFails, TimerFires, IdleClose, ClientDown,
         ConnLost, GunUp, LateCheckout, Unregister, Reap

\* A route lock belongs to a client that is inside with_route_lock for that
\* route, in every reachable state: every way out of provision gives it back.
THEOREM LockHeldInsideCorrect == Spec => []LockHeldInside
  <1>1. Init => LockHeldInside
    BY NoneAssumption DEF Init, LockHeldInside
  <1>2. TypeInv /\ LockHeldInside /\ [Next]_vars => LockHeldInside'
    <2> SUFFICES ASSUME TypeInv, LockHeldInside, [Next]_vars PROVE LockHeldInside'
      OBVIOUS
    <2>1. CASE UNCHANGED vars
      BY <2>1 DEF vars, clientVars, LockHeldInside
    <2>2. CASE ReclaimerStep \/ \E w \in Workers : WorkerStep(w)
      BY <2>2, QuietStep DEF LockHeldInside
    <2> QED BY <2>1, <2>2, InsideAcquire, InsideUse DEF Next
  <1> QED BY <1>1, <1>2, LeaseCorrect, PTL DEF Spec


(***************************************************************************)
(* The workers a client refers to serve its route.                         *)
(***************************************************************************)

\* A step of client c, or of none, in which no worker is started.
LEMMA KeyFrame ==
  ASSUME TypeInv, KeyInv, NEW c \in Clients,
         \A d \in Clients \ {c} : /\ pc'[d] = pc[d] /\ route'[d] = route[d]
                                  /\ todo'[d] = todo[d] /\ opening'[d] = opening[d]
                                  /\ target'[d] = target[d]
                                  /\ \A w \in Workers : Uses(d, w)' <=> Uses(d, w),
         pc'[c] \in {"idle", "dead"} <=> route'[c] = None,
         todo'[c] # {} => pc'[c] \in {"try", "locked_try"},
         opening'[c] # {} => pc'[c] = "locked_try",
         target'[c] # None => pc'[c] \in {"await", "wait"},
         \A w \in Workers : status[w] # "dead" /\ Refers(c, w)' => key[w] = route'[c],
         \A w \in Workers : status'[w] # "dead" => status[w] # "dead" /\ key'[w] = key[w]
  PROVE  KeyInv'
  <1>1. \A d \in Clients :
          /\ pc'[d] \in {"idle", "dead"} <=> route'[d] = None
          /\ todo'[d] # {} => pc'[d] \in {"try", "locked_try"}
          /\ opening'[d] # {} => pc'[d] = "locked_try"
          /\ target'[d] # None => pc'[d] \in {"await", "wait"}
    BY DEF KeyInv
  <1>2. ASSUME NEW d \in Clients, NEW w \in Workers, status'[w] # "dead", Refers(d, w)'
        PROVE  key'[w] = route'[d]
    <2>1. CASE d = c
      BY <1>2, <2>1
    <2>2. CASE d # c
      <3>1. Refers(d, w)
        BY <1>2, <2>2 DEF Refers
      <3> QED BY <1>2, <2>2, <3>1 DEF KeyInv
    <2> QED BY <2>1, <2>2
  <1>3. \A w \in Workers : status'[w] # "dead" => key'[w] \in Routes
    BY DEF KeyInv
  <1> QED BY <1>1, <1>2, <1>3 DEF KeyInv

\* A client goes on to another step with what it knows.
LEMMA KeyMove ==
  ASSUME TypeInv, KeyInv, NEW c \in Clients,
         NEW l \in Running \ {"idle"}, GoTo(c, l),
         pc[c] \notin {"idle", "dead"},
         UNCHANGED <<route, conn, inbox, status, key>>,
         \A d \in Clients \ {c} : /\ todo'[d] = todo[d] /\ opening'[d] = opening[d]
                                  /\ target'[d] = target[d],
         todo'[c] # {} => l \in {"try", "locked_try"},
         opening'[c] # {} => l = "locked_try",
         target'[c] # None => l \in {"await", "wait"},
         \A w \in todo'[c] \cup opening'[c] : Refers(c, w) \/ key[w] = route[c],
         target'[c] # None => Refers(c, target'[c])
  PROVE  KeyInv'
  <1>1. pc'[c] = l /\ \A d \in Clients \ {c} : pc'[d] = pc[d]
    BY DEF GoTo, TypeInv, TypeOK
  <1>2. pc'[c] \notin {"idle", "dead"} /\ route'[c] # None
    BY <1>1 DEF KeyInv, Running, Locked, Holding
  <1>3. \A d \in Clients, w \in Workers : Uses(d, w)' <=> Uses(d, w)
    BY DEF Uses
  <1>4. \A w \in Workers : Refers(c, w)' => Refers(c, w) \/ key[w] = route[c]
    BY <1>3, NoneAssumption DEF Refers
  <1>5. \A w \in Workers : status[w] # "dead" /\ Refers(c, w)' => key[w] = route'[c]
    BY <1>4 DEF KeyInv
  <1> QED BY <1>1, <1>2, <1>3, <1>5, KeyFrame

\* A client takes a connection it refers to.
LEMMA KeyTake ==
  ASSUME TypeInv, KeyInv, NEW c \in Clients, NEW w \in Workers,
         Take(c, w), Refers(c, w), pc[c] \notin {"idle", "dead"},
         UNCHANGED <<route, status, key>>,
         \A d \in Clients \ {c} : inbox'[d] = inbox[d],
         inbox'[c] \subseteq inbox[c]
  PROVE  KeyInv'
  <1>1. /\ pc'[c] = "using" /\ todo'[c] = {} /\ opening'[c] = {} /\ target'[c] = None
        /\ conn'[c] = w
        /\ \A d \in Clients \ {c} : /\ pc'[d] = pc[d] /\ todo'[d] = todo[d] /\ conn'[d] = conn[d]
                                    /\ opening'[d] = opening[d] /\ target'[d] = target[d]
    BY DEF Take, GoTo, TypeInv, TypeOK
  <1>2. route'[c] # None
    BY DEF KeyInv
  <1>3. \A d \in Clients \ {c}, v \in Workers : Uses(d, v)' <=> Uses(d, v)
    BY <1>1 DEF Uses
  <1>4. \A v \in Workers : Refers(c, v)' => Refers(c, v)
    BY <1>1, NoneAssumption DEF Refers, Uses
  <1>5. \A v \in Workers : status[v] # "dead" /\ Refers(c, v)' => key[v] = route'[c]
    BY <1>4 DEF KeyInv
  <1> QED BY <1>1, <1>2, <1>3, <1>5, KeyFrame

\* A client ends its request.
LEMMA KeyFinish ==
  ASSUME TypeInv, KeyInv, NEW c \in Clients, Finish(c), inbox[c] = {},
         pc[c] \notin {"try", "locked_try"},
         UNCHANGED <<todo, opening, inbox, key>>,
         \A w \in Workers : status'[w] # "dead" => status[w] # "dead"
  PROVE  KeyInv'
  <1>1. /\ pc'[c] = "idle" /\ route'[c] = None /\ target'[c] = None /\ conn'[c] = None
        /\ \A d \in Clients \ {c} : /\ pc'[d] = pc[d] /\ route'[d] = route[d]
                                    /\ conn'[d] = conn[d] /\ target'[d] = target[d]
    BY DEF Finish, GoTo, TypeInv, TypeOK
  <1>2. todo'[c] = {} /\ opening'[c] = {}
    BY DEF KeyInv
  <1>3. \A d \in Clients \ {c}, v \in Workers : Uses(d, v)' <=> Uses(d, v)
    BY <1>1 DEF Uses
  <1>4. \A v \in Workers : ~Refers(c, v)'
    BY <1>1, <1>2, NoneAssumption DEF Refers, Uses
  <1> QED BY <1>1, <1>2, <1>3, <1>4, KeyFrame

LEMMA KeySpawn ==
  ASSUME TypeInv, KeyInv, NEW c \in Clients, Spawn(c), pc[c] \in {"start", "restart"}
  PROVE  KeyInv'
  <1>1. PICK w \in FreePids :
          /\ status' = [status EXCEPT ![w] = "connecting"]
          /\ key' = [key EXCEPT ![w] = route[c]]
          /\ target' = [target EXCEPT ![c] = w]
    BY DEF Spawn
  <1>w. w \in Workers /\ status[w] = "dead" /\ \A d \in Clients : ~Refers(d, w)
    BY DEF FreePids, Refers, Uses
  <1>2. pc' = [pc EXCEPT ![c] = "await"] /\ UNCHANGED <<route, todo, opening, conn, inbox>>
    BY DEF Spawn, GoTo
  <1>3. /\ status'[w] = "connecting" /\ key'[w] = route[c]
        /\ \A v \in Workers \ {w} : status'[v] = status[v] /\ key'[v] = key[v]
    BY <1>1, <1>w DEF TypeInv, TypeOK
  <1>4. /\ pc'[c] = "await" /\ target'[c] = w
        /\ \A d \in Clients \ {c} : pc'[d] = pc[d] /\ target'[d] = target[d]
    BY <1>1, <1>2 DEF TypeInv, TypeOK
  <1>5. todo[c] = {} /\ opening[c] = {} /\ target[c] = None /\ route[c] \in Routes
    BY DEF KeyInv, TypeInv, TypeOK
  <1>6. \A d \in Clients, v \in Workers : Refers(d, v)' => Refers(d, v) \/ (d = c /\ v = w)
    BY <1>2, <1>4 DEF Refers, Uses
  <1>7. \A d \in Clients, v \in Workers : status'[v] # "dead" /\ Refers(d, v)' => key'[v] = route'[d]
    <2> SUFFICES ASSUME NEW d \in Clients, NEW v \in Workers, status'[v] # "dead", Refers(d, v)'
                 PROVE  key'[v] = route[d]
      BY <1>2
    <2>1. CASE v = w
      BY <1>3, <1>6, <1>w, <2>1
    <2>2. CASE v # w
      BY <1>3, <1>6, <2>2 DEF KeyInv
    <2> QED BY <2>1, <2>2
  <1>8. \A d \in Clients :
          /\ pc'[d] \in {"idle", "dead"} <=> route'[d] = None
          /\ todo'[d] # {} => pc'[d] \in {"try", "locked_try"}
          /\ opening'[d] # {} => pc'[d] = "locked_try"
          /\ target'[d] # None => pc'[d] \in {"await", "wait"}
    <2> SUFFICES ASSUME NEW d \in Clients
                 PROVE  /\ pc'[d] \in {"idle", "dead"} <=> route[d] = None
                        /\ todo[d] # {} => pc'[d] \in {"try", "locked_try"}
                        /\ opening[d] # {} => pc'[d] = "locked_try"
                        /\ target'[d] # None => pc'[d] \in {"await", "wait"}
      BY <1>2
    <2>1. CASE d = c
      BY <1>4, <1>5, <2>1, NoneAssumption
    <2>2. CASE d # c
      BY <1>4, <2>2 DEF KeyInv
    <2> QED BY <2>1, <2>2
  <1>9. \A v \in Workers : status'[v] # "dead" => key'[v] \in Routes
    BY <1>3, <1>5 DEF KeyInv
  <1> QED BY <1>7, <1>8, <1>9 DEF KeyInv

LEMMA KeyAcquire ==
  ASSUME TypeInv, LeaseInv, KeyInv, NEW c \in Clients, Acquire(c)
  PROVE  KeyInv'
  <1>r. \A w : Refers(c, w) <=> w \in todo[c] \/ w \in opening[c] \/ target[c] = w \/ Uses(c, w)
    BY DEF Refers
  <1>t. /\ pc[c] \notin {"try", "locked_try"} => todo[c] = {}
        /\ pc[c] # "locked_try" => opening[c] = {}
        /\ pc[c] \notin {"await", "wait"} => target[c] = None
    BY DEF KeyInv
  <1>1. CASE StartWorker(c) \/ RestartWorker(c)
    BY <1>1, KeySpawn DEF StartWorker, RestartWorker
  <1>2. CASE Lookup(c) \/ ProvisionLookup(c)
    <2>1. \A k, e : \A w \in Registered(k, e) : key[w] = k
      BY DEF Registered
    <2>2. /\ UNCHANGED <<route, conn, inbox, status, key, target>>
          /\ pc[c] \in {"lookup", "locked_lookup"}
          /\ \E l \in {"try", "locked_try"} :
                /\ GoTo(c, l)
                /\ opening' = opening \/ (l = "locked_try" /\ opening' = [opening EXCEPT ![c] = Registered(route[c], "opening")])
          /\ todo' = [todo EXCEPT ![c] = Registered(route[c], "open")]
      BY <1>2 DEF Lookup, ProvisionLookup, workerVars
    <2>3. /\ \A d \in Clients \ {c} : todo'[d] = todo[d] /\ opening'[d] = opening[d]
          /\ \A w \in todo'[c] \cup opening'[c] : key[w] = route[c]
      BY <1>t, <2>1, <2>2 DEF TypeInv, TypeOK
    <2>4. opening'[c] # {} => GoTo(c, "locked_try")
      BY <1>t, <2>2
    <2>5. target'[c] = None
      BY <1>t, <2>2
    <2> QED BY <2>2, <2>3, <2>4, <2>5, KeyMove DEF Running, Locked
  <1>3. CASE NoneAvailable(c) \/ LockRoute(c) \/ NoneOpening(c) \/ PoolFull(c)
             \/ StartReclaimer(c) \/ MonitorReclaimer(c) \/ ReclaimerDown(c)
    <2>1. /\ UNCHANGED <<route, conn, inbox, status, key, target, todo, opening>>
          /\ todo[c] = {} /\ opening[c] = {} /\ target[c] = None /\ pc[c] \notin {"idle", "dead"}
          /\ \E l \in Running \ {"idle"} : GoTo(c, l)
      BY <1>3, <1>t
      DEF NoneAvailable, LockRoute, NoneOpening, PoolFull, StartReclaimer, MonitorReclaimer,
          ReclaimerDown, workerVars, Running, Locked
    <2> QED BY <2>1, KeyMove
  <1>4. CASE WaitForOpening(c)
    <2>1. PICK w \in opening[c] : target' = [target EXCEPT ![c] = w]
      BY <1>4 DEF WaitForOpening
    <2>2. /\ UNCHANGED <<route, conn, inbox, status, key, todo>>
          /\ opening' = [opening EXCEPT ![c] = {}] /\ todo[c] = {} /\ pc[c] = "locked_try"
          /\ GoTo(c, "wait")
      BY <1>4 DEF WaitForOpening, workerVars
    <2>3. /\ opening'[c] = {} /\ target'[c] = w /\ todo'[c] = {}
          /\ \A d \in Clients \ {c} : opening'[d] = opening[d] /\ target'[d] = target[d] /\ todo'[d] = todo[d]
      BY <2>1, <2>2 DEF TypeInv, TypeOK
    <2> QED BY <1>r, <2>1, <2>2, <2>3, KeyMove DEF Running
  <1>5. CASE WaitBusy(c)
    <2>1. /\ UNCHANGED <<route, conn, inbox, status, key, todo, opening>>
          /\ target' = [target EXCEPT ![c] = None] /\ pc[c] = "wait"
          /\ GoTo(c, "lookup")
      BY <1>5 DEF WaitBusy, workerVars
    <2>2. /\ opening'[c] = {} /\ target'[c] = None /\ todo'[c] = {}
          /\ \A d \in Clients \ {c} : target'[d] = target[d]
      BY <1>t, <2>1 DEF TypeInv, TypeOK
    <2> QED BY <2>1, <2>2, KeyMove DEF Running
  <1>6. CASE CheckoutExisting(c)
    <2>1. PICK w \in todo[c] : CheckoutExisting(c)!2!(w)
      BY <1>6 DEF CheckoutExisting
    <2>w. w \in Workers /\ Refers(c, w)
      BY <1>r DEF TypeInv, TypeOK
    <2>0. UNCHANGED <<route, inbox, key>> /\ status' = status /\ pc[c] \in {"try", "locked_try"}
      BY <1>6, <2>1 DEF CheckoutExisting, SetWorker
    <2>2. CASE CheckoutExisting(c)!2!(w)!2!1
      BY <2>0, <2>2, <2>w, KeyTake
    <2>3. CASE CheckoutExisting(c)!2!(w)!2!2
      <3>1. /\ UNCHANGED <<pc, opening, target>> /\ conn' = conn
            /\ todo' = [todo EXCEPT ![c] = @ \ {w}]
        BY <2>3
      <3>2. GoTo(c, pc[c])
        BY <3>1 DEF GoTo, TypeInv, TypeOK
      <3>3. /\ todo'[c] = todo[c] \ {w} /\ \A d \in Clients \ {c} : todo'[d] = todo[d]
        BY <3>1 DEF TypeInv, TypeOK
      <3>4. opening[c] # {} => pc[c] = "locked_try"
        BY <1>t
      <3>5. pc[c] \in Running \ {"idle"} /\ target[c] = None
        BY <1>t, <2>0 DEF Running, Locked
      <3> QED BY <1>r, <2>0, <3>1, <3>2, <3>3, <3>4, <3>5, KeyMove
    <2> QED BY <2>1, <2>2, <2>3
  <1>7. CASE CheckoutTimeout(c)
    <2>1. PICK w \in todo[c] : todo' = [todo EXCEPT ![c] = @ \ {w}]
      BY <1>7 DEF CheckoutTimeout
    <2>2. UNCHANGED <<pc, route, opening, target, conn, inbox, status, key>> /\ pc[c] \in {"try", "locked_try"}
      BY <1>7 DEF CheckoutTimeout, workerVars
    <2>3. GoTo(c, pc[c])
      BY <2>2 DEF GoTo, TypeInv, TypeOK
    <2>4. /\ todo'[c] = todo[c] \ {w} /\ \A d \in Clients \ {c} : todo'[d] = todo[d]
      BY <2>1 DEF TypeInv, TypeOK
    <2>5. opening[c] # {} => pc[c] = "locked_try"
      BY <1>t
    <2>6. pc[c] \in Running \ {"idle"} /\ target[c] = None
      BY <1>t, <2>2 DEF Running, Locked
    <2> QED BY <1>r, <2>2, <2>3, <2>4, <2>5, <2>6, KeyMove
  <1>8. CASE WaitCheckout(c)
    <2>1. target[c] \in Workers /\ Refers(c, target[c])
      BY <1>8, <1>r DEF WaitCheckout, TypeInv, Located
    <2> QED BY <1>8, <2>1, KeyTake DEF WaitCheckout, SetWorker
  <1>9. CASE ReceiveConn(c)
    <2>1. PICK w \in inbox[c] : inbox' = [inbox EXCEPT ![c] = @ \ {w}] /\ Take(c, w)
      BY <1>9 DEF ReceiveConn
    <2>2. w \in Workers /\ Refers(c, w)
      BY <1>r DEF Uses, TypeInv, TypeOK
    <2>3. /\ inbox'[c] \subseteq inbox[c] /\ \A d \in Clients \ {c} : inbox'[d] = inbox[d]
      BY <2>1 DEF TypeInv, TypeOK
    <2>4. pc[c] = "await" /\ UNCHANGED <<route, status, key>>
      BY <1>9 DEF ReceiveConn, workerVars
    <2> QED BY <2>1, <2>2, <2>3, <2>4, KeyTake
  <1>10. CASE GiveUp(c) \/ ReceiveDown(c) \/ WaitExit(c)
    <2>1. /\ Finish(c) /\ pc[c] \notin {"try", "locked_try"}
          /\ UNCHANGED <<todo, opening, inbox, key, status>>
          /\ inbox[c] = {}
      BY <1>10 DEF GiveUp, ReceiveDown, WaitExit, workerVars, LeaseInv, OnlyOwnConn
    <2> QED BY <2>1, KeyFinish
  <1>11. CASE Request(c)
    <2>1. PICK k \in Routes : route' = [route EXCEPT ![c] = k]
      BY <1>11 DEF Request
    <2>2. /\ pc[c] = "idle" /\ pc' = [pc EXCEPT ![c] = "lookup"]
          /\ UNCHANGED <<todo, opening, target, conn, inbox, status, key>>
      BY <1>11 DEF Request, GoTo, workerVars
    <2>3. /\ pc'[c] = "lookup" /\ route'[c] = k
          /\ \A d \in Clients \ {c} : pc'[d] = pc[d] /\ route'[d] = route[d]
      BY <2>1, <2>2 DEF TypeInv, TypeOK
    <2>4. inbox[c] = {} /\ conn[c] = None
      BY <2>2 DEF LeaseInv, OnlyOwnConn, Holding
    <2>5. \A w \in Workers : ~Refers(c, w)'
      BY <1>t, <2>2, <2>4, NoneAssumption DEF Refers, Uses
    <2>6. \A d \in Clients, w \in Workers : Uses(d, w)' <=> Uses(d, w)
      BY <2>2 DEF Uses
    <2> QED BY <1>t, <2>2, <2>3, <2>5, <2>6, KeyFrame, NoneAssumption
  <1> QED
    BY <1>1, <1>2, <1>3, <1>4, <1>5, <1>6, <1>7, <1>8, <1>9, <1>10, <1>11 DEF Acquire

LEMMA KeyUse ==
  ASSUME TypeInv, LeaseInv, KeyInv, NEW c \in Clients, Use(c) \/ Crash(c) \/ Respawn(c)
  PROVE  KeyInv'
  <1>w. \A w \in Workers : EndWorker(w) =>
          \A v \in Workers : status'[v] # "dead" => status[v] # "dead"
    BY DEF EndWorker, TypeInv, TypeOK
  <1>1. CASE RegisterStream(c) \/ FinishStream(c)
    <2>1. PICK l \in Holding :
             /\ pc[c] \in Holding /\ GoTo(c, l) /\ status' = status
             /\ UNCHANGED <<route, todo, opening, target, conn, inbox, key>>
      BY <1>1 DEF RegisterStream, FinishStream, SetWorker, Holding
    <2>2. todo[c] = {} /\ opening[c] = {} /\ target[c] = None
      BY <2>1 DEF KeyInv, Holding
    <2> QED BY <2>1, <2>2, KeyMove DEF Running, Holding
  <1>2. CASE ReleaseConn(c) \/ ReleaseStream(c) \/ CancelStream(c) \/ DiscardConn(c) \/ DropResponse(c)
    <2>1. /\ Finish(c) /\ UNCHANGED <<todo, opening, inbox, key>>
          /\ pc[c] \in Holding
      BY <1>2 DEF ReleaseConn, ReleaseStream, CancelStream, DiscardConn, DropResponse, EndRequest, workerVars, Holding
    <2>2. conn[c] \in Workers /\ inbox[c] = {}
      BY <2>1 DEF TypeInv, Located, LeaseInv, OnlyOwnConn, Holding
    <2>3. \A v \in Workers : status'[v] # "dead" => status[v] # "dead"
      BY <1>2, <1>w, <2>2
      DEF ReleaseConn, ReleaseStream, CancelStream, DiscardConn, DropResponse, SetWorker, workerVars
    <2> QED BY <2>1, <2>2, <2>3, KeyFinish DEF Holding
  <1>3. CASE Crash(c)
    <2>1. /\ pc' = [pc EXCEPT ![c] = "dead"] /\ route' = [route EXCEPT ![c] = None]
          /\ todo' = [todo EXCEPT ![c] = {}] /\ opening' = [opening EXCEPT ![c] = {}]
          /\ target' = [target EXCEPT ![c] = None] /\ conn' = [conn EXCEPT ![c] = None]
          /\ inbox' = [inbox EXCEPT ![c] = {}]
          /\ UNCHANGED <<status, key>>
      BY <1>3 DEF Crash, GoTo, workerVars
    <2>2. /\ pc'[c] = "dead" /\ route'[c] = None /\ todo'[c] = {} /\ opening'[c] = {}
          /\ target'[c] = None /\ conn'[c] = None /\ inbox'[c] = {}
          /\ \A d \in Clients \ {c} :
               /\ pc'[d] = pc[d] /\ route'[d] = route[d] /\ todo'[d] = todo[d]
               /\ opening'[d] = opening[d] /\ target'[d] = target[d]
               /\ conn'[d] = conn[d] /\ inbox'[d] = inbox[d]
      BY <2>1 DEF TypeInv, TypeOK
    <2>3. \A w \in Workers : ~Refers(c, w)'
      BY <2>2, NoneAssumption DEF Refers, Uses
    <2>4. \A d \in Clients \ {c}, w \in Workers : Uses(d, w)' <=> Uses(d, w)
      BY <2>2 DEF Uses
    <2> QED BY <2>1, <2>2, <2>3, <2>4, KeyFrame
  <1>4. CASE Respawn(c)
    <2>1. /\ pc' = [pc EXCEPT ![c] = "idle"] /\ pc[c] = "dead"
          /\ UNCHANGED <<route, todo, opening, target, conn, inbox, status, key>>
      BY <1>4 DEF Respawn, GoTo, workerVars
    <2>2. pc'[c] = "idle" /\ \A d \in Clients \ {c} : pc'[d] = pc[d]
      BY <2>1 DEF TypeInv, TypeOK
    <2> QED BY <2>1, <2>2 DEF KeyInv, Refers, Uses
  <1> QED BY <1>1, <1>2, <1>3, <1>4 DEF Use

\* A step of a worker or of the reclaimer.
LEMMA KeyQuiet ==
  ASSUME TypeInv, KeyInv, UNCHANGED <<pc, route, todo, opening, target, conn>>,
         \A d \in Clients, w \in Workers : Uses(d, w)' => Uses(d, w) \/ target[d] = w,
         \A w \in Workers : status'[w] # "dead" => status[w] # "dead" /\ key'[w] = key[w]
  PROVE  KeyInv'
  <1>1. \A d \in Clients, w \in Workers : Refers(d, w)' => Refers(d, w)
    BY DEF Refers
  <1> QED BY <1>1 DEF KeyInv

LEMMA KeyWorkerStep ==
  ASSUME TypeInv, LeaseInv, KeyInv, ReclaimerStep \/ \E w \in Workers : WorkerStep(w)
  PROVE  KeyInv'
  <1>w. \A w \in Workers : EndWorker(w) =>
          \A v \in Workers : status'[v] # "dead" => status[v] # "dead" /\ v # w
    BY DEF EndWorker, TypeInv, TypeOK
  <1>u. inbox' = inbox => \A d \in Clients, w \in Workers : Uses(d, w)' <=> Uses(d, w)
    BY QuietStep DEF Uses
  <1>1. ASSUME NEW w \in Workers, WorkerStep(w)
        PROVE  KeyInv'
    <2>1. CASE RegisterConn(w)
      <3>1. /\ status[w] = "registering" /\ status' = [status EXCEPT ![w] = "up"] /\ key' = key
            /\ inbox' = [inbox EXCEPT ![owner[w]] = IF pc[owner[w]] = "dead" THEN @ ELSE @ \cup {w}]
        BY <2>1 DEF RegisterConn
      <3>2. pc[owner[w]] = "dead" \/ target[owner[w]] = w
        BY <3>1 DEF LeaseInv
      <3>3. \A d \in Clients, v \in Workers : v \in inbox'[d] => v \in inbox[d] \/ target[d] = v
        BY <3>1, <3>2 DEF TypeInv, TypeOK
      <3>4. \A v \in Workers : status'[v] # "dead" => status[v] # "dead"
        BY <3>1 DEF TypeInv, TypeOK
      <3> QED BY <3>1, <3>3, <3>4, QuietStep, KeyQuiet DEF Uses
    <2>2. CASE OpenFails(w) \/ Unregister(w)
      <3>1. inbox' = inbox /\ \A v \in Workers : status'[v] # "dead" => status[v] # "dead" /\ key'[v] = key[v]
        BY <1>w, <2>2 DEF OpenFails, Unregister, clientVars, TypeInv, TypeOK
      <3> QED BY <1>u, <3>1, QuietStep, KeyQuiet
    <2>3. CASE ~(RegisterConn(w) \/ OpenFails(w) \/ Unregister(w))
      <3>1. inbox' = inbox /\ key' = key
        BY <1>1, <2>3
        DEF WorkerStep, OpenConn, TimerFires, IdleClose, ClientDown,
            ConnLost, GunUp, LateCheckout, Reap, clientVars
      <3>2. \A v \in Workers : status'[v] # "dead" => status[v] # "dead"
        <4>1. CASE OpenConn(w)
          BY <4>1 DEF OpenConn, TypeInv, TypeOK
        <4>2. CASE IdleClose(w) \/ ClientDown(w) \/ ConnLost(w)
          BY <1>w, <4>2 DEF IdleClose, ClientDown, ConnLost, SetWorker
        <4>3. CASE TimerFires(w) \/ GunUp(w) \/ LateCheckout(w) \/ Reap(w)
          BY <4>3 DEF TimerFires, GunUp, LateCheckout, Reap, SetWorker
        <4> QED BY <1>1, <2>3, <4>1, <4>2, <4>3 DEF WorkerStep
      <3> QED BY <1>u, <3>1, <3>2, QuietStep, KeyQuiet
    <2> QED BY <2>1, <2>2, <2>3
  <1>2. CASE ReclaimerStep
    <2>1. UNCHANGED <<inbox, key>>
      BY <1>2
      DEF ReclaimerStep, SelectWorkers, ReclaimInfo, NothingUnused, SomeUnused, Reclaim,
          ReclaimDone, ReclaimerExit, clientVars, workerVars
    <2>2. \A v \in Workers : status'[v] # "dead" => status[v] # "dead"
      <3>1. CASE Reclaim
        <4>1. PICK w \in unused : Reclaim!2!(w)
          BY <3>1 DEF Reclaim
        <4>2. w \in Workers
          BY DEF TypeInv, TypeOK
        <4> QED BY <1>w, <4>1, <4>2
      <3>2. CASE SelectWorkers \/ ReclaimInfo \/ NothingUnused \/ SomeUnused \/ ReclaimDone
        BY <3>2
        DEF SelectWorkers, ReclaimInfo, NothingUnused, SomeUnused, ReclaimDone,
            ReclaimerExit, workerVars
      <3> QED BY <1>2, <3>1, <3>2 DEF ReclaimerStep
    <2> QED BY <1>u, <2>1, <2>2, QuietStep, KeyQuiet
  <1> QED BY <1>1, <1>2

\* The workers a client refers to serve the route it asked for, in every
\* reachable state: neither a snapshot that is old nor a pid that is used
\* again leads it to another route.
THEOREM KeyCorrect == Spec => []KeyInv
  <1>1. Init => KeyInv
    BY NoneAssumption DEF Init, KeyInv, Refers, Uses
  <1>2. TypeInv /\ LeaseInv /\ KeyInv /\ [Next]_vars => KeyInv'
    <2> SUFFICES ASSUME TypeInv, LeaseInv, KeyInv, [Next]_vars PROVE KeyInv'
      OBVIOUS
    <2>1. CASE UNCHANGED vars
      BY <2>1 DEF vars, clientVars, workerVars, KeyInv, Refers, Uses
    <2> QED BY <2>1, KeyAcquire, KeyUse, KeyWorkerStep DEF Next
  <1> QED BY <1>1, <1>2, LeaseCorrect, PTL DEF Spec


(***************************************************************************)
(* The pool implements LeaseService.                                       *)
(***************************************************************************)

\* What a client has been given is what it uses.
LEMMA HeldIsUsed ==
  ASSUME TypeInv, LeaseInv, NEW c \in Clients
  PROVE  /\ Held[c] \in Workers \cup {None}
         /\ \A w \in Workers : Held[c] = w <=> Uses(c, w)
         /\ pc[c] \notin Holding \cup {"await"} => Held[c] = None
         /\ pc[c] = "await" /\ inbox[c] = {} => Held[c] = None
         /\ pc[c] \in Holding => Held[c] = conn[c]
  <1>1. CASE inbox[c] # {}
    <2>1. pc[c] = "await" /\ inbox[c] = {target[c]} /\ conn[c] = None
      BY <1>1 DEF LeaseInv, OnlyOwnConn, Holding, TypeInv, TypeOK
    <2>2. Held[c] = target[c]
      BY <1>1 DEF Held
    <2> QED BY <1>1, <2>1, <2>2, NoneAssumption DEF Uses, Holding, TypeInv, TypeOK, Located
  <1>2. CASE inbox[c] = {}
    <2>1. Held[c] = conn[c]
      BY <1>2 DEF Held
    <2> QED BY <1>2, <2>1 DEF Uses, LeaseInv, Holding, TypeInv, TypeOK
  <1> QED BY <1>1, <1>2

LEMMA HeldSame ==
  ASSUME UNCHANGED <<inbox, conn>>, \A c \in Clients : inbox[c] # {} => target'[c] = target[c]
  PROVE  Held' = Held
  BY DEF Held

LEMMA OpenSame ==
  ASSUME \A w \in Workers : /\ status'[w] = "up" <=> status[w] = "up"
                            /\ status[w] = "up" => /\ key'[w] = key[w]
                                                   /\ state'[w].protocol = state[w].protocol
  PROVE  Serves' = Serves /\ Shared' = Shared
  BY DEF Serves, Shared

\* A connected worker ends.
LEMMA OpenEnds ==
  ASSUME TypeInv, NEW w \in Workers, EndWorker(w), key' = key
  PROVE  Service!Close({w})
  <1>1. \A v \in Workers : v # w => status'[v] = status[v] /\ state'[v] = state[v]
    BY DEF EndWorker, TypeInv, TypeOK
  <1>2. status'[w] = "dead"
    BY DEF EndWorker, TypeInv, TypeOK
  <1>3. Serves' = [v \in Workers |-> IF v \in {w} THEN None ELSE Serves[v]]
    BY <1>1, <1>2 DEF Serves
  <1>4. Shared' = Shared \ {w}
    BY <1>1, <1>2 DEF Shared
  <1> QED BY <1>3, <1>4 DEF Service!Close

LEMMA OpenNothing ==
  ASSUME Serves' = Serves, Shared' = Shared
  PROVE  Service!Close({})
  <1>1. Serves = [v \in Workers |-> IF v \in {} THEN None ELSE Serves[v]]
    BY DEF Serves
  <1> QED BY <1>1 DEF Service!Close

\* A worker whose table changes stays open as it is.
LEMMA TableSame ==
  ASSUME TypeInv, NEW w \in Workers, NEW st,
         status' = status, state' = [state EXCEPT ![w] = st], key' = key,
         st.protocol = state[w].protocol
  PROVE  Serves' = Serves /\ Shared' = Shared
  <1>1. \A v \in Workers : state'[v].protocol = state[v].protocol
    BY DEF TypeInv, TypeOK
  <1> QED BY <1>1, OpenSame

\* A client that gives up or ends its request.
LEMMA ServiceReturn ==
  ASSUME TypeInv, LeaseInv, KeyInv, NEW c \in Clients,
         pc[c] \notin {"idle", "dead"},
         route' = [route EXCEPT ![c] = None],
         conn' = [conn EXCEPT ![c] = None],
         \A d \in Clients : inbox'[d] = IF d = c THEN {} ELSE inbox[d],
         \A d \in Clients \ {c} : target'[d] = target[d],
         \/ Serves' = Serves /\ Shared' = Shared
         \/ pc[c] \in Holding /\ EndWorker(conn[c]) /\ key' = key
  PROVE  Service!Return(c)
  <1>1. route[c] # None
    BY DEF KeyInv
  <1>2. Held' = [Held EXCEPT ![c] = None]
    <2>1. /\ conn'[c] = None /\ \A d \in Clients \ {c} : conn'[d] = conn[d]
      BY DEF TypeInv, TypeOK
    <2> QED BY <2>1 DEF Held
  <1>3. CASE Serves' = Serves /\ Shared' = Shared
    BY <1>1, <1>2, <1>3, OpenNothing DEF Service!Return
  <1>4. CASE pc[c] \in Holding /\ EndWorker(conn[c]) /\ key' = key
    <2>1. conn[c] \in Workers /\ Held[c] = conn[c]
      BY <1>4, HeldIsUsed DEF TypeInv, Located
    <2>2. Service!Close({Held[c]}) /\ Held[c] # None
      BY <1>4, <2>1, OpenEnds, NoneAssumption
    <2> QED BY <1>1, <1>2, <2>2 DEF Service!Return
  <1> QED BY <1>3, <1>4

\* A connection goes to a client that waits, if nobody has it or it is shared:
\* what a worker that is not busy knows from its leases.
LEMMA ServiceGrant ==
  ASSUME TypeInv, LeaseInv, KeyInv, NEW c \in Clients, NEW w \in Workers,
         pc[c] \in {"try", "locked_try", "wait"},
         status[w] = "up", ~Busy(state[w]), Refers(c, w),
         Take(c, w), SetWorker(w, Checkout(state[w], c)),
         UNCHANGED <<route, inbox, key>>
  PROVE  Service!Grant(c, w)
  <1>1. Held[c] = None /\ inbox[c] = {}
    BY HeldIsUsed DEF Holding, LeaseInv, OnlyOwnConn
  <1>2. route[c] # None /\ Serves[w] = route[c]
    BY DEF KeyInv, Serves
  <1>3. w \in Shared \/ \A d \in Clients : Held[d] # w
    <2>1. CASE state[w].protocol = "http2"
      BY <2>1 DEF Shared
    <2>2. CASE state[w].protocol # "http2"
      <3>1. \A d \in Clients : ~Uses(d, w)
        BY <2>2 DEF Busy, LeaseHolders, LeaseInv, HeldIsLeased
      <3> QED BY <3>1, HeldIsUsed
    <2> QED BY <2>1, <2>2
  <1>4. Held' = [Held EXCEPT ![c] = w]
    <2>1. /\ conn'[c] = w
          /\ \A d \in Clients \ {c} : conn'[d] = conn[d] /\ target'[d] = target[d]
      BY DEF Take, TypeInv, TypeOK
    <2> QED BY <1>1, <2>1 DEF Held
  <1>5. Serves' = Serves /\ Shared' = Shared
    <2>1. Checkout(state[w], c).protocol = state[w].protocol
      BY CheckoutLease DEF TypeInv, TypeOK
    <2> QED BY <2>1, TableSame DEF SetWorker
  <1> QED BY <1>1, <1>2, <1>3, <1>4, <1>5 DEF Service!Grant, Service!Waiting, Service!HeldByNobody

LEMMA ServiceAcquire ==
  ASSUME TypeInv, LeaseInv, KeyInv, NEW c \in Clients, Acquire(c)
  PROVE  [Service!ServiceNext]_Service!serviceVars
  <1>r. \A w : Refers(c, w) <=> w \in todo[c] \/ w \in opening[c] \/ target[c] = w \/ Uses(c, w)
    BY DEF Refers
  <1>s. ASSUME route' = route, Held' = Held, Serves' = Serves, Shared' = Shared
        PROVE  UNCHANGED Service!serviceVars
    BY <1>s DEF Service!serviceVars
  <1>1. CASE Request(c)
    <2>1. PICK k \in Routes : route' = [route EXCEPT ![c] = k]
      BY <1>1 DEF Request
    <2>2. pc[c] = "idle" /\ UNCHANGED <<target, conn, inbox, status, key, state>>
      BY <1>1 DEF Request, workerVars
    <2>3. route[c] = None /\ Held[c] = None
      BY <2>2, HeldIsUsed DEF KeyInv, Holding
    <2>4. Held' = Held /\ Serves' = Serves /\ Shared' = Shared
      BY <2>2, HeldSame, OpenSame
    <2>5. Service!Ask(c, k)
      BY <2>1, <2>3, <2>4 DEF Service!Ask
    <2> QED BY <2>5 DEF Service!ServiceNext
  <1>2. CASE CheckoutExisting(c)
    <2>1. PICK w \in todo[c] : CheckoutExisting(c)!2!(w)
      BY <1>2 DEF CheckoutExisting
    <2>w. w \in Workers /\ Refers(c, w)
      BY <1>r DEF TypeInv, TypeOK
    <2>0. UNCHANGED <<route, inbox, key>> /\ pc[c] \in {"try", "locked_try"}
      BY <1>2, <2>1 DEF CheckoutExisting
    <2>2. CASE CheckoutExisting(c)!2!(w)!2!1
      <3>1. Service!Grant(c, w)
        BY <2>0, <2>2, <2>w, ServiceGrant
      <3> QED BY <2>w, <3>1 DEF Service!ServiceNext
    <2>3. CASE CheckoutExisting(c)!2!(w)!2!2
      BY <1>s, <2>0, <2>3, HeldSame, OpenSame
    <2> QED BY <2>1, <2>2, <2>3
  <1>3. CASE WaitCheckout(c)
    <2>1. target[c] \in Workers /\ Refers(c, target[c])
      BY <1>3, <1>r DEF WaitCheckout, TypeInv, Located
    <2>2. Service!Grant(c, target[c])
      BY <1>3, <2>1, ServiceGrant DEF WaitCheckout
    <2> QED BY <2>1, <2>2 DEF Service!ServiceNext
  <1>4. CASE GiveUp(c) \/ ReceiveDown(c) \/ WaitExit(c)
    <2>1. /\ Finish(c) /\ pc[c] \notin {"idle", "dead"} \cup Holding
          /\ UNCHANGED <<inbox, key, status, state>>
          /\ inbox[c] = {}
      BY <1>4 DEF GiveUp, ReceiveDown, WaitExit, workerVars, LeaseInv, OnlyOwnConn, Holding
    <2>2. \A d \in Clients \ {c} : target'[d] = target[d]
      BY <2>1 DEF Finish, TypeInv, TypeOK
    <2>3. Service!Return(c)
      BY <2>1, <2>2, ServiceReturn, OpenSame DEF Finish
    <2> QED BY <2>3 DEF Service!ServiceNext
  <1>5. CASE ReceiveConn(c)
    <2>1. PICK w \in inbox[c] : inbox' = [inbox EXCEPT ![c] = @ \ {w}] /\ Take(c, w)
      BY <1>5 DEF ReceiveConn
    <2>2. UNCHANGED <<route, status, key, state>>
      BY <1>5 DEF ReceiveConn, workerVars
    <2>3. inbox[c] = {w} /\ target[c] = w
      BY <2>1 DEF LeaseInv, OnlyOwnConn
    <2>4. /\ conn'[c] = w /\ inbox'[c] = {}
          /\ \A d \in Clients \ {c} : /\ conn'[d] = conn[d] /\ target'[d] = target[d]
                                      /\ inbox'[d] = inbox[d]
      BY <2>1, <2>3 DEF Take, TypeInv, TypeOK
    <2>5. Held' = Held
      BY <2>3, <2>4 DEF Held
    <2> QED BY <1>s, <2>2, <2>5, OpenSame
  <1>6. CASE StartWorker(c) \/ RestartWorker(c)
    <2>1. Spawn(c) /\ pc[c] \in {"start", "restart"}
      BY <1>6 DEF StartWorker, RestartWorker
    <2>2. PICK w \in FreePids :
             /\ status' = [status EXCEPT ![w] = "connecting"]
             /\ key' = [key EXCEPT ![w] = route[c]]
             /\ target' = [target EXCEPT ![c] = w]
      BY <2>1 DEF Spawn
    <2>3. w \in Workers /\ status[w] = "dead"
      BY DEF FreePids
    <2>4. UNCHANGED <<route, conn, inbox, state>>
      BY <2>1 DEF Spawn
    <2>5. inbox[c] = {} /\ \A d \in Clients \ {c} : target'[d] = target[d]
      BY <2>1, <2>2 DEF LeaseInv, OnlyOwnConn, TypeInv, TypeOK
    <2>6. \A v \in Workers : /\ status'[v] = "up" <=> status[v] = "up"
                             /\ status[v] = "up" => key'[v] = key[v]
      BY <2>2, <2>3 DEF TypeInv, TypeOK
    <2> QED BY <1>s, <2>4, <2>5, <2>6, HeldSame, OpenSame
  <1>7. CASE WaitForOpening(c) \/ WaitBusy(c)
    <2>1. /\ UNCHANGED <<route, conn, inbox, status, key, state>>
          /\ inbox[c] = {} /\ \A d \in Clients \ {c} : target'[d] = target[d]
      BY <1>7 DEF WaitForOpening, WaitBusy, workerVars, LeaseInv, OnlyOwnConn, TypeInv, TypeOK
    <2> QED BY <1>s, <2>1, HeldSame, OpenSame
  <1>8. CASE \/ Lookup(c) \/ CheckoutTimeout(c) \/ NoneAvailable(c) \/ LockRoute(c) \/ NoneOpening(c)
             \/ ProvisionLookup(c) \/ PoolFull(c) \/ StartReclaimer(c) \/ MonitorReclaimer(c)
             \/ ReclaimerDown(c)
    <2>1. UNCHANGED <<route, conn, inbox, target, status, key, state>>
      BY <1>8
      DEF Lookup, CheckoutTimeout, NoneAvailable, LockRoute, NoneOpening, ProvisionLookup,
          PoolFull, StartReclaimer, MonitorReclaimer, ReclaimerDown, workerVars
    <2> QED BY <1>s, <2>1, HeldSame, OpenSame
  <1> QED BY <1>1, <1>2, <1>3, <1>4, <1>5, <1>6, <1>7, <1>8 DEF Acquire

LEMMA ServiceUse ==
  ASSUME TypeInv, LeaseInv, KeyInv, NEW c \in Clients, Use(c) \/ Crash(c) \/ Respawn(c)
  PROVE  [Service!ServiceNext]_Service!serviceVars
  <1> DEFINE w == conn[c]
  <1>w. Use(c) => /\ pc[c] \in Holding /\ w \in Workers /\ state[w] \in WorkerState
                  /\ inbox[c] = {} /\ FreshToken(w) \in Tokens
    <2>1. Use(c) => pc[c] \in Holding
      BY DEF Use, RegisterStream, FinishStream, ReleaseConn, ReleaseStream, CancelStream,
             DiscardConn, DropResponse, Holding
    <2>2. pc[c] \in Holding => w \in Workers /\ inbox[c] = {}
      BY DEF TypeInv, Located, LeaseInv, OnlyOwnConn, Holding
    <2> QED BY <2>1, <2>2, FreshTokenType DEF TypeInv, TypeOK
  <1>s. ASSUME route' = route, Held' = Held, Serves' = Serves, Shared' = Shared
        PROVE  UNCHANGED Service!serviceVars
    BY <1>s DEF Service!serviceVars
  <1>1. CASE RegisterStream(c) \/ FinishStream(c)
    <2>1. \A s : /\ PutStream(state[w], c, s).protocol = state[w].protocol
                 /\ DropStream(state[w], c, s).protocol = state[w].protocol
      BY <1>1, <1>w, StreamLease DEF Use
    <2>2. /\ UNCHANGED <<route, conn, inbox, target, key>>
          /\ \/ UNCHANGED <<status, state>>
             \/ \E s : SetWorker(w, PutStream(state[w], c, s)) \/ SetWorker(w, DropStream(state[w], c, s))
      BY <1>1 DEF RegisterStream, FinishStream
    <2>3. Serves' = Serves /\ Shared' = Shared
      BY <1>1, <1>w, <2>1, <2>2, TableSame, OpenSame DEF SetWorker, Use
    <2> QED BY <1>s, <2>2, <2>3, HeldSame
  <1>2. ASSUME Finish(c), Use(c), UNCHANGED <<inbox, key>>,
               \/ UNCHANGED <<status, state>>
               \/ EndWorker(w)
               \/ \E st : SetWorker(w, st) /\ st.protocol = state[w].protocol
        PROVE  [Service!ServiceNext]_Service!serviceVars
    <2>1. \A d \in Clients \ {c} : target'[d] = target[d]
      BY <1>2 DEF Finish, TypeInv, TypeOK
    <2>2. (Serves' = Serves /\ Shared' = Shared) \/ EndWorker(w)
      BY <1>2, <1>w, TableSame, OpenSame DEF SetWorker
    <2>3. Service!Return(c)
      BY <1>2, <1>w, <2>1, <2>2, ServiceReturn DEF Finish, Holding
    <2> QED BY <2>3 DEF Service!ServiceNext
  <1>3. CASE ReleaseConn(c)
    <2>1. RemoveClient(state[w], c, FALSE, FreshToken(w)).protocol = state[w].protocol
      BY <1>3, <1>w, RemoveClientLease DEF Use
    <2> QED BY <1>2, <1>3, <2>1 DEF ReleaseConn, EndRequest, Use
  <1>4. CASE ReleaseStream(c) \/ CancelStream(c)
    <2> DEFINE dropped == DropStream(state[w], c, stream[c])
    <2>1. dropped \in WorkerState /\ dropped.protocol = state[w].protocol
      BY <1>4, <1>w, DropStreamType, StreamLease DEF Use
    <2> HIDE DEF dropped
    <2>2. RemoveClient(dropped, c, FALSE, FreshToken(w)).protocol = state[w].protocol
      BY <1>4, <1>w, <2>1, RemoveClientLease DEF Use
    <2> QED BY <1>2, <1>4, <2>2 DEF ReleaseStream, CancelStream, EndRequest, dropped, Use
  <1>5. CASE DiscardConn(c)
    BY <1>2, <1>5 DEF DiscardConn, EndRequest, Use
  <1>6. CASE DropResponse(c)
    BY <1>2, <1>6 DEF DropResponse, workerVars, Use
  <1>7. CASE Crash(c)
    <2>1. /\ route' = [route EXCEPT ![c] = None] /\ conn' = [conn EXCEPT ![c] = None]
          /\ inbox' = [inbox EXCEPT ![c] = {}] /\ target' = [target EXCEPT ![c] = None]
          /\ UNCHANGED <<status, state, key>> /\ pc[c] # "dead"
      BY <1>7 DEF Crash, workerVars
    <2>2. /\ \A d \in Clients : inbox'[d] = IF d = c THEN {} ELSE inbox[d]
          /\ \A d \in Clients \ {c} : target'[d] = target[d]
      BY <2>1 DEF TypeInv, TypeOK
    <2>3. Serves' = Serves /\ Shared' = Shared
      BY <2>1, OpenSame
    <2>4. CASE pc[c] = "idle"
      <3>1. route[c] = None /\ conn[c] = None /\ inbox[c] = {}
        BY <2>4 DEF KeyInv, LeaseInv, OnlyOwnConn, Holding
      <3>2. UNCHANGED <<route, conn, inbox>>
        BY <2>1, <3>1 DEF TypeInv, TypeOK
      <3>3. Held' = Held
        BY <2>2, <3>1, <3>2, HeldSame
      <3> QED BY <1>s, <2>3, <3>2, <3>3
    <2>5. CASE pc[c] # "idle"
      <3>1. Service!Return(c)
        BY <2>1, <2>2, <2>3, <2>5, ServiceReturn
      <3> QED BY <3>1 DEF Service!ServiceNext
    <2> QED BY <2>4, <2>5
  <1>8. CASE Respawn(c)
    BY <1>8, <1>s, HeldSame, OpenSame DEF Respawn, workerVars
  <1> QED BY <1>1, <1>3, <1>4, <1>5, <1>6, <1>7, <1>8 DEF Use

\* The worker's connection is registered: it goes to the client that asked for
\* it, who still waits, unless that client is dead.
LEMMA ServiceOpen ==
  ASSUME TypeInv, LeaseInv, KeyInv, LimitRespected, NEW w \in Workers, RegisterConn(w)
  PROVE  Service!Open(w, key[w]) /\ key[w] \in Routes
  <1> DEFINE c == owner[w]
  <1>1. status[w] = "registering" /\ c \in Clients
    BY DEF RegisterConn, TypeInv, Located
  <1>2. /\ \A d \in Clients : ~Uses(d, w)
        /\ pc[c] = "dead" \/ (pc[c] = "await" /\ target[c] = w /\ inbox[c] = {})
    BY <1>1 DEF LeaseInv
  <1>3. key[w] \in Routes /\ Serves[w] = None
    BY <1>1 DEF KeyInv, Serves
  <1>4. Service!HeldByNobody(w)
    BY <1>2, HeldIsUsed DEF Service!HeldByNobody
  <1>c. Service!Cardinality(Service!Opened) = Cardinality(Service!Opened)
    BY DEF Service!Cardinality, Cardinality
  <1>5. Cardinality(Service!Opened) < MaxConnections
    <2>1. Service!Opened \subseteq children \ {w}
      BY <1>3, NoneAssumption DEF Service!Opened, Serves, LimitRespected, Live
    <2>2. w \in children /\ IsFiniteSet(children)
      BY <1>1, WorkersFinite, FS_Subset DEF LimitRespected, Live, TypeInv, TypeOK
    <2>3. /\ IsFiniteSet(children \ {w})
          /\ Cardinality(children \ {w}) = Cardinality(children) - 1
      BY <2>2, FS_RemoveElement
    <2>4. /\ Cardinality(Service!Opened) <= Cardinality(children \ {w})
          /\ Cardinality(Service!Opened) \in Nat /\ Cardinality(children) \in Nat
      BY <2>1, <2>2, <2>3, FS_Subset, FS_CardinalityType
    <2> QED BY <2>3, <2>4, LimitAssumption DEF LimitRespected
  <1>6. PICK p \in OpenProtocols : state' = [state EXCEPT ![w] = Connected(c, p)]
    BY DEF RegisterConn
  <1>7. /\ status' = [status EXCEPT ![w] = "up"]
        /\ inbox' = [inbox EXCEPT ![c] = IF pc[c] = "dead" THEN @ ELSE @ \cup {w}]
        /\ UNCHANGED <<route, target, conn, key>>
    BY DEF RegisterConn
  <1>8. /\ status'[w] = "up"
        /\ \A v \in Workers \ {w} : status'[v] = status[v] /\ state'[v] = state[v]
    BY <1>6, <1>7 DEF TypeInv, TypeOK
  <1>9. Serves' = [Serves EXCEPT ![w] = key[w]]
    BY <1>7, <1>8 DEF Serves
  <1>10. Shared' \in {Shared, Shared \cup {w}}
    BY <1>1, <1>8 DEF Shared
  <1>11. CASE pc[c] = "dead"
    <2>1. inbox' = inbox
      BY <1>1, <1>7, <1>11 DEF TypeInv, TypeOK
    <2>2. Held' = Held
      BY <1>7, <2>1, HeldSame
    <2> QED BY <1>3, <1>4, <1>5, <1>c, <1>7, <1>9, <1>10, <2>2 DEF Service!Open
  <1>12. CASE pc[c] # "dead"
    <2>1. inbox'[c] = {w} /\ \A d \in Clients \ {c} : inbox'[d] = inbox[d]
      BY <1>1, <1>2, <1>7, <1>12 DEF TypeInv, TypeOK
    <2>2. Held' = [Held EXCEPT ![c] = w]
      BY <1>2, <1>7, <1>12, <2>1 DEF Held
    <2>3. Held[c] = None /\ route[c] = key[w] /\ route[c] # None
      <3>1. Refers(c, w)
        BY <1>2, <1>12 DEF Refers
      <3> QED BY <1>1, <1>2, <1>3, <1>12, <3>1, HeldIsUsed, NoneAssumption DEF KeyInv
    <2> QED
      BY <1>1, <1>3, <1>4, <1>5, <1>c, <1>7, <1>9, <1>10, <2>2, <2>3 DEF Service!Open, Service!Waiting
  <1> QED BY <1>3, <1>11, <1>12

\* The connection of a worker that is up closes.
LEMMA ServiceLose ==
  ASSUME TypeInv, KeyInv, NEW w \in Workers, status[w] = "up", EndWorker(w),
         UNCHANGED <<route, conn, inbox, target, key>>
  PROVE  Service!Lose(w)
  <1>1. Serves[w] # None
    BY NoneAssumption DEF KeyInv, Serves
  <1>2. Held' = Held
    BY HeldSame
  <1> QED BY <1>1, <1>2, OpenEnds DEF Service!Lose

LEMMA ServiceWorkerStep ==
  ASSUME TypeInv, LeaseInv, KeyInv, LimitRespected, NEW w \in Workers, WorkerStep(w)
  PROVE  [Service!ServiceNext]_Service!serviceVars
  <1>u. UNCHANGED <<route, conn, target>>
    BY QuietStep
  <1>s. ASSUME inbox' = inbox, Serves' = Serves, Shared' = Shared
        PROVE  UNCHANGED Service!serviceVars
    BY <1>s, <1>u, HeldSame DEF Service!serviceVars
  <1>n. \A v \in Workers : Service!Lose(v) => Service!ServiceNext
    BY DEF Service!ServiceNext
  <1>1. CASE RegisterConn(w)
    BY <1>1, ServiceOpen DEF Service!ServiceNext
  <1>2. CASE OpenConn(w) \/ OpenFails(w) \/ Unregister(w)
    <2>1. inbox' = inbox /\ \A v \in Workers : /\ status'[v] = "up" <=> status[v] = "up"
                                               /\ status[v] = "up" => /\ key'[v] = key[v]
                                                                      /\ state'[v] = state[v]
      BY <1>2 DEF OpenConn, OpenFails, Unregister, EndWorker, clientVars, TypeInv, TypeOK
    <2> QED BY <1>s, <2>1, OpenSame
  <1>3. CASE TimerFires(w) \/ Reap(w)
    BY <1>3, <1>s, OpenSame DEF TimerFires, Reap, clientVars
  <1>4. CASE IdleClose(w)
    <2>1. status[w] = "up" /\ UNCHANGED <<inbox, key>>
          /\ (EndWorker(w) \/ UNCHANGED <<status, state>>)
      BY <1>4 DEF IdleClose, clientVars
    <2> QED BY <1>n, <1>s, <1>u, <2>1, ServiceLose, OpenSame
  <1>5. CASE ClientDown(w)
    <2>1. PICK c \in LeaseHolders(state[w]) :
            IF MustStop(state[w], c) THEN EndWorker(w)
            ELSE SetWorker(w, RemoveClient(state[w], c, TRUE, FreshToken(w)))
      BY <1>5 DEF ClientDown
    <2>2. status[w] = "up" /\ UNCHANGED <<inbox, key>>
      BY <1>5 DEF ClientDown, clientVars
    <2>3. CASE EndWorker(w)
      BY <1>n, <1>u, <2>2, <2>3, ServiceLose
    <2>4. CASE SetWorker(w, RemoveClient(state[w], c, TRUE, FreshToken(w)))
      <3>1. RemoveClient(state[w], c, TRUE, FreshToken(w)).protocol = state[w].protocol
        BY FreshTokenType, RemoveClientLease DEF LeaseHolders, TypeInv, TypeOK
      <3> QED BY <1>s, <2>2, <2>4, <3>1, TableSame DEF SetWorker
    <2> QED BY <2>1, <2>3, <2>4
  <1>6. CASE ConnLost(w)
    BY <1>6, <1>n, <1>u, ServiceLose DEF ConnLost, clientVars
  <1>7. CASE GunUp(w)
    <2>1. PICK p \in OpenProtocols : SetWorker(w, [state[w] EXCEPT !.protocol = p])
      BY <1>7 DEF GunUp
    <2>2. Renegotiates /\ status[w] = "up" /\ UNCHANGED <<inbox, key>>
      BY <1>7 DEF GunUp, clientVars
    <2>3. status' = status /\ \A v \in Workers \ {w} : state'[v] = state[v]
      BY <2>1 DEF SetWorker, TypeInv, TypeOK
    <2>4. Serves' = Serves /\ Serves[w] # None
      BY <2>2, <2>3, NoneAssumption DEF Serves, KeyInv
    <2>5. Shared' \in {Shared \ {w}, Shared \cup {w}}
      BY <2>2, <2>3 DEF Shared
    <2>6. Held' = Held
      BY <1>u, <2>2, HeldSame
    <2>7. Service!Switch(w)
      BY <1>u, <2>2, <2>4, <2>5, <2>6 DEF Service!Switch
    <2> QED BY <2>7 DEF Service!ServiceNext
  <1>8. CASE LateCheckout(w)
    <2>1. PICK c \in Clients : state' = IF Busy(state[w]) THEN state
                                        ELSE [state EXCEPT ![w] = Checkout(state[w], c)]
      BY <1>8 DEF LateCheckout
    <2>2. UNCHANGED <<inbox, status, key>>
      BY <1>8 DEF LateCheckout, clientVars
    <2>3. Checkout(state[w], c).protocol = state[w].protocol
      BY CheckoutLease DEF TypeInv, TypeOK
    <2>4. Serves' = Serves /\ Shared' = Shared
      BY <2>1, <2>2, <2>3, TableSame, OpenSame
    <2> QED BY <1>s, <2>2, <2>4
  <1> QED BY <1>1, <1>2, <1>3, <1>4, <1>5, <1>6, <1>7, <1>8 DEF WorkerStep

LEMMA ServiceReclaimer ==
  ASSUME TypeInv, LeaseInv, KeyInv, ReclaimerStep
  PROVE  [Service!ServiceNext]_Service!serviceVars
  <1>1. UNCHANGED <<route, conn, target, inbox, key>>
    BY QuietStep
    DEF ReclaimerStep, SelectWorkers, ReclaimInfo, NothingUnused, SomeUnused, Reclaim,
        ReclaimDone, ReclaimerExit, clientVars, workerVars
  <1>2. CASE UNCHANGED <<status, state>>
    BY <1>1, <1>2, HeldSame, OpenSame DEF Service!serviceVars
  <1>3. ASSUME NEW w \in Workers, EndWorker(w), status[w] = "up"
        PROVE  Service!ServiceNext
    BY <1>1, <1>3, ServiceLose DEF Service!ServiceNext
  <1>4. UNCHANGED <<status, state>> \/ \E w \in Workers : EndWorker(w) /\ status[w] = "up"
    <2>1. CASE Reclaim
      <3>1. PICK w \in unused : Reclaim!2!(w)
        BY <2>1 DEF Reclaim
      <3>2. w \in Workers
        BY DEF TypeInv, TypeOK
      <3> QED BY <3>1, <3>2
    <2>2. CASE ~Reclaim
      BY <2>2
      DEF ReclaimerStep, SelectWorkers, ReclaimInfo, NothingUnused, SomeUnused, ReclaimDone,
          ReclaimerExit, workerVars
    <2> QED BY <2>1, <2>2
  <1> QED BY <1>2, <1>3, <1>4

\* The pool implements the service it is for: every step of a client, a worker
\* or the reclaimer asks, grants, returns, opens or loses a connection as
\* LeaseService allows, or changes nothing a client can see.
THEOREM LeasesKeptCorrect == Spec => LeasesKept
  <1>1. Init => Service!ServiceInit
    <2> SUFFICES ASSUME Init PROVE Service!ServiceInit
      OBVIOUS
    <2>1. Held = [c \in Clients |-> None]
      BY DEF Init, Held
    <2>2. Serves = [w \in Workers |-> None] /\ Shared = {}
      BY DEF Init, Serves, Shared
    <2> QED BY <2>1, <2>2 DEF Init, Service!ServiceInit
  <1>2. TypeInv /\ LeaseInv /\ KeyInv /\ LimitRespected /\ [Next]_vars
          => [Service!ServiceStep]_Service!serviceVars
    <2> SUFFICES ASSUME TypeInv, LeaseInv, KeyInv, LimitRespected, [Next]_vars
                 PROVE  [Service!ServiceNext]_Service!serviceVars
      BY DEF Service!ServiceStep
    <2>1. CASE UNCHANGED vars
      <3>1. UNCHANGED <<route, target, conn, inbox, status, key, state>>
        BY <2>1 DEF vars, clientVars, workerVars
      <3> QED BY <3>1, HeldSame, OpenSame DEF Service!serviceVars
    <2> QED
      BY <2>1, ServiceAcquire, ServiceUse, ServiceWorkerStep, ServiceReclaimer DEF Next
  <1> QED BY <1>1, <1>2, LeaseCorrect, KeyCorrect, LimitCorrect, PTL DEF Spec, LeasesKept

(***************************************************************************)
(* The safety half of IdleEnds: a connection without clients has a timer.  *)
(***************************************************************************)

Timed(st) == LeaseHolders(st) = {} <=> st.timer # NoTimer

LEMMA CheckoutTimed ==
  ASSUME NEW st \in WorkerState, NEW c \in Clients
  PROVE  Timed(Checkout(st, c))
  <1>1. c \in LeaseHolders(Checkout(st, c))
    BY CheckoutLease DEF LeaseHolders
  <1>2. AddClient(st, c) \in WorkerState
    BY DEF AddClient, WorkerState, Lease
  <1>3. Checkout(st, c).timer = NoTimer
    BY <1>2 DEF Checkout, WorkerState
  <1> QED BY <1>1, <1>3 DEF Timed

\* Calls about streams change neither who has a lease nor the timer.
LEMMA StreamTimed ==
  ASSUME NEW st \in WorkerState, Timed(st), NEW c \in Clients, NEW s
  PROVE  Timed(PutStream(st, c, s)) /\ Timed(DropStream(st, c, s))
  <1>1. /\ PutStream(st, c, s).timer = st.timer
        /\ DropStream(st, c, s).timer = st.timer
    BY DEF PutStream, DropStream, WorkerState
  <1>2. /\ LeaseHolders(PutStream(st, c, s)) = LeaseHolders(st)
        /\ LeaseHolders(DropStream(st, c, s)) = LeaseHolders(st)
    BY StreamLease DEF LeaseHolders
  <1> QED BY <1>1, <1>2 DEF Timed

\* The last client to leave starts the timer, whoever leaves and however often
\* it had the lease.
LEMMA RemoveTimed ==
  ASSUME NEW st \in WorkerState, Timed(st), NEW c \in Clients, NEW all \in BOOLEAN, NEW t \in Tokens
  PROVE  Timed(RemoveClient(st, c, all, t))
  <1>1. CASE st.clients[c].count = 0
    BY <1>1 DEF RemoveClient
  <1>2. CASE st.clients[c].count > 1 /\ ~all
    <2>1. st.clients[c].count \in Nat
      BY DEF WorkerState, Lease
    <2>2. RemoveClient(st, c, all, t) = [st EXCEPT !.clients[c].count = @ - 1]
      BY <1>2, <2>1 DEF RemoveClient
    <2>3. /\ RemoveClient(st, c, all, t).timer = st.timer
          /\ RemoveClient(st, c, all, t).clients[c].count > 0
          /\ \A d \in Clients \ {c} : RemoveClient(st, c, all, t).clients[d] = st.clients[d]
      BY <1>2, <2>1, <2>2 DEF WorkerState, Lease
    <2>4. c \in LeaseHolders(st) /\ c \in LeaseHolders(RemoveClient(st, c, all, t))
      BY <1>2, <2>1, <2>3 DEF LeaseHolders
    <2> QED BY <2>3, <2>4 DEF Timed
  <1>3. CASE st.clients[c].count # 0 /\ ~(st.clients[c].count > 1 /\ ~all)
    <2> DEFINE left == [st EXCEPT !.clients[c] = NoLease]
    <2>1. RemoveClient(st, c, all, t) = Forget(st, c, t)
      BY <1>3 DEF RemoveClient
    <2>2. left.timer = st.timer /\ left.clients = [st.clients EXCEPT ![c] = NoLease]
      BY DEF WorkerState
    <2>3. CASE LeaseHolders(left) = {}
      <3>1. /\ Forget(st, c, t).timer = t
            /\ Forget(st, c, t).clients = left.clients
        BY <2>3 DEF Forget, WorkerState
      <3>2. LeaseHolders(Forget(st, c, t)) = {}
        BY <2>3, <3>1 DEF LeaseHolders
      <3> QED BY <2>1, <3>1, <3>2, NoTimerAssumption DEF Timed
    <2>4. CASE LeaseHolders(left) # {}
      <3>1. Forget(st, c, t) = left
        BY <2>4 DEF Forget
      <3>2. c \in LeaseHolders(st)
        BY <1>3 DEF LeaseHolders, WorkerState, Lease
      <3>3. st.timer = NoTimer
        BY <3>2 DEF Timed
      <3> QED BY <2>1, <2>2, <2>4, <3>1, <3>3 DEF Timed
    <2> QED BY <2>3, <2>4
  <1> QED BY <1>1, <1>2, <1>3

LEMMA ConnectedTimed ==
  ASSUME NEW c \in Clients, NEW p \in Protocols
  PROVE  Timed(Connected(c, p))
  BY ConnectedLease DEF Connected, Timed

LEMMA TimedQuiet ==
  ASSUME IdleIsTimed, UNCHANGED <<status, state>>
  PROVE  IdleIsTimed'
  BY DEF IdleIsTimed, LeaseHolders

LEMMA TimedEnd ==
  ASSUME TypeInv, IdleIsTimed, NEW w \in Workers, EndWorker(w)
  PROVE  IdleIsTimed'
  BY DEF IdleIsTimed, LeaseHolders, EndWorker, TypeInv, TypeOK

LEMMA TimedTable ==
  ASSUME TypeInv, IdleIsTimed, NEW w \in Workers, NEW st, Timed(st),
         state' = [state EXCEPT ![w] = st],
         \A v \in Workers \ {w} : status'[v] = status[v]
  PROVE  IdleIsTimed'
  <1> SUFFICES ASSUME NEW v \in Workers, status'[v] = "up"
               PROVE  Timed(state'[v])
    BY DEF IdleIsTimed, LeaseHolders, Timed
  <1>1. CASE v # w
    BY <1>1 DEF IdleIsTimed, Timed, TypeInv, TypeOK
  <1>2. CASE v = w
    BY <1>2 DEF TypeInv, TypeOK
  <1> QED BY <1>1, <1>2

LEMMA TimedAcquire ==
  ASSUME TypeInv, IdleIsTimed, NEW c \in Clients, Acquire(c)
  PROVE  IdleIsTimed'
  <1>q. ASSUME NEW w \in Workers, SetWorker(w, Checkout(state[w], c))
        PROVE  IdleIsTimed'
    <2>1. state[w] \in WorkerState
      BY DEF TypeInv, TypeOK
    <2> QED BY <1>q, <2>1, CheckoutTimed, TimedTable DEF SetWorker
  <1>1. CASE CheckoutExisting(c)
    <2>1. PICK w \in todo[c] : CheckoutExisting(c)!2!(w)
      BY <1>1 DEF CheckoutExisting
    <2>w. w \in Workers
      BY DEF TypeInv, TypeOK
    <2> QED BY <1>q, <2>1, <2>w, TimedQuiet
  <1>2. CASE WaitCheckout(c)
    <2>1. target[c] \in Workers
      BY <1>2 DEF WaitCheckout, TypeInv, Located
    <2> QED BY <1>2, <1>q, <2>1 DEF WaitCheckout
  <1>3. CASE StartWorker(c) \/ RestartWorker(c)
    <2>1. PICK w \in FreePids : status' = [status EXCEPT ![w] = "connecting"] /\ state' = state
      BY <1>3 DEF StartWorker, RestartWorker, Spawn
    <2> QED BY <2>1 DEF FreePids, IdleIsTimed, LeaseHolders, TypeInv, TypeOK
  <1>4. CASE \/ Request(c) \/ Lookup(c) \/ CheckoutTimeout(c) \/ NoneAvailable(c)
             \/ LockRoute(c) \/ ProvisionLookup(c) \/ WaitForOpening(c) \/ NoneOpening(c)
             \/ PoolFull(c) \/ StartReclaimer(c) \/ MonitorReclaimer(c)
             \/ ReclaimerDown(c) \/ GiveUp(c)
             \/ ReceiveConn(c) \/ ReceiveDown(c) \/ WaitBusy(c) \/ WaitExit(c)
    <2>1. UNCHANGED <<status, state>>
      BY <1>4
      DEF Request, Lookup, CheckoutTimeout, NoneAvailable, LockRoute, ProvisionLookup,
          WaitForOpening, NoneOpening, PoolFull, StartReclaimer, MonitorReclaimer,
          ReclaimerDown, GiveUp, ReceiveConn, ReceiveDown, WaitBusy, WaitExit,
          workerVars
    <2> QED BY <2>1, TimedQuiet
  <1> QED BY <1>1, <1>2, <1>3, <1>4 DEF Acquire

LEMMA TimedUse ==
  ASSUME TypeInv, IdleIsTimed, NEW c \in Clients, Use(c)
  PROVE  IdleIsTimed'
  <1> DEFINE w == conn[c]
  <1>w. w \in Workers /\ state[w] \in WorkerState
    BY DEF Use, RegisterStream, FinishStream, ReleaseConn, ReleaseStream, CancelStream,
           DiscardConn, DropResponse, TypeInv, TypeOK, Located, Holding
  <1>t. FreshToken(w) \in Tokens
    BY <1>w, FreshTokenType DEF TypeInv
  <1>s. ASSUME NEW st, Timed(st), SetWorker(w, st)
        PROVE  IdleIsTimed'
    BY <1>s, <1>w, TimedTable DEF SetWorker
  <1>r. Reachable(w) => Timed(state[w])
    BY <1>w DEF Reachable, IdleIsTimed, Timed
  <1>d. ASSUME NEW st \in WorkerState, Timed(st),
               SetWorker(w, RemoveClient(st, c, FALSE, FreshToken(w)))
        PROVE  IdleIsTimed'
    BY <1>d, <1>s, <1>t, RemoveTimed
  <1>f. ASSUME NEW s, Reachable(w)
        PROVE  DropStream(state[w], c, s) \in WorkerState /\ Timed(DropStream(state[w], c, s))
    BY <1>f, <1>w, <1>r, DropStreamType, StreamTimed
  <1>1. CASE RegisterStream(c)
    <2>1. PICK s \in Streams : RegisterStream(c)!2!(s)
      BY <1>1 DEF RegisterStream, FreshStreams
    <2>2. Reachable(w) => Timed(PutStream(state[w], c, s))
      BY <1>w, <1>r, StreamTimed
    <2> QED BY <1>s, <2>1, <2>2, TimedQuiet
  <1>2. CASE FinishStream(c)
    BY <1>2, <1>s, <1>f, TimedQuiet DEF FinishStream
  <1>3. CASE ReleaseConn(c)
    BY <1>3, <1>w, <1>r, <1>d, TimedEnd, TimedQuiet DEF ReleaseConn
  <1>4. CASE ReleaseStream(c)
    BY <1>4, <1>d, <1>f, TimedQuiet DEF ReleaseStream
  <1>5. CASE CancelStream(c)
    BY <1>5, <1>w, <1>d, <1>f, TimedEnd, TimedQuiet DEF CancelStream
  <1>6. CASE DiscardConn(c)
    BY <1>6, <1>w, TimedEnd, TimedQuiet DEF DiscardConn
  <1>7. CASE DropResponse(c)
    BY <1>7, TimedQuiet DEF DropResponse, workerVars
  <1> QED BY <1>1, <1>2, <1>3, <1>4, <1>5, <1>6, <1>7 DEF Use

LEMMA TimedWorkerStep ==
  ASSUME TypeInv, IdleIsTimed, NEW w \in Workers, WorkerStep(w)
  PROVE  IdleIsTimed'
  <1>w. state[w] \in WorkerState /\ (status[w] = "up" => Timed(state[w]))
    BY DEF TypeInv, TypeOK, IdleIsTimed, Timed
  <1>1. CASE OpenConn(w)
    BY <1>1 DEF OpenConn, IdleIsTimed, LeaseHolders, TypeInv, TypeOK
  <1>2. CASE RegisterConn(w)
    <2>1. PICK p \in OpenProtocols : state' = [state EXCEPT ![w] = Connected(owner[w], p)]
      BY <1>2 DEF RegisterConn
    <2>2. owner[w] \in Clients /\ p \in Protocols
      BY <1>2, OpenProtocolsAssumption DEF RegisterConn, TypeInv, Located
    <2>3. \A v \in Workers \ {w} : status'[v] = status[v]
      BY <1>2 DEF RegisterConn, TypeInv, TypeOK
    <2> QED BY <2>1, <2>2, <2>3, ConnectedTimed, TimedTable
  <1>3. CASE OpenFails(w) \/ ConnLost(w)
    BY <1>3, TimedEnd DEF OpenFails, ConnLost
  <1>4. CASE TimerFires(w) \/ Unregister(w) \/ Reap(w)
    BY <1>4, TimedQuiet DEF TimerFires, Unregister, Reap
  <1>5. CASE IdleClose(w)
    BY <1>5, TimedEnd, TimedQuiet DEF IdleClose
  <1>6. CASE ClientDown(w)
    <2>1. PICK c \in LeaseHolders(state[w]) : ClientDown(w)!2!(c)
      BY <1>6 DEF ClientDown
    <2>2. c \in Clients /\ FreshToken(w) \in Tokens /\ status[w] = "up"
      BY <1>6, FreshTokenType DEF ClientDown, LeaseHolders, TypeInv
    <2>3. Timed(RemoveClient(state[w], c, TRUE, FreshToken(w)))
      BY <1>w, <2>2, RemoveTimed
    <2>4. CASE MustStop(state[w], c)
      BY <2>1, <2>4, TimedEnd
    <2>5. CASE ~MustStop(state[w], c)
      BY <2>1, <2>3, <2>5, TimedTable DEF SetWorker
    <2> QED BY <2>4, <2>5
  <1>7. CASE GunUp(w)
    <2>1. PICK p \in OpenProtocols : SetWorker(w, [state[w] EXCEPT !.protocol = p])
      BY <1>7 DEF GunUp
    <2>2. Timed([state[w] EXCEPT !.protocol = p])
      BY <1>7, <1>w DEF GunUp, Timed, LeaseHolders, WorkerState
    <2> QED BY <2>1, <2>2, TimedTable DEF SetWorker
  <1>8. CASE LateCheckout(w)
    <2>1. PICK c \in Clients : LateCheckout(w)!2!(c)
      BY <1>8 DEF LateCheckout
    <2>2. status' = status
      BY <1>8 DEF LateCheckout
    <2> QED BY <1>w, <2>1, <2>2, CheckoutTimed, TimedTable, TimedQuiet
  <1> QED
    BY <1>1, <1>2, <1>3, <1>4, <1>5, <1>6, <1>7, <1>8 DEF WorkerStep

\* What IdleEnds rests on, for every number of clients and workers: an open
\* connection has an idle timer exactly while nobody has a lease at it.
THEOREM IdleIsTimedCorrect == Spec => []IdleIsTimed
  <1>1. Init => IdleIsTimed
    BY DEF Init, IdleIsTimed
  <1>2. TypeInv /\ IdleIsTimed /\ [Next]_vars => IdleIsTimed'
    <2> SUFFICES ASSUME TypeInv, IdleIsTimed, [Next]_vars PROVE IdleIsTimed'
      OBVIOUS
    <2>1. ASSUME NEW c \in Clients, Crash(c) \/ Respawn(c)
          PROVE  IdleIsTimed'
      BY <2>1, TimedQuiet DEF Crash, Respawn, workerVars
    <2>2. CASE ReclaimerStep
      <3>1. CASE Reclaim
        <4>1. PICK w \in unused : Reclaim!2!(w)
          BY <3>1 DEF Reclaim
        <4>2. w \in Workers
          BY DEF TypeInv, TypeOK
        <4> QED BY <4>1, <4>2, TimedEnd, TimedQuiet
      <3>2. CASE SelectWorkers \/ ReclaimInfo \/ NothingUnused \/ SomeUnused \/ ReclaimDone
        BY <3>2, TimedQuiet
        DEF SelectWorkers, ReclaimInfo, NothingUnused, SomeUnused, ReclaimDone, ReclaimerExit,
            workerVars
      <3> QED BY <2>2, <3>1, <3>2 DEF ReclaimerStep
    <2>3. CASE UNCHANGED vars
      BY <2>3, TimedQuiet DEF vars, workerVars
    <2> QED
      BY <2>1, <2>2, <2>3, TimedAcquire, TimedUse, TimedWorkerStep DEF Next
  <1> QED BY <1>1, <1>2, LeaseCorrect, PTL DEF Spec

(***************************************************************************)
(* The safety half of WaitersAnswered: what a client waits for can come.   *)
(***************************************************************************)

\* A step of client c, or of none: the workers others wait for stay as they
\* are or end, and the pid of a new one is nobody's target.
LEMMA ExpectedFrame ==
  ASSUME TypeInv, WaitersExpected, NEW c \in Clients, Expected(c)',
         \A d \in Clients \ {c} : /\ pc'[d] = pc[d] /\ target'[d] = target[d]
                                  /\ inbox'[d] = inbox[d] /\ watch'[d] = watch[d],
         rpc # "none" => rpc' # "none",
         \A v \in Workers : \/ status'[v] = status[v] /\ owner'[v] = owner[v]
                            \/ status'[v] = "dead"
                            \/ v \in FreePids
  PROVE  WaitersExpected'
  <1> SUFFICES ASSUME NEW d \in Clients \ {c} PROVE Expected(d)'
    BY DEF WaitersExpected
  <1>1. Expected(d)
    BY DEF WaitersExpected
  <1>2. pc[d] = "await" => target[d] \in Workers /\ target[d] \notin FreePids
    BY DEF TypeInv, Located, FreePids
  <1> QED BY <1>1, <1>2 DEF Expected

\* A step after which c waits neither for a connection nor for the reclaimer.
LEMMA ExpectedMove ==
  ASSUME TypeInv, WaitersExpected, NEW c \in Clients, NEW l, GoTo(c, l),
         l \notin {"await", "monitor", "reclaim_wait"},
         \A d \in Clients \ {c} : target'[d] = target[d] /\ inbox'[d] = inbox[d] /\ watch'[d] = watch[d],
         rpc' = rpc, owner' = owner,
         \A v \in Workers : status'[v] = status[v] \/ status'[v] = "dead"
  PROVE  WaitersExpected'
  <1>1. pc'[c] = l /\ \A d \in Clients \ {c} : pc'[d] = pc[d]
    BY DEF GoTo, TypeInv, TypeOK
  <1>2. Expected(c)'
    BY <1>1 DEF Expected
  <1> QED BY <1>1, <1>2, ExpectedFrame

LEMMA ExpectedAcquire ==
  ASSUME TypeInv, WaitersExpected, NEW c \in Clients, Acquire(c)
  PROVE  WaitersExpected'
  <1> DEFINE Still == /\ \A d \in Clients \ {c} : /\ target'[d] = target[d] /\ inbox'[d] = inbox[d]
                                                  /\ watch'[d] = watch[d]
                      /\ rpc' = rpc /\ owner' = owner
                      /\ \A v \in Workers : status'[v] = status[v] \/ status'[v] = "dead"
  <1>1. CASE StartWorker(c) \/ RestartWorker(c)
    <2>1. PICK w \in FreePids : /\ status' = [status EXCEPT ![w] = "connecting"]
                                /\ owner' = [owner EXCEPT ![w] = c]
                                /\ target' = [target EXCEPT ![c] = w]
      BY <1>1 DEF StartWorker, RestartWorker, Spawn
    <2>2. GoTo(c, "await") /\ watch' = [watch EXCEPT ![c] = "none"] /\ UNCHANGED <<inbox, rpc>>
      BY <1>1 DEF StartWorker, RestartWorker, Spawn, reclaimVars
    <2>3. w \in Workers
      BY DEF FreePids
    <2>4. /\ pc'[c] = "await" /\ target'[c] = w /\ status'[w] = "connecting" /\ owner'[w] = c
          /\ \A d \in Clients \ {c} : pc'[d] = pc[d] /\ target'[d] = target[d] /\ watch'[d] = watch[d]
          /\ \A v \in Workers \ {w} : status'[v] = status[v] /\ owner'[v] = owner[v]
      BY <2>1, <2>2, <2>3 DEF GoTo, TypeInv, TypeOK
    <2>5. Expected(c)'
      BY <2>4 DEF Expected
    <2> QED BY <2>2, <2>4, <2>5, ExpectedFrame
  <1>2. CASE StartReclaimer(c)
    <2>1. /\ rpc' # "none" /\ watch' = [watch EXCEPT ![c] = "alive"]
          /\ GoTo(c, "monitor") /\ UNCHANGED <<target, inbox, status, owner>>
      BY <1>2 DEF StartReclaimer, workerVars
    <2>2. /\ pc'[c] = "monitor" /\ watch'[c] = "alive"
          /\ \A d \in Clients \ {c} : pc'[d] = pc[d] /\ watch'[d] = watch[d]
      BY <2>1 DEF GoTo, TypeInv, TypeOK
    <2>3. Expected(c)'
      BY <2>1, <2>2 DEF Expected
    <2> QED BY <2>1, <2>2, <2>3, ExpectedFrame
  <1>3. CASE MonitorReclaimer(c)
    <2>1. /\ pc[c] = "monitor" /\ GoTo(c, "reclaim_wait")
          /\ watch' = [watch EXCEPT ![c] = IF @ = "exited" THEN "noproc" ELSE @]
          /\ UNCHANGED <<target, inbox, status, owner, rpc>>
      BY <1>3 DEF MonitorReclaimer, workerVars, reclaimVars
    <2>2. /\ pc'[c] = "reclaim_wait" /\ watch'[c] = IF watch[c] = "exited" THEN "noproc" ELSE watch[c]
          /\ \A d \in Clients \ {c} : pc'[d] = pc[d] /\ watch'[d] = watch[d]
      BY <2>1 DEF GoTo, TypeInv, TypeOK
    <2>3. Expected(c)'
      BY <2>1, <2>2 DEF Expected, WaitersExpected
    <2> QED BY <2>1, <2>2, <2>3, ExpectedFrame
  <1>4. CASE CheckoutExisting(c)
    <2>1. PICK w \in todo[c] : CheckoutExisting(c)!2!(w)
      BY <1>4 DEF CheckoutExisting
    <2>2. UNCHANGED <<inbox, watch, rpc, owner, status>>
      BY <1>4, <2>1 DEF CheckoutExisting, SetWorker, reclaimVars
    <2>3. CASE UNCHANGED <<pc, target>>
      BY <2>2, <2>3 DEF WaitersExpected, Expected
    <2>4. CASE Take(c, w)
      <3>1. GoTo(c, "using") /\ target' = [target EXCEPT ![c] = None]
        BY <2>4 DEF Take
      <3> QED BY <2>2, <3>1, ExpectedMove DEF TypeInv, TypeOK
    <2> QED BY <2>1, <2>3, <2>4
  <1>5. CASE CheckoutTimeout(c)
    BY <1>5 DEF CheckoutTimeout, workerVars, reclaimVars, WaitersExpected, Expected
  <1>6. CASE Request(c) \/ Lookup(c) \/ NoneAvailable(c) \/ LockRoute(c) \/ ProvisionLookup(c)
             \/ WaitForOpening(c) \/ NoneOpening(c) \/ PoolFull(c) \/ ReclaimerDown(c) \/ WaitBusy(c)
    <2>1. Still /\ \E l \in Running \ {"await", "monitor", "reclaim_wait"} : GoTo(c, l)
      BY <1>6
      DEF Request, Lookup, NoneAvailable, LockRoute, ProvisionLookup, WaitForOpening, NoneOpening,
          PoolFull, ReclaimerDown, WaitBusy, workerVars, reclaimVars, Running, Locked, TypeInv, TypeOK
    <2> QED BY <2>1, ExpectedMove
  <1>7. CASE GiveUp(c) \/ ReceiveDown(c) \/ WaitExit(c)
    <2>1. Still /\ GoTo(c, "idle")
      BY <1>7 DEF GiveUp, ReceiveDown, WaitExit, Finish, workerVars, reclaimVars, TypeInv, TypeOK
    <2> QED BY <2>1, ExpectedMove
  <1>8. CASE ReceiveConn(c) \/ WaitCheckout(c)
    <2>1. Still /\ GoTo(c, "using")
      BY <1>8 DEF ReceiveConn, WaitCheckout, Take, SetWorker, workerVars, reclaimVars, TypeInv, TypeOK
    <2> QED BY <2>1, ExpectedMove
  <1> QED BY <1>1, <1>2, <1>3, <1>4, <1>5, <1>6, <1>7, <1>8 DEF Acquire

LEMMA ExpectedUse ==
  ASSUME TypeInv, WaitersExpected, NEW c \in Clients, Use(c) \/ Crash(c) \/ Respawn(c)
  PROVE  WaitersExpected'
  <1> DEFINE Others == /\ \A d \in Clients \ {c} : /\ target'[d] = target[d] /\ inbox'[d] = inbox[d]
                                                   /\ watch'[d] = watch[d]
                       /\ rpc' = rpc /\ owner' = owner
  <1>e. ASSUME UNCHANGED <<status, state>> \/ EndWorker(conn[c]) \/ \E st : SetWorker(conn[c], st),
               conn[c] \in Workers
        PROVE  \A v \in Workers : status'[v] = status[v] \/ status'[v] = "dead"
    BY <1>e DEF EndWorker, SetWorker, TypeInv, TypeOK
  <1>w. Use(c) => conn[c] \in Workers
    BY DEF Use, RegisterStream, FinishStream, ReleaseConn, ReleaseStream, CancelStream,
           DiscardConn, DropResponse, TypeInv, Located, Holding
  <1>1. CASE RegisterStream(c) \/ FinishStream(c)
    <2>1. Others /\ \E l \in {"streaming", "finished"} : GoTo(c, l)
      BY <1>1 DEF RegisterStream, FinishStream, reclaimVars
    <2>2. UNCHANGED <<status, state>> \/ EndWorker(conn[c]) \/ \E st : SetWorker(conn[c], st)
      BY <1>1 DEF RegisterStream, FinishStream
    <2> QED BY <1>1, <1>e, <1>w, <2>1, <2>2, ExpectedMove DEF Use
  <1>2. CASE ReleaseConn(c) \/ ReleaseStream(c) \/ CancelStream(c) \/ DiscardConn(c) \/ DropResponse(c)
    <2>1. Others /\ GoTo(c, "idle")
      BY <1>2 DEF ReleaseConn, ReleaseStream, CancelStream, DiscardConn, DropResponse, EndRequest, workerVars, Finish,
                  reclaimVars, TypeInv, TypeOK
    <2>2. UNCHANGED <<status, state>> \/ EndWorker(conn[c]) \/ \E st : SetWorker(conn[c], st)
      BY <1>2 DEF ReleaseConn, ReleaseStream, CancelStream, DiscardConn, DropResponse, workerVars
    <2> QED BY <1>2, <1>e, <1>w, <2>1, <2>2, ExpectedMove DEF Use
  <1>3. CASE Crash(c)
    BY <1>3, ExpectedMove DEF Crash, workerVars, reclaimVars, TypeInv, TypeOK
  <1>4. CASE Respawn(c)
    BY <1>4, ExpectedMove DEF Respawn, workerVars, reclaimVars
  <1> QED BY <1>1, <1>2, <1>3, <1>4 DEF Use

\* A worker sends its connection to the client that asked for it, or ends.
LEMMA ExpectedWorkerStep ==
  ASSUME TypeInv, WaitersExpected, NEW w \in Workers, WorkerStep(w)
  PROVE  WaitersExpected'
  <1>q. UNCHANGED <<pc, target>>
    BY QuietStep
  <1>d. \A d \in Clients : pc[d] = "await" => target[d] \in Workers
    BY DEF TypeInv, Located
  <1>1. CASE RegisterConn(w)
    <2>1. owner[w] \in Clients /\ status[w] = "registering"
      BY <1>1 DEF RegisterConn, TypeInv, Located
    <2>2. /\ status' = [status EXCEPT ![w] = "up"] /\ owner' = [owner EXCEPT ![w] = None]
          /\ inbox' = [inbox EXCEPT ![owner[w]] = IF pc[owner[w]] = "dead" THEN @ ELSE @ \cup {w}]
          /\ UNCHANGED <<watch, rpc>>
      BY <1>1 DEF RegisterConn, reclaimVars
    <2>3. \A d \in Clients : /\ inbox[d] # {} => inbox'[d] # {}
                             /\ d = owner[w] /\ pc[d] = "await" => inbox'[d] # {}
      BY <2>1, <2>2 DEF TypeInv, TypeOK
    <2>4. \A v \in Workers \ {w} : status'[v] = status[v] /\ owner'[v] = owner[v]
      BY <2>2 DEF TypeInv, TypeOK
    <2> SUFFICES ASSUME NEW d \in Clients PROVE Expected(d)'
      BY DEF WaitersExpected
    <2>5. Expected(d)
      BY DEF WaitersExpected
    <2>6. CASE pc[d] = "await" /\ target[d] = w
      BY <1>q, <2>1, <2>3, <2>5, <2>6 DEF Expected
    <2>7. CASE ~(pc[d] = "await" /\ target[d] = w)
      BY <1>q, <1>d, <2>2, <2>3, <2>4, <2>5, <2>7 DEF Expected
    <2> QED BY <2>6, <2>7
  <1>2. CASE ~RegisterConn(w)
    <2>1. UNCHANGED <<inbox, watch, rpc>>
      BY <1>2 DEF WorkerStep, OpenConn, OpenFails, TimerFires, IdleClose, ClientDown, ConnLost,
                  GunUp, LateCheckout, Unregister, Reap, clientVars, reclaimVars
    <2>2. \/ UNCHANGED <<status, owner>>
          \/ EndWorker(w) /\ owner' \in {owner, [owner EXCEPT ![w] = None]}
          \/ status' = [status EXCEPT ![w] = "registering"] /\ status[w] = "connecting" /\ owner' = owner
      BY <1>2 DEF WorkerStep, OpenConn, OpenFails, TimerFires, IdleClose, ClientDown, ConnLost,
                  GunUp, LateCheckout, Unregister, Reap, SetWorker, workerVars
    <2>3. \A v \in Workers \ {w} : status'[v] = status[v] /\ owner'[v] = owner[v]
      BY <2>2 DEF EndWorker, TypeInv, TypeOK
    <2>4. \/ status'[w] = status[w] /\ owner'[w] = owner[w]
          \/ status'[w] = "dead"
          \/ status[w] = "connecting" /\ status'[w] = "registering" /\ owner'[w] = owner[w]
      BY <2>2 DEF EndWorker, TypeInv, TypeOK
    <2> SUFFICES ASSUME NEW d \in Clients PROVE Expected(d)'
      BY DEF WaitersExpected
    <2> QED BY <1>q, <1>d, <2>1, <2>3, <2>4 DEF WaitersExpected, Expected
  <1> QED BY <1>1, <1>2

\* The reclaimer tells whoever monitors it how it ended.
LEMMA ExpectedReclaimer ==
  ASSUME TypeInv, WaitersExpected, ReclaimerStep
  PROVE  WaitersExpected'
  <1>q. UNCHANGED <<pc, target, inbox, owner>>
    BY QuietStep
    DEF ReclaimerStep, SelectWorkers, ReclaimInfo, NothingUnused, SomeUnused, Reclaim,
        ReclaimDone, ReclaimerExit, clientVars, workerVars
  <1>d. \A d \in Clients : pc[d] = "await" => target[d] \in Workers
    BY DEF TypeInv, Located
  <1>1. CASE NothingUnused \/ ReclaimDone
    <2>1. PICK reason \in {"no_unused_conns", "normal"} : ReclaimerExit(reason)
      BY <1>1 DEF NothingUnused, ReclaimDone
    <2>2. status' = status /\ \A d \in Clients :
            watch'[d] = IF watch[d] # "alive" THEN watch[d]
                        ELSE IF pc[d] = "reclaim_wait" THEN reason ELSE "exited"
      BY <2>1 DEF ReclaimerExit, workerVars
    <2> QED BY <1>q, <2>2 DEF WaitersExpected, Expected
  <1>2. CASE SelectWorkers \/ ReclaimInfo \/ SomeUnused \/ Reclaim
    <2>1. watch' = watch /\ (rpc # "none" => rpc' # "none")
      BY <1>2 DEF SelectWorkers, ReclaimInfo, SomeUnused, Reclaim, clientVars
    <2>2. \A v \in Workers : status'[v] = status[v] \/ status'[v] = "dead"
      <3>1. CASE Reclaim
        <4>1. PICK v \in unused : EndWorker(v) \/ UNCHANGED status
          BY <3>1 DEF Reclaim
        <4> QED BY <4>1 DEF EndWorker, TypeInv, TypeOK
      <3>2. CASE SelectWorkers \/ ReclaimInfo \/ SomeUnused
        BY <3>2 DEF SelectWorkers, ReclaimInfo, SomeUnused, workerVars
      <3> QED BY <1>2, <3>1, <3>2
    <2> QED BY <1>q, <1>d, <2>1, <2>2 DEF WaitersExpected, Expected
  <1> QED BY <1>1, <1>2 DEF ReclaimerStep

\* In every reachable state a client that waits, waits for something that is
\* on its way or has come: no schedule strands it, except on the reclaimer's
\* :noproc, which wait_for_reclaimer_finish does not match.
THEOREM WaitersExpectedCorrect == Spec => []WaitersExpected
  <1>1. Init => WaitersExpected
    BY DEF Init, WaitersExpected, Expected
  <1>2. TypeInv /\ WaitersExpected /\ [Next]_vars => WaitersExpected'
    <2> SUFFICES ASSUME TypeInv, WaitersExpected, [Next]_vars PROVE WaitersExpected'
      OBVIOUS
    <2>1. CASE UNCHANGED vars
      BY <2>1 DEF vars, clientVars, workerVars, reclaimVars, WaitersExpected, Expected
    <2> QED
      BY <2>1, ExpectedAcquire, ExpectedUse, ExpectedWorkerStep, ExpectedReclaimer DEF Next
  <1> QED BY <1>1, <1>2, LeaseCorrect, PTL DEF Spec
=============================================================================
