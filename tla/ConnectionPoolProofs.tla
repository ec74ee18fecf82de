----------------------- MODULE ConnectionPoolProofs -----------------------
(***************************************************************************)
(* What ConnectionPool promises for every set of clients, workers, routes  *)
(* and streams and every limit, proved with TLAPS.                         *)
(***************************************************************************)
EXTENDS ConnectionPool, FiniteSetTheorems, TLAPS

(***************************************************************************)
(* The worker's callbacks keep its state well formed.                      *)
(***************************************************************************)

LEMMA NoStateType == NoState \in WorkerState /\ NoLease \in Lease
  BY DEF NoState, NoLease, Lease, WorkerState, Protocols

LEMMA SetLeaseType ==
  ASSUME NEW st \in WorkerState, NEW c \in Clients, NEW l \in Lease
  PROVE  [st EXCEPT !.clients = [st.clients EXCEPT ![c] = l]] \in WorkerState
  BY DEF WorkerState

LEMMA ConnectedType ==
  ASSUME NEW c \in Clients, NEW p \in Protocols
  PROVE  Connected(c, p) \in WorkerState
  BY DEF Connected, NoState, NoLease, WorkerState, Lease

LEMMA CheckoutType ==
  ASSUME NEW st \in WorkerState, NEW c \in Clients
  PROVE  Checkout(st, c) \in WorkerState
  <1>1. AddClient(st, c) \in WorkerState
    BY DEF AddClient, WorkerState, Lease
  <1> QED BY <1>1 DEF Checkout, WorkerState

LEMMA PutStreamType ==
  ASSUME NEW st \in WorkerState, NEW c \in Clients, NEW s \in Streams
  PROVE  PutStream(st, c, s) \in WorkerState
  BY DEF PutStream, WorkerState, Lease

LEMMA DropStreamType ==
  ASSUME NEW st \in WorkerState, NEW c \in Clients, NEW s
  PROVE  DropStream(st, c, s) \in WorkerState
  BY DEF DropStream, WorkerState, Lease

LEMMA RemoveClientType ==
  ASSUME NEW st \in WorkerState, NEW c \in Clients, NEW all \in BOOLEAN, NEW t \in Tokens
  PROVE  RemoveClient(st, c, all, t) \in WorkerState
  <1>1. Forget(st, c, t) \in WorkerState
    BY NoStateType DEF Forget, WorkerState, NoLease, Lease
  <1>2. CASE st.clients[c].count > 1 /\ ~all
    <2>1. /\ st.clients[c] \in Lease /\ st.clients[c].count - 1 \in Nat
          /\ st.clients[c].count # 0
      BY <1>2 DEF WorkerState, Lease
    <2>2. RemoveClient(st, c, all, t) = [st EXCEPT !.clients[c].count = @ - 1]
      BY <1>2, <2>1, Zenon DEF RemoveClient
    <2> QED BY <2>1, <2>2 DEF WorkerState, Lease
  <1> QED BY <1>1, <1>2 DEF RemoveClient

(***************************************************************************)
(* Every timer can be given a reference no message in flight carries: the  *)
(* bound of TimerFires.                                                    *)
(***************************************************************************)

TokenLeft == \A w \in Workers : SpareTokens(w) # {}

\* A client that waits or uses has somebody to wait for or to use; a worker
\* that opens a connection opens it for somebody.
Located ==
    /\ \A c \in Clients :
        /\ pc[c] \in Holding => conn[c] \in Workers
        /\ pc[c] \in {"await", "wait"} => target[c] \in Workers
    /\ \A w \in Workers : status[w] \in {"connecting", "registering"} => owner[w] \in Clients

TypeInv == TypeOK /\ TokenLeft /\ Located

LEMMA FreshTokenType ==
  ASSUME TokenLeft, NEW w \in Workers
  PROVE  FreshToken(w) \in Tokens
  BY DEF TokenLeft, FreshToken, SpareTokens

LEMMA EndWorkerType ==
  ASSUME TypeInv, NEW w \in Workers, EndWorker(w)
  PROVE  /\ status' \in [Workers -> Live \cup {"dead"}]
         /\ state' \in [Workers -> WorkerState]
         /\ fired' \in [Workers -> SUBSET Tokens]
         /\ late' \in SUBSET (Clients \X Workers)
         /\ TokenLeft'
  <1>1. TokenLeft'
    BY TokensAssumption DEF EndWorker, TypeInv, TypeOK, TokenLeft, SpareTokens
  <1> QED BY <1>1, NoStateType DEF EndWorker, TypeInv, TypeOK

LEMMA SetWorkerType ==
  ASSUME TypeInv, NEW w \in Workers, NEW st \in WorkerState, SetWorker(w, st)
  PROVE  /\ status' \in [Workers -> Live \cup {"dead"}]
         /\ state' \in [Workers -> WorkerState]
         /\ fired' \in [Workers -> SUBSET Tokens]
         /\ late' \in SUBSET (Clients \X Workers)
         /\ TokenLeft'
  BY DEF SetWorker, TypeInv, TypeOK, TokenLeft, SpareTokens

LEMMA UnlockType ==
  ASSUME TypeInv, NEW c \in Clients, Unlock(c)
  PROVE  lock' \in [Routes -> Clients \cup {None}]
  BY DEF Unlock, TypeInv, TypeOK

LEMMA InitTypeInv == Init => TypeInv
  BY NoStateType, TokensAssumption, LimitAssumption
  DEF Init, TypeInv, TypeOK, TokenLeft, SpareTokens, Located, Running, Holding

(***************************************************************************)
(* Type correctness.                                                       *)
(***************************************************************************)

LEMMA AcquireType ==
  ASSUME TypeInv, NEW c \in Clients, Acquire(c)
  PROVE  TypeInv'
  <1>1. CASE Lookup(c)
    BY <1>1 DEF Lookup, GoTo, Registered, clientVars, workerVars, reclaimVars, vars, TypeInv, TypeOK, TokenLeft, SpareTokens, Located, Running, Locked, Holding
  <1>2. CASE NoneAvailable(c)
    BY <1>2 DEF NoneAvailable, GoTo, clientVars, workerVars, reclaimVars, vars, TypeInv, TypeOK, TokenLeft, SpareTokens, Located, Running, Locked, Holding
  <1>3. CASE LockRoute(c)
    BY <1>3 DEF LockRoute, GoTo, clientVars, workerVars, reclaimVars, vars, TypeInv, TypeOK, TokenLeft, SpareTokens, Located, Running, Locked, Holding
  <1>4. CASE ProvisionLookup(c)
    BY <1>4 DEF ProvisionLookup, GoTo, Registered, clientVars, workerVars, reclaimVars, vars, TypeInv, TypeOK, TokenLeft, SpareTokens, Located, Running, Locked, Holding
  <1>5. CASE PoolFull(c)
    BY <1>5 DEF PoolFull, GoTo, clientVars, workerVars, reclaimVars, vars, TypeInv, TypeOK, TokenLeft, SpareTokens, Located, Running, Locked, Holding
  <1>6. CASE NoneOpening(c)
    BY <1>6 DEF NoneOpening, GoTo, clientVars, workerVars, reclaimVars, vars, TypeInv, TypeOK, TokenLeft, SpareTokens, Located, Running, Locked, Holding
  <1>7. CASE WaitForOpening(c)
    BY <1>7 DEF WaitForOpening, GoTo, Unlock, clientVars, workerVars, reclaimVars, vars, TypeInv, TypeOK, TokenLeft, SpareTokens, Located, Running, Locked, Holding
  <1>8. CASE StartReclaimer(c)
    BY <1>8 DEF StartReclaimer, GoTo, clientVars, workerVars, reclaimVars, vars, TypeInv, TypeOK, TokenLeft, SpareTokens, Located, Running, Locked, Holding
  <1>9. CASE MonitorReclaimer(c)
    BY <1>9 DEF MonitorReclaimer, GoTo, clientVars, workerVars, reclaimVars, vars, TypeInv, TypeOK, TokenLeft, SpareTokens, Located, Running, Locked, Holding
  <1>10. CASE ReclaimerDown(c)
    BY <1>10 DEF ReclaimerDown, GoTo, clientVars, workerVars, reclaimVars, vars, TypeInv, TypeOK, TokenLeft, SpareTokens, Located, Running, Locked, Holding
  <1>11. CASE GiveUp(c)
    BY <1>11 DEF GiveUp, GoTo, Finish, Unlock, clientVars, workerVars, reclaimVars, vars, TypeInv, TypeOK, TokenLeft, SpareTokens, Located, Running, Locked, Holding
  <1>12. CASE ReceiveConn(c)
    BY <1>12 DEF ReceiveConn, GoTo, Take, clientVars, workerVars, reclaimVars, vars, TypeInv, TypeOK, TokenLeft, SpareTokens, Located, Running, Locked, Holding
  <1>13. CASE ReceiveDown(c)
    BY <1>13 DEF ReceiveDown, GoTo, Finish, clientVars, workerVars, reclaimVars, vars, TypeInv, TypeOK, TokenLeft, SpareTokens, Located, Running, Locked, Holding
  <1>14. CASE WaitBusy(c)
    BY <1>14 DEF WaitBusy, GoTo, clientVars, workerVars, reclaimVars, vars, TypeInv, TypeOK, TokenLeft, SpareTokens, Located, Running, Locked, Holding
  <1>15. CASE WaitExit(c)
    BY <1>15 DEF WaitExit, GoTo, Finish, clientVars, workerVars, reclaimVars, vars, TypeInv, TypeOK, TokenLeft, SpareTokens, Located, Running, Locked, Holding
  <1>16. CASE Request(c)
    BY <1>16 DEF Request, GoTo, clientVars, workerVars, reclaimVars, vars, TypeInv, TypeOK, TokenLeft, SpareTokens, Located, Running, Locked, Holding
  <1>17. CASE CheckoutExisting(c)
    <2>1. PICK w \in todo[c] : CheckoutExisting(c)!2!(w)
      BY <1>17 DEF CheckoutExisting
    <2> w \in Workers
      BY DEF TypeInv, TypeOK
    <2>2. CASE CheckoutExisting(c)!2!(w)!2!1
      <3>1. Checkout(state[w], c) \in WorkerState
        BY CheckoutType DEF TypeInv, TypeOK
      <3>2. SetWorker(w, Checkout(state[w], c)) /\ Take(c, w) /\ Unlock(c)
        BY <2>2
      <3>3. /\ lock' \in [Routes -> Clients \cup {None}]
            /\ state' \in [Workers -> WorkerState]
            /\ TokenLeft'
        BY <3>1, <3>2, SetWorkerType, UnlockType
      <3> QED
        BY <1>17, <3>2, <3>3
        DEF CheckoutExisting, SetWorker, Take, GoTo, clientVars, workerVars, reclaimVars, vars, TypeInv, TypeOK, Located, Running, Locked, Holding
    <2>3. CASE CheckoutExisting(c)!2!(w)!2!2
      BY <1>17, <2>3 DEF CheckoutExisting, clientVars, workerVars, reclaimVars, vars, TypeInv, TypeOK, TokenLeft, SpareTokens, Located
    <2> QED BY <2>1, <2>2, <2>3
  <1>18. CASE CheckoutTimeout(c)
    BY <1>18 DEF CheckoutTimeout, clientVars, workerVars, reclaimVars, vars, TypeInv, TypeOK, TokenLeft, SpareTokens, Located
  <1>19. ASSUME Spawn(c) PROVE TypeInv'
    BY <1>19 DEF Spawn, GoTo, Unlock, FreePids, clientVars, workerVars, reclaimVars, vars, TypeInv, TypeOK, TokenLeft, SpareTokens, Located, Running, Locked, Holding, Live
  <1>20. CASE StartWorker(c) \/ RestartWorker(c)
    BY <1>20, <1>19 DEF StartWorker, RestartWorker
  <1>21. CASE WaitCheckout(c)
    <2>1. target[c] \in Workers
      BY <1>21 DEF WaitCheckout, TypeInv, Located
    <2>2. Checkout(state[target[c]], c) \in WorkerState
      BY <2>1, CheckoutType DEF TypeInv, TypeOK
    <2> QED
      BY <1>21, <2>1, <2>2, SetWorkerType
      DEF WaitCheckout, SetWorker, Take, GoTo, clientVars, workerVars, reclaimVars, vars, TypeInv, TypeOK, Located, Running, Locked, Holding
  <1> QED
    BY <1>1, <1>2, <1>3, <1>4, <1>5, <1>6, <1>7, <1>8, <1>9, <1>10, <1>11, <1>12, <1>13, <1>14, <1>15, <1>16, <1>17, <1>18, <1>20, <1>21
    DEF Acquire

LEMMA UseType ==
  ASSUME TypeInv, NEW c \in Clients, Use(c)
  PROVE  TypeInv'
  <1> DEFINE w == conn[c]
  <1>w. w \in Workers /\ state[w] \in WorkerState
    BY DEF Use, RegisterStream, FinishStream, ReleaseConn, ReleaseStream, CancelStream,
           DiscardConn, DropResponse, TypeInv, TypeOK, Located, Holding
  <1>t. FreshToken(w) \in Tokens
    BY <1>w, FreshTokenType DEF TypeInv
  <1>1. CASE RegisterStream(c)
    <2>1. PICK s \in Streams : RegisterStream(c)!2!(s)
      BY <1>1 DEF RegisterStream, FreshStreams
    <2>2. PutStream(state[w], c, s) \in WorkerState
      BY <1>w, PutStreamType
    <2>3. CASE Reachable(w)
      BY <1>1, <1>w, <2>1, <2>2, <2>3, SetWorkerType
      DEF RegisterStream, SetWorker, GoTo, clientVars, workerVars, reclaimVars, vars, TypeInv, TypeOK, Located, Running, Locked, Holding
    <2>4. CASE ~Reachable(w)
      BY <1>1, <1>w, <2>1, <2>4
      DEF RegisterStream, GoTo, clientVars, workerVars, reclaimVars, vars, TypeInv, TypeOK, TokenLeft, SpareTokens, Located, Running, Locked, Holding
    <2> QED BY <2>3, <2>4
  <1>2. CASE FinishStream(c)
    <2>1. DropStream(state[w], c, stream[c]) \in WorkerState
      BY <1>w, DropStreamType
    <2>2. CASE Reachable(w)
      BY <1>2, <1>w, <2>1, <2>2, SetWorkerType
      DEF FinishStream, SetWorker, GoTo, clientVars, workerVars, reclaimVars, vars, TypeInv, TypeOK, Located, Running, Locked, Holding
    <2>3. CASE ~Reachable(w)
      BY <1>2, <1>w, <2>3
      DEF FinishStream, GoTo, clientVars, workerVars, reclaimVars, vars, TypeInv, TypeOK, TokenLeft, SpareTokens, Located, Running, Locked, Holding
    <2> QED BY <2>2, <2>3
  <1>3. ASSUME EndRequest(c), children' = children \/ children' = children \ {w},
               \/ UNCHANGED <<status, state, fired, late>>
               \/ EndWorker(w)
               \/ \E st \in WorkerState : SetWorker(w, st)
        PROVE  TypeInv'
    <2>1. /\ status' \in [Workers -> Live \cup {"dead"}]
          /\ state' \in [Workers -> WorkerState]
          /\ fired' \in [Workers -> SUBSET Tokens]
          /\ late' \in SUBSET (Clients \X Workers)
          /\ TokenLeft'
      BY <1>3, <1>w, EndWorkerType, SetWorkerType DEF TypeInv, TypeOK, TokenLeft, SpareTokens
    <2>2. \A v \in Workers : status'[v] = status[v] \/ status'[v] = "dead"
      BY <1>3, <1>w DEF EndWorker, SetWorker, TypeInv, TypeOK
    <2> QED
      BY <1>3, <1>w, <2>1, <2>2
      DEF EndRequest, Finish, GoTo, clientVars, workerVars, reclaimVars, vars, TypeInv, TypeOK, Located, Running, Locked, Holding
  <1>4. CASE ReleaseConn(c)
    <2>1. RemoveClient(state[w], c, FALSE, FreshToken(w)) \in WorkerState
      BY <1>w, <1>t, RemoveClientType
    <2> QED BY <1>3, <1>4, <2>1 DEF ReleaseConn
  <1>5. CASE ReleaseStream(c) \/ CancelStream(c)
    <2>1. RemoveClient(DropStream(state[w], c, stream[c]), c, FALSE, FreshToken(w)) \in WorkerState
      BY <1>w, <1>t, DropStreamType, RemoveClientType
    <2> QED BY <1>3, <1>5, <2>1 DEF ReleaseStream, CancelStream
  <1>6. CASE DiscardConn(c)
    BY <1>3, <1>6 DEF DiscardConn
  <1>7. CASE DropResponse(c)
    BY <1>7
    DEF DropResponse, Finish, GoTo, clientVars, workerVars, reclaimVars, vars, TypeInv, TypeOK, TokenLeft, SpareTokens, Located, Running, Locked, Holding
  <1> QED
    BY <1>1, <1>2, <1>4, <1>5, <1>6, <1>7 DEF Use

LEMMA CrashType ==
  ASSUME TypeInv, NEW c \in Clients, Crash(c) \/ Respawn(c)
  PROVE  TypeInv'
  <1>1. CASE Crash(c)
    <2>1. lock' \in [Routes -> Clients \cup {None}]
      BY <1>1, UnlockType DEF Crash
    <2> QED BY <1>1, <2>1 DEF Crash, GoTo, clientVars, workerVars, reclaimVars, vars, TypeInv, TypeOK, TokenLeft, SpareTokens, Located, Running, Locked, Holding
  <1>2. CASE Respawn(c)
    BY <1>2 DEF Respawn, GoTo, clientVars, workerVars, reclaimVars, vars, TypeInv, TypeOK, TokenLeft, SpareTokens, Located, Running, Locked, Holding
  <1> QED BY <1>1, <1>2

LEMMA WorkerStepType ==
  ASSUME TypeInv, NEW w \in Workers, WorkerStep(w)
  PROVE  TypeInv'
  <1>w. state[w] \in WorkerState
    BY DEF TypeInv, TypeOK
  <1>t. FreshToken(w) \in Tokens
    BY FreshTokenType DEF TypeInv
  <1>e. ASSUME EndWorker(w), UNCHANGED <<clientVars, lock, reg, children, reclaimVars>>,
               key' \in [Workers -> Routes \cup {None}],
               owner' = owner \/ owner' = [owner EXCEPT ![w] = None]
        PROVE  TypeInv'
    BY <1>e, EndWorkerType DEF EndWorker, clientVars, workerVars, reclaimVars, vars, TypeInv, TypeOK, Located, Running, Locked, Holding
  <1>s. ASSUME NEW st \in WorkerState, SetWorker(w, st),
               UNCHANGED <<clientVars, lock, key, owner, reg, children, reclaimVars>>
        PROVE  TypeInv'
    BY <1>s, SetWorkerType DEF SetWorker, clientVars, workerVars, reclaimVars, vars, TypeInv, TypeOK, Located, Running, Locked, Holding
  <1>1. CASE OpenConn(w)
    BY <1>1 DEF OpenConn, clientVars, workerVars, reclaimVars, vars, TypeInv, TypeOK, TokenLeft, SpareTokens, Located, Live
  <1>2. CASE RegisterConn(w)
    <2>1. owner[w] \in Clients
      BY <1>2 DEF RegisterConn, TypeInv, Located
    <2>2. PICK p \in OpenProtocols : state' = [state EXCEPT ![w] = Connected(owner[w], p)]
      BY <1>2 DEF RegisterConn
    <2>3. state' \in [Workers -> WorkerState]
      BY <2>1, <2>2, OpenProtocolsAssumption, ConnectedType DEF TypeInv, TypeOK
    <2> QED
      BY <1>2, <2>1, <2>3 DEF RegisterConn, clientVars, workerVars, reclaimVars, vars, TypeInv, TypeOK, TokenLeft, SpareTokens, Located, Live
  <1>3. CASE OpenFails(w)
    BY <1>3, <1>e DEF OpenFails, TypeInv, TypeOK
  <1>4. CASE TimerFires(w)
    BY <1>4 DEF TimerFires, clientVars, workerVars, reclaimVars, vars, TypeInv, TypeOK, TokenLeft, SpareTokens, Located
  <1>5. CASE IdleClose(w)
    <2>1. PICK t \in fired[w] : IdleClose(w)!2!(t)
      BY <1>5 DEF IdleClose
    <2>2. CASE IdleExpired(state[w], t)
      BY <1>5, <1>e, <2>1, <2>2 DEF IdleClose, TypeInv, TypeOK
    <2>3. CASE ~IdleExpired(state[w], t)
      BY <1>5, <2>1, <2>3 DEF IdleClose, clientVars, workerVars, reclaimVars, vars, TypeInv, TypeOK, TokenLeft, SpareTokens, Located
    <2> QED BY <2>2, <2>3
  <1>6. CASE ClientDown(w)
    <2>1. PICK c \in LeaseHolders(state[w]) : ClientDown(w)!2!(c)
      BY <1>6 DEF ClientDown
    <2>2. RemoveClient(state[w], c, TRUE, FreshToken(w)) \in WorkerState
      BY <1>w, <1>t, RemoveClientType DEF LeaseHolders
    <2>3. CASE MustStop(state[w], c)
      BY <1>6, <1>e, <2>1, <2>3 DEF ClientDown, TypeInv, TypeOK
    <2>4. CASE ~MustStop(state[w], c)
      BY <1>6, <1>s, <2>1, <2>2, <2>4 DEF ClientDown
    <2> QED BY <2>3, <2>4
  <1>7. CASE ConnLost(w)
    BY <1>7, <1>e DEF ConnLost, TypeInv, TypeOK
  <1>8. CASE GunUp(w)
    <2>1. PICK p \in OpenProtocols : SetWorker(w, [state[w] EXCEPT !.protocol = p])
      BY <1>8 DEF GunUp
    <2>2. [state[w] EXCEPT !.protocol = p] \in WorkerState
      BY <1>w, OpenProtocolsAssumption DEF WorkerState
    <2> QED BY <1>8, <1>s, <2>1, <2>2 DEF GunUp
  <1>9. CASE LateCheckout(w)
    <2>1. PICK c \in Clients : LateCheckout(w)!2!(c)
      BY <1>9 DEF LateCheckout
    <2>2. Checkout(state[w], c) \in WorkerState
      BY <1>w, CheckoutType
    <2>3. state' \in [Workers -> WorkerState]
      BY <2>1, <2>2 DEF TypeInv, TypeOK
    <2> QED
      BY <1>9, <2>1, <2>3 DEF LateCheckout, clientVars, workerVars, reclaimVars, vars, TypeInv, TypeOK, TokenLeft, SpareTokens, Located
  <1>10. CASE Unregister(w)
    BY <1>10 DEF Unregister, clientVars, workerVars, reclaimVars, vars, TypeInv, TypeOK, TokenLeft, SpareTokens, Located
  <1>11. CASE Reap(w)
    BY <1>11 DEF Reap, clientVars, workerVars, reclaimVars, vars, TypeInv, TypeOK, TokenLeft, SpareTokens, Located
  <1> QED
    BY <1>1, <1>2, <1>3, <1>4, <1>5, <1>6, <1>7, <1>8, <1>9, <1>10, <1>11 DEF WorkerStep

LEMMA ReclaimerStepType ==
  ASSUME TypeInv, ReclaimerStep
  PROVE  TypeInv'
  <1>1. CASE SelectWorkers
    BY <1>1 DEF SelectWorkers, clientVars, workerVars, reclaimVars, vars, TypeInv, TypeOK, TokenLeft, SpareTokens, Located
  <1>2. CASE ReclaimInfo
    BY <1>2 DEF ReclaimInfo, clientVars, workerVars, reclaimVars, vars, TypeInv, TypeOK, TokenLeft, SpareTokens, Located
  <1>3. CASE NothingUnused \/ ReclaimDone
    BY <1>3, LimitAssumption DEF NothingUnused, ReclaimDone, ReclaimerExit, clientVars, workerVars, reclaimVars, vars, TypeInv, TypeOK, TokenLeft, SpareTokens, Located
  <1>4. CASE SomeUnused
    BY <1>4 DEF SomeUnused, clientVars, workerVars, reclaimVars, vars, TypeInv, TypeOK, TokenLeft, SpareTokens, Located
  <1>5. CASE Reclaim
    <2>1. PICK w \in unused : Reclaim!2!(w)
      BY <1>5 DEF Reclaim
    <2>w. w \in Workers /\ unused' \in SUBSET Workers
      BY <2>1 DEF TypeInv, TypeOK
    <2>2. CASE status[w] = "up" /\ Reclaimable(state[w])
      <3>1. reclaimed' \in 0..ReclaimMax
        BY <1>5, <2>1, <2>2, LimitAssumption DEF Reclaim, MayReclaim, TypeInv, TypeOK
      <3>2. \A v \in Workers : status'[v] = status[v] \/ status'[v] = "dead"
        BY <2>1, <2>2, <2>w DEF EndWorker, TypeInv, TypeOK
      <3> QED
        BY <1>5, <2>1, <2>2, <2>w, <3>1, <3>2, EndWorkerType
        DEF Reclaim, clientVars, workerVars, reclaimVars, vars, TypeInv, TypeOK, Located
    <2>3. CASE ~(status[w] = "up" /\ Reclaimable(state[w]))
      BY <1>5, <2>1, <2>w, <2>3 DEF Reclaim, clientVars, workerVars, reclaimVars, vars, TypeInv, TypeOK, TokenLeft, SpareTokens, Located
    <2> QED BY <2>2, <2>3
  <1> QED
    BY <1>1, <1>2, <1>3, <1>4, <1>5 DEF ReclaimerStep

LEMMA NextTypeInv == TypeInv /\ [Next]_vars => TypeInv'
  <1> SUFFICES ASSUME TypeInv, [Next]_vars PROVE TypeInv'
    OBVIOUS
  <1>1. CASE UNCHANGED vars
    BY <1>1 DEF clientVars, workerVars, reclaimVars, vars, TypeInv, TypeOK, TokenLeft, SpareTokens, Located
  <1> QED
    BY <1>1, AcquireType, UseType, CrashType, WorkerStepType, ReclaimerStepType DEF Next

\* Every variable keeps its type: no step of the pool takes it to a state its
\* processes have no clause for.
THEOREM TypeCorrect == Spec => []TypeOK
  <1>1. TypeInv => TypeOK
    BY DEF TypeInv
  <1> QED
    BY <1>1, InitTypeInv, NextTypeInv, PTL DEF Spec
=============================================================================
