----------------------------- MODULE LeaseService -----------------------------
(***************************************************************************)
(* What a pool promises to the processes that ask it for connections: a    *)
(* connection of the route they want and no other, open when they get it;  *)
(* one client at a time unless the connection may be shared; theirs until  *)
(* they give it back, so that a pid is not reused while somebody still     *)
(* holds it; and never more open connections than the limit.  How a        *)
(* connection is found, opened, counted and closed is left out:            *)
(* ConnectionPool implements this.                                         *)
(***************************************************************************)
EXTENDS Naturals, FiniteSets

CONSTANTS
    Clients, Routes, Workers,
    MaxConnections,
    Renegotiates,   \* may an open connection change its protocol?
    None            \* no route, no connection

VARIABLES
    wants,      \* the route a client has asked a connection for
    held,       \* the connection a client has been given
    serves,     \* the route of an open connection
    shared      \* the open connections several clients may hold

serviceVars == <<wants, held, serves, shared>>

Opened == {w \in Workers : serves[w] # None}

HeldByNobody(w) == \A c \in Clients : held[c] # w

Waiting(c) == wants[c] # None /\ held[c] = None

ServiceInit ==
    /\ wants = [c \in Clients |-> None]
    /\ held = [c \in Clients |-> None]
    /\ serves = [w \in Workers |-> None]
    /\ shared = {}

Ask(c, k) ==
    /\ wants[c] = None /\ held[c] = None
    /\ wants' = [wants EXCEPT ![c] = k]
    /\ UNCHANGED <<held, serves, shared>>

\* A connection for a client that waits; if that client was killed, for
\* whoever comes next.
Open(w, k) ==
    /\ serves[w] = None /\ HeldByNobody(w)
    /\ Cardinality(Opened) < MaxConnections
    /\ serves' = [serves EXCEPT ![w] = k]
    /\ shared' \in {shared, shared \cup {w}}
    /\ \/ UNCHANGED held
       \/ \E c \in Clients : Waiting(c) /\ wants[c] = k /\ held' = [held EXCEPT ![c] = w]
    /\ UNCHANGED wants

Grant(c, w) ==
    /\ Waiting(c) /\ serves[w] = wants[c]
    /\ w \in shared \/ HeldByNobody(w)
    /\ held' = [held EXCEPT ![c] = w]
    /\ UNCHANGED <<wants, serves, shared>>

\* The connections of S end; those who hold them find out when they use them.
Close(S) ==
    /\ serves' = [w \in Workers |-> IF w \in S THEN None ELSE serves[w]]
    /\ shared' = shared \ S

\* The client is done, gives up or is killed.  It may take its connection
\* with it, and no other.
Return(c) ==
    /\ wants[c] # None
    /\ wants' = [wants EXCEPT ![c] = None]
    /\ held' = [held EXCEPT ![c] = None]
    /\ Close({}) \/ (held[c] # None /\ Close({held[c]}))

\* It is idle, reclaimed, broken, or ended with a client it cannot outlive.
Lose(w) ==
    /\ serves[w] # None /\ Close({w})
    /\ UNCHANGED <<wants, held>>

\* A connection comes back with another protocol.
Switch(w) ==
    /\ Renegotiates /\ serves[w] # None
    /\ shared' \in {shared \ {w}, shared \cup {w}}
    /\ UNCHANGED <<wants, held, serves>>

ServiceNext ==
    \/ \E c \in Clients : \/ Return(c)
                          \/ \E k \in Routes : Ask(c, k)
                          \/ \E w \in Workers : Grant(c, w)
    \/ \E w \in Workers : \/ Lose(w) \/ Switch(w)
                          \/ \E k \in Routes : Open(w, k)

\* Most steps of an implementation change nothing of this, so that is asked first.
ServiceStep == UNCHANGED serviceVars \/ ServiceNext

ServiceSpec == ServiceInit /\ [][ServiceStep]_serviceVars
=============================================================================
