-------------------------------- MODULE Outbox --------------------------------
(***************************************************************************)
(* What the server promises of one post and the deliveries that carry it,  *)
(* whatever becomes of the jobs: a Create leaves only while the post is    *)
(* there, a Delete only once it is gone and was announced; the mark of the *)
(* post is set by a peer that has it, before a delivery counts as settled, *)
(* and what a delete has seen of the mark decides whether it is announced; *)
(* a settled delivery is not made again, unless its job is forgotten.      *)
(* Jobs, attempts, fan-out and cancellation are left out: a delivery may   *)
(* be repeated, or given up, at any time.  PostDelivery implements this.   *)
(***************************************************************************)
CONSTANTS
    Deliveries,
    Creates, Deletes,   \* those that carry the Create, the Delete
    Forgets             \* may a settled delivery be forgotten?

VARIABLES
    life,       \* of the post: "none", "there", "gone"
    flying,     \* deliveries a process is about to send
    landed,     \* those a peer has answered with 2xx
    settled,    \* those that were recorded as done
    marked,     \* some peer has the post, as the row says
    seen,       \* the mark as a delete has loaded it
    announced   \* is there a Delete to be delivered?

outboxVars == <<life, flying, landed, settled, marked, seen, announced>>

OutboxInit ==
    /\ life = "none"
    /\ flying = {} /\ landed = {} /\ settled = {}
    /\ ~marked /\ ~seen /\ ~announced

Publish ==
    /\ life = "none" /\ life' = "there"
    /\ UNCHANGED <<flying, landed, settled, marked, seen, announced>>

Depart(d) ==
    /\ life # "none" /\ d \notin flying
    /\ d \in Creates => life = "there"
    /\ d \in Deletes => life = "gone" /\ announced
    /\ Forgets \/ d \notin settled
    /\ flying' = flying \cup {d}
    /\ UNCHANGED <<life, landed, settled, marked, seen, announced>>

\* It does not arrive, or nobody will know.
Fail(d) ==
    /\ d \in flying /\ flying' = flying \ {d}
    /\ UNCHANGED <<life, landed, settled, marked, seen, announced>>

Land(d) ==
    /\ d \in flying /\ flying' = flying \ {d}
    /\ landed' = landed \cup {d}
    /\ UNCHANGED <<life, settled, marked, seen, announced>>

Mark ==
    /\ life = "there" /\ landed \ Deletes # {}
    /\ marked'
    /\ UNCHANGED <<life, flying, landed, settled, seen, announced>>

Settle(d) ==
    /\ d \in landed
    /\ life = "there" /\ d \notin Deletes => marked
    /\ settled' = settled \cup {d}
    /\ UNCHANGED <<life, flying, landed, marked, seen, announced>>

Look ==
    /\ life = "there" /\ seen' = marked
    /\ UNCHANGED <<life, flying, landed, settled, marked, announced>>

LookAway ==
    /\ life = "there" /\ ~seen'
    /\ UNCHANGED <<life, flying, landed, settled, marked, announced>>

\* The row goes, and its mark with it.
Erase ==
    /\ life = "there" /\ life' = "gone"
    /\ announced' = seen
    /\ ~marked'
    /\ UNCHANGED <<flying, landed, settled, seen>>

\* The server stops: what it was about to do is lost, what is stored is not.
Stop ==
    /\ flying' = {}
    /\ seen' = (seen /\ life = "gone")
    /\ UNCHANGED <<life, landed, settled, marked, announced>>

OutboxNext ==
    \/ Publish \/ Mark \/ Look \/ LookAway \/ Erase \/ Stop
    \/ \E d \in Deliveries : Depart(d) \/ Fail(d) \/ Land(d) \/ Settle(d)

OutboxSpec == OutboxInit /\ [][OutboxNext]_outboxVars
=============================================================================
