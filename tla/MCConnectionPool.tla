-------------------------- MODULE MCConnectionPool --------------------------
(* Model values and symmetry for the TLC runs of ConnectionPool. *)
EXTENDS ConnectionPool, TLC

\* Processes and routes are interchangeable.  Only for runs without liveness,
\* and whose Mortal set is all of Clients or empty.
Symmetric == Permutations(Clients) \cup Permutations(Workers) \cup Permutations(Routes)
=============================================================================
