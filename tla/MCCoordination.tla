---------------------------- MODULE MCCoordination ----------------------------
(* Small instances of Coordination for TLC. *)
EXTENDS Coordination, TLC

CONSTANTS o, w, s1, s2

\* The owner's conversation alone, so that a worker is created for it, or with
\* a worker that exists.
Beginnings == {o :> s1, (o :> s1) @@ (w :> s2)}
================================================================================
