-------------------------- MODULE MCCanonicalControl --------------------------
(* Small instances of CanonicalControl for TLC. *)
EXTENDS CanonicalControl, TLC

\* Action identities are interchangeable.
Symmetry == Permutations(Actions)
================================================================================
