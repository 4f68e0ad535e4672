---------------------------- MODULE MCObjectPool ----------------------------
(* Instances of ObjectPool for TLC. *)
EXTENDS ObjectPool, TLC

\* No definition treats one player differently from another.
Symmetry == Permutations(Players)
=============================================================================
