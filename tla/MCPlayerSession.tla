-------------------------- MODULE MCPlayerSession --------------------------
(* Small instances of PlayerSession. *)
EXTENDS PlayerSession, TLC

\* Indices are interchangeable, and so are addresses: the model never compares
\* them except for equality.
Symmetry == Permutations(Players) \cup Permutations(Addrs)
=============================================================================
