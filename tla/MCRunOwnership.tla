-------------------------- MODULE MCRunOwnership --------------------------
(* RunOwnership for TLC.  Runs and replicas are interchangeable; the       *)
(* symmetry is used where no temporal property is checked.                 *)
EXTENDS RunOwnership, TLC

Symmetry == Permutations(Runs) \cup Permutations(Replicas)
===========================================================================
