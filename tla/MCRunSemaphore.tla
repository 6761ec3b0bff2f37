--------------------------- MODULE MCRunSemaphore ---------------------------
(* RunSemaphore for TLC. *)
EXTENDS RunSemaphore

RunSymmetry == Permutations(Runs)
=============================================================================
