--------------------------- MODULE MCPauseCluster ---------------------------
(* PauseCluster for TLC. *)
EXTENDS PauseCluster, TLC

PauseSymmetry == Permutations(Runs)
=============================================================================
