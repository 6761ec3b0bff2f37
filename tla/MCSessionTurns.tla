--------------------------- MODULE MCSessionTurns ---------------------------
(* Instances of SessionTurns for TLC.                                      *)
EXTENDS SessionTurns, TLC

CONSTANTS c1, c2, a, b

(* Messages are interchangeable where no temporal property is checked.    *)
MessageSymmetry == Permutations(Messages)

(* Both calls on one replica, or each on its own.                          *)
MCPlacements == {c1 :> a @@ c2 :> a, c1 :> a @@ c2 :> b}

(* On one replica, two messages, or one message and turn cancels, or a     *)
(* failing statement; with the cluster lock, one message and a failing     *)
(* statement or a row past the cutoff.                                     *)
One == {{m} : m \in Messages}
MCSetups ==
  UNION {[clustered : {FALSE}, faults : {0}, cancellers : {{}}, messages : {Messages}],
         [clustered : {FALSE}, faults : {0}, cancellers : {Cancellers}, messages : One],
         [clustered : {TRUE}, faults : {1}, cancellers : {{}}, messages : One],
         [clustered : {FALSE}, faults : {1}, cancellers : {{}}, messages : {{}}]}
=============================================================================
