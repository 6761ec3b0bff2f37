----------------------------- MODULE MCLaneGate -----------------------------
(* LaneGate for TLC. *)
EXTENDS LaneGate

CONSTANTS c1, c2, c3, run1, alice

Turn(o) == [owner |-> o, user |-> alice, model |-> NoModel, noLease |-> FALSE,
            background |-> FALSE, bound |-> -1]
Side(o) == [Turn(o) EXCEPT !.noLease = TRUE]

\* A run that lends, and two that hold their run slot while they wait.
MCInfos == [c \in Calls |-> CASE c = c1 -> {Turn(run1), Side(run1)}
                              [] c = c2 -> {Side(NoOwner)}
                              [] c = c3 -> {Side(NoOwner)}]
MCLanes == {[max |-> 1, quantum |-> 1, hold |-> TRUE, share |-> 0, caps |-> [m \in {} |-> 0]]}
MCNameOf == [m \in Models |-> m]
=============================================================================
