--------------------------- MODULE MCCallScheduler ---------------------------
(* CallScheduler for TLC. *)
EXTENDS CallScheduler

CONSTANTS c1, c2, c3, run1, run2, alice, bob, m64, m8, name

\* m64 and m8 are one model with two context sizes.
MCNameOf == [m \in Models |-> IF m \in {m64, m8} THEN name ELSE m]

Turn(o, u, m) == [owner |-> o, user |-> u, model |-> m, noLease |-> FALSE,
                  background |-> FALSE, bound |-> -1]
Side(o, u, m) == [Turn(o, u, m) EXCEPT !.noLease = TRUE]
Maintenance(o, u, m) == [Side(o, u, m) EXCEPT !.background = TRUE]
OneShot(u, m, n) == [Turn(NoOwner, u, m) EXCEPT !.bound = n]

Lane(n, q, h, s, caps) == [max |-> n, quantum |-> q, hold |-> h, share |-> s, caps |-> caps]
NoCaps == [m \in {} |-> 0]
Cap(m, n) == [k \in {m} |-> n]
Gate(n, w) == [max |-> n, wait |-> w]

\* Two runs' turns, and a call beside the first run's: a side call or a
\* one-shot request.
MixedInfos ==
    [c \in Calls |->
        CASE c = c1 -> {Turn(run1, alice, m64)}
          [] c = c2 -> {Turn(run2, bob, m8)}
          [] c = c3 -> {Side(run1, alice, m8), OneShot(bob, m64, 1)}]
MixedLanes == {Lane(2, 1, TRUE, 1, Cap(name, 1)), Lane(1, 1, TRUE, 1, NoCaps)}
MixedGates == {Gate(1, TRUE)}

\* Liveness: two models on one place, one lane slot, and background work.
LiveInfos ==
    [c \in Calls |->
        CASE c = c1 -> {Turn(run1, alice, m64)}
          [] c = c2 -> {OneShot(alice, m64, -1)}
          [] c = c3 -> {Maintenance(run1, alice, m8), Maintenance(run1, alice, m64)}]
LiveLanes == {Lane(1, 1, TRUE, 1, NoCaps)}
LiveGates == {Gate(1, TRUE)}
=============================================================================
