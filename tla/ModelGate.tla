------------------------------ MODULE ModelGate ------------------------------
(***************************************************************************)
(* The cap on the distinct models that compute at once on one provider:    *)
(* internal/concurrency/modelgate.go.                                      *)
(*                                                                         *)
(* Every critical section of ModelGate.mu is one action.  admit, the loop  *)
(* at the end of some of them, is stepped one round at a time while gateMu *)
(* is held.  Time is abstracted: Age lets the oldest waiter that has not   *)
(* yet waited maxWait reach it.                                            *)
(***************************************************************************)
EXTENDS CallInfo

CONSTANT GateLimits   \* the limits set over reloads: [max : Int, wait : BOOLEAN]

ASSUME GateLimitsType == GateLimits \subseteq [max : Int, wait : BOOLEAN] /\ GateLimits # {}

VARIABLES
    limit,     \* the cap (<= 0: off), and whether maxWait > 0
    inFlight,  \* [Models -> Nat]; an absent map entry is 0
    waiters,   \* FIFO of the calls that wait
    aged,      \* the waiters that have waited maxWait
    gate,      \* where each caller is: out, waiting, admitted (not yet woken), in
    gateMu     \* "free", or "admit" while the loop runs

gateVars == <<limit, inFlight, waiters, aged, gate, gateMu>>

ModelsIn == {m \in Models : inFlight[m] > 0}
Model(c) == info[c].model
Uncounted(c) == Model(c) = NoModel \/ limit.max <= 0

\* Mutant of Starving: the models in flight are never run down.
NeverStarving == FALSE

Starving == limit.wait /\ waiters # <<>> /\ Head(waiters) \in aged

\* Mutant of Admissible: one model too many.
AdmissibleLate(m) ==
    IF inFlight[m] > 0 THEN ~Starving
    ELSE waiters = <<>> /\ Cardinality(ModelsIn) <= limit.max

\* A new call may go ahead of the queue.
Admissible(m) ==
    IF inFlight[m] > 0 THEN ~Starving
    ELSE waiters = <<>> /\ Cardinality(ModelsIn) < limit.max

\* The head of the queue does not fit.
HeadHeld ==
    /\ limit.max > 0 /\ inFlight[Model(Head(waiters))] = 0
    /\ Cardinality(ModelsIn) >= limit.max

\* The members of FIFO s that are not in D, in their order.
Without(s, D) ==
    LET K == {i \in DOMAIN s : s[i] \notin D}
        place(k) == CHOOSE i \in K : Cardinality({j \in K : j <= i}) = k
    IN  [k \in 1 .. Cardinality(K) |-> s[place(k)]]
-----------------------------------------------------------------------------
GateInit ==
    /\ limit \in GateLimits
    /\ inFlight = [m \in Models |-> 0]
    /\ waiters = <<>> /\ aged = {}
    /\ gate = [c \in Calls |-> "out"]
    /\ gateMu = "free"

\* enter of a call the gate does not count.
PassGate(c) == gateMu = "free" /\ gate[c] = "out" /\ Uncounted(c) /\ UNCHANGED gateVars

EnterAtOnce(c) ==
    /\ gateMu = "free" /\ gate[c] = "out" /\ ~Uncounted(c) /\ Admissible(Model(c))
    /\ inFlight' = [inFlight EXCEPT ![Model(c)] = @ + 1]
    /\ gate' = [gate EXCEPT ![c] = "in"]
    /\ UNCHANGED <<limit, waiters, aged, gateMu>>

GateFull(c) == info[c].bound >= 0 /\ Len(waiters) >= info[c].bound

RefusedAtGate(c) ==
    /\ gateMu = "free" /\ gate[c] = "out" /\ ~Uncounted(c) /\ ~Admissible(Model(c))
    /\ GateFull(c) /\ UNCHANGED gateVars

QueueAtGate(c) ==
    /\ gateMu = "free" /\ gate[c] = "out" /\ ~Uncounted(c) /\ ~Admissible(Model(c))
    /\ ~GateFull(c)
    /\ waiters' = Append(waiters, c)
    /\ gate' = [gate EXCEPT ![c] = "waiting"]
    /\ UNCHANGED <<limit, inFlight, aged, gateMu>>

\* One round of admit: the head, with every other waiter for its model.
AdmitRound ==
    LET m == Model(Head(waiters))
        let_in == {w \in ToSet(waiters) : Model(w) = m}
    IN  /\ gateMu = "admit" /\ waiters # <<>> /\ ~HeadHeld
        /\ waiters' = Without(waiters, let_in)
        /\ inFlight' = [inFlight EXCEPT ![m] = @ + Cardinality(let_in)]
        /\ gate' = [c \in Calls |-> IF c \in let_in THEN "admitted" ELSE gate[c]]
        /\ aged' = aged \ let_in
        /\ UNCHANGED <<limit, gateMu>>

AdmitEnd ==
    /\ gateMu = "admit" /\ (waiters # <<>> => HeadHeld)
    /\ gateMu' = "free"
    /\ UNCHANGED <<limit, inFlight, waiters, aged, gate>>

GateWake(c) ==
    /\ gate[c] = "admitted"
    /\ gate' = [gate EXCEPT ![c] = "in"]
    /\ UNCHANGED <<limit, inFlight, waiters, aged, gateMu>>

\* exit: the model is in flight until its last call leaves.
Exit(c) ==
    /\ inFlight' = [inFlight EXCEPT ![Model(c)] = IF @ > 1 THEN @ - 1 ELSE 0]
    /\ gateMu' = IF inFlight[Model(c)] > 1 THEN "free" ELSE "admit"
    /\ gate' = [gate EXCEPT ![c] = "out"]
    /\ UNCHANGED <<limit, waiters, aged>>

LeaveGate(c) == gateMu = "free" /\ gate[c] = "in" /\ Exit(c)

\* ctx ends while it waits, or as it is admitted.
GateCancel(c) ==
    /\ gateMu = "free"
    /\ \/ /\ gate[c] = "waiting"
          /\ waiters' = RemoveFirst(waiters, c)
          /\ aged' = aged \ {c}
          /\ gate' = [gate EXCEPT ![c] = "out"]
          /\ gateMu' = "admit"
          /\ UNCHANGED <<limit, inFlight>>
       \/ gate[c] = "admitted" /\ Exit(c)

SetLimit(lim) ==
    /\ gateMu = "free"
    /\ limit' = lim
    /\ gateMu' = "admit"
    /\ UNCHANGED <<inFlight, waiters, aged, gate>>

\* The oldest waiter that has not yet waited maxWait reaches it.
Age ==
    /\ \E i \in DOMAIN waiters :
         /\ waiters[i] \notin aged
         /\ \A j \in 1 .. i - 1 : waiters[j] \in aged
         /\ aged' = aged \cup {waiters[i]}
    /\ UNCHANGED <<limit, inFlight, waiters, gate, gateMu>>
=============================================================================
