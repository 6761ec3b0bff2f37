------------------------------ MODULE SlotPool ------------------------------
(***************************************************************************)
(* What the run semaphore promises about global slots, without its queues, *)
(* channels and counters: a pool of `cap' slots that its clients take, wait *)
(* for and give back.  A slot is only ever taken while fewer than cap are  *)
(* held, a client joins the wait only when no slot is free, and a client    *)
(* that does not wait takes a slot only when nobody waits.  The cap may be *)
(* changed at any time; lowering it takes no slot away.                    *)
(***************************************************************************)
EXTENDS Naturals, FiniteSets

CONSTANTS Clients, Caps

VARIABLES cap, holders, waiters

poolVars == <<cap, holders, waiters>>

PoolInit == cap \in Caps /\ holders = {} /\ waiters = {}

FreeSlot == Cardinality(holders) < cap

Take(c) == /\ FreeSlot /\ waiters = {} /\ c \notin holders
           /\ holders' = holders \cup {c}
           /\ UNCHANGED <<cap, waiters>>

Queue(c) == /\ ~FreeSlot /\ c \notin holders \cup waiters
            /\ waiters' = waiters \cup {c}
            /\ UNCHANGED <<cap, holders>>

Grant(c) == /\ FreeSlot /\ c \in waiters
            /\ waiters' = waiters \ {c}
            /\ holders' = holders \cup {c}
            /\ UNCHANGED cap

Withdraw(c) == /\ c \in waiters
               /\ waiters' = waiters \ {c}
               /\ UNCHANGED <<cap, holders>>

GiveBack(c) == /\ c \in holders
               /\ holders' = holders \ {c}
               /\ UNCHANGED <<cap, waiters>>

Resize == cap' \in Caps /\ UNCHANGED <<holders, waiters>>

PoolNext ==
    \/ Resize
    \/ \E c \in Clients : Take(c) \/ Queue(c) \/ Grant(c) \/ Withdraw(c) \/ GiveBack(c)

PoolSpec == PoolInit /\ [][PoolNext]_poolVars
=============================================================================
