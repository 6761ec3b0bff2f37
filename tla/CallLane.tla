------------------------------ MODULE CallLane ------------------------------
(***************************************************************************)
(* One call lane: internal/concurrency/lane.go.  It caps the model calls   *)
(* in flight for one (provider, kind) and keeps a finished call's slot     *)
(* reserved for its run for a while (a lease).                             *)
(*                                                                         *)
(* Every critical section of Lane.mu is one action.  dispatch, the loop a  *)
(* critical section ends with, is stepped one grant at a time: mu says     *)
(* that its holder is in the loop, and no other critical section begins    *)
(* until it is done.  acquire may run the loop and then go on: the caller   *)
(* is "entering" meanwhile.                                                *)
(*                                                                         *)
(* Time is abstracted: HoldRunsOut lets a reservation's deadline pass and  *)
(* the timer fire, and Expire is what the fired timer runs, as late as the *)
(* scheduler likes.  The lease objects of one owner are told apart by      *)
(* their slot, which no second object can have while a call is on it.      *)
(* The statistics counters (grants, preemptions) and the reported queue    *)
(* position are left out.                                                  *)
(*                                                                         *)
(* The module declares the lane and its operations; CallScheduler and      *)
(* LaneGate put callers around it.                                         *)
(***************************************************************************)
EXTENDS CallInfo

CONSTANTS
    LaneConfigs,  \* the LaneConfigs the lane is given over reloads
    ShareUnit,    \* background shares are multiples of 1 / ShareUnit
    MaxUsed       \* used is counted up to here, at least every QuantumCalls

Classes == {"fg", "bg"}

\* A LaneConfig; caps is its ModelCaps, hold is AffinityHold > 0.
IsConfig(c) ==
    /\ c = [max |-> c.max, quantum |-> c.quantum, hold |-> c.hold, share |-> c.share,
            caps |-> c.caps]
    /\ c.max \in Int /\ c.quantum \in Int /\ c.hold \in BOOLEAN /\ c.share \in Int
    /\ DOMAIN c.caps \subseteq Models /\ c.caps \in [DOMAIN c.caps -> Int]

ASSUME LaneConfigsType == LaneConfigs # {} /\ \A c \in LaneConfigs : IsConfig(c)
ASSUME ShareUnitType == ShareUnit \in Nat \ {0}
ASSUME MaxUsedType == MaxUsed \in Nat \ {0} /\ \A c \in LaneConfigs : c.quantum <= MaxUsed

VARIABLES
    cfg,          \* the configuration in force, normalised
    active,       \* calls in flight
    reserved,     \* idle leases
    modelActive,  \* calls in flight per model identity
    lease,        \* each owner's lease: none, busy (its call in flight) or idle
    leaseSlot,    \* ... its slot number
    used,         \* ... the consecutive calls made on it
    due,          \* owners whose reservation has run out
    fired,        \* owners whose expiry timer has fired and not yet run
    inUse,        \* slot numbers taken, busy or reserved
    buckets,      \* laneQueue.buckets of each class: each user's FIFO
    ring,         \* laneQueue.ring: the users with a waiter, in turn order
    ownerQueued,  \* queued waiters per owner
    bgCredit,     \* the background class's saved-up share, in 1 / ShareUnit
    at,           \* where each caller is in the lane
    slot,         \* the slot its call runs on
    onLease,      \* calls that run on a lease object
    mu            \* "free", or "dispatch" while the loop runs

queueVars == <<buckets, ring, ownerQueued>>
leaseVars == <<lease, leaseSlot, used, due>>
laneVars == <<cfg, active, reserved, modelActive, leaseVars, fired, inUse,
              queueVars, bgCredit, at, slot, onLease, mu>>

Phases == {"out", "entering", "queued",
           "granted",   \* handed a slot, not yet woken
           "in"}        \* its call runs

InFlight == {c \in Calls : at[c] \in {"granted", "in"}}
Idle == {o \in Owners : lease[o] = "idle"}
-----------------------------------------------------------------------------
AtLeast(n, low) == IF n < low THEN low ELSE n

Normalized(c) ==
    [max |-> AtLeast(c.max, 1), quantum |-> AtLeast(c.quantum, 0), hold |-> c.hold,
     share |-> IF c.share < 0 THEN 0 ELSE IF c.share > ShareUnit THEN ShareUnit ELSE c.share,
     caps |-> [m \in DOMAIN c.caps |-> AtLeast(c.caps[m], 1)]]

\* capFor: the cap on model m is named by m itself, else by m's name without
\* its context size.  NoModel names no cap.
CapKey(m) == IF m = NoModel \/ m \in DOMAIN cfg.caps THEN m ELSE NameOf[m]
Capped(m) == m # NoModel /\ CapKey(m) \in DOMAIN cfg.caps

\* The calls in flight that the cap named key covers, as `count' has them: the
\* sum of the counts, written as the size of their disjoint union.
ModelInFlight(key, count) ==
    LET covered == {m \in Models : Capped(m) /\ CapKey(m) = key}
    IN  Cardinality(UNION {{m} \X (1 .. count[m]) : m \in covered})

\* Mutant of Blocked: a model's context sizes are counted apart.
BlockedPerIdentity(m, count) ==
    Capped(m) /\ count[m] >= cfg.caps[CapKey(m)]

Blocked(m, count) ==
    Capped(m) /\ ModelInFlight(CapKey(m), count) >= cfg.caps[CapKey(m)]

ModelBlocked(m) == Blocked(m, modelActive)
Eligible(w) == ~ModelBlocked(info[w].model)

FreeSlot == active + reserved < cfg.max

Class(c) == IF info[c].background THEN "bg" ELSE "fg"

WaitersIn(cl) == UNION {ToSet(buckets[cl][u]) : u \in Users}
EligibleIn(cl) == \E w \in WaitersIn(cl) : Eligible(w)
Queued == UNION {WaitersIn(cl) : cl \in Classes}
EligibleQueued == \E w \in Queued : Eligible(w)

HasOwner(c) == info[c].owner # NoOwner

\* The call runs on the lease its owner holds now: Done has not ended it.
HoldsItsLease(c) ==
    /\ c \in onLease /\ lease[info[c].owner] # "none"
    /\ leaseSlot[info[c].owner] = slot[c]
-----------------------------------------------------------------------------
\* Mutant of Counted: calls are counted under the model's plain name.
CountedByName(m, d) == IF m = NoModel THEN modelActive
                       ELSE [modelActive EXCEPT ![NameOf[m]] = AtLeast(@ + d, 0)]

Counted(m, d) == IF m = NoModel THEN modelActive
                 ELSE [modelActive EXCEPT ![m] = AtLeast(@ + d, 0)]

\* laneQueue.push.
Push(w) ==
    LET cl == Class(w)
        u == info[w].user
    IN  /\ buckets' = [buckets EXCEPT ![cl][u] = Append(@, w)]
        /\ ring' = IF buckets[cl][u] = <<>> THEN [ring EXCEPT ![cl] = Append(@, u)]
                   ELSE ring
        /\ ownerQueued' = IF HasOwner(w) THEN [ownerQueued EXCEPT ![info[w].owner] = @ + 1]
                          ELSE ownerQueued

DecOwnerQueued(w) ==
    ownerQueued' = IF HasOwner(w)
                   THEN [ownerQueued EXCEPT ![info[w].owner] = AtLeast(@ - 1, 0)]
                   ELSE ownerQueued

\* laneQueue.pop of waiter w, and laneQueue.remove: served, its bucket goes to
\* the back of the ring; withdrawn, the bucket keeps its place.
TakeOut(w, served) ==
    LET cl == Class(w)
        u == info[w].user
        rest == RemoveFirst(buckets[cl][u], w)
    IN  /\ buckets' = [buckets EXCEPT ![cl][u] = rest]
        /\ ring' = [ring EXCEPT ![cl] =
                      IF rest = <<>> THEN RemoveFirst(@, u)
                      ELSE IF served THEN Append(RemoveFirst(@, u), u) ELSE @]
        /\ DecOwnerQueued(w)

\* The waiter laneQueue.pop finds in class cl: the oldest eligible one of the
\* first bucket, in turn order, that has one.
Pops(cl, w) ==
    \E i \in DOMAIN ring[cl] :
        LET b(k) == buckets[cl][ring[cl][k]]
        IN  /\ \A k \in 1 .. i - 1 : \A v \in ToSet(b(k)) : ~Eligible(v)
            /\ \E j \in DOMAIN b(i) :
                  /\ b(i)[j] = w /\ Eligible(w)
                  /\ \A k \in 1 .. j - 1 : ~Eligible(b(i)[k])

\* next: foreground first, and background whenever it has saved up a whole
\* grant while both classes waited.
NextWaiter(w) ==
    LET both == EligibleIn("fg") /\ EligibleIn("bg")
        credit == IF both THEN bgCredit + cfg.share ELSE bgCredit
        bgTurn == both /\ cfg.share > 0 /\ credit >= ShareUnit
    IN  /\ bgCredit' = IF bgTurn THEN credit - ShareUnit ELSE credit
        /\ IF EligibleIn("fg") /\ ~bgTurn THEN Pops("fg", w) ELSE Pops("bg", w)

\* Mutant of LowestFree: always a number past the ones in use.
NumberOfTaken == Cardinality(inUse)

\* takeSlot: the lowest free number.
LowestFree == CHOOSE s \in 0 .. Cardinality(inUse) :
                 s \notin inUse /\ \A t \in 0 .. s - 1 : t \in inUse

StartsLease(c) == /\ HasOwner(c) /\ ~info[c].noLease /\ cfg.hold
                  /\ lease[info[c].owner] = "none"

\* grant, on a slot known to be free.
Grant(c) ==
    LET o == info[c].owner
    IN  /\ active' = active + 1 /\ modelActive' = Counted(info[c].model, 1)
        /\ inUse' = inUse \cup {LowestFree}
        /\ slot' = [slot EXCEPT ![c] = LowestFree]
        /\ IF StartsLease(c)
           THEN /\ lease' = [lease EXCEPT ![o] = "busy"]
                /\ leaseSlot' = [leaseSlot EXCEPT ![o] = LowestFree]
                /\ used' = [used EXCEPT ![o] = 1]
                /\ due' = due \ {o}
                /\ onLease' = onLease \cup {c}
           ELSE UNCHANGED <<leaseVars, onLease>>

\* The leases of D end; deleted from the map.
EndLeases(D) ==
    /\ lease' = [o \in Owners |-> IF o \in D THEN "none" ELSE lease[o]]
    /\ leaseSlot' = [o \in Owners |-> IF o \in D THEN 0 ELSE leaseSlot[o]]
    /\ used' = [o \in Owners |-> IF o \in D THEN 0 ELSE used[o]]
    /\ due' = due \ D

\* dropIdle of every owner in D.  A timer that has fired already runs all the
\* same: timer.Stop does not undo it.
DropIdle(D) ==
    /\ EndLeases(D)
    /\ reserved' = reserved - Cardinality(D)
    /\ inUse' = inUse \ {leaseSlot[o] : o \in D}
-----------------------------------------------------------------------------
LaneInit ==
    /\ cfg \in {Normalized(c) : c \in LaneConfigs}
    /\ active = 0 /\ reserved = 0 /\ bgCredit = 0
    /\ modelActive = [m \in Models |-> 0]
    /\ lease = [o \in Owners |-> "none"]
    /\ leaseSlot = [o \in Owners |-> 0]
    /\ used = [o \in Owners |-> 0]
    /\ due = {} /\ fired = {} /\ inUse = {}
    /\ buckets = [cl \in Classes |-> [u \in Users |-> <<>>]]
    /\ ring = [cl \in Classes |-> <<>>]
    /\ ownerQueued = [o \in Owners |-> 0]
    /\ at = [c \in Calls |-> "out"]
    /\ slot = [c \in Calls |-> 0]
    /\ onLease = {}
    /\ mu = "free"

\* Mutant of ReservationGoes: a side call leaves its run's reservation alone.
TurnReservationGoes(c) ==
    /\ ~info[c].noLease
    /\ \/ ModelBlocked(info[c].model)
       \/ /\ cfg.quantum > 0 /\ used[info[c].owner] >= cfg.quantum
          /\ EligibleQueued

\* acquire finds an idle lease of its owner that it must give up first.
ReservationGoes(c) ==
    IF info[c].noLease
    THEN ~info[c].background /\ (~FreeSlot \/ ModelBlocked(info[c].model))
    ELSE \/ ModelBlocked(info[c].model)
         \/ /\ cfg.quantum > 0 /\ used[info[c].owner] >= cfg.quantum
            /\ EligibleQueued

OwnerIdle(c) == HasOwner(c) /\ lease[info[c].owner] = "idle"

\* acquire, back inside its hold: its own slot, ahead of the queue.
AcquireLeased(c) ==
    LET o == info[c].owner
    IN  /\ mu = "free" /\ at[c] = "out" /\ OwnerIdle(c)
        /\ ~info[c].noLease /\ ~ReservationGoes(c)
        /\ lease' = [lease EXCEPT ![o] = "busy"]
        /\ used' = [used EXCEPT ![o] = IF @ < MaxUsed THEN @ + 1 ELSE @]
        /\ due' = due \ {o}
        /\ reserved' = reserved - 1 /\ active' = active + 1
        /\ modelActive' = Counted(info[c].model, 1)
        /\ slot' = [slot EXCEPT ![c] = leaseSlot[o]]
        /\ onLease' = onLease \cup {c}
        /\ at' = [at EXCEPT ![c] = "in"]
        /\ UNCHANGED <<cfg, leaseSlot, fired, inUse, queueVars, bgCredit, mu>>

\* acquire, its reservation goes to the next waiter; it goes on in AcquireSlot.
AcquireYield(c) ==
    /\ mu = "free" /\ at[c] = "out" /\ OwnerIdle(c) /\ ReservationGoes(c)
    /\ DropIdle({info[c].owner})
    /\ at' = [at EXCEPT ![c] = "entering"]
    /\ mu' = "dispatch"
    /\ UNCHANGED <<cfg, active, modelActive, fired, queueVars, bgCredit, slot, onLease>>

LoopDone == ~FreeSlot \/ ~EligibleQueued

\* acquire from the free-slot test on: a slot, a refusal, or a place in the
\* queue.
AcquireSlot(c) ==
    /\ \/ /\ mu = "free" /\ at[c] = "out"
          /\ OwnerIdle(c) => info[c].noLease /\ ~ReservationGoes(c)
       \/ mu = "dispatch" /\ at[c] = "entering" /\ LoopDone
    /\ mu' = "free"
    /\ \/ /\ FreeSlot /\ ~ModelBlocked(info[c].model)
          /\ Grant(c)
          /\ at' = [at EXCEPT ![c] = "in"]
          /\ UNCHANGED queueVars
       \/ /\ ~FreeSlot \/ ModelBlocked(info[c].model)
          /\ info[c].bound >= 0 /\ Cardinality(Queued) >= info[c].bound
          /\ at' = [at EXCEPT ![c] = "out"]
          /\ UNCHANGED <<active, modelActive, leaseVars, inUse, queueVars, slot, onLease>>
       \/ /\ ~FreeSlot \/ ModelBlocked(info[c].model)
          /\ info[c].bound >= 0 => Cardinality(Queued) < info[c].bound
          /\ Push(c)
          /\ at' = [at EXCEPT ![c] = "queued"]
          /\ UNCHANGED <<active, modelActive, leaseVars, inUse, slot, onLease>>
    /\ UNCHANGED <<cfg, reserved, fired, bgCredit>>

\* One grant of dispatch.
DispatchOne ==
    /\ mu = "dispatch" /\ FreeSlot
    /\ \E w \in Queued :
         /\ NextWaiter(w)
         /\ TakeOut(w, TRUE) /\ Grant(w)
         /\ at' = [at EXCEPT ![w] = "granted"]
    /\ UNCHANGED <<cfg, reserved, fired, mu>>

\* The loop ends, and the critical section with it.
DispatchEnd ==
    /\ mu = "dispatch" /\ LoopDone /\ \A c \in Calls : at[c] # "entering"
    /\ mu' = "free"
    /\ UNCHANGED <<cfg, active, reserved, modelActive, leaseVars, fired, inUse,
                   queueVars, bgCredit, at, slot, onLease>>

\* A granted waiter sees its channel closed.
Wake(c) == /\ at[c] = "granted"
           /\ at' = [at EXCEPT ![c] = "in"]
           /\ UNCHANGED <<cfg, active, reserved, modelActive, leaseVars, fired,
                          inUse, queueVars, bgCredit, slot, onLease, mu>>

\* ctx ends while it is queued.
Withdraw(c) ==
    /\ mu = "free" /\ at[c] = "queued"
    /\ TakeOut(c, FALSE)
    /\ at' = [at EXCEPT ![c] = "out"]
    /\ UNCHANGED <<cfg, active, reserved, modelActive, leaseVars, fired, inUse,
                   bgCredit, slot, onLease, mu>>

\* Mutant of ThenDispatch: nobody is served.
NoDispatch == mu' = mu

\* The loop that every change which frees a slot ends with.
ThenDispatch == mu' = "dispatch"

\* Mutant of KeepsLease: the slot's number is not compared with the cap.
KeepsAnyNumber(c, abandoned, count) ==
    LET o == info[c].owner
        spent == /\ cfg.quantum > 0 /\ used[o] >= cfg.quantum
                 /\ \E w \in Queued : ~Blocked(info[w].model, count)
    IN  /\ HoldsItsLease(c)
        /\ ~abandoned /\ cfg.hold /\ active - 1 + reserved < cfg.max
        /\ ownerQueued[o] = 0 /\ ~spent

\* finish keeps the call's slot reserved for its owner's next call; count is
\* modelActive without the call.
KeepsLease(c, abandoned, count) ==
    LET o == info[c].owner
        spent == /\ cfg.quantum > 0 /\ used[o] >= cfg.quantum
                 /\ \E w \in Queued : ~Blocked(info[w].model, count)
    IN  /\ HoldsItsLease(c)
        /\ ~abandoned /\ cfg.hold
        /\ active - 1 + reserved < cfg.max /\ slot[c] < cfg.max
        /\ ownerQueued[o] = 0 /\ ~spent

\* finish and reserve; abandoned is a call that was granted and never made.
Finish(c, abandoned) ==
    LET o == info[c].owner
        count == Counted(info[c].model, -1)
    IN  /\ active' = active - 1 /\ modelActive' = count
        /\ IF KeepsLease(c, abandoned, count)
           THEN /\ lease' = [lease EXCEPT ![o] = "idle"]
                /\ reserved' = reserved + 1
                /\ UNCHANGED <<leaseSlot, used, due, inUse>>
           ELSE /\ EndLeases(IF HoldsItsLease(c) THEN {o} ELSE {})
                /\ inUse' = inUse \ {slot[c]}
                /\ UNCHANGED reserved
        /\ at' = [at EXCEPT ![c] = "out"]
        /\ slot' = [slot EXCEPT ![c] = 0]
        /\ onLease' = onLease \ {c}
        /\ ThenDispatch
        /\ UNCHANGED <<cfg, fired, queueVars, bgCredit>>

Release(c) == mu = "free" /\ at[c] = "in" /\ Finish(c, FALSE)
GiveBack(c) == mu = "free" /\ at[c] = "in" /\ Finish(c, TRUE)

\* ctx ends as the waiter is handed its slot.
Abandon(c) == mu = "free" /\ at[c] = "granted" /\ Finish(c, TRUE)
-----------------------------------------------------------------------------
\* An operation on idle leases: those of D go, and their slots are handed on.
GiveUp(D) ==
    /\ DropIdle(D) /\ ThenDispatch
    /\ UNCHANGED <<active, modelActive, queueVars, bgCredit, at, slot, onLease>>

\* Done: the owner's run has ended.
Done(o) ==
    /\ mu = "free"
    /\ \/ /\ lease[o] = "busy" /\ EndLeases({o})
          /\ UNCHANGED <<active, reserved, modelActive, inUse, queueVars,
                         bgCredit, at, slot, onLease, mu>>
       \/ lease[o] = "idle" /\ GiveUp({o})
    /\ UNCHANGED <<cfg, fired>>

YieldIdle(o) == /\ mu = "free" /\ lease[o] = "idle"
                /\ GiveUp({o})
                /\ UNCHANGED <<cfg, fired>>

\* A reservation's deadline passes, and its timer fires.
HoldRunsOut(o) ==
    /\ lease[o] = "idle" /\ o \notin due
    /\ due' = due \cup {o} /\ fired' = fired \cup {o}
    /\ UNCHANGED <<cfg, active, reserved, modelActive, lease, leaseSlot, used,
                   inUse, queueVars, bgCredit, at, slot, onLease, mu>>

\* Mutant of Expired: the deadline is not looked at.
IdleNow(o) == lease[o] = "idle"

\* The lease the timer was set for is idle still, and its deadline has passed.
Expired(o) == lease[o] = "idle" /\ o \in due

\* expire, run by the timer's goroutine.
Expire(o) ==
    /\ mu = "free" /\ o \in fired
    /\ fired' = fired \ {o}
    /\ IF Expired(o) THEN GiveUp({o})
       ELSE UNCHANGED <<active, reserved, modelActive, leaseVars, inUse,
                        queueVars, bgCredit, at, slot, onLease, mu>>
    /\ UNCHANGED cfg

\* Reconfigure.  First the reservations that cannot stay go, then as many more
\* as the lane is over its new cap, in the order of the map.
Reconfigure(raw) ==
    LET new == Normalized(raw)
        first == {o \in Idle : ~new.hold \/ leaseSlot[o] >= new.max}
        over == active + reserved - Cardinality(first) - new.max
    IN  /\ mu = "free"
        /\ cfg' = new
        /\ \E more \in SUBSET (Idle \ first) :
             /\ IF over <= 0 THEN more = {}
                ELSE Cardinality(more) = over \/ (more = Idle \ first /\ Cardinality(more) < over)
             /\ GiveUp(first \cup more)
        /\ UNCHANGED fired

\* retire: a config reload removed the lane.
Retire ==
    /\ mu = "free"
    /\ cfg' = [cfg EXCEPT !.hold = FALSE]
    /\ GiveUp(Idle)
    /\ UNCHANGED fired
-----------------------------------------------------------------------------
(* What the lane promises, whoever calls it.                               *)

\* No two of the calls in flight and the reservations share a slot number, the
\* numbers marked taken are exactly theirs, and the lane's counters count them.
\* A slot lost or given twice by finish, by the abandoned hand-off, by the
\* expiry timer or by Done would show here.
SlotsExclusive ==
    /\ \A c, d \in InFlight : slot[c] = slot[d] => c = d
    /\ \A o, p \in Idle : leaseSlot[o] = leaseSlot[p] => o = p
    /\ \A c \in InFlight, o \in Idle : slot[c] # leaseSlot[o]
    /\ inUse = {slot[c] : c \in InFlight} \cup {leaseSlot[o] : o \in Idle}
    /\ active = Cardinality(InFlight) /\ reserved = Cardinality(Idle)

\* A reservation never keeps the lane over its cap, nor keeps a slot number a
\* smaller lane no longer has.
ReservationsFit ==
    reserved > 0 => /\ active + reserved <= cfg.max
                    /\ \A o \in Idle : leaseSlot[o] < cfg.max

\* What acquire's free-slot test relies on: with the lock free, a free slot
\* means that no waiter could use it.
NoWaiterBesideFreeSlot == mu = "free" /\ FreeSlot => ~EligibleQueued

\* A run's queued foreground call never waits beside a slot that is held idle
\* for the run itself.
NoSelfBlock ==
    \A c \in Queued : HasOwner(c) /\ lease[info[c].owner] = "idle" => info[c].background
=============================================================================
