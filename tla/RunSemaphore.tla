---------------------------- MODULE RunSemaphore ----------------------------
(***************************************************************************)
(* The runtime's run semaphore: internal/concurrency/semaphore.go,         *)
(* semqueue.go, admit.go and lend.go, in single-replica mode (no quota     *)
(* store).                                                                 *)
(*                                                                         *)
(* Every critical section of Semaphore.mu is one action.  The two loops    *)
(* that run inside a critical section, wakeNextLocked and wakeUserWaiter,  *)
(* are stepped one iteration at a time: `wakes' is the set of loops the    *)
(* holder of the mutex has still to run, and every other critical section  *)
(* needs wakes = {}, so nothing interleaves with them.  When a critical    *)
(* section runs both kinds of loop they touch disjoint state, so the order *)
(* among them is left open.                                                *)
(*                                                                         *)
(* A member of Runs is one caller: a run, a resumed run or a direct        *)
(* request.  It is idle again once its call failed or its release ran.     *)
(***************************************************************************)
EXTENDS Integers, FiniteSets, SequencesExt

CONSTANTS
    Runs,            \* callers
    Users,           \* the (tenant, user) pairs that name a user
    NoUser,          \* a key with an empty user
    Ops,             \* the entry points that are called
    MaxConcurrents,  \* the values max_concurrent_runs takes over reloads
    MaxQueues,       \* ... max_queue_depth
    MaxPerUsers,     \* ... max_concurrent_runs_per_user (0 = off)
    MaxQueuedPerUsers, \* ... max_queued_runs_per_user
    Global           \* names the wakeNextLocked loop in wakes

Keys == Users \cup {NoUser}

AllOps == {"Admit", "AdmitReject", "AdmitSlot", "AcquireForUser",
           "ReserveUser", "TryAcquire", "Wait", "WaitForUser"}

\* The entry points that read the per-user cap in a critical section of their
\* own, before the one that acts on it.
SnapshotOps == {"Admit", "AdmitReject", "AcquireForUser", "ReserveUser",
                "WaitForUser"}

ASSUME RunsFinite == IsFiniteSet(Runs)
ASSUME NoUserIsNoUser == NoUser \notin Users
ASSUME GlobalIsNoKey == Global \notin Keys
ASSUME OpsKnown == Ops \subseteq AllOps
ASSUME CapsAreNat ==
    /\ MaxConcurrents \subseteq Nat /\ MaxQueues \subseteq Nat
    /\ MaxPerUsers \subseteq Nat /\ MaxQueuedPerUsers \subseteq Nat

VARIABLES
    maxConcurrent, maxQueue, maxPerUser, maxQueuedPerUser,
    active, queued, lent,
    perUser,     \* [Users -> Nat]; an absent map entry is 0
    admitted,    \* FIFO of Wait-ers and reclaiming runs
    buckets,     \* semQueue.buckets: each key's FIFO of new runs; absent = <<>>
    ring,        \* semQueue.ring: the keys with a non-empty bucket, in turn order
    userWait,    \* each user's FIFO of runs over its cap; absent = <<>>
    tokens,      \* the waiting runs whose channel holds a token
    pc,          \* where each caller is
    op, key, cap, \* what it called: the entry point, its key and the cap it read
    wakes

caps == <<maxConcurrent, maxQueue, maxPerUser, maxQueuedPerUser>>
queues == <<admitted, buckets, ring>>
req == <<op, key, cap>>
vars == <<caps, active, queued, lent, perUser, queues, userWait, tokens, pc,
          req, wakes>>

Phases == {"idle",
           "capRead",    \* read the cap, not yet acted on it
           "counted",    \* Admit: counted against its user, before admitGlobal
           "userWait",   \* blocked in admitUserLocal
           "waiting",    \* blocked until it is handed a slot
           "running",    \* holds a global slot
           "lent",       \* lent its global slot
           "reclaiming", \* blocked in RunSlot.Reclaim
           "ending",     \* RunSlot.end of a lent run, before endRun
           "reserved"}   \* holds a ReserveUser count

-----------------------------------------------------------------------------
\* A run whose cap check is on: it is counted against its user.
PerUserActive(r) == cap[r] > 0 /\ key[r] # NoUser

\* What a release or a cancel gives back for the user.  Admit, ReserveUser and
\* WaitForUser give back what was counted; AcquireForUser hands its key to
\* releaseFn whether the cap was on or not.
GivesBack(r) ==
    IF op[r] = "AcquireForUser" THEN key[r] # NoUser ELSE PerUserActive(r)

\* A run bound to a RunSlot, which can lend its slot.
CanLend(r) == op[r] \in {"Admit", "AdmitReject"}

\* Mutant: the lent runs are left out of the queue bound.
QueueFullMutant == queued >= maxQueue

QueueFull == queued + lent >= maxQueue

InQueues(r) == r \in ToSet(admitted) \/ \E k \in Keys : r \in ToSet(buckets[k])

MuFree == wakes = {}
-----------------------------------------------------------------------------
Goto(r, p) == pc' = [pc EXCEPT ![r] = p]

\* A call of entry point o, with the cap it goes by (0: it reads none).
Called(r, o, k, n) ==
    /\ op' = [op EXCEPT ![r] = o]
    /\ key' = [key EXCEPT ![r] = k]
    /\ cap' = [cap EXCEPT ![r] = n]

\* The caller's call is over: an error return, or its release has run.
Leave(r) == /\ pc' = [pc EXCEPT ![r] = "idle"]
            /\ op' = [op EXCEPT ![r] = "none"]
            /\ key' = [key EXCEPT ![r] = NoUser]
            /\ cap' = [cap EXCEPT ![r] = 0]

CountUser(r) ==
    perUser' = IF PerUserActive(r) THEN [perUser EXCEPT ![key[r]] = @ + 1] ELSE perUser

\* Mutant: the count is kept.
DecrementedMutant(u) == perUser

\* decrementPerUser; the wake of the user's waiters is left to WakeUser.
Decremented(u) ==
    [perUser EXCEPT ![u] = IF perUser[u] > 0 THEN perUser[u] - 1 ELSE 0]

\* Mutant: the count goes back, but none of the user's waiters is woken.
GiveBackUserMutant(r, loops) ==
    /\ perUser' = IF GivesBack(r) THEN Decremented(key[r]) ELSE perUser
    /\ wakes' = loops

\* The user's share of endRun, cancelWaiter and giveBackUserLocked, with the
\* wake loops the critical section goes on to run.
GiveBackUser(r, loops) ==
    /\ perUser' = IF GivesBack(r) THEN Decremented(key[r]) ELSE perUser
    /\ wakes' = IF GivesBack(r) THEN loops \cup {key[r]} ELSE loops

\* Mutant: a bucket that was empty goes to the front of the ring.
PushMutant(k, r) ==
    /\ buckets' = [buckets EXCEPT ![k] = Append(@, r)]
    /\ ring' = IF buckets[k] = <<>> THEN <<k>> \o ring ELSE ring
    /\ UNCHANGED admitted

Push(k, r) ==
    /\ buckets' = [buckets EXCEPT ![k] = Append(@, r)]
    /\ ring' = IF buckets[k] = <<>> THEN Append(ring, k) ELSE ring
    /\ UNCHANGED admitted

\* Mutant: the emptied bucket stays in the ring.
RemoveWaiterMutant(r) ==
    /\ admitted' = RemoveFirst(admitted, r)
    /\ buckets' = [k \in Keys |-> RemoveFirst(buckets[k], r)]
    /\ UNCHANGED ring

\* semQueue.remove and removeWaiter.
RemoveWaiter(r) ==
    /\ admitted' = RemoveFirst(admitted, r)
    /\ buckets' = [k \in Keys |-> RemoveFirst(buckets[k], r)]
    /\ ring' = IF \E k \in Keys : buckets[k] = <<r>>
               THEN RemoveFirst(ring, CHOOSE k \in Keys : buckets[k] = <<r>>)
               ELSE ring
-----------------------------------------------------------------------------
Init ==
    /\ maxConcurrent \in MaxConcurrents /\ maxQueue \in MaxQueues
    /\ maxPerUser \in MaxPerUsers /\ maxQueuedPerUser \in MaxQueuedPerUsers
    /\ active = 0 /\ queued = 0 /\ lent = 0
    /\ perUser = [u \in Users |-> 0]
    /\ admitted = <<>> /\ ring = <<>>
    /\ buckets = [k \in Keys |-> <<>>]
    /\ userWait = [u \in Users |-> <<>>]
    /\ tokens = {} /\ wakes = {}
    /\ pc = [r \in Runs |-> "idle"]
    /\ op = [r \in Runs |-> "none"]
    /\ key = [r \in Runs |-> NoUser]
    /\ cap = [r \in Runs |-> 0]

\* The first critical section of Admit, AcquireForUser, ReserveUser and
\* WaitForUser: read the cap.
ReadCap(r, o, k) ==
    /\ MuFree /\ pc[r] = "idle" /\ o \in Ops \cap SnapshotOps
    /\ Called(r, o, k, maxPerUser)
    /\ Goto(r, "capRead")
    /\ UNCHANGED <<caps, active, queued, lent, perUser, queues, userWait, tokens, wakes>>

\* A free slot is taken at once.
TakeFreeSlot(r) ==
    /\ active < maxConcurrent
    /\ active' = active + 1
    /\ Goto(r, "running")
    /\ UNCHANGED <<caps, lent, queues, userWait, tokens, wakes>>

AcquireForUser(r) ==
    LET k == key[r]
        overCap == PerUserActive(r) /\ perUser[k] >= cap[r]
    IN  /\ MuFree /\ pc[r] = "capRead" /\ op[r] = "AcquireForUser"
        /\ \/ /\ ~overCap
              /\ TakeFreeSlot(r) /\ CountUser(r)
              /\ UNCHANGED <<queued, req>>
           \/ /\ overCap \/ (active >= maxConcurrent /\ QueueFull)
              /\ Leave(r)
              /\ UNCHANGED <<caps, active, queued, lent, perUser, queues,
                             userWait, tokens, wakes>>
           \/ /\ ~overCap /\ active >= maxConcurrent /\ ~QueueFull
              /\ Push(k, r) /\ queued' = queued + 1 /\ CountUser(r)
              /\ Goto(r, "waiting")
              /\ UNCHANGED <<caps, active, lent, userWait, tokens, req, wakes>>

ReserveUser(r) ==
    LET k == key[r]
    IN  /\ MuFree /\ pc[r] = "capRead" /\ op[r] = "ReserveUser"
        /\ \/ /\ ~PerUserActive(r)
              /\ Goto(r, "reserved") /\ UNCHANGED <<perUser, req>>
           \/ /\ PerUserActive(r) /\ perUser[k] < cap[r]
              /\ Goto(r, "reserved") /\ CountUser(r) /\ UNCHANGED req
           \/ /\ PerUserActive(r) /\ perUser[k] >= cap[r]
              /\ Leave(r) /\ UNCHANGED perUser
        /\ UNCHANGED <<caps, active, queued, lent, queues, userWait, tokens, wakes>>

ReleaseReserve(r) ==
    /\ MuFree /\ pc[r] = "reserved"
    /\ GiveBackUser(r, {}) /\ Leave(r)
    /\ UNCHANGED <<caps, active, queued, lent, queues, userWait, tokens>>

\* A refused TryAcquire changes nothing.
TryAcquire(r) ==
    /\ MuFree /\ pc[r] = "idle" /\ "TryAcquire" \in Ops
    /\ TakeFreeSlot(r)
    /\ Called(r, "TryAcquire", NoUser, 0)
    /\ UNCHANGED <<queued, perUser>>

\* A slot for work that was already admitted: never refused.
QueueAdmitted(r) ==
    /\ active >= maxConcurrent
    /\ admitted' = Append(admitted, r) /\ queued' = queued + 1
    /\ UNCHANGED <<caps, active, buckets, ring, userWait, tokens, wakes>>

Wait(r) ==
    /\ MuFree /\ pc[r] = "idle" /\ "Wait" \in Ops
    /\ Called(r, "Wait", NoUser, 0)
    /\ UNCHANGED perUser
    /\ \/ TakeFreeSlot(r) /\ UNCHANGED queued
       \/ QueueAdmitted(r) /\ Goto(r, "waiting") /\ UNCHANGED lent

WaitForUser(r) ==
    /\ MuFree /\ pc[r] = "capRead" /\ op[r] = "WaitForUser"
    /\ CountUser(r)
    /\ UNCHANGED req
    /\ \/ TakeFreeSlot(r) /\ UNCHANGED queued
       \/ QueueAdmitted(r) /\ Goto(r, "waiting") /\ UNCHANGED lent
-----------------------------------------------------------------------------
\* admitUserLocal, the critical section before its wait.
AdmitUserLocal(r) ==
    LET k == key[r]
        userQueueFull == op[r] = "AdmitReject" \/ Len(userWait[k]) >= maxQueuedPerUser
    IN  /\ MuFree /\ pc[r] = "capRead" /\ CanLend(r) /\ PerUserActive(r)
        /\ \/ /\ perUser[k] < cap[r]
              /\ CountUser(r) /\ Goto(r, "counted")
              /\ UNCHANGED <<queued, userWait, req>>
           \/ /\ perUser[k] >= cap[r]
              /\ userQueueFull \/ QueueFull
              /\ Leave(r) /\ UNCHANGED <<perUser, queued, userWait>>
           \/ /\ perUser[k] >= cap[r]
              /\ ~userQueueFull /\ ~QueueFull
              /\ userWait' = [userWait EXCEPT ![k] = Append(@, r)]
              /\ queued' = queued + 1
              /\ Goto(r, "userWait") /\ UNCHANGED <<perUser, req>>
        /\ UNCHANGED <<caps, active, lent, queues, tokens, wakes>>

\* Mutant: a run woken as its ctx ended keeps the count it will never use.
CancelUserWaiterMutant(r) ==
    LET k == key[r]
    IN  /\ MuFree /\ pc[r] = "userWait"
        /\ queued' = queued - 1 /\ Leave(r)
        /\ userWait' = [userWait EXCEPT ![k] = RemoveFirst(@, r)]
        /\ tokens' = tokens \ {r}
        /\ UNCHANGED <<caps, active, lent, queues, perUser, wakes>>

\* The wait on the user's cap ends without a slot: ctx ends, or OnQueued fails.
CancelUserWaiter(r) ==
    LET k == key[r]
    IN  /\ MuFree /\ pc[r] = "userWait"
        /\ queued' = queued - 1 /\ Leave(r)
        /\ IF r \in ToSet(userWait[k])
           THEN /\ userWait' = [userWait EXCEPT ![k] = RemoveFirst(@, r)]
                /\ UNCHANGED <<perUser, tokens, wakes>>
           ELSE /\ tokens' = tokens \ {r}
                /\ perUser' = Decremented(k) /\ wakes' = {k}
                /\ UNCHANGED userWait
        /\ UNCHANGED <<caps, active, lent, queues>>

\* admitGlobal's critical section; holdsPlace is a run that waited on its
\* user's cap and is counted in queued already.
AdmitGlobal(r, holdsPlace) ==
    LET k == key[r]
        userQueueFull == /\ ~PerUserActive(r) /\ maxQueuedPerUser > 0
                         /\ Len(buckets[k]) >= maxQueuedPerUser
        refused == ~holdsPlace /\ (op[r] = "AdmitReject" \/ QueueFull)
    IN  /\ tokens' = tokens \ {r}
        /\ \/ /\ active < maxConcurrent
              /\ active' = active + 1
              /\ queued' = IF holdsPlace THEN queued - 1 ELSE queued
              /\ Goto(r, "running")
              /\ UNCHANGED <<perUser, queues, req, wakes>>
           \/ /\ active >= maxConcurrent
              /\ refused \/ userQueueFull
              /\ GiveBackUser(r, {}) /\ Leave(r)
              /\ UNCHANGED <<active, queued, queues>>
           \/ /\ active >= maxConcurrent /\ ~refused /\ ~userQueueFull
              /\ Push(k, r)
              /\ queued' = IF holdsPlace THEN queued ELSE queued + 1
              /\ Goto(r, "waiting")
              /\ UNCHANGED <<active, perUser, req, wakes>>
        /\ UNCHANGED <<caps, lent, userWait>>

\* Admit's second half for a run that did not wait on its user's cap.
AdmitNew(r) ==
    /\ MuFree
    /\ \/ pc[r] = "counted"
       \/ pc[r] = "capRead" /\ CanLend(r) /\ ~PerUserActive(r)
       \/ pc[r] = "capRead" /\ op[r] = "AdmitSlot"
    /\ AdmitGlobal(r, FALSE)

\* ... and for one that did, once it was woken.
AdmitWaited(r) ==
    /\ MuFree /\ pc[r] = "userWait" /\ r \in tokens
    /\ AdmitGlobal(r, TRUE)

\* AdmitSlot reads no cap: it counts no user.
AdmitSlot(r, k) ==
    /\ MuFree /\ pc[r] = "idle" /\ "AdmitSlot" \in Ops
    /\ Called(r, "AdmitSlot", k, 0)
    /\ Goto(r, "capRead")
    /\ UNCHANGED <<caps, active, queued, lent, perUser, queues, userWait, tokens, wakes>>
-----------------------------------------------------------------------------
\* The select of Acquire, Wait, Admit and Reclaim receives the token.
ReceiveSlot(r) ==
    /\ pc[r] \in {"waiting", "reclaiming"} /\ r \in tokens
    /\ tokens' = tokens \ {r}
    /\ Goto(r, "running")
    /\ UNCHANGED <<caps, active, queued, lent, perUser, queues, userWait, req, wakes>>

\* Mutant: a cancelled waiter that was handed a slot keeps it.
CancelWaiterMutant(r) ==
    /\ MuFree /\ pc[r] = "waiting" /\ Leave(r)
    /\ IF InQueues(r) THEN RemoveWaiter(r) /\ queued' = queued - 1
                      ELSE UNCHANGED <<queues, queued>>
    /\ tokens' = tokens \ {r}
    /\ GiveBackUser(r, {})
    /\ UNCHANGED <<caps, active, lent, userWait>>

\* The wait for a slot ends without one: ctx ends, the queue timeout fires or
\* OnQueued fails.
CancelWaiter(r) ==
    /\ MuFree /\ pc[r] = "waiting" /\ Leave(r)
    /\ \/ /\ InQueues(r)
          /\ RemoveWaiter(r) /\ queued' = queued - 1
          /\ GiveBackUser(r, {})
          /\ UNCHANGED <<active, tokens>>
       \/ /\ ~InQueues(r) /\ r \in tokens
          /\ tokens' = tokens \ {r} /\ active' = active - 1
          /\ GiveBackUser(r, {Global})
          /\ UNCHANGED <<queued, queues>>
    /\ UNCHANGED <<caps, lent, userWait>>

\* Mutant: a release that is not held to one use runs twice.
EndRunTwice(r) ==
    /\ MuFree /\ pc[r] = "running"
    /\ active' = active - 2
    /\ GiveBackUser(r, {Global}) /\ Leave(r)
    /\ UNCHANGED <<caps, queued, lent, queues, userWait, tokens>>

\* Mutant: the freed slot is left for whoever asks next.
EndRunMutant(r) ==
    /\ MuFree /\ pc[r] = "running"
    /\ active' = active - 1
    /\ GiveBackUser(r, {}) /\ Leave(r)
    /\ UNCHANGED <<caps, queued, lent, queues, userWait, tokens>>

\* A release: endRun of a run that holds a global slot.
EndRun(r) ==
    /\ MuFree /\ pc[r] = "running"
    /\ active' = active - 1
    /\ GiveBackUser(r, {Global}) /\ Leave(r)
    /\ UNCHANGED <<caps, queued, lent, queues, userWait, tokens>>

\* RunSlot.end of a run that lent its slot: two critical sections.
EndLent(r) ==
    /\ MuFree /\ pc[r] = "lent"
    /\ lent' = lent - 1 /\ Goto(r, "ending")
    /\ UNCHANGED <<caps, active, queued, perUser, queues, userWait, tokens, req, wakes>>

EndRunLent(r) ==
    /\ MuFree /\ pc[r] = "ending"
    /\ GiveBackUser(r, {}) /\ Leave(r)
    /\ UNCHANGED <<caps, active, queued, lent, queues, userWait, tokens>>

Lend(r) ==
    /\ MuFree /\ pc[r] = "running" /\ CanLend(r) /\ ~QueueFull
    /\ lent' = lent + 1 /\ active' = active - 1
    /\ Goto(r, "lent") /\ wakes' = {Global}
    /\ UNCHANGED <<caps, queued, perUser, queues, userWait, tokens, req>>

\* Mutant: the slot is taken back without a free one.
TryReclaimMutant(r) ==
    /\ MuFree /\ pc[r] = "lent"
    /\ active' = active + 1 /\ lent' = lent - 1
    /\ Goto(r, "running")
    /\ UNCHANGED <<caps, queued, perUser, queues, userWait, tokens, req, wakes>>

\* TryReclaim, and Reclaim when a slot is free.
TryReclaim(r) ==
    /\ MuFree /\ pc[r] = "lent" /\ active < maxConcurrent
    /\ active' = active + 1 /\ lent' = lent - 1
    /\ Goto(r, "running")
    /\ UNCHANGED <<caps, queued, perUser, queues, userWait, tokens, req, wakes>>

Reclaim(r) ==
    /\ MuFree /\ pc[r] = "lent"
    /\ QueueAdmitted(r) /\ lent' = lent - 1
    /\ Goto(r, "reclaiming")
    /\ UNCHANGED <<perUser, req>>

\* ctx ends while the run still waits: the slot stays lent.  (Handed over in
\* the meantime, the slot is the run's: ReceiveSlot.)
ReclaimCancelled(r) ==
    /\ MuFree /\ pc[r] = "reclaiming" /\ InQueues(r)
    /\ RemoveWaiter(r)
    /\ queued' = queued - 1 /\ lent' = lent + 1
    /\ Goto(r, "lent")
    /\ UNCHANGED <<caps, active, perUser, userWait, tokens, req, wakes>>
-----------------------------------------------------------------------------
\* One iteration of wakeNextLocked: nextWaiter, the slot and the token.
WakeNext ==
    /\ Global \in wakes /\ active < maxConcurrent
    /\ queued' = queued - 1 /\ active' = active + 1
    /\ \/ /\ admitted # <<>>
          /\ tokens' = tokens \cup {Head(admitted)}
          /\ admitted' = Tail(admitted) /\ UNCHANGED <<buckets, ring>>
       \/ /\ admitted = <<>> /\ ring # <<>>
          /\ LET k == Head(ring)
             IN  /\ tokens' = tokens \cup {Head(buckets[k])}
                 /\ buckets' = [buckets EXCEPT ![k] = Tail(@)]
                 /\ ring' = IF Len(buckets[k]) = 1 THEN Tail(ring)
                            ELSE Append(Tail(ring), k)
          /\ UNCHANGED admitted
    /\ UNCHANGED <<caps, lent, perUser, userWait, pc, req, wakes>>

WakeNextDone ==
    /\ Global \in wakes
    /\ active >= maxConcurrent \/ (admitted = <<>> /\ ring = <<>>)
    /\ wakes' = wakes \ {Global}
    /\ UNCHANGED <<caps, active, queued, lent, perUser, queues, userWait, tokens, pc, req>>

\* Mutant: the strict bound of an off-by-one.
UserAtCapMutant(u) == maxPerUser > 0 /\ perUser[u] > maxPerUser

UserAtCap(u) == maxPerUser > 0 /\ perUser[u] >= maxPerUser

\* One iteration of wakeUserWaiter: queued keeps counting the woken run.
WakeUser(u) ==
    /\ u \in wakes /\ userWait[u] # <<>> /\ ~UserAtCap(u)
    /\ tokens' = tokens \cup {Head(userWait[u])}
    /\ userWait' = [userWait EXCEPT ![u] = Tail(@)]
    /\ perUser' = [perUser EXCEPT ![u] = @ + 1]
    /\ UNCHANGED <<caps, active, queued, lent, queues, pc, req, wakes>>

WakeUserDone(u) ==
    /\ u \in wakes /\ (userWait[u] = <<>> \/ UserAtCap(u))
    /\ wakes' = wakes \ {u}
    /\ UNCHANGED <<caps, active, queued, lent, perUser, queues, userWait, tokens, pc, req>>
-----------------------------------------------------------------------------
\* Mutant: a raised cap wakes nobody.
SetCapsMutant(c, q) ==
    /\ MuFree
    /\ maxConcurrent' = c /\ maxQueue' = q
    /\ UNCHANGED <<maxPerUser, maxQueuedPerUser, active, queued, lent, perUser,
                   queues, userWait, tokens, pc, req, wakes>>

\* A config reload: three setters, each a critical section of its own.
SetCaps(c, q) ==
    /\ MuFree
    /\ maxConcurrent' = c /\ maxQueue' = q /\ wakes' = {Global}
    /\ UNCHANGED <<maxPerUser, maxQueuedPerUser, active, queued, lent, perUser,
                   queues, userWait, tokens, pc, req>>

WithPerUserCap(n) ==
    /\ MuFree
    /\ maxPerUser' = n /\ wakes' = {u \in Users : userWait[u] # <<>>}
    /\ UNCHANGED <<maxConcurrent, maxQueue, maxQueuedPerUser, active, queued,
                   lent, perUser, queues, userWait, tokens, pc, req>>

WithQueuedPerUserCap(n) ==
    /\ MuFree
    /\ maxQueuedPerUser' = n
    /\ UNCHANGED <<maxConcurrent, maxQueue, maxPerUser, active, queued, lent,
                   perUser, queues, userWait, tokens, pc, req, wakes>>

Reload ==
    \/ \E c \in MaxConcurrents, q \in MaxQueues :
          <<c, q>> # <<maxConcurrent, maxQueue>> /\ SetCaps(c, q)
    \/ \E n \in MaxPerUsers : n # maxPerUser /\ WithPerUserCap(n)
    \/ \E n \in MaxQueuedPerUsers : n # maxQueuedPerUser /\ WithQueuedPerUserCap(n)

Wake == WakeNext \/ WakeNextDone \/ \E u \in Users : WakeUser(u) \/ WakeUserDone(u)

Enter(r) ==
    \/ \E o \in SnapshotOps, k \in Keys : ReadCap(r, o, k)
    \/ \E k \in Keys : AdmitSlot(r, k)
    \/ TryAcquire(r) \/ Wait(r)

Step(r) ==
    \/ AcquireForUser(r) \/ ReserveUser(r) \/ WaitForUser(r)
    \/ AdmitUserLocal(r) \/ AdmitNew(r) \/ AdmitWaited(r)
    \/ ReceiveSlot(r)

Cancel(r) == CancelUserWaiter(r) \/ CancelWaiter(r) \/ ReclaimCancelled(r)

End(r) == EndRun(r) \/ EndLent(r) \/ EndRunLent(r) \/ ReleaseReserve(r)

Next ==
    \/ Wake
    \/ Reload
    \/ \E r \in Runs :
          Enter(r) \/ Step(r) \/ Cancel(r) \/ End(r)
          \/ Lend(r) \/ TryReclaim(r) \/ Reclaim(r)

Spec == Init /\ [][Next]_vars
-----------------------------------------------------------------------------
\* Mutant: the buckets with an earlier turn are not counted in the last round.
PositionOfMutant(r) ==
    LET k == key[r]
        idx == SelectInSeq(buckets[k], LAMBDA x : x = r) - 1
        turn == SelectInSeq(ring, LAMBDA x : x = k)
        counted(j) == LET n == Len(buckets[ring[j]])
                      IN  IF j = turn THEN 0 ELSE IF n < idx THEN n ELSE idx
        ahead[j \in 0..Len(ring)] ==
            IF j = 0 THEN Len(admitted) + idx ELSE ahead[j - 1] + counted(j)
    IN  ahead[Len(ring)] + 1

\* positionLocked: the waiters served before r, plus one.  They are counted
\* bucket by bucket in ring order; the ones before r's are a round ahead.
PositionOf(r) ==
    LET k == key[r]
        idx == SelectInSeq(buckets[k], LAMBDA x : x = r) - 1
        turn == SelectInSeq(ring, LAMBDA x : x = k)
        counted(j) == LET n == Len(buckets[ring[j]])
                          rounds == IF j < turn THEN idx + 1 ELSE idx
                      IN  IF j = turn THEN 0 ELSE IF n < rounds THEN n ELSE rounds
        ahead[j \in 0..Len(ring)] ==
            IF j = 0 THEN Len(admitted) + idx ELSE ahead[j - 1] + counted(j)
    IN  ahead[Len(ring)] + 1
-----------------------------------------------------------------------------
\* A caller blocked until it is handed a slot.
SlotWaiter(r) == pc[r] \in {"waiting", "reclaiming"} /\ r \notin tokens

\* Wait-ers are never refused, so no queue bound holds them.
NeverRefused(r) == op[r] \in {"Wait", "WaitForUser"}

\* Already-admitted work: it waits in `admitted', ahead of every new run.
AlreadyAdmitted(r) == pc[r] = "reclaiming" \/ NeverRefused(r)

\* The callers each counter stands for.
SlotHolders ==
    {r \in Runs : \/ pc[r] = "running"
                  \/ pc[r] \in {"waiting", "reclaiming"} /\ r \in tokens}

PlaceHolders == {r \in Runs : pc[r] = "userWait" \/ SlotWaiter(r)}

Lenders == {r \in Runs : pc[r] = "lent"}

CountedRuns(u) ==
    {r \in Runs : /\ key[r] = u /\ cap[r] > 0
                  /\ \/ pc[r] \in {"counted", "waiting", "running", "lent",
                                   "reclaiming", "ending", "reserved"}
                     \/ pc[r] = "userWait" /\ r \in tokens}

SomeoneQueued == admitted # <<>> \/ ring # <<>>

TypeOK ==
    /\ maxConcurrent \in MaxConcurrents /\ maxQueue \in MaxQueues
    /\ maxPerUser \in MaxPerUsers /\ maxQueuedPerUser \in MaxQueuedPerUsers
    /\ active \in Nat /\ queued \in Nat /\ lent \in Nat
    /\ perUser \in [Users -> Nat]
    /\ admitted \in Seq(Runs) /\ ring \in Seq(Keys)
    /\ buckets \in [Keys -> Seq(Runs)]
    /\ userWait \in [Users -> Seq(Runs)]
    /\ tokens \in SUBSET Runs
    /\ pc \in [Runs -> Phases]
    /\ op \in [Runs -> AllOps \cup {"none"}]
    /\ key \in [Runs -> Keys]
    /\ cap \in [Runs -> MaxPerUsers \cup {0}]
    /\ wakes \in SUBSET (Users \cup {Global})

\* The counters the admission decisions are made on never drift from the runs
\* they count, whatever cancel, hand-over, lend or reload came in between:
\* active is the runs that hold a slot, a handed-over token included; queued
\* the runs with a place in the queue, lent the runs that lent theirs
\* (Semaphore.active/queued/lent, cancelWaiter's two arms, RunSlot.Reclaim).
SlotAccounting ==
    /\ active = Cardinality(SlotHolders)
    /\ queued = Cardinality(PlaceHolders)
    /\ lent = Cardinality(Lenders)

\* perUser is the number of runs that were counted against the user and have
\* not given that count back (decrementPerUser, wakeUserWaiter, releaseFn).
UserAccounting == \A u \in Users : perUser[u] = Cardinality(CountedRuns(u))

\* A blocked caller is in exactly one place of exactly the queue its call uses,
\* or has the token in its channel; so cancelWaiter's panic arm and a receive
\* that blocks for ever under the mutex in cancelUserWaiter are unreachable, and
\* the ring always lists each non-empty bucket once.
NoStrandedWaiter ==
    /\ IsInjective(admitted)
    /\ ToSet(admitted) = {r \in Runs : SlotWaiter(r) /\ AlreadyAdmitted(r)}
    /\ \A k \in Keys :
          /\ IsInjective(buckets[k])
          /\ ToSet(buckets[k]) =
                {r \in Runs : SlotWaiter(r) /\ ~AlreadyAdmitted(r) /\ key[r] = k}
    /\ \A u \in Users :
          /\ IsInjective(userWait[u])
          /\ ToSet(userWait[u]) =
                {r \in Runs : pc[r] = "userWait" /\ r \notin tokens /\ key[r] = u}
    /\ tokens \subseteq {r \in Runs : pc[r] \in {"waiting", "reclaiming", "userWait"}}
    /\ IsInjective(ring)
    /\ ToSet(ring) = {k \in Keys : buckets[k] # <<>>}

\* No lost wake-up for slots: once the loop has run, no caller waits for a slot
\* while one is free, also right after a reload raised the cap or a cancelled
\* waiter gave back the slot it had been handed (wakeNextLocked).
NoIdleSlot == Global \notin wakes /\ SomeoneQueued => active >= maxConcurrent

\* No lost wake-up on the per-user cap: while the cap stays what it is, no run
\* waits on it with its user under it, over ends, cancels, give-ups and reloads
\* of the other caps (wakeUserWaiter).  It is not said of a reload of the cap
\* itself: a run that read the old cap before WithPerUserCap raised it queues
\* behind the new one and is left there (admit.go:61, SemStaleCap.cfg).
NoIdleUserPlace ==
    \A u \in Users : u \notin wakes /\ userWait[u] # <<>> => UserAtCap(u)

\* "runs alive stay within maxConcurrent + maxQueue" (lend.go:20): the admitted
\* and the queued runs, lent ones included, apart from the ones Wait may not
\* refuse.
AliveBounded ==
    Cardinality({r \in SlotHolders \cup PlaceHolders \cup Lenders : ~NeverRefused(r)})
        <= maxConcurrent + maxQueue

\* The slots in use never exceed the largest cap that was configured, over
\* reloads and reclaims too.
SlotsBounded == \E c \in MaxConcurrents : active <= c

\* The per-user cap holds for every caller that can be refused, runs that have
\* lent their slot or are between two critical sections included.
UserCapRespected ==
    \A u \in Users : \E n \in MaxPerUsers :
        Cardinality({r \in CountedRuns(u) : op[r] # "WaitForUser"}) <= n

\* Nobody barges: a slot taken outside wakeNextLocked (a new run's, a
\* TryReclaim's or a woken run's fast path) is taken only when nobody waits for
\* one, so neither an admitted run nor the round-robin order is overtaken.
NoBarging ==
    [][\A r \in Runs : (MuFree /\ r \notin SlotHolders /\ r \in SlotHolders')
                        => ~SomeoneQueued]_vars

\* A bucket keeps its turn: its index in the ring only falls until one of its
\* own runs is served; a cancel of one of its runs or of another bucket's, and
\* a new arrival, never cost it a place (semQueue.push/remove).
TurnKept ==
    [][\A k \in Keys : \A i \in DOMAIN ring, j \in DOMAIN ring' :
          (ring[i] = k /\ ring'[j] = k /\ j > i)
             => Head(buckets[k]) \in tokens' \ tokens]_vars

\* One call of nextWaiter: an admitted caller first, else the head of the bucket
\* whose turn it is; the bucket goes to the back unless that emptied it.
Served(st) ==
    IF st.first # <<>>
    THEN [first |-> Tail(st.first), turns |-> st.turns, lists |-> st.lists,
          out |-> Append(st.out, Head(st.first))]
    ELSE LET k == Head(st.turns)
             rest == Tail(st.lists[k])
         IN  [first |-> <<>>,
              turns |-> IF rest = <<>> THEN Tail(st.turns) ELSE Append(Tail(st.turns), k),
              lists |-> [st.lists EXCEPT ![k] = rest],
              out |-> Append(st.out, Head(st.lists[k]))]

\* The order in which nextWaiter would serve everyone who waits now.
ServeOrder ==
    LET total == Len(admitted) + Cardinality(UNION {ToSet(buckets[k]) : k \in Keys})
        after[n \in 0..total] ==
            IF n = 0 THEN [first |-> admitted, turns |-> ring, lists |-> buckets, out |-> <<>>]
            ELSE Served(after[n - 1])
    IN  after[total].out

\* The position reported to a waiting run is its place in the order the queue
\* would serve everyone in, were nobody else to arrive or leave.
PositionIsServeOrder ==
    \A k \in Keys : \A r \in ToSet(buckets[k]) : ServeOrder[PositionOf(r)] = r

\* The semaphore implements the slot pool: a waiter holds its slot from the
\* moment wakeNextLocked puts the token in its channel.
Pool == INSTANCE SlotPool WITH
            Clients <- Runs, Caps <- MaxConcurrents, cap <- maxConcurrent,
            holders <- SlotHolders, waiters <- {r \in Runs : SlotWaiter(r)}

\* Every step of the semaphore is a step of the slot pool or none: a slot is
\* handed over under the cap, a caller queues only when none is free, and no
\* caller takes a slot past the ones that wait (wakeNextLocked, the fast paths
\* of AcquireForUser, Wait, Admit and TryReclaim).
ImplementsSlotPool == Pool!PoolSpec
-----------------------------------------------------------------------------
\* sync.Mutex serves every goroutine that keeps asking (its starvation mode), so
\* a critical section that is ready again and again runs; the channel receive
\* and the loops inside a critical section only need to stay enabled; and every
\* admitted run and reservation ends: it is released when its request is over.
Fairness ==
    /\ WF_vars(Wake)
    /\ \A r \in Runs : SF_vars(Step(r)) /\ SF_vars(End(r))

FairSpec == Spec /\ Fairness

\* Every run that waits, on its user's cap, for a slot or for the slot it lent, is
\* served or withdrawn in the end, whatever the others do: the round robin and
\* the place a woken run keeps starve nobody (Admit "never times out").
EveryoneServed ==
    \A r \in Runs : pc[r] \in {"userWait", "waiting", "reclaiming"}
                       ~> pc[r] \in {"running", "idle"}
=============================================================================
