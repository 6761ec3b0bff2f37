------------------------------- MODULE LaneGate -------------------------------
(***************************************************************************)
(* A run's model calls between two kinds of slots: internal/lanegate/      *)
(* lanegate.go (Provider.Call, acquire, forward) with RunSlot from         *)
(* internal/concurrency/lend.go, over one lane (CallLane).                 *)
(*                                                                         *)
(* A member of Calls is a run: it takes a global run slot, makes calls one *)
(* after another, and ends.  Its turn calls lend the run slot while they   *)
(* wait for the lane and take one back before they compute; its other      *)
(* calls (noLease) wait for the lane holding the run slot.                 *)
(*                                                                         *)
(* The run semaphore is what SlotPool says of it, which RunSemaphore is    *)
(* shown to implement, with its order of service: a freed slot goes to the *)
(* oldest run that reclaims, else to the oldest new run.  The provider has *)
(* no cap on models in flight, and no floor.                               *)
(***************************************************************************)
EXTENDS CallLane

CONSTANTS
    MaxRuns,     \* the semaphore's maxConcurrent
    MaxWaiting   \* ... and its maxQueue

ASSUME MaxRunsType == MaxRuns \in Nat \ {0}
ASSUME MaxWaitingType == MaxWaiting \in Nat

\* The owner of a run's calls is the run's id, and only one-shot requests, which
\* are not runs, bound the queue they wait in.
ASSUME RunCalls ==
    /\ \A c \in Calls : \A i \in Infos[c] : i.bound < 0
    /\ \A c, d \in Calls : \A i \in Infos[c], j \in Infos[d] :
          i.owner = j.owner /\ i.owner # NoOwner => c = d

VARIABLES
    step,        \* where each run is
    slots,       \* the runs that hold a run slot
    lent,        \* the runs that have lent theirs and do not wait for one
    reclaimers,  \* FIFO of the runs that wait to take one back
    newcomers,   \* FIFO of the new runs that wait for one
    second       \* runs whose call is in its second, non-lending acquire

poolVars == <<slots, lent, reclaimers, newcomers>>
vars == <<info, laneVars, poolVars, step, second>>

Steps == {"idle", "starting", "work",
          "acquire", "notify", "waitLane",
          "got",          \* the lane slot is granted
          "giving",       \* TryReclaim failed, giveBack comes next
          "reclaim", "reclaiming", "running",
          "failed",       \* the acquire failed: ctx has ended
          "ending", "closing"}

Goto(c, s) == step' = [step EXCEPT ![c] = s]
NoInfo == [owner |-> NoOwner, user |-> CHOOSE u \in Users : TRUE, model |-> NoModel,
           noLease |-> TRUE, background |-> FALSE, bound |-> -1]

SlotFree == Cardinality(slots) < MaxRuns
QueueFull == Len(reclaimers) + Len(newcomers) + Cardinality(lent) >= MaxWaiting

\* Mutant of PassOn: the slot is free, and nobody is told.
PassOnToNobody(c) == slots' = slots \ {c} /\ UNCHANGED <<reclaimers, newcomers>>

\* c's run slot is given up and handed to the next one that waits.
PassOn(c) ==
    IF reclaimers # <<>>
    THEN /\ slots' = (slots \ {c}) \cup {Head(reclaimers)}
         /\ reclaimers' = Tail(reclaimers) /\ UNCHANGED newcomers
    ELSE IF newcomers # <<>>
    THEN /\ slots' = (slots \ {c}) \cup {Head(newcomers)}
         /\ newcomers' = Tail(newcomers) /\ UNCHANGED reclaimers
    ELSE slots' = slots \ {c} /\ UNCHANGED <<reclaimers, newcomers>>

\* The call Provider.Call lends for: the run's turn call, in its first acquire.
Lends(c) == ~info[c].noLease /\ c \notin second
-----------------------------------------------------------------------------
Init ==
    /\ LaneInit
    /\ info = [c \in Calls |-> NoInfo]
    /\ step = [c \in Calls |-> "idle"]
    /\ slots = {} /\ lent = {} /\ second = {}
    /\ reclaimers = <<>> /\ newcomers = <<>>

\* Admit, as far as the global slot goes.
StartRun(c) ==
    /\ step[c] = "idle"
    /\ \/ SlotFree /\ slots' = slots \cup {c} /\ Goto(c, "work") /\ UNCHANGED newcomers
       \/ /\ ~SlotFree /\ ~QueueFull
          /\ newcomers' = Append(newcomers, c) /\ Goto(c, "starting") /\ UNCHANGED slots
    /\ UNCHANGED <<info, laneVars, lent, reclaimers, second>>

Started(c) ==
    /\ step[c] = "starting" /\ c \in slots
    /\ Goto(c, "work")
    /\ UNCHANGED <<info, laneVars, poolVars, second>>

\* Provider.Call begins.
BeginCall(c, i) ==
    /\ step[c] = "work"
    /\ info' = [info EXCEPT ![c] = i]
    /\ Goto(c, "acquire")
    /\ UNCHANGED <<laneVars, poolVars, second>>

\* acquire, up to the wait for the lane.
EnterLane(c) ==
    /\ step[c] = "acquire"
    /\ \/ AcquireLeased(c) /\ Goto(c, "got")
       \/ AcquireYield(c) /\ UNCHANGED step
       \/ /\ AcquireSlot(c)
          /\ Goto(c, IF at'[c] = "in" THEN "got" ELSE IF Lends(c) THEN "notify" ELSE "waitLane")
    /\ UNCHANGED <<info, poolVars, second>>

\* onWait: RunSlot.Lend, refused when the queue is full.
Lend(c) ==
    /\ step[c] = "notify"
    /\ IF QueueFull THEN UNCHANGED poolVars
       ELSE PassOn(c) /\ lent' = lent \cup {c}
    /\ Goto(c, "waitLane")
    /\ UNCHANGED <<info, laneVars, second>>

LaneGranted(c) ==
    /\ step[c] = "waitLane" /\ Wake(c)
    /\ Goto(c, "got")
    /\ UNCHANGED <<info, poolVars, second>>

\* ctx ends during the wait for the lane.
CancelInLane(c) ==
    /\ step[c] = "waitLane" /\ (Withdraw(c) \/ Abandon(c))
    /\ Goto(c, "failed")
    /\ UNCHANGED <<info, poolVars, second>>

\* Mutant of TryReclaim: the call computes without looking for its run slot.
ComputeAnyway(c) ==
    /\ step[c] = "got"
    /\ Goto(c, "running")
    /\ UNCHANGED <<info, laneVars, poolVars, second>>

\* The lane slot is there: compute, with the run slot taken back if it was lent
\* and one is free.
TryReclaim(c) ==
    /\ step[c] = "got"
    /\ \/ c \notin lent /\ Goto(c, "running") /\ UNCHANGED poolVars
       \/ /\ c \in lent /\ SlotFree
          /\ slots' = slots \cup {c} /\ lent' = lent \ {c}
          /\ Goto(c, "running")
          /\ UNCHANGED <<reclaimers, newcomers>>
       \/ c \in lent /\ ~SlotFree /\ Goto(c, "giving") /\ UNCHANGED poolVars
    /\ UNCHANGED <<info, laneVars, second>>

\* Mutant of GiveLaneBack: the slot is released, as after a call that was made.
ReleaseLane(c) ==
    /\ step[c] = "giving" /\ Release(c)
    /\ second' = second \cup {c}
    /\ Goto(c, "reclaim")
    /\ UNCHANGED <<info, poolVars>>

GiveLaneBack(c) ==
    /\ step[c] = "giving" /\ GiveBack(c)
    /\ second' = second \cup {c}
    /\ Goto(c, "reclaim")
    /\ UNCHANGED <<info, poolVars>>

\* Reclaim: at once, or in the queue.
Reclaim(c) ==
    /\ \/ step[c] = "reclaim"
       \/ step[c] = "failed" /\ c \in lent
    /\ \/ /\ SlotFree
          /\ slots' = slots \cup {c} /\ UNCHANGED reclaimers
          /\ Goto(c, IF step[c] = "failed" THEN "ending" ELSE "acquire")
          /\ UNCHANGED second
       \/ /\ ~SlotFree
          /\ reclaimers' = Append(reclaimers, c) /\ UNCHANGED slots
          /\ Goto(c, "reclaiming")
          /\ second' = IF step[c] = "failed" THEN second \ {c} ELSE second
    /\ lent' = lent \ {c}
    /\ UNCHANGED <<info, laneVars, newcomers>>

\* The run has its slot back: it queues for the lane again, or, when its call
\* has failed, ends.
Reclaimed(c) ==
    /\ step[c] = "reclaiming" /\ c \in slots
    /\ Goto(c, IF c \in second THEN "acquire" ELSE "ending")
    /\ UNCHANGED <<info, laneVars, poolVars, second>>

\* ctx ends during the wait: the slot stays lent.
CancelReclaim(c) ==
    /\ step[c] = "reclaiming" /\ c \notin slots
    /\ reclaimers' = RemoveFirst(reclaimers, c)
    /\ lent' = lent \cup {c}
    /\ Goto(c, "ending")
    /\ UNCHANGED <<info, laneVars, slots, newcomers, second>>

Failed(c) ==
    /\ step[c] = "failed" /\ c \notin lent
    /\ Goto(c, "ending")
    /\ UNCHANGED <<info, laneVars, poolVars, second>>

\* The driver refuses the call, or its stream ends: forward releases the slot.
EndCall(c) ==
    /\ step[c] = "running" /\ Release(c)
    /\ second' = second \ {c}
    /\ Goto(c, "work")
    /\ UNCHANGED <<info, poolVars>>

\* The run makes no more calls.
LastTurn(c) ==
    /\ step[c] = "work"
    /\ Goto(c, "ending")
    /\ UNCHANGED <<info, laneVars, poolVars, second>>

\* RunDone: the run's reservation goes.
RunDone(c) ==
    /\ step[c] = "ending" /\ mu = "free"
    /\ IF HasOwner(c) /\ lease[info[c].owner] # "none" THEN Done(info[c].owner)
       ELSE UNCHANGED laneVars
    /\ Goto(c, "closing")
    /\ UNCHANGED <<info, poolVars, second>>

\* RunSlot.end.
EndRun(c) ==
    /\ step[c] = "closing"
    /\ IF c \in lent THEN lent' = lent \ {c} /\ UNCHANGED <<slots, reclaimers, newcomers>>
       ELSE PassOn(c) /\ UNCHANGED lent
    /\ info' = [info EXCEPT ![c] = NoInfo]
    /\ second' = second \ {c}
    /\ Goto(c, "idle")
    /\ UNCHANGED laneVars

LaneLoop == (DispatchOne \/ DispatchEnd) /\ UNCHANGED <<info, poolVars, step, second>>
HoldClock(o) == HoldRunsOut(o) /\ UNCHANGED <<info, poolVars, step, second>>
TimerRuns(o) == Expire(o) /\ UNCHANGED <<info, poolVars, step, second>>

Next ==
    \/ \E c \in Calls :
         \/ StartRun(c) \/ Started(c) \/ (\E i \in Infos[c] : BeginCall(c, i))
         \/ EnterLane(c) \/ Lend(c) \/ LaneGranted(c) \/ CancelInLane(c)
         \/ TryReclaim(c) \/ GiveLaneBack(c)
         \/ Reclaim(c) \/ Reclaimed(c) \/ CancelReclaim(c) \/ Failed(c)
         \/ EndCall(c) \/ LastTurn(c) \/ RunDone(c) \/ EndRun(c)
    \/ \E o \in Owners : HoldClock(o) \/ TimerRuns(o)
    \/ LaneLoop

Spec == Init /\ [][Next]_vars

\* A run goes on, its calls end, and it makes only finitely many; timers run.
\* The lane's mutex is fair (see CallScheduler).
Goes(c) ==
    \/ Started(c) \/ EnterLane(c) \/ Lend(c) \/ LaneGranted(c) \/ TryReclaim(c)
    \/ GiveLaneBack(c) \/ Reclaim(c) \/ Reclaimed(c) \/ Failed(c) \/ EndCall(c)
    \/ RunDone(c) \/ EndRun(c)

Fairness ==
    /\ \A c \in Calls : SF_vars(Goes(c)) /\ SF_vars(LastTurn(c))
    /\ \A o \in Owners : WF_vars(HoldClock(o)) /\ SF_vars(TimerRuns(o))
    /\ WF_vars(LaneLoop)

FairSpec == Spec /\ Fairness
-----------------------------------------------------------------------------
TypeOK ==
    /\ step \in [Calls -> Steps] /\ slots \subseteq Calls /\ second \subseteq Calls
    /\ reclaimers \in Seq(Calls) /\ newcomers \in Seq(Calls)
    /\ lent \subseteq Calls \ (slots \cup ToSet(reclaimers) \cup ToSet(newcomers))
    /\ slots \cap (ToSet(reclaimers) \cup ToSet(newcomers)) = {}

\* A run that computes, in a call or in its tools, holds a run slot, and no more
\* runs hold one than the semaphore allows: what a call lent it has taken back.
\* A run holds, waits or has lent, never two of them.
WorksHoldingSlot ==
    /\ TypeOK
    /\ \A c \in Calls : step[c] \in {"work", "running"} => c \in slots
    /\ Cardinality(slots) <= MaxRuns

\* A run that waits for a run slot keeps nothing of the lane from the others:
\* neither a slot nor a reservation.
ReclaimerHoldsNothing ==
    \A c \in ToSet(reclaimers) :
        /\ at[c] = "out"
        /\ HasOwner(c) => lease[info[c].owner] # "idle"

\* No run waits for ever: not for the lane beside a run that waits for its run
\* slot, nor the other way round.
EveryRunGoesOn ==
    \A c \in Calls : step[c] \in {"starting", "acquire", "notify", "waitLane", "giving",
                                  "reclaim", "reclaiming"}
                     ~> step[c] \in {"work", "running", "failed", "ending"}
=============================================================================
