---------------------------- MODULE CallScheduler ----------------------------
(***************************************************************************)
(* The calls to one capped provider: internal/concurrency/                 *)
(* callscheduler.go, with the provider's lane (CallLane) and its cap on    *)
(* models in flight (ModelGate).                                           *)
(*                                                                         *)
(* A call enters the model gate before the lane and leaves it after.  Each *)
(* step of a caller is one critical section of the gate or of the lane.    *)
(* The lane and the gate are looked up when the call begins, so a call     *)
(* that waited at the gate enters the lane it found then, even when a      *)
(* reload has removed it.                                                  *)
(***************************************************************************)
EXTENDS CallLane, ModelGate

CONSTANT MaxReloads   \* bound: reloads of the configuration

ASSUME MaxReloadsType == MaxReloads \in Nat

VARIABLES
    pc,        \* where each caller is in acquire
    usesLane,  \* the calls that found a lane
    laneOn,    \* the configuration has a lane for the kind
    pending,   \* what a Reload, holding the scheduler's lock, has yet to set: gate or lane
    reloads

schedVars == <<pc, usesLane, laneOn, pending, reloads>>
vars == <<info, laneVars, gateVars, schedVars>>

SchedPhases == {"idle", "enter",
                "notify",   \* queued at the gate, OnQueued not yet run
                "gateWait", "lane", "running",
                "leave"}    \* out of the lane, not yet out of the gate

NoInfo == [owner |-> NoOwner, user |-> CHOOSE u \in Users : TRUE, model |-> NoModel,
           noLease |-> FALSE, background |-> FALSE, bound |-> -1]

Goto(c, p) == pc' = [pc EXCEPT ![c] = p]
GotoSame(c, p) == Goto(c, p) /\ UNCHANGED <<info, usesLane>>

\* acquire or release has returned; the call is forgotten.
Return(c) ==
    /\ Goto(c, "idle")
    /\ info' = [info EXCEPT ![c] = NoInfo] /\ usesLane' = usesLane \ {c}
AfterGate(c) == IF c \in usesLane THEN "lane" ELSE "running"
-----------------------------------------------------------------------------
Init ==
    /\ LaneInit /\ GateInit
    /\ info = [c \in Calls |-> NoInfo]
    /\ pc = [c \in Calls |-> "idle"]
    /\ usesLane = {} /\ laneOn = TRUE /\ pending = "none" /\ reloads = 0

\* acquire's lookup of the lane and the gate.
Begin(c, i) ==
    /\ pc[c] = "idle" /\ pending = "none"
    /\ info' = [info EXCEPT ![c] = i]
    /\ usesLane' = IF laneOn THEN usesLane \cup {c} ELSE usesLane
    /\ Goto(c, "enter")
    /\ UNCHANGED <<laneVars, gateVars, laneOn, pending, reloads>>

EnterGate(c) ==
    /\ pc[c] = "enter"
    /\ \/ (PassGate(c) \/ EnterAtOnce(c)) /\ GotoSame(c, AfterGate(c))
       \/ RefusedAtGate(c) /\ Return(c)
       \/ QueueAtGate(c) /\ GotoSame(c, IF HasOwner(c) THEN "notify" ELSE "gateWait")
    /\ UNCHANGED <<laneVars, laneOn, pending, reloads>>

\* OnQueued at the gate: the run's idle reservation is given up.
Notify(c) ==
    /\ pc[c] = "notify" /\ pending = "none"
    /\ \/ laneOn /\ YieldIdle(info[c].owner)
       \/ /\ mu = "free" /\ (~laneOn \/ lease[info[c].owner] # "idle")
          /\ UNCHANGED laneVars
    /\ GotoSame(c, "gateWait")
    /\ UNCHANGED <<gateVars, laneOn, pending, reloads>>

GateAdmitted(c) ==
    /\ pc[c] = "gateWait" /\ GateWake(c)
    /\ GotoSame(c, AfterGate(c))
    /\ UNCHANGED <<laneVars, laneOn, pending, reloads>>

CancelAtGate(c) ==
    /\ pc[c] = "gateWait" /\ GateCancel(c)
    /\ Return(c)
    /\ UNCHANGED <<laneVars, laneOn, pending, reloads>>

\* ctx has ended before enter, or before lane.acquire.
CancelEarly(c) ==
    /\ \/ pc[c] = "enter" /\ gateMu = "free" /\ ~Uncounted(c) /\ Return(c)
       \/ pc[c] = "lane" /\ at[c] = "out" /\ GotoSame(c, "leave")
    /\ UNCHANGED <<laneVars, gateVars, laneOn, pending, reloads>>

\* lane.acquire up to its wait.
EnterLane(c) ==
    /\ pc[c] = "lane"
    /\ \/ AcquireLeased(c) /\ GotoSame(c, "running")
       \/ AcquireYield(c) /\ GotoSame(c, "lane")
       \/ /\ AcquireSlot(c)
          /\ GotoSame(c, CASE at'[c] = "in" -> "running"
                       [] at'[c] = "queued" -> "lane"
                       [] OTHER -> "leave")
    /\ UNCHANGED <<gateVars, laneOn, pending, reloads>>

LaneGranted(c) ==
    /\ pc[c] = "lane" /\ Wake(c)
    /\ GotoSame(c, "running")
    /\ UNCHANGED <<gateVars, laneOn, pending, reloads>>

CancelInLane(c) ==
    /\ pc[c] = "lane" /\ (Withdraw(c) \/ Abandon(c))
    /\ GotoSame(c, "leave")
    /\ UNCHANGED <<gateVars, laneOn, pending, reloads>>

\* The call ends: release, or giveBack when it was not made after all.
EndCall(c) ==
    /\ pc[c] = "running"
    /\ IF c \in usesLane THEN Release(c) \/ GiveBack(c) ELSE UNCHANGED laneVars
    /\ GotoSame(c, "leave")
    /\ UNCHANGED <<gateVars, laneOn, pending, reloads>>

\* leave.
Leave(c) ==
    /\ pc[c] = "leave"
    /\ IF gate[c] = "in" THEN LeaveGate(c) ELSE UNCHANGED gateVars
    /\ Return(c)
    /\ UNCHANGED <<laneVars, laneOn, pending, reloads>>

\* CallScheduler.Done reaches only the lanes in the configuration.
RunDone(o) ==
    /\ pending = "none" /\ laneOn /\ Done(o)
    /\ UNCHANGED <<info, gateVars, schedVars>>

\* Reload: the lane first, then the gate.
Reload(raw) ==
    /\ pending = "none" /\ reloads < MaxReloads /\ laneOn
    /\ \/ raw.max > 0 /\ Reconfigure(raw) /\ UNCHANGED laneOn
       \/ Retire /\ laneOn' = FALSE
    /\ pending' = "gate" /\ reloads' = reloads + 1
    /\ UNCHANGED <<info, gateVars, pc, usesLane>>

ReloadGate(lim) ==
    /\ pending = "gate" /\ SetLimit(lim)
    /\ pending' = "none"
    /\ UNCHANGED <<info, laneVars, pc, usesLane, laneOn, reloads>>

\* Reload without the provider: its gate is disabled, then its lane goes.
RemoveProvider ==
    /\ pending = "none" /\ reloads < MaxReloads /\ laneOn
    /\ SetLimit([max |-> 0, wait |-> FALSE])
    /\ pending' = "lane" /\ reloads' = reloads + 1
    /\ UNCHANGED <<info, laneVars, pc, usesLane, laneOn>>

RemoveLane ==
    /\ pending = "lane" /\ Retire /\ laneOn' = FALSE
    /\ pending' = "none"
    /\ UNCHANGED <<info, gateVars, pc, usesLane, reloads>>

\* Steps of the loops, the timers and the clock.
LaneLoop == (DispatchOne \/ DispatchEnd) /\ UNCHANGED <<info, gateVars, schedVars>>
GateLoop == (AdmitRound \/ AdmitEnd) /\ UNCHANGED <<info, laneVars, schedVars>>
GateClock == Age /\ UNCHANGED <<info, laneVars, schedVars>>
HoldClock(o) == HoldRunsOut(o) /\ UNCHANGED <<info, gateVars, schedVars>>
TimerRuns(o) == Expire(o) /\ UNCHANGED <<info, gateVars, schedVars>>

Next ==
    \/ \E c \in Calls : \E i \in Infos[c] : Begin(c, i)
    \/ \E c \in Calls : \/ EnterGate(c) \/ Notify(c) \/ GateAdmitted(c) \/ CancelAtGate(c)
                        \/ CancelEarly(c) \/ EnterLane(c) \/ LaneGranted(c) \/ CancelInLane(c)
                        \/ EndCall(c) \/ Leave(c)
    \/ \E o \in Owners : RunDone(o) \/ HoldClock(o) \/ TimerRuns(o)
    \/ \E raw \in LaneConfigs : Reload(raw)
    \/ \E lim \in GateLimits : ReloadGate(lim)
    \/ RemoveProvider \/ RemoveLane \/ LaneLoop \/ GateLoop \/ GateClock

Spec == Init /\ [][Next]_vars

\* Every caller goes on and every call ends, the loops run to their end, and
\* time passes.  A caller or a timer waits for a mutex that others take again
\* and again; sync.Mutex hands it to whoever has waited for a millisecond, hence
\* strong fairness.
Step(c) == EnterGate(c) \/ Notify(c) \/ GateAdmitted(c) \/ EnterLane(c) \/ LaneGranted(c)
              \/ EndCall(c) \/ Leave(c)

Fairness ==
    /\ \A c \in Calls : SF_vars(Step(c))
    /\ \A o \in Owners : WF_vars(HoldClock(o)) /\ SF_vars(TimerRuns(o))
    /\ WF_vars(LaneLoop) /\ WF_vars(GateLoop) /\ WF_vars(GateClock)

FairSpec == Spec /\ Fairness
-----------------------------------------------------------------------------
(* What the scheduler promises.                                            *)

TypeOK ==
    /\ info \in [Calls -> CallInfos]
    /\ IsConfig(cfg) /\ cfg.max >= 1
    /\ active \in Int /\ reserved \in Int /\ bgCredit \in 0 .. ShareUnit
    /\ modelActive \in [Models -> Nat]
    /\ lease \in [Owners -> {"none", "busy", "idle"}]
    /\ leaseSlot \in [Owners -> Nat] /\ used \in [Owners -> 0 .. MaxUsed]
    /\ due \subseteq Idle /\ fired \subseteq Owners
    /\ inUse \subseteq Nat
    /\ buckets \in [Classes -> [Users -> Seq(Calls)]] /\ ring \in [Classes -> Seq(Users)]
    /\ ownerQueued \in [Owners -> Nat]
    /\ at \in [Calls -> Phases] /\ slot \in [Calls -> Nat] /\ onLease \subseteq Calls
    /\ mu \in {"free", "dispatch"}
    /\ limit \in [max : Int, wait : BOOLEAN] /\ inFlight \in [Models -> Nat]
    /\ waiters \in Seq(Calls) /\ aged \subseteq ToSet(waiters)
    /\ gate \in [Calls -> {"out", "waiting", "admitted", "in"}]
    /\ gateMu \in {"free", "admit"}
    /\ pc \in [Calls -> SchedPhases] /\ usesLane \subseteq Calls
    /\ laneOn \in BOOLEAN /\ pending \in {"none", "gate", "lane"}
    /\ reloads \in 0 .. MaxReloads

\* The lane's and the gate's counts per model are those of the calls in flight
\* and of the calls inside the gate, whichever way each came in, and whatever
\* caps and limit held when it did.
CountersExact ==
    /\ TypeOK
    /\ \A m \in Models :
        /\ modelActive[m] = Cardinality({c \in InFlight : info[c].model = m})
        /\ inFlight[m] = Cardinality({c \in Calls : gate[c] \in {"admitted", "in"} /\ Model(c) = m})

\* A call is put in flight only within the lane's cap and its model's cap, and
\* on a slot number the lane has.
GrantsFit ==
    [][\A c \in Calls : c \notin InFlight /\ c \in InFlight' =>
         /\ active' + reserved' <= cfg.max /\ slot'[c] < cfg.max
         /\ Capped(info[c].model) =>
               LET key == CapKey(info[c].model)
               IN  Cardinality({d \in InFlight' : Capped(info[d].model) /\ CapKey(info[d].model) = key})
                      <= cfg.caps[key]]_vars

\* A timer that fires late ends no reservation whose hold still runs, the one
\* the owner made since included.
HoldKept ==
    [][\A o \in fired : o \notin fired' /\ lease[o] = "idle" /\ o \notin due
         => lease'[o] = "idle"]_vars

\* A model enters the gate only while there is a place for it.
ModelsFit ==
    [][\A m \in Models : inFlight[m] = 0 /\ inFlight'[m] > 0
         => limit.max <= 0 \/ Cardinality(ModelsIn') <= limit.max]_vars

\* A call that waits, at the gate or in the lane, is made in the end, however
\* often the others come back: the models in flight run down for the oldest
\* waiter, a run's turn ends with its quantum, and background work has its
\* share.
EveryCallMade ==
    \A c \in Calls : pc[c] \in {"enter", "notify", "gateWait", "lane"}
                      ~> pc[c] \notin {"enter", "notify", "gateWait", "lane"}
=============================================================================
