--------------------------- MODULE LaneGate_proofs ---------------------------
(***************************************************************************)
(* Runs between a lane and the run semaphore: what holds for every number  *)
(* of runs, run slots and queue places, and every configuration of the     *)
(* lane.  What a step of the lane keeps is shown in CallLane_proofs.       *)
(***************************************************************************)
EXTENDS LaneGate, CallLane_proofs

\* Where a run is says which of the run slots, of the lent ones and of the two
\* queues it is in.
PoolOf(c) ==
    /\ step[c] \in {"work", "acquire", "notify", "running"} => c \in slots
    /\ step[c] = "starting" => c \in slots \cup ToSet(newcomers)
    /\ step[c] = "reclaiming" => c \in slots \cup ToSet(reclaimers)
    /\ step[c] \in {"waitLane", "got", "failed", "ending", "closing"} => c \in slots \cup lent
    /\ step[c] \in {"giving", "reclaim"} => c \in lent
    /\ step[c] = "idle" => c \notin slots \cup lent
    /\ c \in ToSet(newcomers) => step[c] = "starting"
    /\ c \in ToSet(reclaimers) => step[c] = "reclaiming"

PoolInv ==
    /\ TypeOK /\ IsInjective(reclaimers) /\ IsInjective(newcomers)
    /\ Cardinality(slots) <= MaxRuns
    /\ \A c \in Calls : PoolOf(c)

\* From the moment a call of a run's turn is granted or queued until it runs or
\* has failed, its run keeps no reservation.
InTurn == {"notify", "waitLane", "got", "giving", "reclaim", "reclaiming", "failed"}

\* Where a run is says where it is in the lane; only a call of its turn lends.
RunOf(c) ==
    /\ info[c] \in Infos[c] \cup {NoInfo}
    /\ step[c] \in {"idle", "starting", "work", "reclaim", "reclaiming", "failed", "ending",
                     "closing"} => at[c] = "out"
    /\ step[c] = "acquire" => at[c] \in {"out", "entering"}
    /\ step[c] \in {"notify", "waitLane"} => at[c] \in {"queued", "granted"}
    /\ step[c] \in {"got", "giving", "running"} => at[c] = "in"
    /\ step[c] = "notify" \/ c \in lent \/ c \in ToSet(reclaimers) => ~info[c].noLease
    /\ step[c] \in InTurn /\ ~info[c].noLease /\ HasOwner(c) => lease[info[c].owner] # "idle"

\* The inductive invariant.
RunsInv == LaneInv /\ PoolInv /\ \A c \in Calls : RunOf(c)

\* The parts of the invariant.
LEMMA RunsFacts ==
    ASSUME RunsInv
    PROVE  /\ LaneInv /\ LaneType /\ PoolInv /\ info \in [Calls -> CallInfos]
           /\ at \in [Calls -> Phases]
           /\ step \in [Calls -> Steps] /\ slots \subseteq Calls /\ second \subseteq Calls
           /\ reclaimers \in Seq(Calls) /\ newcomers \in Seq(Calls)
           /\ IsInjective(reclaimers) /\ IsInjective(newcomers)
           /\ lent \subseteq Calls \ (slots \cup ToSet(reclaimers) \cup ToSet(newcomers))
           /\ slots \cap (ToSet(reclaimers) \cup ToSet(newcomers)) = {}
           /\ IsFiniteSet(slots) /\ Cardinality(slots) \in Nat
           /\ Cardinality(slots) <= MaxRuns
           /\ \A c \in Calls : PoolOf(c) /\ RunOf(c)
  <1>1. LaneInv /\ PoolInv /\ \A c \in Calls : RunOf(c)
    BY DEF RunsInv
  <1>2. LaneType
    BY <1>1, LaneNumbers
  <1>3. info \in [Calls -> CallInfos] /\ at \in [Calls -> Phases]
    BY <1>2 DEF LaneType
  <1>4. slots \subseteq Calls
    BY <1>1 DEF PoolInv, TypeOK
  <1>5. IsFiniteSet(slots) /\ Cardinality(slots) \in Nat
    BY <1>4, CallsFinite, FS_Subset, FS_CardinalityType
  <1> QED BY <1>1, <1>2, <1>3, <1>4, <1>5 DEF PoolInv, TypeOK

\* A forgotten call is a call still.
LEMMA NoInfoIsInfo == NoInfo \in CallInfos
  <1>1. (CHOOSE u \in Users : TRUE) \in Users
    BY UsersNotEmpty
  <1> QED BY <1>1 DEF NoInfo, CallInfos

\* A run's calls wait in a queue without a bound.
LEMMA RunsUnbounded ==
    ASSUME RunsInv, NEW c \in Calls
    PROVE  info[c].bound < 0
  <1>1. info[c] \in Infos[c] \cup {NoInfo}
    BY RunsFacts DEF RunOf
  <1> QED BY <1>1, RunCalls DEF NoInfo

\* No two runs have the same id.
LEMMA OwnOwner ==
    ASSUME RunsInv, NEW c \in Calls, NEW d \in Calls, HasOwner(c), info[c].owner = info[d].owner
    PROVE  c = d
  <1>1. info[c] \in Infos[c] \cup {NoInfo} /\ info[d] \in Infos[d] \cup {NoInfo}
    BY RunsFacts DEF RunOf
  <1> QED BY <1>1, RunCalls DEF NoInfo, HasOwner

\* Init.
LEMMA RunsStart == Init => RunsInv
  <1> SUFFICES ASSUME Init PROVE RunsInv
    OBVIOUS
  <1>1. info \in [Calls -> CallInfos]
    BY NoInfoIsInfo DEF Init
  <1>2. LaneInv
    BY <1>1, LaneStarts DEF Init
  <1>3. /\ info = [c \in Calls |-> NoInfo] /\ step = [c \in Calls |-> "idle"]
        /\ slots = {} /\ lent = {} /\ second = {} /\ reclaimers = <<>> /\ newcomers = <<>>
        /\ at = [c \in Calls |-> "out"]
    BY DEF Init, LaneInit
  <1>4. IsInjective(<<>>) /\ ToSet(<<>>) = {}
    BY DEF IsInjective, ToSet
  <1>5. TypeOK
    BY <1>3, <1>4 DEF TypeOK, Steps
  <1>6. Cardinality(slots) <= MaxRuns
    BY <1>3, FS_EmptySet, MaxRunsType
  <1>7. \A c \in Calls : PoolOf(c)
    BY <1>3, <1>4 DEF PoolOf
  <1>8. \A c \in Calls : RunOf(c)
    BY <1>3, <1>4 DEF RunOf, InTurn
  <1> QED BY <1>2, <1>3, <1>4, <1>5, <1>6, <1>7, <1>8 DEF RunsInv, PoolInv
-----------------------------------------------------------------------------
(* Steps of the pool.                                                      *)

\* A step that leaves the lane alone.
LEMMA PoolStep ==
    ASSUME RunsInv, NEW c \in Calls, NEW s \in Steps, Goto(c, s), UNCHANGED laneVars,
           second' \subseteq Calls, info' \in [Calls -> CallInfos],
           \A d \in Calls \ {c} : info'[d] = info[d], info'[c] = info[c] \/ at[c] = "out",
           slots' \subseteq Calls, reclaimers' \in Seq(Calls), newcomers' \in Seq(Calls),
           lent' \subseteq Calls, lent' \cap slots' = {},
           lent' \cap (ToSet(reclaimers') \cup ToSet(newcomers')) = {},
           slots' \cap (ToSet(reclaimers') \cup ToSet(newcomers')) = {},
           IsInjective(reclaimers'), IsInjective(newcomers'), Cardinality(slots') <= MaxRuns,
           PoolOf(c)', RunOf(c)',
           \A d \in Calls \ {c} :
             /\ d \in lent' <=> d \in lent
             /\ d \in slots => d \in slots'
             /\ d \in slots' => d \in slots \cup ToSet(reclaimers) \cup ToSet(newcomers)
             /\ d \in ToSet(reclaimers) => d \in slots' \cup ToSet(reclaimers')
             /\ d \in ToSet(newcomers) => d \in slots' \cup ToSet(newcomers')
             /\ d \in ToSet(reclaimers') => d \in ToSet(reclaimers)
             /\ d \in ToSet(newcomers') => d \in ToSet(newcomers)
    PROVE  RunsInv'
  <1>0. /\ LaneInv /\ step \in [Calls -> Steps] /\ \A d \in Calls : PoolOf(d) /\ RunOf(d)
    BY RunsFacts
  <1>1. step' = [step EXCEPT ![c] = s]
    BY DEF Goto
  <1>2. at' = at /\ lease' = lease
    BY DEF laneVars, leaseVars
  <1>3. LaneInv'
    BY <1>0, InfoKeeps
  <1>4. TypeOK'
    BY <1>0, <1>1 DEF TypeOK
  <1>5. ASSUME NEW d \in Calls, d # c PROVE PoolOf(d)' /\ RunOf(d)'
    <2>1. step'[d] = step[d] /\ info'[d] = info[d] /\ PoolOf(d) /\ RunOf(d)
      BY <1>0, <1>1, <1>5
    <2>2. PoolOf(d)'
      BY <1>5, <2>1 DEF PoolOf
    <2>3. RunOf(d)'
      BY <1>2, <1>5, <2>1 DEF RunOf, HasOwner
    <2> QED BY <2>2, <2>3
  <1>6. \A d \in Calls : PoolOf(d)' /\ RunOf(d)'
    BY <1>5
  <1> QED BY <1>3, <1>4, <1>6 DEF RunsInv, PoolInv

\* A run slot more, while one is free.
LEMMA SlotTaken ==
    ASSUME RunsInv, NEW c \in Calls, SlotFree
    PROVE  Cardinality(slots \cup {c}) <= MaxRuns
  <1>1. IsFiniteSet(slots) /\ Cardinality(slots) \in Nat /\ Cardinality(slots) < MaxRuns
    BY RunsFacts DEF SlotFree
  <1>2. CASE c \in slots
    <2>1. slots \cup {c} = slots
      BY <1>2
    <2>2. Cardinality(slots \cup {c}) = Cardinality(slots)
      BY <2>1, Zenon
    <2> QED BY <1>1, <2>2, MaxRunsType
  <1>3. CASE c \notin slots
    <2>1. Cardinality(slots \cup {c}) = Cardinality(slots) + 1
      BY <1>1, <1>3, FS_AddElement
    <2> QED BY <1>1, <2>1, MaxRunsType
  <1> QED BY <1>2, <1>3

\* A run slot passes to the next that waits.
LEMMA PassOnEffect ==
    ASSUME RunsInv, NEW c \in slots, PassOn(c)
    PROVE  /\ slots' \subseteq Calls /\ c \notin slots' /\ Cardinality(slots') <= MaxRuns
           /\ reclaimers' \in Seq(Calls) /\ newcomers' \in Seq(Calls)
           /\ IsInjective(reclaimers') /\ IsInjective(newcomers')
           /\ slots' \cap (ToSet(reclaimers') \cup ToSet(newcomers')) = {}
           /\ ToSet(reclaimers') \subseteq ToSet(reclaimers)
           /\ ToSet(newcomers') \subseteq ToSet(newcomers)
           /\ slots \ {c} \subseteq slots'
           /\ slots' \subseteq slots \cup ToSet(reclaimers) \cup ToSet(newcomers)
           /\ ToSet(reclaimers) \subseteq slots' \cup ToSet(reclaimers')
           /\ ToSet(newcomers) \subseteq slots' \cup ToSet(newcomers')
  <1>0. /\ reclaimers \in Seq(Calls) /\ newcomers \in Seq(Calls) /\ slots \subseteq Calls
        /\ IsInjective(reclaimers) /\ IsInjective(newcomers) /\ IsFiniteSet(slots)
        /\ slots \cap (ToSet(reclaimers) \cup ToSet(newcomers)) = {}
        /\ Cardinality(slots) \in Nat /\ Cardinality(slots) <= MaxRuns
        /\ \A d \in Calls : PoolOf(d)
    BY RunsFacts
  <1>1. ToSet(reclaimers) \subseteq Calls /\ ToSet(newcomers) \subseteq Calls
    BY <1>0 DEF ToSet
  <1>2. ToSet(reclaimers) \cap ToSet(newcomers) = {}
    BY <1>0, <1>1 DEF PoolOf
  <1>3. /\ IsFiniteSet(slots \ {c}) /\ Cardinality(slots \ {c}) = Cardinality(slots) - 1
        /\ Cardinality(slots \ {c}) \in Nat
    BY <1>0, FS_RemoveElement, FS_CardinalityType
  <1>4. ASSUME NEW h PROVE Cardinality((slots \ {c}) \cup {h}) <= MaxRuns
    <2> DEFINE T == slots \ {c}
    <2> HIDE DEF T
    <2>0. IsFiniteSet(T) /\ Cardinality(T) \in Nat /\ Cardinality(T) + 1 <= MaxRuns
      BY <1>0, <1>3, MaxRunsType DEF T
    <2>1. CASE h \in T
      <3>1. T \cup {h} = T
        BY <2>1
      <3>2. Cardinality(T \cup {h}) = Cardinality(T)
        BY <3>1, Zenon
      <3> QED BY <2>0, <3>2, MaxRunsType DEF T
    <2>2. CASE h \notin T
      <3>1. Cardinality(T \cup {h}) = Cardinality(T) + 1
        BY <2>0, <2>2, FS_AddElement
      <3> QED BY <2>0, <3>1 DEF T
    <2> QED BY <2>1, <2>2
  <1>5. CASE reclaimers # <<>>
    <2>1. /\ slots' = (slots \ {c}) \cup {Head(reclaimers)}
          /\ reclaimers' = Tail(reclaimers)
          /\ newcomers' = newcomers
      BY <1>5 DEF PassOn
    <2>2. /\ Head(reclaimers) \in ToSet(reclaimers) /\ Tail(reclaimers) \in Seq(Calls)
          /\ ToSet(Tail(reclaimers)) = ToSet(reclaimers) \ {Head(reclaimers)}
          /\ IsInjective(Tail(reclaimers))
      BY <1>0, <1>5, FifoTail
    <2>3. Cardinality(slots') <= MaxRuns
      BY <1>4, <2>1
    <2> QED BY <1>0, <1>1, <1>2, <2>1, <2>2, <2>3
  <1>6. CASE reclaimers = <<>> /\ newcomers # <<>>
    <2>1. /\ slots' = (slots \ {c}) \cup {Head(newcomers)} /\ newcomers' = Tail(newcomers)
          /\ reclaimers' = reclaimers
      BY <1>6 DEF PassOn
    <2>2. /\ Head(newcomers) \in ToSet(newcomers) /\ Tail(newcomers) \in Seq(Calls)
          /\ ToSet(Tail(newcomers)) = ToSet(newcomers) \ {Head(newcomers)}
          /\ IsInjective(Tail(newcomers))
      BY <1>0, <1>6, FifoTail
    <2>3. Cardinality(slots') <= MaxRuns
      BY <1>4, <2>1
    <2> QED BY <1>0, <1>1, <1>2, <2>1, <2>2, <2>3
  <1>7. CASE reclaimers = <<>> /\ newcomers = <<>>
    <2>1. slots' = slots \ {c} /\ reclaimers' = reclaimers /\ newcomers' = newcomers
      BY <1>7 DEF PassOn
    <2>2. Cardinality(slots') <= MaxRuns
      BY <1>0, <1>3, <2>1, MaxRunsType
    <2> QED BY <1>0, <2>1, <2>2
  <1> QED BY <1>5, <1>6, <1>7

\* A step of one run that leaves the lane and the pool alone.
LEMMA GoesOn ==
    ASSUME RunsInv, NEW c \in Calls, NEW s \in Steps, Goto(c, s), UNCHANGED laneVars,
           UNCHANGED poolVars, second' \subseteq Calls, info' \in [Calls -> CallInfos],
           \A d \in Calls \ {c} : info'[d] = info[d], info'[c] = info[c] \/ at[c] = "out",
           PoolOf(c)', RunOf(c)'
    PROVE  RunsInv'
  <1>0. /\ reclaimers \in Seq(Calls) /\ newcomers \in Seq(Calls) /\ slots \subseteq Calls
        /\ IsInjective(reclaimers) /\ IsInjective(newcomers)
        /\ lent \subseteq Calls \ (slots \cup ToSet(reclaimers) \cup ToSet(newcomers))
        /\ slots \cap (ToSet(reclaimers) \cup ToSet(newcomers)) = {}
        /\ Cardinality(slots) <= MaxRuns
    BY RunsFacts
  <1>1. /\ slots' = slots /\ lent' = lent /\ reclaimers' = reclaimers
        /\ newcomers' = newcomers
    BY DEF poolVars
  <1> QED BY <1>0, <1>1, PoolStep

\* Steps of a run on its own: Started, Failed, LastTurn and Reclaimed.
LEMMA AloneKeeps ==
    ASSUME RunsInv, NEW c \in Calls, Started(c) \/ Failed(c) \/ LastTurn(c) \/ Reclaimed(c)
    PROVE  RunsInv'
  <1>0. /\ step \in [Calls -> Steps] /\ PoolOf(c) /\ RunOf(c) /\ second \subseteq Calls
        /\ info \in [Calls -> CallInfos]
        /\ lent \subseteq Calls \ (slots \cup ToSet(reclaimers) \cup ToSet(newcomers))
        /\ slots \cap (ToSet(reclaimers) \cup ToSet(newcomers)) = {}
    BY RunsFacts
  <1>1. /\ UNCHANGED laneVars /\ UNCHANGED poolVars /\ info' = info /\ second' = second
    BY DEF Started, Failed, LastTurn, Reclaimed
  <1>2. PICK s \in {"work", "acquire", "ending"} :
          /\ Goto(c, s) /\ step[c] \in {"starting", "failed", "work", "reclaiming"}
          /\ c \in slots
          /\ s = "work" => step[c] = "starting"
          /\ s = "acquire" => step[c] = "reclaiming"
    BY <1>0 DEF Started, Failed, LastTurn, Reclaimed, PoolOf
  <1>3. /\ slots' = slots /\ lent' = lent /\ reclaimers' = reclaimers
        /\ newcomers' = newcomers
        /\ at' = at /\ lease' = lease
    BY <1>1 DEF poolVars, laneVars, leaseVars
  <1>4. s \in Steps
    BY DEF Steps
  <1>5. step'[c] = s
    BY <1>0, <1>2 DEF Goto
  <1>6. at[c] = "out"
    BY <1>0, <1>2 DEF RunOf
  <1>7. PoolOf(c)'
    BY <1>0, <1>2, <1>3, <1>5 DEF PoolOf
  <1>8. RunOf(c)'
    BY <1>0, <1>1, <1>2, <1>3, <1>5, <1>6 DEF RunOf, InTurn
  <1> QED BY <1>0, <1>1, <1>2, <1>4, <1>6, <1>7, <1>8, GoesOn

\* Admit.
LEMMA StartRunKeeps ==
    ASSUME RunsInv, NEW c \in Calls, StartRun(c)
    PROVE  RunsInv'
  <1>0. /\ step \in [Calls -> Steps] /\ PoolOf(c) /\ RunOf(c) /\ second \subseteq Calls
        /\ info \in [Calls -> CallInfos] /\ slots \subseteq Calls
        /\ reclaimers \in Seq(Calls) /\ newcomers \in Seq(Calls)
        /\ IsInjective(reclaimers) /\ IsInjective(newcomers)
        /\ Cardinality(slots) <= MaxRuns
        /\ lent \subseteq Calls \ (slots \cup ToSet(reclaimers) \cup ToSet(newcomers))
        /\ slots \cap (ToSet(reclaimers) \cup ToSet(newcomers)) = {}
    BY RunsFacts
  <1>1. /\ step[c] = "idle" /\ UNCHANGED laneVars /\ info' = info /\ lent' = lent
        /\ reclaimers' = reclaimers /\ second' = second
    BY DEF StartRun
  <1>2. at' = at /\ lease' = lease
    BY <1>1 DEF laneVars, leaseVars
  <1>3. /\ c \notin slots /\ c \notin lent /\ c \notin ToSet(newcomers)
        /\ c \notin ToSet(reclaimers)
    BY <1>0, <1>1 DEF PoolOf
  <1>4. CASE SlotFree /\ slots' = slots \cup {c} /\ Goto(c, "work") /\ UNCHANGED newcomers
    <2>1. Cardinality(slots') <= MaxRuns
      BY <1>4, SlotTaken
    <2>2. step'[c] = "work" /\ "work" \in Steps
      BY <1>0, <1>4 DEF Goto, Steps
    <2>3. PoolOf(c)'
      BY <1>1, <1>3, <1>4, <2>2 DEF PoolOf
    <2>4. RunOf(c)'
      BY <1>0, <1>1, <1>2, <2>2 DEF RunOf, InTurn
    <2> QED BY <1>0, <1>1, <1>3, <1>4, <2>1, <2>2, <2>3, <2>4, PoolStep
  <1>5. CASE newcomers' = Append(newcomers, c) /\ Goto(c, "starting") /\ UNCHANGED slots
    <2>1. /\ newcomers' \in Seq(Calls) /\ IsInjective(newcomers')
          /\ ToSet(newcomers') = ToSet(newcomers) \cup {c}
      BY <1>0, <1>3, <1>5, FifoAppend
    <2>2. step'[c] = "starting" /\ "starting" \in Steps
      BY <1>0, <1>5 DEF Goto, Steps
    <2>3. PoolOf(c)'
      BY <1>1, <1>3, <1>5, <2>1, <2>2 DEF PoolOf
    <2>4. RunOf(c)'
      BY <1>0, <1>1, <1>2, <2>2 DEF RunOf, InTurn
    <2> QED BY <1>0, <1>1, <1>3, <1>5, <2>1, <2>2, <2>3, <2>4, PoolStep
  <1> QED BY <1>4, <1>5 DEF StartRun

\* BeginCall.
LEMMA BeginCallKeeps ==
    ASSUME RunsInv, NEW c \in Calls, NEW i \in Infos[c], BeginCall(c, i)
    PROVE  RunsInv'
  <1>0. /\ step \in [Calls -> Steps] /\ PoolOf(c) /\ RunOf(c) /\ second \subseteq Calls
        /\ info \in [Calls -> CallInfos]
        /\ lent \subseteq Calls \ (slots \cup ToSet(reclaimers) \cup ToSet(newcomers))
        /\ slots \cap (ToSet(reclaimers) \cup ToSet(newcomers)) = {}
    BY RunsFacts
  <1>1. /\ step[c] = "work" /\ info' = [info EXCEPT ![c] = i] /\ Goto(c, "acquire")
        /\ UNCHANGED laneVars /\ UNCHANGED poolVars /\ second' = second
    BY DEF BeginCall
  <1>2. /\ slots' = slots /\ lent' = lent /\ reclaimers' = reclaimers
        /\ newcomers' = newcomers
        /\ at' = at
    BY <1>1 DEF poolVars, laneVars
  <1>3. at[c] = "out" /\ c \in slots
    BY <1>0, <1>1 DEF RunOf, PoolOf
  <1>4. /\ info' \in [Calls -> CallInfos] /\ info'[c] = i
        /\ \A d \in Calls \ {c} : info'[d] = info[d]
    <2>1. i \in CallInfos
      BY InfosType
    <2> QED BY <1>0, <1>1, <2>1
  <1>5. step'[c] = "acquire" /\ "acquire" \in Steps
    BY <1>0, <1>1 DEF Goto, Steps
  <1>6. PoolOf(c)'
    BY <1>0, <1>1, <1>2, <1>3, <1>5 DEF PoolOf
  <1>7. RunOf(c)'
    BY <1>0, <1>2, <1>3, <1>4, <1>5 DEF RunOf, InTurn
  <1> QED BY <1>0, <1>1, <1>3, <1>4, <1>5, <1>6, <1>7, GoesOn

\* onWait.
LEMMA LendKeeps ==
    ASSUME RunsInv, NEW c \in Calls, Lend(c)
    PROVE  RunsInv'
  <1>0. /\ step \in [Calls -> Steps] /\ PoolOf(c) /\ RunOf(c) /\ second \subseteq Calls
        /\ info \in [Calls -> CallInfos] /\ slots \subseteq Calls
        /\ lent \subseteq Calls \ (slots \cup ToSet(reclaimers) \cup ToSet(newcomers))
        /\ slots \cap (ToSet(reclaimers) \cup ToSet(newcomers)) = {}
    BY RunsFacts
  <1>1. /\ step[c] = "notify" /\ Goto(c, "waitLane") /\ UNCHANGED laneVars /\ info' = info
        /\ second' = second
    BY DEF Lend
  <1>2. at' = at /\ lease' = lease
    BY <1>1 DEF laneVars, leaseVars
  <1>3. /\ c \in slots /\ c \notin ToSet(newcomers) /\ c \notin ToSet(reclaimers)
        /\ c \notin lent
        /\ at[c] \in {"queued", "granted"} /\ ~info[c].noLease
    BY <1>0, <1>1 DEF PoolOf, RunOf
  <1>4. step'[c] = "waitLane" /\ "waitLane" \in Steps
    BY <1>0, <1>1 DEF Goto, Steps
  <1>5. RunOf(c)'
    BY <1>0, <1>1, <1>2, <1>3, <1>4 DEF RunOf, InTurn, HasOwner
  <1>6. CASE UNCHANGED poolVars
    <2>1. /\ slots' = slots /\ lent' = lent /\ reclaimers' = reclaimers
          /\ newcomers' = newcomers
      BY <1>6 DEF poolVars
    <2>2. PoolOf(c)'
      BY <1>3, <1>4, <2>1 DEF PoolOf
    <2> QED BY <1>0, <1>1, <1>4, <1>5, <1>6, <2>2, GoesOn
  <1>7. CASE PassOn(c) /\ lent' = lent \cup {c}
    <2>1. /\ slots' \subseteq Calls /\ c \notin slots' /\ Cardinality(slots') <= MaxRuns
          /\ reclaimers' \in Seq(Calls) /\ newcomers' \in Seq(Calls)
          /\ IsInjective(reclaimers') /\ IsInjective(newcomers')
          /\ slots' \cap (ToSet(reclaimers') \cup ToSet(newcomers')) = {}
          /\ ToSet(reclaimers') \subseteq ToSet(reclaimers)
          /\ ToSet(newcomers') \subseteq ToSet(newcomers)
          /\ slots \ {c} \subseteq slots'
          /\ slots' \subseteq slots \cup ToSet(reclaimers) \cup ToSet(newcomers)
          /\ ToSet(reclaimers) \subseteq slots' \cup ToSet(reclaimers')
          /\ ToSet(newcomers) \subseteq slots' \cup ToSet(newcomers')
      BY <1>3, <1>7, PassOnEffect
    <2>2. PoolOf(c)'
      BY <1>3, <1>4, <1>7, <2>1 DEF PoolOf
    <2>3. lent' \subseteq Calls /\ lent' \cap slots' = {}
          /\ lent' \cap (ToSet(reclaimers') \cup ToSet(newcomers')) = {}
      BY <1>0, <1>3, <1>7, <2>1
    <2>4. \A d \in Calls \ {c} :
             /\ d \in lent' <=> d \in lent
             /\ d \in slots => d \in slots'
             /\ d \in slots' => d \in slots \cup ToSet(reclaimers) \cup ToSet(newcomers)
             /\ d \in ToSet(reclaimers) => d \in slots' \cup ToSet(reclaimers')
             /\ d \in ToSet(newcomers) => d \in slots' \cup ToSet(newcomers')
             /\ d \in ToSet(reclaimers') => d \in ToSet(reclaimers)
             /\ d \in ToSet(newcomers') => d \in ToSet(newcomers)
      BY <1>7, <2>1
    <2> QED BY <1>0, <1>1, <1>4, <1>5, <2>1, <2>2, <2>3, <2>4, PoolStep
  <1> QED BY <1>6, <1>7 DEF Lend

\* TryReclaim.
LEMMA TryReclaimKeeps ==
    ASSUME RunsInv, NEW c \in Calls, TryReclaim(c)
    PROVE  RunsInv'
  <1>0. /\ step \in [Calls -> Steps] /\ PoolOf(c) /\ RunOf(c) /\ second \subseteq Calls
        /\ info \in [Calls -> CallInfos] /\ slots \subseteq Calls
        /\ reclaimers \in Seq(Calls) /\ newcomers \in Seq(Calls)
        /\ IsInjective(reclaimers) /\ IsInjective(newcomers)
        /\ Cardinality(slots) <= MaxRuns
        /\ lent \subseteq Calls \ (slots \cup ToSet(reclaimers) \cup ToSet(newcomers))
        /\ slots \cap (ToSet(reclaimers) \cup ToSet(newcomers)) = {}
    BY RunsFacts
  <1>1. step[c] = "got" /\ UNCHANGED laneVars /\ info' = info /\ second' = second
    BY DEF TryReclaim
  <1>2. at' = at /\ lease' = lease
    BY <1>1 DEF laneVars, leaseVars
  <1>3. /\ c \in slots \cup lent /\ c \notin ToSet(newcomers)
        /\ c \notin ToSet(reclaimers)
        /\ at[c] = "in"
    BY <1>0, <1>1 DEF PoolOf, RunOf
  <1>a. "running" \in Steps /\ "giving" \in Steps
    BY DEF Steps
  <1>4. CASE c \notin lent /\ Goto(c, "running") /\ UNCHANGED poolVars
    <2>1. /\ slots' = slots /\ lent' = lent /\ reclaimers' = reclaimers
          /\ newcomers' = newcomers
      BY <1>4 DEF poolVars
    <2>2. step'[c] = "running"
      BY <1>0, <1>4 DEF Goto
    <2>3. PoolOf(c)' /\ RunOf(c)'
      BY <1>0, <1>1, <1>2, <1>3, <1>4, <2>1, <2>2 DEF PoolOf, RunOf, InTurn
    <2> QED BY <1>0, <1>1, <1>4, <1>a, <2>3, GoesOn
  <1>5. CASE /\ c \in lent /\ SlotFree /\ slots' = slots \cup {c} /\ lent' = lent \ {c}
             /\ Goto(c, "running") /\ UNCHANGED <<reclaimers, newcomers>>
    <2>1. Cardinality(slots') <= MaxRuns
      BY <1>5, SlotTaken
    <2>2. step'[c] = "running"
      BY <1>0, <1>5 DEF Goto
    <2>3. PoolOf(c)'
      BY <1>3, <1>5, <2>2 DEF PoolOf
    <2>4. RunOf(c)'
      BY <1>0, <1>1, <1>2, <1>3, <1>5, <2>2 DEF RunOf, InTurn
    <2> QED BY <1>0, <1>1, <1>3, <1>5, <1>a, <2>1, <2>3, <2>4, PoolStep
  <1>6. CASE c \in lent /\ Goto(c, "giving") /\ UNCHANGED poolVars
    <2>1. /\ slots' = slots /\ lent' = lent /\ reclaimers' = reclaimers
          /\ newcomers' = newcomers
      BY <1>6 DEF poolVars
    <2>2. step'[c] = "giving"
      BY <1>0, <1>6 DEF Goto
    <2>3. PoolOf(c)'
      BY <1>0, <1>3, <1>6, <2>1, <2>2 DEF PoolOf
    <2>4. RunOf(c)'
      BY <1>0, <1>1, <1>2, <1>3, <2>1, <2>2 DEF RunOf, InTurn, HasOwner
    <2> QED BY <1>0, <1>1, <1>6, <1>a, <2>3, <2>4, GoesOn
  <1> QED BY <1>4, <1>5, <1>6 DEF TryReclaim

\* Reclaim.
LEMMA ReclaimKeeps ==
    ASSUME RunsInv, NEW c \in Calls, Reclaim(c)
    PROVE  RunsInv'
  <1>0. /\ step \in [Calls -> Steps] /\ PoolOf(c) /\ RunOf(c) /\ second \subseteq Calls
        /\ info \in [Calls -> CallInfos] /\ slots \subseteq Calls
        /\ reclaimers \in Seq(Calls) /\ newcomers \in Seq(Calls)
        /\ IsInjective(reclaimers) /\ IsInjective(newcomers)
        /\ Cardinality(slots) <= MaxRuns
        /\ lent \subseteq Calls \ (slots \cup ToSet(reclaimers) \cup ToSet(newcomers))
        /\ slots \cap (ToSet(reclaimers) \cup ToSet(newcomers)) = {}
    BY RunsFacts
  <1>1. /\ UNCHANGED laneVars /\ info' = info /\ newcomers' = newcomers
        /\ lent' = lent \ {c}
        /\ second' \subseteq second
        /\ step[c] \in {"reclaim", "failed"}
    BY DEF Reclaim
  <1>2. at' = at /\ lease' = lease
    BY <1>1 DEF laneVars, leaseVars
  <1>3. /\ c \in lent /\ c \notin slots /\ c \notin ToSet(newcomers)
        /\ c \notin ToSet(reclaimers)
        /\ at[c] = "out" /\ ~info[c].noLease
    BY <1>0 DEF PoolOf, RunOf, Reclaim
  <1>4. CASE /\ SlotFree /\ slots' = slots \cup {c} /\ UNCHANGED reclaimers
             /\ Goto(c, IF step[c] = "failed" THEN "ending" ELSE "acquire")
    <2>1. Cardinality(slots') <= MaxRuns
      BY <1>4, SlotTaken
    <2>2. PICK s \in {"ending", "acquire"} : Goto(c, s)
      BY <1>4
    <2>3. step'[c] = s /\ s \in Steps
      BY <1>0, <2>2 DEF Goto, Steps
    <2>4. PoolOf(c)'
      BY <1>1, <1>3, <1>4, <2>3 DEF PoolOf
    <2>5. RunOf(c)'
      BY <1>0, <1>1, <1>2, <1>3, <1>4, <2>3 DEF RunOf, InTurn
    <2> QED BY <1>0, <1>1, <1>3, <1>4, <2>1, <2>2, <2>3, <2>4, <2>5, PoolStep
  <1>5. CASE reclaimers' = Append(reclaimers, c) /\ UNCHANGED slots /\ Goto(c, "reclaiming")
    <2>1. /\ reclaimers' \in Seq(Calls) /\ IsInjective(reclaimers')
          /\ ToSet(reclaimers') = ToSet(reclaimers) \cup {c}
      BY <1>0, <1>3, <1>5, FifoAppend
    <2>2. step'[c] = "reclaiming" /\ "reclaiming" \in Steps
      BY <1>0, <1>5 DEF Goto, Steps
    <2>3. PoolOf(c)'
      BY <1>1, <1>3, <1>5, <2>1, <2>2 DEF PoolOf
    <2>4. RunOf(c)'
      BY <1>0, <1>1, <1>2, <1>3, <2>2 DEF RunOf, InTurn, HasOwner
    <2> QED BY <1>0, <1>1, <1>3, <1>5, <2>1, <2>2, <2>3, <2>4, PoolStep
  <1> QED BY <1>4, <1>5 DEF Reclaim

\* ctx ends in the queue of the reclaimers.
LEMMA CancelReclaimKeeps ==
    ASSUME RunsInv, NEW c \in Calls, CancelReclaim(c)
    PROVE  RunsInv'
  <1>0. /\ step \in [Calls -> Steps] /\ PoolOf(c) /\ RunOf(c) /\ second \subseteq Calls
        /\ info \in [Calls -> CallInfos] /\ slots \subseteq Calls
        /\ reclaimers \in Seq(Calls) /\ newcomers \in Seq(Calls)
        /\ IsInjective(reclaimers) /\ IsInjective(newcomers)
        /\ Cardinality(slots) <= MaxRuns
        /\ lent \subseteq Calls \ (slots \cup ToSet(reclaimers) \cup ToSet(newcomers))
        /\ slots \cap (ToSet(reclaimers) \cup ToSet(newcomers)) = {}
    BY RunsFacts
  <1>1. /\ step[c] = "reclaiming" /\ c \notin slots
        /\ reclaimers' = RemoveFirst(reclaimers, c)
        /\ lent' = lent \cup {c} /\ Goto(c, "ending") /\ UNCHANGED laneVars
        /\ info' = info /\ slots' = slots /\ newcomers' = newcomers /\ second' = second
    BY DEF CancelReclaim
  <1>2. at' = at /\ lease' = lease
    BY <1>1 DEF laneVars, leaseVars
  <1>3. /\ c \in ToSet(reclaimers) /\ c \notin ToSet(newcomers) /\ at[c] = "out"
        /\ ~info[c].noLease
    BY <1>0, <1>1 DEF PoolOf, RunOf
  <1>4. /\ reclaimers' \in Seq(Calls) /\ IsInjective(reclaimers')
        /\ ToSet(reclaimers') = ToSet(reclaimers) \ {c}
    BY <1>0, <1>1, FifoRemove
  <1>5. step'[c] = "ending" /\ "ending" \in Steps
    BY <1>0, <1>1 DEF Goto, Steps
  <1>6. PoolOf(c)'
    BY <1>1, <1>3, <1>4, <1>5 DEF PoolOf
  <1>7. RunOf(c)'
    BY <1>0, <1>1, <1>2, <1>3, <1>5 DEF RunOf, InTurn
  <1> QED BY <1>0, <1>1, <1>3, <1>4, <1>5, <1>6, <1>7, PoolStep

\* RunSlot.end.
LEMMA EndRunKeeps ==
    ASSUME RunsInv, NEW c \in Calls, EndRun(c)
    PROVE  RunsInv'
  <1>0. /\ step \in [Calls -> Steps] /\ PoolOf(c) /\ RunOf(c) /\ second \subseteq Calls
        /\ info \in [Calls -> CallInfos] /\ slots \subseteq Calls
        /\ reclaimers \in Seq(Calls) /\ newcomers \in Seq(Calls)
        /\ IsInjective(reclaimers) /\ IsInjective(newcomers)
        /\ Cardinality(slots) <= MaxRuns
        /\ lent \subseteq Calls \ (slots \cup ToSet(reclaimers) \cup ToSet(newcomers))
        /\ slots \cap (ToSet(reclaimers) \cup ToSet(newcomers)) = {}
    BY RunsFacts
  <1>1. /\ step[c] = "closing" /\ info' = [info EXCEPT ![c] = NoInfo]
        /\ second' = second \ {c}
        /\ Goto(c, "idle") /\ UNCHANGED laneVars
    BY DEF EndRun
  <1>2. at' = at
    BY <1>1 DEF laneVars
  <1>3. /\ c \in slots \cup lent /\ c \notin ToSet(newcomers)
        /\ c \notin ToSet(reclaimers)
        /\ at[c] = "out"
    BY <1>0, <1>1 DEF PoolOf, RunOf
  <1>4. /\ info' \in [Calls -> CallInfos] /\ info'[c] = NoInfo
        /\ \A d \in Calls \ {c} : info'[d] = info[d]
    BY <1>0, <1>1, NoInfoIsInfo
  <1>5. step'[c] = "idle" /\ "idle" \in Steps
    BY <1>0, <1>1 DEF Goto, Steps
  <1>6. ASSUME c \notin lent', c \notin ToSet(reclaimers') PROVE RunOf(c)'
    BY <1>2, <1>3, <1>4, <1>5, <1>6 DEF RunOf, InTurn
  <1>7. CASE c \in lent /\ lent' = lent \ {c} /\ UNCHANGED <<slots, reclaimers, newcomers>>
    <2>1. PoolOf(c)'
      BY <1>0, <1>3, <1>5, <1>7 DEF PoolOf
    <2>2. RunOf(c)'
      BY <1>3, <1>6, <1>7
    <2> QED BY <1>0, <1>1, <1>3, <1>4, <1>5, <1>7, <2>1, <2>2, PoolStep
  <1>8. CASE c \notin lent /\ PassOn(c) /\ UNCHANGED lent
    <2>1. /\ slots' \subseteq Calls /\ c \notin slots' /\ Cardinality(slots') <= MaxRuns
          /\ reclaimers' \in Seq(Calls) /\ newcomers' \in Seq(Calls)
          /\ IsInjective(reclaimers') /\ IsInjective(newcomers')
          /\ slots' \cap (ToSet(reclaimers') \cup ToSet(newcomers')) = {}
          /\ ToSet(reclaimers') \subseteq ToSet(reclaimers)
          /\ ToSet(newcomers') \subseteq ToSet(newcomers)
          /\ slots \ {c} \subseteq slots'
          /\ slots' \subseteq slots \cup ToSet(reclaimers) \cup ToSet(newcomers)
          /\ ToSet(reclaimers) \subseteq slots' \cup ToSet(reclaimers')
          /\ ToSet(newcomers) \subseteq slots' \cup ToSet(newcomers')
      BY <1>3, <1>8, PassOnEffect
    <2>2. PoolOf(c)'
      BY <1>3, <1>5, <1>8, <2>1 DEF PoolOf
    <2>3. RunOf(c)'
      BY <1>3, <1>6, <1>8, <2>1
    <2>4. lent' \subseteq Calls /\ lent' \cap slots' = {}
          /\ lent' \cap (ToSet(reclaimers') \cup ToSet(newcomers')) = {}
      BY <1>0, <1>8, <2>1
    <2>5. \A d \in Calls \ {c} :
             /\ d \in lent' <=> d \in lent
             /\ d \in slots => d \in slots'
             /\ d \in slots' => d \in slots \cup ToSet(reclaimers) \cup ToSet(newcomers)
             /\ d \in ToSet(reclaimers) => d \in slots' \cup ToSet(reclaimers')
             /\ d \in ToSet(newcomers) => d \in slots' \cup ToSet(newcomers')
             /\ d \in ToSet(reclaimers') => d \in ToSet(reclaimers)
             /\ d \in ToSet(newcomers') => d \in ToSet(newcomers)
      BY <1>8, <2>1
    <2>6. second' \subseteq Calls
      BY <1>0, <1>1
    <2> QED BY <1>1, <1>3, <1>4, <1>5, <2>1, <2>2, <2>3, <2>4, <2>5, <2>6, PoolStep
  <1> QED BY <1>7, <1>8 DEF EndRun
-----------------------------------------------------------------------------
(* Steps of the lane.                                                      *)

\* A step of the lane that moves one run.
LEMMA LaneStep ==
    ASSUME RunsInv, LaneInv', NEW c \in Calls, NEW s \in Steps, Goto(c, s), info' = info,
           UNCHANGED poolVars, second' \subseteq Calls,
           \A d \in Calls \ {c} : at'[d] = at[d],
           \A o \in Owners : lease'[o] = "idle" =>
              lease[o] = "idle" \/ (HasOwner(c) /\ o = info[c].owner),
           PoolOf(c)', RunOf(c)'
    PROVE  RunsInv'
  <1>0. /\ LaneType /\ step \in [Calls -> Steps] /\ PoolInv
        /\ \A d \in Calls : PoolOf(d) /\ RunOf(d)
    BY RunsFacts
  <1>1. step' = [step EXCEPT ![c] = s]
    BY DEF Goto
  <1>2. /\ slots' = slots /\ lent' = lent /\ reclaimers' = reclaimers
        /\ newcomers' = newcomers
    BY DEF poolVars
  <1>3. TypeOK' /\ IsInjective(reclaimers') /\ IsInjective(newcomers')
        /\ Cardinality(slots') <= MaxRuns
    BY <1>0, <1>1, <1>2 DEF PoolInv, TypeOK
  <1>4. ASSUME NEW d \in Calls, d # c PROVE PoolOf(d)' /\ RunOf(d)'
    <2>1. step'[d] = step[d] /\ at'[d] = at[d] /\ PoolOf(d) /\ RunOf(d)
      BY <1>0, <1>1, <1>4
    <2>2. PoolOf(d)'
      BY <1>2, <2>1 DEF PoolOf
    <2>3. HasOwner(d) => info[d].owner \in Owners
      BY <1>0, InfoFacts
    <2>4. HasOwner(c) => info[c].owner # info[d].owner
      BY <1>4, OwnOwner
    <2>5. HasOwner(d) /\ lease[info[d].owner] # "idle" => lease'[info[d].owner] # "idle"
      BY <2>3, <2>4
    <2>6. RunOf(d)'
      BY <1>2, <2>1, <2>5 DEF RunOf, HasOwner
    <2> QED BY <2>2, <2>6
  <1>5. \A d \in Calls : PoolOf(d)' /\ RunOf(d)'
    BY <1>4
  <1> QED BY <1>3, <1>5 DEF RunsInv, PoolInv

\* A step of the lane that moves no run.
LEMMA LoopStep ==
    ASSUME RunsInv, LaneInv', info' = info, step' = step, second' = second, UNCHANGED poolVars,
           \A d \in Calls : at'[d] = at[d] \/ (at[d] = "queued" /\ at'[d] = "granted"),
           \A o \in Owners : lease'[o] = "idle" => lease[o] = "idle"
    PROVE  RunsInv'
  <1>0. LaneType /\ PoolInv /\ \A d \in Calls : PoolOf(d) /\ RunOf(d)
    BY RunsFacts
  <1>1. /\ slots' = slots /\ lent' = lent /\ reclaimers' = reclaimers
        /\ newcomers' = newcomers
    BY DEF poolVars
  <1>2. PoolInv'
    BY <1>0, <1>1 DEF PoolInv, PoolOf, TypeOK
  <1>3. ASSUME NEW d \in Calls PROVE RunOf(d)'
    <2>1. RunOf(d) /\ (HasOwner(d) => info[d].owner \in Owners)
      BY <1>0, InfoFacts
    <2>2. HasOwner(d) /\ lease[info[d].owner] # "idle" => lease'[info[d].owner] # "idle"
      BY <2>1
    <2>3. at'[d] = at[d] \/ (at[d] = "queued" /\ at'[d] = "granted")
      OBVIOUS
    <2>4. CASE at'[d] = at[d]
      BY <1>1, <2>1, <2>2, <2>4 DEF RunOf, HasOwner
    <2>5. CASE at[d] = "queued" /\ at'[d] = "granted"
      BY <1>1, <2>1, <2>2, <2>5 DEF RunOf, HasOwner
    <2> QED BY <2>3, <2>4, <2>5
  <1> QED BY <1>2, <1>3 DEF RunsInv

\* acquire.
LEMMA EnterLaneKeeps ==
    ASSUME RunsInv, NEW c \in Calls, EnterLane(c)
    PROVE  RunsInv'
  <1>0. /\ LaneInv /\ LaneType /\ step \in [Calls -> Steps] /\ PoolOf(c) /\ RunOf(c)
        /\ second \subseteq Calls /\ info \in [Calls -> CallInfos]
        /\ at \in [Calls -> Phases]
    BY RunsFacts
  <1>1. step[c] = "acquire" /\ info' = info /\ UNCHANGED poolVars /\ second' = second
    BY DEF EnterLane
  <1>2. /\ slots' = slots /\ lent' = lent /\ reclaimers' = reclaimers
        /\ newcomers' = newcomers
    BY <1>1 DEF poolVars
  <1>3. /\ c \in slots /\ at[c] \in {"out", "entering"}
        /\ (HasOwner(c) => info[c].owner \in Owners)
    BY <1>0, <1>1, InfoFacts DEF PoolOf, RunOf
  <1>a. SlotsExclusive /\ lease \in [Owners -> {"none", "busy", "idle"}]
    BY <1>0, LaneNumbers DEF LaneType, LeaseType
  <1>4. ASSUME NEW s \in {"got", "notify", "waitLane", "acquire"}, step'[c] = s PROVE PoolOf(c)'
    BY <1>0, <1>1, <1>2, <1>3, <1>4 DEF PoolOf
  <1>5. CASE AcquireLeased(c) /\ Goto(c, "got")
    <2>1. LaneInv'
      BY <1>0, <1>1, <1>5, AcquireLeasedKeeps
    <2>2. /\ at' = [at EXCEPT ![c] = "in"] /\ HasOwner(c)
          /\ lease' = [lease EXCEPT ![info[c].owner] = "busy"]
      BY <1>5 DEF AcquireLeased, OwnerIdle
    <2>3. step'[c] = "got" /\ "got" \in Steps
      BY <1>0, <1>5 DEF Goto, Steps
    <2>4. at'[c] = "in" /\ \A d \in Calls \ {c} : at'[d] = at[d]
      BY <1>0, <2>2
    <2>5. /\ lease'[info[c].owner] = "busy"
          /\ \A o \in Owners : lease'[o] = "idle" => lease[o] = "idle"
      BY <1>3, <1>a, <2>2
    <2>6. RunOf(c)'
      BY <1>0, <1>1, <1>2, <2>3, <2>4, <2>5 DEF RunOf
    <2>7. PoolOf(c)'
      BY <1>4, <2>3
    <2> QED BY <1>0, <1>1, <1>5, <2>1, <2>3, <2>4, <2>5, <2>6, <2>7, LaneStep
  <1>6. CASE AcquireYield(c) /\ UNCHANGED step
    <2>1. LaneInv'
      BY <1>0, <1>1, <1>6, AcquireYieldKeeps
    <2>2. at' = [at EXCEPT ![c] = "entering"] /\ DropIdle({info[c].owner}) /\ OwnerIdle(c)
      BY <1>6 DEF AcquireYield
    <2>3. step'[c] = "acquire" /\ "acquire" \in Steps /\ Goto(c, "acquire")
      BY <1>0, <1>1, <1>6 DEF Goto, Steps
    <2>4. at'[c] = "entering" /\ \A d \in Calls \ {c} : at'[d] = at[d]
      BY <1>0, <2>2
    <2>5. \A o \in Owners : lease'[o] = "idle" => lease[o] = "idle"
      BY <2>2 DEF DropIdle, EndLeases
    <2>6. RunOf(c)'
      BY <1>0, <1>1, <1>2, <2>3, <2>4 DEF RunOf, InTurn
    <2>7. PoolOf(c)'
      BY <1>4, <2>3
    <2> QED BY <1>0, <1>1, <2>1, <2>3, <2>4, <2>5, <2>6, <2>7, LaneStep
  <1>7. CASE /\ AcquireSlot(c)
             /\ Goto(c, IF at'[c] = "in" THEN "got" ELSE IF Lends(c) THEN "notify" ELSE "waitLane")
    <2>1. LaneInv'
      BY <1>0, <1>1, <1>7, AcquireSlotKeeps
    <2>2. ~info[c].noLease /\ HasOwner(c) => lease[info[c].owner] # "idle"
      <3>1. EnteringAlone
        BY <1>0, LaneNumbers
      <3> QED BY <1>7, <3>1 DEF AcquireSlot, OwnerIdle, EnteringAlone
    <2>3. info[c].bound < 0 /\ info[c].bound \in Int
      BY <1>0, RunsUnbounded, InfoFacts
    <2>4. \/ Grant(c) /\ at' = [at EXCEPT ![c] = "in"]
          \/ at' = [at EXCEPT ![c] = "queued"] /\ lease' = lease
      BY <1>7, <2>3 DEF AcquireSlot, leaseVars
    <2>5. \A o \in Owners : lease'[o] = "idle" => lease[o] = "idle"
      BY <1>0, <1>a, <2>4, GrantEffect
    <2>6. at'[c] \in {"in", "queued"} /\ \A d \in Calls \ {c} : at'[d] = at[d]
      BY <1>0, <2>4
    <2>7. PICK s \in {"got", "notify", "waitLane"} :
            /\ Goto(c, s) /\ (s = "got" => at'[c] = "in")
            /\ (s # "got" => at'[c] = "queued") /\ (s = "notify" => ~info[c].noLease)
      <3>1. CASE at'[c] = "in"
        BY <1>7, <3>1
      <3>2. CASE at'[c] = "queued" /\ Lends(c)
        BY <1>7, <3>2 DEF Lends
      <3>3. CASE at'[c] = "queued" /\ ~Lends(c)
        BY <1>7, <3>3
      <3> QED BY <2>6, <3>1, <3>2, <3>3
    <2>8. step'[c] = s /\ s \in Steps
      BY <1>0, <2>7 DEF Goto, Steps
    <2>9. PoolOf(c)'
      BY <1>4, <2>8
    <2>10. ~info[c].noLease /\ HasOwner(c) => lease'[info[c].owner] # "idle"
      BY <1>3, <2>2, <2>5
    <2>11. RunOf(c)'
      BY <1>0, <1>1, <1>2, <2>7, <2>8, <2>10 DEF RunOf, HasOwner
    <2> QED BY <1>0, <1>1, <2>1, <2>5, <2>6, <2>7, <2>8, <2>9, <2>11, LaneStep
  <1> QED BY <1>5, <1>6, <1>7 DEF EnterLane

\* A queued run learns that it has its slot.
LEMMA LaneGrantedKeeps ==
    ASSUME RunsInv, NEW c \in Calls, LaneGranted(c)
    PROVE  RunsInv'
  <1>0. /\ LaneInv /\ step \in [Calls -> Steps] /\ PoolOf(c) /\ RunOf(c)
        /\ second \subseteq Calls /\ at \in [Calls -> Phases]
    BY RunsFacts
  <1>1. /\ step[c] = "waitLane" /\ Wake(c) /\ Goto(c, "got") /\ info' = info
        /\ UNCHANGED poolVars /\ second' = second
    BY DEF LaneGranted
  <1>2. /\ slots' = slots /\ lent' = lent /\ reclaimers' = reclaimers
        /\ newcomers' = newcomers
    BY <1>1 DEF poolVars
  <1>3. LaneInv'
    BY <1>0, <1>1, WakeKeeps
  <1>4. at' = [at EXCEPT ![c] = "in"] /\ lease' = lease
    BY <1>1 DEF Wake, leaseVars
  <1>5. at'[c] = "in" /\ \A d \in Calls \ {c} : at'[d] = at[d]
    BY <1>0, <1>4
  <1>6. step'[c] = "got" /\ "got" \in Steps
    BY <1>0, <1>1 DEF Goto, Steps
  <1>7. PoolOf(c)'
    BY <1>0, <1>1, <1>2, <1>6 DEF PoolOf
  <1>8. RunOf(c)'
    BY <1>0, <1>1, <1>2, <1>4, <1>5, <1>6 DEF RunOf, InTurn, HasOwner
  <1> QED BY <1>0, <1>1, <1>3, <1>4, <1>5, <1>6, <1>7, <1>8, LaneStep

\* A call that was granted and is not made leaves no reservation.
LEMMA AbandonedEffect ==
    ASSUME RunsInv, NEW c \in Calls, at[c] \in {"granted", "in"}, Finish(c, TRUE)
    PROVE  at' = [at EXCEPT ![c] = "out"] /\ \A o \in Owners : lease'[o] = "idle" => lease[o] = "idle"
  <1>1. SlotInv /\ c \in InFlight
    BY RunsFacts, LaneNumbers DEF InFlight
  <1>2. at' = [at EXCEPT ![c] = "out"] /\ Frees(c)
    BY <1>1, FinishEffect
  <1> QED BY <1>2 DEF Frees

\* ctx ends during the wait for the lane.
LEMMA CancelInLaneKeeps ==
    ASSUME RunsInv, NEW c \in Calls, CancelInLane(c)
    PROVE  RunsInv'
  <1>0. /\ LaneInv /\ step \in [Calls -> Steps] /\ PoolOf(c) /\ RunOf(c)
        /\ second \subseteq Calls /\ at \in [Calls -> Phases] /\ LaneType
    BY RunsFacts
  <1>1. /\ step[c] = "waitLane" /\ (Withdraw(c) \/ Abandon(c)) /\ Goto(c, "failed")
        /\ info' = info
        /\ UNCHANGED poolVars /\ second' = second
    BY DEF CancelInLane
  <1>2. /\ slots' = slots /\ lent' = lent /\ reclaimers' = reclaimers
        /\ newcomers' = newcomers
    BY <1>1 DEF poolVars
  <1>3. LaneInv'
    BY <1>0, <1>1, WithdrawKeeps, EndsKeep
  <1>4. at' = [at EXCEPT ![c] = "out"] /\ \A o \in Owners : lease'[o] = "idle" => lease[o] = "idle"
    <2>1. CASE Withdraw(c)
      BY <2>1 DEF Withdraw, leaseVars
    <2>2. CASE Abandon(c)
      BY <2>2, AbandonedEffect DEF Abandon
    <2> QED BY <1>1, <2>1, <2>2
  <1>5. at'[c] = "out" /\ \A d \in Calls \ {c} : at'[d] = at[d]
    BY <1>0, <1>4
  <1>6. step'[c] = "failed" /\ "failed" \in Steps
    BY <1>0, <1>1 DEF Goto, Steps
  <1>7. PoolOf(c)'
    BY <1>0, <1>1, <1>2, <1>6 DEF PoolOf
  <1>8. HasOwner(c) => info[c].owner \in Owners
    BY <1>0, InfoFacts
  <1>9. RunOf(c)'
    BY <1>0, <1>1, <1>2, <1>4, <1>5, <1>6, <1>8 DEF RunOf, InTurn, HasOwner
  <1> QED BY <1>0, <1>1, <1>3, <1>4, <1>5, <1>6, <1>7, <1>9, LaneStep

\* giveBack.
LEMMA GiveLaneBackKeeps ==
    ASSUME RunsInv, NEW c \in Calls, GiveLaneBack(c)
    PROVE  RunsInv'
  <1>0. /\ LaneInv /\ step \in [Calls -> Steps] /\ PoolOf(c) /\ RunOf(c)
        /\ second \subseteq Calls /\ at \in [Calls -> Phases] /\ LaneType
    BY RunsFacts
  <1>1. /\ step[c] = "giving" /\ GiveBack(c) /\ Goto(c, "reclaim") /\ info' = info
        /\ UNCHANGED poolVars /\ second' = second \cup {c}
    BY DEF GiveLaneBack
  <1>2. /\ slots' = slots /\ lent' = lent /\ reclaimers' = reclaimers
        /\ newcomers' = newcomers
    BY <1>1 DEF poolVars
  <1>3. LaneInv'
    BY <1>0, <1>1, EndsKeep
  <1>4. at' = [at EXCEPT ![c] = "out"] /\ \A o \in Owners : lease'[o] = "idle" => lease[o] = "idle"
    BY <1>1, AbandonedEffect DEF GiveBack
  <1>5. at'[c] = "out" /\ \A d \in Calls \ {c} : at'[d] = at[d]
    BY <1>0, <1>4
  <1>6. step'[c] = "reclaim" /\ "reclaim" \in Steps
    BY <1>0, <1>1 DEF Goto, Steps
  <1>7. PoolOf(c)'
    BY <1>0, <1>1, <1>2, <1>6 DEF PoolOf
  <1>8. HasOwner(c) => info[c].owner \in Owners
    BY <1>0, InfoFacts
  <1>9. RunOf(c)'
    BY <1>0, <1>1, <1>2, <1>4, <1>5, <1>6, <1>8 DEF RunOf, InTurn, HasOwner
  <1>10. second' \subseteq Calls
    BY <1>0, <1>1
  <1> QED BY <1>1, <1>3, <1>4, <1>5, <1>6, <1>7, <1>9, <1>10, LaneStep

\* A call ends: its slot may stay reserved for its own run.
LEMMA EndCallKeeps ==
    ASSUME RunsInv, NEW c \in Calls, EndCall(c)
    PROVE  RunsInv'
  <1>0. /\ LaneInv /\ step \in [Calls -> Steps] /\ PoolOf(c) /\ RunOf(c)
        /\ second \subseteq Calls /\ at \in [Calls -> Phases] /\ LaneType /\ SlotInv
        /\ lease \in [Owners -> {"none", "busy", "idle"}]
    BY RunsFacts, LaneNumbers DEF LaneType, LeaseType
  <1>1. /\ step[c] = "running" /\ Release(c) /\ Goto(c, "work") /\ info' = info
        /\ UNCHANGED poolVars /\ second' = second \ {c}
    BY DEF EndCall
  <1>2. /\ slots' = slots /\ lent' = lent /\ reclaimers' = reclaimers
        /\ newcomers' = newcomers
    BY <1>1 DEF poolVars
  <1>3. LaneInv'
    BY <1>0, <1>1, EndsKeep
  <1>4. c \in InFlight /\ Finish(c, FALSE)
    BY <1>1 DEF Release, InFlight
  <1>5. at' = [at EXCEPT ![c] = "out"] /\ (Keeps(c) \/ Frees(c))
    BY <1>0, <1>4, FinishEffect
  <1>6. \A o \in Owners : lease'[o] = "idle" =>
              lease[o] = "idle" \/ (HasOwner(c) /\ o = info[c].owner)
    <2>1. CASE Keeps(c)
      <3>1. HasOwner(c) /\ lease' = [lease EXCEPT ![info[c].owner] = "idle"]
        BY <2>1 DEF Keeps
      <3> QED BY <1>0, <3>1
    <2>2. CASE Frees(c)
      BY <2>2 DEF Frees
    <2> QED BY <1>5, <2>1, <2>2
  <1>7. at'[c] = "out" /\ \A d \in Calls \ {c} : at'[d] = at[d]
    BY <1>0, <1>5
  <1>8. step'[c] = "work" /\ "work" \in Steps
    BY <1>0, <1>1 DEF Goto, Steps
  <1>9. PoolOf(c)'
    BY <1>0, <1>1, <1>2, <1>8 DEF PoolOf
  <1>10. RunOf(c)'
    BY <1>0, <1>1, <1>2, <1>7, <1>8 DEF RunOf, InTurn
  <1>11. second' \subseteq Calls
    BY <1>0, <1>1
  <1> QED BY <1>1, <1>3, <1>6, <1>7, <1>8, <1>9, <1>10, <1>11, LaneStep

\* RunDone.
LEMMA RunDoneKeeps ==
    ASSUME RunsInv, NEW c \in Calls, RunDone(c)
    PROVE  RunsInv'
  <1>0. /\ LaneInv /\ step \in [Calls -> Steps] /\ PoolOf(c) /\ RunOf(c)
        /\ second \subseteq Calls /\ at \in [Calls -> Phases] /\ LaneType
        /\ info \in [Calls -> CallInfos]
    BY RunsFacts
  <1>1. /\ step[c] = "ending" /\ Goto(c, "closing") /\ info' = info
        /\ UNCHANGED poolVars /\ second' = second
    BY DEF RunDone
  <1>2. /\ slots' = slots /\ lent' = lent /\ reclaimers' = reclaimers
        /\ newcomers' = newcomers
    BY <1>1 DEF poolVars
  <1>3. \/ HasOwner(c) /\ Done(info[c].owner)
        \/ UNCHANGED laneVars
    BY DEF RunDone
  <1>4. LaneInv' /\ at' = at /\ \A o \in Owners : lease'[o] = "idle" => lease[o] = "idle"
    <2>1. CASE HasOwner(c) /\ Done(info[c].owner)
      <3>1. info[c].owner \in Owners
        BY <1>0, <2>1, InfoFacts
      <3>2. LaneInv'
        BY <1>0, <1>1, <2>1, <3>1, DoneKeeps
      <3>3. EndLeases({info[c].owner}) /\ at' = at
        BY <2>1 DEF Done, GiveUp, DropIdle
      <3> QED BY <3>2, <3>3 DEF EndLeases
    <2>2. CASE UNCHANGED laneVars
      <3>1. LaneInv'
        BY <1>0, <1>1, <2>2, InfoKeeps
      <3> QED BY <2>2, <3>1 DEF laneVars, leaseVars
    <2> QED BY <1>3, <2>1, <2>2
  <1>5. at[c] = "out"
    BY <1>0, <1>1 DEF RunOf
  <1>6. step'[c] = "closing" /\ "closing" \in Steps
    BY <1>0, <1>1 DEF Goto, Steps
  <1>7. PoolOf(c)'
    BY <1>0, <1>1, <1>2, <1>6 DEF PoolOf
  <1>8. RunOf(c)'
    BY <1>0, <1>1, <1>2, <1>4, <1>5, <1>6 DEF RunOf, InTurn
  <1> QED BY <1>0, <1>1, <1>4, <1>6, <1>7, <1>8, LaneStep

\* The lane's own steps: its loop and its timers.
LEMMA LaneLoopKeeps ==
    ASSUME RunsInv, LaneLoop
    PROVE  RunsInv'
  <1>0. /\ LaneInv /\ LaneType /\ at \in [Calls -> Phases] /\ SlotsExclusive
        /\ Queued = Waiting
    BY RunsFacts, LaneNumbers
  <1>1. /\ DispatchOne \/ DispatchEnd
        /\ info' = info /\ step' = step /\ second' = second /\ UNCHANGED poolVars
    BY DEF LaneLoop
  <1>2. CASE DispatchOne
    <2>1. LaneInv'
      BY <1>0, <1>1, <1>2, DispatchOneKeeps
    <2>2. PICK w \in Queued : Grant(w) /\ at' = [at EXCEPT ![w] = "granted"]
      BY <1>2 DEF DispatchOne
    <2>3. w \in Calls /\ at[w] = "queued"
      BY <1>0, <2>2 DEF Waiting
    <2>4. \A o \in Owners : lease'[o] = "idle" => lease[o] = "idle"
      BY <1>0, <2>2, <2>3, GrantEffect
    <2>5. \A d \in Calls : at'[d] = at[d] \/ (at[d] = "queued" /\ at'[d] = "granted")
      BY <1>0, <2>2, <2>3
    <2> QED BY <1>1, <2>1, <2>4, <2>5, LoopStep
  <1>3. CASE DispatchEnd
    <2>1. LaneInv'
      BY <1>0, <1>1, <1>3, DispatchEndKeeps
    <2>2. at' = at /\ lease' = lease
      BY <1>3 DEF DispatchEnd, leaseVars
    <2> QED BY <1>1, <2>1, <2>2, LoopStep
  <1> QED BY <1>1, <1>2, <1>3

\* The timers.
LEMMA TimersKeep ==
    ASSUME RunsInv, NEW o \in Owners, HoldClock(o) \/ TimerRuns(o)
    PROVE  RunsInv'
  <1>0. LaneInv
    BY RunsFacts
  <1>1. /\ HoldRunsOut(o) \/ Expire(o)
        /\ info' = info /\ step' = step /\ second' = second /\ UNCHANGED poolVars
    BY DEF HoldClock, TimerRuns
  <1>2. LaneInv'
    BY <1>0, <1>1, HoldRunsOutKeeps, ExpireKeeps
  <1>3. at' = at /\ \A p \in Owners : lease'[p] = "idle" => lease[p] = "idle"
    <2>1. CASE HoldRunsOut(o)
      BY <2>1 DEF HoldRunsOut
    <2>2. CASE Expire(o)
      <3>1. CASE Expired(o)
        <4>1. GiveUp({o})
          BY <2>2, <3>1 DEF Expire
        <4> QED BY <4>1 DEF GiveUp, DropIdle, EndLeases
      <3>2. CASE ~Expired(o)
        BY <2>2, <3>2 DEF Expire, leaseVars
      <3> QED BY <3>1, <3>2
    <2> QED BY <1>1, <2>1, <2>2
  <1> QED BY <1>1, <1>2, <1>3, LoopStep
-----------------------------------------------------------------------------
\* Every step keeps the invariant.
LEMMA RunsNext ==
    ASSUME RunsInv, [Next]_vars
    PROVE  RunsInv'
  <1>1. CASE UNCHANGED vars
    <2>1. /\ info' = info /\ UNCHANGED laneVars /\ UNCHANGED poolVars /\ step' = step
          /\ second' = second
      BY <1>1 DEF vars
    <2>2. LaneInv /\ info \in [Calls -> CallInfos]
      BY RunsFacts
    <2>3. LaneInv'
      BY <2>1, <2>2, InfoKeeps
    <2>4. at' = at /\ lease' = lease
      BY <2>1 DEF laneVars, leaseVars
    <2> QED BY <2>1, <2>3, <2>4, LoopStep
  <1>2. CASE \E o \in Owners : HoldClock(o) \/ TimerRuns(o)
    BY <1>2, TimersKeep
  <1>3. CASE LaneLoop
    BY <1>3, LaneLoopKeeps
  <1>4. ASSUME NEW c \in Calls,
               \/ StartRun(c) \/ Started(c) \/ (\E i \in Infos[c] : BeginCall(c, i))
               \/ EnterLane(c) \/ Lend(c) \/ LaneGranted(c) \/ CancelInLane(c)
               \/ TryReclaim(c) \/ GiveLaneBack(c)
               \/ Reclaim(c) \/ Reclaimed(c) \/ CancelReclaim(c) \/ Failed(c)
               \/ EndCall(c) \/ LastTurn(c) \/ RunDone(c) \/ EndRun(c)
        PROVE  RunsInv'
    BY <1>4, StartRunKeeps, AloneKeeps, BeginCallKeeps, EnterLaneKeeps, LendKeeps,
       LaneGrantedKeeps, CancelInLaneKeeps, TryReclaimKeeps, GiveLaneBackKeeps, ReclaimKeeps,
       CancelReclaimKeeps, EndCallKeeps, RunDoneKeeps, EndRunKeeps
  <1> QED BY <1>1, <1>2, <1>3, <1>4 DEF Next

\* The inductive invariant holds in every state.
THEOREM RunsAlways == Spec => []RunsInv
  <1>1. Init => RunsInv
    BY RunsStart
  <1>2. RunsInv /\ [Next]_vars => RunsInv'
    BY RunsNext
  <1> QED BY <1>1, <1>2, PTL DEF Spec

\* A run that computes holds one of the semaphore's run slots: TryReclaim and
\* Reclaim (lend.go) take back what onWait lent, whatever the lane does meanwhile.
THEOREM WorksHoldingSlotAlways == Spec => []WorksHoldingSlot
  <1>1. RunsInv => WorksHoldingSlot
    <2> SUFFICES ASSUME RunsInv PROVE WorksHoldingSlot
      OBVIOUS
    <2>1. PoolInv /\ \A c \in Calls : PoolOf(c)
      BY RunsFacts
    <2> QED BY <2>1 DEF WorksHoldingSlot, PoolInv, PoolOf
  <1> QED BY <1>1, RunsAlways, PTL

\* A run that waits to take its run slot back holds nothing of the lane: giveBack
\* (lanegate.go) leaves it neither the slot nor a reservation.
THEOREM ReclaimerHoldsNothingAlways == Spec => []ReclaimerHoldsNothing
  <1>1. RunsInv => ReclaimerHoldsNothing
    <2> SUFFICES ASSUME RunsInv, NEW c \in ToSet(reclaimers)
                 PROVE  at[c] = "out" /\ (HasOwner(c) => lease[info[c].owner] # "idle")
      BY DEF ReclaimerHoldsNothing
    <2>1. c \in Calls
      BY RunsFacts DEF ToSet
    <2>2. PoolOf(c) /\ RunOf(c)
      BY <2>1, RunsFacts
    <2>3. step[c] = "reclaiming"
      BY <2>2 DEF PoolOf
    <2> QED BY <2>2, <2>3 DEF RunOf, InTurn
  <1> QED BY <1>1, RunsAlways, PTL

\* The lane keeps its promises to runs that lend and reclaim (lane.go).
THEOREM LaneSafeBetweenRuns ==
    Spec => [](SlotsExclusive /\ ReservationsFit /\ NoWaiterBesideFreeSlot /\ NoSelfBlock)
  <1>1. RunsInv => SlotsExclusive /\ ReservationsFit /\ NoWaiterBesideFreeSlot /\ NoSelfBlock
    BY RunsFacts, LaneSafe
  <1> QED BY <1>1, RunsAlways, PTL
-----------------------------------------------------------------------------
(* The run slots are a slot pool.                                          *)

\* The runs that wait for a run slot.
SlotSeekers == ToSet(reclaimers) \cup ToSet(newcomers)

Pool == INSTANCE SlotPool WITH
            Clients <- Calls, Caps <- {MaxRuns}, cap <- MaxRuns,
            holders <- slots, waiters <- SlotSeekers

\* What a step does to the holders of a run slot and to the ones that wait.
LEMMA RunSlotMoves ==
    ASSUME RunsInv, Next
    PROVE  \/ slots' = slots /\ SlotSeekers' = SlotSeekers
           \/ \E c \in Calls \ slots :
                 SlotFree /\ slots' = slots \cup {c} /\ SlotSeekers' = SlotSeekers
           \/ \E c \in Calls \ (slots \cup SlotSeekers) :
                 ~SlotFree /\ slots' = slots /\ SlotSeekers' = SlotSeekers \cup {c}
           \/ \E c \in SlotSeekers : slots' = slots /\ SlotSeekers' = SlotSeekers \ {c}
           \/ \E c \in slots : SlotSeekers = {} /\ SlotSeekers' = {} /\ slots' = slots \ {c}
           \/ \E c \in slots, d \in SlotSeekers :
                 slots' = (slots \ {c}) \cup {d} /\ SlotSeekers' = SlotSeekers \ {d}
  <1> DEFINE Same == slots' = slots /\ SlotSeekers' = SlotSeekers
             Take == \E c \in Calls \ slots :
                        SlotFree /\ slots' = slots \cup {c} /\ SlotSeekers' = SlotSeekers
             Join == \E c \in Calls \ (slots \cup SlotSeekers) :
                        ~SlotFree /\ slots' = slots /\ SlotSeekers' = SlotSeekers \cup {c}
             Quit == \E c \in SlotSeekers : slots' = slots /\ SlotSeekers' = SlotSeekers \ {c}
             Free == \E c \in slots : SlotSeekers = {} /\ SlotSeekers' = {} /\ slots' = slots \ {c}
             Pass == \E c \in slots, d \in SlotSeekers :
                        slots' = (slots \ {c}) \cup {d} /\ SlotSeekers' = SlotSeekers \ {d}
  <1>0. /\ reclaimers \in Seq(Calls) /\ newcomers \in Seq(Calls) /\ slots \subseteq Calls
        /\ IsInjective(reclaimers) /\ IsInjective(newcomers)
        /\ lent \subseteq Calls \ (slots \cup SlotSeekers)
        /\ slots \cap SlotSeekers = {}
        /\ \A d \in Calls : PoolOf(d)
    BY RunsFacts DEF SlotSeekers
  <1>1. ToSet(reclaimers) \subseteq Calls /\ ToSet(newcomers) \subseteq Calls
    BY <1>0 DEF ToSet
  <1>2. ToSet(reclaimers) \cap ToSet(newcomers) = {}
    BY <1>0, <1>1 DEF PoolOf
  <1>3. UNCHANGED poolVars => Same
    BY DEF poolVars, SlotSeekers
  <1>4. ASSUME NEW c \in slots, PassOn(c) PROVE Free \/ Pass
    <2>1. CASE reclaimers # <<>>
      <3>1. /\ slots' = (slots \ {c}) \cup {Head(reclaimers)}
            /\ reclaimers' = Tail(reclaimers) /\ newcomers' = newcomers
        BY <1>4, <2>1 DEF PassOn
      <3>2. /\ Head(reclaimers) \in ToSet(reclaimers)
            /\ ToSet(Tail(reclaimers)) = ToSet(reclaimers) \ {Head(reclaimers)}
        BY <1>0, <2>1, FifoTail
      <3>3. Head(reclaimers) \in SlotSeekers /\ SlotSeekers' = SlotSeekers \ {Head(reclaimers)}
        BY <1>2, <3>1, <3>2 DEF SlotSeekers
      <3> QED BY <3>1, <3>3
    <2>2. CASE reclaimers = <<>> /\ newcomers # <<>>
      <3>1. /\ slots' = (slots \ {c}) \cup {Head(newcomers)}
            /\ newcomers' = Tail(newcomers) /\ reclaimers' = reclaimers
        BY <1>4, <2>2 DEF PassOn
      <3>2. /\ Head(newcomers) \in ToSet(newcomers)
            /\ ToSet(Tail(newcomers)) = ToSet(newcomers) \ {Head(newcomers)}
        BY <1>0, <2>2, FifoTail
      <3>3. Head(newcomers) \in SlotSeekers /\ SlotSeekers' = SlotSeekers \ {Head(newcomers)}
        BY <1>2, <3>1, <3>2 DEF SlotSeekers
      <3> QED BY <3>1, <3>3
    <2>3. CASE reclaimers = <<>> /\ newcomers = <<>>
      <3>1. slots' = slots \ {c} /\ reclaimers' = reclaimers /\ newcomers' = newcomers
        BY <1>4, <2>3 DEF PassOn
      <3>2. SlotSeekers = {} /\ SlotSeekers' = {}
        BY <2>3, <3>1 DEF SlotSeekers, ToSet
      <3> QED BY <3>1, <3>2
    <2> QED BY <2>1, <2>2, <2>3
  <1>5. ASSUME NEW c \in Calls, StartRun(c) PROVE Take \/ Join
    <2>1. c \notin slots \cup SlotSeekers
      <3>1. step[c] = "idle"
        BY <1>5 DEF StartRun
      <3> QED BY <1>0, <3>1 DEF PoolOf, SlotSeekers
    <2>2. CASE SlotFree /\ slots' = slots \cup {c} /\ UNCHANGED <<newcomers, reclaimers>>
      BY <2>1, <2>2 DEF SlotSeekers
    <2>3. CASE ~SlotFree /\ newcomers' = Append(newcomers, c) /\ UNCHANGED <<slots, reclaimers>>
      <3>1. ToSet(newcomers') = ToSet(newcomers) \cup {c}
        BY <1>0, <2>1, <2>3, FifoAppend DEF SlotSeekers
      <3>2. SlotSeekers' = SlotSeekers \cup {c}
        BY <2>3, <3>1 DEF SlotSeekers
      <3> QED BY <2>1, <2>3, <3>2
    <2> QED BY <1>5, <2>2, <2>3 DEF StartRun
  <1>6. ASSUME NEW c \in Calls, TryReclaim(c) PROVE Same \/ Take
    <2>1. CASE UNCHANGED poolVars
      BY <1>3, <2>1
    <2>2. CASE c \in lent /\ SlotFree /\ slots' = slots \cup {c} /\ UNCHANGED <<reclaimers, newcomers>>
      BY <1>0, <2>2 DEF SlotSeekers
    <2> QED BY <1>6, <2>1, <2>2 DEF TryReclaim
  <1>7. ASSUME NEW c \in Calls, Reclaim(c) PROVE Take \/ Join
    <2>1. c \in lent
      BY <1>0, <1>7 DEF Reclaim, PoolOf
    <2>2. c \notin slots \cup SlotSeekers
      BY <1>0, <2>1
    <2>3. CASE SlotFree /\ slots' = slots \cup {c} /\ UNCHANGED <<newcomers, reclaimers>>
      BY <2>2, <2>3 DEF SlotSeekers
    <2>4. CASE ~SlotFree /\ reclaimers' = Append(reclaimers, c) /\ UNCHANGED <<slots, newcomers>>
      <3>1. ToSet(reclaimers') = ToSet(reclaimers) \cup {c}
        BY <1>0, <2>2, <2>4, FifoAppend DEF SlotSeekers
      <3>2. SlotSeekers' = SlotSeekers \cup {c}
        BY <2>4, <3>1 DEF SlotSeekers
      <3> QED BY <2>2, <2>4, <3>2
    <2> QED BY <1>7, <2>3, <2>4 DEF Reclaim
  <1>8. ASSUME NEW c \in Calls, CancelReclaim(c) PROVE Quit
    <2>1. /\ reclaimers' = RemoveFirst(reclaimers, c) /\ slots' = slots /\ newcomers' = newcomers
          /\ step[c] = "reclaiming" /\ c \notin slots
      BY <1>8 DEF CancelReclaim
    <2>2. c \in ToSet(reclaimers) /\ c \notin ToSet(newcomers)
      BY <1>0, <2>1 DEF PoolOf
    <2>3. ToSet(RemoveFirst(reclaimers, c)) = ToSet(reclaimers) \ {c}
      BY <1>0, <2>2, FifoRemove
    <2>4. c \in SlotSeekers /\ SlotSeekers' = SlotSeekers \ {c}
      BY <2>1, <2>2, <2>3 DEF SlotSeekers
    <2> QED BY <2>1, <2>4
  <1>9. ASSUME NEW c \in Calls, Lend(c) PROVE Same \/ Free \/ Pass
    <2>1. CASE UNCHANGED poolVars
      BY <1>3, <2>1
    <2>2. CASE PassOn(c)
      <3>1. c \in slots
        BY <1>0, <1>9 DEF Lend, PoolOf
      <3> QED BY <1>4, <2>2, <3>1
    <2> QED BY <1>9, <2>1, <2>2 DEF Lend
  <1>10. ASSUME NEW c \in Calls, EndRun(c) PROVE Same \/ Free \/ Pass
    <2>1. CASE c \in lent
      BY <1>10, <2>1 DEF EndRun, SlotSeekers
    <2>2. CASE c \notin lent
      <3>1. c \in slots /\ PassOn(c)
        BY <1>0, <1>10, <2>2 DEF EndRun, PoolOf
      <3> QED BY <1>4, <3>1
    <2> QED BY <2>1, <2>2
  <1>11. ASSUME NEW c \in Calls,
                \/ Started(c) \/ (\E i \in Infos[c] : BeginCall(c, i)) \/ EnterLane(c)
                \/ LaneGranted(c) \/ CancelInLane(c) \/ GiveLaneBack(c) \/ Reclaimed(c)
                \/ Failed(c) \/ EndCall(c) \/ LastTurn(c) \/ RunDone(c)
         PROVE  Same
    <2>1. UNCHANGED poolVars
      BY <1>11 DEF Started, BeginCall, EnterLane, LaneGranted, CancelInLane, GiveLaneBack,
                   Reclaimed, Failed, EndCall, LastTurn, RunDone
    <2> QED BY <1>3, <2>1
  <1>12. ASSUME LaneLoop \/ \E o \in Owners : HoldClock(o) \/ TimerRuns(o) PROVE Same
    <2>1. UNCHANGED poolVars
      BY <1>12 DEF LaneLoop, HoldClock, TimerRuns
    <2> QED BY <1>3, <2>1
  <1> HIDE DEF Same, Take, Join, Quit, Free, Pass
  <1>13. ASSUME NEW c \in Calls,
                \/ StartRun(c) \/ Started(c) \/ (\E i \in Infos[c] : BeginCall(c, i))
                \/ EnterLane(c) \/ Lend(c) \/ LaneGranted(c) \/ CancelInLane(c)
                \/ TryReclaim(c) \/ GiveLaneBack(c)
                \/ Reclaim(c) \/ Reclaimed(c) \/ CancelReclaim(c) \/ Failed(c)
                \/ EndCall(c) \/ LastTurn(c) \/ RunDone(c) \/ EndRun(c)
         PROVE  Same \/ Take \/ Join \/ Quit \/ Free \/ Pass
    BY <1>5, <1>6, <1>7, <1>8, <1>9, <1>10, <1>11, <1>13
  <1>14. Same \/ Take \/ Join \/ Quit \/ Free \/ Pass
    BY <1>12, <1>13 DEF Next
  <1> QED BY <1>14 DEF Same, Take, Join, Quit, Free, Pass

\* No run waits for a run slot, to start or to take its own back, while one is
\* free: what Lend and RunSlot.end give up is passed on at once (lend.go).
NoRunBesideFreeSlot == SlotSeekers # {} => ~SlotFree

\* Every step keeps that.
LEMMA NoRunBesideStep ==
    ASSUME RunsInv, NoRunBesideFreeSlot, [Next]_vars
    PROVE  NoRunBesideFreeSlot'
  <1>0. IsFiniteSet(slots) /\ Cardinality(slots) \in Nat /\ MaxRuns \in Nat /\ slots \cap SlotSeekers = {}
    BY RunsFacts, MaxRunsType DEF SlotSeekers
  <1>1. CASE UNCHANGED vars
    BY <1>1 DEF vars, poolVars, NoRunBesideFreeSlot, SlotSeekers, SlotFree
  <1>2. CASE slots' = slots /\ SlotSeekers' = SlotSeekers
    BY <1>2 DEF NoRunBesideFreeSlot, SlotFree
  <1>3. CASE SlotFree /\ SlotSeekers' = SlotSeekers
    BY <1>3 DEF NoRunBesideFreeSlot
  <1>4. CASE ~SlotFree /\ slots' = slots
    BY <1>4 DEF NoRunBesideFreeSlot, SlotFree
  <1>5. ASSUME NEW c \in SlotSeekers, slots' = slots PROVE NoRunBesideFreeSlot'
    BY <1>5 DEF NoRunBesideFreeSlot, SlotFree
  <1>6. CASE SlotSeekers' = {}
    BY <1>6 DEF NoRunBesideFreeSlot
  <1>7. ASSUME NEW c \in slots, NEW d \in SlotSeekers, slots' = (slots \ {c}) \cup {d}
        PROVE  NoRunBesideFreeSlot'
    <2> DEFINE T == slots \ {c}
    <2>1. IsFiniteSet(T) /\ Cardinality(T) = Cardinality(slots) - 1
      BY <1>0, FS_RemoveElement
    <2>2. d \notin T
      BY <1>0
    <2>3. slots' = T \cup {d}
      BY <1>7
    <2> HIDE DEF T
    <2>4. Cardinality(T \cup {d}) = Cardinality(T) + 1
      BY <2>1, <2>2, FS_AddElement
    <2>5. Cardinality(slots') = Cardinality(slots)
      BY <1>0, <2>1, <2>3, <2>4
    <2>6. ~SlotFree
      BY DEF NoRunBesideFreeSlot
    <2> QED BY <2>5, <2>6 DEF NoRunBesideFreeSlot, SlotFree
  <1>8. CASE Next
    <2> HIDE DEF SlotSeekers
    <2> QED BY <1>2, <1>3, <1>4, <1>5, <1>6, <1>7, <1>8, RunSlotMoves
  <1> QED BY <1>1, <1>8

\* No run waits for a run slot beside a free one, however its waits for the lane
\* and the other runs' lends, reclaims and cancels fall (lend.go, lanegate.go).
THEOREM NoRunBesideFreeSlotAlways == Spec => []NoRunBesideFreeSlot
  <1>1. Init => NoRunBesideFreeSlot
    BY DEF Init, NoRunBesideFreeSlot, SlotSeekers, ToSet
  <1>2. RunsInv /\ NoRunBesideFreeSlot /\ [Next]_vars => NoRunBesideFreeSlot'
    BY NoRunBesideStep
  <1> QED BY <1>1, <1>2, RunsAlways, PTL DEF Spec

\* A slot given up and granted in one critical section: GiveBack(c), then Grant(d).
HandOver(c, d) ==
    /\ c \in slots /\ d \in SlotSeekers /\ Cardinality(slots \ {c}) < MaxRuns
    /\ slots' = (slots \ {c}) \cup {d}
    /\ SlotSeekers' = SlotSeekers \ {d}

RunSlotsPool ==
    /\ Pool!PoolInit
    /\ [][Pool!PoolNext \/ \E c, d \in Calls : HandOver(c, d)]_(Pool!poolVars)

\* The run slots behind the lane gate are a slot pool, as the run semaphore's are
\* (RunSemaphore's ImplementsSlotPool), where a slot that is given up goes to the
\* next that waits in the same critical section (wakeNextLocked).
THEOREM RunSlotsArePool == Spec => RunSlotsPool
  <1>1. Init => Pool!PoolInit
    BY DEF Init, Pool!PoolInit, SlotSeekers, ToSet
  <1>2. RunsInv /\ NoRunBesideFreeSlot /\ [Next]_vars
          => [Pool!PoolNext \/ \E c, d \in Calls : HandOver(c, d)]_(Pool!poolVars)
    <2> SUFFICES ASSUME RunsInv, NoRunBesideFreeSlot, [Next]_vars
                 PROVE  \/ Pool!PoolNext \/ \E c, d \in Calls : HandOver(c, d)
                        \/ slots' = slots /\ SlotSeekers' = SlotSeekers
      BY DEF Pool!poolVars
    <2>0. /\ IsFiniteSet(slots) /\ Cardinality(slots) \in Nat /\ slots \subseteq Calls
          /\ SlotSeekers \subseteq Calls /\ MaxRuns \in Nat /\ Cardinality(slots) <= MaxRuns
      BY RunsFacts, MaxRunsType DEF SlotSeekers, ToSet
    <2>free. Pool!FreeSlot <=> SlotFree
      <3>1. Pool!Cardinality(slots) = Cardinality(slots)
        BY DEF Pool!Cardinality, Cardinality
      <3> QED BY <3>1 DEF Pool!FreeSlot, SlotFree
    <2>1. CASE UNCHANGED vars
      BY <2>1 DEF vars, poolVars, SlotSeekers
    <2>2. ASSUME NEW c \in Calls \ slots, SlotFree, slots' = slots \cup {c}, SlotSeekers' = SlotSeekers
          PROVE  Pool!PoolNext
      <3>1. Pool!Take(c)
        BY <2>free, <2>2 DEF Pool!Take, NoRunBesideFreeSlot
      <3> QED BY <3>1 DEF Pool!PoolNext
    <2>3. ASSUME NEW c \in Calls \ (slots \cup SlotSeekers), ~SlotFree, slots' = slots,
                 SlotSeekers' = SlotSeekers \cup {c}
          PROVE  Pool!PoolNext
      <3>1. Pool!Queue(c)
        BY <2>free, <2>3 DEF Pool!Queue
      <3> QED BY <3>1 DEF Pool!PoolNext
    <2>4. ASSUME NEW c \in SlotSeekers, slots' = slots, SlotSeekers' = SlotSeekers \ {c}
          PROVE  Pool!PoolNext
      <3>1. Pool!Withdraw(c)
        BY <2>4 DEF Pool!Withdraw
      <3> QED BY <2>0, <3>1 DEF Pool!PoolNext
    <2>5. ASSUME NEW c \in slots, SlotSeekers = {}, SlotSeekers' = {}, slots' = slots \ {c}
          PROVE  Pool!PoolNext
      <3>1. Pool!GiveBack(c)
        BY <2>5 DEF Pool!GiveBack
      <3> QED BY <2>0, <3>1 DEF Pool!PoolNext
    <2>6. ASSUME NEW c \in slots, NEW d \in SlotSeekers,
                 slots' = (slots \ {c}) \cup {d}, SlotSeekers' = SlotSeekers \ {d}
          PROVE  \E x, y \in Calls : HandOver(x, y)
      <3>1. Cardinality(slots \ {c}) < MaxRuns
        <4>1. Cardinality(slots \ {c}) = Cardinality(slots) - 1
          BY <2>0, FS_RemoveElement
        <4> QED BY <2>0, <4>1
      <3>2. HandOver(c, d)
        BY <2>6, <3>1 DEF HandOver
      <3> QED BY <2>0, <3>2
    <2>7. CASE Next
      <3> HIDE DEF SlotSeekers, HandOver, Pool!PoolNext
      <3> QED BY <2>2, <2>3, <2>4, <2>5, <2>6, <2>7, RunSlotMoves
    <2> QED BY <2>1, <2>7
  <1> QED BY <1>1, <1>2, RunsAlways, NoRunBesideFreeSlotAlways, PTL DEF Spec, RunSlotsPool
=============================================================================
