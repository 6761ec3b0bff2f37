------------------------ MODULE CallScheduler_proofs ------------------------
(***************************************************************************)
(* The call scheduler: what its callers keep of the lane (see              *)
(* CallLane_proofs) and of the model gate, for every set of callers,       *)
(* owners, users and models, every configuration and every limit.          *)
(***************************************************************************)
EXTENDS CallScheduler, CallLane_proofs

\* The waiters a round of admit leaves are the others, each once.
LEMMA FifoWithout ==
    ASSUME NEW S, NEW s \in Seq(S), IsInjective(s), NEW D
    PROVE  /\ Without(s, D) \in Seq(S) /\ IsInjective(Without(s, D))
           /\ ToSet(Without(s, D)) = ToSet(s) \ D
  <1> DEFINE K == {i \in DOMAIN s : s[i] \notin D}
             n == Cardinality(K)
             upto(i) == {j \in K : j <= i}
             rank == [i \in K |-> Cardinality(upto(i))]
             place(k) == CHOOSE i \in K : Cardinality({j \in K : j <= i}) = k
             t == [k \in 1 .. n |-> s[place(k)]]
  <1>1. DOMAIN s = 1 .. Len(s) /\ Len(s) \in Nat
    OBVIOUS
  <1>2. IsFiniteSet(K) /\ n \in Nat /\ K \subseteq Nat
    <2>1. IsFiniteSet(1 .. Len(s))
      BY <1>1, FS_Interval
    <2>2. IsFiniteSet(K)
      BY <1>1, <2>1, FS_Subset
    <2>3. K \subseteq Nat
      BY <1>1
    <2> QED BY <2>2, <2>3, FS_CardinalityType
  <1>3. ASSUME NEW i \in K
        PROVE  /\ IsFiniteSet(upto(i)) /\ rank[i] = Cardinality(upto(i))
               /\ rank[i] \in 1 .. n
    <2>1. upto(i) \in SUBSET K /\ i \in upto(i)
      BY <1>2
    <2> HIDE DEF upto, K
    <2>2. IsFiniteSet(upto(i)) /\ Cardinality(upto(i)) <= n
      BY <1>2, <2>1, FS_Subset
    <2>3. Cardinality(upto(i)) \in Nat /\ Cardinality(upto(i)) # 0
      BY <2>1, <2>2, FS_CardinalityType, FS_EmptySet
    <2>4. rank[i] = Cardinality(upto(i))
      OBVIOUS
    <2> QED BY <1>2, <2>2, <2>3, <2>4
  <1>4. ASSUME NEW i \in K, NEW j \in K, i < j PROVE rank[i] # rank[j]
    <2>1. upto(i) \in SUBSET upto(j) /\ j \in upto(j) /\ j \notin upto(i)
      BY <1>2, <1>4
    <2>2. /\ IsFiniteSet(upto(j)) /\ rank[i] = Cardinality(upto(i))
          /\ rank[j] = Cardinality(upto(j))
      BY <1>3
    <2> HIDE DEF upto
    <2>3. upto(i) # upto(j)
      BY <2>1
    <2>4. Cardinality(upto(i)) # Cardinality(upto(j))
      BY <2>1, <2>2, <2>3, FS_Subset
    <2> QED BY <2>2, <2>4
  <1>5. rank \in Injection(K, 1 .. n)
    <2>1. rank \in [K -> 1 .. n]
      BY <1>3
    <2>2. ASSUME NEW i \in K, NEW j \in K, rank[i] = rank[j] PROVE i = j
      <3>1. i \in Nat /\ j \in Nat
        BY <1>2
      <3> HIDE DEF rank, K
      <3> QED BY <1>4, <2>2, <3>1
    <2> HIDE DEF rank, K
    <2> QED BY <2>1, <2>2, Fun_IsInj
  <1>6. rank \in Surjection(K, 1 .. n)
    <2>1. IsFiniteSet(1 .. n) /\ Cardinality(1 .. n) = n
      BY <1>2, FS_Interval
    <2> HIDE DEF rank, K
    <2> QED BY <1>5, <2>1, FS_Injection
  <1>7. ASSUME NEW k \in 1 .. n PROVE place(k) \in K /\ rank[place(k)] = k
    <2>1. \E i \in K : rank[i] = k
      <3> HIDE DEF rank, K
      <3> QED BY <1>6 DEF Surjection
    <2>2. \E i \in K : Cardinality({j \in K : j <= i}) = k
      BY <2>1
    <2>3. place(k) \in K /\ Cardinality({j \in K : j <= place(k)}) = k
      BY <2>2
    <2> QED BY <2>3
  <1>8. ASSUME NEW i \in K PROVE rank[i] \in 1 .. n /\ place(rank[i]) = i
    <2>1. rank[i] \in 1 .. n
      BY <1>3
    <2>2. place(rank[i]) \in K /\ rank[place(rank[i])] = rank[i]
      BY <1>7, <2>1
    <2> HIDE DEF rank, K, place
    <2> QED BY <1>5, <2>1, <2>2 DEF Injection, IsInjective
  <1>9. Without(s, D) = t
    BY DEF Without
  <1>10. \A i \in K : i \in 1 .. Len(s) /\ s[i] \in S /\ s[i] \notin D
    BY <1>1
  <1>11. \A i \in 1 .. Len(s) : s[i] \notin D => i \in K
    BY <1>1
  <1> HIDE DEF rank, K, place
  <1>12. t \in Seq(S) /\ DOMAIN t = 1 .. n /\ \A k \in 1 .. n : t[k] = s[place(k)]
    <2>1. t \in [1 .. n -> S]
      BY <1>7, <1>10
    <2> QED BY <1>2, <2>1
  <1> HIDE DEF t, n
  <1>13. IsInjective(t)
    <2> SUFFICES ASSUME NEW k \in 1 .. n, NEW l \in 1 .. n, t[k] = t[l] PROVE k = l
      BY <1>12 DEF IsInjective
    <2>1. s[place(k)] = s[place(l)] /\ place(k) \in K /\ place(l) \in K
      BY <1>7, <1>12
    <2>2. place(k) = place(l)
      BY <1>1, <1>10, <2>1 DEF IsInjective
    <2> QED BY <1>7, <2>2
  <1>14. ToSet(t) = ToSet(s) \ D
    <2>1. ASSUME NEW x \in ToSet(t) PROVE x \in ToSet(s) \ D
      <3>1. PICK k \in 1 .. n : x = s[place(k)]
        BY <1>12 DEF ToSet
      <3> QED BY <1>1, <1>7, <1>10, <3>1 DEF ToSet
    <2>2. ASSUME NEW x \in ToSet(s), x \notin D PROVE x \in ToSet(t)
      <3>1. PICK i \in 1 .. Len(s) : x = s[i]
        BY <1>1 DEF ToSet
      <3>2. i \in K
        BY <1>11, <2>2, <3>1
      <3>3. rank[i] \in 1 .. n /\ t[rank[i]] = x
        BY <1>8, <1>12, <3>1, <3>2
      <3> QED BY <1>12, <3>3 DEF ToSet
    <2> QED BY <2>1, <2>2
  <1> QED BY <1>9, <1>12, <1>13, <1>14
-----------------------------------------------------------------------------
(* The model gate.                                                         *)

GateType ==
    /\ limit \in [max : Int, wait : BOOLEAN] /\ inFlight \in [Models -> Nat]
    /\ waiters \in Seq(Calls) /\ aged \subseteq ToSet(waiters)
    /\ gate \in [Calls -> {"out", "waiting", "admitted", "in"}]
    /\ gateMu \in {"free", "admit"}

\* The queue has the calls that wait, each once.
GateQueue ==
    /\ IsInjective(waiters)
    /\ \A c \in Calls : c \in ToSet(waiters) <=> gate[c] = "waiting"

\* A call the gate counts has a model.
GateModels == \A c \in Calls : gate[c] # "out" => Model(c) \in Models

\* The count of each model is that of its calls inside the gate.
Inside(m) == {c \in Calls : gate[c] \in {"admitted", "in"} /\ Model(c) = m}
GateCounts == \A m \in Models : inFlight[m] = Cardinality(Inside(m))

GateInv == GateType /\ GateQueue /\ GateModels /\ GateCounts

\* info changes only for calls that the step leaves out of the gate.
InfoHeld == \A d \in Calls : gate'[d] # "out" => info'[d] = info[d]

\* The sets of calls inside the gate are finite, and their sizes numbers.
LEMMA InsideFinite ==
    ASSUME NEW m
    PROVE  IsFiniteSet(Inside(m)) /\ Cardinality(Inside(m)) \in Nat
  <1>1. IsFiniteSet(Inside(m))
    BY CallsFinite, FS_Subset DEF Inside
  <1> QED BY <1>1, FS_CardinalityType

\* A step that leaves the gate's calls where they are.
LEMMA GateUntouched ==
    ASSUME GateInv, InfoHeld, gate' = gate, inFlight' = inFlight, waiters' = waiters,
           limit' \in [max : Int, wait : BOOLEAN], aged' \subseteq ToSet(waiters),
           gateMu' \in {"free", "admit"}
    PROVE  GateInv'
  <1>1. GateType' /\ GateQueue'
    BY DEF GateInv, GateType, GateQueue
  <1>2. GateModels'
    BY DEF GateInv, GateModels, InfoHeld, Model
  <1>3. \A m \in Models : Inside(m)' = Inside(m)
    BY DEF Inside, InfoHeld, Model
  <1> QED BY <1>1, <1>2, <1>3 DEF GateInv, GateCounts

\* A call enters past the queue.
LEMMA EnterAtOnceKeeps ==
    ASSUME GateInv, info \in [Calls -> CallInfos], info' = info, NEW c \in Calls, EnterAtOnce(c)
    PROVE  GateInv'
  <1> DEFINE k == Model(c)
  <1>0. /\ gate \in [Calls -> {"out", "waiting", "admitted", "in"}]
        /\ inFlight \in [Models -> Nat]
        /\ waiters \in Seq(Calls)
    BY DEF GateInv, GateType
  <1>1. /\ gate[c] = "out" /\ gate' = [gate EXCEPT ![c] = "in"]
        /\ inFlight' = [inFlight EXCEPT ![k] = @ + 1]
        /\ UNCHANGED <<limit, waiters, aged, gateMu>>
    BY DEF EnterAtOnce
  <1>2. k \in Models
    <2>1. info[c] \in CallInfos
      OBVIOUS
    <2>2. info[c].model \in Models \cup {NoModel}
      BY <2>1 DEF CallInfos
    <2> QED BY <2>2 DEF EnterAtOnce, Uncounted, Model
  <1>3. GateType'
    BY <1>0, <1>1, <1>2 DEF GateInv, GateType
  <1>4. GateQueue'
    BY <1>0, <1>1 DEF GateInv, GateQueue
  <1>5. GateModels'
    BY <1>0, <1>1, <1>2 DEF GateInv, GateModels, Model
  <1>6. ASSUME NEW m \in Models PROVE inFlight'[m] = Cardinality(Inside(m)')
    <2>0. inFlight[m] = Cardinality(Inside(m)) /\ IsFiniteSet(Inside(m))
      BY InsideFinite DEF GateInv, GateCounts
    <2>1. CASE m = k
      <3>1. Inside(m)' = Inside(m) \cup {c} /\ c \notin Inside(m)
        BY <1>0, <1>1, <2>1 DEF Inside, Model
      <3>2. Cardinality(Inside(m) \cup {c}) = Cardinality(Inside(m)) + 1
        BY <2>0, <3>1, FS_AddElement
      <3> QED BY <1>0, <1>1, <2>0, <2>1, <3>1, <3>2
    <2>2. CASE m # k
      <3>1. Inside(m)' = Inside(m)
        BY <1>0, <1>1, <2>2 DEF Inside, Model
      <3> QED BY <1>0, <1>1, <2>0, <2>2, <3>1
    <2> QED BY <2>1, <2>2
  <1> QED BY <1>3, <1>4, <1>5, <1>6 DEF GateInv, GateCounts

\* A call queues at the gate.
LEMMA QueueAtGateKeeps ==
    ASSUME GateInv, info \in [Calls -> CallInfos], info' = info, NEW c \in Calls, QueueAtGate(c)
    PROVE  GateInv'
  <1>0. /\ gate \in [Calls -> {"out", "waiting", "admitted", "in"}]
        /\ waiters \in Seq(Calls)
        /\ IsInjective(waiters)
    BY DEF GateInv, GateType, GateQueue
  <1>1. /\ gate[c] = "out" /\ gate' = [gate EXCEPT ![c] = "waiting"]
        /\ waiters' = Append(waiters, c)
        /\ UNCHANGED <<limit, inFlight, aged, gateMu>>
    BY DEF QueueAtGate
  <1>2. Model(c) \in Models
    <2>1. info[c] \in CallInfos
      OBVIOUS
    <2>2. info[c].model \in Models \cup {NoModel}
      BY <2>1 DEF CallInfos
    <2> QED BY <2>2 DEF QueueAtGate, Uncounted, Model
  <1>3. c \notin ToSet(waiters)
    BY <1>1 DEF GateInv, GateQueue
  <1>4. /\ waiters' \in Seq(Calls) /\ IsInjective(waiters')
        /\ ToSet(waiters') = ToSet(waiters) \cup {c}
    BY <1>0, <1>1, <1>3, FifoAppend
  <1>5. GateType'
    BY <1>0, <1>1, <1>4 DEF GateInv, GateType
  <1>6. GateQueue'
    BY <1>0, <1>1, <1>4 DEF GateInv, GateQueue
  <1>7. GateModels'
    BY <1>0, <1>1, <1>2 DEF GateInv, GateModels, Model
  <1>8. \A m \in Models : Inside(m)' = Inside(m)
    BY <1>0, <1>1 DEF Inside, Model
  <1> QED BY <1>1, <1>5, <1>6, <1>7, <1>8 DEF GateInv, GateCounts

\* The calls a round of admit lets in.
LetIn == {w \in ToSet(waiters) : Model(w) = Model(Head(waiters))}

\* What a round of admit does.
LEMMA AdmitRoundEffect ==
    ASSUME GateInv, AdmitRound
    PROVE  /\ Model(Head(waiters)) \in Models /\ LetIn \in SUBSET Calls
           /\ \A c \in LetIn : gate[c] = "waiting"
           /\ inFlight' = [inFlight EXCEPT ![Model(Head(waiters))] = @ + Cardinality(LetIn)]
           /\ waiters' = Without(waiters, LetIn)
           /\ gate' = [c \in Calls |-> IF c \in LetIn THEN "admitted" ELSE gate[c]]
           /\ aged' = aged \ LetIn /\ UNCHANGED <<limit, gateMu>> /\ ~HeadHeld
  <1>1. waiters \in Seq(Calls) /\ waiters # <<>> /\ IsInjective(waiters)
    BY DEF GateInv, GateType, GateQueue, AdmitRound
  <1>2. Head(waiters) \in ToSet(waiters) /\ Head(waiters) \in Calls
    BY <1>1, FifoTail
  <1>3. \A c \in ToSet(waiters) : c \in Calls
    BY <1>1 DEF ToSet
  <1>4. Model(Head(waiters)) \in Models
    BY <1>2 DEF GateInv, GateQueue, GateModels
  <1>5. LetIn \in SUBSET Calls /\ \A c \in LetIn : gate[c] = "waiting"
    BY <1>3 DEF LetIn, GateInv, GateQueue
  <1> QED BY <1>4, <1>5 DEF AdmitRound, LetIn

\* One round of admit.
LEMMA AdmitRoundKeeps ==
    ASSUME GateInv, info' = info, AdmitRound
    PROVE  GateInv'
  <1> DEFINE k == Model(Head(waiters))
  <1>0. /\ gate \in [Calls -> {"out", "waiting", "admitted", "in"}]
        /\ waiters \in Seq(Calls)
        /\ IsInjective(waiters) /\ inFlight \in [Models -> Nat]
        /\ aged \subseteq ToSet(waiters)
        /\ \A c \in Calls : c \in ToSet(waiters) <=> gate[c] = "waiting"
    BY DEF GateInv, GateType, GateQueue
  <1>1. /\ k \in Models /\ LetIn \in SUBSET Calls
        /\ \A c \in LetIn : gate[c] = "waiting"
        /\ inFlight' = [inFlight EXCEPT ![k] = @ + Cardinality(LetIn)]
        /\ waiters' = Without(waiters, LetIn)
        /\ gate' = [c \in Calls |-> IF c \in LetIn THEN "admitted" ELSE gate[c]]
        /\ aged' = aged \ LetIn /\ UNCHANGED <<limit, gateMu>>
    BY AdmitRoundEffect
  <1>2. /\ waiters' \in Seq(Calls) /\ IsInjective(waiters')
        /\ ToSet(waiters') = ToSet(waiters) \ LetIn
    BY <1>0, <1>1, FifoWithout
  <1>3. IsFiniteSet(LetIn) /\ Cardinality(LetIn) \in Nat
    <2>1. IsFiniteSet(LetIn)
      BY <1>1, CallsFinite, FS_Subset
    <2> QED BY <2>1, FS_CardinalityType
  <1>4. GateType'
    <2>1. inFlight' \in [Models -> Nat]
      BY <1>0, <1>1, <1>3
    <2>2. gate' \in [Calls -> {"out", "waiting", "admitted", "in"}]
      BY <1>0, <1>1
    <2>3. limit' \in [max : Int, wait : BOOLEAN] /\ gateMu' \in {"free", "admit"}
      BY <1>1 DEF GateInv, GateType
    <2>4. aged' \subseteq ToSet(waiters')
      BY <1>0, <1>1, <1>2
    <2> QED BY <1>2, <2>1, <2>2, <2>3, <2>4 DEF GateType
  <1>5. GateQueue'
    BY <1>0, <1>1, <1>2 DEF GateQueue
  <1>6. GateModels'
    BY <1>0, <1>1 DEF GateInv, GateModels, Model
  <1>7. ASSUME NEW m \in Models PROVE inFlight'[m] = Cardinality(Inside(m)')
    <2>0. inFlight[m] = Cardinality(Inside(m)) /\ IsFiniteSet(Inside(m))
      BY InsideFinite DEF GateInv, GateCounts
    <2>1. CASE m = k
      <3>1. Inside(m)' = Inside(m) \cup LetIn /\ Inside(m) \cap LetIn = {}
        <4>1. \A c \in LetIn : Model(c) = k
          BY DEF LetIn
        <4> QED BY <1>0, <1>1, <2>1, <4>1 DEF Inside, Model
      <3>2. Cardinality(Inside(m) \cup LetIn) =
              Cardinality(Inside(m)) + Cardinality(LetIn) - Cardinality({})
        BY <1>3, <2>0, <3>1, FS_Union
      <3>3. Cardinality({}) = 0 /\ Cardinality(Inside(m)) \in Nat
        BY FS_EmptySet, InsideFinite
      <3>4. inFlight'[m] = inFlight[m] + Cardinality(LetIn)
        BY <1>0, <1>1, <2>1
      <3> QED BY <1>3, <2>0, <3>1, <3>2, <3>3, <3>4
    <2>2. CASE m # k
      <3>1. Inside(m)' = Inside(m)
        <4>1. \A c \in LetIn : Model(c) = k
          BY DEF LetIn
        <4> QED BY <1>0, <1>1, <2>2, <4>1 DEF Inside, Model
      <3> QED BY <1>0, <1>1, <2>0, <2>2, <3>1
    <2> QED BY <2>1, <2>2
  <1> QED BY <1>4, <1>5, <1>6, <1>7 DEF GateInv, GateCounts

\* An admitted call wakes.
LEMMA GateWakeKeeps ==
    ASSUME GateInv, info' = info, NEW c \in Calls, GateWake(c)
    PROVE  GateInv'
  <1>0. gate \in [Calls -> {"out", "waiting", "admitted", "in"}]
    BY DEF GateInv, GateType
  <1>1. /\ gate[c] = "admitted" /\ gate' = [gate EXCEPT ![c] = "in"]
        /\ UNCHANGED <<limit, inFlight, waiters, aged, gateMu>>
    BY DEF GateWake
  <1>2. GateType' /\ GateQueue'
    BY <1>0, <1>1 DEF GateInv, GateType, GateQueue
  <1>3. GateModels'
    BY <1>0, <1>1 DEF GateInv, GateModels, Model
  <1>4. \A m \in Models : Inside(m)' = Inside(m)
    BY <1>0, <1>1 DEF Inside, Model
  <1> QED BY <1>1, <1>2, <1>3, <1>4 DEF GateInv, GateCounts

\* exit.
LEMMA ExitKeeps ==
    ASSUME GateInv, InfoHeld, NEW c \in Calls, gate[c] \in {"admitted", "in"}, Exit(c)
    PROVE  GateInv'
  <1> DEFINE k == Model(c)
  <1>0. /\ gate \in [Calls -> {"out", "waiting", "admitted", "in"}]
        /\ inFlight \in [Models -> Nat]
    BY DEF GateInv, GateType
  <1>1. /\ gate' = [gate EXCEPT ![c] = "out"]
        /\ inFlight' = [inFlight EXCEPT ![k] = IF @ > 1 THEN @ - 1 ELSE 0]
        /\ gateMu' \in {"free", "admit"} /\ UNCHANGED <<limit, waiters, aged>>
    BY DEF Exit
  <1>2. k \in Models
    BY DEF GateInv, GateModels
  <1>3. GateType'
    BY <1>0, <1>1, <1>2 DEF GateInv, GateType
  <1>4. GateQueue'
    BY <1>0, <1>1 DEF GateInv, GateQueue
  <1>5. GateModels'
    BY <1>0, <1>1 DEF GateInv, GateModels, Model, InfoHeld
  <1>6. ASSUME NEW m \in Models PROVE inFlight'[m] = Cardinality(Inside(m)')
    <2>0. /\ inFlight[m] = Cardinality(Inside(m)) /\ IsFiniteSet(Inside(m))
          /\ inFlight[m] \in Nat
      BY <1>0, InsideFinite DEF GateInv, GateCounts
    <2>1. CASE m = k
      <3>1. Inside(m)' = Inside(m) \ {c} /\ c \in Inside(m)
        BY <1>0, <1>1, <2>1 DEF Inside, Model, InfoHeld
      <3>2. Cardinality(Inside(m) \ {c}) = Cardinality(Inside(m)) - 1
        BY <2>0, <3>1, FS_RemoveElement
      <3>3. Cardinality(Inside(m) \ {c}) \in Nat
        BY <2>0, FS_RemoveElement, FS_CardinalityType
      <3>4. inFlight'[m] = IF inFlight[m] > 1 THEN inFlight[m] - 1 ELSE 0
        BY <1>0, <1>1, <2>1
      <3> QED BY <2>0, <3>1, <3>2, <3>3, <3>4
    <2>2. CASE m # k
      <3>1. Inside(m)' = Inside(m)
        BY <1>0, <1>1, <2>2 DEF Inside, Model, InfoHeld
      <3> QED BY <1>0, <1>1, <2>0, <2>2, <3>1
    <2> QED BY <2>1, <2>2
  <1> QED BY <1>3, <1>4, <1>5, <1>6 DEF GateInv, GateCounts

\* ctx ends at the gate.
LEMMA GateCancelKeeps ==
    ASSUME GateInv, InfoHeld, NEW c \in Calls, GateCancel(c)
    PROVE  GateInv' /\ gate' = [gate EXCEPT ![c] = "out"]
  <1>1. CASE gate[c] = "admitted" /\ Exit(c)
    BY <1>1, ExitKeeps DEF Exit
  <1>2. CASE /\ gate[c] = "waiting"
             /\ waiters' = RemoveFirst(waiters, c) /\ aged' = aged \ {c}
             /\ gate' = [gate EXCEPT ![c] = "out"] /\ gateMu' = "admit"
             /\ UNCHANGED <<limit, inFlight>>
    <2>0. /\ gate \in [Calls -> {"out", "waiting", "admitted", "in"}]
          /\ waiters \in Seq(Calls)
          /\ IsInjective(waiters) /\ aged \subseteq ToSet(waiters)
      BY DEF GateInv, GateType, GateQueue
    <2>1. /\ waiters' \in Seq(Calls) /\ IsInjective(waiters')
          /\ ToSet(waiters') = ToSet(waiters) \ {c}
      BY <1>2, <2>0, FifoRemove
    <2>2. GateType'
      BY <1>2, <2>0, <2>1 DEF GateInv, GateType
    <2>3. GateQueue'
      BY <1>2, <2>0, <2>1 DEF GateInv, GateQueue
    <2>4. GateModels'
      BY <1>2, <2>0 DEF GateInv, GateModels, Model, InfoHeld
    <2>5. \A m \in Models : Inside(m)' = Inside(m)
      BY <1>2, <2>0 DEF Inside, Model, InfoHeld
    <2> QED BY <1>2, <2>2, <2>3, <2>4, <2>5 DEF GateInv, GateCounts
  <1> QED BY <1>1, <1>2 DEF GateCancel

\* The limit is set, the loop ends, and waiters age.
LEMMA GateLoopKeeps ==
    ASSUME GateInv, info' = info,
           \/ \E lim \in [max : Int, wait : BOOLEAN] : SetLimit(lim)
           \/ AdmitEnd \/ Age
    PROVE  GateInv' /\ gate' = gate
  <1>0. GateType
    BY DEF GateInv
  <1>1. InfoHeld
    BY DEF InfoHeld
  <1>2. ASSUME NEW lim \in [max : Int, wait : BOOLEAN], SetLimit(lim) PROVE GateInv' /\ gate' = gate
    <2>1. /\ limit' = lim /\ gateMu' = "admit"
          /\ UNCHANGED <<inFlight, waiters, aged, gate>>
      BY <1>2 DEF SetLimit
    <2> QED BY <1>0, <1>1, <2>1, GateUntouched DEF GateType
  <1>3. ASSUME AdmitEnd PROVE GateInv' /\ gate' = gate
    <2>1. gateMu' = "free" /\ UNCHANGED <<limit, inFlight, waiters, aged, gate>>
      BY <1>3 DEF AdmitEnd
    <2> QED BY <1>0, <1>1, <2>1, GateUntouched DEF GateType
  <1>4. ASSUME Age PROVE GateInv' /\ gate' = gate
    <2>1. PICK i \in DOMAIN waiters : aged' = aged \cup {waiters[i]}
      BY <1>4 DEF Age
    <2>2. UNCHANGED <<limit, inFlight, waiters, gate, gateMu>>
      BY <1>4 DEF Age
    <2>3. aged' \subseteq ToSet(waiters)
      BY <1>0, <2>1 DEF GateType, ToSet
    <2> QED BY <1>0, <1>1, <2>2, <2>3, GateUntouched DEF GateType
  <1> QED BY <1>2, <1>3, <1>4
-----------------------------------------------------------------------------
(* The callers.                                                            *)

SchedType ==
    /\ pc \in [Calls -> SchedPhases] /\ usesLane \subseteq Calls
    /\ laneOn \in BOOLEAN /\ pending \in {"none", "gate", "lane"}
    /\ reloads \in 0 .. MaxReloads

\* Where a caller is in acquire says where it is in the lane and in the gate.
PlaceOf(c) ==
    /\ pc[c] \notin {"lane", "running"} => at[c] = "out"
    /\ pc[c] = "lane" => c \in usesLane
    /\ pc[c] = "running" => at[c] = IF c \in usesLane THEN "in" ELSE "out"
    /\ pc[c] \in {"idle", "enter"} => gate[c] = "out"
    /\ pc[c] \in {"notify", "gateWait"} => gate[c] \in {"waiting", "admitted"}
    /\ pc[c] \in {"lane", "running", "leave"} => gate[c] \in {"out", "in"}
    /\ pc[c] = "notify" => HasOwner(c)

Places == \A c \in Calls : PlaceOf(c)

\* The inductive invariant.
SchedInv == LaneInv /\ GateInv /\ SchedType /\ Places

\* A forgotten call is a call still.
LEMMA NoInfoIsInfo == NoInfo \in CallInfos
  <1>1. (CHOOSE u \in Users : TRUE) \in Users
    BY UsersNotEmpty
  <1> QED BY <1>1 DEF NoInfo, CallInfos

\* Init.
LEMMA SchedStarts == Init => SchedInv
  <1> SUFFICES ASSUME Init PROVE SchedInv
    OBVIOUS
  <1>1. info \in [Calls -> CallInfos]
    BY NoInfoIsInfo DEF Init
  <1>2. LaneInv
    BY <1>1, LaneStarts DEF Init
  <1>3. GateInv
    <2>0. /\ limit \in GateLimits /\ inFlight = [m \in Models |-> 0] /\ waiters = <<>>
          /\ aged = {}
          /\ gate = [c \in Calls |-> "out"] /\ gateMu = "free"
      BY DEF Init, GateInit
    <2>1. IsInjective(<<>>) /\ ToSet(<<>>) = {}
      BY DEF IsInjective, ToSet
    <2>2. GateType
      BY <2>0, GateLimitsType DEF GateType
    <2>3. GateQueue /\ GateModels
      BY <2>0, <2>1 DEF GateQueue, GateModels
    <2>4. \A m \in Models : Inside(m) = {}
      BY <2>0 DEF Inside
    <2> QED BY <2>0, <2>2, <2>3, <2>4, FS_EmptySet DEF GateInv, GateCounts
  <1>4. SchedType
    BY MaxReloadsType DEF Init, SchedType, SchedPhases
  <1>5. Places
    BY DEF Init, LaneInit, GateInit, Places, PlaceOf
  <1> QED BY <1>2, <1>3, <1>4, <1>5 DEF SchedInv

\* The parts of the invariant.
LEMMA SchedFacts ==
    ASSUME SchedInv
    PROVE  /\ LaneInv /\ GateInv /\ SchedType /\ Places /\ LaneType
           /\ info \in [Calls -> CallInfos] /\ at \in [Calls -> Phases]
           /\ gate \in [Calls -> {"out", "waiting", "admitted", "in"}]
           /\ pc \in [Calls -> SchedPhases]
           /\ \A c \in Calls : PlaceOf(c)
  <1>1. LaneInv /\ GateInv /\ SchedType /\ Places
    BY DEF SchedInv
  <1>2. LaneType
    BY <1>1, LaneNumbers
  <1> QED BY <1>1, <1>2 DEF LaneType, GateInv, GateType, SchedType, Places

\* A caller goes on, and its call stays what it is.
LEMMA StepKeeps ==
    ASSUME SchedInv, NEW c \in Calls, NEW p \in SchedPhases, GotoSame(c, p),
           LaneInv', GateInv', PlaceOf(c)',
           \A d \in Calls \ {c} : at'[d] = at[d] /\ gate'[d] = gate[d],
           UNCHANGED <<laneOn, pending, reloads>>
    PROVE  SchedInv'
  <1>1. pc' = [pc EXCEPT ![c] = p] /\ info' = info /\ usesLane' = usesLane
    BY DEF GotoSame, Goto
  <1>2. pc \in [Calls -> SchedPhases] /\ SchedType /\ \A d \in Calls : PlaceOf(d)
    BY SchedFacts
  <1>3. SchedType'
    BY <1>1, <1>2 DEF SchedType
  <1>4. ASSUME NEW d \in Calls, d # c PROVE PlaceOf(d)'
    <2>1. pc'[d] = pc[d] /\ at'[d] = at[d] /\ gate'[d] = gate[d]
      BY <1>1, <1>2, <1>4
    <2> QED BY <1>1, <1>2, <2>1 DEF PlaceOf, HasOwner
  <1> QED BY <1>3, <1>4 DEF SchedInv, Places

\* A caller's call is over.
LEMMA ReturnKeeps ==
    ASSUME SchedInv, NEW c \in Calls, Return(c), at[c] = "out", UNCHANGED laneVars,
           gate'[c] = "out", \A d \in Calls \ {c} : gate'[d] = gate[d],
           InfoHeld => GateInv', UNCHANGED <<laneOn, pending, reloads>>
    PROVE  SchedInv'
  <1>1. /\ pc' = [pc EXCEPT ![c] = "idle"] /\ info' = [info EXCEPT ![c] = NoInfo]
        /\ usesLane' = usesLane \ {c}
    BY DEF Return, Goto
  <1>2. /\ pc \in [Calls -> SchedPhases] /\ SchedType /\ \A d \in Calls : PlaceOf(d)
        /\ info \in [Calls -> CallInfos] /\ LaneInv
    BY SchedFacts
  <1>3. at' = at
    BY DEF laneVars
  <1>4. info' \in [Calls -> CallInfos] /\ \A d \in Calls : d # c => info'[d] = info[d]
    BY <1>1, <1>2, NoInfoIsInfo
  <1>5. LaneInv'
    BY <1>2, <1>4, InfoKeeps
  <1>6. GateInv'
    BY <1>4 DEF InfoHeld
  <1>7. SchedType'
    BY <1>1, <1>2 DEF SchedType, SchedPhases
  <1>8. ASSUME NEW d \in Calls, d # c PROVE PlaceOf(d)'
    <2>1. pc'[d] = pc[d] /\ at'[d] = at[d] /\ gate'[d] = gate[d] /\ info'[d] = info[d]
          /\ (d \in usesLane' <=> d \in usesLane)
      BY <1>1, <1>2, <1>3, <1>4, <1>8
    <2> QED BY <1>2, <2>1 DEF PlaceOf, HasOwner
  <1>9. PlaceOf(c)'
    BY <1>1, <1>2, <1>3 DEF PlaceOf
  <1> QED BY <1>5, <1>6, <1>7, <1>8, <1>9 DEF SchedInv, Places

\* A step of nobody in particular.
LEMMA BackgroundKeeps ==
    ASSUME SchedInv, LaneInv', GateInv', info' = info, pc' = pc, usesLane' = usesLane,
           \A d \in Calls : at'[d] = at[d] \/ (at[d] \notin {"out", "in"} /\ pc[d] = "lane"),
           \A d \in Calls : gate'[d] = gate[d] \/ (gate[d] = "waiting" /\ gate'[d] = "admitted"),
           laneOn' \in BOOLEAN, pending' \in {"none", "gate", "lane"}, reloads' \in 0 .. MaxReloads
    PROVE  SchedInv'
  <1>1. SchedType /\ \A d \in Calls : PlaceOf(d)
    BY SchedFacts
  <1>2. SchedType'
    BY <1>1 DEF SchedType
  <1>3. ASSUME NEW d \in Calls PROVE PlaceOf(d)'
    BY <1>1 DEF PlaceOf, HasOwner
  <1> QED BY <1>2, <1>3 DEF SchedInv, Places

\* Begin.
LEMMA BeginKeeps ==
    ASSUME SchedInv, NEW c \in Calls, NEW i \in Infos[c], Begin(c, i)
    PROVE  SchedInv'
  <1>1. /\ pc[c] = "idle" /\ info' = [info EXCEPT ![c] = i]
        /\ pc' = [pc EXCEPT ![c] = "enter"]
        /\ usesLane' = usesLane \/ usesLane' = usesLane \cup {c}
        /\ UNCHANGED laneVars
        /\ UNCHANGED <<limit, inFlight, waiters, aged, gate, gateMu, laneOn, pending, reloads>>
    BY DEF Begin, Goto, gateVars
  <1>2. /\ pc \in [Calls -> SchedPhases] /\ SchedType /\ \A d \in Calls : PlaceOf(d)
        /\ info \in [Calls -> CallInfos] /\ LaneInv /\ GateInv
    BY SchedFacts
  <1>3. at[c] = "out" /\ gate[c] = "out" /\ at' = at
    BY <1>1, <1>2 DEF PlaceOf, laneVars
  <1>4. info' \in [Calls -> CallInfos] /\ \A d \in Calls : d # c => info'[d] = info[d]
    <2>1. i \in CallInfos
      BY InfosType
    <2> QED BY <1>1, <1>2, <2>1
  <1>5. LaneInv'
    BY <1>1, <1>2, <1>3, <1>4, InfoKeeps
  <1>6. GateInv'
    <2>1. InfoHeld
      BY <1>1, <1>3, <1>4 DEF InfoHeld
    <2> QED BY <1>1, <1>2, <2>1, GateUntouched DEF GateInv, GateType
  <1>7. SchedType'
    BY <1>1, <1>2 DEF SchedType, SchedPhases
  <1>8. ASSUME NEW d \in Calls, d # c PROVE PlaceOf(d)'
    <2>1. pc'[d] = pc[d] /\ at'[d] = at[d] /\ gate'[d] = gate[d] /\ info'[d] = info[d]
          /\ (d \in usesLane' <=> d \in usesLane)
      BY <1>1, <1>2, <1>3, <1>4, <1>8
    <2> QED BY <1>2, <2>1 DEF PlaceOf, HasOwner
  <1>9. PlaceOf(c)'
    BY <1>1, <1>2, <1>3 DEF PlaceOf
  <1> QED BY <1>5, <1>6, <1>7, <1>8, <1>9 DEF SchedInv, Places

\* Nothing of the lane changes.
LEMMA LaneStays ==
    ASSUME SchedInv, UNCHANGED laneVars, info' = info
    PROVE  LaneInv' /\ at' = at
  <1>1. LaneInv /\ info \in [Calls -> CallInfos]
    BY SchedFacts
  <1> QED BY <1>1, InfoKeeps DEF laneVars

\* Nothing of the gate changes.
LEMMA GateStays ==
    ASSUME SchedInv, UNCHANGED gateVars, InfoHeld
    PROVE  GateInv' /\ gate' = gate
  <1>1. GateInv
    BY SchedFacts
  <1> QED BY <1>1, GateUntouched DEF gateVars, GateInv, GateType

\* enter.
LEMMA EnterGateKeeps ==
    ASSUME SchedInv, NEW c \in Calls, EnterGate(c)
    PROVE  SchedInv'
  <1>0. /\ GateInv /\ PlaceOf(c) /\ info \in [Calls -> CallInfos]
        /\ pc \in [Calls -> SchedPhases]
        /\ gate \in [Calls -> {"out", "waiting", "admitted", "in"}]
    BY SchedFacts
  <1>1. pc[c] = "enter" /\ UNCHANGED laneVars /\ UNCHANGED <<laneOn, pending, reloads>>
    BY DEF EnterGate
  <1>2. at[c] = "out" /\ gate[c] = "out"
    BY <1>0, <1>1 DEF PlaceOf
  <1>3. CASE (PassGate(c) \/ EnterAtOnce(c)) /\ GotoSame(c, AfterGate(c))
    <2>1. info' = info /\ usesLane' = usesLane /\ pc' = [pc EXCEPT ![c] = AfterGate(c)]
      BY <1>3 DEF GotoSame, Goto
    <2>2. LaneInv' /\ at' = at
      BY <1>1, <2>1, LaneStays
    <2>3. GateInv' /\ gate'[c] \in {"out", "in"} /\ \A d \in Calls \ {c} : gate'[d] = gate[d]
      <3>1. CASE PassGate(c)
        BY <1>2, <2>1, <3>1, GateStays DEF PassGate, InfoHeld
      <3>2. CASE EnterAtOnce(c)
        <4>1. gate' = [gate EXCEPT ![c] = "in"]
          BY <3>2 DEF EnterAtOnce
        <4>2. GateInv'
          BY <1>0, <2>1, <3>2, EnterAtOnceKeeps
        <4> QED BY <1>0, <4>1, <4>2
      <3> QED BY <1>3, <3>1, <3>2
    <2>4. AfterGate(c) \in SchedPhases
      BY DEF AfterGate, SchedPhases
    <2>5. PlaceOf(c)'
      BY <1>0, <1>2, <2>1, <2>2, <2>3 DEF PlaceOf, AfterGate
    <2> QED BY <1>1, <1>3, <2>2, <2>3, <2>4, <2>5, StepKeeps
  <1>4. CASE RefusedAtGate(c) /\ Return(c)
    <2>1. UNCHANGED gateVars
      BY <1>4 DEF RefusedAtGate
    <2>2. gate' = gate
      BY <2>1 DEF gateVars
    <2> QED BY <1>1, <1>2, <1>4, <2>1, <2>2, GateStays, ReturnKeeps
  <1>5. CASE QueueAtGate(c) /\ GotoSame(c, IF HasOwner(c) THEN "notify" ELSE "gateWait")
    <2> DEFINE p == IF HasOwner(c) THEN "notify" ELSE "gateWait"
    <2>1. info' = info /\ usesLane' = usesLane /\ pc' = [pc EXCEPT ![c] = p]
      BY <1>5 DEF GotoSame, Goto
    <2>2. LaneInv' /\ at' = at
      BY <1>1, <2>1, LaneStays
    <2>3. gate' = [gate EXCEPT ![c] = "waiting"]
      BY <1>5 DEF QueueAtGate
    <2>4. GateInv'
      BY <1>0, <1>5, <2>1, QueueAtGateKeeps
    <2>5. \A d \in Calls \ {c} : gate'[d] = gate[d]
      BY <1>0, <2>3
    <2>6. p \in SchedPhases
      BY DEF SchedPhases
    <2>7. PlaceOf(c)'
      BY <1>0, <1>2, <2>1, <2>2, <2>3 DEF PlaceOf, HasOwner
    <2> QED BY <1>1, <1>5, <2>2, <2>4, <2>5, <2>6, <2>7, StepKeeps
  <1> QED BY <1>3, <1>4, <1>5 DEF EnterGate

\* OnQueued at the gate.
LEMMA NotifyKeeps ==
    ASSUME SchedInv, NEW c \in Calls, Notify(c)
    PROVE  SchedInv'
  <1>0. LaneInv /\ LaneType /\ PlaceOf(c) /\ pc \in [Calls -> SchedPhases]
    BY SchedFacts
  <1>1. /\ pc[c] = "notify" /\ GotoSame(c, "gateWait") /\ UNCHANGED gateVars
        /\ UNCHANGED <<laneOn, pending, reloads>>
    BY DEF Notify
  <1>2. info' = info /\ usesLane' = usesLane /\ pc' = [pc EXCEPT ![c] = "gateWait"]
    BY <1>1 DEF GotoSame, Goto
  <1>3. info[c].owner \in Owners
    BY <1>0, <1>1, InfoFacts DEF PlaceOf
  <1>4. LaneInv' /\ at' = at
    <2>1. CASE YieldIdle(info[c].owner)
      <3>1. at' = at
        BY <2>1 DEF YieldIdle, GiveUp
      <3> QED BY <1>0, <1>2, <1>3, <2>1, <3>1, YieldIdleKeeps
    <2>2. CASE UNCHANGED laneVars
      BY <1>2, <2>2, LaneStays
    <2> QED BY <2>1, <2>2 DEF Notify
  <1>5. GateInv' /\ gate' = gate
    BY <1>1, <1>2, GateStays DEF InfoHeld
  <1>6. PlaceOf(c)'
    BY <1>0, <1>1, <1>2, <1>4, <1>5 DEF PlaceOf
  <1>7. "gateWait" \in SchedPhases
    BY DEF SchedPhases
  <1> QED BY <1>1, <1>4, <1>5, <1>6, <1>7, StepKeeps

\* A waiter at the gate is admitted.
LEMMA GateAdmittedKeeps ==
    ASSUME SchedInv, NEW c \in Calls, GateAdmitted(c)
    PROVE  SchedInv'
  <1>0. /\ GateInv /\ PlaceOf(c) /\ pc \in [Calls -> SchedPhases]
        /\ gate \in [Calls -> {"out", "waiting", "admitted", "in"}]
    BY SchedFacts
  <1>1. /\ pc[c] = "gateWait" /\ GateWake(c) /\ GotoSame(c, AfterGate(c))
        /\ UNCHANGED laneVars
        /\ UNCHANGED <<laneOn, pending, reloads>>
    BY DEF GateAdmitted
  <1>2. info' = info /\ usesLane' = usesLane /\ pc' = [pc EXCEPT ![c] = AfterGate(c)]
    BY <1>1 DEF GotoSame, Goto
  <1>3. LaneInv' /\ at' = at
    BY <1>1, <1>2, LaneStays
  <1>4. gate' = [gate EXCEPT ![c] = "in"]
    BY <1>1 DEF GateWake
  <1>5. GateInv' /\ \A d \in Calls \ {c} : gate'[d] = gate[d]
    BY <1>0, <1>1, <1>2, <1>4, GateWakeKeeps
  <1>6. PlaceOf(c)'
    BY <1>0, <1>1, <1>2, <1>3, <1>4 DEF PlaceOf, AfterGate
  <1>7. AfterGate(c) \in SchedPhases
    BY DEF AfterGate, SchedPhases
  <1> QED BY <1>1, <1>3, <1>5, <1>6, <1>7, StepKeeps

\* ctx ends at the gate.
LEMMA CancelAtGateKeeps ==
    ASSUME SchedInv, NEW c \in Calls, CancelAtGate(c)
    PROVE  SchedInv'
  <1>0. /\ GateInv /\ PlaceOf(c)
        /\ gate \in [Calls -> {"out", "waiting", "admitted", "in"}]
    BY SchedFacts
  <1>1. /\ pc[c] = "gateWait" /\ GateCancel(c) /\ Return(c) /\ UNCHANGED laneVars
        /\ UNCHANGED <<laneOn, pending, reloads>>
    BY DEF CancelAtGate
  <1>2. at[c] = "out"
    BY <1>0, <1>1 DEF PlaceOf
  <1>3. gate' = [gate EXCEPT ![c] = "out"]
    BY <1>1 DEF GateCancel, Exit
  <1>4. InfoHeld => GateInv'
    BY <1>0, <1>1, GateCancelKeeps
  <1> QED BY <1>0, <1>1, <1>2, <1>3, <1>4, ReturnKeeps

\* ctx has ended early.
LEMMA CancelEarlyKeeps ==
    ASSUME SchedInv, NEW c \in Calls, CancelEarly(c)
    PROVE  SchedInv'
  <1>0. GateInv /\ PlaceOf(c) /\ pc \in [Calls -> SchedPhases]
    BY SchedFacts
  <1>1. UNCHANGED laneVars /\ UNCHANGED gateVars /\ UNCHANGED <<laneOn, pending, reloads>>
        /\ gate' = gate
    BY DEF CancelEarly, gateVars
  <1>2. CASE pc[c] = "enter" /\ Return(c)
    <2>1. at[c] = "out" /\ gate[c] = "out"
      BY <1>0, <1>2 DEF PlaceOf
    <2> QED BY <1>1, <1>2, <2>1, GateStays, ReturnKeeps
  <1>3. CASE pc[c] = "lane" /\ at[c] = "out" /\ GotoSame(c, "leave")
    <2>1. info' = info /\ usesLane' = usesLane /\ pc' = [pc EXCEPT ![c] = "leave"]
      BY <1>3 DEF GotoSame, Goto
    <2>2. LaneInv' /\ at' = at
      BY <1>1, <2>1, LaneStays
    <2>3. GateInv'
      BY <1>1, <2>1, GateStays DEF InfoHeld
    <2>4. PlaceOf(c)'
      BY <1>0, <1>1, <1>3, <2>1, <2>2 DEF PlaceOf
    <2>5. "leave" \in SchedPhases
      BY DEF SchedPhases
    <2> QED BY <1>1, <1>3, <2>2, <2>3, <2>4, <2>5, StepKeeps
  <1> QED BY <1>2, <1>3 DEF CancelEarly

\* A step of a caller in the lane: the gate stays, and so does everyone else.
LEMMA InLaneKeeps ==
    ASSUME SchedInv, NEW c \in Calls, NEW p \in {"lane", "running", "leave"}, GotoSame(c, p),
           pc[c] \in {"lane", "running"},
           LaneInv', NEW q \in Phases, at' = [at EXCEPT ![c] = q],
           p = "lane" => pc[c] = "lane",
           p = "running" => q = "in" /\ pc[c] = "lane", p = "leave" => q = "out",
           UNCHANGED gateVars, UNCHANGED <<laneOn, pending, reloads>>
    PROVE  SchedInv'
  <1>0. /\ PlaceOf(c) /\ pc \in [Calls -> SchedPhases] /\ at \in [Calls -> Phases]
    BY SchedFacts
  <1>1. info' = info /\ usesLane' = usesLane /\ pc' = [pc EXCEPT ![c] = p]
    BY DEF GotoSame, Goto
  <1>2. GateInv' /\ gate' = gate
    BY <1>1, GateStays DEF InfoHeld
  <1>3. at'[c] = q /\ \A d \in Calls \ {c} : at'[d] = at[d]
    BY <1>0
  <1>4. PlaceOf(c)'
    BY <1>0, <1>1, <1>2, <1>3 DEF PlaceOf
  <1>5. p \in SchedPhases
    BY DEF SchedPhases
  <1> QED BY <1>2, <1>3, <1>4, <1>5, StepKeeps

\* lane.acquire.
LEMMA EnterLaneKeeps ==
    ASSUME SchedInv, NEW c \in Calls, EnterLane(c)
    PROVE  SchedInv'
  <1>0. LaneInv /\ at \in [Calls -> Phases]
    BY SchedFacts
  <1>1. pc[c] = "lane" /\ UNCHANGED gateVars /\ UNCHANGED <<laneOn, pending, reloads>>
    BY DEF EnterLane
  <1>a. /\ "in" \in Phases /\ "out" \in Phases /\ "queued" \in Phases
        /\ "entering" \in Phases
    BY DEF Phases
  <1>2. CASE AcquireLeased(c) /\ GotoSame(c, "running")
    <2>1. info' = info /\ at' = [at EXCEPT ![c] = "in"]
      BY <1>2 DEF GotoSame, AcquireLeased
    <2>2. LaneInv'
      BY <1>0, <1>2, <2>1, AcquireLeasedKeeps
    <2> QED BY <1>1, <1>2, <1>a, <2>1, <2>2, InLaneKeeps
  <1>3. CASE AcquireYield(c) /\ GotoSame(c, "lane")
    <2>1. info' = info /\ at' = [at EXCEPT ![c] = "entering"]
      BY <1>3 DEF GotoSame, AcquireYield
    <2>2. LaneInv'
      BY <1>0, <1>3, <2>1, AcquireYieldKeeps
    <2> QED BY <1>1, <1>3, <1>a, <2>1, <2>2, InLaneKeeps
  <1>4. CASE /\ AcquireSlot(c)
             /\ GotoSame(c, CASE at'[c] = "in" -> "running"
                          [] at'[c] = "queued" -> "lane"
                          [] OTHER -> "leave")
    <2>1. info' = info
      BY <1>4 DEF GotoSame
    <2>2. LaneInv'
      BY <1>0, <1>4, <2>1, AcquireSlotKeeps
    <2>3. CASE at' = [at EXCEPT ![c] = "in"]
      <3>1. at'[c] = "in"
        BY <1>0, <2>3
      <3>2. GotoSame(c, "running")
        BY <1>4, <3>1
      <3> QED BY <1>1, <1>a, <2>2, <2>3, <3>2, InLaneKeeps
    <2>4. CASE at' = [at EXCEPT ![c] = "queued"]
      <3>1. at'[c] = "queued"
        BY <1>0, <2>4
      <3>2. GotoSame(c, "lane")
        BY <1>4, <3>1
      <3> QED BY <1>1, <1>a, <2>2, <2>4, <3>2, InLaneKeeps
    <2>5. CASE at' = [at EXCEPT ![c] = "out"]
      <3>1. at'[c] = "out"
        BY <1>0, <2>5
      <3>2. GotoSame(c, "leave")
        BY <1>4, <3>1
      <3> QED BY <1>1, <1>a, <2>2, <2>5, <3>2, InLaneKeeps
    <2> QED BY <1>4, <2>3, <2>4, <2>5 DEF AcquireSlot
  <1> QED BY <1>2, <1>3, <1>4 DEF EnterLane

\* The waiter in the lane wakes, or its ctx ends.
LEMMA LaneWaitKeeps ==
    ASSUME SchedInv, NEW c \in Calls, LaneGranted(c) \/ CancelInLane(c)
    PROVE  SchedInv'
  <1>0. LaneInv
    BY SchedFacts
  <1>a. "in" \in Phases /\ "out" \in Phases
    BY DEF Phases
  <1>1. CASE LaneGranted(c)
    <2>1. /\ pc[c] = "lane" /\ Wake(c) /\ GotoSame(c, "running") /\ UNCHANGED gateVars
          /\ UNCHANGED <<laneOn, pending, reloads>>
      BY <1>1 DEF LaneGranted
    <2>2. info' = info /\ at' = [at EXCEPT ![c] = "in"]
      BY <2>1 DEF GotoSame, Wake
    <2>3. LaneInv'
      BY <1>0, <2>1, <2>2, WakeKeeps
    <2> QED BY <1>a, <2>1, <2>2, <2>3, InLaneKeeps
  <1>2. CASE CancelInLane(c)
    <2>1. /\ pc[c] = "lane" /\ (Withdraw(c) \/ Abandon(c)) /\ GotoSame(c, "leave")
          /\ UNCHANGED gateVars /\ UNCHANGED <<laneOn, pending, reloads>>
      BY <1>2 DEF CancelInLane
    <2>2. info' = info /\ at' = [at EXCEPT ![c] = "out"]
      BY <2>1 DEF GotoSame, Withdraw, Abandon, Finish
    <2>3. LaneInv'
      BY <1>0, <2>1, <2>2, WithdrawKeeps, EndsKeep
    <2> QED BY <1>a, <2>1, <2>2, <2>3, InLaneKeeps
  <1> QED BY <1>1, <1>2

\* A call ends.
LEMMA EndCallKeeps ==
    ASSUME SchedInv, NEW c \in Calls, EndCall(c)
    PROVE  SchedInv'
  <1>0. LaneInv /\ PlaceOf(c) /\ at \in [Calls -> Phases]
    BY SchedFacts
  <1>1. /\ pc[c] = "running" /\ GotoSame(c, "leave") /\ UNCHANGED gateVars
        /\ UNCHANGED <<laneOn, pending, reloads>>
    BY DEF EndCall
  <1>2. info' = info /\ "out" \in Phases
    BY <1>1 DEF GotoSame, Phases
  <1>3. CASE Release(c) \/ GiveBack(c)
    <2>1. at' = [at EXCEPT ![c] = "out"]
      BY <1>3 DEF Release, GiveBack, Finish
    <2>2. LaneInv'
      BY <1>0, <1>2, <1>3, EndsKeep
    <2> QED BY <1>1, <1>2, <2>1, <2>2, InLaneKeeps
  <1>4. CASE c \notin usesLane /\ UNCHANGED laneVars
    <2>1. LaneInv' /\ at' = at
      BY <1>2, <1>4, LaneStays
    <2>2. at' = [at EXCEPT ![c] = "out"]
      BY <1>0, <1>1, <1>4, <2>1 DEF PlaceOf
    <2> QED BY <1>1, <1>2, <2>1, <2>2, InLaneKeeps
  <1> QED BY <1>3, <1>4 DEF EndCall

\* leave.
LEMMA LeaveKeeps ==
    ASSUME SchedInv, NEW c \in Calls, Leave(c)
    PROVE  SchedInv'
  <1>0. /\ GateInv /\ PlaceOf(c)
        /\ gate \in [Calls -> {"out", "waiting", "admitted", "in"}]
    BY SchedFacts
  <1>1. /\ pc[c] = "leave" /\ Return(c) /\ UNCHANGED laneVars
        /\ UNCHANGED <<laneOn, pending, reloads>>
    BY DEF Leave
  <1>2. at[c] = "out" /\ gate[c] \in {"out", "in"}
    BY <1>0, <1>1 DEF PlaceOf
  <1>3. CASE gate[c] = "in" /\ LeaveGate(c)
    <2>1. gate' = [gate EXCEPT ![c] = "out"]
      BY <1>3 DEF LeaveGate, Exit
    <2>2. InfoHeld => GateInv'
      BY <1>0, <1>3, ExitKeeps DEF LeaveGate
    <2> QED BY <1>0, <1>1, <1>2, <2>1, <2>2, ReturnKeeps
  <1>4. CASE gate[c] # "in" /\ UNCHANGED gateVars
    <2>1. gate' = gate
      BY <1>4 DEF gateVars
    <2> QED BY <1>1, <1>2, <1>4, <2>1, GateStays, ReturnKeeps
  <1> QED BY <1>3, <1>4 DEF Leave

\* Done.
LEMMA RunDoneKeeps ==
    ASSUME SchedInv, NEW o \in Owners, RunDone(o)
    PROVE  SchedInv'
  <1>0. LaneInv /\ SchedType
    BY SchedFacts
  <1>1. /\ Done(o) /\ UNCHANGED <<info, pc, usesLane, laneOn, pending, reloads>>
        /\ UNCHANGED gateVars
    BY DEF RunDone, schedVars
  <1>2. LaneInv' /\ at' = at
    BY <1>0, <1>1, DoneKeeps DEF Done, GiveUp
  <1>3. GateInv' /\ gate' = gate
    BY <1>1, GateStays DEF InfoHeld
  <1> QED BY <1>0, <1>1, <1>2, <1>3, BackgroundKeeps DEF SchedType

\* The hold's clock and timer.
LEMMA TimersKeep ==
    ASSUME SchedInv, NEW o \in Owners, HoldClock(o) \/ TimerRuns(o)
    PROVE  SchedInv'
  <1>0. LaneInv /\ SchedType
    BY SchedFacts
  <1>1. /\ HoldRunsOut(o) \/ Expire(o)
        /\ UNCHANGED <<info, pc, usesLane, laneOn, pending, reloads>>
        /\ UNCHANGED gateVars
    BY DEF HoldClock, TimerRuns, schedVars
  <1>2. LaneInv' /\ at' = at
    <2>1. CASE HoldRunsOut(o)
      BY <1>0, <1>1, <2>1, HoldRunsOutKeeps DEF HoldRunsOut
    <2>2. CASE Expire(o)
      BY <1>0, <1>1, <2>2, ExpireKeeps DEF Expire, GiveUp
    <2> QED BY <1>1, <2>1, <2>2
  <1>3. GateInv' /\ gate' = gate
    BY <1>1, GateStays DEF InfoHeld
  <1> QED BY <1>0, <1>1, <1>2, <1>3, BackgroundKeeps DEF SchedType

\* A reload sets or retires the lane.
LEMMA ReloadKeeps ==
    ASSUME SchedInv, (\E raw \in LaneConfigs : Reload(raw)) \/ RemoveLane
    PROVE  SchedInv'
  <1>0. LaneInv /\ SchedType
    BY SchedFacts
  <1>1. /\ UNCHANGED <<info, pc, usesLane>> /\ UNCHANGED gateVars
        /\ laneOn' \in BOOLEAN /\ pending' \in {"none", "gate", "lane"}
    BY <1>0 DEF Reload, RemoveLane, SchedType
  <1>2. reloads' \in 0 .. MaxReloads
    BY <1>0, MaxReloadsType DEF Reload, RemoveLane, SchedType
  <1>3. LaneInv' /\ at' = at
    <2>1. CASE Retire
      BY <1>0, <1>1, <2>1, RetireKeeps DEF Retire, GiveUp
    <2>2. ASSUME NEW raw \in LaneConfigs, Reconfigure(raw) PROVE LaneInv' /\ at' = at
      BY <1>0, <1>1, <2>2, ReconfigureKeeps DEF Reconfigure, GiveUp
    <2> QED BY <2>1, <2>2 DEF Reload, RemoveLane
  <1>4. GateInv' /\ gate' = gate
    BY <1>1, GateStays DEF InfoHeld
  <1> QED BY <1>1, <1>2, <1>3, <1>4, BackgroundKeeps

\* A reload sets the gate's limit.
LEMMA ReloadGateKeeps ==
    ASSUME SchedInv, (\E lim \in GateLimits : ReloadGate(lim)) \/ RemoveProvider
    PROVE  SchedInv'
  <1>0. GateInv /\ SchedType
    BY SchedFacts
  <1>1. /\ UNCHANGED <<info, pc, usesLane, laneOn>> /\ UNCHANGED laneVars
        /\ pending' \in {"none", "gate", "lane"}
    BY <1>0 DEF ReloadGate, RemoveProvider
  <1>2. reloads' \in 0 .. MaxReloads /\ laneOn' \in BOOLEAN
    BY <1>0, MaxReloadsType DEF ReloadGate, RemoveProvider, SchedType
  <1>3. \E lim \in [max : Int, wait : BOOLEAN] : SetLimit(lim)
    <2>1. ASSUME NEW lim \in GateLimits, ReloadGate(lim)
          PROVE  lim \in [max : Int, wait : BOOLEAN] /\ SetLimit(lim)
      BY <2>1, GateLimitsType DEF ReloadGate
    <2>2. ASSUME RemoveProvider
          PROVE  /\ [max |-> 0, wait |-> FALSE] \in [max : Int, wait : BOOLEAN]
                 /\ SetLimit([max |-> 0, wait |-> FALSE])
      BY <2>2 DEF RemoveProvider
    <2> QED BY <2>1, <2>2
  <1>4. GateInv' /\ gate' = gate
    BY <1>0, <1>1, <1>3, GateLoopKeeps
  <1>5. LaneInv' /\ at' = at
    BY <1>1, LaneStays
  <1> QED BY <1>1, <1>2, <1>4, <1>5, BackgroundKeeps

\* dispatch.
LEMMA LaneLoopKeeps ==
    ASSUME SchedInv, LaneLoop
    PROVE  SchedInv'
  <1>0. LaneInv /\ SchedType /\ at \in [Calls -> Phases] /\ \A c \in Calls : PlaceOf(c)
        /\ pc \in [Calls -> SchedPhases]
    BY SchedFacts
  <1>1. /\ DispatchOne \/ DispatchEnd
        /\ UNCHANGED <<info, pc, usesLane, laneOn, pending, reloads>>
        /\ UNCHANGED gateVars
    BY DEF LaneLoop, schedVars
  <1>2. LaneInv'
    BY <1>0, <1>1, DispatchOneKeeps, DispatchEndKeeps
  <1>3. \A d \in Calls : at'[d] = at[d] \/ (at[d] \notin {"out", "in"} /\ pc[d] = "lane")
    <2>1. CASE DispatchEnd
      BY <2>1 DEF DispatchEnd
    <2>2. CASE DispatchOne
      <3>1. PICK w \in Queued : at' = [at EXCEPT ![w] = "granted"]
        BY <2>2 DEF DispatchOne
      <3>2. w \in Calls /\ at[w] = "queued"
        BY <1>0, LaneNumbers DEF Waiting
      <3>3. pc[w] = "lane"
        BY <1>0, <3>2 DEF PlaceOf
      <3> QED BY <1>0, <3>1, <3>2, <3>3
    <2> QED BY <1>1, <2>1, <2>2
  <1>4. GateInv' /\ gate' = gate
    BY <1>1, GateStays DEF InfoHeld
  <1> QED BY <1>0, <1>1, <1>2, <1>3, <1>4, BackgroundKeeps DEF SchedType

\* admit, and the gate's clock.
LEMMA GateLoopsKeep ==
    ASSUME SchedInv, GateLoop \/ GateClock
    PROVE  SchedInv'
  <1>0. GateInv /\ SchedType
    BY SchedFacts
  <1>1. /\ AdmitRound \/ AdmitEnd \/ Age
        /\ UNCHANGED <<info, pc, usesLane, laneOn, pending, reloads>>
        /\ UNCHANGED laneVars
    BY DEF GateLoop, GateClock, schedVars
  <1>2. LaneInv' /\ at' = at
    BY <1>1, LaneStays
  <1>3. /\ GateInv'
        /\ \A d \in Calls : gate'[d] = gate[d] \/ (gate[d] = "waiting" /\ gate'[d] = "admitted")
    <2>1. CASE AdmitRound
      <3>1. /\ gate' = [c \in Calls |-> IF c \in LetIn THEN "admitted" ELSE gate[c]]
            /\ \A c \in LetIn : gate[c] = "waiting"
        BY <1>0, <2>1, AdmitRoundEffect
      <3> QED BY <1>0, <1>1, <2>1, <3>1, AdmitRoundKeeps
    <2>2. CASE AdmitEnd \/ Age
      BY <1>0, <1>1, <2>2, GateLoopKeeps
    <2> QED BY <1>1, <2>1, <2>2
  <1> QED BY <1>0, <1>1, <1>2, <1>3, BackgroundKeeps DEF SchedType

\* Nothing happens.
LEMMA StutterKeeps ==
    ASSUME SchedInv, UNCHANGED vars
    PROVE  SchedInv'
  <1>0. SchedType
    BY SchedFacts
  <1>1. /\ UNCHANGED <<info, pc, usesLane, laneOn, pending, reloads>>
        /\ UNCHANGED laneVars
        /\ UNCHANGED gateVars
    BY DEF vars, schedVars
  <1>2. LaneInv' /\ at' = at
    BY <1>1, LaneStays
  <1>3. GateInv' /\ gate' = gate
    BY <1>1, GateStays DEF InfoHeld
  <1> QED BY <1>0, <1>1, <1>2, <1>3, BackgroundKeeps DEF SchedType

\* Every step keeps the invariant.
LEMMA SchedStep == SchedInv /\ [Next]_vars => SchedInv'
  <1> SUFFICES ASSUME SchedInv, [Next]_vars PROVE SchedInv'
    OBVIOUS
  <1>1. CASE UNCHANGED vars
    BY <1>1, StutterKeeps
  <1>2. CASE \E c \in Calls : \E i \in Infos[c] : Begin(c, i)
    BY <1>2, BeginKeeps
  <1>3. ASSUME NEW c \in Calls,
               \/ EnterGate(c) \/ Notify(c) \/ GateAdmitted(c) \/ CancelAtGate(c)
               \/ CancelEarly(c) \/ EnterLane(c) \/ LaneGranted(c) \/ CancelInLane(c)
               \/ EndCall(c) \/ Leave(c)
        PROVE  SchedInv'
    BY <1>3, EnterGateKeeps, NotifyKeeps, GateAdmittedKeeps, CancelAtGateKeeps,
        CancelEarlyKeeps,
       EnterLaneKeeps, LaneWaitKeeps, EndCallKeeps, LeaveKeeps
  <1>4. CASE \E o \in Owners : RunDone(o) \/ HoldClock(o) \/ TimerRuns(o)
    BY <1>4, RunDoneKeeps, TimersKeep
  <1>5. CASE (\E raw \in LaneConfigs : Reload(raw)) \/ RemoveLane
    BY <1>5, ReloadKeeps
  <1>6. CASE (\E lim \in GateLimits : ReloadGate(lim)) \/ RemoveProvider
    BY <1>6, ReloadGateKeeps
  <1>7. CASE LaneLoop \/ GateLoop \/ GateClock
    BY <1>7, LaneLoopKeeps, GateLoopsKeep
  <1> QED BY <1>1, <1>2, <1>3, <1>4, <1>5, <1>6, <1>7 DEF Next

\* The inductive invariant holds always.
LEMMA SchedAlways == Spec => []SchedInv
  <1>1. Init => SchedInv
    BY SchedStarts
  <1>2. SchedInv /\ [Next]_vars => SchedInv'
    BY SchedStep
  <1> QED BY <1>1, <1>2, PTL DEF Spec
-----------------------------------------------------------------------------
(* What holds always.                                                      *)

\* No two of the calls in flight and the reservations share a slot, no slot is
\* lost, and the lane counts both: whatever order acquire, finish, the abandoned
\* hand-off, the expiry timer, Done and Reconfigure run in.
THEOREM SlotsExclusiveAlways == Spec => []SlotsExclusive
  <1>1. SchedInv => SlotsExclusive
    BY LaneSafe DEF SchedInv
  <1> QED BY <1>1, SchedAlways, PTL

\* A reservation keeps neither the lane over its cap nor a slot number that a
\* smaller lane does not have.
THEOREM ReservationsFitAlways == Spec => []ReservationsFit
  <1>1. SchedInv => ReservationsFit
    BY LaneSafe DEF SchedInv
  <1> QED BY <1>1, SchedAlways, PTL

\* Outside the lane's critical sections no waiter could use a free slot.
THEOREM NoWaiterBesideFreeSlotAlways == Spec => []NoWaiterBesideFreeSlot
  <1>1. SchedInv => NoWaiterBesideFreeSlot
    BY LaneSafe DEF SchedInv
  <1> QED BY <1>1, SchedAlways, PTL

\* A run's queued foreground call never waits beside the slot held for the run.
THEOREM NoSelfBlockAlways == Spec => []NoSelfBlock
  <1>1. SchedInv => NoSelfBlock
    BY LaneSafe DEF SchedInv
  <1> QED BY <1>1, SchedAlways, PTL

\* The lane's and the gate's counts per model are exact, and every variable has
\* its type.
THEOREM CountersExactAlways == Spec => []CountersExact
  <1>1. ASSUME SchedInv PROVE CountersExact
    <2>1. LaneType /\ ModelsCounted /\ GateInv /\ SchedType
      BY <1>1, LaneNumbers DEF SchedInv
    <2>2. TypeOK
      BY <2>1 DEF TypeOK, LaneType, ConfigType, LeaseType, QueueType, GateInv, GateType,
          SchedType
    <2> QED BY <2>1, <2>2 DEF CountersExact, ModelsCounted, OfModel, GateInv,
        GateCounts, Inside
  <1> QED BY <1>1, SchedAlways, PTL

\* A call is put in flight only within the lane's cap and its model's cap, on a
\* slot number the lane has.
THEOREM GrantsFitAlways == Spec => GrantsFit
  <1> DEFINE Fits == \A c \in Calls : c \notin InFlight /\ c \in InFlight' => GrantFits(c)
  <1>1. ASSUME SchedInv, [Next]_vars PROVE Fits
    <2>0. LaneInv /\ LaneType /\ SchedType /\ at \in [Calls -> Phases]
      BY <1>1, SchedFacts
    <2>1. ASSUME at' = at PROVE Fits
      BY <2>1 DEF InFlight
    <2>2. ASSUME UNCHANGED laneVars PROVE at' = at
      BY <2>2 DEF laneVars
    <2>3. ASSUME NEW c \in Calls, EnterLane(c) PROVE Fits
      BY <2>0, <2>3, AcquireFits DEF EnterLane
    <2>4. ASSUME LaneLoop PROVE Fits
      <3>1. CASE DispatchOne
        BY <2>0, <3>1, DispatchFits
      <3>2. CASE DispatchEnd
        BY <2>1, <3>2 DEF DispatchEnd
      <3> QED BY <2>4, <3>1, <3>2 DEF LaneLoop
    <2>5. ASSUME NEW c \in Calls, LaneGranted(c) PROVE Fits
      <3>1. at[c] = "granted" /\ at' = [at EXCEPT ![c] = "in"]
        BY <2>5 DEF LaneGranted, Wake
      <3> QED BY <2>0, <3>1, OthersGrantNone
    <2>6. ASSUME NEW c \in Calls, CancelInLane(c) \/ EndCall(c) PROVE Fits
      <3>1. at' = [at EXCEPT ![c] = "out"] \/ at' = at
        BY <2>2, <2>6 DEF CancelInLane, EndCall, Withdraw, Abandon, Release, GiveBack,
            Finish
      <3> QED BY <2>0, <2>1, <3>1, OthersGrantNone
    <2>7. ASSUME NEW c \in Calls,
                 \/ EnterGate(c) \/ GateAdmitted(c) \/ CancelAtGate(c)
                 \/ CancelEarly(c) \/ Leave(c) \/ (\E i \in Infos[c] : Begin(c, i))
          PROVE  at' = at
      BY <2>2, <2>7 DEF EnterGate, GateAdmitted, CancelAtGate, CancelEarly, Leave, Begin
    <2>8. ASSUME NEW c \in Calls, Notify(c) PROVE at' = at
      BY <2>2, <2>8 DEF Notify, YieldIdle, GiveUp
    <2>9. ASSUME NEW o \in Owners, RunDone(o) \/ HoldClock(o) \/ TimerRuns(o) PROVE at' = at
      BY <2>9 DEF RunDone, HoldClock, TimerRuns, Done, HoldRunsOut, Expire, GiveUp
    <2>10. ASSUME (\E raw \in LaneConfigs : Reload(raw)) \/ RemoveLane PROVE at' = at
      BY <2>10 DEF Reload, RemoveLane, Reconfigure, Retire, GiveUp
    <2>11. ASSUME (\E lim \in GateLimits : ReloadGate(lim)) \/ RemoveProvider \/ GateLoop \/ GateClock
           PROVE  at' = at
      BY <2>2, <2>11 DEF ReloadGate, RemoveProvider, GateLoop, GateClock
    <2>12. ASSUME UNCHANGED vars PROVE at' = at
      BY <2>2, <2>12 DEF vars
    <2> HIDE DEF Fits
    <2> QED BY <1>1, <2>1, <2>3, <2>4, <2>5, <2>6, <2>7, <2>8, <2>9, <2>10, <2>11,
        <2>12 DEF Next
  <1>2. SchedInv /\ [Next]_vars =>
          [\A c \in Calls : c \notin InFlight /\ c \in InFlight' =>
             /\ active' + reserved' <= cfg.max /\ slot'[c] < cfg.max
             /\ Capped(info[c].model) =>
                   LET key == CapKey(info[c].model)
                   IN  Cardinality({d \in InFlight' : Capped(info[d].model) /\ CapKey(info[d].model) = key})
                          <= cfg.caps[key]]_vars
    BY <1>1 DEF GrantFits
  <1> QED BY <1>2, SchedAlways, PTL DEF Spec, GrantsFit

\* A timer that fires late ends no reservation whose hold still runs.
THEOREM HoldKeptAlways == Spec => HoldKept
  <1> DEFINE Kept == \A o \in fired : o \notin fired' /\ lease[o] = "idle" /\ o \notin due
                                        => lease'[o] = "idle"
  <1>1. ASSUME SchedInv, [Next]_vars PROVE Kept
    <2>1. ASSUME fired \subseteq fired' PROVE Kept
      BY <2>1
    <2>2. ASSUME UNCHANGED laneVars PROVE fired \subseteq fired'
      BY <2>2 DEF laneVars
    <2>3. ASSUME NEW c \in Calls,
                 \/ EnterGate(c) \/ GateAdmitted(c) \/ CancelAtGate(c)
                 \/ CancelEarly(c) \/ Leave(c) \/ (\E i \in Infos[c] : Begin(c, i))
          PROVE  fired \subseteq fired'
      BY <2>2, <2>3 DEF EnterGate, GateAdmitted, CancelAtGate, CancelEarly, Leave, Begin
    <2>4. ASSUME NEW c \in Calls,
                 EnterLane(c) \/ LaneGranted(c) \/ CancelInLane(c) \/ EndCall(c) \/ Notify(c)
          PROVE  fired \subseteq fired'
      BY <2>2, <2>4 DEF EnterLane, LaneGranted, CancelInLane, EndCall, Notify,
          AcquireLeased,
         AcquireYield, AcquireSlot, Wake, Withdraw, Abandon, Release, GiveBack, Finish, YieldIdle
    <2>5. ASSUME NEW o \in Owners, RunDone(o) \/ HoldClock(o) PROVE fired \subseteq fired'
      BY <2>5 DEF RunDone, HoldClock, Done, HoldRunsOut
    <2>6. ASSUME NEW o \in Owners, TimerRuns(o) PROVE Kept
      BY <2>6 DEF TimerRuns, Expire, Expired, leaseVars
    <2>7. ASSUME (\E raw \in LaneConfigs : Reload(raw)) \/ RemoveLane PROVE fired \subseteq fired'
      BY <2>7 DEF Reload, RemoveLane, Reconfigure, Retire
    <2>8. ASSUME (\E lim \in GateLimits : ReloadGate(lim)) \/ RemoveProvider \/ GateLoop \/ GateClock
          PROVE  fired \subseteq fired'
      BY <2>2, <2>8 DEF ReloadGate, RemoveProvider, GateLoop, GateClock
    <2>9. ASSUME LaneLoop PROVE fired \subseteq fired'
      BY <2>9 DEF LaneLoop, DispatchOne, DispatchEnd
    <2>10. ASSUME UNCHANGED vars PROVE fired \subseteq fired'
      BY <2>2, <2>10 DEF vars
    <2> HIDE DEF Kept
    <2> QED BY <1>1, <2>1, <2>3, <2>4, <2>5, <2>6, <2>7, <2>8, <2>9, <2>10 DEF Next
  <1>2. SchedInv /\ [Next]_vars =>
          [\A o \in fired : o \notin fired' /\ lease[o] = "idle" /\ o \notin due
             => lease'[o] = "idle"]_vars
    BY <1>1
  <1> QED BY <1>2, SchedAlways, PTL DEF Spec, HoldKept

\* One model more inside the gate.
LEMMA OneModelMore ==
    ASSUME GateInv, NEW k \in Models, NEW n \in Nat, inFlight' = [inFlight EXCEPT ![k] = @ + n],
           limit.max \in Int, inFlight[k] > 0 \/ Cardinality(ModelsIn) < limit.max \/ limit.max <= 0
    PROVE  \A m \in Models : inFlight[m] = 0 /\ inFlight'[m] > 0
             => limit.max <= 0 \/ Cardinality(ModelsIn') <= limit.max
  <1>0. inFlight \in [Models -> Nat]
    BY DEF GateInv, GateType
  <1> SUFFICES ASSUME NEW m \in Models, inFlight[m] = 0, inFlight'[m] > 0, ~(limit.max <= 0)
               PROVE  Cardinality(ModelsIn') <= limit.max
    OBVIOUS
  <1>1. m = k /\ Cardinality(ModelsIn) < limit.max
    BY <1>0
  <1>2. ModelsIn' = ModelsIn \cup {k} /\ k \notin ModelsIn
    BY <1>0, <1>1 DEF ModelsIn
  <1>3. IsFiniteSet(ModelsIn)
    BY ModelsFinite, FS_Subset DEF ModelsIn
  <1>4. /\ Cardinality(ModelsIn \cup {k}) = Cardinality(ModelsIn) + 1
        /\ Cardinality(ModelsIn) \in Nat
    BY <1>2, <1>3, FS_AddElement, FS_CardinalityType
  <1> QED BY <1>1, <1>2, <1>4

\* A model enters the gate only while there is a place for it.
THEOREM ModelsFitAlways == Spec => ModelsFit
  <1> DEFINE Fits == \A m \in Models : inFlight[m] = 0 /\ inFlight'[m] > 0
                       => limit.max <= 0 \/ Cardinality(ModelsIn') <= limit.max
  <1>1. ASSUME SchedInv, [Next]_vars PROVE Fits
    <2>0. /\ GateInv /\ inFlight \in [Models -> Nat] /\ limit.max \in Int
          /\ gate \in [Calls -> {"out", "waiting", "admitted", "in"}]
          /\ info \in [Calls -> CallInfos]
          /\ GateModels /\ \A c \in Calls : PlaceOf(c)
      BY <1>1, SchedFacts DEF GateInv, GateType
    <2>1. ASSUME \A m \in Models : inFlight'[m] <= inFlight[m] /\ inFlight'[m] \in Int PROVE Fits
      BY <2>0, <2>1
    <2>a. ASSUME inFlight' = inFlight PROVE Fits
      BY <2>0, <2>a
    <2>2. ASSUME UNCHANGED gateVars PROVE inFlight' = inFlight
      BY <2>2 DEF gateVars
    <2>3. ASSUME NEW c \in Calls, EnterGate(c) PROVE Fits
      <3>1. CASE EnterAtOnce(c)
        <4>1. /\ inFlight' = [inFlight EXCEPT ![Model(c)] = @ + 1] /\ Admissible(Model(c))
              /\ Model(c) # NoModel
          BY <3>1 DEF EnterAtOnce, Uncounted
        <4>2. Model(c) \in Models
          <5>1. info[c] \in CallInfos
            BY <2>0
          <5>2. info[c].model \in Models \cup {NoModel}
            BY <5>1 DEF CallInfos
          <5> QED BY <4>1, <5>2 DEF Model
        <4>3. inFlight[Model(c)] > 0 \/ Cardinality(ModelsIn) < limit.max
          BY <4>1 DEF Admissible
        <4> QED BY <2>0, <4>1, <4>2, <4>3, OneModelMore
      <3>2. CASE ~EnterAtOnce(c)
        BY <2>2, <2>3, <2>a, <3>2 DEF EnterGate, PassGate, RefusedAtGate, QueueAtGate
      <3> QED BY <3>1, <3>2
    <2>4. ASSUME NEW c \in Calls, gate[c] # "out", Exit(c) PROVE Fits
      <3>1. Model(c) \in Models
        BY <2>0, <2>4 DEF GateModels
      <3>2. inFlight' = [inFlight EXCEPT ![Model(c)] = IF @ > 1 THEN @ - 1 ELSE 0]
        BY <2>4 DEF Exit
      <3>3. \A m \in Models : inFlight'[m] <= inFlight[m] /\ inFlight'[m] \in Int
        BY <2>0, <3>1, <3>2
      <3> QED BY <2>1, <3>3
    <2>5. ASSUME NEW c \in Calls, CancelAtGate(c) \/ Leave(c) PROVE Fits
      <3>1. (gate[c] # "out" /\ Exit(c)) \/ inFlight' = inFlight
        BY <2>2, <2>5 DEF CancelAtGate, GateCancel, Leave, LeaveGate
      <3> QED BY <2>4, <2>a, <3>1
    <2>6. ASSUME NEW c \in Calls, GateAdmitted(c) PROVE inFlight' = inFlight
      BY <2>6 DEF GateAdmitted, GateWake
    <2>7. ASSUME NEW c \in Calls,
                 \/ Notify(c) \/ CancelEarly(c) \/ EnterLane(c) \/ LaneGranted(c) \/ CancelInLane(c)
                 \/ EndCall(c) \/ (\E i \in Infos[c] : Begin(c, i))
          PROVE  inFlight' = inFlight
      BY <2>2, <2>7 DEF Notify, CancelEarly, EnterLane, LaneGranted, CancelInLane,
          EndCall, Begin
    <2>8. ASSUME NEW o \in Owners, RunDone(o) \/ HoldClock(o) \/ TimerRuns(o) PROVE inFlight' = inFlight
      BY <2>2, <2>8 DEF RunDone, HoldClock, TimerRuns
    <2>9. ASSUME (\E raw \in LaneConfigs : Reload(raw)) \/ RemoveLane \/ LaneLoop
          PROVE  inFlight' = inFlight
      BY <2>2, <2>9 DEF Reload, RemoveLane, LaneLoop
    <2>10. ASSUME (\E lim \in GateLimits : ReloadGate(lim)) \/ RemoveProvider \/ GateClock
           PROVE  inFlight' = inFlight
      BY <2>10 DEF ReloadGate, RemoveProvider, GateClock, SetLimit, Age
    <2>11. ASSUME GateLoop PROVE Fits
      <3>1. CASE AdmitEnd
        BY <2>a, <3>1 DEF AdmitEnd
      <3>2. CASE AdmitRound
        <4>1. /\ Model(Head(waiters)) \in Models /\ LetIn \in SUBSET Calls /\ ~HeadHeld
              /\ inFlight' = [inFlight EXCEPT ![Model(Head(waiters))] = @ + Cardinality(LetIn)]
          BY <2>0, <3>2, AdmitRoundEffect
        <4>2. Cardinality(LetIn) \in Nat
          BY <4>1, CallsFinite, FS_Subset, FS_CardinalityType
        <4>3. IsFiniteSet(ModelsIn) /\ Cardinality(ModelsIn) \in Nat
          BY ModelsFinite, FS_Subset, FS_CardinalityType DEF ModelsIn
        <4>4. \/ inFlight[Model(Head(waiters))] > 0 \/ Cardinality(ModelsIn) < limit.max
              \/ limit.max <= 0
          BY <2>0, <4>1, <4>3 DEF HeadHeld
        <4> QED BY <2>0, <4>1, <4>2, <4>4, OneModelMore
      <3> QED BY <2>11, <3>1, <3>2 DEF GateLoop
    <2>12. ASSUME UNCHANGED vars PROVE inFlight' = inFlight
      BY <2>2, <2>12 DEF vars
    <2> HIDE DEF Fits
    <2> QED BY <1>1, <2>a, <2>3, <2>5, <2>6, <2>7, <2>8, <2>9, <2>10, <2>11, <2>12 DEF Next
  <1>2. SchedInv /\ [Next]_vars =>
          [\A m \in Models : inFlight[m] = 0 /\ inFlight'[m] > 0
             => limit.max <= 0 \/ Cardinality(ModelsIn') <= limit.max]_vars
    BY <1>1
  <1> QED BY <1>2, SchedAlways, PTL DEF Spec, ModelsFit

\* The lane's queue keeps its turns: no user's bucket falls back in the round
\* robin or is overtaken by another one unless one of its own calls was handed a
\* slot, and two calls of a bucket keep their order, whatever is withdrawn,
\* abandoned, expired or reloaded meanwhile (laneQueue.push, pop and remove).
THEOREM LaneTurnsKept == Spec => [][RingKept /\ BucketsKept]_vars
  <1>1. ASSUME SchedInv, [Next]_vars PROVE RingKept /\ BucketsKept
    <2>0. LaneInv /\ LaneType /\ QueueParts /\ Queued = Waiting
      BY <1>1, SchedFacts, LaneNumbers
    <2>1. ASSUME UNCHANGED <<buckets, ring>> PROVE RingKept /\ BucketsKept
      BY <2>0, <2>1, SameTurns
    <2>2. ASSUME UNCHANGED laneVars PROVE UNCHANGED <<buckets, ring>>
      BY <2>2 DEF laneVars, queueVars
    <2>3. ASSUME NEW c \in Calls, EnterLane(c) PROVE RingKept /\ BucketsKept
      <3>1. CASE AcquireSlot(c)
        <4>1. c \notin Waiting
          BY <2>0, <3>1, AcquireFinds
        <4>2. Push(c) \/ UNCHANGED <<buckets, ring>>
          BY <3>1 DEF AcquireSlot, queueVars
        <4> QED BY <2>0, <2>1, <4>1, <4>2, PushTurns
      <3>2. CASE AcquireLeased(c) \/ AcquireYield(c)
        BY <2>1, <3>2 DEF AcquireLeased, AcquireYield, queueVars
      <3> QED BY <2>3, <3>1, <3>2 DEF EnterLane
    <2>4. ASSUME LaneLoop PROVE RingKept /\ BucketsKept
      <3>1. CASE DispatchOne
        <4>1. PICK w \in Queued : TakeOut(w, TRUE) /\ at' = [at EXCEPT ![w] = "granted"]
          BY <3>1 DEF DispatchOne
        <4>2. w \in Waiting /\ at'[w] = "granted"
          BY <2>0, <4>1 DEF Waiting, LaneType
        <4> QED BY <2>0, <4>1, <4>2, TakeOutTurns
      <3>2. CASE DispatchEnd
        BY <2>1, <3>2 DEF DispatchEnd, queueVars
      <3> QED BY <2>4, <3>1, <3>2 DEF LaneLoop
    <2>5. ASSUME NEW c \in Calls, CancelInLane(c) PROVE RingKept /\ BucketsKept
      <3>1. CASE Withdraw(c)
        <4>1. c \in Waiting /\ TakeOut(c, FALSE)
          BY <3>1 DEF Withdraw, Waiting
        <4> QED BY <2>0, <4>1, TakeOutTurns
      <3>2. CASE Abandon(c)
        BY <2>1, <3>2 DEF Abandon, Finish, queueVars
      <3> QED BY <2>5, <3>1, <3>2 DEF CancelInLane
    <2>6. ASSUME NEW c \in Calls, LaneGranted(c) \/ EndCall(c)
          PROVE  UNCHANGED <<buckets, ring>>
      BY <2>2, <2>6 DEF LaneGranted, EndCall, Wake, Release, GiveBack, Finish, queueVars
    <2>7. ASSUME NEW c \in Calls,
                 \/ EnterGate(c) \/ GateAdmitted(c) \/ CancelAtGate(c)
                 \/ CancelEarly(c) \/ Leave(c) \/ (\E i \in Infos[c] : Begin(c, i))
          PROVE  UNCHANGED <<buckets, ring>>
      BY <2>2, <2>7 DEF EnterGate, GateAdmitted, CancelAtGate, CancelEarly, Leave, Begin
    <2>8. ASSUME NEW c \in Calls, Notify(c) PROVE UNCHANGED <<buckets, ring>>
      BY <2>2, <2>8 DEF Notify, YieldIdle, GiveUp, queueVars
    <2>9. ASSUME NEW o \in Owners, RunDone(o) \/ HoldClock(o) \/ TimerRuns(o)
          PROVE  UNCHANGED <<buckets, ring>>
      BY <2>9 DEF RunDone, HoldClock, TimerRuns, Done, HoldRunsOut, Expire, GiveUp, queueVars
    <2>10. ASSUME (\E raw \in LaneConfigs : Reload(raw)) \/ RemoveLane
           PROVE  UNCHANGED <<buckets, ring>>
      BY <2>10 DEF Reload, RemoveLane, Reconfigure, Retire, GiveUp, queueVars
    <2>11. ASSUME (\E lim \in GateLimits : ReloadGate(lim)) \/ RemoveProvider \/ GateLoop \/ GateClock
           PROVE  UNCHANGED <<buckets, ring>>
      BY <2>2, <2>11 DEF ReloadGate, RemoveProvider, GateLoop, GateClock
    <2>12. ASSUME UNCHANGED vars PROVE UNCHANGED <<buckets, ring>>
      BY <2>2, <2>12 DEF vars
    <2> QED BY <1>1, <2>1, <2>3, <2>4, <2>5, <2>6, <2>7, <2>8, <2>9, <2>10, <2>11,
        <2>12 DEF Next
  <1>2. SchedInv /\ [Next]_vars => [RingKept /\ BucketsKept]_vars
    BY <1>1
  <1> QED BY <1>2, SchedAlways, PTL DEF Spec
-----------------------------------------------------------------------------
(* The gate's queue.                                                       *)

\* The oldest waiter is kept out only while all places for models are taken by
\* others.
HeadKeptOut == gateMu = "free" /\ waiters # <<>> => HeadHeld

\* What a step does to the gate.
GateMove ==
    \/ UNCHANGED gateVars
    \/ \E c \in Calls : \/ EnterAtOnce(c) \/ QueueAtGate(c) \/ GateWake(c)
                        \/ LeaveGate(c) \/ GateCancel(c)
    \/ AdmitRound \/ AdmitEnd \/ Age
    \/ \E lim \in [max : Int, wait : BOOLEAN] : SetLimit(lim)

\* Every step moves the gate by one of its operations, and a call inside it or in
\* its queue stays what it is.
LEMMA GateMoves ==
    ASSUME SchedInv, Next
    PROVE  GateMove /\ InfoHeld
  <1>0. /\ pc \in [Calls -> SchedPhases] /\ \A c \in Calls : PlaceOf(c)
        /\ gate \in [Calls -> {"out", "waiting", "admitted", "in"}]
        /\ info \in [Calls -> CallInfos]
    BY SchedFacts
  <1>1. ASSUME UNCHANGED gateVars, UNCHANGED info PROVE GateMove /\ InfoHeld
    BY <1>1 DEF GateMove, InfoHeld
  <1>2. ASSUME NEW c \in Calls, UNCHANGED gateVars, gate[c] = "out",
               \E i : info' = [info EXCEPT ![c] = i]
        PROVE  GateMove /\ InfoHeld
    <2>1. gate' = gate
      BY <1>2 DEF gateVars
    <2> QED BY <1>0, <1>2, <2>1 DEF GateMove, InfoHeld
  <1>3. ASSUME NEW c \in Calls, \E i \in Infos[c] : Begin(c, i) PROVE GateMove /\ InfoHeld
    <2>1. gate[c] = "out"
      BY <1>0, <1>3 DEF Begin, PlaceOf
    <2> QED BY <1>2, <1>3, <2>1 DEF Begin
  <1>4. ASSUME NEW c \in Calls, EnterGate(c) PROVE GateMove /\ InfoHeld
    <2>1. gate[c] = "out"
      BY <1>0, <1>4 DEF EnterGate, PlaceOf
    <2>2. CASE RefusedAtGate(c) /\ Return(c)
      BY <1>2, <2>1, <2>2 DEF RefusedAtGate, Return
    <2>3. CASE PassGate(c) /\ info' = info
      BY <1>1, <2>3 DEF PassGate
    <2>4. CASE (EnterAtOnce(c) \/ QueueAtGate(c)) /\ info' = info
      BY <2>4 DEF GateMove, InfoHeld
    <2> QED BY <1>4, <2>2, <2>3, <2>4 DEF EnterGate, GotoSame
  <1>5. ASSUME NEW c \in Calls,
               Notify(c) \/ EnterLane(c) \/ LaneGranted(c) \/ CancelInLane(c) \/ EndCall(c)
        PROVE  GateMove /\ InfoHeld
    BY <1>1, <1>5 DEF Notify, EnterLane, LaneGranted, CancelInLane, EndCall, GotoSame
  <1>6. ASSUME NEW c \in Calls, GateAdmitted(c) PROVE GateMove /\ InfoHeld
    BY <1>6 DEF GateAdmitted, GotoSame, GateMove, InfoHeld
  <1>7. ASSUME NEW c \in Calls, CancelAtGate(c) PROVE GateMove /\ InfoHeld
    <2>1. GateCancel(c) /\ info' = [info EXCEPT ![c] = NoInfo]
      BY <1>7 DEF CancelAtGate, Return
    <2>2. gate' = [gate EXCEPT ![c] = "out"]
      BY <2>1 DEF GateCancel, Exit
    <2> QED BY <1>0, <2>1, <2>2 DEF GateMove, InfoHeld
  <1>8. ASSUME NEW c \in Calls, CancelEarly(c) PROVE GateMove /\ InfoHeld
    <2>1. CASE pc[c] = "enter" /\ Return(c)
      <3>1. gate[c] = "out" /\ UNCHANGED gateVars
        BY <1>0, <1>8, <2>1 DEF CancelEarly, PlaceOf
      <3> QED BY <1>2, <2>1, <3>1 DEF Return
    <2>2. CASE GotoSame(c, "leave")
      BY <1>1, <1>8, <2>2 DEF CancelEarly, GotoSame
    <2> QED BY <1>8, <2>1, <2>2 DEF CancelEarly
  <1>9. ASSUME NEW c \in Calls, Leave(c) PROVE GateMove /\ InfoHeld
    <2>1. info' = [info EXCEPT ![c] = NoInfo] /\ gate[c] \in {"out", "in"}
      BY <1>0, <1>9 DEF Leave, Return, PlaceOf
    <2>2. CASE gate[c] = "in"
      <3>1. LeaveGate(c)
        BY <1>9, <2>2 DEF Leave
      <3>2. gate' = [gate EXCEPT ![c] = "out"]
        BY <3>1 DEF LeaveGate, Exit
      <3> QED BY <1>0, <2>1, <3>1, <3>2 DEF GateMove, InfoHeld
    <2>3. CASE gate[c] = "out"
      BY <1>2, <1>9, <2>1, <2>3 DEF Leave
    <2> QED BY <2>1, <2>2, <2>3
  <1>10. ASSUME NEW o \in Owners, RunDone(o) \/ HoldClock(o) \/ TimerRuns(o)
         PROVE  GateMove /\ InfoHeld
    BY <1>1, <1>10 DEF RunDone, HoldClock, TimerRuns
  <1>11. ASSUME (\E raw \in LaneConfigs : Reload(raw)) \/ RemoveLane \/ LaneLoop
         PROVE  GateMove /\ InfoHeld
    BY <1>1, <1>11 DEF Reload, RemoveLane, LaneLoop
  <1>12. ASSUME (\E lim \in GateLimits : ReloadGate(lim)) \/ RemoveProvider
         PROVE  GateMove /\ InfoHeld
    <2>1. [max |-> 0, wait |-> FALSE] \in [max : Int, wait : BOOLEAN]
      OBVIOUS
    <2>2. \E lim \in [max : Int, wait : BOOLEAN] : SetLimit(lim)
      BY <1>12, <2>1, GateLimitsType DEF ReloadGate, RemoveProvider
    <2>3. info' = info
      BY <1>12 DEF ReloadGate, RemoveProvider
    <2> QED BY <2>2, <2>3 DEF GateMove, InfoHeld
  <1>13. ASSUME GateLoop \/ GateClock PROVE GateMove /\ InfoHeld
    BY <1>13 DEF GateLoop, GateClock, GateMove, InfoHeld
  <1> QED BY <1>3, <1>4, <1>5, <1>6, <1>7, <1>8, <1>9, <1>10, <1>11, <1>12, <1>13 DEF Next

\* The head of the gate's queue is a waiting call with a model.
LEMMA GateHead ==
    ASSUME GateInv, waiters # <<>>
    PROVE  /\ Head(waiters) \in ToSet(waiters) /\ Head(waiters) \in Calls
           /\ gate[Head(waiters)] = "waiting" /\ Model(Head(waiters)) \in Models
           /\ Head(waiters) = waiters[1] /\ 1 \in DOMAIN waiters
  <1>1. waiters \in Seq(Calls) /\ IsInjective(waiters)
    BY DEF GateInv, GateType, GateQueue
  <1>2. Head(waiters) \in ToSet(waiters) /\ Head(waiters) \in Calls
    BY <1>1, FifoTail
  <1>3. gate[Head(waiters)] = "waiting"
    BY <1>2 DEF GateInv, GateQueue
  <1>4. Model(Head(waiters)) \in Models
    BY <1>2, <1>3 DEF GateInv, GateModels
  <1>5. Head(waiters) = waiters[1] /\ 1 \in DOMAIN waiters
    BY <1>1
  <1> QED BY <1>2, <1>3, <1>4, <1>5

\* Leaving keeps a model that has more calls inside in flight.
LEMMA ExitEffect ==
    ASSUME GateInv, NEW c \in Calls, gate[c] \in {"admitted", "in"}, Exit(c)
    PROVE  /\ inFlight' \in [Models -> Nat]
           /\ \A m \in Models : inFlight'[m] <= inFlight[m]
           /\ gateMu' = "free" => ModelsIn' = ModelsIn
           /\ UNCHANGED <<limit, waiters, aged>>
           /\ gate' = [gate EXCEPT ![c] = "out"]
  <1>0. inFlight \in [Models -> Nat] /\ Model(c) \in Models
    BY DEF GateInv, GateType, GateModels
  <1>1. /\ inFlight' = [inFlight EXCEPT ![Model(c)] = IF @ > 1 THEN @ - 1 ELSE 0]
        /\ gateMu' = IF inFlight[Model(c)] > 1 THEN "free" ELSE "admit"
        /\ gate' = [gate EXCEPT ![c] = "out"]
        /\ UNCHANGED <<limit, waiters, aged>>
    BY DEF Exit
  <1>2. inFlight' \in [Models -> Nat] /\ \A m \in Models : inFlight'[m] <= inFlight[m]
    BY <1>0, <1>1
  <1>3. gateMu' = "free" => inFlight[Model(c)] > 1
    BY <1>1
  <1>4. gateMu' = "free" => \A m \in Models : inFlight'[m] > 0 <=> inFlight[m] > 0
    BY <1>0, <1>1, <1>3
  <1> QED BY <1>1, <1>2, <1>4 DEF ModelsIn

\* HeadKeptOut is kept.
LEMMA HeadKeptOutStep ==
    ASSUME SchedInv, HeadKeptOut, [Next]_vars
    PROVE  HeadKeptOut'
  <1>0. /\ GateInv /\ inFlight \in [Models -> Nat] /\ limit.max \in Int
        /\ gate \in [Calls -> {"out", "waiting", "admitted", "in"}]
        /\ waiters \in Seq(Calls) /\ IsFiniteSet(ModelsIn) /\ Cardinality(ModelsIn) \in Nat
    BY SchedFacts, ModelsFinite, FS_Subset, FS_CardinalityType
       DEF GateInv, GateType, ModelsIn
  <1>1. ASSUME gateMu = "free", waiters # <<>>, InfoHeld,
               waiters' # <<>>, Head(waiters') = Head(waiters), gate'[Head(waiters)] = "waiting",
               limit' = limit, ModelsIn' = ModelsIn, inFlight' \in [Models -> Nat]
        PROVE  HeadHeld'
    <2> DEFINE h == Head(waiters)
    <2>1. h \in Calls /\ Model(h) \in Models
      BY <1>0, <1>1, GateHead
    <2>2. Model(h)' = Model(h)
      BY <1>1, <2>1 DEF InfoHeld, Model
    <2>3. HeadHeld
      BY <1>1 DEF HeadKeptOut
    <2>4. inFlight'[Model(h)] = 0
      <3>1. Model(h) \notin ModelsIn
        BY <2>3 DEF HeadHeld, ModelsIn
      <3> QED BY <1>1, <2>1, <3>1 DEF ModelsIn
    <2> QED BY <1>1, <2>2, <2>3, <2>4 DEF HeadHeld
  <1>2. CASE UNCHANGED vars
    BY <1>2 DEF vars, gateVars, HeadKeptOut, HeadHeld, Model, ModelsIn
  <1>3. CASE Next
    <2> SUFFICES ASSUME gateMu' = "free", waiters' # <<>> PROVE HeadHeld'
      BY DEF HeadKeptOut
    <2>0. GateMove /\ InfoHeld
      BY <1>3, GateMoves
    <2>1. ASSUME gateMu = "free", UNCHANGED <<limit, waiters, inFlight>>, waiters # <<>>,
                 gate'[Head(waiters)] = "waiting"
          PROVE  HeadHeld'
      BY <1>0, <1>1, <2>0, <2>1 DEF ModelsIn
    <2>2. CASE UNCHANGED gateVars
      <3>1. UNCHANGED <<limit, waiters, inFlight, gateMu, gate>>
        BY <2>2 DEF gateVars
      <3> QED BY <1>0, <2>1, <3>1, GateHead
    <2>3. CASE Age
      <3>1. UNCHANGED <<limit, waiters, inFlight, gateMu, gate>>
        BY <2>3 DEF Age
      <3> QED BY <1>0, <2>1, <3>1, GateHead
    <2>4. ASSUME NEW c \in Calls, GateWake(c) PROVE HeadHeld'
      <3>1. /\ UNCHANGED <<limit, waiters, inFlight, gateMu>> /\ gate[c] = "admitted"
            /\ gate' = [gate EXCEPT ![c] = "in"]
        BY <2>4 DEF GateWake
      <3> QED BY <1>0, <2>1, <3>1, GateHead
    <2>5. ASSUME NEW c \in Calls, EnterAtOnce(c) PROVE HeadHeld'
      <3>1. /\ gateMu = "free" /\ gate[c] = "out" /\ Model(c) # NoModel
            /\ Admissible(Model(c)) /\ UNCHANGED <<limit, waiters>>
            /\ inFlight' = [inFlight EXCEPT ![Model(c)] = @ + 1]
            /\ gate' = [gate EXCEPT ![c] = "in"]
        BY <2>5 DEF EnterAtOnce, Uncounted
      <3>2. Model(c) \in Models
        <4>1. info[c] \in CallInfos
          BY SchedFacts
        <4> QED BY <3>1, <4>1 DEF CallInfos, Model
      <3>3. inFlight[Model(c)] > 0
        BY <3>1 DEF Admissible
      <3>4. ModelsIn' = ModelsIn /\ inFlight' \in [Models -> Nat]
        BY <1>0, <3>1, <3>2, <3>3 DEF ModelsIn
      <3>5. gate'[Head(waiters)] = "waiting"
        BY <1>0, <3>1, GateHead
      <3> QED BY <1>1, <2>0, <3>1, <3>4, <3>5
    <2>6. ASSUME NEW c \in Calls, QueueAtGate(c) PROVE HeadHeld'
      <3>1. /\ gateMu = "free" /\ gate[c] = "out" /\ ~Uncounted(c) /\ ~Admissible(Model(c))
            /\ waiters' = Append(waiters, c) /\ UNCHANGED <<limit, inFlight>>
            /\ gate' = [gate EXCEPT ![c] = "waiting"]
        BY <2>6 DEF QueueAtGate
      <3>2. CASE waiters = <<>>
        <4>1. Head(waiters') = c
          BY <3>1, <3>2
        <4>2. ~Starving
          BY <3>2 DEF Starving
        <4>3. Model(c) \in Models
          <5>1. info[c] \in CallInfos
            BY SchedFacts
          <5> QED BY <3>1, <5>1 DEF CallInfos, Model, Uncounted
        <4>4. inFlight[Model(c)] = 0 /\ Cardinality(ModelsIn) >= limit.max
          BY <1>0, <3>1, <3>2, <4>2, <4>3 DEF Admissible
        <4>5. limit.max > 0
          BY <1>0, <3>1 DEF Uncounted
        <4>6. Model(c)' = Model(c)
          BY <1>0, <2>0, <3>1 DEF InfoHeld, Model
        <4>7. ModelsIn' = ModelsIn
          BY <3>1 DEF ModelsIn
        <4> QED BY <3>1, <4>1, <4>4, <4>5, <4>6, <4>7 DEF HeadHeld
      <3>3. CASE waiters # <<>>
        <4>1. Head(waiters') = Head(waiters)
          BY <1>0, <3>1, <3>3
        <4>2. gate'[Head(waiters)] = "waiting"
          BY <1>0, <3>1, <3>3, GateHead
        <4> QED BY <1>0, <1>1, <2>0, <3>1, <3>3, <4>1, <4>2 DEF ModelsIn
      <3> QED BY <3>2, <3>3
    <2>7. ASSUME NEW c \in Calls, gateMu = "free", gate[c] \in {"admitted", "in"}, Exit(c)
          PROVE  HeadHeld'
      <3>1. /\ ModelsIn' = ModelsIn /\ UNCHANGED <<limit, waiters>>
            /\ gate' = [gate EXCEPT ![c] = "out"]
        BY <1>0, <2>7, ExitEffect
      <3>2. inFlight' \in [Models -> Nat]
        BY <1>0, <2>7, ExitEffect
      <3>3. gate'[Head(waiters)] = "waiting"
        BY <1>0, <2>7, <3>1, GateHead
      <3> QED BY <1>1, <2>0, <2>7, <3>1, <3>2, <3>3
    <2>8. ASSUME NEW c \in Calls, LeaveGate(c) PROVE HeadHeld'
      BY <2>7, <2>8 DEF LeaveGate
    <2>9. ASSUME NEW c \in Calls, GateCancel(c) PROVE HeadHeld'
      BY <2>7, <2>9 DEF GateCancel
    <2>10. ASSUME AdmitRound PROVE FALSE
      BY <2>10 DEF AdmitRound
    <2>11. ASSUME AdmitEnd PROVE HeadHeld'
      <3>1. HeadHeld /\ UNCHANGED <<limit, waiters, inFlight, gate>>
        BY <2>11 DEF AdmitEnd
      <3>2. Head(waiters) \in Calls /\ gate'[Head(waiters)] = "waiting"
        BY <1>0, <3>1, GateHead
      <3>3. Model(Head(waiters))' = Model(Head(waiters))
        BY <2>0, <3>1, <3>2 DEF InfoHeld, Model
      <3> QED BY <3>1, <3>3 DEF HeadHeld, ModelsIn
    <2>12. ASSUME NEW lim, SetLimit(lim) PROVE FALSE
      BY <2>12 DEF SetLimit
    <2> QED BY <2>0, <2>2, <2>3, <2>4, <2>5, <2>6, <2>8, <2>9, <2>10, <2>11, <2>12
        DEF GateMove
  <1> QED BY <1>2, <1>3

\* No wake-up of the gate is lost: with its lock free, the oldest waiter's model
\* is not in flight and no place is free for it, whatever left, was cancelled or
\* reloaded (ModelGate.admit).
THEOREM NoModelBesideFreePlaceAlways == Spec => []HeadKeptOut
  <1>1. Init => HeadKeptOut
    BY DEF Init, GateInit, HeadKeptOut
  <1>2. SchedInv /\ HeadKeptOut /\ [Next]_vars => HeadKeptOut'
    BY HeadKeptOutStep
  <1> QED BY <1>1, <1>2, SchedAlways, PTL DEF Spec

\* The oldest waiter stays the oldest until it is let in or cancelled and, once it
\* has waited maxWait, only its own model gains calls in flight.
OldestFirst ==
    waiters # <<>> =>
      LET h == Head(waiters)
      IN  /\ gate'[h] = "waiting" => waiters' # <<>> /\ Head(waiters') = h
          /\ Starving => \A m \in Models : inFlight'[m] > inFlight[m] => m = Model(h)

\* The starvation bound of the gate: once the oldest waiter has waited maxWait the
\* models in flight only run down, until it is let in or cancelled; nobody comes
\* between (ModelGate.admissible, admit and the cancelled branch of enter).
THEOREM OldestFirstAlways == Spec => [][OldestFirst]_vars
  <1>1. ASSUME SchedInv, [Next]_vars PROVE OldestFirst
    <2> DEFINE h == Head(waiters)
               Stays == gate'[h] = "waiting" => waiters' # <<>> /\ Head(waiters') = h
               RunsDown == Starving => \A m \in Models : inFlight'[m] > inFlight[m] => m = Model(h)
    <2> SUFFICES ASSUME waiters # <<>> PROVE Stays /\ RunsDown
      BY DEF OldestFirst
    <2>0. /\ GateInv /\ inFlight \in [Models -> Nat]
          /\ gate \in [Calls -> {"out", "waiting", "admitted", "in"}]
          /\ waiters \in Seq(Calls) /\ IsInjective(waiters)
      BY <1>1, SchedFacts DEF GateInv, GateType, GateQueue
    <2>h. h \in ToSet(waiters) /\ h \in Calls /\ h = waiters[1] /\ 1 \in DOMAIN waiters
      BY <2>0, GateHead
    <2>1. ASSUME waiters' = waiters, \A m \in Models : inFlight'[m] <= inFlight[m] /\ inFlight'[m] \in Int
          PROVE  Stays /\ RunsDown
      BY <2>0, <2>1
    <2>2. ASSUME UNCHANGED <<waiters, inFlight>> PROVE Stays /\ RunsDown
      BY <2>0, <2>1, <2>2
    <2>3. ASSUME UNCHANGED gateVars PROVE Stays /\ RunsDown
      BY <2>2, <2>3 DEF gateVars
    <2>4. ASSUME NEW c \in Calls, EnterAtOnce(c) PROVE Stays /\ RunsDown
      <3>1. ~Starving /\ waiters' = waiters
        BY <2>4 DEF EnterAtOnce, Admissible
      <3> QED BY <3>1
    <2>5. ASSUME NEW c \in Calls, QueueAtGate(c) PROVE Stays /\ RunsDown
      <3>1. waiters' = Append(waiters, c) /\ inFlight' = inFlight
        BY <2>5 DEF QueueAtGate
      <3>2. waiters' # <<>> /\ Head(waiters') = h
        BY <2>0, <3>1
      <3> QED BY <2>0, <3>1, <3>2
    <2>6. ASSUME NEW c \in Calls, GateWake(c) PROVE Stays /\ RunsDown
      BY <2>2, <2>6 DEF GateWake
    <2>7. ASSUME NEW c \in Calls, gate[c] \in {"admitted", "in"}, Exit(c) PROVE Stays /\ RunsDown
      <3>1. /\ inFlight' \in [Models -> Nat] /\ \A m \in Models : inFlight'[m] <= inFlight[m]
            /\ waiters' = waiters
        BY <2>0, <2>7, ExitEffect
      <3> QED BY <2>1, <3>1
    <2>8. ASSUME NEW c \in Calls, LeaveGate(c) PROVE Stays /\ RunsDown
      BY <2>7, <2>8 DEF LeaveGate
    <2>9. ASSUME NEW c \in Calls, GateCancel(c) PROVE Stays /\ RunsDown
      <3>1. CASE gate[c] = "admitted" /\ Exit(c)
        BY <2>7, <3>1
      <3>2. CASE /\ gate[c] = "waiting" /\ waiters' = RemoveFirst(waiters, c)
                 /\ gate' = [gate EXCEPT ![c] = "out"] /\ inFlight' = inFlight
        <4>1. CASE c = h
          BY <2>0, <3>2, <4>1
        <4>2. CASE c # h
          <5> DEFINE r == RemoveFirst(waiters, c)
          <5>1. r \in Seq(Calls) /\ h \in ToSet(r)
            BY <2>0, <2>h, <4>2, FifoRemove
          <5>2. PICK j \in DOMAIN r : r[j] = h
            BY <5>1 DEF ToSet
          <5>3. j <= 1
            BY <2>0, <2>h, <5>2, FifoRemoveKeepsTurn
          <5> HIDE DEF r, h
          <5>4. j = 1 /\ r # <<>>
            BY <5>1, <5>2, <5>3
          <5>5. Head(r) = h
            BY <5>1, <5>2, <5>4
          <5>6. waiters' = r
            BY <3>2 DEF r
          <5> QED BY <2>0, <3>2, <5>4, <5>5, <5>6
        <4> QED BY <4>1, <4>2
      <3> QED BY <2>9, <3>1, <3>2 DEF GateCancel
    <2>10. ASSUME AdmitRound PROVE Stays /\ RunsDown
      <3>1. /\ inFlight' = [inFlight EXCEPT ![Model(h)] = @ + Cardinality(LetIn)]
            /\ gate' = [c \in Calls |-> IF c \in LetIn THEN "admitted" ELSE gate[c]]
        BY <2>0, <2>10, AdmitRoundEffect
      <3>2. h \in LetIn
        BY <2>h DEF LetIn
      <3>3. gate'[h] = "admitted"
        BY <2>h, <3>1, <3>2
      <3>4. \A m \in Models : m # Model(h) => inFlight'[m] = inFlight[m]
        BY <2>0, <3>1
      <3> HIDE DEF h
      <3> QED BY <2>0, <3>3, <3>4
    <2>11. ASSUME AdmitEnd \/ Age \/ (\E lim : SetLimit(lim)) PROVE Stays /\ RunsDown
      BY <2>2, <2>11 DEF AdmitEnd, Age, SetLimit
    <2>12. GateMove
      <3>1. CASE UNCHANGED vars
        BY <3>1 DEF vars, GateMove
      <3>2. CASE Next
        BY <1>1, <3>2, GateMoves
      <3> QED BY <1>1, <3>1, <3>2
    <2> HIDE DEF Stays, RunsDown
    <2> QED BY <2>3, <2>4, <2>5, <2>6, <2>8, <2>9, <2>10, <2>11, <2>12 DEF GateMove
  <1>2. SchedInv /\ [Next]_vars => [OldestFirst]_vars
    BY <1>1
  <1> QED BY <1>2, SchedAlways, PTL DEF Spec
=============================================================================
