-------------------------- MODULE CallLane_proofs --------------------------
(***************************************************************************)
(* What every step of a lane keeps, for every set of callers, owners,      *)
(* users and models and every configuration.  CallScheduler_proofs and     *)
(* LaneGate_proofs put the callers around it.                              *)
(***************************************************************************)
EXTENDS CallLane, FifoLemmas, FiniteSetTheorems, FunctionTheorems,
        WellFoundedInduction, TLAPS

\* A set of n numbers leaves one of 0 .. n free, and so a lowest one.
LEMMA SmallestFree ==
    ASSUME NEW T \in SUBSET Nat, IsFiniteSet(T)
    PROVE  \E s \in 0 .. Cardinality(T) : s \notin T /\ \A t \in 0 .. s - 1 : t \in T
  <1> DEFINE n == Cardinality(T)
             F == (0 .. n) \ T
  <1>1. n \in Nat
    BY FS_CardinalityType
  <1>2. F # {}
    <2> SUFFICES ASSUME 0 .. n \subseteq T PROVE FALSE
      OBVIOUS
    <2>1. Cardinality(0 .. n) <= n
      BY FS_Subset
    <2>2. Cardinality(0 .. n) = n + 1
      BY <1>1, FS_Interval
    <2> QED BY <1>1, <2>1, <2>2
  <1>3. PICK s \in F : \A t \in F : ~ (<<t, s>> \in OpToRel(<, Nat))
    <2>1. F \subseteq Nat
      BY <1>1
    <2> HIDE DEF F
    <2> QED BY <1>2, <2>1, WFMin, NatLessThanWellFounded
  <1>4. ASSUME NEW t \in 0 .. s - 1 PROVE t \in T
    <2>1. s \in 0 .. n /\ t \in Nat /\ t < s /\ t \in 0 .. n
      BY <1>1
    <2>2. <<t, s>> \in OpToRel(<, Nat)
      BY <2>1 DEF OpToRel
    <2> QED BY <1>3, <2>1, <2>2
  <1> QED BY <1>3, <1>4

\* takeSlot finds a number that is not in use, at most the number of those in use.
LEMMA LowestFreeIsFree ==
    ASSUME inUse \in SUBSET Nat, IsFiniteSet(inUse)
    PROVE  /\ LowestFree \in Nat /\ LowestFree <= Cardinality(inUse)
           /\ LowestFree \notin inUse
  <1>1. \E s \in 0 .. Cardinality(inUse) : s \notin inUse /\ \A t \in 0 .. s - 1 : t \in inUse
    BY SmallestFree
  <1>2. LowestFree \in 0 .. Cardinality(inUse) /\ LowestFree \notin inUse
    BY <1>1 DEF LowestFree
  <1>3. Cardinality(inUse) \in Nat
    BY FS_CardinalityType
  <1> QED BY <1>2, <1>3
-----------------------------------------------------------------------------
(* Types.                                                                  *)

ConfigType == IsConfig(cfg) /\ cfg.max >= 1 /\ cfg.share \in 0 .. ShareUnit

LeaseType ==
    /\ lease \in [Owners -> {"none", "busy", "idle"}]
    /\ leaseSlot \in [Owners -> Nat] /\ used \in [Owners -> 0 .. MaxUsed]
    /\ due \subseteq Idle

QueueType ==
    /\ buckets \in [Classes -> [Users -> Seq(Calls)]] /\ ring \in [Classes -> Seq(Users)]
    /\ ownerQueued \in [Owners -> Nat]

LaneType ==
    /\ info \in [Calls -> CallInfos]
    /\ ConfigType /\ LeaseType /\ QueueType
    /\ active \in Int /\ reserved \in Int /\ bgCredit \in 0 .. ShareUnit
    /\ modelActive \in [Models -> Nat]
    /\ fired \subseteq Owners /\ inUse \subseteq Nat
    /\ at \in [Calls -> Phases] /\ slot \in [Calls -> Nat] /\ onLease \subseteq Calls
    /\ mu \in {"free", "dispatch"}

\* What a call says of itself.
LEMMA InfoFacts ==
    ASSUME LaneType, NEW c \in Calls
    PROVE  /\ info[c].owner \in Owners \cup {NoOwner} /\ info[c].user \in Users
           /\ info[c].model \in Models \cup {NoModel} /\ info[c].bound \in Int
           /\ info[c].noLease \in BOOLEAN /\ info[c].background \in BOOLEAN
           /\ HasOwner(c) => info[c].owner \in Owners
           /\ Class(c) \in Classes
  <1>1. info[c] \in CallInfos
    BY DEF LaneType
  <1>2. /\ info[c].owner \in Owners \cup {NoOwner} /\ info[c].user \in Users
        /\ info[c].model \in Models \cup {NoModel} /\ info[c].bound \in Int
        /\ info[c].noLease \in BOOLEAN /\ info[c].background \in BOOLEAN
    BY <1>1 DEF CallInfos
  <1> QED BY <1>2 DEF HasOwner, Class, Classes

\* NewLane and Reconfigure put a configuration within its limits.
LEMMA NormalizedType ==
    ASSUME NEW c, IsConfig(c)
    PROVE  /\ IsConfig(Normalized(c)) /\ Normalized(c).max >= 1
           /\ Normalized(c).share \in 0 .. ShareUnit
           /\ Normalized(c).hold \in BOOLEAN
  <1> DEFINE caps == [m \in DOMAIN c.caps |-> AtLeast(c.caps[m], 1)]
             share == IF c.share < 0 THEN 0 ELSE IF c.share > ShareUnit THEN ShareUnit ELSE c.share
             n == [max |-> AtLeast(c.max, 1), quantum |-> AtLeast(c.quantum, 0), hold |-> c.hold,
                   share |-> share, caps |-> caps]
  <1>2. Normalized(c) = n
    BY DEF Normalized
  <1>3. /\ AtLeast(c.max, 1) \in Int /\ AtLeast(c.max, 1) >= 1
        /\ AtLeast(c.quantum, 0) \in Int
    BY DEF AtLeast, IsConfig
  <1>4. share \in Int /\ share \in 0 .. ShareUnit
    BY ShareUnitType DEF IsConfig
  <1>5. /\ DOMAIN caps = DOMAIN c.caps /\ caps \in [DOMAIN caps -> Int]
        /\ DOMAIN caps \subseteq Models
    BY DEF IsConfig, AtLeast
  <1>6. c.hold \in BOOLEAN
    BY DEF IsConfig
  <1> HIDE DEF caps, share
  <1>7. n.max = AtLeast(c.max, 1) /\ n.quantum = AtLeast(c.quantum, 0) /\ n.hold = c.hold
        /\ n.share = share /\ n.caps = caps
    OBVIOUS
  <1>8. n = [max |-> n.max, quantum |-> n.quantum, hold |-> n.hold, share |-> n.share,
             caps |-> n.caps]
    OBVIOUS
  <1> HIDE DEF n
  <1>9. IsConfig(n)
    BY <1>3, <1>4, <1>5, <1>6, <1>7, <1>8 DEF IsConfig
  <1> QED BY <1>2, <1>3, <1>4, <1>6, <1>7, <1>9

\* The count of the calls of a model is a number, and one off for that model.
LEMMA CountedType ==
    ASSUME LaneType, NEW c \in Calls, NEW d \in {-1, 1}
    PROVE  /\ Counted(info[c].model, d) \in [Models -> Nat]
           /\ \A m \in Models : Counted(info[c].model, d)[m] =
                  IF m = info[c].model THEN AtLeast(modelActive[m] + d, 0) ELSE modelActive[m]
  <1>1. modelActive \in [Models -> Nat] /\ info[c].model \in Models \cup {NoModel}
    BY InfoFacts DEF LaneType
  <1>2. \A m \in Models : AtLeast(modelActive[m] + d, 0) \in Nat
    BY <1>1 DEF AtLeast
  <1> QED BY <1>1, <1>2, NoModelIsNoModel DEF Counted
-----------------------------------------------------------------------------
(* Slots.                                                                  *)

\* A call on a lease object is in flight, and its owner is a run.
OnLeaseOwned == \A c \in onLease : c \in InFlight /\ HasOwner(c)

\* The count of each model is that of its calls in flight.
OfModel(m) == {c \in InFlight : info[c].model = m}
ModelsCounted == \A m \in Models : modelActive[m] = Cardinality(OfModel(m))

SlotInv == LaneType /\ OnLeaseOwned /\ SlotsExclusive /\ ModelsCounted

\* The slot numbers in use are no more than the calls in flight and the
\* reservations.
LEMMA InUseBounded ==
    ASSUME LaneType, SlotsExclusive
    PROVE  /\ IsFiniteSet(inUse) /\ Cardinality(inUse) <= active + reserved
           /\ IsFiniteSet(InFlight) /\ IsFiniteSet(Idle)
           /\ active \in Nat /\ reserved \in Nat
  <1> DEFINE A == {slot[c] : c \in InFlight}
             B == {leaseSlot[o] : o \in Idle}
             f == [c \in InFlight |-> slot[c]]
             g == [o \in Idle |-> leaseSlot[o]]
  <1>1. IsFiniteSet(InFlight) /\ IsFiniteSet(Idle)
    BY CallsFinite, OwnersFinite, FS_Subset DEF InFlight, Idle
  <1>2. f \in Surjection(InFlight, A)
    BY Fun_IsSurj
  <1>3. g \in Surjection(Idle, B)
    BY Fun_IsSurj
  <1>4. /\ IsFiniteSet(A) /\ Cardinality(A) <= Cardinality(InFlight)
        /\ IsFiniteSet(B) /\ Cardinality(B) <= Cardinality(Idle)
    BY <1>1, <1>2, <1>3, FS_Surjection
  <1>5. inUse = A \cup B /\ active = Cardinality(InFlight) /\ reserved = Cardinality(Idle)
    BY DEF SlotsExclusive
  <1> HIDE DEF A, B
  <1>6. /\ IsFiniteSet(A \cup B)
        /\ Cardinality(A \cup B) = Cardinality(A) + Cardinality(B) - Cardinality(A \cap B)
        /\ IsFiniteSet(A \cap B)
    BY <1>4, FS_Union, FS_Intersection
  <1>7. /\ Cardinality(A) \in Nat /\ Cardinality(B) \in Nat
        /\ Cardinality(A \cap B) \in Nat
        /\ Cardinality(InFlight) \in Nat /\ Cardinality(Idle) \in Nat
    BY <1>1, <1>4, <1>6, FS_CardinalityType
  <1>8. Cardinality(A \cup B) <= active + reserved
    BY <1>4, <1>5, <1>6, <1>7
  <1> QED BY <1>1, <1>5, <1>6, <1>7, <1>8

\* What grant does.
LEMMA GrantEffect ==
    ASSUME LaneType, SlotsExclusive, NEW c \in Calls, Grant(c)
    PROVE  /\ active' = active + 1 /\ modelActive' = Counted(info[c].model, 1)
           /\ LowestFree \in Nat /\ LowestFree \notin inUse
           /\ LowestFree <= active + reserved
           /\ inUse' = inUse \cup {LowestFree}
           /\ slot' \in [Calls -> Nat] /\ slot' = [slot EXCEPT ![c] = LowestFree]
           /\ lease' \in [Owners -> {"none", "busy", "idle"}]
           /\ leaseSlot' \in [Owners -> Nat] /\ used' \in [Owners -> 0 .. MaxUsed]
           /\ \A o \in Owners : lease'[o] = "idle" <=> lease[o] = "idle"
           /\ \A o \in Owners : lease[o] = "idle" => leaseSlot'[o] = leaseSlot[o]
           /\ due' \subseteq due
           /\ onLease' = onLease \/ (HasOwner(c) /\ onLease' = onLease \cup {c})
  <1>1. /\ active' = active + 1 /\ modelActive' = Counted(info[c].model, 1)
        /\ inUse' = inUse \cup {LowestFree}
        /\ slot' = [slot EXCEPT ![c] = LowestFree]
    BY DEF Grant
  <1>2. /\ LowestFree \in Nat /\ LowestFree \notin inUse
        /\ LowestFree <= active + reserved
    <2>1. inUse \in SUBSET Nat
      BY DEF LaneType
    <2>2. IsFiniteSet(inUse) /\ Cardinality(inUse) <= active + reserved
          /\ active \in Nat /\ reserved \in Nat
      BY InUseBounded
    <2>3. Cardinality(inUse) \in Nat
      BY <2>2, FS_CardinalityType
    <2> QED BY <2>1, <2>2, <2>3, LowestFreeIsFree
  <1>3. slot' \in [Calls -> Nat]
    BY <1>1, <1>2 DEF LaneType
  <1>4. /\ lease \in [Owners -> {"none", "busy", "idle"}]
        /\ leaseSlot \in [Owners -> Nat] /\ used \in [Owners -> 0 .. MaxUsed]
        /\ HasOwner(c) => info[c].owner \in Owners
        /\ 1 \in 0 .. MaxUsed
    BY InfoFacts, MaxUsedType DEF LaneType, LeaseType
  <1>5. CASE StartsLease(c)
    <2> DEFINE o == info[c].owner
    <2>1. /\ lease' = [lease EXCEPT ![o] = "busy"]
          /\ leaseSlot' = [leaseSlot EXCEPT ![o] = LowestFree]
          /\ used' = [used EXCEPT ![o] = 1]
          /\ due' = due \ {o} /\ onLease' = onLease \cup {c}
      BY <1>5 DEF Grant
    <2>2. HasOwner(c) /\ o \in Owners /\ lease[o] = "none"
      BY <1>4, <1>5 DEF StartsLease
    <2> QED BY <1>1, <1>2, <1>3, <1>4, <2>1, <2>2
  <1>6. CASE ~StartsLease(c)
    <2>1. UNCHANGED <<lease, leaseSlot, used, due, onLease>>
      BY <1>6 DEF Grant, leaseVars
    <2> QED BY <1>1, <1>2, <1>3, <1>4, <2>1
  <1> QED BY <1>5, <1>6

\* What ending some leases does.
LEMMA EndLeasesEffect ==
    ASSUME LaneType, NEW D \in SUBSET Owners, EndLeases(D)
    PROVE  /\ lease' \in [Owners -> {"none", "busy", "idle"}]
           /\ leaseSlot' \in [Owners -> Nat] /\ used' \in [Owners -> 0 .. MaxUsed]
           /\ due' \subseteq due /\ due' \cap D = {}
           /\ \A o \in Owners : o \in D => lease'[o] = "none"
           /\ \A o \in Owners : o \notin D => lease'[o] = lease[o] /\ leaseSlot'[o] = leaseSlot[o]
  BY MaxUsedType DEF LaneType, LeaseType, EndLeases

\* What dropIdle does.
LEMMA DropIdleEffect ==
    ASSUME LaneType, SlotsExclusive, NEW D \in SUBSET Idle, DropIdle(D)
    PROVE  /\ lease' \in [Owners -> {"none", "busy", "idle"}]
           /\ leaseSlot' \in [Owners -> Nat] /\ used' \in [Owners -> 0 .. MaxUsed]
           /\ due' \subseteq due /\ due' \cap D = {}
           /\ \A o \in Owners : o \in D => lease'[o] = "none"
           /\ \A o \in Owners : o \notin D => lease'[o] = lease[o] /\ leaseSlot'[o] = leaseSlot[o]
           /\ Idle' = Idle \ D
           /\ inUse' = inUse \ {leaseSlot[o] : o \in D}
           /\ reserved' = reserved - Cardinality(D) /\ reserved' = Cardinality(Idle')
           /\ reserved' \in Nat
  <1>1. EndLeases(D) /\ D \in SUBSET Owners
    BY DEF DropIdle, Idle
  <1>2. /\ lease' \in [Owners -> {"none", "busy", "idle"}]
        /\ leaseSlot' \in [Owners -> Nat] /\ used' \in [Owners -> 0 .. MaxUsed]
        /\ due' \subseteq due /\ due' \cap D = {}
        /\ \A o \in Owners : o \in D => lease'[o] = "none"
        /\ \A o \in Owners : o \notin D => lease'[o] = lease[o] /\ leaseSlot'[o] = leaseSlot[o]
    BY <1>1, EndLeasesEffect
  <1>3. Idle' = Idle \ D
    BY <1>1, <1>2 DEF Idle
  <1>4. inUse' = inUse \ {leaseSlot[o] : o \in D} /\ reserved' = reserved - Cardinality(D)
    BY DEF DropIdle
  <1>5. IsFiniteSet(Idle) /\ reserved = Cardinality(Idle)
    BY InUseBounded DEF SlotsExclusive
  <1>6. Idle \cap D = D
    OBVIOUS
  <1>7. /\ IsFiniteSet(Idle \ D)
        /\ Cardinality(Idle \ D) = Cardinality(Idle) - Cardinality(Idle \cap D)
    BY <1>5, FS_Difference
  <1>8. Cardinality(Idle \ D) \in Nat
    BY <1>7, FS_CardinalityType
  <1> QED BY <1>2, <1>3, <1>4, <1>5, <1>6, <1>7, <1>8

\* One more call in flight is one more call of its model.
LEMMA ModelsCountedMore ==
    ASSUME SlotInv, NEW c \in Calls, c \notin InFlight, InFlight' = InFlight \cup {c}, info' = info,
           modelActive' = Counted(info[c].model, 1)
    PROVE  ModelsCounted' /\ modelActive' \in [Models -> Nat]
  <1>0. LaneType /\ ModelsCounted /\ SlotsExclusive
    BY DEF SlotInv
  <1>1. /\ modelActive' \in [Models -> Nat]
        /\ \A m \in Models : modelActive'[m] =
              IF m = info[c].model THEN AtLeast(modelActive[m] + 1, 0) ELSE modelActive[m]
    BY <1>0, CountedType
  <1>2. ASSUME NEW m \in Models PROVE modelActive'[m] = Cardinality(OfModel(m)')
    <2>1. modelActive[m] = Cardinality(OfModel(m)) /\ modelActive[m] \in Nat
      BY <1>0 DEF ModelsCounted, LaneType
    <2>2. IsFiniteSet(OfModel(m))
      BY <1>0, InUseBounded, FS_Subset DEF OfModel
    <2>3. CASE m = info[c].model
      <3>1. OfModel(m)' = OfModel(m) \cup {c} /\ c \notin OfModel(m)
        BY <2>3 DEF OfModel
      <3>2. Cardinality(OfModel(m) \cup {c}) = Cardinality(OfModel(m)) + 1
        BY <2>2, <3>1, FS_AddElement
      <3> QED BY <1>1, <2>1, <2>3, <3>1, <3>2 DEF AtLeast
    <2>4. CASE m # info[c].model
      <3>1. OfModel(m)' = OfModel(m)
        BY <2>4 DEF OfModel
      <3> QED BY <1>1, <2>1, <2>4, <3>1
    <2> QED BY <2>3, <2>4
  <1> QED BY <1>1, <1>2 DEF ModelsCounted

\* One less call in flight is one less call of its model.
LEMMA ModelsCountedLess ==
    ASSUME SlotInv, NEW c \in InFlight, InFlight' = InFlight \ {c}, info' = info,
           modelActive' = Counted(info[c].model, -1)
    PROVE  ModelsCounted' /\ modelActive' \in [Models -> Nat]
  <1>0. LaneType /\ ModelsCounted /\ SlotsExclusive /\ c \in Calls
    BY DEF SlotInv, InFlight
  <1>1. /\ modelActive' \in [Models -> Nat]
        /\ \A m \in Models : modelActive'[m] =
              IF m = info[c].model THEN AtLeast(modelActive[m] + -1, 0) ELSE modelActive[m]
    BY <1>0, CountedType
  <1>2. ASSUME NEW m \in Models PROVE modelActive'[m] = Cardinality(OfModel(m)')
    <2>1. modelActive[m] = Cardinality(OfModel(m)) /\ modelActive[m] \in Nat
      BY <1>0 DEF ModelsCounted, LaneType
    <2>2. IsFiniteSet(OfModel(m))
      BY <1>0, InUseBounded, FS_Subset DEF OfModel
    <2>3. CASE m = info[c].model
      <3>1. OfModel(m)' = OfModel(m) \ {c} /\ c \in OfModel(m)
        BY <2>3 DEF OfModel
      <3>2. /\ IsFiniteSet(OfModel(m) \ {c})
            /\ Cardinality(OfModel(m) \ {c}) = Cardinality(OfModel(m)) - 1
        BY <2>2, <3>1, FS_RemoveElement
      <3>3. Cardinality(OfModel(m) \ {c}) \in Nat
        BY <3>2, FS_CardinalityType
      <3> QED BY <1>1, <2>1, <2>3, <3>1, <3>2, <3>3 DEF AtLeast
    <2>4. CASE m # info[c].model
      <3>1. OfModel(m)' = OfModel(m)
        BY <2>4 DEF OfModel
      <3> QED BY <1>1, <2>1, <2>4, <3>1
    <2> QED BY <2>3, <2>4
  <1> QED BY <1>1, <1>2 DEF ModelsCounted

\* The calls in flight after one caller moved.
LEMMA InFlightMoved ==
    ASSUME LaneType, NEW c \in Calls, NEW p, at' = [at EXCEPT ![c] = p]
    PROVE  InFlight' = IF p \in {"granted", "in"} THEN InFlight \cup {c} ELSE InFlight \ {c}
  BY DEF LaneType, InFlight

\* grant hands a call a slot of its own.
LEMMA GrantKeepsSlots ==
    ASSUME SlotInv, NEW c \in Calls, c \notin InFlight, Grant(c), NEW p \in {"granted", "in"},
           at' = [at EXCEPT ![c] = p], reserved' = reserved, info' = info
    PROVE  /\ SlotsExclusive' /\ ModelsCounted' /\ OnLeaseOwned'
           /\ modelActive' \in [Models -> Nat]
  <1>0. LaneType /\ SlotsExclusive /\ OnLeaseOwned
    BY DEF SlotInv
  <1>1. InFlight' = InFlight \cup {c}
    BY <1>0, InFlightMoved
  <1>2. ModelsCounted' /\ modelActive' \in [Models -> Nat]
    BY <1>0, <1>1, GrantEffect, ModelsCountedMore
  <1>3. Idle' = Idle /\ \A o \in Idle : leaseSlot'[o] = leaseSlot[o]
    BY <1>0, GrantEffect DEF Idle
  <1>4. slot'[c] = LowestFree /\ \A d \in Calls : d # c => slot'[d] = slot[d]
    BY <1>0, GrantEffect DEF LaneType
  <1>5. \A d \in InFlight : slot'[d] = slot[d]
    BY <1>4 DEF InFlight
  <1>6. LowestFree \notin inUse /\ inUse' = inUse \cup {LowestFree}
    BY <1>0, GrantEffect
  <1>7. /\ (\A d \in InFlight : slot[d] # LowestFree)
        /\ (\A o \in Idle : leaseSlot[o] # LowestFree)
    BY <1>0, <1>6 DEF SlotsExclusive
  <1>8. active' = Cardinality(InFlight') /\ reserved' = Cardinality(Idle')
    <2>1. /\ IsFiniteSet(InFlight) /\ active = Cardinality(InFlight)
          /\ reserved = Cardinality(Idle)
      BY <1>0, InUseBounded DEF SlotsExclusive
    <2>2. Cardinality(InFlight \cup {c}) = Cardinality(InFlight) + 1
      BY <2>1, FS_AddElement
    <2>3. active' = active + 1
      BY <1>0, GrantEffect
    <2> QED BY <1>1, <1>3, <2>1, <2>2, <2>3
  <1>9. inUse' = {slot'[d] : d \in InFlight'} \cup {leaseSlot'[o] : o \in Idle'}
    BY <1>0, <1>1, <1>3, <1>4, <1>5, <1>6 DEF SlotsExclusive
  <1>10. \A d, e \in InFlight' : slot'[d] = slot'[e] => d = e
    BY <1>0, <1>1, <1>4, <1>5, <1>7 DEF SlotsExclusive
  <1>11. \A o, q \in Idle' : leaseSlot'[o] = leaseSlot'[q] => o = q
    BY <1>0, <1>3 DEF SlotsExclusive
  <1>12. \A d \in InFlight', o \in Idle' : slot'[d] # leaseSlot'[o]
    BY <1>0, <1>1, <1>3, <1>4, <1>5, <1>7 DEF SlotsExclusive
  <1>13. SlotsExclusive'
    BY <1>8, <1>9, <1>10, <1>11, <1>12 DEF SlotsExclusive
  <1>14. OnLeaseOwned'
    BY <1>0, <1>1, GrantEffect DEF OnLeaseOwned, HasOwner
  <1> QED BY <1>2, <1>13, <1>14

\* acquire within the hold puts the call on its owner's reserved slot.
LEMMA LeasedKeepsSlots ==
    ASSUME SlotInv, NEW c \in Calls, AcquireLeased(c), info' = info
    PROVE  /\ SlotsExclusive' /\ ModelsCounted' /\ OnLeaseOwned'
           /\ modelActive' \in [Models -> Nat]
  <1> DEFINE o == info[c].owner
  <1>0. LaneType /\ SlotsExclusive /\ OnLeaseOwned
    BY DEF SlotInv
  <1>a. o \in Owners /\ lease[o] = "idle" /\ HasOwner(c) /\ c \notin InFlight
    BY <1>0, InfoFacts DEF AcquireLeased, OwnerIdle, InFlight
  <1>1. InFlight' = InFlight \cup {c}
    BY <1>0, InFlightMoved DEF AcquireLeased
  <1>2. ModelsCounted' /\ modelActive' \in [Models -> Nat]
    BY <1>0, <1>1, <1>a, ModelsCountedMore DEF AcquireLeased
  <1>3. Idle' = Idle \ {o} /\ o \in Idle /\ leaseSlot' = leaseSlot
    BY <1>0, <1>a DEF Idle, AcquireLeased, LaneType, LeaseType
  <1>4. slot'[c] = leaseSlot[o] /\ \A d \in Calls : d # c => slot'[d] = slot[d]
    BY <1>0 DEF LaneType, AcquireLeased
  <1>5. \A d \in InFlight : slot'[d] = slot[d]
    BY <1>4, <1>a DEF InFlight
  <1>6. inUse' = inUse
    BY DEF AcquireLeased
  <1>8. active' = Cardinality(InFlight') /\ reserved' = Cardinality(Idle')
    <2>1. /\ IsFiniteSet(InFlight) /\ active = Cardinality(InFlight)
          /\ reserved = Cardinality(Idle)
          /\ IsFiniteSet(Idle)
      BY <1>0, InUseBounded DEF SlotsExclusive
    <2>2. Cardinality(InFlight \cup {c}) = Cardinality(InFlight) + 1
      BY <1>a, <2>1, FS_AddElement
    <2>3. Cardinality(Idle \ {o}) = Cardinality(Idle) - 1
      BY <1>3, <2>1, FS_RemoveElement
    <2>4. active' = active + 1 /\ reserved' = reserved - 1
      BY DEF AcquireLeased
    <2> QED BY <1>1, <1>3, <2>1, <2>2, <2>3, <2>4
  <1>9. inUse' = {slot'[d] : d \in InFlight'} \cup {leaseSlot'[q] : q \in Idle'}
    BY <1>0, <1>1, <1>3, <1>4, <1>5, <1>6 DEF SlotsExclusive
  <1>10. \A d, e \in InFlight' : slot'[d] = slot'[e] => d = e
    BY <1>0, <1>1, <1>3, <1>4, <1>5 DEF SlotsExclusive
  <1>11. \A p, q \in Idle' : leaseSlot'[p] = leaseSlot'[q] => p = q
    BY <1>0, <1>3 DEF SlotsExclusive
  <1>12. \A d \in InFlight', q \in Idle' : slot'[d] # leaseSlot'[q]
    BY <1>0, <1>1, <1>3, <1>4, <1>5 DEF SlotsExclusive
  <1>13. SlotsExclusive'
    BY <1>8, <1>9, <1>10, <1>11, <1>12 DEF SlotsExclusive
  <1>14. OnLeaseOwned'
    BY <1>0, <1>1, <1>a DEF OnLeaseOwned, HasOwner, AcquireLeased
  <1> QED BY <1>2, <1>13, <1>14

\* A call on the lease its owner holds: the owner is a run, and the lease busy.
LEMMA HeldLeaseIsBusy ==
    ASSUME SlotInv, NEW c \in InFlight, HoldsItsLease(c)
    PROVE  /\ info[c].owner \in Owners /\ HasOwner(c) /\ lease[info[c].owner] = "busy"
           /\ leaseSlot[info[c].owner] = slot[c]
  <1>1. HasOwner(c) /\ c \in Calls /\ LaneType
    BY DEF SlotInv, OnLeaseOwned, HoldsItsLease, InFlight
  <1>2. info[c].owner \in Owners
    BY <1>1, InfoFacts
  <1>3. lease[info[c].owner] # "idle"
    BY <1>2 DEF SlotInv, SlotsExclusive, HoldsItsLease, Idle
  <1> QED BY <1>1, <1>2, <1>3 DEF HoldsItsLease, LaneType, LeaseType

\* finish keeps the lease as a reservation.
Keeps(c) ==
    LET o == info[c].owner
    IN  /\ o \in Owners /\ lease[o] = "busy" /\ leaseSlot[o] = slot[c] /\ HasOwner(c)
        /\ lease' = [lease EXCEPT ![o] = "idle"] /\ reserved' = reserved + 1
        /\ leaseSlot' = leaseSlot /\ used' = used /\ due' = due /\ inUse' = inUse
        /\ cfg.hold /\ active - 1 + reserved < cfg.max /\ slot[c] < cfg.max
        /\ ownerQueued[o] = 0

\* finish gives the slot back, and the lease, if the call still had it, ends.
Frees(c) ==
    /\ inUse' = inUse \ {slot[c]} /\ reserved' = reserved
    /\ Idle' = Idle /\ due' \subseteq due
    /\ \A o \in Owners : lease[o] = "idle" => leaseSlot'[o] = leaseSlot[o]
    /\ \A o \in Owners : lease'[o] = lease[o] \/ lease'[o] = "none"

\* What finish does.
LEMMA FinishEffect ==
    ASSUME SlotInv, NEW c \in InFlight, NEW abandoned \in BOOLEAN, Finish(c, abandoned)
    PROVE  /\ active' = active - 1 /\ modelActive' = Counted(info[c].model, -1)
           /\ at' = [at EXCEPT ![c] = "out"] /\ slot' = [slot EXCEPT ![c] = 0]
           /\ onLease' = onLease \ {c} /\ mu' = "dispatch"
           /\ UNCHANGED <<cfg, fired, buckets, ring, ownerQueued, bgCredit>>
           /\ lease' \in [Owners -> {"none", "busy", "idle"}]
           /\ leaseSlot' \in [Owners -> Nat] /\ used' \in [Owners -> 0 .. MaxUsed]
           /\ (Keeps(c) /\ ~abandoned) \/ Frees(c)
  <1> DEFINE o == info[c].owner
             count == Counted(info[c].model, -1)
  <1>0. LaneType /\ SlotsExclusive
    BY DEF SlotInv
  <1>1. /\ active' = active - 1 /\ modelActive' = Counted(info[c].model, -1)
        /\ at' = [at EXCEPT ![c] = "out"] /\ slot' = [slot EXCEPT ![c] = 0]
        /\ onLease' = onLease \ {c} /\ mu' = "dispatch"
        /\ UNCHANGED <<cfg, fired, buckets, ring, ownerQueued, bgCredit>>
    BY DEF Finish, ThenDispatch, queueVars
  <1>2. /\ lease \in [Owners -> {"none", "busy", "idle"}]
        /\ leaseSlot \in [Owners -> Nat] /\ used \in [Owners -> 0 .. MaxUsed]
    BY <1>0 DEF LaneType, LeaseType
  <1>3. CASE KeepsLease(c, abandoned, count)
    <2>1. /\ lease' = [lease EXCEPT ![o] = "idle"] /\ reserved' = reserved + 1
          /\ UNCHANGED <<leaseSlot, used, due, inUse>>
      BY <1>3 DEF Finish
    <2>2. /\ HoldsItsLease(c) /\ cfg.hold /\ active - 1 + reserved < cfg.max
          /\ slot[c] < cfg.max
          /\ ownerQueued[o] = 0 /\ ~abandoned
      BY <1>3 DEF KeepsLease
    <2>3. o \in Owners /\ HasOwner(c) /\ lease[o] = "busy" /\ leaseSlot[o] = slot[c]
      BY <2>2, HeldLeaseIsBusy
    <2>4. Keeps(c)
      BY <2>1, <2>2, <2>3 DEF Keeps
    <2> QED BY <1>1, <1>2, <2>1, <2>2, <2>3, <2>4
  <1>4. CASE ~KeepsLease(c, abandoned, count)
    <2> DEFINE D == IF HoldsItsLease(c) THEN {o} ELSE {}
    <2>1. EndLeases(D) /\ inUse' = inUse \ {slot[c]} /\ reserved' = reserved
      BY <1>4 DEF Finish
    <2>2. D \in SUBSET Owners /\ \A q \in D : lease[q] = "busy"
      BY HeldLeaseIsBusy
    <2> HIDE DEF D
    <2>3. /\ lease' \in [Owners -> {"none", "busy", "idle"}]
          /\ leaseSlot' \in [Owners -> Nat] /\ used' \in [Owners -> 0 .. MaxUsed]
          /\ due' \subseteq due
          /\ \A q \in Owners : q \in D => lease'[q] = "none"
          /\ \A q \in Owners : q \notin D => lease'[q] = lease[q] /\ leaseSlot'[q] = leaseSlot[q]
      BY <1>0, <2>1, <2>2, EndLeasesEffect
    <2>4. Idle' = Idle
      BY <2>2, <2>3 DEF Idle
    <2>5. Frees(c)
      BY <2>1, <2>2, <2>3, <2>4 DEF Frees
    <2> QED BY <1>1, <2>3, <2>5
  <1> QED BY <1>3, <1>4

\* finish leaves the other slots with who has them.
LEMMA FinishKeepsSlots ==
    ASSUME SlotInv, NEW c \in InFlight, NEW abandoned \in BOOLEAN, Finish(c, abandoned), info' = info
    PROVE  /\ SlotsExclusive' /\ ModelsCounted' /\ OnLeaseOwned'
           /\ modelActive' \in [Models -> Nat]
  <1> DEFINE o == info[c].owner
  <1>0. LaneType /\ SlotsExclusive /\ OnLeaseOwned /\ c \in Calls
    BY DEF SlotInv, InFlight
  <1>1. InFlight' = InFlight \ {c}
    BY <1>0, InFlightMoved, FinishEffect
  <1>2. ModelsCounted' /\ modelActive' \in [Models -> Nat]
    BY <1>1, FinishEffect, ModelsCountedLess
  <1>3. \A d \in InFlight' : slot'[d] = slot[d] /\ d \in InFlight /\ d # c
    BY <1>0, <1>1, FinishEffect DEF LaneType, InFlight
  <1>4. /\ IsFiniteSet(InFlight) /\ active = Cardinality(InFlight)
        /\ reserved = Cardinality(Idle)
        /\ IsFiniteSet(Idle) /\ active' = active - 1
    BY <1>0, InUseBounded, FinishEffect DEF SlotsExclusive
  <1>5. active' = Cardinality(InFlight')
    <2>1. Cardinality(InFlight \ {c}) = Cardinality(InFlight) - 1
      BY <1>4, FS_RemoveElement
    <2> QED BY <1>1, <1>4, <2>1
  <1>6. \A d, e \in InFlight' : slot'[d] = slot'[e] => d = e
    BY <1>0, <1>3 DEF SlotsExclusive
  <1>7. ASSUME Keeps(c) PROVE SlotsExclusive'
    <2>1. /\ Idle' = Idle \cup {o} /\ o \notin Idle /\ leaseSlot' = leaseSlot
          /\ leaseSlot[o] = slot[c]
          /\ inUse' = inUse
      BY <1>0, <1>7 DEF Keeps, Idle, LaneType, LeaseType
    <2>2. reserved' = Cardinality(Idle')
      <3>1. Cardinality(Idle \cup {o}) = Cardinality(Idle) + 1
        BY <1>4, <2>1, FS_AddElement
      <3> QED BY <1>4, <1>7, <2>1, <3>1 DEF Keeps
    <2>3. \A p, q \in Idle' : leaseSlot'[p] = leaseSlot'[q] => p = q
      BY <1>0, <2>1 DEF SlotsExclusive
    <2>4. \A d \in InFlight', q \in Idle' : slot'[d] # leaseSlot'[q]
      BY <1>0, <1>3, <2>1 DEF SlotsExclusive
    <2>5. inUse' = {slot'[d] : d \in InFlight'} \cup {leaseSlot'[q] : q \in Idle'}
      BY <1>0, <1>1, <1>3, <2>1 DEF SlotsExclusive
    <2> QED BY <1>5, <1>6, <2>2, <2>3, <2>4, <2>5 DEF SlotsExclusive
  <1>8. ASSUME Frees(c) PROVE SlotsExclusive'
    <2>1. /\ Idle' = Idle /\ inUse' = inUse \ {slot[c]} /\ reserved' = reserved
          /\ \A q \in Idle : leaseSlot'[q] = leaseSlot[q]
      BY <1>8 DEF Frees, Idle
    <2>2. reserved' = Cardinality(Idle')
      BY <1>4, <2>1
    <2>3. \A p, q \in Idle' : leaseSlot'[p] = leaseSlot'[q] => p = q
      BY <1>0, <2>1 DEF SlotsExclusive
    <2>4. \A d \in InFlight', q \in Idle' : slot'[d] # leaseSlot'[q]
      BY <1>0, <1>3, <2>1 DEF SlotsExclusive
    <2>5. inUse' = {slot'[d] : d \in InFlight'} \cup {leaseSlot'[q] : q \in Idle'}
      <3>1. inUse = {slot[d] : d \in InFlight} \cup {leaseSlot[q] : q \in Idle}
        BY <1>0 DEF SlotsExclusive
      <3>2. {slot'[d] : d \in InFlight'} = {slot[d] : d \in InFlight} \ {slot[c]}
        BY <1>0, <1>1, <1>3 DEF SlotsExclusive
      <3>3. {leaseSlot'[q] : q \in Idle'} = {leaseSlot[q] : q \in Idle} \ {slot[c]}
        BY <1>0, <2>1 DEF SlotsExclusive
      <3> QED BY <2>1, <3>1, <3>2, <3>3
    <2> QED BY <1>5, <1>6, <2>2, <2>3, <2>4, <2>5 DEF SlotsExclusive
  <1>9. SlotsExclusive'
    BY <1>7, <1>8, FinishEffect
  <1>10. OnLeaseOwned'
    BY <1>0, <1>1, FinishEffect DEF OnLeaseOwned, HasOwner
  <1> QED BY <1>2, <1>9, <1>10

\* Reservations that go leave the other slots with who has them.
LEMMA DropKeepsSlots ==
    ASSUME SlotInv, NEW D \in SUBSET Idle, DropIdle(D), info' = info, InFlight' = InFlight,
           UNCHANGED <<active, modelActive, slot, onLease>>
    PROVE  SlotsExclusive' /\ ModelsCounted' /\ OnLeaseOwned'
  <1>0. LaneType /\ SlotsExclusive /\ OnLeaseOwned
    BY DEF SlotInv
  <1>1. /\ Idle' = Idle \ D /\ inUse' = inUse \ {leaseSlot[o] : o \in D}
        /\ reserved' = Cardinality(Idle')
        /\ \A q \in Idle' : leaseSlot'[q] = leaseSlot[q]
    BY <1>0, DropIdleEffect DEF Idle
  <1>2. inUse' = {slot'[d] : d \in InFlight'} \cup {leaseSlot'[q] : q \in Idle'}
    <2>1. inUse = {slot[d] : d \in InFlight} \cup {leaseSlot[q] : q \in Idle}
      BY <1>0 DEF SlotsExclusive
    <2>2. {slot'[d] : d \in InFlight'} = {slot[d] : d \in InFlight} \ {leaseSlot[q] : q \in D}
      BY <1>0, <1>1 DEF SlotsExclusive
    <2>3. {leaseSlot'[q] : q \in Idle'} = {leaseSlot[q] : q \in Idle} \ {leaseSlot[q] : q \in D}
      BY <1>0, <1>1 DEF SlotsExclusive
    <2> QED BY <1>1, <2>1, <2>2, <2>3
  <1>3. SlotsExclusive'
    BY <1>0, <1>1, <1>2 DEF SlotsExclusive
  <1>4. ModelsCounted'
    BY DEF SlotInv, ModelsCounted, OfModel
  <1>5. OnLeaseOwned'
    BY <1>0 DEF OnLeaseOwned, HasOwner
  <1> QED BY <1>3, <1>4, <1>5

\* A step that leaves the calls in flight and the reservations alone.
LEMMA SlotsUntouched ==
    ASSUME SlotInv, InFlight' = InFlight, Idle' = Idle,
           \A c \in InFlight : info'[c] = info[c],
           \A o \in Idle : leaseSlot'[o] = leaseSlot[o],
           UNCHANGED <<active, reserved, modelActive, inUse, slot, onLease>>
    PROVE  SlotsExclusive' /\ ModelsCounted' /\ OnLeaseOwned'
  <1>1. SlotsExclusive'
    BY DEF SlotInv, SlotsExclusive
  <1>2. \A m \in Models : OfModel(m)' = OfModel(m)
    BY DEF OfModel
  <1>3. OnLeaseOwned'
    BY DEF SlotInv, OnLeaseOwned, HasOwner
  <1> QED BY <1>1, <1>2, <1>3 DEF SlotInv, ModelsCounted
-----------------------------------------------------------------------------
(* The queue.                                                              *)

\* The calls that wait, whichever bucket they are in.
Waiting == {c \in Calls : at[c] = "queued"}
WaitingFor(o) == {c \in Waiting : info[c].owner = o}

\* A bucket holds waiting calls of its class and its user, each once.
BucketsHold ==
    \A cl \in Classes, u \in Users :
      /\ IsInjective(buckets[cl][u])
      /\ \A w \in ToSet(buckets[cl][u]) : w \in Waiting /\ Class(w) = cl /\ info[w].user = u

\* A waiting call is in its bucket.
WaitersListed == \A c \in Waiting : c \in ToSet(buckets[Class(c)][info[c].user])

\* The ring has the users of the buckets that are not empty, each once.
RingMatches ==
    \A cl \in Classes :
      /\ IsInjective(ring[cl])
      /\ \A u \in Users : u \in ToSet(ring[cl]) <=> buckets[cl][u] # <<>>

\* The waiting calls of each run are counted.
OwnersCounted == \A o \in Owners : ownerQueued[o] = Cardinality(WaitingFor(o))

QueueParts == BucketsHold /\ WaitersListed /\ RingMatches /\ OwnersCounted

\* The queues hold the waiting calls, and no others.
LEMMA QueuedAreWaiting ==
    ASSUME LaneType, BucketsHold, WaitersListed
    PROVE  Queued = Waiting /\ \A cl \in Classes : WaitersIn(cl) = {c \in Waiting : Class(c) = cl}
  <1>1. ASSUME NEW c \in Waiting PROVE Class(c) \in Classes /\ info[c].user \in Users
    BY InfoFacts DEF Waiting
  <1>2. ASSUME NEW cl \in Classes PROVE WaitersIn(cl) = {c \in Waiting : Class(c) = cl}
    BY <1>1 DEF WaitersIn, BucketsHold, WaitersListed
  <1> QED BY <1>1, <1>2 DEF Queued

\* Where a bucket changes, the others stay.
LEMMA BucketPut ==
    ASSUME LaneType, NEW cl \in Classes, NEW u \in Users, NEW b \in Seq(Calls),
           buckets' = [buckets EXCEPT ![cl][u] = b]
    PROVE  /\ buckets' \in [Classes -> [Users -> Seq(Calls)]]
           /\ buckets'[cl][u] = b
           /\ \A k \in Classes, v \in Users : k # cl \/ v # u => buckets'[k][v] = buckets[k][v]
  BY DEF LaneType, QueueType

\* push puts a newcomer at the end of its bucket.
LEMMA PushKeepsQueue ==
    ASSUME LaneType, QueueParts, NEW c \in Calls, c \notin Waiting, Push(c),
           at' = [at EXCEPT ![c] = "queued"], info' = info
    PROVE  QueueParts' /\ QueueType' /\ Waiting' = Waiting \cup {c}
  <1> DEFINE cl == Class(c)
             u == info[c].user
             old == buckets[cl][u]
             new == Append(old, c)
  <1>1. /\ cl \in Classes /\ u \in Users /\ old \in Seq(Calls) /\ IsInjective(old)
        /\ c \notin ToSet(old)
    BY InfoFacts DEF LaneType, QueueType, QueueParts, BucketsHold
  <1>2. Waiting' = Waiting \cup {c}
    BY DEF Waiting, LaneType
  <1>3. /\ new \in Seq(Calls) /\ ToSet(new) = ToSet(old) \cup {c}
        /\ IsInjective(new) /\ new # <<>>
    BY <1>1, FifoAppend
  <1>4. /\ buckets' \in [Classes -> [Users -> Seq(Calls)]]
        /\ buckets'[cl][u] = new
        /\ \A k \in Classes, v \in Users : k # cl \/ v # u => buckets'[k][v] = buckets[k][v]
    <2>1. buckets' = [buckets EXCEPT ![cl][u] = new]
      BY <1>1 DEF Push, LaneType, QueueType
    <2>2. cl \in Classes /\ u \in Users /\ new \in Seq(Calls)
      BY <1>1, <1>3
    <2> HIDE DEF new, cl, u
    <2> QED BY <2>1, <2>2, BucketPut
  <1> HIDE DEF new
  <1>5. BucketsHold'
    <2> SUFFICES ASSUME NEW k \in Classes, NEW v \in Users
                 PROVE  /\ IsInjective(buckets'[k][v])
                        /\ \A w \in ToSet(buckets'[k][v]) :
                              w \in Waiting' /\ Class(w)' = k /\ info'[w].user = v
      BY DEF BucketsHold
    <2>1. CASE k = cl /\ v = u
      BY <1>2, <1>3, <1>4, <2>1 DEF QueueParts, BucketsHold, Class
    <2>2. CASE k # cl \/ v # u
      BY <1>2, <1>4, <2>2 DEF QueueParts, BucketsHold, Class
    <2> QED BY <2>1, <2>2
  <1>6. WaitersListed'
    <2> SUFFICES ASSUME NEW d \in Waiting'
                 PROVE  d \in ToSet(buckets'[Class(d)][info[d].user])
      BY DEF WaitersListed, Class
    <2>1. d \in Calls /\ Class(d) \in Classes /\ info[d].user \in Users
      BY InfoFacts DEF Waiting
    <2>2. CASE d = c
      BY <1>3, <1>4, <2>2
    <2>3. CASE d # c
      <3>1. d \in ToSet(buckets[Class(d)][info[d].user])
        BY <1>2, <2>3 DEF QueueParts, WaitersListed
      <3> QED BY <1>3, <1>4, <2>1, <3>1
    <2> QED BY <2>2, <2>3
  <1>7. RingMatches' /\ ring' \in [Classes -> Seq(Users)]
    <2>0. ring \in [Classes -> Seq(Users)]
      BY DEF LaneType, QueueType
    <2>1. CASE old = <<>>
      <3>1. u \notin ToSet(ring[cl]) /\ IsInjective(ring[cl]) /\ ring[cl] \in Seq(Users)
        BY <1>1, <2>0, <2>1 DEF QueueParts, RingMatches
      <3>2. /\ Append(ring[cl], u) \in Seq(Users) /\ IsInjective(Append(ring[cl], u))
            /\ ToSet(Append(ring[cl], u)) = ToSet(ring[cl]) \cup {u}
        BY <1>1, <3>1, FifoAppend
      <3>3. ring' = [ring EXCEPT ![cl] = Append(ring[cl], u)]
        BY <2>1 DEF Push
      <3>4. /\ ring' \in [Classes -> Seq(Users)] /\ ring'[cl] = Append(ring[cl], u)
            /\ \A k \in Classes : k # cl => ring'[k] = ring[k]
        BY <1>1, <2>0, <3>2, <3>3
      <3>5. ASSUME NEW k \in Classes
            PROVE  /\ IsInjective(ring'[k])
                   /\ \A v \in Users : v \in ToSet(ring'[k]) <=> buckets'[k][v] # <<>>
        <4>1. CASE k = cl
          <5>1. ring'[k] = Append(ring[cl], u) /\ buckets'[k][u] = new
            BY <1>4, <3>4, <4>1
          <5>2. \A v \in Users : v # u => buckets'[k][v] = buckets[cl][v]
            BY <1>4, <4>1
          <5>3. \A v \in Users : v \in ToSet(ring[cl]) <=> buckets[cl][v] # <<>>
            BY <1>1 DEF QueueParts, RingMatches
          <5> QED BY <1>1, <1>3, <3>2, <5>1, <5>2, <5>3
        <4>2. CASE k # cl
          BY <1>4, <3>4, <4>2 DEF QueueParts, RingMatches
        <4> QED BY <4>1, <4>2
      <3> QED BY <3>4, <3>5 DEF RingMatches
    <2>2. CASE old # <<>>
      <3>1. ring' = ring
        BY <2>2 DEF Push
      <3>2. \A k \in Classes, v \in Users : buckets'[k][v] = <<>> <=> buckets[k][v] = <<>>
        <4> SUFFICES ASSUME NEW k \in Classes, NEW v \in Users
                     PROVE  buckets'[k][v] = <<>> <=> buckets[k][v] = <<>>
          OBVIOUS
        <4>1. CASE k = cl /\ v = u
          BY <1>3, <1>4, <2>2, <4>1
        <4>2. CASE k # cl \/ v # u
          BY <1>4, <4>2
        <4> QED BY <4>1, <4>2
      <3>3. RingMatches
        BY DEF QueueParts
      <3> HIDE DEF cl, u, old
      <3>4. RingMatches'
        BY <3>1, <3>2, <3>3 DEF RingMatches
      <3> QED BY <2>0, <3>1, <3>4
    <2> QED BY <2>1, <2>2
  <1>8. OwnersCounted' /\ ownerQueued' \in [Owners -> Nat]
    <2>0. ownerQueued \in [Owners -> Nat]
      BY DEF LaneType, QueueType
    <2>1. ASSUME NEW o \in Owners PROVE ownerQueued'[o] = Cardinality(WaitingFor(o)')
      <3>1. ownerQueued[o] = Cardinality(WaitingFor(o)) /\ IsFiniteSet(WaitingFor(o))
        BY CallsFinite, FS_Subset DEF QueueParts, OwnersCounted, WaitingFor, Waiting
      <3>2. CASE info[c].owner = o
        <4>1. WaitingFor(o)' = WaitingFor(o) \cup {c} /\ c \notin WaitingFor(o)
          BY <1>2, <3>2 DEF WaitingFor
        <4>2. ownerQueued'[o] = ownerQueued[o] + 1
          BY <2>0, <3>2, NoOwnerIsNoOwner DEF Push, HasOwner
        <4>3. Cardinality(WaitingFor(o) \cup {c}) = Cardinality(WaitingFor(o)) + 1
          BY <3>1, <4>1, FS_AddElement
        <4> QED BY <3>1, <4>1, <4>2, <4>3
      <3>3. CASE info[c].owner # o
        <4>1. WaitingFor(o)' = WaitingFor(o)
          BY <1>2, <3>3 DEF WaitingFor
        <4>2. ownerQueued'[o] = ownerQueued[o]
          BY <2>0, <3>3 DEF Push
        <4> QED BY <3>1, <4>1, <4>2
      <3> QED BY <3>2, <3>3
    <2>2. ownerQueued' \in [Owners -> Nat]
      <3>1. HasOwner(c) => info[c].owner \in Owners
        BY InfoFacts
      <3> QED BY <2>0, <3>1 DEF Push
    <2> QED BY <2>1, <2>2 DEF OwnersCounted
  <1> QED BY <1>2, <1>4, <1>5, <1>6, <1>7, <1>8 DEF QueueParts, QueueType

\* pop and remove take exactly one waiter out.
LEMMA TakeOutKeepsQueue ==
    ASSUME LaneType, QueueParts, NEW c \in Waiting, NEW served \in BOOLEAN, TakeOut(c, served),
           NEW p, p # "queued", at' = [at EXCEPT ![c] = p], info' = info
    PROVE  QueueParts' /\ QueueType' /\ Waiting' = Waiting \ {c}
  <1> DEFINE cl == Class(c)
             u == info[c].user
             old == buckets[cl][u]
             rest == RemoveFirst(old, c)
  <1>0. c \in Calls
    BY DEF Waiting
  <1>1. /\ cl \in Classes /\ u \in Users /\ old \in Seq(Calls) /\ IsInjective(old)
        /\ c \in ToSet(old)
    BY <1>0, InfoFacts DEF LaneType, QueueType, QueueParts, BucketsHold, WaitersListed
  <1>2. Waiting' = Waiting \ {c}
    BY <1>0 DEF Waiting, LaneType
  <1>3. rest \in Seq(Calls) /\ ToSet(rest) = ToSet(old) \ {c} /\ IsInjective(rest)
    BY <1>1, FifoRemove
  <1>4. /\ buckets' \in [Classes -> [Users -> Seq(Calls)]]
        /\ buckets'[cl][u] = rest
        /\ \A k \in Classes, v \in Users : k # cl \/ v # u => buckets'[k][v] = buckets[k][v]
    <2>1. buckets' = [buckets EXCEPT ![cl][u] = rest]
      BY DEF TakeOut
    <2>2. cl \in Classes /\ u \in Users /\ rest \in Seq(Calls)
      BY <1>1, <1>3
    <2> HIDE DEF rest, cl, u
    <2> QED BY <2>1, <2>2, BucketPut
  <1> HIDE DEF rest
  <1>5. BucketsHold'
    <2> SUFFICES ASSUME NEW k \in Classes, NEW v \in Users
                 PROVE  /\ IsInjective(buckets'[k][v])
                        /\ \A w \in ToSet(buckets'[k][v]) :
                              w \in Waiting' /\ Class(w)' = k /\ info'[w].user = v
      BY DEF BucketsHold
    <2>1. CASE k = cl /\ v = u
      BY <1>2, <1>3, <1>4, <2>1 DEF QueueParts, BucketsHold, Class
    <2>2. CASE k # cl \/ v # u
      BY <1>2, <1>4, <2>2 DEF QueueParts, BucketsHold, Class
    <2> QED BY <2>1, <2>2
  <1>6. WaitersListed'
    <2> SUFFICES ASSUME NEW d \in Waiting'
                 PROVE  d \in ToSet(buckets'[Class(d)][info[d].user])
      BY DEF WaitersListed, Class
    <2>1. d \in Calls /\ Class(d) \in Classes /\ info[d].user \in Users
      BY InfoFacts DEF Waiting
    <2>2. d # c /\ d \in ToSet(buckets[Class(d)][info[d].user])
      BY <1>2 DEF QueueParts, WaitersListed
    <2> QED BY <1>3, <1>4, <2>1, <2>2
  <1>7. RingMatches' /\ ring' \in [Classes -> Seq(Users)]
    <2>0. ring \in [Classes -> Seq(Users)]
      BY DEF LaneType, QueueType
    <2>1. IsInjective(ring[cl]) /\ ring[cl] \in Seq(Users) /\ u \in ToSet(ring[cl])
      <3>1. old # <<>>
        BY <1>1, FifoEmpty
      <3> QED BY <1>1, <2>0, <3>1 DEF QueueParts, RingMatches
    <2> DEFINE less == RemoveFirst(ring[cl], u)
               new == IF rest = <<>> THEN less ELSE IF served THEN Append(less, u) ELSE ring[cl]
    <2>2. less \in Seq(Users) /\ ToSet(less) = ToSet(ring[cl]) \ {u} /\ IsInjective(less)
      BY <2>1, FifoRemove
    <2>3. /\ Append(less, u) \in Seq(Users) /\ IsInjective(Append(less, u))
          /\ ToSet(Append(less, u)) = ToSet(less) \cup {u}
      BY <1>1, <2>2, FifoAppend
    <2>4. /\ new \in Seq(Users) /\ IsInjective(new)
          /\ ToSet(new) = IF rest = <<>> THEN ToSet(ring[cl]) \ {u} ELSE ToSet(ring[cl])
      BY <2>1, <2>2, <2>3
    <2>5. ring' = [ring EXCEPT ![cl] = new]
      BY DEF TakeOut, rest
    <2> HIDE DEF new
    <2>6. /\ ring' \in [Classes -> Seq(Users)] /\ ring'[cl] = new
          /\ \A k \in Classes : k # cl => ring'[k] = ring[k]
      BY <1>1, <2>0, <2>4, <2>5
    <2>7. ASSUME NEW k \in Classes
          PROVE  /\ IsInjective(ring'[k])
                 /\ \A v \in Users : v \in ToSet(ring'[k]) <=> buckets'[k][v] # <<>>
      <3>1. CASE k = cl
        BY <1>4, <2>1, <2>4, <2>6, <3>1 DEF QueueParts, RingMatches
      <3>2. CASE k # cl
        BY <1>4, <2>6, <3>2 DEF QueueParts, RingMatches
      <3> QED BY <3>1, <3>2
    <2> QED BY <2>6, <2>7 DEF RingMatches
  <1>8. OwnersCounted' /\ ownerQueued' \in [Owners -> Nat]
    <2>0. ownerQueued \in [Owners -> Nat]
      BY DEF LaneType, QueueType
    <2>1. ASSUME NEW o \in Owners PROVE ownerQueued'[o] = Cardinality(WaitingFor(o)')
      <3>1. ownerQueued[o] = Cardinality(WaitingFor(o)) /\ IsFiniteSet(WaitingFor(o))
        BY CallsFinite, FS_Subset DEF QueueParts, OwnersCounted, WaitingFor, Waiting
      <3>2. CASE info[c].owner = o
        <4>1. WaitingFor(o)' = WaitingFor(o) \ {c} /\ c \in WaitingFor(o)
          BY <1>2, <3>2 DEF WaitingFor
        <4>2. ownerQueued'[o] = AtLeast(ownerQueued[o] - 1, 0)
          BY <2>0, <3>2, NoOwnerIsNoOwner DEF TakeOut, DecOwnerQueued, HasOwner
        <4>3. /\ Cardinality(WaitingFor(o) \ {c}) = Cardinality(WaitingFor(o)) - 1
              /\ IsFiniteSet(WaitingFor(o) \ {c})
          BY <3>1, <4>1, FS_RemoveElement
        <4>4. Cardinality(WaitingFor(o) \ {c}) \in Nat
          BY <4>3, FS_CardinalityType
        <4> QED BY <2>0, <3>1, <4>1, <4>2, <4>3, <4>4 DEF AtLeast
      <3>3. CASE info[c].owner # o
        <4>1. WaitingFor(o)' = WaitingFor(o)
          BY <1>2, <3>3 DEF WaitingFor
        <4>2. ownerQueued'[o] = ownerQueued[o]
          BY <2>0, <3>3 DEF TakeOut, DecOwnerQueued
        <4> QED BY <3>1, <4>1, <4>2
      <3> QED BY <3>2, <3>3
    <2>2. ownerQueued' \in [Owners -> Nat]
      <3>1. HasOwner(c) => info[c].owner \in Owners
        BY <1>0, InfoFacts
      <3> QED BY <2>0, <3>1 DEF TakeOut, DecOwnerQueued, AtLeast
    <2> QED BY <2>1, <2>2 DEF OwnersCounted
  <1> QED BY <1>2, <1>4, <1>5, <1>6, <1>7, <1>8 DEF QueueParts, QueueType

\* A step that leaves the queues and the waiting calls alone.
LEMMA QueueUntouched ==
    ASSUME QueueParts, Waiting' = Waiting, \A c \in Waiting : info'[c] = info[c],
           UNCHANGED <<buckets, ring, ownerQueued>>
    PROVE  QueueParts'
  <1>1. BucketsHold' /\ WaitersListed' /\ RingMatches'
    BY DEF QueueParts, BucketsHold, WaitersListed, RingMatches, Class
  <1>2. \A o \in Owners : WaitingFor(o)' = WaitingFor(o)
    BY DEF WaitingFor
  <1> QED BY <1>1, <1>2 DEF QueueParts, OwnersCounted
-----------------------------------------------------------------------------
(* Model caps.                                                             *)

\* The n-th calls of the models a cap covers, whose number is ModelInFlight.
Covered(key) == {m \in Models : Capped(m) /\ CapKey(m) = key}
Tally(S, count) == UNION {{m} \X (1 .. count[m]) : m \in S}

\* There are finitely many of them, and more of them where the counts are higher.
LEMMA TallyGrows ==
    ASSUME NEW S \in SUBSET Models, NEW f \in [Models -> Nat], NEW g \in [Models -> Nat],
           NEW n \in Nat, \A m \in Models : f[m] <= g[m] /\ g[m] <= n
    PROVE  /\ IsFiniteSet(Tally(S, f)) /\ IsFiniteSet(Tally(S, g))
           /\ Cardinality(Tally(S, f)) <= Cardinality(Tally(S, g))
  <1>1. IsFiniteSet(Models \X (1 .. n))
    <2>1. IsFiniteSet(1 .. n)
      BY FS_Interval
    <2> QED BY <2>1, ModelsFinite, FS_Product
  <1>2. Tally(S, g) \in SUBSET (Models \X (1 .. n))
    BY DEF Tally
  <1>3. IsFiniteSet(Tally(S, g))
    BY <1>1, <1>2, FS_Subset
  <1>4. Tally(S, f) \in SUBSET Tally(S, g)
    <2> SUFFICES ASSUME NEW m \in S, NEW t \in {m} \X (1 .. f[m]) PROVE t \in {m} \X (1 .. g[m])
      BY DEF Tally
    <2> QED OBVIOUS
  <1> QED BY <1>3, <1>4, FS_Subset

\* No model has more calls in flight than there are callers.
LEMMA CountsBounded ==
    ASSUME LaneType, ModelsCounted
    PROVE  \A m \in Models : modelActive[m] <= Cardinality(Calls)
  BY CallsFinite, FS_Subset DEF ModelsCounted, OfModel, InFlight

\* The same after a step.
LEMMA CountsBoundedNext ==
    ASSUME ModelsCounted'
    PROVE  \A m \in Models : modelActive'[m] <= Cardinality(Calls)
  <1>1. \A m \in Models : OfModel(m)' \in SUBSET Calls
    BY DEF OfModel, InFlight
  <1> QED BY <1>1, CallsFinite, FS_Subset DEF ModelsCounted

\* A model that is at its cap stays there while no call of a model ends.
LEMMA StaysBlocked ==
    ASSUME LaneType, ModelsCounted, ModelsCounted', modelActive' \in [Models -> Nat], cfg' = cfg,
           \A m \in Models : modelActive[m] <= modelActive'[m],
           NEW m \in Models \cup {NoModel}, ModelBlocked(m)
    PROVE  ModelBlocked(m)'
  <1> DEFINE key == CapKey(m)
  <1>0. Cardinality(Calls) \in Nat
    BY CallsFinite, FS_CardinalityType
  <1>1. Capped(m) /\ Cardinality(Tally(Covered(key), modelActive)) >= cfg.caps[key]
    BY DEF ModelBlocked, Blocked, ModelInFlight, Tally, Covered
  <1>2. modelActive \in [Models -> Nat] /\ Covered(key) \in SUBSET Models
    BY DEF LaneType, Covered
  <1>3. /\ IsFiniteSet(Tally(Covered(key), modelActive))
        /\ IsFiniteSet(Tally(Covered(key), modelActive'))
        /\ Cardinality(Tally(Covered(key), modelActive)) <= Cardinality(Tally(Covered(key), modelActive'))
    BY <1>0, <1>2, CountsBoundedNext, TallyGrows
  <1>4. /\ Cardinality(Tally(Covered(key), modelActive)) \in Nat
        /\ Cardinality(Tally(Covered(key), modelActive')) \in Nat
    BY <1>3, FS_CardinalityType
  <1>5. cfg.caps[key] \in Int
    BY <1>1 DEF Capped, LaneType, ConfigType, IsConfig
  <1>6. Cardinality(Tally(Covered(key), modelActive')) >= cfg.caps[key]
    BY <1>1, <1>3, <1>4, <1>5
  <1>7. Capped(m)' /\ CapKey(m)' = key /\ Covered(key)' = Covered(key)
    BY <1>1 DEF Capped, CapKey, Covered
  <1>8. ModelInFlight(CapKey(m), modelActive)' = Cardinality(Tally(Covered(key), modelActive'))
    BY <1>7 DEF ModelInFlight, Tally, Covered
  <1> QED BY <1>6, <1>7, <1>8 DEF ModelBlocked, Blocked
-----------------------------------------------------------------------------
(* The invariant of the lane.                                              *)

\* With the lock free, a free slot means that every waiter's model is at its cap.
NoneCouldGo == mu = "free" /\ FreeSlot => \A c \in Waiting : ModelBlocked(info[c].model)

\* Only a background call waits beside the slot held idle for its run.
OwnSlotGoes ==
    \A c \in Waiting : HasOwner(c) /\ lease[info[c].owner] = "idle" => info[c].background

\* One acquire at a time runs the loop before it goes on, with the lock held,
\* and its run holds no reservation meanwhile.
EnteringAlone ==
    \A c \in Calls : at[c] = "entering" =>
      /\ mu = "dispatch" /\ (HasOwner(c) => lease[info[c].owner] # "idle")
      /\ \A d \in Calls : at[d] = "entering" => d = c

LaneInv == /\ SlotInv /\ QueueParts /\ ReservationsFit
           /\ NoneCouldGo /\ OwnSlotGoes /\ EnteringAlone

\* What the caps say of a model depends on the caps and the counts alone.
LEMMA SameBlocked ==
    ASSUME cfg' = cfg, modelActive' = modelActive
    PROVE  \A m : ModelBlocked(m)' <=> ModelBlocked(m)
  BY DEF ModelBlocked, Blocked, ModelInFlight, Capped, CapKey

\* A call more leaves no model with fewer calls.
LEMMA CountsGrow ==
    ASSUME LaneType, NEW c \in Calls, modelActive' = Counted(info[c].model, 1)
    PROVE  \A m \in Models : modelActive[m] <= modelActive'[m]
  <1>1. \A m \in Models : modelActive'[m] =
            IF m = info[c].model THEN AtLeast(modelActive[m] + 1, 0) ELSE modelActive[m]
    BY CountedType
  <1>2. modelActive \in [Models -> Nat]
    BY DEF LaneType
  <1> QED BY <1>1, <1>2 DEF AtLeast

\* The parts of the types that an action disturbs.
LEMMA TypeFrom ==
    ASSUME LaneType, info' = info, ConfigType', LeaseType', QueueType',
           active' \in Int, reserved' \in Int, bgCredit' \in 0 .. ShareUnit,
           modelActive' \in [Models -> Nat], fired' \subseteq Owners, inUse' \subseteq Nat,
           at' \in [Calls -> Phases], slot' \in [Calls -> Nat], onLease' \subseteq Calls,
           mu' \in {"free", "dispatch"}
    PROVE  LaneType'
  BY DEF LaneType

\* The numbers a lane counts with.
LEMMA LaneNumbers ==
    ASSUME LaneInv
    PROVE  /\ active \in Nat /\ reserved \in Nat /\ cfg.max \in Int /\ cfg.max >= 1
           /\ reserved = Cardinality(Idle)
           /\ LaneType /\ SlotsExclusive /\ ModelsCounted /\ OnLeaseOwned /\ SlotInv
           /\ QueueParts /\ ReservationsFit /\ NoneCouldGo /\ OwnSlotGoes /\ EnteringAlone
           /\ Queued = Waiting
  <1>1. LaneType /\ SlotsExclusive /\ ModelsCounted /\ OnLeaseOwned /\ SlotInv
        /\ QueueParts /\ ReservationsFit /\ NoneCouldGo /\ OwnSlotGoes /\ EnteringAlone
    BY DEF LaneInv, SlotInv
  <1>2. active \in Nat /\ reserved \in Nat /\ reserved = Cardinality(Idle)
    BY <1>1, InUseBounded DEF SlotsExclusive
  <1>3. cfg.max \in Int /\ cfg.max >= 1
    BY <1>1 DEF LaneType, ConfigType, IsConfig
  <1>4. Queued = Waiting
    BY <1>1, QueuedAreWaiting DEF QueueParts
  <1> QED BY <1>1, <1>2, <1>3, <1>4

\* acquire, back inside its hold.
LEMMA AcquireLeasedKeeps ==
    ASSUME LaneInv, NEW c \in Calls, AcquireLeased(c), info' = info
    PROVE  LaneInv'
  <1> DEFINE o == info[c].owner
  <1>0. LaneType /\ SlotInv
    BY LaneNumbers
  <1>a. o \in Owners /\ lease[o] = "idle" /\ HasOwner(c) /\ at[c] = "out" /\ mu = "free"
    BY <1>0, InfoFacts DEF AcquireLeased, OwnerIdle
  <1>1. /\ SlotsExclusive' /\ ModelsCounted' /\ OnLeaseOwned'
        /\ modelActive' \in [Models -> Nat]
    BY <1>0, LeasedKeepsSlots
  <1>2. /\ at' = [at EXCEPT ![c] = "in"] /\ lease' = [lease EXCEPT ![o] = "busy"]
        /\ leaseSlot' = leaseSlot /\ due' = due \ {o}
        /\ reserved' = reserved - 1 /\ active' = active + 1 /\ onLease' = onLease \cup {c}
        /\ modelActive' = Counted(info[c].model, 1)
        /\ UNCHANGED <<cfg, fired, inUse, buckets, ring, ownerQueued, bgCredit, mu>>
    BY DEF AcquireLeased, queueVars
  <1>3. LeaseType'
    <2>1. lease \in [Owners -> {"none", "busy", "idle"}] /\ leaseSlot \in [Owners -> Nat]
          /\ used \in [Owners -> 0 .. MaxUsed] /\ due \subseteq Idle
      BY <1>0 DEF LaneType, LeaseType
    <2>2. used' \in [Owners -> 0 .. MaxUsed]
      BY <1>a, <2>1, MaxUsedType DEF AcquireLeased
    <2> QED BY <1>2, <1>a, <2>1, <2>2 DEF LeaseType, Idle
  <1>4. LaneType'
    <2>1. slot' \in [Calls -> Nat]
      BY <1>0, <1>a DEF LaneType, LeaseType, AcquireLeased
    <2>2. active' \in Int /\ reserved' \in Int
      BY <1>2, LaneNumbers
    <2>3. at' \in [Calls -> Phases]
      BY <1>0, <1>2 DEF LaneType, Phases
    <2>4. /\ ConfigType' /\ QueueType' /\ bgCredit' \in 0 .. ShareUnit
          /\ fired' \subseteq Owners
          /\ inUse' \subseteq Nat /\ onLease' \subseteq Calls
          /\ mu' \in {"free", "dispatch"}
      BY <1>0, <1>2 DEF LaneType, ConfigType, QueueType
    <2> QED BY <1>0, <1>1, <1>3, <2>1, <2>2, <2>3, <2>4, TypeFrom
  <1>5. Waiting' = Waiting
    BY <1>0, <1>2, <1>a DEF Waiting, LaneType
  <1>6. QueueParts'
    BY <1>2, <1>5, LaneNumbers, QueueUntouched
  <1>7. ReservationsFit'
    BY <1>0, <1>2, LaneNumbers DEF ReservationsFit, Idle, LaneType, LeaseType
  <1>8. NoneCouldGo'
    <2> SUFFICES ASSUME FreeSlot', NEW d \in Waiting PROVE ModelBlocked(info[d].model)'
      BY <1>5 DEF NoneCouldGo
    <2>1. FreeSlot
      BY <1>2, LaneNumbers DEF FreeSlot
    <2>2. ModelBlocked(info[d].model) /\ info[d].model \in Models \cup {NoModel}
      BY <1>0, <1>a, <2>1, LaneNumbers, InfoFacts DEF NoneCouldGo, Waiting
    <2> QED BY <1>0, <1>1, <1>2, <2>2, LaneNumbers, CountsGrow, StaysBlocked
  <1>9. OwnSlotGoes'
    BY <1>0, <1>2, <1>5, LaneNumbers, InfoFacts DEF OwnSlotGoes, HasOwner, Waiting,
        LaneType, LeaseType
  <1>10. EnteringAlone'
    BY <1>0, <1>2, <1>a, LaneNumbers DEF EnteringAlone, LaneType
  <1> QED BY <1>1, <1>4, <1>6, <1>7, <1>8, <1>9, <1>10 DEF LaneInv, SlotInv

\* Reservations that go, with the lock free, in the caps they are judged by.
LEMMA DropKeeps ==
    ASSUME LaneInv, NEW D \in SUBSET Idle, DropIdle(D), mu = "free", mu' = "dispatch",
           info' = info, ConfigType', ReservationsFit', fired' \subseteq Owners,
           at' \in [Calls -> Phases], Waiting' = Waiting, InFlight' = InFlight,
           \A d \in Calls : at'[d] = "entering" =>
              /\ HasOwner(d) => lease'[info[d].owner] # "idle"
              /\ \A e \in Calls : at'[e] = "entering" => e = d,
           UNCHANGED <<active, modelActive, buckets, ring, ownerQueued, bgCredit, slot, onLease>>
    PROVE  LaneInv'
  <1>0. LaneType /\ SlotInv /\ SlotsExclusive
    BY LaneNumbers
  <1>1. SlotsExclusive' /\ ModelsCounted' /\ OnLeaseOwned'
    BY <1>0, DropKeepsSlots
  <1>2. LeaseType'
    <2>1. due \subseteq Idle
      BY <1>0 DEF LaneType, LeaseType
    <2> QED BY <1>0, <2>1, DropIdleEffect DEF LeaseType
  <1>3. LaneType'
    <2>0. reserved' \in Nat /\ inUse' = inUse \ {leaseSlot[o] : o \in D}
      BY <1>0, DropIdleEffect
    <2>a. inUse \subseteq Nat
      BY <1>0 DEF LaneType
    <2>b. reserved' \in Int
      BY <2>0
    <2>c. inUse' \subseteq Nat
      BY <2>0, <2>a, Zenon
    <2>1. reserved' \in Int /\ inUse' \subseteq Nat
      BY <2>b, <2>c
    <2>2. /\ QueueType' /\ bgCredit' \in 0 .. ShareUnit /\ active' \in Int
          /\ modelActive' \in [Models -> Nat]
          /\ slot' \in [Calls -> Nat] /\ onLease' \subseteq Calls
      BY <1>0 DEF LaneType, QueueType
    <2> QED BY <1>0, <1>2, <2>1, <2>2, TypeFrom
  <1>4. QueueParts'
    BY LaneNumbers, QueueUntouched
  <1>5. NoneCouldGo'
    BY DEF NoneCouldGo
  <1>6. OwnSlotGoes'
    <2>1. \A o \in Owners : lease'[o] = "idle" => lease[o] = "idle"
      BY <1>0, DropIdleEffect
    <2> QED BY <1>0, <2>1, LaneNumbers, InfoFacts DEF OwnSlotGoes, HasOwner, Waiting
  <1>7. EnteringAlone'
    BY DEF EnteringAlone, HasOwner
  <1> QED BY <1>1, <1>3, <1>4, <1>5, <1>6, <1>7 DEF LaneInv, SlotInv

\* Fewer reservations fit where more of them did.
LEMMA DropFits ==
    ASSUME LaneInv, NEW D \in SUBSET Idle, DropIdle(D), cfg' = cfg, active' = active
    PROVE  ReservationsFit'
  <1>0. /\ LaneType /\ SlotsExclusive /\ ReservationsFit /\ active \in Nat
        /\ reserved \in Nat
        /\ cfg.max \in Int
    BY LaneNumbers
  <1>1. /\ Idle' = Idle \ D /\ \A o \in Idle' : leaseSlot'[o] = leaseSlot[o]
        /\ reserved' = reserved - Cardinality(D) /\ reserved' \in Nat
    BY <1>0, DropIdleEffect DEF Idle
  <1>2. Cardinality(D) \in Nat
    <2>1. IsFiniteSet(Idle)
      BY <1>0, InUseBounded
    <2> QED BY <2>1, FS_Subset, FS_CardinalityType
  <1> QED BY <1>0, <1>1, <1>2 DEF ReservationsFit

\* acquire gives its own reservation up.
LEMMA AcquireYieldKeeps ==
    ASSUME LaneInv, NEW c \in Calls, AcquireYield(c), info' = info
    PROVE  LaneInv'
  <1> DEFINE D == {info[c].owner}
  <1>0. LaneType /\ SlotsExclusive /\ EnteringAlone
    BY LaneNumbers
  <1>1. /\ D \in SUBSET Idle /\ DropIdle(D) /\ mu = "free" /\ mu' = "dispatch"
        /\ at[c] = "out"
    BY <1>0, InfoFacts DEF AcquireYield, OwnerIdle, Idle
  <1>2. /\ at' = [at EXCEPT ![c] = "entering"]
        /\ UNCHANGED <<cfg, active, modelActive, fired, buckets, ring, ownerQueued, bgCredit,
                       slot, onLease>>
    BY DEF AcquireYield, queueVars
  <1>3. Waiting' = Waiting /\ InFlight' = InFlight /\ at' \in [Calls -> Phases]
    BY <1>0, <1>1, <1>2 DEF Waiting, InFlight, LaneType, Phases
  <1>4. ASSUME NEW d \in Calls, at'[d] = "entering"
        PROVE  /\ HasOwner(d) => lease'[info[d].owner] # "idle"
               /\ \A e \in Calls : at'[e] = "entering" => e = d
    <2>1. d = c /\ \A e \in Calls : at'[e] = "entering" => e = c
      BY <1>0, <1>1, <1>2, <1>4 DEF EnteringAlone, LaneType
    <2>2. lease'[info[c].owner] = "none"
      <3>1. info[c].owner \in Owners /\ info[c].owner \in D
        BY <1>1 DEF Idle
      <3> HIDE DEF D
      <3> QED BY <1>0, <1>1, <3>1, DropIdleEffect
    <2> QED BY <2>1, <2>2
  <1>5. ConfigType' /\ fired' \subseteq Owners
    BY <1>0, <1>2 DEF LaneType, ConfigType
  <1> HIDE DEF D
  <1>6. ReservationsFit'
    BY <1>1, <1>2, DropFits
  <1> QED BY <1>1, <1>2, <1>3, <1>4, <1>5, <1>6, DropKeeps

\* Done, YieldIdle, the expiry, Reconfigure and retire give reservations up.
LEMMA GiveUpKeeps ==
    ASSUME LaneInv, NEW D \in SUBSET Idle, GiveUp(D), mu = "free", info' = info,
           ConfigType', ReservationsFit', fired' \subseteq Owners
    PROVE  LaneInv'
  <1>0. LaneType /\ SlotsExclusive /\ EnteringAlone
    BY LaneNumbers
  <1>1. /\ DropIdle(D) /\ mu' = "dispatch"
        /\ UNCHANGED <<active, modelActive, buckets, ring, ownerQueued, bgCredit, at, slot, onLease>>
    BY DEF GiveUp, ThenDispatch, queueVars
  <1>2. Waiting' = Waiting /\ InFlight' = InFlight /\ at' \in [Calls -> Phases]
    BY <1>0, <1>1 DEF Waiting, InFlight, LaneType
  <1>3. \A d \in Calls : at'[d] # "entering"
    BY <1>0, <1>1 DEF EnteringAlone
  <1> QED BY <1>1, <1>2, <1>3, DropKeeps

\* The reservation of one owner goes.
LEMMA GiveUpOneKeeps ==
    ASSUME LaneInv, NEW o \in Owners, lease[o] = "idle", GiveUp({o}), mu = "free", info' = info,
           cfg' = cfg, fired' \subseteq Owners
    PROVE  LaneInv'
  <1> DEFINE D == {o}
  <1>0. LaneType
    BY LaneNumbers
  <1>1. D \in SUBSET Idle /\ GiveUp(D)
    BY DEF Idle
  <1>2. ConfigType'
    BY <1>0 DEF LaneType, ConfigType
  <1> HIDE DEF D
  <1>3. DropIdle(D) /\ active' = active
    BY <1>1 DEF GiveUp
  <1>4. ReservationsFit'
    BY <1>1, <1>3, DropFits
  <1> QED BY <1>1, <1>2, <1>4, GiveUpKeeps

\* Done.
LEMMA DoneKeeps ==
    ASSUME LaneInv, NEW o \in Owners, Done(o), info' = info
    PROVE  LaneInv'
  <1>0. LaneType /\ SlotInv /\ SlotsExclusive /\ EnteringAlone
    BY LaneNumbers
  <1>1. mu = "free" /\ cfg' = cfg /\ fired' = fired
    BY DEF Done
  <1>2. CASE lease[o] = "idle" /\ GiveUp({o})
    BY <1>0, <1>1, <1>2, GiveUpOneKeeps DEF LaneType
  <1>3. CASE /\ lease[o] = "busy" /\ EndLeases({o})
             /\ UNCHANGED <<active, reserved, modelActive, inUse, queueVars, bgCredit, at, slot,
                            onLease, mu>>
    <2>1. UNCHANGED <<active, reserved, modelActive, inUse, buckets, ring, ownerQueued, bgCredit,
                      at, slot, onLease, mu>>
      BY <1>3 DEF queueVars
    <2>2. /\ lease' \in [Owners -> {"none", "busy", "idle"}]
          /\ leaseSlot' \in [Owners -> Nat] /\ used' \in [Owners -> 0 .. MaxUsed]
          /\ due' \subseteq due /\ lease'[o] = "none"
          /\ \A q \in Owners : q # o => lease'[q] = lease[q] /\ leaseSlot'[q] = leaseSlot[q]
      BY <1>0, <1>3, EndLeasesEffect
    <2>3. Idle' = Idle /\ \A q \in Idle : leaseSlot'[q] = leaseSlot[q]
      BY <1>3, <2>2 DEF Idle
    <2>4. InFlight' = InFlight /\ Waiting' = Waiting
      BY <2>1 DEF InFlight, Waiting
    <2>5. SlotsExclusive' /\ ModelsCounted' /\ OnLeaseOwned'
      BY <1>0, <2>1, <2>3, <2>4, SlotsUntouched
    <2>6. LaneType'
      BY <1>0, <1>1, <2>1, <2>2, <2>3 DEF LaneType, LeaseType, QueueType, ConfigType
    <2>7. QueueParts'
      BY <2>1, <2>4, LaneNumbers, QueueUntouched
    <2>8. ReservationsFit' /\ NoneCouldGo'
      BY <1>1, <2>1, <2>3, <2>4, LaneNumbers, SameBlocked DEF ReservationsFit,
          NoneCouldGo, FreeSlot
    <2>9. OwnSlotGoes'
      <3>1. \A q \in Owners : lease'[q] = "idle" => lease[q] = "idle"
        BY <2>2
      <3> QED BY <1>0, <2>4, <3>1, LaneNumbers, InfoFacts DEF OwnSlotGoes, HasOwner, Waiting
    <2>10. EnteringAlone'
      BY <1>0, <1>1, <2>1 DEF EnteringAlone
    <2> QED BY <2>5, <2>6, <2>7, <2>8, <2>9, <2>10 DEF LaneInv, SlotInv
  <1> QED BY <1>2, <1>3 DEF Done

\* YieldIdle.
LEMMA YieldIdleKeeps ==
    ASSUME LaneInv, NEW o \in Owners, YieldIdle(o), info' = info
    PROVE  LaneInv'
  <1>1. LaneType
    BY LaneNumbers
  <1>2. /\ lease[o] = "idle" /\ GiveUp({o}) /\ mu = "free" /\ cfg' = cfg /\ fired' = fired
    BY DEF YieldIdle
  <1> QED BY <1>1, <1>2, GiveUpOneKeeps DEF LaneType

\* What a call that is neither waiting nor in flight needs to know of the waiters
\* when it finds a free slot: none of them could use it.
LEMMA AcquireFinds ==
    ASSUME LaneInv, NEW c \in Calls, AcquireSlot(c)
    PROVE  /\ at[c] \in {"out", "entering"} /\ c \notin InFlight /\ c \notin Waiting
           /\ mu' = "free" /\ UNCHANGED <<cfg, reserved, fired, bgCredit>>
           /\ FreeSlot => \A d \in Waiting : ModelBlocked(info[d].model)
           /\ \A d \in Calls : d # c => at[d] # "entering"
           /\ /\ OwnerIdle(c) /\ ~info[c].background
              => FreeSlot /\ ~ModelBlocked(info[c].model)
  <1>0. NoneCouldGo /\ EnteringAlone /\ LaneType /\ Queued = Waiting
    BY LaneNumbers
  <1>1. mu' = "free" /\ UNCHANGED <<cfg, reserved, fired, bgCredit>>
    BY DEF AcquireSlot
  <1>2. CASE /\ mu = "free" /\ at[c] = "out"
             /\ OwnerIdle(c) => info[c].noLease /\ ~ReservationGoes(c)
    <2>1. FreeSlot => \A d \in Waiting : ModelBlocked(info[d].model)
      BY <1>0, <1>2 DEF NoneCouldGo
    <2>2. \A d \in Calls : at[d] # "entering"
      BY <1>0, <1>2 DEF EnteringAlone
    <2>3. OwnerIdle(c) /\ ~info[c].background => FreeSlot /\ ~ModelBlocked(info[c].model)
      BY <1>2 DEF ReservationGoes
    <2> QED BY <1>1, <1>2, <2>1, <2>2, <2>3 DEF InFlight, Waiting
  <1>3. CASE mu = "dispatch" /\ at[c] = "entering" /\ LoopDone
    <2>1. FreeSlot => \A d \in Waiting : ModelBlocked(info[d].model)
      BY <1>0, <1>3 DEF LoopDone, EligibleQueued, Eligible
    <2>2. \A d \in Calls : d # c => at[d] # "entering"
      BY <1>0, <1>3 DEF EnteringAlone
    <2>3. ~OwnerIdle(c)
      BY <1>0, <1>3 DEF EnteringAlone, OwnerIdle
    <2> QED BY <1>1, <1>3, <2>1, <2>2, <2>3 DEF InFlight, Waiting
  <1> QED BY <1>2, <1>3 DEF AcquireSlot

\* A grant on a free slot, from the queue or past it.
LEMMA GrantKeeps ==
    ASSUME LaneInv, NEW c \in Calls, c \notin InFlight, Grant(c), NEW p \in {"granted", "in"},
           at' = [at EXCEPT ![c] = p], info' = info, FreeSlot,
           QueueParts', QueueType', Waiting' = Waiting \ {c},
           UNCHANGED <<cfg, reserved, fired>>, bgCredit' \in 0 .. ShareUnit,
           mu' \in {"free", "dispatch"},
           mu' = "free" => \A d \in Waiting : ModelBlocked(info[d].model),
           \A d \in Calls : d # c /\ at[d] = "entering" => mu' = "dispatch"
    PROVE  LaneInv'
  <1>0. LaneType /\ SlotInv /\ SlotsExclusive
    BY LaneNumbers
  <1>1. /\ SlotsExclusive' /\ ModelsCounted' /\ OnLeaseOwned'
        /\ modelActive' \in [Models -> Nat]
    BY <1>0, GrantKeepsSlots
  <1>2. /\ active' = active + 1 /\ modelActive' = Counted(info[c].model, 1)
        /\ LowestFree \in Nat /\ inUse' = inUse \cup {LowestFree}
        /\ slot' \in [Calls -> Nat]
        /\ lease' \in [Owners -> {"none", "busy", "idle"}]
        /\ leaseSlot' \in [Owners -> Nat] /\ used' \in [Owners -> 0 .. MaxUsed]
        /\ \A o \in Owners : lease'[o] = "idle" <=> lease[o] = "idle"
        /\ \A o \in Owners : lease[o] = "idle" => leaseSlot'[o] = leaseSlot[o]
        /\ due' \subseteq due
        /\ onLease' = onLease \/ onLease' = onLease \cup {c}
    BY <1>0, GrantEffect
  <1>3. Idle' = Idle
    BY <1>2 DEF Idle
  <1>4. LeaseType'
    <2>1. due \subseteq Idle
      BY <1>0 DEF LaneType, LeaseType
    <2> QED BY <1>2, <1>3, <2>1 DEF LeaseType
  <1>5. LaneType'
    <2>1. at' \in [Calls -> Phases]
      BY <1>0 DEF LaneType, Phases
    <2>2. active' \in Int /\ reserved' \in Int
      BY <1>2, LaneNumbers
    <2>3. inUse' \subseteq Nat /\ onLease' \subseteq Calls
      <3>1. inUse \subseteq Nat /\ onLease \subseteq Calls
        BY <1>0 DEF LaneType
      <3> QED BY <1>2, <3>1
    <2>4. ConfigType' /\ fired' \subseteq Owners
      BY <1>0 DEF LaneType, ConfigType
    <2> QED BY <1>0, <1>1, <1>2, <1>4, <2>1, <2>2, <2>3, <2>4, TypeFrom
  <1>6. ReservationsFit'
    <2>1. /\ active + 1 + reserved <= cfg.max /\ active \in Nat /\ reserved \in Nat
          /\ cfg.max \in Int
      BY LaneNumbers DEF FreeSlot
    <2>2. ReservationsFit
      BY LaneNumbers
    <2> QED BY <1>2, <1>3, <2>1, <2>2 DEF ReservationsFit, Idle
  <1>7. NoneCouldGo'
    <2> SUFFICES ASSUME mu' = "free", NEW d \in Waiting' PROVE ModelBlocked(info[d].model)'
      BY DEF NoneCouldGo
    <2>1. /\ d \in Calls /\ ModelBlocked(info[d].model)
          /\ info[d].model \in Models \cup {NoModel}
      BY <1>0, InfoFacts DEF Waiting
    <2> QED BY <1>0, <1>1, <1>2, <2>1, LaneNumbers, CountsGrow, StaysBlocked
  <1>8. OwnSlotGoes'
    BY <1>0, <1>2, LaneNumbers, InfoFacts DEF OwnSlotGoes, HasOwner, Waiting
  <1>9. EnteringAlone'
    <2>1. \A d \in Calls : at'[d] = "entering" => d # c /\ at[d] = "entering"
      BY <1>0 DEF LaneType
    <2>2. EnteringAlone
      BY LaneNumbers
    <2> QED BY <1>0, <1>2, <2>1, <2>2, InfoFacts DEF EnteringAlone, HasOwner
  <1> QED BY <1>1, <1>5, <1>6, <1>7, <1>8, <1>9 DEF LaneInv, SlotInv

\* acquire from the free-slot test on.
LEMMA AcquireSlotKeeps ==
    ASSUME LaneInv, NEW c \in Calls, AcquireSlot(c), info' = info
    PROVE  LaneInv'
  <1>0. LaneType /\ SlotInv /\ QueueParts /\ EnteringAlone /\ OwnSlotGoes /\ NoneCouldGo
        /\ ReservationsFit
    BY LaneNumbers
  <1>1. /\ at[c] \in {"out", "entering"} /\ c \notin InFlight /\ c \notin Waiting
        /\ mu' = "free" /\ UNCHANGED <<cfg, reserved, fired, bgCredit>>
        /\ FreeSlot => \A d \in Waiting : ModelBlocked(info[d].model)
        /\ \A d \in Calls : d # c => at[d] # "entering"
        /\ OwnerIdle(c) /\ ~info[c].background => FreeSlot /\ ~ModelBlocked(info[c].model)
    BY AcquireFinds
  <1>2. CASE /\ FreeSlot /\ ~ModelBlocked(info[c].model) /\ Grant(c)
             /\ at' = [at EXCEPT ![c] = "in"] /\ UNCHANGED queueVars
    <2>1. UNCHANGED <<buckets, ring, ownerQueued>>
      BY <1>2 DEF queueVars
    <2>2. Waiting' = Waiting /\ Waiting' = Waiting \ {c}
      BY <1>0, <1>1, <1>2 DEF Waiting, LaneType
    <2>3. QueueParts' /\ QueueType'
      BY <1>0, <2>1, <2>2, QueueUntouched DEF LaneType, QueueType
    <2>4. bgCredit' \in 0 .. ShareUnit
      BY <1>0, <1>1 DEF LaneType
    <2> QED BY <1>1, <1>2, <2>2, <2>3, <2>4, GrantKeeps
  <1>3. ASSUME UNCHANGED <<active, modelActive, leaseVars, inUse, slot, onLease>>,
               at' \in [Calls -> Phases], InFlight' = InFlight,
               \A d \in Calls : at'[d] # "entering",
               QueueParts', QueueType',
               Waiting' = Waiting \/ (Waiting' = Waiting \cup {c} /\ (~FreeSlot \/ ModelBlocked(info[c].model)))
        PROVE  LaneInv'
    <2>1. UNCHANGED <<active, modelActive, lease, leaseSlot, used, due, inUse, slot, onLease>>
      BY <1>3 DEF leaseVars
    <2>2. Idle' = Idle
      BY <2>1 DEF Idle
    <2>3. SlotsExclusive' /\ ModelsCounted' /\ OnLeaseOwned'
      BY <1>0, <1>1, <1>3, <2>1, <2>2, SlotsUntouched
    <2>4. LaneType'
      <3>1. ConfigType' /\ LeaseType'
        BY <1>0, <1>1, <2>1, <2>2 DEF LaneType, ConfigType, LeaseType
      <3>2. /\ active' \in Int /\ reserved' \in Int /\ bgCredit' \in 0 .. ShareUnit
            /\ modelActive' \in [Models -> Nat]
            /\ fired' \subseteq Owners /\ inUse' \subseteq Nat
            /\ slot' \in [Calls -> Nat] /\ onLease' \subseteq Calls
            /\ mu' \in {"free", "dispatch"}
        BY <1>0, <1>1, <2>1 DEF LaneType
      <3> QED BY <1>0, <1>3, <3>1, <3>2, TypeFrom
    <2>5. ReservationsFit'
      BY <1>0, <1>1, <2>1, <2>2 DEF ReservationsFit
    <2>6. NoneCouldGo'
      <3> SUFFICES ASSUME FreeSlot', NEW d \in Waiting' PROVE ModelBlocked(info[d].model)'
        BY DEF NoneCouldGo
      <3>1. FreeSlot
        BY <1>1, <2>1 DEF FreeSlot
      <3>2. ModelBlocked(info[d].model)
        BY <1>1, <1>3, <3>1
      <3> QED BY <1>1, <2>1, <3>2, SameBlocked
    <2>7. OwnSlotGoes'
      <3> SUFFICES ASSUME NEW d \in Waiting', HasOwner(d), lease[info[d].owner] = "idle"
                   PROVE  info[d].background
        BY <2>1 DEF OwnSlotGoes, HasOwner
      <3>1. CASE d \in Waiting
        BY <1>0, <3>1 DEF OwnSlotGoes
      <3>2. CASE d = c /\ (~FreeSlot \/ ModelBlocked(info[c].model))
        BY <1>1, <3>2 DEF OwnerIdle
      <3> QED BY <1>3, <3>1, <3>2
    <2>8. EnteringAlone'
      BY <1>3 DEF EnteringAlone
    <2> QED BY <1>3, <2>3, <2>4, <2>5, <2>6, <2>7, <2>8 DEF LaneInv, SlotInv
  <1>4. CASE /\ ~FreeSlot \/ ModelBlocked(info[c].model)
             /\ at' = [at EXCEPT ![c] = "out"]
             /\ UNCHANGED <<active, modelActive, leaseVars, inUse, queueVars, slot, onLease>>
    <2>1. /\ at' \in [Calls -> Phases] /\ InFlight' = InFlight /\ Waiting' = Waiting
          /\ \A d \in Calls : at'[d] # "entering"
      BY <1>0, <1>1, <1>4 DEF LaneType, Phases, InFlight, Waiting
    <2>2. QueueParts' /\ QueueType'
      BY <1>0, <1>4, <2>1, QueueUntouched DEF LaneType, QueueType, queueVars
    <2> QED BY <1>3, <1>4, <2>1, <2>2
  <1>5. CASE /\ ~FreeSlot \/ ModelBlocked(info[c].model)
             /\ Push(c) /\ at' = [at EXCEPT ![c] = "queued"]
             /\ UNCHANGED <<active, modelActive, leaseVars, inUse, slot, onLease>>
    <2>1. /\ at' \in [Calls -> Phases] /\ InFlight' = InFlight
          /\ \A d \in Calls : at'[d] # "entering"
      BY <1>0, <1>1, <1>5 DEF LaneType, Phases, InFlight
    <2>2. QueueParts' /\ QueueType' /\ Waiting' = Waiting \cup {c}
      BY <1>0, <1>1, <1>5, PushKeepsQueue
    <2> QED BY <1>3, <1>5, <2>1, <2>2
  <1> QED BY <1>2, <1>4, <1>5 DEF AcquireSlot

\* The class whose turn it is does not save up more than one grant.
LEMMA CreditBounded ==
    ASSUME LaneType, NEW w, NextWaiter(w)
    PROVE  bgCredit' \in 0 .. ShareUnit
  <1>1. /\ bgCredit \in 0 .. ShareUnit /\ cfg.share \in 0 .. ShareUnit
        /\ ShareUnit \in Nat
    BY ShareUnitType DEF LaneType, ConfigType
  <1> DEFINE both == EligibleIn("fg") /\ EligibleIn("bg")
             credit == IF both THEN bgCredit + cfg.share ELSE bgCredit
             bgTurn == both /\ cfg.share > 0 /\ credit >= ShareUnit
  <1>2. bgCredit' = IF bgTurn THEN credit - ShareUnit ELSE credit
    BY DEF NextWaiter
  <1> HIDE DEF NextWaiter
  <1>3. CASE both
    BY <1>1, <1>2, <1>3
  <1>4. CASE ~both
    BY <1>1, <1>2, <1>4
  <1> QED BY <1>3, <1>4

\* One grant of dispatch.
LEMMA DispatchOneKeeps ==
    ASSUME LaneInv, DispatchOne, info' = info
    PROVE  LaneInv'
  <1>0. LaneType /\ QueueParts /\ EnteringAlone /\ Queued = Waiting
    BY LaneNumbers
  <1>1. PICK w \in Queued : /\ NextWaiter(w) /\ TakeOut(w, TRUE) /\ Grant(w)
                            /\ at' = [at EXCEPT ![w] = "granted"]
    BY DEF DispatchOne
  <1>2. w \in Waiting /\ w \in Calls /\ w \notin InFlight
    BY <1>0 DEF Waiting, InFlight
  <1>3. mu' = "dispatch" /\ FreeSlot /\ UNCHANGED <<cfg, reserved, fired>>
    BY DEF DispatchOne
  <1>4. QueueParts' /\ QueueType' /\ Waiting' = Waiting \ {w}
    BY <1>0, <1>1, <1>2, TakeOutKeepsQueue
  <1>5. bgCredit' \in 0 .. ShareUnit
    BY <1>0, <1>1, CreditBounded
  <1> QED BY <1>1, <1>2, <1>3, <1>4, <1>5, GrantKeeps

\* A step that changes where calls are, and neither the slots nor the queue.
LEMMA MovesKeep ==
    ASSUME LaneInv, info' = info, at' \in [Calls -> Phases], InFlight' = InFlight,
           Waiting' \subseteq Waiting, QueueParts', QueueType',
           mu' \in {"free", "dispatch"}, fired' \subseteq Owners, due' \subseteq Idle,
           mu' = "free" /\ FreeSlot => \A d \in Waiting' : ModelBlocked(info[d].model),
           \A d \in Calls : at'[d] = "entering" => at[d] = "entering" /\ mu' = "dispatch",
           UNCHANGED <<cfg, active, reserved, modelActive, lease, leaseSlot, used, inUse,
                       bgCredit, slot, onLease>>
    PROVE  LaneInv'
  <1>0. LaneType /\ SlotInv /\ EnteringAlone /\ OwnSlotGoes /\ ReservationsFit
    BY LaneNumbers
  <1>1. Idle' = Idle
    BY DEF Idle
  <1>2. SlotsExclusive' /\ ModelsCounted' /\ OnLeaseOwned'
    BY <1>0, <1>1, SlotsUntouched
  <1>3. LaneType'
    <2>1. ConfigType' /\ LeaseType'
      BY <1>0, <1>1 DEF LaneType, ConfigType, LeaseType
    <2>2. /\ active' \in Int /\ reserved' \in Int /\ bgCredit' \in 0 .. ShareUnit
          /\ modelActive' \in [Models -> Nat] /\ inUse' \subseteq Nat
          /\ slot' \in [Calls -> Nat] /\ onLease' \subseteq Calls
      BY <1>0 DEF LaneType
    <2> QED BY <1>0, <2>1, <2>2, TypeFrom
  <1>4. ReservationsFit'
    BY <1>0, <1>1 DEF ReservationsFit
  <1>5. NoneCouldGo'
    BY SameBlocked DEF NoneCouldGo, FreeSlot
  <1>6. OwnSlotGoes'
    BY <1>0 DEF OwnSlotGoes, HasOwner
  <1>7. EnteringAlone'
    BY <1>0 DEF EnteringAlone, HasOwner
  <1> QED BY <1>2, <1>3, <1>4, <1>5, <1>6, <1>7 DEF LaneInv, SlotInv

\* The loop ends.
LEMMA DispatchEndKeeps ==
    ASSUME LaneInv, DispatchEnd, info' = info
    PROVE  LaneInv'
  <1>0. LaneType /\ QueueParts /\ EnteringAlone /\ Queued = Waiting
    BY LaneNumbers
  <1>1. /\ mu' = "free" /\ LoopDone /\ \A c \in Calls : at[c] # "entering"
        /\ UNCHANGED <<cfg, active, reserved, modelActive, lease, leaseSlot, used, due, fired, inUse,
                       buckets, ring, ownerQueued, bgCredit, at, slot, onLease>>
    BY DEF DispatchEnd, leaseVars, queueVars
  <1>2. Waiting' = Waiting /\ InFlight' = InFlight /\ at' \in [Calls -> Phases]
    BY <1>0, <1>1 DEF Waiting, InFlight, LaneType
  <1>3. QueueParts' /\ QueueType'
    BY <1>0, <1>1, <1>2, QueueUntouched DEF LaneType, QueueType
  <1>4. FreeSlot => \A d \in Waiting : ModelBlocked(info[d].model)
    BY <1>0, <1>1 DEF LoopDone, EligibleQueued, Eligible
  <1>5. due' \subseteq Idle /\ fired' \subseteq Owners
    BY <1>0, <1>1 DEF LaneType, LeaseType
  <1> QED BY <1>1, <1>2, <1>3, <1>4, <1>5, MovesKeep

\* A granted waiter wakes.
LEMMA WakeKeeps ==
    ASSUME LaneInv, NEW c \in Calls, Wake(c), info' = info
    PROVE  LaneInv'
  <1>0. LaneType /\ QueueParts /\ EnteringAlone /\ NoneCouldGo
    BY LaneNumbers
  <1>1. /\ at[c] = "granted" /\ at' = [at EXCEPT ![c] = "in"]
        /\ UNCHANGED <<cfg, active, reserved, modelActive, lease, leaseSlot, used, due, fired, inUse,
                       buckets, ring, ownerQueued, bgCredit, slot, onLease, mu>>
    BY DEF Wake, leaseVars, queueVars
  <1>2. Waiting' = Waiting /\ InFlight' = InFlight /\ at' \in [Calls -> Phases]
    BY <1>0, <1>1 DEF Waiting, InFlight, LaneType, Phases
  <1>3. QueueParts' /\ QueueType'
    BY <1>0, <1>1, <1>2, QueueUntouched DEF LaneType, QueueType
  <1>4. mu' = "free" /\ FreeSlot => \A d \in Waiting : ModelBlocked(info[d].model)
    BY <1>0, <1>1 DEF NoneCouldGo
  <1>5. due' \subseteq Idle /\ fired' \subseteq Owners /\ mu' \in {"free", "dispatch"}
    BY <1>0, <1>1 DEF LaneType, LeaseType
  <1>6. \A d \in Calls : at'[d] = "entering" => at[d] = "entering" /\ mu' = "dispatch"
    BY <1>0, <1>1 DEF EnteringAlone, LaneType
  <1> QED BY <1>1, <1>2, <1>3, <1>4, <1>5, <1>6, MovesKeep

\* A waiter withdraws.
LEMMA WithdrawKeeps ==
    ASSUME LaneInv, NEW c \in Calls, Withdraw(c), info' = info
    PROVE  LaneInv'
  <1>0. LaneType /\ QueueParts /\ EnteringAlone /\ NoneCouldGo
    BY LaneNumbers
  <1>1. /\ at[c] = "queued" /\ at' = [at EXCEPT ![c] = "out"] /\ TakeOut(c, FALSE)
        /\ mu = "free" /\ mu' = "free"
        /\ UNCHANGED <<cfg, active, reserved, modelActive, lease, leaseSlot, used, due, fired, inUse,
                       bgCredit, slot, onLease>>
    BY DEF Withdraw, leaseVars
  <1>2. InFlight' = InFlight /\ at' \in [Calls -> Phases] /\ c \in Waiting
    BY <1>0, <1>1 DEF Waiting, InFlight, LaneType, Phases
  <1>3. QueueParts' /\ QueueType' /\ Waiting' = Waiting \ {c}
    BY <1>0, <1>1, <1>2, TakeOutKeepsQueue
  <1>4. FreeSlot => \A d \in Waiting' : ModelBlocked(info[d].model)
    BY <1>0, <1>1, <1>3 DEF NoneCouldGo
  <1>5. due' \subseteq Idle /\ fired' \subseteq Owners
    BY <1>0, <1>1 DEF LaneType, LeaseType
  <1>6. \A d \in Calls : at'[d] # "entering"
    BY <1>0, <1>1 DEF EnteringAlone, LaneType
  <1> QED BY <1>1, <1>2, <1>3, <1>4, <1>5, <1>6, MovesKeep

\* A run none of whose calls is counted as waiting has none that waits.
LEMMA NoneWaitsFor ==
    ASSUME QueueParts, NEW o \in Owners, ownerQueued[o] = 0
    PROVE  \A d \in Waiting : info[d].owner # o
  <1>1. IsFiniteSet(WaitingFor(o)) /\ Cardinality(WaitingFor(o)) = 0
    BY CallsFinite, FS_Subset DEF QueueParts, OwnersCounted, WaitingFor, Waiting
  <1>2. WaitingFor(o) = {}
    BY <1>1, FS_EmptySet
  <1> QED BY <1>2 DEF WaitingFor

\* finish.
LEMMA FinishKeeps ==
    ASSUME LaneInv, NEW c \in InFlight, NEW abandoned \in BOOLEAN, Finish(c, abandoned),
           mu = "free", info' = info
    PROVE  LaneInv'
  <1>0. /\ LaneType /\ SlotInv /\ QueueParts /\ EnteringAlone /\ OwnSlotGoes
        /\ ReservationsFit
        /\ active \in Nat /\ reserved \in Nat /\ cfg.max \in Int
        /\ reserved = Cardinality(Idle)
    BY LaneNumbers
  <1>1. /\ SlotsExclusive' /\ ModelsCounted' /\ OnLeaseOwned'
        /\ modelActive' \in [Models -> Nat]
    BY <1>0, FinishKeepsSlots
  <1>2. /\ active' = active - 1
        /\ at' = [at EXCEPT ![c] = "out"] /\ slot' = [slot EXCEPT ![c] = 0]
        /\ onLease' = onLease \ {c} /\ mu' = "dispatch"
        /\ UNCHANGED <<cfg, fired, buckets, ring, ownerQueued, bgCredit>>
        /\ lease' \in [Owners -> {"none", "busy", "idle"}]
        /\ leaseSlot' \in [Owners -> Nat] /\ used' \in [Owners -> 0 .. MaxUsed]
        /\ Keeps(c) \/ Frees(c)
    BY <1>0, FinishEffect
  <1>3. c \in Calls /\ at[c] # "queued"
    BY DEF InFlight
  <1>4. Waiting' = Waiting /\ at' \in [Calls -> Phases]
    BY <1>0, <1>2, <1>3 DEF Waiting, LaneType, Phases
  <1>5. LeaseType'
    <2>1. due \subseteq Idle
      BY <1>0 DEF LaneType, LeaseType
    <2>2. ASSUME Keeps(c) PROVE due' \subseteq Idle'
      BY <1>0, <2>1, <2>2 DEF Keeps, Idle, LaneType, LeaseType
    <2>3. ASSUME Frees(c) PROVE due' \subseteq Idle'
      BY <2>1, <2>3 DEF Frees
    <2> QED BY <1>2, <2>2, <2>3 DEF LeaseType
  <1>6. LaneType'
    <2>1. inUse' \subseteq Nat /\ reserved' \in Int
      <3>1. inUse \subseteq Nat
        BY <1>0 DEF LaneType
      <3>2. ASSUME Keeps(c) PROVE inUse' \subseteq Nat /\ reserved' \in Int
        BY <1>0, <3>1, <3>2 DEF Keeps
      <3>3. ASSUME Frees(c) PROVE inUse' \subseteq Nat /\ reserved' \in Int
        <4>1. inUse' = inUse \ {slot[c]} /\ reserved' = reserved
          BY <3>3 DEF Frees
        <4>2. reserved \in Int
          BY <1>0
        <4> QED BY <3>1, <4>1, <4>2
      <3> QED BY <1>2, <3>2, <3>3
    <2>2. slot' \in [Calls -> Nat] /\ onLease' \subseteq Calls /\ active' \in Int
      BY <1>0, <1>2, <1>3 DEF LaneType
    <2>3. /\ ConfigType' /\ QueueType' /\ bgCredit' \in 0 .. ShareUnit
          /\ fired' \subseteq Owners
      BY <1>0, <1>2 DEF LaneType, ConfigType, QueueType
    <2> QED BY <1>0, <1>1, <1>2, <1>4, <1>5, <2>1, <2>2, <2>3, TypeFrom
  <1>7. QueueParts'
    BY <1>0, <1>2, <1>4, QueueUntouched
  <1>8. ReservationsFit'
    <2>1. ASSUME Keeps(c) PROVE ReservationsFit'
      <3> DEFINE o == info[c].owner
      <3>1. /\ Idle' = Idle \cup {o} /\ leaseSlot' = leaseSlot /\ leaseSlot[o] < cfg.max
            /\ reserved' = reserved + 1 /\ active - 1 + reserved < cfg.max
        BY <1>0, <2>1 DEF Keeps, Idle, LaneType, LeaseType
      <3>2. ASSUME NEW q \in Idle PROVE leaseSlot[q] < cfg.max
        <4>1. IsFiniteSet(Idle) /\ Idle # {}
          BY OwnersFinite, FS_Subset DEF Idle
        <4>2. reserved > 0
          BY <1>0, <4>1, FS_EmptySet
        <4> QED BY <1>0, <4>2 DEF ReservationsFit
      <3> QED BY <1>0, <1>2, <3>1, <3>2 DEF ReservationsFit
    <2>2. ASSUME Frees(c) PROVE ReservationsFit'
      BY <1>0, <1>2, <2>2 DEF Frees, ReservationsFit, Idle
    <2> QED BY <1>2, <2>1, <2>2
  <1>9. NoneCouldGo'
    BY <1>2 DEF NoneCouldGo
  <1>10. OwnSlotGoes'
    <2> SUFFICES ASSUME NEW d \in Waiting, HasOwner(d), lease'[info[d].owner] = "idle"
                 PROVE  info[d].background
      BY <1>4 DEF OwnSlotGoes, HasOwner
    <2>0. info[d].owner \in Owners
      BY <1>0, InfoFacts DEF Waiting
    <2>1. ASSUME Keeps(c) PROVE lease[info[d].owner] = "idle"
      <3>1. info[d].owner # info[c].owner
        BY <1>0, <2>1, NoneWaitsFor DEF Keeps
      <3> QED BY <1>0, <2>0, <2>1, <3>1 DEF Keeps, LaneType, LeaseType
    <2>2. ASSUME Frees(c) PROVE lease[info[d].owner] = "idle"
      BY <2>0, <2>2 DEF Frees
    <2> QED BY <1>0, <1>2, <2>1, <2>2 DEF OwnSlotGoes
  <1>11. EnteringAlone'
    BY <1>0, <1>2, <1>3 DEF EnteringAlone, LaneType
  <1> QED BY <1>1, <1>6, <1>7, <1>8, <1>9, <1>10, <1>11 DEF LaneInv, SlotInv

\* A call ends, is given back, or is abandoned as it is handed its slot.
LEMMA EndsKeep ==
    ASSUME LaneInv, NEW c \in Calls, Release(c) \/ GiveBack(c) \/ Abandon(c), info' = info
    PROVE  LaneInv'
  <1>1. c \in InFlight /\ mu = "free" /\ (Finish(c, TRUE) \/ Finish(c, FALSE))
    BY DEF Release, GiveBack, Abandon, InFlight
  <1> QED BY <1>1, FinishKeeps

\* A reservation's deadline passes.
LEMMA HoldRunsOutKeeps ==
    ASSUME LaneInv, NEW o \in Owners, HoldRunsOut(o), info' = info
    PROVE  LaneInv'
  <1>0. LaneType /\ QueueParts /\ EnteringAlone /\ NoneCouldGo
    BY LaneNumbers
  <1>1. /\ lease[o] = "idle" /\ due' = due \cup {o} /\ fired' = fired \cup {o}
        /\ UNCHANGED <<cfg, active, reserved, modelActive, lease, leaseSlot, used, inUse,
                       buckets, ring, ownerQueued, bgCredit, at, slot, onLease, mu>>
    BY DEF HoldRunsOut, queueVars
  <1>2. Waiting' = Waiting /\ InFlight' = InFlight /\ at' \in [Calls -> Phases]
    BY <1>0, <1>1 DEF Waiting, InFlight, LaneType
  <1>3. QueueParts' /\ QueueType'
    BY <1>0, <1>1, <1>2, QueueUntouched DEF LaneType, QueueType
  <1>4. mu' = "free" /\ FreeSlot => \A d \in Waiting : ModelBlocked(info[d].model)
    BY <1>0, <1>1 DEF NoneCouldGo
  <1>5. due' \subseteq Idle /\ fired' \subseteq Owners /\ mu' \in {"free", "dispatch"}
    BY <1>0, <1>1 DEF LaneType, LeaseType, Idle
  <1>6. \A d \in Calls : at'[d] = "entering" => at[d] = "entering" /\ mu' = "dispatch"
    BY <1>0, <1>1 DEF EnteringAlone
  <1> QED BY <1>1, <1>2, <1>3, <1>4, <1>5, <1>6, MovesKeep

\* The expiry timer runs.
LEMMA ExpireKeeps ==
    ASSUME LaneInv, NEW o \in Owners, Expire(o), info' = info
    PROVE  LaneInv'
  <1>0. LaneType /\ QueueParts /\ EnteringAlone /\ NoneCouldGo
    BY LaneNumbers
  <1>1. mu = "free" /\ cfg' = cfg /\ fired' = fired \ {o} /\ fired' \subseteq Owners
    BY <1>0 DEF Expire, LaneType
  <1>2. CASE Expired(o)
    <2>1. lease[o] = "idle" /\ GiveUp({o})
      BY <1>2 DEF Expire, Expired
    <2> QED BY <1>1, <2>1, GiveUpOneKeeps
  <1>3. CASE ~Expired(o)
    <2>1. UNCHANGED <<cfg, active, reserved, modelActive, lease, leaseSlot, used, due, inUse,
                      buckets, ring, ownerQueued, bgCredit, at, slot, onLease, mu>>
      BY <1>3 DEF Expire, leaseVars, queueVars
    <2>2. Waiting' = Waiting /\ InFlight' = InFlight /\ at' \in [Calls -> Phases]
      BY <1>0, <2>1 DEF Waiting, InFlight, LaneType
    <2>3. QueueParts' /\ QueueType'
      BY <1>0, <2>1, <2>2, QueueUntouched DEF LaneType, QueueType
    <2>4. mu' = "free" /\ FreeSlot => \A d \in Waiting : ModelBlocked(info[d].model)
      BY <1>0, <1>1 DEF NoneCouldGo
    <2>5. due' \subseteq Idle /\ mu' \in {"free", "dispatch"}
      BY <1>0, <2>1 DEF LaneType, LeaseType
    <2>6. \A d \in Calls : at'[d] # "entering"
      BY <1>0, <1>1, <2>1 DEF EnteringAlone
    <2> QED BY <1>1, <2>1, <2>2, <2>3, <2>4, <2>5, <2>6, MovesKeep
  <1> QED BY <1>2, <1>3

\* Reconfigure.
LEMMA ReconfigureKeeps ==
    ASSUME LaneInv, NEW raw \in LaneConfigs, Reconfigure(raw), info' = info
    PROVE  LaneInv'
  <1> DEFINE new == Normalized(raw)
             first == {o \in Idle : ~new.hold \/ leaseSlot[o] >= new.max}
             over == active + reserved - Cardinality(first) - new.max
  <1>0. /\ LaneType /\ SlotsExclusive /\ active \in Nat /\ reserved \in Nat
        /\ reserved = Cardinality(Idle)
    BY LaneNumbers
  <1>1. /\ IsConfig(new) /\ new.max >= 1 /\ new.share \in 0 .. ShareUnit
        /\ new.max \in Int
    BY LaneConfigsType, NormalizedType DEF IsConfig
  <1>2. mu = "free" /\ cfg' = new /\ fired' = fired
    BY DEF Reconfigure
  <1>3. PICK more \in SUBSET (Idle \ first) :
          /\ IF over <= 0 THEN more = {}
             ELSE Cardinality(more) = over \/ (more = Idle \ first /\ Cardinality(more) < over)
          /\ GiveUp(first \cup more)
    BY DEF Reconfigure
  <1> DEFINE D == first \cup more
  <1>4. D \in SUBSET Idle
    OBVIOUS
  <1>5. GiveUp(D) /\ DropIdle(D) /\ active' = active
    BY <1>3 DEF GiveUp
  <1>6. /\ IsFiniteSet(first) /\ IsFiniteSet(more) /\ IsFiniteSet(Idle)
        /\ Cardinality(first) \in Nat /\ Cardinality(more) \in Nat
    <2>1. IsFiniteSet(Idle)
      BY <1>0, InUseBounded
    <2>2. IsFiniteSet(first) /\ IsFiniteSet(more)
      BY <2>1, FS_Subset
    <2> QED BY <2>1, <2>2, FS_CardinalityType
  <1>7. first \cap more = {}
    OBVIOUS
  <1>8. \A o \in Idle \ D : leaseSlot[o] < new.max
    <2>1. \A o \in Idle : leaseSlot[o] \in Nat
      BY <1>0 DEF LaneType, LeaseType, Idle
    <2> QED BY <1>1, <2>1
  <1>9. more = Idle \ first => Idle \ D = {}
    OBVIOUS
  <1> HIDE DEF first
  <1>10. Cardinality(D) = Cardinality(first) + Cardinality(more)
    <2>1. Cardinality(first \cup more) = Cardinality(first) + Cardinality(more) - Cardinality({})
      BY <1>6, <1>7, FS_Union
    <2>2. Cardinality({}) = 0
      BY FS_EmptySet
    <2> QED BY <1>6, <2>1, <2>2
  <1> HIDE DEF D, new
  <1>11. /\ Idle' = Idle \ D /\ reserved' = reserved - Cardinality(D)
         /\ reserved' = Cardinality(Idle') /\ reserved' \in Nat
         /\ \A o \in Idle' : leaseSlot'[o] = leaseSlot[o]
    BY <1>0, <1>4, <1>5, DropIdleEffect DEF Idle
  <1>12. ReservationsFit'
    <2>1. CASE over <= 0
      <3>1. more = {} /\ Cardinality(more) = 0
        BY <1>3, <2>1, FS_EmptySet
      <3>2. active' + reserved' <= cfg'.max
        BY <1>0, <1>1, <1>2, <1>5, <1>6, <1>10, <1>11, <2>1, <3>1
      <3> QED BY <1>2, <1>8, <1>11, <3>2 DEF ReservationsFit
    <2>2. CASE ~(over <= 0) /\ Cardinality(more) = over
      <3>2. active' + reserved' <= cfg'.max
        BY <1>0, <1>1, <1>2, <1>5, <1>6, <1>10, <1>11, <2>2
      <3> QED BY <1>2, <1>8, <1>11, <3>2 DEF ReservationsFit
    <2>3. CASE more = Idle \ first
      <3>1. reserved' = 0
        BY <1>9, <1>11, <2>3, FS_EmptySet
      <3> QED BY <3>1 DEF ReservationsFit
    <2> QED BY <1>3, <2>1, <2>2, <2>3
  <1>13. ConfigType' /\ fired' \subseteq Owners
    BY <1>0, <1>1, <1>2 DEF ConfigType, LaneType
  <1> QED BY <1>2, <1>4, <1>5, <1>12, <1>13, GiveUpKeeps

\* retire.
LEMMA RetireKeeps ==
    ASSUME LaneInv, Retire, info' = info
    PROVE  LaneInv'
  <1> DEFINE D == Idle
  <1>0. LaneType /\ SlotsExclusive
    BY LaneNumbers
  <1>1. mu = "free" /\ fired' = fired /\ GiveUp(D) /\ DropIdle(D) /\ D \in SUBSET Idle
    BY DEF Retire, GiveUp
  <1>2. cfg' = [cfg EXCEPT !.hold = FALSE]
    BY DEF Retire
  <1>3. ConfigType'
    <2>1. /\ cfg = [max |-> cfg.max, quantum |-> cfg.quantum, hold |-> cfg.hold, share |-> cfg.share,
                    caps |-> cfg.caps]
          /\ IsConfig(cfg) /\ cfg.max >= 1 /\ cfg.share \in 0 .. ShareUnit
      BY <1>0 DEF LaneType, ConfigType, IsConfig
    <2>2. cfg' = [max |-> cfg.max, quantum |-> cfg.quantum, hold |-> FALSE, share |-> cfg.share,
                  caps |-> cfg.caps]
      BY <1>2, <2>1
    <2>3. /\ cfg'.max = cfg.max /\ cfg'.quantum = cfg.quantum /\ cfg'.hold = FALSE
          /\ cfg'.share = cfg.share /\ cfg'.caps = cfg.caps
          /\ cfg' = [max |-> cfg'.max, quantum |-> cfg'.quantum, hold |-> cfg'.hold,
                     share |-> cfg'.share, caps |-> cfg'.caps]
      BY <2>2
    <2> QED BY <2>1, <2>3 DEF ConfigType, IsConfig
  <1> HIDE DEF D
  <1>4. Idle' = Idle \ D /\ reserved' = Cardinality(Idle')
    BY <1>0, <1>1, DropIdleEffect
  <1>5. Idle' = {}
    BY <1>4 DEF D
  <1>6. ReservationsFit'
    BY <1>4, <1>5, FS_EmptySet DEF ReservationsFit
  <1>7. fired' \subseteq Owners
    BY <1>0, <1>1 DEF LaneType
  <1> QED BY <1>1, <1>3, <1>6, <1>7, GiveUpKeeps

\* A new lane.
LEMMA LaneStarts ==
    ASSUME LaneInit, info \in [Calls -> CallInfos]
    PROVE  LaneInv
  <1>1. ConfigType
    BY LaneConfigsType, NormalizedType DEF LaneInit, ConfigType
  <1>2. Idle = {} /\ InFlight = {} /\ Waiting = {}
    BY DEF LaneInit, Idle, InFlight, Waiting
  <1>3. LeaseType /\ QueueType
    BY MaxUsedType DEF LaneInit, LeaseType, QueueType
  <1>4. LaneType
    BY <1>1, <1>3, ShareUnitType DEF LaneType, LaneInit, Phases
  <1>5. Cardinality({}) = 0
    BY FS_EmptySet
  <1>6. SlotsExclusive /\ OnLeaseOwned
    BY <1>2, <1>5 DEF SlotsExclusive, OnLeaseOwned, LaneInit
  <1>7. ModelsCounted
    BY <1>2, <1>5 DEF ModelsCounted, OfModel, LaneInit
  <1>8. QueueParts
    <2>1. \A cl \in Classes, u \in Users : buckets[cl][u] = <<>>
      BY DEF LaneInit
    <2>2. \A cl \in Classes : ring[cl] = <<>>
      BY DEF LaneInit
    <2>3. IsInjective(<<>>) /\ ToSet(<<>>) = {}
      BY DEF IsInjective, ToSet
    <2>4. OwnersCounted
      BY <1>2, <1>5 DEF OwnersCounted, WaitingFor, LaneInit
    <2>5. BucketsHold /\ RingMatches
      BY <2>1, <2>2, <2>3 DEF BucketsHold, RingMatches
    <2> QED BY <1>2, <2>4, <2>5 DEF QueueParts, WaitersListed
  <1>9. ReservationsFit /\ NoneCouldGo /\ OwnSlotGoes /\ EnteringAlone
    BY <1>2 DEF ReservationsFit, NoneCouldGo, OwnSlotGoes, EnteringAlone, LaneInit
  <1> QED BY <1>4, <1>6, <1>7, <1>8, <1>9 DEF LaneInv, SlotInv

\* A caller that is out of the lane turns to another call.
LEMMA InfoKeeps ==
    ASSUME LaneInv, UNCHANGED laneVars, info' \in [Calls -> CallInfos],
           \A c \in Calls : at[c] # "out" => info'[c] = info[c]
    PROVE  LaneInv'
  <1>0. LaneType /\ SlotInv /\ QueueParts /\ EnteringAlone /\ NoneCouldGo /\ OwnSlotGoes
        /\ ReservationsFit
    BY LaneNumbers
  <1>1. UNCHANGED <<cfg, active, reserved, modelActive, lease, leaseSlot, used, due, fired, inUse,
                    buckets, ring, ownerQueued, bgCredit, at, slot, onLease, mu>>
    BY DEF laneVars, leaseVars, queueVars
  <1>2. Idle' = Idle /\ InFlight' = InFlight /\ Waiting' = Waiting
    BY <1>1 DEF Idle, InFlight, Waiting
  <1>3. \A c \in InFlight \cup Waiting : info'[c] = info[c]
    BY DEF InFlight, Waiting
  <1>4. SlotsExclusive' /\ ModelsCounted' /\ OnLeaseOwned'
    BY <1>0, <1>1, <1>2, <1>3, SlotsUntouched
  <1>5. QueueParts'
    BY <1>0, <1>1, <1>2, <1>3, QueueUntouched
  <1>6. LaneType'
    BY <1>0, <1>1, <1>2 DEF LaneType, ConfigType, LeaseType, QueueType
  <1>7. NoneCouldGo'
    BY <1>0, <1>1, <1>2, <1>3, SameBlocked DEF NoneCouldGo, FreeSlot
  <1>8. OwnSlotGoes' /\ ReservationsFit'
    BY <1>0, <1>1, <1>2, <1>3 DEF OwnSlotGoes, HasOwner, ReservationsFit
  <1>9. EnteringAlone'
    BY <1>0, <1>1 DEF EnteringAlone, HasOwner
  <1> QED BY <1>4, <1>5, <1>6, <1>7, <1>8, <1>9 DEF LaneInv, SlotInv

\* What the invariant says of the queues of the lane.
LEMMA LaneSafe ==
    ASSUME LaneInv
    PROVE  SlotsExclusive /\ ReservationsFit /\ NoWaiterBesideFreeSlot /\ NoSelfBlock
  <1>1. /\ NoneCouldGo /\ OwnSlotGoes /\ Queued = Waiting /\ SlotsExclusive
        /\ ReservationsFit
    BY LaneNumbers
  <1>2. NoWaiterBesideFreeSlot
    BY <1>1 DEF NoWaiterBesideFreeSlot, NoneCouldGo, EligibleQueued, Eligible
  <1> QED BY <1>1, <1>2 DEF NoSelfBlock, OwnSlotGoes
-----------------------------------------------------------------------------
(* What a grant respects.                                                  *)

OfModels(S) == {c \in InFlight : info[c].model \in S}

\* The sum of the counts of some models is the number of their calls in flight.
LEMMA TallyCounts ==
    ASSUME LaneType, ModelsCounted, NEW S \in SUBSET Models
    PROVE  /\ IsFiniteSet(OfModels(S)) /\ IsFiniteSet(Tally(S, modelActive))
           /\ Cardinality(Tally(S, modelActive)) = Cardinality(OfModels(S))
  <1> DEFINE T == Tally(S, modelActive)
             bij == [m \in Models |-> CHOOSE f : f \in Bijection(1 .. modelActive[m], OfModel(m))]
             F == [p \in T |-> bij[p[1]][p[2]]]
  <1>1. ASSUME NEW m \in Models
        PROVE  /\ bij[m] \in [1 .. modelActive[m] -> OfModel(m)]
               /\ \A i, j \in 1 .. modelActive[m] : bij[m][i] = bij[m][j] => i = j
               /\ \A c \in OfModel(m) : \E i \in 1 .. modelActive[m] : bij[m][i] = c
    <2>1. /\ IsFiniteSet(OfModel(m)) /\ modelActive[m] = Cardinality(OfModel(m))
          /\ modelActive[m] \in Nat
      BY CallsFinite, FS_Subset DEF OfModel, InFlight, ModelsCounted, LaneType
    <2>2. /\ IsFiniteSet(1 .. modelActive[m])
          /\ Cardinality(1 .. modelActive[m]) = modelActive[m]
      BY <2>1, FS_Interval
    <2>3. ExistsBijection(1 .. modelActive[m], OfModel(m))
      BY <2>1, <2>2, FS_SameCardinalityBij
    <2>4. bij[m] \in Bijection(1 .. modelActive[m], OfModel(m))
      BY <2>3 DEF ExistsBijection
    <2> DEFINE g == bij[m]
    <2> HIDE DEF g, bij
    <2>5. g \in Bijection(1 .. modelActive[m], OfModel(m))
      BY <2>4 DEF g
    <2>6. /\ g \in [1 .. modelActive[m] -> OfModel(m)]
          /\ \A i, j \in 1 .. modelActive[m] : g[i] = g[j] => i = j
      BY <2>5 DEF Bijection, Injection, IsInjective
    <2>7. \A c \in OfModel(m) : \E i \in 1 .. modelActive[m] : g[i] = c
      BY <2>5 DEF Bijection, Surjection
    <2> QED BY <2>6, <2>7 DEF g
  <1>2. \A p \in T : p[1] \in S /\ p[1] \in Models /\ p[2] \in 1 .. modelActive[p[1]]
                    /\ p = <<p[1], p[2]>>
    BY DEF Tally
  <1>3. \A m \in S : \A i \in 1 .. modelActive[m] : <<m, i>> \in T
    BY DEF Tally
  <1> HIDE DEF bij, T
  <1>a. ASSUME NEW p \in T PROVE bij[p[1]][p[2]] \in OfModel(p[1])
    <2> DEFINE m == p[1]
               g == bij[m]
    <2>1. m \in Models /\ p[2] \in 1 .. modelActive[m]
      BY <1>2
    <2>2. g \in [1 .. modelActive[m] -> OfModel(m)]
      BY <1>1, <2>1
    <2> HIDE DEF g
    <2>3. g[p[2]] \in OfModel(m)
      BY <2>1, <2>2
    <2> QED BY <2>3 DEF g
  <1>4. F \in [T -> OfModels(S)]
    <2>1. \A p \in T : bij[p[1]][p[2]] \in OfModels(S)
      BY <1>a, <1>2 DEF OfModels, OfModel
    <2> QED BY <2>1
  <1>5. ASSUME NEW p \in T, NEW q \in T, F[p] = F[q] PROVE p = q
    <2>1. F[p] = bij[p[1]][p[2]] /\ F[q] = bij[q[1]][q[2]]
      OBVIOUS
    <2>2. F[p] \in OfModel(p[1]) /\ F[q] \in OfModel(q[1])
      BY <1>a, <2>1
    <2>3. p[1] = q[1]
      BY <1>5, <2>2 DEF OfModel
    <2>4. p[2] = q[2]
      BY <1>1, <1>2, <1>5, <2>1, <2>3
    <2> QED BY <1>2, <2>3, <2>4
  <1>6. ASSUME NEW c \in OfModels(S) PROVE \E p \in T : F[p] = c
    <2> DEFINE m == info[c].model
    <2>1. m \in S /\ m \in Models /\ c \in OfModel(m)
      BY DEF OfModels, OfModel
    <2>2. PICK i \in 1 .. modelActive[m] : bij[m][i] = c
      BY <1>1, <2>1
    <2>3. <<m, i>> \in T /\ F[<<m, i>>] = c
      BY <1>3, <2>1, <2>2
    <2> QED BY <2>3
  <1> HIDE DEF F
  <1>7. F \in Bijection(T, OfModels(S))
    BY <1>4, <1>5, <1>6, Fun_IsBij
  <1>8. IsFiniteSet(T)
    <2>1. Cardinality(Calls) \in Nat
      BY CallsFinite, FS_CardinalityType
    <2>2. modelActive \in [Models -> Nat]
      BY DEF LaneType
    <2>3. \A m \in Models : modelActive[m] <= modelActive[m] /\ modelActive[m] <= Cardinality(Calls)
      BY <2>2, CountsBounded
    <2> QED BY <2>1, <2>2, <2>3, TallyGrows DEF T
  <1>9. ExistsBijection(T, OfModels(S))
    BY <1>7 DEF ExistsBijection
  <1> QED BY <1>8, <1>9, FS_Bijection DEF T

\* The calls in flight that a cap covers.
UnderCap(key) == {d \in InFlight : Capped(info[d].model) /\ CapKey(info[d].model) = key}

\* c goes in flight within the lane's cap and its model's, on a slot number the
\* lane has.
GrantFits(c) ==
    /\ active' + reserved' <= cfg.max /\ slot'[c] < cfg.max
    /\ Capped(info[c].model) =>
          LET key == CapKey(info[c].model)
          IN  Cardinality({d \in InFlight' : Capped(info[d].model) /\ CapKey(info[d].model) = key})
                <= cfg.caps[key]

\* A model that is not at its cap has room for one more call.
LEMMA RoomUnderCap ==
    ASSUME LaneInv, NEW c \in Calls, ~ModelBlocked(info[c].model), InFlight' = InFlight \cup {c},
           Capped(info[c].model), NEW key, key = CapKey(info[c].model)
    PROVE  Cardinality({d \in InFlight' : Capped(info[d].model) /\ CapKey(info[d].model) = key})
             <= cfg.caps[key]
  <1> DEFINE U == UnderCap(key)
             V == {d \in InFlight' : Capped(info[d].model) /\ CapKey(info[d].model) = key}
  <1>0. LaneType /\ ModelsCounted
    BY LaneNumbers
  <1>1. Covered(key) \in SUBSET Models /\ U = OfModels(Covered(key))
    <2>1. \A d \in InFlight : Capped(info[d].model) => info[d].model \in Models
      BY <1>0, InfoFacts DEF InFlight, Capped
    <2> QED BY <2>1 DEF Covered, UnderCap, OfModels
  <1>2. IsFiniteSet(U) /\ Cardinality(U) = ModelInFlight(key, modelActive)
    BY <1>0, <1>1, TallyCounts DEF ModelInFlight, Tally, Covered
  <1>3. Cardinality(U) \in Nat /\ cfg.caps[key] \in Int
    BY <1>0, <1>2, FS_CardinalityType DEF Capped, LaneType, ConfigType, IsConfig
  <1>4. Cardinality(U) < cfg.caps[key]
    BY <1>2, <1>3 DEF ModelBlocked, Blocked
  <1>5. V = U \cup {c}
    BY DEF UnderCap
  <1> HIDE DEF U, V
  <1>6. Cardinality(U \cup {c}) <= Cardinality(U) + 1
    <2>1. CASE c \in U
      <3>1. U \cup {c} = U
        BY <2>1
      <3>2. Cardinality(U \cup {c}) = Cardinality(U)
        BY <3>1, Zenon
      <3> QED BY <1>3, <3>2
    <2>2. CASE c \notin U
      <3>1. Cardinality(U \cup {c}) = Cardinality(U) + 1
        BY <1>2, <2>2, FS_AddElement
      <3> QED BY <1>3, <3>1
    <2> QED BY <2>1, <2>2
  <1>7. IsFiniteSet(U \cup {c}) /\ Cardinality(U \cup {c}) \in Nat
    BY <1>2, FS_AddElement, FS_CardinalityType
  <1>8. Cardinality(V) <= cfg.caps[key]
    BY <1>3, <1>4, <1>5, <1>6, <1>7
  <1> QED BY <1>8 DEF V

\* grant, on a free slot and within the model's cap.
LEMMA GrantsWithin ==
    ASSUME LaneInv, NEW c \in Calls, Grant(c), FreeSlot, ~ModelBlocked(info[c].model),
           reserved' = reserved, InFlight' = InFlight \cup {c}
    PROVE  GrantFits(c)
  <1>0. /\ LaneType /\ SlotsExclusive /\ active \in Nat /\ reserved \in Nat
        /\ cfg.max \in Int
    BY LaneNumbers
  <1>1. /\ active' = active + 1 /\ LowestFree \in Nat /\ LowestFree <= active + reserved
        /\ slot' = [slot EXCEPT ![c] = LowestFree]
    BY <1>0, GrantEffect
  <1>2. slot'[c] = LowestFree
    BY <1>0, <1>1 DEF LaneType
  <1>3. active' + reserved' <= cfg.max /\ slot'[c] < cfg.max
    BY <1>0, <1>1, <1>2 DEF FreeSlot
  <1> QED BY <1>3, RoomUnderCap DEF GrantFits

\* acquire past the queue.
LEMMA AcquireFits ==
    ASSUME LaneInv, NEW c \in Calls, AcquireLeased(c) \/ AcquireSlot(c) \/ AcquireYield(c),
           NEW d \in Calls, d \notin InFlight, d \in InFlight'
    PROVE  GrantFits(d)
  <1>0. /\ LaneType /\ active \in Nat /\ reserved \in Nat /\ cfg.max \in Int
        /\ ReservationsFit
        /\ reserved = Cardinality(Idle)
    BY LaneNumbers
  <1>1. ASSUME AcquireLeased(c) PROVE GrantFits(d)
    <2> DEFINE o == info[c].owner
    <2>1. /\ at' = [at EXCEPT ![c] = "in"] /\ o \in Idle /\ ~info[c].noLease
          /\ ~ReservationGoes(c)
          /\ slot' = [slot EXCEPT ![c] = leaseSlot[o]]
          /\ reserved' = reserved - 1 /\ active' = active + 1
      BY <1>0, <1>1, InfoFacts DEF AcquireLeased, OwnerIdle, Idle
    <2>2. InFlight' = InFlight \cup {c} /\ d = c
      BY <1>0, <2>1, InFlightMoved
    <2>3. ~ModelBlocked(info[c].model)
      BY <2>1 DEF ReservationGoes
    <2>4. reserved > 0
      <3>1. IsFiniteSet(Idle) /\ Idle # {}
        BY <2>1, OwnersFinite, FS_Subset DEF Idle
      <3> QED BY <1>0, <3>1, FS_EmptySet
    <2>5. slot'[c] = leaseSlot[o]
      BY <1>0, <2>1 DEF LaneType
    <2>6. active' + reserved' <= cfg.max /\ slot'[c] < cfg.max
      BY <1>0, <2>1, <2>4, <2>5 DEF ReservationsFit
    <2> QED BY <2>2, <2>3, <2>6, RoomUnderCap DEF GrantFits
  <1>2. ASSUME AcquireSlot(c) PROVE GrantFits(d)
    <2>1. c \notin InFlight
      BY <1>2, AcquireFinds
    <2>2. CASE /\ FreeSlot /\ ~ModelBlocked(info[c].model) /\ Grant(c)
               /\ at' = [at EXCEPT ![c] = "in"]
      <3>1. InFlight' = InFlight \cup {c} /\ d = c
        BY <1>0, <2>2, InFlightMoved
      <3>2. reserved' = reserved
        BY <1>2 DEF AcquireSlot
      <3> QED BY <2>2, <3>1, <3>2, GrantsWithin
    <2>3. CASE at' = [at EXCEPT ![c] = "out"] \/ at' = [at EXCEPT ![c] = "queued"]
      BY <1>0, <2>3 DEF InFlight, LaneType
    <2> QED BY <1>2, <2>2, <2>3 DEF AcquireSlot
  <1>3. ASSUME AcquireYield(c) PROVE GrantFits(d)
    BY <1>0, <1>3 DEF AcquireYield, InFlight, LaneType
  <1> QED BY <1>1, <1>2, <1>3

\* dispatch.
LEMMA DispatchFits ==
    ASSUME LaneInv, DispatchOne, NEW d \in Calls, d \notin InFlight, d \in InFlight'
    PROVE  GrantFits(d)
  <1>0. LaneType /\ Queued = Waiting
    BY LaneNumbers
  <1>1. PICK w \in Queued : /\ NextWaiter(w) /\ Grant(w) /\ at' = [at EXCEPT ![w] = "granted"]
    BY DEF DispatchOne
  <1>2. w \in Calls
    BY <1>0 DEF Waiting
  <1>3. InFlight' = InFlight \cup {w} /\ d = w
    BY <1>0, <1>1, <1>2, InFlightMoved
  <1>4. FreeSlot /\ reserved' = reserved
    BY DEF DispatchOne
  <1>5. Pops("fg", w) \/ Pops("bg", w)
    BY <1>1 DEF NextWaiter
  <1>6. ~ModelBlocked(info[w].model)
    BY <1>5 DEF Pops, Eligible
  <1> QED BY <1>1, <1>2, <1>3, <1>4, <1>6, GrantsWithin

\* No other step of the lane puts a call in flight.
LEMMA OthersGrantNone ==
    ASSUME LaneType, NEW c \in Calls, NEW p \in {"out", "in"}, at' = [at EXCEPT ![c] = p],
           p = "in" => at[c] = "granted"
    PROVE  InFlight' \subseteq InFlight
  BY DEF InFlight, LaneType
-----------------------------------------------------------------------------
(* The round robin.                                                        *)

\* One of the user's waiting calls in the class is handed a slot.
ServedIn(cl, u) ==
    \E w \in ToSet(buckets[cl][u]) : at[w] = "queued" /\ at'[w] = "granted"

\* In ring s, key k is listed at index i.
RingAt(s, k, i) == i \in DOMAIN s /\ s[i] = k

\* No bucket falls back in its ring, and none is overtaken, unless one of its own
\* calls is handed a slot.
RingKept ==
    \A cl \in Classes : \A u \in Users : \A i, j \in Nat :
       RingAt(ring[cl], u, i) /\ RingAt(ring'[cl], u, j) =>
         \/ ServedIn(cl, u)
         \/ /\ j <= i
            /\ \A v \in Users : \A k, n \in Nat :
                  RingAt(ring[cl], v, k) /\ RingAt(ring'[cl], v, n) /\ i < k => j < n

\* Two calls of one bucket keep their order.
BucketsKept ==
    \A cl \in Classes, u \in Users : \A a, b, i, j \in Nat : \A w, x \in Calls :
       /\ RingAt(buckets[cl][u], w, a) /\ RingAt(buckets'[cl][u], w, i)
       /\ RingAt(buckets[cl][u], x, b) /\ RingAt(buckets'[cl][u], x, j)
       /\ a < b
       => i < j

\* One list grows at its end: the indices stay.
LEMMA GrownInPlace ==
    ASSUME NEW S, NEW s \in Seq(S), IsInjective(s), NEW x \in S, x \notin ToSet(s),
           NEW k, NEW i \in Nat, NEW j \in Nat, RingAt(s, k, i), RingAt(Append(s, x), k, j)
    PROVE  i = j
  <1>1. /\ DOMAIN s = 1 .. Len(s) /\ Len(s) \in Nat /\ DOMAIN Append(s, x) = 1 .. Len(s) + 1
        /\ \A n \in 1 .. Len(s) : Append(s, x)[n] = s[n]
        /\ Append(s, x)[Len(s) + 1] = x
    OBVIOUS
  <1>2. k \in ToSet(s)
    BY DEF RingAt, ToSet
  <1>3. k # x
    BY <1>2
  <1>4. j \in 1 .. Len(s) /\ s[j] = k
    BY <1>1, <1>3 DEF RingAt
  <1> QED BY <1>1, <1>4 DEF RingAt, IsInjective

\* A member leaves a list: nobody falls back and the others keep their order.
LEMMA LeftInOrder ==
    ASSUME NEW S, NEW s \in Seq(S), IsInjective(s), NEW x
    PROVE  /\ \A k : \A i, j \in Nat :
                RingAt(s, k, i) /\ RingAt(RemoveFirst(s, x), k, j) => j <= i
           /\ \A k, m : \A a, b, i, j \in Nat :
                /\ RingAt(s, k, a) /\ RingAt(RemoveFirst(s, x), k, i)
                /\ RingAt(s, m, b) /\ RingAt(RemoveFirst(s, x), m, j) /\ a < b
                => i < j
  <1> DEFINE t == RemoveFirst(s, x)
  <1>1. ASSUME NEW k, NEW i \in Nat, NEW j \in Nat, RingAt(s, k, i), RingAt(t, k, j)
        PROVE  j <= i
    BY <1>1, FifoRemoveKeepsTurn DEF RingAt
  <1>2. ASSUME NEW k, NEW m, NEW a \in Nat, NEW b \in Nat, NEW i \in Nat, NEW j \in Nat,
               RingAt(s, k, a), RingAt(t, k, i), RingAt(s, m, b), RingAt(t, m, j), a < b
        PROVE  i < j
    <2>1. i \in DOMAIN t /\ j \in DOMAIN t /\ a \in DOMAIN s /\ b \in DOMAIN s
          /\ t[i] = s[a] /\ t[j] = s[b]
      BY <1>2 DEF RingAt
    <2>2. j < i => b < a
      BY <2>1, FifoRemoveOrder
    <2>3. i = j => s[a] = s[b]
      BY <2>1
    <2>4. i # j
      BY <1>2, <2>1, <2>3 DEF IsInjective
    <2> HIDE DEF t
    <2> QED BY <1>2, <2>2, <2>4
  <1> HIDE DEF t
  <1>3. /\ \A k : \A i, j \in Nat : RingAt(s, k, i) /\ RingAt(t, k, j) => j <= i
        /\ \A k, m : \A a, b, i, j \in Nat :
                /\ RingAt(s, k, a) /\ RingAt(t, k, i)
                /\ RingAt(s, m, b) /\ RingAt(t, m, j) /\ a < b
                => i < j
    BY <1>1, <1>2
  <1> QED BY <1>3 DEF t

\* A key goes to the back of a list: the others stay in order, ahead of it.
LEMMA SentToBack ==
    ASSUME NEW S, NEW s \in Seq(S), IsInjective(s), NEW x \in S
    PROVE  LET t == Append(RemoveFirst(s, x), x)
           IN  \A k : k # x => \A i, j \in Nat : RingAt(s, k, i) /\ RingAt(t, k, j) =>
                  /\ j <= i
                  /\ \A m : \A b, n \in Nat :
                        RingAt(s, m, b) /\ RingAt(t, m, n) /\ i < b => j < n
  <1> DEFINE r == RemoveFirst(s, x)
             t == Append(r, x)
  <1>1. r \in Seq(S) /\ ToSet(r) = ToSet(s) \ {x} /\ IsInjective(r)
    BY FifoRemove
  <1>2. /\ \A k : \A i, j \in Nat : RingAt(s, k, i) /\ RingAt(r, k, j) => j <= i
        /\ \A k, m : \A a, b, i, j \in Nat :
                /\ RingAt(s, k, a) /\ RingAt(r, k, i)
                /\ RingAt(s, m, b) /\ RingAt(r, m, j) /\ a < b
                => i < j
    BY LeftInOrder
  <1> HIDE DEF r
  <1>3. /\ Len(r) \in Nat /\ DOMAIN r = 1 .. Len(r) /\ DOMAIN t = 1 .. Len(r) + 1
        /\ \A n \in 1 .. Len(r) : t[n] = r[n]
        /\ t[Len(r) + 1] = x
    BY <1>1
  <1> HIDE DEF t
  <1>4. ASSUME NEW k, k # x, NEW j \in Nat, RingAt(t, k, j) PROVE RingAt(r, k, j)
    BY <1>3, <1>4 DEF RingAt
  <1>5. ASSUME NEW k, k # x, NEW i \in Nat, NEW j \in Nat, RingAt(s, k, i), RingAt(t, k, j),
               NEW m, NEW b \in Nat, NEW n \in Nat, RingAt(s, m, b), RingAt(t, m, n), i < b
        PROVE  j < n
    <2>1. RingAt(r, k, j)
      BY <1>4, <1>5
    <2>2. CASE m = x
      <3>1. j \in 1 .. Len(r)
        BY <1>3, <2>1 DEF RingAt
      <3>2. n = Len(r) + 1
        <4>1. ASSUME n \in 1 .. Len(r) PROVE FALSE
          <5>1. r[n] = x
            BY <1>3, <1>5, <2>2, <4>1 DEF RingAt
          <5>2. x \in ToSet(r)
            BY <1>3, <4>1, <5>1 DEF ToSet
          <5> QED BY <1>1, <5>2
        <4> QED BY <1>3, <1>5, <4>1 DEF RingAt
      <3> QED BY <1>3, <3>1, <3>2
    <2>3. CASE m # x
      <3>1. RingAt(r, m, n)
        BY <1>4, <1>5, <2>3
      <3> QED BY <1>2, <1>5, <2>1, <3>1
    <2> QED BY <2>2, <2>3
  <1>6. ASSUME NEW k, k # x, NEW i \in Nat, NEW j \in Nat, RingAt(s, k, i), RingAt(t, k, j)
        PROVE  j <= i
    BY <1>2, <1>4, <1>6
  <1>7. \A k : k # x => \A i, j \in Nat : RingAt(s, k, i) /\ RingAt(t, k, j) =>
           /\ j <= i
           /\ \A m : \A b, n \in Nat :
                 RingAt(s, m, b) /\ RingAt(t, m, n) /\ i < b => j < n
    BY <1>5, <1>6
  <1> QED BY <1>7 DEF t, r

\* In an injective list a member has one index.
LEMMA OneIndex ==
    ASSUME NEW S, NEW s \in Seq(S), IsInjective(s), NEW k, NEW i, NEW j,
           RingAt(s, k, i), RingAt(s, k, j)
    PROVE  i = j
  BY DEF RingAt, IsInjective

\* A step that leaves a class's ring as it is, or a bucket.
LEMMA SameInOrder ==
    ASSUME NEW S, NEW s \in Seq(S), IsInjective(s)
    PROVE  \A k : \A i, j \in Nat : RingAt(s, k, i) /\ RingAt(s, k, j) =>
              /\ j <= i
              /\ \A m : \A b, n \in Nat :
                    RingAt(s, m, b) /\ RingAt(s, m, n) /\ i < b => j < n
  <1>1. ASSUME NEW k, NEW i \in Nat, NEW j \in Nat, RingAt(s, k, i), RingAt(s, k, j)
        PROVE  i = j
    BY <1>1, OneIndex
  <1> QED BY <1>1

\* A queue that nobody enters or leaves.
LEMMA SameTurns ==
    ASSUME LaneType, QueueParts, UNCHANGED <<buckets, ring>>
    PROVE  RingKept /\ BucketsKept
  <1>1. ASSUME NEW cl \in Classes PROVE ring[cl] \in Seq(Users) /\ IsInjective(ring[cl])
    BY DEF LaneType, QueueType, QueueParts, RingMatches
  <1>2. ASSUME NEW cl \in Classes, NEW u \in Users
        PROVE  buckets[cl][u] \in Seq(Calls) /\ IsInjective(buckets[cl][u])
    BY DEF LaneType, QueueType, QueueParts, BucketsHold
  <1>3. RingKept
    BY <1>1, SameInOrder DEF RingKept
  <1>4. BucketsKept
    BY <1>2, SameInOrder DEF BucketsKept
  <1> QED BY <1>3, <1>4

\* push.
LEMMA PushTurns ==
    ASSUME LaneType, QueueParts, NEW c \in Calls, c \notin Waiting, Push(c)
    PROVE  RingKept /\ BucketsKept
  <1> DEFINE cl == Class(c)
             u == info[c].user
  <1>1. ASSUME NEW k \in Classes PROVE ring[k] \in Seq(Users) /\ IsInjective(ring[k])
    BY DEF LaneType, QueueType, QueueParts, RingMatches
  <1>2. ASSUME NEW k \in Classes, NEW v \in Users
        PROVE  buckets[k][v] \in Seq(Calls) /\ IsInjective(buckets[k][v])
    BY DEF LaneType, QueueType, QueueParts, BucketsHold
  <1>3. /\ cl \in Classes /\ u \in Users /\ c \notin ToSet(buckets[cl][u])
        /\ buckets \in [Classes -> [Users -> Seq(Calls)]] /\ ring \in [Classes -> Seq(Users)]
    BY InfoFacts DEF LaneType, QueueType, QueueParts, BucketsHold
  <1>4. /\ buckets'[cl][u] = Append(buckets[cl][u], c)
        /\ \A k \in Classes, v \in Users : k # cl \/ v # u => buckets'[k][v] = buckets[k][v]
    BY <1>3 DEF Push
  <1>5. /\ buckets[cl][u] = <<>> => ring'[cl] = Append(ring[cl], u)
        /\ buckets[cl][u] # <<>> => ring'[cl] = ring[cl]
        /\ \A k \in Classes : k # cl => ring'[k] = ring[k]
    BY <1>3 DEF Push
  <1>6. ASSUME NEW k \in Classes, NEW v \in Users, NEW i \in Nat, NEW j \in Nat,
               RingAt(ring[k], v, i), RingAt(ring'[k], v, j)
        PROVE  i = j
    <2>1. CASE ring'[k] = ring[k]
      BY <1>1, <1>6, <2>1, OneIndex
    <2>2. CASE k = cl /\ buckets[cl][u] = <<>>
      <3>1. u \notin ToSet(ring[k])
        BY <1>3, <2>2 DEF QueueParts, RingMatches
      <3>2. ring'[k] = Append(ring[k], u)
        BY <1>5, <2>2
      <3>3. RingAt(Append(ring[k], u), v, j)
        BY <1>6, <3>2
      <3> HIDE DEF u
      <3> QED BY <1>1, <1>3, <1>6, <3>1, <3>3, GrownInPlace
    <2> QED BY <1>5, <2>1, <2>2
  <1>7. ASSUME NEW k \in Classes, NEW v \in Users, NEW w \in Calls, NEW i \in Nat, NEW j \in Nat,
               RingAt(buckets[k][v], w, i), RingAt(buckets'[k][v], w, j)
        PROVE  i = j
    <2>1. CASE k = cl /\ v = u
      <3>1. RingAt(Append(buckets[k][v], c), w, j) /\ c \notin ToSet(buckets[k][v])
        BY <1>3, <1>4, <1>7, <2>1
      <3> QED BY <1>2, <1>7, <3>1, GrownInPlace
    <2>2. CASE k # cl \/ v # u
      <3>1. buckets'[k][v] = buckets[k][v]
        BY <1>4, <2>2
      <3> QED BY <1>2, <1>7, <3>1, OneIndex
    <2> QED BY <2>1, <2>2
  <1> HIDE DEF cl, u
  <1>8. RingKept
    BY <1>6 DEF RingKept
  <1>9. BucketsKept
    BY <1>7 DEF BucketsKept
  <1> QED BY <1>8, <1>9

\* pop and remove.
LEMMA TakeOutTurns ==
    ASSUME LaneType, QueueParts, NEW c \in Waiting, NEW served \in BOOLEAN, TakeOut(c, served),
           served => at'[c] = "granted"
    PROVE  RingKept /\ BucketsKept
  <1> DEFINE cl == Class(c)
             u == info[c].user
             rest == RemoveFirst(buckets[cl][u], c)
             less == RemoveFirst(ring[cl], u)
  <1>0. c \in Calls /\ at[c] = "queued"
    BY DEF Waiting
  <1>1. ASSUME NEW k \in Classes PROVE ring[k] \in Seq(Users) /\ IsInjective(ring[k])
    BY DEF LaneType, QueueType, QueueParts, RingMatches
  <1>2. ASSUME NEW k \in Classes, NEW v \in Users
        PROVE  buckets[k][v] \in Seq(Calls) /\ IsInjective(buckets[k][v])
    BY DEF LaneType, QueueType, QueueParts, BucketsHold
  <1>3. /\ cl \in Classes /\ u \in Users /\ c \in ToSet(buckets[cl][u])
        /\ buckets \in [Classes -> [Users -> Seq(Calls)]] /\ ring \in [Classes -> Seq(Users)]
    BY <1>0, InfoFacts DEF LaneType, QueueType, QueueParts, WaitersListed
  <1>4. /\ buckets'[cl][u] = rest
        /\ \A k \in Classes, v \in Users : k # cl \/ v # u => buckets'[k][v] = buckets[k][v]
    BY <1>3 DEF TakeOut
  <1>5. /\ \/ ring'[cl] = less
           \/ ring'[cl] = Append(less, u) /\ served
           \/ ring'[cl] = ring[cl]
        /\ \A k \in Classes : k # cl => ring'[k] = ring[k]
    BY <1>3 DEF TakeOut
  <1>6. served => ServedIn(cl, u)
    BY <1>0, <1>3 DEF ServedIn
  <1> DEFINE Stays(k, v) ==
        \A i, j \in Nat : RingAt(ring[k], v, i) /\ RingAt(ring'[k], v, j) =>
           /\ j <= i
           /\ \A m \in Users : \A b, n \in Nat :
                 RingAt(ring[k], m, b) /\ RingAt(ring'[k], m, n) /\ i < b => j < n
  <1> HIDE DEF cl, u
  <1>7. ASSUME NEW k \in Classes, NEW v \in Users PROVE ServedIn(k, v) \/ Stays(k, v)
    <2>1. CASE ring'[k] = ring[k]
      BY <1>1, <2>1, SameInOrder
    <2>2. CASE k = cl /\ ring'[k] = less
      <3>1. ring'[k] = RemoveFirst(ring[k], u)
        BY <2>2
      <3> QED BY <1>1, <3>1, LeftInOrder
    <2>3. CASE k = cl /\ ring'[k] = Append(less, u) /\ served
      <3>1. ring'[k] = Append(RemoveFirst(ring[k], u), u)
        BY <2>3
      <3>2. v = u => ServedIn(k, v)
        BY <1>6, <2>3
      <3>3. v # u => Stays(k, v)
        <4> DEFINE s == ring[k]
                   t == ring'[k]
                   back == Append(RemoveFirst(s, u), u)
        <4>1. s \in Seq(Users) /\ IsInjective(s) /\ u \in Users /\ t = back
          BY <1>1, <1>3, <3>1
        <4> HIDE DEF s, t
        <4>2. \A y : y # u => \A i, j \in Nat : RingAt(s, y, i) /\ RingAt(back, y, j) =>
                 /\ j <= i
                 /\ \A m : \A b, n \in Nat :
                       RingAt(s, m, b) /\ RingAt(back, m, n) /\ i < b => j < n
          BY <4>1, SentToBack
        <4> HIDE DEF back
        <4> QED BY <4>1, <4>2 DEF s, t
      <3> QED BY <3>2, <3>3
    <2> QED BY <1>5, <2>1, <2>2, <2>3
  <1>8. RingKept
    BY <1>7 DEF RingKept
  <1>9. BucketsKept
    <2> SUFFICES ASSUME NEW k \in Classes, NEW v \in Users
                 PROVE  \A a, b, i, j \in Nat : \A w, x \in Calls :
                          /\ RingAt(buckets[k][v], w, a) /\ RingAt(buckets'[k][v], w, i)
                          /\ RingAt(buckets[k][v], x, b) /\ RingAt(buckets'[k][v], x, j)
                          /\ a < b
                          => i < j
      BY DEF BucketsKept
    <2>1. CASE k = cl /\ v = u
      <3>1. buckets'[k][v] = RemoveFirst(buckets[k][v], c)
        BY <1>4, <2>1
      <3> QED BY <1>2, <3>1, LeftInOrder
    <2>2. CASE k # cl \/ v # u
      <3>1. buckets'[k][v] = buckets[k][v]
        BY <1>4, <2>2
      <3> QED BY <1>2, <3>1, SameInOrder
    <2> QED BY <2>1, <2>2
  <1> QED BY <1>8, <1>9
=============================================================================
