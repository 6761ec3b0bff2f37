------------------------ MODULE RunSemaphore_proofs ------------------------
(***************************************************************************)
(* Proofs about RunSemaphore for every set of callers, every set of users  *)
(* and every configuration.                                                *)
(***************************************************************************)
EXTENDS RunSemaphore, FifoLemmas, FiniteSetTheorems, TLAPS

\* Everything TypeOK says but that the counters are not negative, which takes
\* the accounting.
Types ==
    /\ maxConcurrent \in MaxConcurrents /\ maxQueue \in MaxQueues
    /\ maxPerUser \in MaxPerUsers /\ maxQueuedPerUser \in MaxQueuedPerUsers
    /\ active \in Int /\ queued \in Int /\ lent \in Int
    /\ perUser \in [Users -> Nat]
    /\ admitted \in Seq(Runs) /\ ring \in Seq(Keys)
    /\ buckets \in [Keys -> Seq(Runs)]
    /\ userWait \in [Users -> Seq(Runs)]
    /\ tokens \in SUBSET Runs
    /\ pc \in [Runs -> Phases]
    /\ op \in [Runs -> AllOps \cup {"none"}]
    /\ key \in [Runs -> Keys]
    /\ cap \in [Runs -> MaxPerUsers \cup {0}]
    /\ wakes \in SUBSET (Users \cup {Global})

\* What a caller's phase says of the call it made.
CallerInv ==
    \A r \in Runs :
        /\ pc[r] \in {"counted", "userWait"} => PerUserActive(r)
        /\ pc[r] \in {"counted", "userWait", "lent", "reclaiming", "ending"} => CanLend(r)
        /\ pc[r] = "idle" => op[r] = "none" /\ cap[r] = 0

\* What the building blocks of the actions do to the types.
LEMMA CallerTypes ==
    ASSUME Types, NEW r \in Runs
    PROVE  /\ \A p \in Phases : Goto(r, p) => pc' \in [Runs -> Phases]
           /\ Leave(r) => /\ pc' \in [Runs -> Phases]
                          /\ op' \in [Runs -> AllOps \cup {"none"}]
                          /\ key' \in [Runs -> Keys]
                          /\ cap' \in [Runs -> MaxPerUsers \cup {0}]
           /\ key[r] # NoUser => key[r] \in Users
<1>1. \A p \in Phases : Goto(r, p) => pc' \in [Runs -> Phases]
    BY DEF Types, Goto
<1>2. "idle" \in Phases /\ NoUser \in Keys
    BY DEF Phases, Keys
<1>3. Leave(r) => /\ pc' \in [Runs -> Phases]
                  /\ op' \in [Runs -> AllOps \cup {"none"}]
                  /\ key' \in [Runs -> Keys]
                  /\ cap' \in [Runs -> MaxPerUsers \cup {0}]
    BY <1>2 DEF Types, Leave
<1>4. key[r] # NoUser => key[r] \in Users
    BY DEF Types, Keys
<1> QED BY <1>1, <1>3, <1>4

\* Counting a user and giving its count back keep the counts natural numbers.
LEMMA UserTypes ==
    ASSUME Types, NEW r \in Runs
    PROVE  /\ CountUser(r) => perUser' \in [Users -> Nat]
           /\ \A loops \in SUBSET {Global} :
                 GiveBackUser(r, loops) => /\ perUser' \in [Users -> Nat]
                                          /\ wakes' \in SUBSET (Users \cup {Global})
           /\ \A u \in Users : Decremented(u) \in [Users -> Nat]
<1>1. key[r] # NoUser => key[r] \in Users
    BY CallerTypes
<1>2. CountUser(r) => perUser' \in [Users -> Nat]
    BY <1>1 DEF Types, CountUser, PerUserActive
<1>3. \A u \in Users : Decremented(u) \in [Users -> Nat]
    BY DEF Types, Decremented
<1>4. GivesBack(r) => key[r] \in Users
    BY <1>1 DEF GivesBack, PerUserActive
<1>5. ASSUME NEW loops \in SUBSET {Global}, GiveBackUser(r, loops)
      PROVE  perUser' \in [Users -> Nat] /\ wakes' \in SUBSET (Users \cup {Global})
    BY <1>3, <1>4, <1>5 DEF GiveBackUser, Types
<1> QED BY <1>2, <1>3, <1>5

\* Joining a bucket keeps the queues sequences of callers, the ring one of keys.
LEMMA PushTypes ==
    ASSUME Types, NEW r \in Runs, NEW k \in Keys, Push(k, r)
    PROVE  /\ admitted' \in Seq(Runs) /\ ring' \in Seq(Keys)
           /\ buckets' \in [Keys -> Seq(Runs)]
BY DEF Types, Push

\* ... and so does leaving the queues,
LEMMA RemoveTypes ==
    ASSUME Types, NoStrandedWaiter, NEW r \in Runs, RemoveWaiter(r)
    PROVE  /\ admitted' \in Seq(Runs) /\ ring' \in Seq(Keys)
           /\ buckets' \in [Keys -> Seq(Runs)]
<1>1. admitted' \in Seq(Runs)
    BY FifoRemove DEF Types, RemoveWaiter, NoStrandedWaiter
<1>2. \A k \in Keys : RemoveFirst(buckets[k], r) \in Seq(Runs)
    BY FifoRemove DEF Types, NoStrandedWaiter
<1>3. buckets' \in [Keys -> Seq(Runs)]
    BY <1>2 DEF RemoveWaiter
<1>4. \A k : RemoveFirst(ring, k) \in Seq(Keys)
    BY FifoRemove DEF Types, NoStrandedWaiter
<1>5. ring' \in Seq(Keys)
    BY <1>4 DEF Types, RemoveWaiter
<1> QED BY <1>1, <1>3, <1>5

\* ... and the three outcomes of admitGlobal.
LEMMA AdmitGlobalTypes ==
    ASSUME Types, NEW r \in Runs, NEW holds \in BOOLEAN, AdmitGlobal(r, holds)
    PROVE  Types'
<1> USE DEF caps, queues, req
<1>1. /\ "running" \in Phases /\ "waiting" \in Phases /\ key[r] \in Keys
      /\ tokens' \in SUBSET Runs /\ {} \in SUBSET {Global}
    BY DEF Phases, Types, AdmitGlobal
<1>2. CASE /\ active' = active + 1 /\ queued' \in {queued, queued - 1} /\ Goto(r, "running")
           /\ UNCHANGED <<perUser, queues, req, wakes>>
    BY <1>1, <1>2, CallerTypes DEF Types, AdmitGlobal
<1>3. CASE GiveBackUser(r, {}) /\ Leave(r) /\ UNCHANGED <<active, queued, queues>>
    BY <1>1, <1>3, CallerTypes, UserTypes DEF Types, AdmitGlobal
<1>4. CASE /\ Push(key[r], r) /\ queued' \in {queued, queued + 1} /\ Goto(r, "waiting")
           /\ UNCHANGED <<active, perUser, req, wakes>>
    <2>1. /\ admitted' \in Seq(Runs) /\ ring' \in Seq(Keys)
          /\ buckets' \in [Keys -> Seq(Runs)]
        BY <1>1, <1>4, PushTypes
    <2>2. pc' \in [Runs -> Phases]
        BY <1>1, <1>4, CallerTypes
    <2>3. UNCHANGED <<caps, lent, userWait>>
        BY DEF AdmitGlobal
    <2> QED BY <1>1, <1>4, <2>1, <2>2, <2>3 DEF Types
<1> QED BY <1>2, <1>3, <1>4 DEF AdmitGlobal

\* A step keeps the types.
LEMMA TypesStep ==
    ASSUME Types, CallerInv, NoStrandedWaiter, Next
    PROVE  Types'
<1> USE DEF caps, queues, req
<1>0. /\ {"idle", "capRead", "counted", "userWait", "waiting", "running", "lent",
         "reclaiming", "ending", "reserved"} = Phases
      /\ NoUser \in Keys /\ Users \subseteq Keys
      /\ {} \in SUBSET {Global} /\ {Global} \in SUBSET {Global}
    BY DEF Phases, Keys
<1>1. ASSUME NEW r \in Runs, NEW o \in SnapshotOps, NEW k \in Keys, ReadCap(r, o, k)
      PROVE Types'
    BY <1>1, OpsKnown DEF ReadCap, Called, Goto, SnapshotOps, AllOps, Phases, Types
<1>2. ASSUME NEW r \in Runs, NEW k \in Keys, AdmitSlot(r, k) PROVE Types'
    BY <1>2 DEF Types, AdmitSlot, Called, Goto, AllOps, Phases
<1>3. ASSUME NEW r \in Runs, TryAcquire(r) PROVE Types'
    BY <1>3 DEF Types, TryAcquire, TakeFreeSlot, Called, Goto, AllOps, Phases, Keys
<1>4. ASSUME NEW r \in Runs, Wait(r) PROVE Types'
    <2>1. /\ op' \in [Runs -> AllOps \cup {"none"}] /\ key' \in [Runs -> Keys]
          /\ cap' \in [Runs -> MaxPerUsers \cup {0}]
        BY <1>4, <1>0 DEF Types, Wait, Called, AllOps
    <2>2. CASE TakeFreeSlot(r) /\ UNCHANGED queued
        BY <1>0, <1>4, <2>1, <2>2, CallerTypes DEF Types, Wait, TakeFreeSlot
    <2>3. CASE QueueAdmitted(r) /\ Goto(r, "waiting") /\ UNCHANGED lent
        BY <1>0, <1>4, <2>1, <2>3, CallerTypes DEF Types, Wait, QueueAdmitted
    <2> QED BY <1>4, <2>2, <2>3 DEF Wait
<1>5. ASSUME NEW r \in Runs, AcquireForUser(r) PROVE Types'
    <2>1. key[r] \in Keys
        BY DEF Types
    <2>2. CASE Leave(r) /\ UNCHANGED <<caps, active, queued, lent, perUser, queues,
                                       userWait, tokens, wakes>>
        BY <2>2, CallerTypes DEF Types
    <2>3. CASE TakeFreeSlot(r) /\ CountUser(r) /\ UNCHANGED <<queued, req>>
        BY <1>0, <2>3, CallerTypes, UserTypes DEF TakeFreeSlot, Types
    <2>4. CASE /\ Push(key[r], r) /\ queued' = queued + 1 /\ CountUser(r)
               /\ Goto(r, "waiting")
               /\ UNCHANGED <<caps, active, lent, userWait, tokens, req, wakes>>
        <3>1. /\ admitted' \in Seq(Runs) /\ ring' \in Seq(Keys)
              /\ buckets' \in [Keys -> Seq(Runs)]
            BY <2>1, <2>4, PushTypes
        <3>2. perUser' \in [Users -> Nat] /\ pc' \in [Runs -> Phases]
            BY <1>0, <2>4, CallerTypes, UserTypes
        <3> QED BY <2>4, <3>1, <3>2 DEF Types
    <2> QED BY <1>5, <2>2, <2>3, <2>4 DEF AcquireForUser
<1>6. ASSUME NEW r \in Runs, ReserveUser(r) PROVE Types'
    BY <1>0, <1>6, CallerTypes, UserTypes DEF ReserveUser, Types
<1>7. ASSUME NEW r \in Runs, WaitForUser(r) PROVE Types'
    <2>1. perUser' \in [Users -> Nat]
        BY <1>7, UserTypes DEF WaitForUser
    <2>2. CASE TakeFreeSlot(r) /\ UNCHANGED queued
        BY <1>0, <1>7, <2>1, <2>2, CallerTypes DEF Types, WaitForUser, TakeFreeSlot
    <2>3. CASE QueueAdmitted(r) /\ Goto(r, "waiting") /\ UNCHANGED lent
        BY <1>0, <1>7, <2>1, <2>3, CallerTypes DEF Types, WaitForUser, QueueAdmitted
    <2> QED BY <1>7, <2>2, <2>3 DEF WaitForUser
<1>8. ASSUME NEW r \in Runs, AdmitUserLocal(r) PROVE Types'
    <2>1. key[r] \in Users /\ userWait[key[r]] \in Seq(Runs)
        BY <1>8, CallerTypes DEF AdmitUserLocal, PerUserActive, Types
    <2>2. CASE /\ CountUser(r) /\ Goto(r, "counted") /\ UNCHANGED <<queued, userWait, req>>
        BY <1>0, <1>8, <2>2, CallerTypes, UserTypes DEF AdmitUserLocal, Types
    <2>3. CASE Leave(r) /\ UNCHANGED <<perUser, queued, userWait>>
        BY <1>0, <1>8, <2>3, CallerTypes DEF AdmitUserLocal, Types
    <2>4. CASE /\ userWait' = [userWait EXCEPT ![key[r]] = Append(@, r)]
               /\ queued' = queued + 1
               /\ Goto(r, "userWait") /\ UNCHANGED <<perUser, req>>
        <3>1. userWait' \in [Users -> Seq(Runs)]
            BY <2>1, <2>4 DEF Types
        <3> QED BY <1>0, <1>8, <2>4, <3>1, CallerTypes DEF AdmitUserLocal, Types
    <2> QED BY <1>8, <2>2, <2>3, <2>4 DEF AdmitUserLocal
<1>9. ASSUME NEW r \in Runs, CancelUserWaiter(r) PROVE Types'
    <2>1. /\ key[r] \in Users /\ userWait[key[r]] \in Seq(Runs)
          /\ IsInjective(userWait[key[r]])
        BY <1>9, CallerTypes DEF CancelUserWaiter, CallerInv, PerUserActive, Types,
            NoStrandedWaiter
    <2>2. /\ RemoveFirst(userWait[key[r]], r) \in Seq(Runs)
          /\ Decremented(key[r]) \in [Users -> Nat]
        BY <2>1, FifoRemove, UserTypes
    <2>3. /\ userWait' \in [Users -> Seq(Runs)] /\ perUser' \in [Users -> Nat]
          /\ wakes' \in SUBSET (Users \cup {Global}) /\ tokens' \in SUBSET Runs
        BY <1>9, <2>1, <2>2 DEF CancelUserWaiter, Types
    <2> QED BY <1>9, <2>3, CallerTypes DEF CancelUserWaiter, Types
<1>10. ASSUME NEW r \in Runs, AdmitNew(r) \/ AdmitWaited(r) PROVE Types'
    BY <1>10, AdmitGlobalTypes DEF AdmitNew, AdmitWaited
<1>11. ASSUME NEW r \in Runs, ReceiveSlot(r) PROVE Types'
    BY <1>0, <1>11, CallerTypes DEF ReceiveSlot, Types
<1>12. ASSUME NEW r \in Runs, CancelWaiter(r) PROVE Types'
    <2>1. CASE /\ RemoveWaiter(r) /\ queued' = queued - 1
               /\ GiveBackUser(r, {}) /\ UNCHANGED <<active, tokens>>
        <3>1. /\ admitted' \in Seq(Runs) /\ ring' \in Seq(Keys)
              /\ buckets' \in [Keys -> Seq(Runs)]
            BY <2>1, RemoveTypes
        <3>2. perUser' \in [Users -> Nat] /\ wakes' \in SUBSET (Users \cup {Global})
            BY <1>0, <2>1, UserTypes
        <3>3. Leave(r) /\ UNCHANGED <<caps, lent, userWait>>
            BY <1>12 DEF CancelWaiter
        <3>4. /\ pc' \in [Runs -> Phases] /\ op' \in [Runs -> AllOps \cup {"none"}]
              /\ key' \in [Runs -> Keys] /\ cap' \in [Runs -> MaxPerUsers \cup {0}]
            BY <3>3, CallerTypes
        <3> QED BY <2>1, <3>1, <3>2, <3>3, <3>4 DEF Types
    <2>2. CASE /\ tokens' = tokens \ {r} /\ active' = active - 1
               /\ GiveBackUser(r, {Global}) /\ UNCHANGED <<queued, queues>>
        BY <1>0, <1>12, <2>2, CallerTypes, UserTypes DEF CancelWaiter, Types
    <2> QED BY <1>12, <2>1, <2>2 DEF CancelWaiter
<1>13. ASSUME NEW r \in Runs, EndRun(r) PROVE Types'
    BY <1>0, <1>13, CallerTypes, UserTypes DEF EndRun, Types
<1>14. ASSUME NEW r \in Runs, EndLent(r) PROVE Types'
    BY <1>0, <1>14, CallerTypes DEF EndLent, Types
<1>15. ASSUME NEW r \in Runs, EndRunLent(r) \/ ReleaseReserve(r) PROVE Types'
    BY <1>0, <1>15, CallerTypes, UserTypes DEF EndRunLent, ReleaseReserve, Types
<1>16. ASSUME NEW r \in Runs, Lend(r) PROVE Types'
    BY <1>0, <1>16, CallerTypes DEF Lend, Types
<1>17. ASSUME NEW r \in Runs, TryReclaim(r) PROVE Types'
    BY <1>0, <1>17, CallerTypes DEF TryReclaim, Types
<1>18. ASSUME NEW r \in Runs, Reclaim(r) PROVE Types'
    BY <1>0, <1>18, CallerTypes DEF Reclaim, QueueAdmitted, Types
<1>19. ASSUME NEW r \in Runs, ReclaimCancelled(r) PROVE Types'
    <2>1. /\ admitted' \in Seq(Runs) /\ ring' \in Seq(Keys)
          /\ buckets' \in [Keys -> Seq(Runs)]
        BY <1>19, RemoveTypes DEF ReclaimCancelled
    <2>2. pc' \in [Runs -> Phases]
        BY <1>0, <1>19, CallerTypes DEF ReclaimCancelled
    <2>3. /\ queued' = queued - 1 /\ lent' = lent + 1
          /\ UNCHANGED <<caps, active, perUser, userWait, tokens, req, wakes>>
        BY <1>19 DEF ReclaimCancelled
    <2> QED BY <2>1, <2>2, <2>3 DEF Types
<1>20. ASSUME WakeNext PROVE Types'
    <2>1. CASE admitted # <<>>
        <3>1. Head(admitted) \in Runs /\ Tail(admitted) \in Seq(Runs)
            BY <2>1, FifoTail DEF Types, NoStrandedWaiter
        <3>2. /\ tokens' = tokens \cup {Head(admitted)} /\ admitted' = Tail(admitted)
              /\ queued' = queued - 1 /\ active' = active + 1
              /\ UNCHANGED <<caps, lent, perUser, userWait, pc, req, wakes, buckets, ring>>
            BY <1>20, <2>1 DEF WakeNext
        <3> QED BY <3>1, <3>2 DEF Types
    <2>2. CASE admitted = <<>>
        <3> DEFINE k == Head(ring)
        <3>1. ring # <<>> /\ k \in Keys /\ Tail(ring) \in Seq(Keys) /\ k \in ToSet(ring)
            BY <1>20, <2>2, FifoTail DEF WakeNext, Types, NoStrandedWaiter
        <3>2. buckets[k] # <<>> /\ buckets[k] \in Seq(Runs) /\ IsInjective(buckets[k])
            BY <3>1 DEF Types, NoStrandedWaiter
        <3>3. Head(buckets[k]) \in Runs /\ Tail(buckets[k]) \in Seq(Runs)
            BY <3>2, FifoTail
        <3>4. Append(Tail(ring), k) \in Seq(Keys)
            BY <3>1
        <3>5. /\ tokens' = tokens \cup {Head(buckets[k])}
              /\ buckets' = [buckets EXCEPT ![k] = Tail(buckets[k])]
              /\ ring' \in {Tail(ring), Append(Tail(ring), k)}
              /\ queued' = queued - 1 /\ active' = active + 1
              /\ UNCHANGED <<caps, lent, perUser, userWait, pc, req, wakes, admitted>>
            BY <1>20, <2>2 DEF WakeNext
        <3> HIDE DEF k
        <3>6. buckets' \in [Keys -> Seq(Runs)]
            BY <3>3, <3>5 DEF Types
        <3>7. ring' \in Seq(Keys) /\ tokens' \in SUBSET Runs
            BY <3>1, <3>3, <3>4, <3>5 DEF Types
        <3> QED BY <3>5, <3>6, <3>7 DEF Types
    <2> QED BY <2>1, <2>2
<1>21. ASSUME WakeNextDone PROVE Types'
    BY <1>21 DEF WakeNextDone, Types
<1>22. ASSUME NEW u \in Users, WakeUser(u) PROVE Types'
    <2>1. Head(userWait[u]) \in Runs /\ Tail(userWait[u]) \in Seq(Runs)
        BY <1>22, FifoTail DEF WakeUser, Types, NoStrandedWaiter
    <2> QED BY <1>22, <2>1 DEF WakeUser, Types
<1>23. ASSUME NEW u \in Users, WakeUserDone(u) PROVE Types'
    BY <1>23 DEF WakeUserDone, Types
<1>24. ASSUME Reload PROVE Types'
    BY <1>24 DEF Reload, SetCaps, WithPerUserCap, WithQueuedPerUserCap, Types
<1> QED
    BY <1>1, <1>2, <1>3, <1>4, <1>5, <1>6, <1>7, <1>8, <1>9, <1>10, <1>11, <1>12,
       <1>13, <1>14, <1>15, <1>16, <1>17, <1>18, <1>19, <1>20, <1>21, <1>22, <1>23, <1>24
    DEF Next, Wake, Enter, Step, Cancel, End

\* A step keeps what the phases say of the calls.
LEMMA CallerInvStep ==
    ASSUME Types, CallerInv, Next
    PROVE  CallerInv'
<1> USE DEF Types, CallerInv, PerUserActive, CanLend, caps, queues, req
<1>1. ASSUME NEW r \in Runs, Enter(r) PROVE CallerInv'
    <2>1. ASSUME NEW o \in SnapshotOps, NEW k \in Keys, ReadCap(r, o, k) PROVE CallerInv'
        BY <2>1 DEF ReadCap, Called, Goto
    <2>2. ASSUME NEW k \in Keys, AdmitSlot(r, k) PROVE CallerInv'
        BY <2>2 DEF AdmitSlot, Called, Goto
    <2>3. CASE TryAcquire(r)
        BY <2>3 DEF TryAcquire, TakeFreeSlot, Called, Goto
    <2>4. CASE Wait(r)
        BY <2>4 DEF Wait, TakeFreeSlot, QueueAdmitted, Called, Goto
    <2> QED BY <1>1, <2>1, <2>2, <2>3, <2>4 DEF Enter
<1>2. ASSUME NEW r \in Runs, AcquireForUser(r) \/ ReserveUser(r) \/ WaitForUser(r)
      PROVE CallerInv'
    BY <1>2 DEF AcquireForUser, ReserveUser, WaitForUser, TakeFreeSlot, QueueAdmitted,
        Leave, Goto
<1>3. ASSUME NEW r \in Runs, AdmitUserLocal(r) PROVE CallerInv'
    BY <1>3 DEF AdmitUserLocal, Leave, Goto
<1>4. ASSUME NEW r \in Runs, AdmitNew(r) \/ AdmitWaited(r) PROVE CallerInv'
    BY <1>4 DEF AdmitNew, AdmitWaited, AdmitGlobal, Leave, Goto
<1>5. ASSUME NEW r \in Runs, ReceiveSlot(r) \/ Cancel(r) PROVE CallerInv'
    BY <1>5 DEF ReceiveSlot, Cancel, CancelUserWaiter, CancelWaiter, ReclaimCancelled,
        Leave, Goto
<1>6. ASSUME NEW r \in Runs, End(r) PROVE CallerInv'
    BY <1>6 DEF End, EndRun, EndLent, EndRunLent, ReleaseReserve, Leave, Goto
<1>7. ASSUME NEW r \in Runs, Lend(r) \/ TryReclaim(r) \/ Reclaim(r) PROVE CallerInv'
    BY <1>7 DEF Lend, TryReclaim, Reclaim, QueueAdmitted, Goto
<1>8. ASSUME Wake PROVE CallerInv'
    BY <1>8 DEF Wake, WakeNext, WakeNextDone, WakeUser, WakeUserDone
<1>9. ASSUME Reload PROVE CallerInv'
    BY <1>9 DEF Reload, SetCaps, WithPerUserCap, WithQueuedPerUserCap
<1> QED BY <1>1, <1>2, <1>3, <1>4, <1>5, <1>6, <1>7, <1>8, <1>9 DEF Next, Step

-----------------------------------------------------------------------------
\* semQueue.push adds the caller to its bucket, and the bucket to the ring once.
LEMMA PushMembers ==
    ASSUME Types, NoStrandedWaiter, NEW r \in Runs, NEW k \in Keys, Push(k, r),
           r \notin ToSet(buckets[k])
    PROVE  /\ UNCHANGED admitted
           /\ \A j \in Keys :
                 /\ IsInjective(buckets'[j])
                 /\ ToSet(buckets'[j]) = IF j = k THEN ToSet(buckets[j]) \cup {r}
                                                 ELSE ToSet(buckets[j])
           /\ IsInjective(ring')
           /\ ToSet(ring') = {j \in Keys : buckets'[j] # <<>>}
<1>1. /\ \A j \in Keys : buckets[j] \in Seq(Runs) /\ IsInjective(buckets[j])
      /\ ring \in Seq(Keys) /\ IsInjective(ring)
      /\ ToSet(ring) = {j \in Keys : buckets[j] # <<>>}
    BY DEF Types, NoStrandedWaiter
<1>2. /\ buckets'[k] = Append(buckets[k], r)
      /\ \A j \in Keys : j # k => buckets'[j] = buckets[j]
    BY DEF Push, Types
<1>3. /\ ToSet(buckets'[k]) = ToSet(buckets[k]) \cup {r}
      /\ IsInjective(buckets'[k]) /\ buckets'[k] # <<>>
    BY <1>1, <1>2, FifoAppend
<1>4. ASSUME buckets[k] = <<>>
      PROVE  IsInjective(ring') /\ ToSet(ring') = {j \in Keys : buckets'[j] # <<>>}
    <2>1. ring' = Append(ring, k) /\ k \notin ToSet(ring)
        BY <1>1, <1>4 DEF Push
    <2>2. ToSet(ring') = ToSet(ring) \cup {k} /\ IsInjective(ring')
        BY <1>1, <2>1, FifoAppend
    <2>3. ToSet(ring') = {j \in Keys : buckets'[j] # <<>>}
        BY <1>1, <1>2, <1>3, <2>2
    <2> QED BY <2>2, <2>3
<1>5. ASSUME buckets[k] # <<>>
      PROVE  IsInjective(ring') /\ ToSet(ring') = {j \in Keys : buckets'[j] # <<>>}
    <2>1. ring' = ring
        BY <1>5 DEF Push
    <2>2. ToSet(ring') = {j \in Keys : buckets'[j] # <<>>}
        BY <1>1, <1>2, <1>3, <1>5, <2>1
    <2> QED BY <1>1, <2>1, <2>2
<1>6. ASSUME NEW j \in Keys
      PROVE  /\ IsInjective(buckets'[j])
             /\ ToSet(buckets'[j]) = IF j = k THEN ToSet(buckets[j]) \cup {r}
                                             ELSE ToSet(buckets[j])
    <2>1. CASE j = k
        BY <1>3, <2>1
    <2>2. CASE j # k
        BY <1>1, <1>2, <2>2
    <2> QED BY <2>1, <2>2
<1>7. UNCHANGED admitted
    BY DEF Push
<1>8. IsInjective(ring') /\ ToSet(ring') = {j \in Keys : buckets'[j] # <<>>}
    BY <1>4, <1>5
<1> QED BY <1>6, <1>7, <1>8

\* removeWaiter takes the caller out of the queue it is in, and its bucket out of
\* the ring when it was the bucket's last.
LEMMA RemoveMembers ==
    ASSUME Types, NoStrandedWaiter, NEW r \in Runs, RemoveWaiter(r)
    PROVE  /\ IsInjective(admitted') /\ ToSet(admitted') = ToSet(admitted) \ {r}
           /\ \A j \in Keys :
                 /\ IsInjective(buckets'[j])
                 /\ ToSet(buckets'[j]) = ToSet(buckets[j]) \ {r}
           /\ IsInjective(ring')
           /\ ToSet(ring') = {j \in Keys : buckets'[j] # <<>>}
<1>1. /\ admitted \in Seq(Runs) /\ IsInjective(admitted)
      /\ \A j \in Keys : buckets[j] \in Seq(Runs) /\ IsInjective(buckets[j])
      /\ ring \in Seq(Keys) /\ IsInjective(ring)
      /\ ToSet(ring) = {j \in Keys : buckets[j] # <<>>}
    BY DEF Types, NoStrandedWaiter
<1>2. IsInjective(admitted') /\ ToSet(admitted') = ToSet(admitted) \ {r}
    BY <1>1, FifoRemove DEF RemoveWaiter
<1>3. \A j \in Keys : buckets'[j] = RemoveFirst(buckets[j], r)
    BY DEF RemoveWaiter
<1>4. ASSUME NEW j \in Keys
      PROVE  /\ buckets'[j] \in Seq(Runs) /\ IsInjective(buckets'[j])
             /\ ToSet(buckets'[j]) = ToSet(buckets[j]) \ {r}
    BY <1>1, <1>3, FifoRemove
<1>5. ASSUME NEW j \in Keys
      PROVE  buckets'[j] = <<>> <=> (buckets[j] = <<>> \/ buckets[j] = <<r>>)
    <2>1. buckets'[j] = <<>> <=> ToSet(buckets[j]) \ {r} = {}
        BY <1>4, FifoEmpty
    <2>2. buckets[j] = <<>> <=> ToSet(buckets[j]) = {}
        BY <1>1, FifoEmpty
    <2>3. buckets[j] = <<r>> <=> ToSet(buckets[j]) = {r}
        BY <1>1, FifoSingleton
    <2> QED BY <2>1, <2>2, <2>3
<1>6. CASE \E k \in Keys : buckets[k] = <<r>>
    <2> DEFINE k == CHOOSE k \in Keys : buckets[k] = <<r>>
    <2>1. k \in Keys /\ buckets[k] = <<r>>
        BY <1>6
    <2>2. ring' = RemoveFirst(ring, k)
        BY <1>6 DEF RemoveWaiter
    <2> HIDE DEF k
    <2>3. \A j \in Keys : buckets[j] = <<r>> => j = k
        <3>1. \A j \in Keys : buckets[j] = <<r>> => ToSet(buckets[j]) = {r}
            BY <1>1, FifoSingleton
        <3> QED BY <2>1, <3>1 DEF NoStrandedWaiter
    <2>4. IsInjective(ring') /\ ToSet(ring') = ToSet(ring) \ {k}
        BY <1>1, <2>2, FifoRemove
    <2>5. ToSet(ring') = {j \in Keys : buckets'[j] # <<>>}
        BY <1>1, <1>5, <2>1, <2>3, <2>4
    <2> QED BY <1>2, <1>4, <2>4, <2>5
<1>7. CASE ~ \E k \in Keys : buckets[k] = <<r>>
    <2>1. ring' = ring
        BY <1>7 DEF RemoveWaiter
    <2>2. ToSet(ring') = {j \in Keys : buckets'[j] # <<>>}
        BY <1>1, <1>5, <1>7, <2>1
    <2> QED BY <1>1, <1>2, <1>4, <2>1, <2>2
<1> QED BY <1>6, <1>7

\* The phases in which a caller is blocked on a channel.
Blocked == {"waiting", "reclaiming", "userWait"}

\* Every other caller is where it was, in the same call, and was given nothing.
OnlyMoves(r) ==
    /\ \A x \in Runs \ {r} : /\ pc'[x] = pc[x] /\ op'[x] = op[x]
                             /\ key'[x] = key[x] /\ cap'[x] = cap[x]
    /\ tokens' \ {r} = tokens \ {r}

\* The queue a caller belongs in.
InAdmitted(r) == SlotWaiter(r) /\ AlreadyAdmitted(r)
InBucket(r, k) == SlotWaiter(r) /\ ~AlreadyAdmitted(r) /\ key[r] = k
InUserWait(r, u) == pc[r] = "userWait" /\ r \notin tokens /\ key[r] = u

\* Two queues have the same members, r apart.
SameBut(S, T, r) == S \ {r} = T \ {r}

\* Every action of a caller moves that caller only.
LEMMA CallerMoves ==
    ASSUME Types, NEW r \in Runs,
           Enter(r) \/ Step(r) \/ Cancel(r) \/ End(r) \/ Lend(r) \/ TryReclaim(r) \/ Reclaim(r)
    PROVE  OnlyMoves(r)
<1> USE DEF Types, OnlyMoves, req, Goto, Called, Leave
<1>1. CASE Enter(r)
    <2>1. ASSUME NEW o \in SnapshotOps, NEW k \in Keys, ReadCap(r, o, k) PROVE OnlyMoves(r)
        BY <2>1 DEF ReadCap
    <2>2. ASSUME NEW k \in Keys, AdmitSlot(r, k) PROVE OnlyMoves(r)
        BY <2>2 DEF AdmitSlot
    <2>3. CASE TryAcquire(r)
        BY <2>3 DEF TryAcquire, TakeFreeSlot
    <2>4. CASE Wait(r)
        BY <2>4 DEF Wait, TakeFreeSlot, QueueAdmitted
    <2> QED BY <1>1, <2>1, <2>2, <2>3, <2>4 DEF Enter
<1>2. CASE AcquireForUser(r)
    BY <1>2 DEF AcquireForUser, TakeFreeSlot
<1>3. CASE ReserveUser(r) \/ WaitForUser(r)
    BY <1>3 DEF ReserveUser, WaitForUser, TakeFreeSlot, QueueAdmitted
<1>4. CASE AdmitUserLocal(r)
    BY <1>4 DEF AdmitUserLocal
<1>5. CASE AdmitNew(r) \/ AdmitWaited(r)
    BY <1>5 DEF AdmitNew, AdmitWaited, AdmitGlobal
<1>6. CASE ReceiveSlot(r)
    BY <1>6 DEF ReceiveSlot
<1>7. CASE Cancel(r)
    BY <1>7 DEF Cancel, CancelUserWaiter, CancelWaiter, ReclaimCancelled
<1>8. CASE End(r)
    BY <1>8 DEF End, EndRun, EndLent, EndRunLent, ReleaseReserve
<1>9. CASE Lend(r) \/ TryReclaim(r) \/ Reclaim(r)
    BY <1>9 DEF Lend, TryReclaim, Reclaim, QueueAdmitted
<1> QED BY <1>1, <1>2, <1>3, <1>4, <1>5, <1>6, <1>7, <1>8, <1>9 DEF Step

\* A step that moves one caller keeps the queues right if it does so for that
\* caller, and for the ring.
LEMMA MoveStep ==
    ASSUME NoStrandedWaiter, NEW r \in Runs, OnlyMoves(r),
           IsInjective(admitted'), SameBut(ToSet(admitted'), ToSet(admitted), r),
           r \in ToSet(admitted') <=> InAdmitted(r)',
           \A k \in Keys : /\ IsInjective(buckets'[k])
                           /\ SameBut(ToSet(buckets'[k]), ToSet(buckets[k]), r)
                           /\ r \in ToSet(buckets'[k]) <=> InBucket(r, k)',
           \A u \in Users : /\ IsInjective(userWait'[u])
                            /\ SameBut(ToSet(userWait'[u]), ToSet(userWait[u]), r)
                            /\ r \in ToSet(userWait'[u]) <=> InUserWait(r, u)',
           r \in tokens' => pc'[r] \in Blocked,
           IsInjective(ring'), ToSet(ring') = {k \in Keys : buckets'[k] # <<>>}
    PROVE  NoStrandedWaiter'
<1> USE DEF SameBut
<1>1. ASSUME NEW x \in Runs \ {r}
      PROVE  /\ InAdmitted(x)' <=> InAdmitted(x)
             /\ \A k \in Keys : InBucket(x, k)' <=> InBucket(x, k)
             /\ \A u \in Users : InUserWait(x, u)' <=> InUserWait(x, u)
             /\ x \in tokens' => pc'[x] \in Blocked
    BY DEF OnlyMoves, InAdmitted, InBucket, InUserWait, SlotWaiter, AlreadyAdmitted,
           NeverRefused, NoStrandedWaiter, Blocked
<1>2. /\ ToSet(admitted) = {x \in Runs : InAdmitted(x)}
      /\ \A k \in Keys : ToSet(buckets[k]) = {x \in Runs : InBucket(x, k)}
      /\ \A u \in Users : ToSet(userWait[u]) = {x \in Runs : InUserWait(x, u)}
    BY DEF NoStrandedWaiter, InAdmitted, InBucket, InUserWait
<1>3. ToSet(admitted') = {x \in Runs : InAdmitted(x)'}
    BY <1>1, <1>2
<1>4. \A k \in Keys : ToSet(buckets'[k]) = {x \in Runs : InBucket(x, k)'}
    BY <1>1, <1>2
<1>5. \A u \in Users : ToSet(userWait'[u]) = {x \in Runs : InUserWait(x, u)'}
    BY <1>1, <1>2
<1>6. tokens' \subseteq {x \in Runs : pc'[x] \in Blocked}
    BY <1>1 DEF NoStrandedWaiter, OnlyMoves
<1> QED
    BY <1>3, <1>4, <1>5, <1>6
    DEF NoStrandedWaiter, InAdmitted, InBucket, InUserWait, Blocked

\* A caller that is blocked on nothing is in no queue and has no token.
LEMMA NotQueued ==
    ASSUME NoStrandedWaiter, NEW r \in Runs, pc[r] \notin Blocked
    PROVE  /\ r \notin tokens /\ r \notin ToSet(admitted)
           /\ \A k \in Keys : r \notin ToSet(buckets[k])
           /\ \A u \in Users : r \notin ToSet(userWait[u])
BY DEF NoStrandedWaiter, Blocked, SlotWaiter

\* A caller that has its token is in no queue.
LEMMA TokenNotQueued ==
    ASSUME NoStrandedWaiter, NEW r \in Runs, r \in tokens
    PROVE  /\ r \notin ToSet(admitted)
           /\ \A k \in Keys : r \notin ToSet(buckets[k])
           /\ \A u \in Users : r \notin ToSet(userWait[u])
BY DEF NoStrandedWaiter, SlotWaiter

\* A caller that is in no queue, before and after, leaves the queues right: it
\* was never blocked, or it had its token.
LEMMA QuietStep ==
    ASSUME NoStrandedWaiter, NEW r \in Runs, OnlyMoves(r),
           UNCHANGED <<queues, userWait>>, tokens' = tokens \ {r},
           pc[r] \notin Blocked \/ r \in tokens, pc'[r] \notin Blocked
    PROVE  NoStrandedWaiter'
<1>1. /\ r \notin ToSet(admitted)
      /\ \A k \in Keys : r \notin ToSet(buckets[k])
      /\ \A u \in Users : r \notin ToSet(userWait[u])
    BY NotQueued, TokenNotQueued
<1>2. /\ ~InAdmitted(r)'
      /\ \A k \in Keys : ~InBucket(r, k)'
      /\ \A u \in Users : ~InUserWait(r, u)'
    BY DEF InAdmitted, InBucket, InUserWait, SlotWaiter, Blocked
<1>3. /\ IsInjective(admitted) /\ IsInjective(ring)
      /\ \A k \in Keys : IsInjective(buckets[k])
      /\ \A u \in Users : IsInjective(userWait[u])
      /\ ToSet(ring) = {k \in Keys : buckets[k] # <<>>}
    BY DEF NoStrandedWaiter
<1> QED BY <1>1, <1>2, <1>3, MoveStep DEF SameBut, queues

\* Joining the FIFO of the already-admitted work.
LEMMA JoinAdmitted ==
    ASSUME Types, NoStrandedWaiter, NEW r \in Runs, OnlyMoves(r), pc[r] \notin Blocked,
           admitted' = Append(admitted, r), UNCHANGED <<buckets, ring, userWait, tokens>>,
           pc'[r] \in {"waiting", "reclaiming"}, AlreadyAdmitted(r)'
    PROVE  NoStrandedWaiter'
<1>1. /\ r \notin tokens /\ r \notin ToSet(admitted)
      /\ \A k \in Keys : r \notin ToSet(buckets[k])
      /\ \A u \in Users : r \notin ToSet(userWait[u])
    BY NotQueued
<1>2. /\ InAdmitted(r)'
      /\ \A k \in Keys : ~InBucket(r, k)'
      /\ \A u \in Users : ~InUserWait(r, u)'
    BY <1>1 DEF InAdmitted, InBucket, InUserWait, SlotWaiter
<1>3. /\ admitted \in Seq(Runs) /\ IsInjective(admitted) /\ IsInjective(ring)
      /\ \A k \in Keys : IsInjective(buckets[k])
      /\ \A u \in Users : IsInjective(userWait[u])
      /\ ToSet(ring) = {k \in Keys : buckets[k] # <<>>}
    BY DEF NoStrandedWaiter, Types
<1>4. IsInjective(admitted') /\ ToSet(admitted') = ToSet(admitted) \cup {r}
    BY <1>1, <1>3, FifoAppend
<1> QED BY <1>1, <1>2, <1>3, <1>4, MoveStep DEF SameBut

\* Joining a bucket, from no queue or from a user's wait that is over.
LEMMA JoinBucket ==
    ASSUME Types, NoStrandedWaiter, NEW r \in Runs, OnlyMoves(r),
           pc[r] \notin Blocked \/ r \in tokens,
           Push(key[r], r), UNCHANGED userWait, tokens' = tokens \ {r},
           pc'[r] = "waiting", key'[r] = key[r], ~AlreadyAdmitted(r)'
    PROVE  NoStrandedWaiter'
<1>1. /\ r \notin ToSet(admitted) /\ key[r] \in Keys
      /\ \A k \in Keys : r \notin ToSet(buckets[k])
      /\ \A u \in Users : r \notin ToSet(userWait[u])
    BY NotQueued, TokenNotQueued DEF Types
<1>2. /\ ~InAdmitted(r)'
      /\ \A k \in Keys : InBucket(r, k)' <=> k = key[r]
      /\ \A u \in Users : ~InUserWait(r, u)'
    BY <1>1 DEF InAdmitted, InBucket, InUserWait, SlotWaiter
<1>3. /\ IsInjective(admitted)
      /\ \A u \in Users : IsInjective(userWait[u])
    BY DEF NoStrandedWaiter
<1>4. /\ admitted' = admitted
      /\ \A j \in Keys :
                 /\ IsInjective(buckets'[j])
                 /\ ToSet(buckets'[j]) = IF j = key[r] THEN ToSet(buckets[j]) \cup {r}
                                                      ELSE ToSet(buckets[j])
      /\ IsInjective(ring')
      /\ ToSet(ring') = {j \in Keys : buckets'[j] # <<>>}
    BY <1>1, PushMembers
<1>5. \A k \in Keys : /\ SameBut(ToSet(buckets'[k]), ToSet(buckets[k]), r)
                      /\ r \in ToSet(buckets'[k]) <=> InBucket(r, k)'
    BY <1>1, <1>2, <1>4 DEF SameBut
<1>6. /\ SameBut(ToSet(admitted'), ToSet(admitted), r)
      /\ r \in ToSet(admitted') <=> InAdmitted(r)'
    BY <1>1, <1>2, <1>4 DEF SameBut
<1>7. \A u \in Users : /\ IsInjective(userWait'[u])
                       /\ SameBut(ToSet(userWait'[u]), ToSet(userWait[u]), r)
                       /\ r \in ToSet(userWait'[u]) <=> InUserWait(r, u)'
    BY <1>1, <1>2, <1>3 DEF SameBut
<1>8. r \notin tokens'
    OBVIOUS
<1> QED BY <1>3, <1>4, <1>5, <1>6, <1>7, <1>8, MoveStep

\* Leaving the slot queue before a token came.
LEMMA LeaveQueue ==
    ASSUME Types, NoStrandedWaiter, NEW r \in Runs, OnlyMoves(r), InQueues(r),
           RemoveWaiter(r), UNCHANGED <<userWait, tokens>>, pc'[r] \notin Blocked
    PROVE  NoStrandedWaiter'
<1>1. r \notin tokens /\ pc[r] # "userWait"
    BY DEF NoStrandedWaiter, InQueues, SlotWaiter
<1>2. \A u \in Users : r \notin ToSet(userWait[u]) /\ IsInjective(userWait[u])
    BY <1>1 DEF NoStrandedWaiter
<1>3. /\ ~InAdmitted(r)'
      /\ \A k \in Keys : ~InBucket(r, k)'
      /\ \A u \in Users : ~InUserWait(r, u)'
    BY DEF InAdmitted, InBucket, InUserWait, SlotWaiter, Blocked
<1>4. /\ IsInjective(admitted') /\ ToSet(admitted') = ToSet(admitted) \ {r}
      /\ \A j \in Keys : /\ IsInjective(buckets'[j])
                         /\ ToSet(buckets'[j]) = ToSet(buckets[j]) \ {r}
      /\ IsInjective(ring')
      /\ ToSet(ring') = {j \in Keys : buckets'[j] # <<>>}
    BY RemoveMembers
<1> QED BY <1>1, <1>2, <1>3, <1>4, MoveStep DEF SameBut

\* Joining and leaving the wait on the user's cap.
LEMMA JoinUserWait ==
    ASSUME Types, NoStrandedWaiter, NEW r \in Runs, OnlyMoves(r), pc[r] \notin Blocked,
           key[r] \in Users, userWait' = [userWait EXCEPT ![key[r]] = Append(@, r)],
           UNCHANGED <<queues, tokens>>, pc'[r] = "userWait", key'[r] = key[r]
    PROVE  NoStrandedWaiter'
<1>1. /\ r \notin tokens /\ r \notin ToSet(admitted)
      /\ \A k \in Keys : r \notin ToSet(buckets[k])
      /\ \A u \in Users : r \notin ToSet(userWait[u])
    BY NotQueued
<1>2. /\ ~InAdmitted(r)'
      /\ \A k \in Keys : ~InBucket(r, k)'
      /\ \A u \in Users : InUserWait(r, u)' <=> u = key[r]
    BY <1>1 DEF InAdmitted, InBucket, InUserWait, SlotWaiter
<1>3. /\ IsInjective(admitted) /\ IsInjective(ring)
      /\ \A k \in Keys : IsInjective(buckets[k])
      /\ \A u \in Users : userWait[u] \in Seq(Runs) /\ IsInjective(userWait[u])
      /\ ToSet(ring) = {k \in Keys : buckets[k] # <<>>}
    BY DEF NoStrandedWaiter, Types
<1>4. /\ userWait'[key[r]] = Append(userWait[key[r]], r)
      /\ \A u \in Users : u # key[r] => userWait'[u] = userWait[u]
    BY DEF Types
<1>5. /\ ToSet(userWait'[key[r]]) = ToSet(userWait[key[r]]) \cup {r}
      /\ IsInjective(userWait'[key[r]])
    BY <1>1, <1>3, <1>4, FifoAppend
<1>6. ASSUME NEW u \in Users
      PROVE  /\ IsInjective(userWait'[u])
             /\ SameBut(ToSet(userWait'[u]), ToSet(userWait[u]), r)
             /\ r \in ToSet(userWait'[u]) <=> InUserWait(r, u)'
    <2>1. CASE u = key[r]
        BY <1>2, <1>5, <2>1 DEF SameBut
    <2>2. CASE u # key[r]
        BY <1>1, <1>2, <1>3, <1>4, <2>2 DEF SameBut
    <2> QED BY <2>1, <2>2
<1>7. /\ UNCHANGED <<admitted, buckets, ring, tokens>>
      /\ SameBut(ToSet(admitted), ToSet(admitted), r)
      /\ \A k \in Keys : SameBut(ToSet(buckets[k]), ToSet(buckets[k]), r)
    BY DEF queues, SameBut
<1> QED BY <1>1, <1>2, <1>3, <1>6, <1>7, MoveStep

\* A caller that gives up its wait on the user's cap before a token came.
LEMMA LeaveUserWait ==
    ASSUME Types, NoStrandedWaiter, NEW r \in Runs, OnlyMoves(r), pc[r] = "userWait",
           key[r] \in Users, r \in ToSet(userWait[key[r]]),
           userWait' = [userWait EXCEPT ![key[r]] = RemoveFirst(@, r)],
           UNCHANGED <<queues, tokens>>, pc'[r] \notin Blocked
    PROVE  NoStrandedWaiter'
<1>1. /\ r \notin tokens /\ r \notin ToSet(admitted)
      /\ \A k \in Keys : r \notin ToSet(buckets[k])
      /\ \A u \in Users : u # key[r] => r \notin ToSet(userWait[u])
    BY DEF NoStrandedWaiter, SlotWaiter
<1>2. /\ ~InAdmitted(r)'
      /\ \A k \in Keys : ~InBucket(r, k)'
      /\ \A u \in Users : ~InUserWait(r, u)'
    BY DEF InAdmitted, InBucket, InUserWait, SlotWaiter, Blocked
<1>3. /\ IsInjective(admitted) /\ IsInjective(ring)
      /\ \A k \in Keys : IsInjective(buckets[k])
      /\ \A u \in Users : userWait[u] \in Seq(Runs) /\ IsInjective(userWait[u])
      /\ ToSet(ring) = {k \in Keys : buckets[k] # <<>>}
    BY DEF NoStrandedWaiter, Types
<1>4. /\ userWait'[key[r]] = RemoveFirst(userWait[key[r]], r)
      /\ \A u \in Users : u # key[r] => userWait'[u] = userWait[u]
    BY DEF Types
<1>5. /\ ToSet(userWait'[key[r]]) = ToSet(userWait[key[r]]) \ {r}
      /\ IsInjective(userWait'[key[r]])
    BY <1>3, <1>4, FifoRemove
<1>6. ASSUME NEW u \in Users
      PROVE  /\ IsInjective(userWait'[u])
             /\ SameBut(ToSet(userWait'[u]), ToSet(userWait[u]), r)
             /\ r \in ToSet(userWait'[u]) <=> InUserWait(r, u)'
    <2>1. CASE u = key[r]
        BY <1>2, <1>5, <2>1 DEF SameBut
    <2>2. CASE u # key[r]
        BY <1>1, <1>2, <1>3, <1>4, <2>2 DEF SameBut
    <2> QED BY <2>1, <2>2
<1>7. /\ UNCHANGED <<admitted, buckets, ring, tokens>>
      /\ SameBut(ToSet(admitted), ToSet(admitted), r)
      /\ \A k \in Keys : SameBut(ToSet(buckets[k]), ToSet(buckets[k]), r)
    BY DEF queues, SameBut
<1> QED BY <1>1, <1>2, <1>3, <1>6, <1>7, MoveStep

\* wakeUserWaiter hands the head of the user's wait its token.
LEMMA WakeUserQueues ==
    ASSUME Types, NoStrandedWaiter, NEW u \in Users, WakeUser(u)
    PROVE  /\ Head(userWait[u]) \in Runs /\ OnlyMoves(Head(userWait[u]))
           /\ Head(userWait[u]) \in ToSet(userWait[u])
           /\ NoStrandedWaiter'
<1>0. /\ userWait[u] # <<>> /\ Head(userWait[u]) \in Runs
      /\ Head(userWait[u]) \in ToSet(userWait[u])
      /\ ToSet(Tail(userWait[u])) = ToSet(userWait[u]) \ {Head(userWait[u])}
      /\ IsInjective(Tail(userWait[u]))
    BY FifoTail DEF Types, NoStrandedWaiter, WakeUser
<1> PICK r \in Runs : r = Head(userWait[u])
    BY <1>0
<1>1. /\ tokens' = tokens \cup {r}
      /\ userWait' = [userWait EXCEPT ![u] = Tail(userWait[u])]
      /\ UNCHANGED <<admitted, buckets, ring, pc, op, key, cap>>
    BY DEF WakeUser, queues, req
<1>2. /\ r \in ToSet(userWait[u])
      /\ ToSet(Tail(userWait[u])) = ToSet(userWait[u]) \ {r}
      /\ IsInjective(Tail(userWait[u]))
    BY <1>0
<1>3. pc[r] = "userWait" /\ r \notin tokens /\ key[r] = u
    BY <1>2 DEF NoStrandedWaiter
<1>4. OnlyMoves(r)
    BY <1>1 DEF OnlyMoves
<1>5. /\ r \notin ToSet(admitted)
      /\ \A k \in Keys : r \notin ToSet(buckets[k])
      /\ \A v \in Users : v # u => r \notin ToSet(userWait[v])
    BY <1>3 DEF NoStrandedWaiter, SlotWaiter
<1>6. /\ ~InAdmitted(r)'
      /\ \A k \in Keys : ~InBucket(r, k)'
      /\ \A v \in Users : ~InUserWait(r, v)'
    BY <1>1, <1>3 DEF InAdmitted, InBucket, InUserWait, SlotWaiter
<1>7. /\ IsInjective(admitted) /\ IsInjective(ring)
      /\ \A k \in Keys : IsInjective(buckets[k])
      /\ \A v \in Users : IsInjective(userWait[v])
      /\ ToSet(ring) = {k \in Keys : buckets[k] # <<>>}
    BY DEF NoStrandedWaiter
<1>8. /\ userWait'[u] = Tail(userWait[u])
      /\ \A v \in Users : v # u => userWait'[v] = userWait[v]
    BY <1>1 DEF Types
<1>9. ASSUME NEW v \in Users
      PROVE  /\ IsInjective(userWait'[v])
             /\ SameBut(ToSet(userWait'[v]), ToSet(userWait[v]), r)
             /\ r \in ToSet(userWait'[v]) <=> InUserWait(r, v)'
    <2>1. CASE v = u
        BY <1>2, <1>6, <1>8, <2>1 DEF SameBut
    <2>2. CASE v # u
        BY <1>5, <1>6, <1>7, <1>8, <2>2 DEF SameBut
    <2> QED BY <2>1, <2>2
<1>10. /\ SameBut(ToSet(admitted), ToSet(admitted), r)
       /\ \A k \in Keys : SameBut(ToSet(buckets[k]), ToSet(buckets[k]), r)
       /\ pc'[r] \in Blocked
    BY <1>1, <1>3 DEF SameBut, Blocked
<1>11. NoStrandedWaiter'
    BY <1>1, <1>2, <1>4, <1>5, <1>6, <1>7, <1>9, <1>10, MoveStep
<1> QED BY <1>2, <1>4, <1>11

\* wakeNextLocked hands the head of the FIFO of already-admitted work, or of the
\* bucket whose turn it is, its token: that caller was waiting for a slot.
LEMMA WakeNextQueues ==
    ASSUME Types, NoStrandedWaiter, WakeNext
    PROVE  \E r \in Runs : /\ OnlyMoves(r) /\ UNCHANGED <<pc, req>>
                           /\ SlotWaiter(r) /\ r \in tokens'
                           /\ NoStrandedWaiter'
<1>0. /\ admitted \in Seq(Runs) /\ IsInjective(admitted)
      /\ ring \in Seq(Keys) /\ IsInjective(ring)
      /\ \A k \in Keys : buckets[k] \in Seq(Runs) /\ IsInjective(buckets[k])
      /\ \A v \in Users : IsInjective(userWait[v])
      /\ ToSet(ring) = {k \in Keys : buckets[k] # <<>>}
    BY DEF NoStrandedWaiter, Types
<1>1. CASE admitted # <<>>
    <2>0. /\ Head(admitted) \in Runs /\ Head(admitted) \in ToSet(admitted)
          /\ ToSet(Tail(admitted)) = ToSet(admitted) \ {Head(admitted)}
          /\ IsInjective(Tail(admitted))
        BY <1>0, <1>1, FifoTail
    <2> PICK r \in Runs : r = Head(admitted)
        BY <2>0
    <2>1. /\ tokens' = tokens \cup {r} /\ admitted' = Tail(admitted)
          /\ UNCHANGED <<buckets, ring, userWait, pc, op, key, cap>>
        BY <1>1 DEF WakeNext, req
    <2>2. SlotWaiter(r) /\ AlreadyAdmitted(r)
        BY <2>0 DEF NoStrandedWaiter
    <2>3. OnlyMoves(r)
        BY <2>1 DEF OnlyMoves
    <2>4. /\ \A k \in Keys : r \notin ToSet(buckets[k])
          /\ \A v \in Users : r \notin ToSet(userWait[v])
        BY <2>2 DEF NoStrandedWaiter, SlotWaiter
    <2>5. /\ ~InAdmitted(r)'
          /\ \A k \in Keys : ~InBucket(r, k)'
          /\ \A v \in Users : ~InUserWait(r, v)'
          /\ pc'[r] \in Blocked
        BY <2>1, <2>2 DEF InAdmitted, InBucket, InUserWait, SlotWaiter, Blocked
    <2>6. /\ IsInjective(admitted') /\ SameBut(ToSet(admitted'), ToSet(admitted), r)
          /\ r \notin ToSet(admitted')
        BY <2>0, <2>1 DEF SameBut
    <2>7. /\ \A k \in Keys : SameBut(ToSet(buckets[k]), ToSet(buckets[k]), r)
          /\ \A v \in Users : SameBut(ToSet(userWait[v]), ToSet(userWait[v]), r)
        BY DEF SameBut
    <2>8. NoStrandedWaiter'
        BY <1>0, <2>1, <2>3, <2>4, <2>5, <2>6, <2>7, MoveStep
    <2> QED BY <2>1, <2>2, <2>3, <2>8 DEF req
<1>2. CASE admitted = <<>>
    <2>0. /\ ring # <<>> /\ Head(ring) \in Keys /\ Head(ring) \in ToSet(ring)
          /\ Tail(ring) \in Seq(Keys) /\ IsInjective(Tail(ring))
          /\ ToSet(Tail(ring)) = ToSet(ring) \ {Head(ring)}
        BY <1>0, <1>2, FifoTail DEF WakeNext
    <2> PICK k \in Keys : k = Head(ring)
        BY <2>0
    <2>1. /\ buckets[k] # <<>> /\ Head(buckets[k]) \in Runs
          /\ Head(buckets[k]) \in ToSet(buckets[k])
          /\ ToSet(Tail(buckets[k])) = ToSet(buckets[k]) \ {Head(buckets[k])}
          /\ IsInjective(Tail(buckets[k]))
          /\ Tail(buckets[k]) = <<>> <=> Len(buckets[k]) = 1
        BY <1>0, <2>0, FifoTail
    <2> PICK r \in Runs : r = Head(buckets[k])
        BY <2>1
    <2>2. /\ tokens' = tokens \cup {r}
          /\ buckets' = [buckets EXCEPT ![k] = Tail(buckets[k])]
          /\ ring' = IF Len(buckets[k]) = 1 THEN Tail(ring) ELSE Append(Tail(ring), k)
          /\ UNCHANGED <<admitted, userWait, pc, op, key, cap>>
        BY <1>2 DEF WakeNext, req
    <2>3. SlotWaiter(r) /\ ~AlreadyAdmitted(r) /\ key[r] = k
        BY <2>1 DEF NoStrandedWaiter
    <2>4. OnlyMoves(r)
        BY <2>2 DEF OnlyMoves
    <2>5. /\ r \notin ToSet(admitted)
          /\ \A j \in Keys : j # k => r \notin ToSet(buckets[j])
          /\ \A v \in Users : r \notin ToSet(userWait[v])
        BY <2>3 DEF NoStrandedWaiter, SlotWaiter
    <2>6. /\ ~InAdmitted(r)'
          /\ \A j \in Keys : ~InBucket(r, j)'
          /\ \A v \in Users : ~InUserWait(r, v)'
          /\ pc'[r] \in Blocked
        BY <2>2, <2>3 DEF InAdmitted, InBucket, InUserWait, SlotWaiter, Blocked
    <2>7. /\ buckets'[k] = Tail(buckets[k])
          /\ \A j \in Keys : j # k => buckets'[j] = buckets[j]
        BY <2>2 DEF Types
    <2>8. ASSUME NEW j \in Keys
          PROVE  /\ IsInjective(buckets'[j])
                 /\ SameBut(ToSet(buckets'[j]), ToSet(buckets[j]), r)
                 /\ r \in ToSet(buckets'[j]) <=> InBucket(r, j)'
        <3>1. CASE j = k
            BY <2>1, <2>6, <2>7, <3>1 DEF SameBut
        <3>2. CASE j # k
            BY <1>0, <2>5, <2>6, <2>7, <3>2 DEF SameBut
        <3> QED BY <3>1, <3>2
    <2>9. IsInjective(ring') /\ ToSet(ring') = {j \in Keys : buckets'[j] # <<>>}
        <3>1. CASE Len(buckets[k]) = 1
            <4>1. ring' = Tail(ring) /\ buckets'[k] = <<>>
                BY <2>1, <2>2, <2>7, <3>1
            <4> QED BY <1>0, <2>0, <2>7, <4>1
        <3>2. CASE Len(buckets[k]) # 1
            <4>1. ring' = Append(Tail(ring), k) /\ buckets'[k] # <<>>
                BY <2>1, <2>2, <2>7, <3>2
            <4>2. /\ IsInjective(Append(Tail(ring), k))
                  /\ ToSet(Append(Tail(ring), k)) = ToSet(ring)
                BY <1>0, <2>0, FifoRotate
            <4>3. ToSet(ring') = {j \in Keys : buckets'[j] # <<>>}
                BY <1>0, <2>0, <2>1, <2>7, <4>1, <4>2
            <4> QED BY <4>1, <4>2, <4>3
        <3> QED BY <3>1, <3>2
    <2>10. /\ SameBut(ToSet(admitted), ToSet(admitted), r)
           /\ \A v \in Users : SameBut(ToSet(userWait[v]), ToSet(userWait[v]), r)
        BY DEF SameBut
    <2>11. NoStrandedWaiter'
        BY <1>0, <2>2, <2>4, <2>5, <2>6, <2>8, <2>9, <2>10, MoveStep
    <2> QED BY <2>2, <2>3, <2>4, <2>11 DEF req
<1> QED BY <1>1, <1>2

\* A step keeps every blocked caller in its queue.
LEMMA QueuesStep ==
    ASSUME Types, CallerInv, NoStrandedWaiter, Next
    PROVE  NoStrandedWaiter'
<1> USE DEF caps, queues, req
<1>1. ASSUME NEW r \in Runs, Enter(r) PROVE NoStrandedWaiter'
    <2>0. OnlyMoves(r)
        BY <1>1, CallerMoves
    <2>1. ASSUME NEW o \in SnapshotOps, NEW k \in Keys, ReadCap(r, o, k) PROVE NoStrandedWaiter'
        <3>1. /\ pc[r] = "idle" /\ pc'[r] = "capRead"
              /\ UNCHANGED <<queues, userWait, tokens>>
            BY <2>1 DEF ReadCap, Goto, Types
        <3> QED BY <2>0, <3>1, QuietStep, NotQueued DEF Blocked
    <2>2. ASSUME NEW k \in Keys, AdmitSlot(r, k) PROVE NoStrandedWaiter'
        <3>1. /\ pc[r] = "idle" /\ pc'[r] = "capRead"
              /\ UNCHANGED <<queues, userWait, tokens>>
            BY <2>2 DEF AdmitSlot, Goto, Types
        <3> QED BY <2>0, <3>1, QuietStep, NotQueued DEF Blocked
    <2>3. CASE TryAcquire(r)
        <3>1. /\ pc[r] = "idle" /\ pc'[r] = "running"
              /\ UNCHANGED <<queues, userWait, tokens>>
            BY <2>3 DEF TryAcquire, TakeFreeSlot, Goto, Types
        <3> QED BY <2>0, <3>1, QuietStep, NotQueued DEF Blocked
    <2>4. CASE Wait(r)
        <3>1. CASE TakeFreeSlot(r) /\ UNCHANGED queued
            <4>1. /\ pc[r] = "idle" /\ pc'[r] = "running"
                  /\ UNCHANGED <<queues, userWait, tokens>>
                BY <2>4, <3>1 DEF Wait, TakeFreeSlot, Goto, Types
            <4> QED BY <2>0, <4>1, QuietStep, NotQueued DEF Blocked
        <3>2. CASE QueueAdmitted(r) /\ Goto(r, "waiting") /\ UNCHANGED lent
            <4>1. /\ pc[r] = "idle" /\ pc'[r] = "waiting" /\ op'[r] = "Wait"
                  /\ admitted' = Append(admitted, r)
                  /\ UNCHANGED <<buckets, ring, userWait, tokens>>
                BY <2>4, <3>2 DEF Wait, QueueAdmitted, Called, Goto, Types
            <4>2. AlreadyAdmitted(r)'
                BY <4>1 DEF AlreadyAdmitted, NeverRefused
            <4> QED BY <2>0, <4>1, <4>2, JoinAdmitted DEF Blocked
        <3> QED BY <2>4, <3>1, <3>2 DEF Wait
    <2> QED BY <1>1, <2>1, <2>2, <2>3, <2>4 DEF Enter
<1>2. ASSUME NEW r \in Runs, AcquireForUser(r) PROVE NoStrandedWaiter'
    <2>0. OnlyMoves(r) /\ pc[r] = "capRead" /\ op[r] = "AcquireForUser"
        BY <1>2, CallerMoves DEF Step, AcquireForUser
    <2>1. CASE TakeFreeSlot(r) /\ UNCHANGED <<queued, req>>
        <3>1. pc'[r] = "running" /\ UNCHANGED <<queues, userWait, tokens>>
            BY <2>1 DEF TakeFreeSlot, Goto, Types
        <3> QED BY <2>0, <3>1, QuietStep, NotQueued DEF Blocked
    <2>2. CASE Leave(r) /\ UNCHANGED <<queues, userWait, tokens>>
        <3>1. pc'[r] = "idle"
            BY <2>2 DEF Leave, Types
        <3> QED BY <2>0, <2>2, <3>1, QuietStep, NotQueued DEF Blocked
    <2>3. CASE Push(key[r], r) /\ Goto(r, "waiting") /\ UNCHANGED <<userWait, tokens, req>>
        <3>1. pc'[r] = "waiting" /\ op'[r] = op[r] /\ key'[r] = key[r]
            BY <2>3 DEF Goto, Types
        <3>2. ~AlreadyAdmitted(r)' /\ tokens' = tokens \ {r}
            BY <2>0, <2>3, <3>1, NotQueued DEF AlreadyAdmitted, NeverRefused, Blocked
        <3> QED BY <2>0, <2>3, <3>1, <3>2, JoinBucket DEF Blocked
    <2> QED BY <1>2, <2>1, <2>2, <2>3 DEF AcquireForUser
<1>3. ASSUME NEW r \in Runs, ReserveUser(r) PROVE NoStrandedWaiter'
    <2>0. OnlyMoves(r) /\ pc[r] = "capRead"
        BY <1>3, CallerMoves DEF Step, ReserveUser
    <2>1. pc'[r] \in {"reserved", "idle"} /\ UNCHANGED <<queues, userWait, tokens>>
        BY <1>3 DEF ReserveUser, Goto, Leave, Types
    <2> QED BY <2>0, <2>1, QuietStep, NotQueued DEF Blocked
<1>4. ASSUME NEW r \in Runs, WaitForUser(r) PROVE NoStrandedWaiter'
    <2>0. OnlyMoves(r) /\ pc[r] = "capRead" /\ op[r] = "WaitForUser" /\ UNCHANGED req
        BY <1>4, CallerMoves DEF Step, WaitForUser
    <2>1. CASE TakeFreeSlot(r)
        <3>1. pc'[r] = "running" /\ UNCHANGED <<queues, userWait, tokens>>
            BY <2>1 DEF TakeFreeSlot, Goto, Types
        <3> QED BY <2>0, <3>1, QuietStep, NotQueued DEF Blocked
    <2>2. CASE QueueAdmitted(r) /\ Goto(r, "waiting")
        <3>1. /\ pc'[r] = "waiting" /\ op'[r] = "WaitForUser"
              /\ admitted' = Append(admitted, r)
              /\ UNCHANGED <<buckets, ring, userWait, tokens>>
            BY <2>0, <2>2 DEF QueueAdmitted, Goto, Types
        <3>2. AlreadyAdmitted(r)'
            BY <3>1 DEF AlreadyAdmitted, NeverRefused
        <3> QED BY <2>0, <3>1, <3>2, JoinAdmitted DEF Blocked
    <2> QED BY <1>4, <2>1, <2>2 DEF WaitForUser
<1>5. ASSUME NEW r \in Runs, AdmitUserLocal(r) PROVE NoStrandedWaiter'
    <2>0. /\ OnlyMoves(r) /\ pc[r] = "capRead" /\ key[r] \in Users
          /\ UNCHANGED <<queues, tokens>>
        BY <1>5, CallerMoves, CallerTypes DEF Step, AdmitUserLocal, PerUserActive
    <2>1. CASE Goto(r, "counted") /\ UNCHANGED userWait
        <3>1. pc'[r] = "counted"
            BY <2>1 DEF Goto, Types
        <3> QED BY <2>0, <2>1, <3>1, QuietStep, NotQueued DEF Blocked
    <2>2. CASE Leave(r) /\ UNCHANGED userWait
        <3>1. pc'[r] = "idle"
            BY <2>2 DEF Leave, Types
        <3> QED BY <2>0, <2>2, <3>1, QuietStep, NotQueued DEF Blocked
    <2>3. CASE /\ userWait' = [userWait EXCEPT ![key[r]] = Append(@, r)]
               /\ Goto(r, "userWait") /\ UNCHANGED req
        <3>1. pc'[r] = "userWait" /\ key'[r] = key[r]
            BY <2>3 DEF Goto, Types
        <3> QED BY <2>0, <2>3, <3>1, JoinUserWait DEF Blocked
    <2> QED BY <1>5, <2>1, <2>2, <2>3 DEF AdmitUserLocal
<1>6. ASSUME NEW r \in Runs, AdmitNew(r) \/ AdmitWaited(r) PROVE NoStrandedWaiter'
    <2>0. OnlyMoves(r)
        BY <1>6, CallerMoves DEF Step
    <2>1. /\ pc[r] \notin Blocked \/ r \in tokens
          /\ op[r] \in {"Admit", "AdmitReject", "AdmitSlot"}
          /\ AdmitGlobal(r, FALSE) \/ AdmitGlobal(r, TRUE)
        BY <1>6 DEF AdmitNew, AdmitWaited, Blocked, CallerInv, CanLend
    <2>2. tokens' = tokens \ {r} /\ UNCHANGED userWait
        BY <2>1 DEF AdmitGlobal
    <2>3. CASE Goto(r, "running") /\ UNCHANGED queues
        <3>1. pc'[r] = "running"
            BY <2>3 DEF Goto, Types
        <3> QED BY <2>0, <2>1, <2>2, <2>3, <3>1, QuietStep DEF Blocked
    <2>4. CASE Leave(r) /\ UNCHANGED queues
        <3>1. pc'[r] = "idle"
            BY <2>4 DEF Leave, Types
        <3> QED BY <2>0, <2>1, <2>2, <2>4, <3>1, QuietStep DEF Blocked
    <2>5. CASE Push(key[r], r) /\ Goto(r, "waiting") /\ UNCHANGED req
        <3>1. pc'[r] = "waiting" /\ op'[r] = op[r] /\ key'[r] = key[r]
            BY <2>5 DEF Goto, Types
        <3>2. ~AlreadyAdmitted(r)'
            BY <2>1, <3>1 DEF AlreadyAdmitted, NeverRefused
        <3> QED BY <2>0, <2>1, <2>2, <2>5, <3>1, <3>2, JoinBucket
    <2> QED BY <2>1, <2>3, <2>4, <2>5 DEF AdmitGlobal
<1>7. ASSUME NEW r \in Runs, ReceiveSlot(r) PROVE NoStrandedWaiter'
    <2>1. /\ OnlyMoves(r) /\ r \in tokens /\ tokens' = tokens \ {r}
          /\ UNCHANGED <<queues, userWait>>
        BY <1>7, CallerMoves DEF Step, ReceiveSlot
    <2>2. pc'[r] = "running"
        BY <1>7 DEF ReceiveSlot, Goto, Types
    <2> QED BY <2>1, <2>2, QuietStep DEF Blocked
<1>8. ASSUME NEW r \in Runs, CancelUserWaiter(r) PROVE NoStrandedWaiter'
    <2>0. OnlyMoves(r) /\ pc[r] = "userWait" /\ key[r] \in Users /\ UNCHANGED queues
        BY <1>8, CallerMoves, CallerTypes DEF Cancel, CancelUserWaiter, CallerInv,
            PerUserActive
    <2>1. pc'[r] = "idle"
        BY <1>8 DEF CancelUserWaiter, Leave, Types
    <2>2. CASE r \in ToSet(userWait[key[r]])
        <3>1. /\ userWait' = [userWait EXCEPT ![key[r]] = RemoveFirst(@, r)]
              /\ UNCHANGED tokens
            BY <1>8, <2>2 DEF CancelUserWaiter
        <3> QED BY <2>0, <2>1, <2>2, <3>1, LeaveUserWait DEF Blocked
    <2>3. CASE r \notin ToSet(userWait[key[r]])
        <3>1. tokens' = tokens \ {r} /\ UNCHANGED userWait
            BY <1>8, <2>3 DEF CancelUserWaiter
        <3>2. r \in tokens
            BY <2>0, <2>3 DEF NoStrandedWaiter
        <3> QED BY <2>0, <2>1, <3>1, <3>2, QuietStep DEF Blocked
    <2> QED BY <2>2, <2>3
<1>9. ASSUME NEW r \in Runs, CancelWaiter(r) PROVE NoStrandedWaiter'
    <2>0. OnlyMoves(r) /\ UNCHANGED userWait
        BY <1>9, CallerMoves DEF Cancel, CancelWaiter
    <2>1. pc'[r] = "idle"
        BY <1>9 DEF CancelWaiter, Leave, Types
    <2>2. CASE InQueues(r) /\ RemoveWaiter(r) /\ UNCHANGED tokens
        BY <2>0, <2>1, <2>2, LeaveQueue DEF Blocked
    <2>3. CASE r \in tokens /\ tokens' = tokens \ {r} /\ UNCHANGED queues
        BY <2>0, <2>1, <2>3, QuietStep DEF Blocked
    <2> QED BY <1>9, <2>2, <2>3 DEF CancelWaiter
<1>10. ASSUME NEW r \in Runs, ReclaimCancelled(r) PROVE NoStrandedWaiter'
    <2>1. /\ OnlyMoves(r) /\ InQueues(r) /\ RemoveWaiter(r)
          /\ UNCHANGED <<userWait, tokens>>
        BY <1>10, CallerMoves DEF Cancel, ReclaimCancelled
    <2>2. pc'[r] = "lent"
        BY <1>10 DEF ReclaimCancelled, Goto, Types
    <2> QED BY <2>1, <2>2, LeaveQueue DEF Blocked
<1>11. ASSUME NEW r \in Runs, End(r) \/ Lend(r) \/ TryReclaim(r) PROVE NoStrandedWaiter'
    <2>0. OnlyMoves(r)
        BY <1>11, CallerMoves
    <2>1. /\ pc[r] \in {"running", "lent", "ending", "reserved"}
          /\ pc'[r] \in {"idle", "ending", "lent", "running"}
          /\ UNCHANGED <<queues, userWait, tokens>>
        BY <1>11 DEF End, EndRun, EndLent, EndRunLent, ReleaseReserve, Lend, TryReclaim,
                     Leave, Goto, Types
    <2> QED BY <2>0, <2>1, QuietStep, NotQueued DEF Blocked
<1>12. ASSUME NEW r \in Runs, Reclaim(r) PROVE NoStrandedWaiter'
    <2>0. OnlyMoves(r) /\ pc[r] = "lent"
        BY <1>12, CallerMoves DEF Reclaim
    <2>1. /\ pc'[r] = "reclaiming" /\ admitted' = Append(admitted, r)
          /\ UNCHANGED <<buckets, ring, userWait, tokens>>
        BY <1>12 DEF Reclaim, QueueAdmitted, Goto, Types
    <2> QED BY <2>0, <2>1, JoinAdmitted DEF Blocked, AlreadyAdmitted
<1>13. ASSUME Wake PROVE NoStrandedWaiter'
    <2>1. CASE WakeNext
        BY <2>1, WakeNextQueues
    <2>2. CASE \E u \in Users : WakeUser(u)
        BY <2>2, WakeUserQueues
    <2>3. CASE WakeNextDone \/ \E u \in Users : WakeUserDone(u)
        <3>1. UNCHANGED <<admitted, buckets, ring, userWait, tokens, pc, op, key>>
            BY <2>3 DEF WakeNextDone, WakeUserDone
        <3> QED BY <3>1 DEF NoStrandedWaiter, SlotWaiter, AlreadyAdmitted, NeverRefused
    <2> QED BY <1>13, <2>1, <2>2, <2>3 DEF Wake
<1>14. ASSUME Reload PROVE NoStrandedWaiter'
    <2>1. UNCHANGED <<admitted, buckets, ring, userWait, tokens, pc, op, key>>
        BY <1>14 DEF Reload, SetCaps, WithPerUserCap, WithQueuedPerUserCap
    <2> QED BY <2>1 DEF NoStrandedWaiter, SlotWaiter, AlreadyAdmitted, NeverRefused
<1> QED
    BY <1>1, <1>2, <1>3, <1>4, <1>5, <1>6, <1>7, <1>8, <1>9, <1>10, <1>11, <1>12,
       <1>13, <1>14
    DEF Next, Step, Cancel

-----------------------------------------------------------------------------
\* What a caller counts for in active, queued and lent.
Holds(r) == pc[r] = "running" \/ (pc[r] \in {"waiting", "reclaiming"} /\ r \in tokens)
HasPlace(r) == pc[r] = "userWait" \/ SlotWaiter(r)
Lends(r) == pc[r] = "lent"

One(p) == IF p THEN 1 ELSE 0

\* A set that changes in one element at most changes its size by that element.
LEMMA CountStep ==
    ASSUME NEW S, NEW T, NEW r, IsFiniteSet(S), SameBut(T, S, r)
    PROVE  /\ IsFiniteSet(T) /\ Cardinality(S) \in Nat
           /\ Cardinality(T) = Cardinality(S) + One(r \in T) - One(r \in S)
<1>1. /\ IsFiniteSet(S \ {r}) /\ Cardinality(S) \in Nat
      /\ Cardinality(S \ {r}) = IF r \in S THEN Cardinality(S) - 1 ELSE Cardinality(S)
    BY FS_RemoveElement, FS_CardinalityType
<1>2. CASE r \in T
    <2>1. T = (S \ {r}) \cup {r}
        BY <1>2 DEF SameBut
    <2>2. IsFiniteSet(T) /\ Cardinality(T) = Cardinality(S \ {r}) + 1
        BY <1>1, <2>1, FS_AddElement
    <2> QED BY <1>1, <1>2, <2>2 DEF One
<1>3. CASE r \notin T
    <2>1. T = S \ {r}
        BY <1>3 DEF SameBut
    <2> QED BY <1>1, <1>3, <2>1 DEF One
<1> QED BY <1>2, <1>3

\* A step that moves one caller keeps the counters right if they follow it.
LEMMA AccountingMove ==
    ASSUME SlotAccounting, NEW r \in Runs, OnlyMoves(r),
           active' = active + One(Holds(r)') - One(Holds(r)),
           queued' = queued + One(HasPlace(r)') - One(HasPlace(r)),
           lent' = lent + One(Lends(r)') - One(Lends(r))
    PROVE  SlotAccounting'
<1>1. /\ SlotHolders = {x \in Runs : Holds(x)}
      /\ PlaceHolders = {x \in Runs : HasPlace(x)}
      /\ Lenders = {x \in Runs : Lends(x)}
    BY DEF SlotHolders, PlaceHolders, Lenders, Holds, HasPlace, Lends
<1>2. /\ SlotHolders' = {x \in Runs : Holds(x)'}
      /\ PlaceHolders' = {x \in Runs : HasPlace(x)'}
      /\ Lenders' = {x \in Runs : Lends(x)'}
    BY DEF SlotHolders, PlaceHolders, Lenders, Holds, HasPlace, Lends
<1>3. \A x \in Runs \ {r} : /\ Holds(x)' <=> Holds(x)
                            /\ HasPlace(x)' <=> HasPlace(x)
                            /\ Lends(x)' <=> Lends(x)
    BY DEF OnlyMoves, Holds, HasPlace, Lends, SlotWaiter
<1>4. /\ SameBut(SlotHolders', SlotHolders, r)
      /\ SameBut(PlaceHolders', PlaceHolders, r)
      /\ SameBut(Lenders', Lenders, r)
    BY <1>1, <1>2, <1>3 DEF SameBut
<1>5. IsFiniteSet(SlotHolders) /\ IsFiniteSet(PlaceHolders) /\ IsFiniteSet(Lenders)
    BY <1>1, RunsFinite, FS_Subset
<1>6. Cardinality(SlotHolders') = Cardinality(SlotHolders) + One(Holds(r)') - One(Holds(r))
    BY <1>1, <1>2, <1>4, <1>5, CountStep DEF One
<1>7. Cardinality(PlaceHolders') = Cardinality(PlaceHolders) + One(HasPlace(r)') - One(HasPlace(r))
    BY <1>1, <1>2, <1>4, <1>5, CountStep DEF One
<1>8. Cardinality(Lenders') = Cardinality(Lenders) + One(Lends(r)') - One(Lends(r))
    BY <1>1, <1>2, <1>4, <1>5, CountStep DEF One
<1> QED BY <1>6, <1>7, <1>8 DEF SlotAccounting

\* A step keeps the counters in step with the callers they count.
LEMMA AccountingStep ==
    ASSUME Types, CallerInv, NoStrandedWaiter, SlotAccounting, Next
    PROVE  SlotAccounting'
<1> USE DEF caps, queues, req
<1> DEFINE Kept(r) == /\ active' = active + One(Holds(r)') - One(Holds(r))
                      /\ queued' = queued + One(HasPlace(r)') - One(HasPlace(r))
                      /\ lent' = lent + One(Lends(r)') - One(Lends(r))
<1>0. /\ active \in Int /\ queued \in Int /\ lent \in Int
      /\ \A r \in Runs : pc[r] \notin Blocked => r \notin tokens
      /\ \A r \in Runs : \A p : Goto(r, p) => pc'[r] = p
      /\ \A r \in Runs : Leave(r) => pc'[r] = "idle"
    BY DEF Types, NoStrandedWaiter, Blocked, Goto, Leave
<1>1. ASSUME NEW r \in Runs, Enter(r) PROVE Kept(r)
    <2>1. ASSUME NEW o \in SnapshotOps, NEW k \in Keys, ReadCap(r, o, k) PROVE Kept(r)
        BY <1>0, <2>1 DEF ReadCap, Holds, HasPlace, Lends, SlotWaiter, One
    <2>2. ASSUME NEW k \in Keys, AdmitSlot(r, k) PROVE Kept(r)
        BY <1>0, <2>2 DEF AdmitSlot, Holds, HasPlace, Lends, SlotWaiter, One
    <2>3. CASE TryAcquire(r)
        BY <1>0, <2>3 DEF TryAcquire, TakeFreeSlot, Holds, HasPlace, Lends, SlotWaiter, One
    <2>4. CASE Wait(r)
        BY <1>0, <2>4 DEF Wait, TakeFreeSlot, QueueAdmitted, Holds, HasPlace, Lends,
                          SlotWaiter, One, Blocked
    <2> QED BY <1>1, <2>1, <2>2, <2>3, <2>4 DEF Enter
<1>2. ASSUME NEW r \in Runs, AcquireForUser(r) PROVE Kept(r)
    BY <1>0, <1>2 DEF AcquireForUser, TakeFreeSlot, Holds, HasPlace, Lends, SlotWaiter,
        One, Blocked
<1>3. ASSUME NEW r \in Runs, ReserveUser(r) PROVE Kept(r)
    BY <1>0, <1>3 DEF ReserveUser, Holds, HasPlace, Lends, SlotWaiter, One
<1>4. ASSUME NEW r \in Runs, WaitForUser(r) PROVE Kept(r)
    BY <1>0, <1>4 DEF WaitForUser, TakeFreeSlot, QueueAdmitted, Holds, HasPlace, Lends,
                      SlotWaiter, One, Blocked
<1>5. ASSUME NEW r \in Runs, AdmitUserLocal(r) PROVE Kept(r)
    BY <1>0, <1>5 DEF AdmitUserLocal, Holds, HasPlace, Lends, SlotWaiter, One
<1>6. ASSUME NEW r \in Runs, AdmitNew(r) PROVE Kept(r)
    BY <1>0, <1>6 DEF AdmitNew, AdmitGlobal, Holds, HasPlace, Lends, SlotWaiter, One,
        Blocked
<1>7. ASSUME NEW r \in Runs, AdmitWaited(r) PROVE Kept(r)
    <2>1. PerUserActive(r)
        BY <1>7 DEF AdmitWaited, CallerInv
    <2> QED BY <1>0, <1>7, <2>1 DEF AdmitWaited, AdmitGlobal, Holds, HasPlace, Lends,
        SlotWaiter, One
<1>8. ASSUME NEW r \in Runs, ReceiveSlot(r) PROVE Kept(r)
    BY <1>0, <1>8 DEF ReceiveSlot, Holds, HasPlace, Lends, SlotWaiter, One
<1>9. ASSUME NEW r \in Runs, CancelUserWaiter(r) PROVE Kept(r)
    BY <1>0, <1>9 DEF CancelUserWaiter, Holds, HasPlace, Lends, SlotWaiter, One
<1>10. ASSUME NEW r \in Runs, InQueues(r) PROVE r \notin tokens
    BY <1>10 DEF NoStrandedWaiter, InQueues, SlotWaiter
<1>11. ASSUME NEW r \in Runs, CancelWaiter(r) PROVE Kept(r)
    BY <1>0, <1>10, <1>11 DEF CancelWaiter, Holds, HasPlace, Lends, SlotWaiter, One
<1>12. ASSUME NEW r \in Runs, ReclaimCancelled(r) PROVE Kept(r)
    BY <1>0, <1>10, <1>12 DEF ReclaimCancelled, Holds, HasPlace, Lends, SlotWaiter, One
<1>13. ASSUME NEW r \in Runs, End(r) PROVE Kept(r)
    BY <1>0, <1>13 DEF End, EndRun, EndLent, EndRunLent, ReleaseReserve, Holds, HasPlace,
                       Lends, SlotWaiter, One
<1>14. ASSUME NEW r \in Runs, Lend(r) \/ TryReclaim(r) PROVE Kept(r)
    BY <1>0, <1>14 DEF Lend, TryReclaim, Holds, HasPlace, Lends, SlotWaiter, One
<1>15. ASSUME NEW r \in Runs, Reclaim(r) PROVE Kept(r)
    BY <1>0, <1>15 DEF Reclaim, QueueAdmitted, Holds, HasPlace, Lends, SlotWaiter, One,
        Blocked
<1>16. ASSUME NEW r \in Runs,
              Enter(r) \/ Step(r) \/ Cancel(r) \/ End(r) \/ Lend(r) \/ TryReclaim(r) \/ Reclaim(r)
       PROVE  SlotAccounting'
    <2>1. Kept(r)
        BY <1>1, <1>2, <1>3, <1>4, <1>5, <1>6, <1>7, <1>8, <1>9, <1>11, <1>12, <1>13,
           <1>14, <1>15, <1>16 DEF Step, Cancel
    <2>2. OnlyMoves(r)
        BY <1>16, CallerMoves
    <2> QED BY <2>1, <2>2, AccountingMove
<1>17. ASSUME WakeNext PROVE SlotAccounting'
    <2>1. PICK r \in Runs : OnlyMoves(r) /\ UNCHANGED <<pc, req>> /\ SlotWaiter(r) /\ r \in tokens'
        BY <1>17, WakeNextQueues
    <2>2. Kept(r)
        BY <1>0, <1>17, <2>1 DEF WakeNext, Holds, HasPlace, Lends, SlotWaiter, One
    <2> QED BY <2>1, <2>2, AccountingMove
<1>18. ASSUME NEW u \in Users, WakeUser(u) PROVE SlotAccounting'
    <2>1. PICK r \in Runs : r = Head(userWait[u]) /\ OnlyMoves(r) /\ r \in ToSet(userWait[u])
        BY <1>18, WakeUserQueues
    <2>2. pc[r] = "userWait"
        BY <2>1 DEF NoStrandedWaiter
    <2>3. Kept(r)
        BY <1>0, <1>18, <2>2 DEF WakeUser, Holds, HasPlace, Lends, SlotWaiter, One
    <2> QED BY <2>1, <2>3, AccountingMove
<1>19. ASSUME WakeNextDone \/ (\E u \in Users : WakeUserDone(u)) \/ Reload PROVE SlotAccounting'
    <2>1. UNCHANGED <<active, queued, lent, tokens, pc>>
        BY <1>19 DEF WakeNextDone, WakeUserDone, Reload, SetCaps, WithPerUserCap,
                     WithQueuedPerUserCap
    <2> QED BY <2>1 DEF SlotAccounting, SlotHolders, PlaceHolders, Lenders, SlotWaiter
<1> QED BY <1>16, <1>17, <1>18, <1>19 DEF Next, Wake

-----------------------------------------------------------------------------
\* A caller that joins a queue found no free slot; who takes one on the fast
\* path found one free.  Nothing else adds to the queues or to the holders.
LEMMA AdmissionStep ==
    ASSUME Types, NoStrandedWaiter, NEW r \in Runs,
           Enter(r) \/ Step(r) \/ Cancel(r) \/ End(r) \/ Lend(r) \/ TryReclaim(r) \/ Reclaim(r)
    PROVE  /\ UNCHANGED maxConcurrent
           /\ \/ Global \in wakes'
              \/ /\ active' >= active /\ wakes' \cap {Global} = wakes \cap {Global}
                 /\ UNCHANGED queues \/ (SomeoneQueued' => SomeoneQueued)
                       \/ active >= maxConcurrent
           /\ active' <= active \/ (active < maxConcurrent /\ active' = active + 1)
           /\ (~Holds(r) /\ Holds(r)') => active < maxConcurrent
<1> USE DEF caps, queues, req
<1>0. /\ active \in Int /\ maxConcurrent \in Int
      /\ pc[r] \notin Blocked => r \notin tokens
      /\ \A p : Goto(r, p) => pc'[r] = p
      /\ Leave(r) => pc'[r] = "idle"
    BY CapsAreNat DEF Types, NoStrandedWaiter, Blocked, Goto, Leave
<1>1. ASSUME RemoveWaiter(r) PROVE SomeoneQueued' => SomeoneQueued
    <2>1. /\ admitted \in Seq(Runs) /\ IsInjective(admitted)
          /\ ring \in Seq(Keys) /\ IsInjective(ring)
          /\ ToSet(ring) = {j \in Keys : buckets[j] # <<>>}
          /\ \A j \in Keys : buckets[j] \in Seq(Runs)
        BY DEF Types, NoStrandedWaiter
    <2>2. /\ ToSet(admitted') = ToSet(admitted) \ {r}
          /\ \A j \in Keys : ToSet(buckets'[j]) = ToSet(buckets[j]) \ {r}
          /\ ToSet(ring') = {j \in Keys : buckets'[j] # <<>>}
        BY <1>1, RemoveMembers
    <2>3. /\ admitted' \in Seq(Runs) /\ ring' \in Seq(Keys)
          /\ buckets' \in [Keys -> Seq(Runs)]
        BY <1>1, RemoveTypes
    <2>4. admitted' # <<>> => admitted # <<>>
        BY <2>1, <2>2, <2>3, FifoEmpty
    <2>5. \A j \in Keys : buckets'[j] # <<>> => buckets[j] # <<>>
        <3>1. \A j \in Keys : buckets'[j] = <<>> <=> ToSet(buckets'[j]) = {}
            BY <2>3, FifoEmpty
        <3>2. \A j \in Keys : buckets[j] = <<>> <=> ToSet(buckets[j]) = {}
            BY <2>1, FifoEmpty
        <3> QED BY <2>2, <3>1, <3>2
    <2>6. ring' # <<>> => ring # <<>>
        <3>1. (ring' = <<>> <=> ToSet(ring') = {}) /\ (ring = <<>> <=> ToSet(ring) = {})
            BY <2>1, <2>3, FifoEmpty
        <3> QED BY <2>1, <2>2, <2>5, <3>1
    <2> QED BY <2>4, <2>6 DEF SomeoneQueued
<1>2. CASE Enter(r)
    <2>1. ASSUME NEW o \in SnapshotOps, NEW k \in Keys, ReadCap(r, o, k) PROVE pc'[r] = "capRead"
              /\ UNCHANGED <<maxConcurrent, active, wakes, admitted, buckets, ring>>
        BY <1>0, <2>1 DEF ReadCap
    <2>2. ASSUME NEW k \in Keys, AdmitSlot(r, k) PROVE pc'[r] = "capRead"
              /\ UNCHANGED <<maxConcurrent, active, wakes, admitted, buckets, ring>>
        BY <1>0, <2>2 DEF AdmitSlot
    <2>3. ASSUME TryAcquire(r) \/ Wait(r)
          PROVE /\ UNCHANGED <<maxConcurrent, wakes>>
                /\ \/ active < maxConcurrent /\ active' = active + 1 /\ UNCHANGED queues
                   \/ /\ active >= maxConcurrent /\ active' = active /\ pc'[r] = "waiting"
                      /\ r \notin tokens'
        BY <1>0, <2>3 DEF TryAcquire, Wait, TakeFreeSlot, QueueAdmitted, Blocked
    <2> QED BY <1>0, <1>2, <2>1, <2>2, <2>3 DEF Enter, Holds
<1>3. CASE AcquireForUser(r) \/ WaitForUser(r)
    BY <1>0, <1>3 DEF AcquireForUser, WaitForUser, TakeFreeSlot, QueueAdmitted, Holds,
        Blocked
<1>4. CASE ReserveUser(r) \/ AdmitUserLocal(r)
    BY <1>0, <1>4 DEF ReserveUser, AdmitUserLocal, Holds
<1>5. CASE AdmitNew(r) \/ AdmitWaited(r)
    <2>1. PICK b \in BOOLEAN : AdmitGlobal(r, b)
        BY <1>5 DEF AdmitNew, AdmitWaited
    <2>2. GiveBackUser(r, {}) /\ MuFree => Global \notin wakes'
        BY GlobalIsNoKey, CallerTypes DEF GiveBackUser, GivesBack, PerUserActive, Keys
    <2>3. MuFree
        BY <1>5 DEF AdmitNew, AdmitWaited
    <2> QED BY <1>0, <2>1, <2>2, <2>3 DEF AdmitGlobal, Holds, MuFree
<1>6. CASE ReceiveSlot(r)
    BY <1>0, <1>6 DEF ReceiveSlot, Holds
<1>7. CASE CancelUserWaiter(r)
    <2>1. PerUserActive(r) \/ key[r] \in Keys
        BY DEF Types
    <2> QED BY <1>0, <1>7, <2>1, GlobalIsNoKey DEF CancelUserWaiter, Holds, MuFree, Types
<1>8. CASE CancelWaiter(r) \/ ReclaimCancelled(r)
    <2>1. GiveBackUser(r, {}) => Global \notin wakes'
        BY GlobalIsNoKey, CallerTypes DEF GiveBackUser, GivesBack, PerUserActive, Keys
    <2>2. GiveBackUser(r, {Global}) => Global \in wakes'
        BY DEF GiveBackUser
    <2> QED BY <1>0, <1>1, <1>8, <2>1, <2>2
            DEF CancelWaiter, ReclaimCancelled, Holds, MuFree
<1>9. CASE End(r)
    <2>1. GiveBackUser(r, {}) => Global \notin wakes'
        BY GlobalIsNoKey, CallerTypes DEF GiveBackUser, GivesBack, PerUserActive, Keys
    <2>2. GiveBackUser(r, {Global}) => Global \in wakes'
        BY DEF GiveBackUser
    <2> QED BY <1>0, <1>9, <2>1, <2>2
            DEF End, EndRun, EndLent, EndRunLent, ReleaseReserve, Holds, MuFree
<1>10. CASE Lend(r) \/ TryReclaim(r) \/ Reclaim(r)
    BY <1>0, <1>10 DEF Lend, TryReclaim, Reclaim, QueueAdmitted, Holds, Blocked
<1> QED BY <1>2, <1>3, <1>4, <1>5, <1>6, <1>7, <1>8, <1>9, <1>10 DEF Step, Cancel

\* A step leaves no waiter beside a free slot once the wake loop has run.
LEMMA NoIdleStep ==
    ASSUME Types, Types', NoStrandedWaiter, NoIdleSlot, Next
    PROVE  NoIdleSlot'
<1>0. active \in Int /\ maxConcurrent \in Int
    BY CapsAreNat DEF Types
<1>1. ASSUME NEW r \in Runs,
             Enter(r) \/ Step(r) \/ Cancel(r) \/ End(r) \/ Lend(r) \/ TryReclaim(r) \/ Reclaim(r)
      PROVE  NoIdleSlot'
    <2>1. /\ UNCHANGED maxConcurrent
          /\ \/ Global \in wakes'
             \/ /\ active' >= active /\ wakes' \cap {Global} = wakes \cap {Global}
                /\ UNCHANGED queues \/ (SomeoneQueued' => SomeoneQueued)
                      \/ active >= maxConcurrent
        BY <1>1, AdmissionStep
    <2>2. active' \in Int
        BY DEF Types
    <2> QED BY <1>0, <2>1, <2>2 DEF NoIdleSlot, SomeoneQueued, queues
<1>2. CASE WakeNext \/ WakeNextDone
    BY <1>0, <1>2 DEF WakeNext, WakeNextDone, NoIdleSlot, SomeoneQueued, caps, queues
<1>3. CASE \E u \in Users : WakeUser(u) \/ WakeUserDone(u)
    <2>1. Global \in wakes' <=> Global \in wakes
        BY <1>3, GlobalIsNoKey DEF WakeUser, WakeUserDone, Keys
    <2> QED BY <1>3, <2>1 DEF WakeUser, WakeUserDone, NoIdleSlot, SomeoneQueued, caps,
        queues
<1>4. CASE Reload
    <2>1. CASE \E c \in MaxConcurrents, q \in MaxQueues : SetCaps(c, q)
        BY <2>1 DEF SetCaps, NoIdleSlot
    <2>2. CASE \E n \in Nat : WithPerUserCap(n) \/ WithQueuedPerUserCap(n)
        BY <2>2 DEF WithPerUserCap, WithQueuedPerUserCap, MuFree, NoIdleSlot,
            SomeoneQueued, queues
    <2> QED BY <1>4, <2>1, <2>2, CapsAreNat DEF Reload
<1> QED BY <1>1, <1>2, <1>3, <1>4 DEF Next, Wake

\* A step takes the slots in use over no cap that was not configured.
LEMMA BoundStep ==
    ASSUME Types, Types', NoStrandedWaiter, SlotsBounded, Next
    PROVE  SlotsBounded'
<1>0. active \in Int /\ maxConcurrent \in MaxConcurrents /\ MaxConcurrents \subseteq Int
    BY CapsAreNat DEF Types
<1>1. active' <= active \/ (active < maxConcurrent /\ active' = active + 1)
    <2>1. ASSUME NEW r \in Runs,
                 Enter(r) \/ Step(r) \/ Cancel(r) \/ End(r) \/ Lend(r) \/ TryReclaim(r) \/ Reclaim(r)
          PROVE  active' <= active \/ (active < maxConcurrent /\ active' = active + 1)
        BY <2>1, AdmissionStep
    <2>2. ASSUME Wake \/ Reload
          PROVE  active' = active \/ (active < maxConcurrent /\ active' = active + 1)
        BY <2>2 DEF Wake, WakeNext, WakeNextDone, WakeUser, WakeUserDone, Reload, SetCaps,
                    WithPerUserCap, WithQueuedPerUserCap
    <2> QED BY <1>0, <2>1, <2>2 DEF Next
<1>2. PICK c \in MaxConcurrents : active <= c
    BY DEF SlotsBounded
<1>3. active' \in Int /\ c \in Int
    BY <1>0 DEF Types
<1>4. active' <= c \/ active' <= maxConcurrent
    BY <1>0, <1>1, <1>2, <1>3
<1> QED BY <1>0, <1>4 DEF SlotsBounded

\* The inductive invariant: the queues say where the blocked callers are, which
\* the types of the queue operations and the counters both rest on.
IInv == /\ Types /\ CallerInv /\ NoStrandedWaiter /\ SlotAccounting
        /\ NoIdleSlot /\ SlotsBounded

\* The initial states satisfy the invariant.
LEMMA InitIInv == Init => IInv
<1> SUFFICES ASSUME Init PROVE IInv
    OBVIOUS
<1>1. Types
    BY CapsAreNat DEF Init, Types, Phases, Keys
<1>2. CallerInv
    BY DEF Init, CallerInv
<1>3. \A r \in Runs : pc[r] = "idle" /\ op[r] = "none"
    BY DEF Init
<1>4. ToSet(<<>>) = {} /\ IsInjective(<<>>)
    BY DEF ToSet, IsInjective
<1>5. NoStrandedWaiter
    <2>1. /\ {r \in Runs : SlotWaiter(r) /\ AlreadyAdmitted(r)} = {}
          /\ \A k \in Keys : {r \in Runs : SlotWaiter(r) /\ ~AlreadyAdmitted(r) /\ key[r] = k} = {}
          /\ \A u \in Users : {r \in Runs : pc[r] = "userWait" /\ r \notin tokens /\ key[r] = u} = {}
        BY <1>3 DEF SlotWaiter
    <2>2. /\ admitted = <<>> /\ ring = <<>> /\ tokens = {}
          /\ \A k \in Keys : buckets[k] = <<>>
          /\ \A u \in Users : userWait[u] = <<>>
        BY DEF Init
    <2> QED BY <1>4, <2>1, <2>2 DEF NoStrandedWaiter
<1>6. SlotAccounting
    <2>1. SlotHolders = {} /\ PlaceHolders = {} /\ Lenders = {}
        BY <1>3 DEF SlotHolders, PlaceHolders, Lenders, SlotWaiter
    <2> QED BY <2>1, FS_EmptySet DEF Init, SlotAccounting
<1>7. NoIdleSlot /\ SlotsBounded
    BY CapsAreNat DEF Init, NoIdleSlot, SomeoneQueued, SlotsBounded
<1> QED BY <1>1, <1>2, <1>5, <1>6, <1>7 DEF IInv

\* Every step, and every stuttering step, keeps the invariant.
LEMMA NextIInv == IInv /\ [Next]_vars => IInv'
<1> SUFFICES ASSUME IInv, [Next]_vars PROVE IInv'
    OBVIOUS
<1>1. CASE Next
    BY <1>1, TypesStep, CallerInvStep, QueuesStep, AccountingStep, NoIdleStep,
        BoundStep DEF IInv
<1>2. CASE UNCHANGED vars
    <2>1. Types' /\ CallerInv'
        BY <1>2 DEF IInv, Types, CallerInv, PerUserActive, CanLend, vars, caps, queues, req
    <2>2. NoStrandedWaiter'
        BY <1>2 DEF IInv, NoStrandedWaiter, SlotWaiter, AlreadyAdmitted, NeverRefused,
                    vars, queues, req
    <2>3. SlotAccounting'
        BY <1>2 DEF IInv, SlotAccounting, SlotHolders, PlaceHolders, Lenders,
            SlotWaiter, vars
    <2>4. NoIdleSlot' /\ SlotsBounded'
        BY <1>2 DEF IInv, NoIdleSlot, SlotsBounded, SomeoneQueued, vars, caps, queues
    <2> QED BY <2>1, <2>2, <2>3, <2>4 DEF IInv
<1> QED BY <1>1, <1>2

\* The counters are not negative because they count callers.
LEMMA IInvTypeOK == IInv => TypeOK
<1> SUFFICES ASSUME IInv PROVE TypeOK
    OBVIOUS
<1>1. SlotHolders \subseteq Runs /\ PlaceHolders \subseteq Runs /\ Lenders \subseteq Runs
    BY DEF SlotHolders, PlaceHolders, Lenders
<1>2. active \in Nat /\ queued \in Nat /\ lent \in Nat
    BY <1>1, RunsFinite, FS_Subset, FS_CardinalityType DEF IInv, SlotAccounting
<1> QED BY <1>2 DEF IInv, Types, TypeOK

\* The semaphore always satisfies the inductive invariant.
THEOREM Invariance == Spec => []IInv
<1> QED BY InitIInv, NextIInv, PTL DEF Spec

\* For every set of callers, users and caps: the semaphore's state is well typed,
\* its counters never go below zero (Semaphore.active/queued/lent).
THEOREM TypeCorrect == Spec => []TypeOK
<1> QED BY Invariance, IInvTypeOK, PTL

\* Nobody who is blocked is ever out of every queue without a token, in two
\* queues at once, or in a bucket the ring does not list.
THEOREM NobodyStranded == Spec => []NoStrandedWaiter
<1>1. IInv => NoStrandedWaiter
    BY DEF IInv
<1> QED BY Invariance, <1>1, PTL

\* active, queued and lent always count the callers they stand for.
THEOREM CountersAccurate == Spec => []SlotAccounting
<1>1. IInv => SlotAccounting
    BY DEF IInv
<1> QED BY Invariance, <1>1, PTL

\* No slot is ever left idle beside a waiter, over reloads and cancels too.
THEOREM NoSlotIdle == Spec => []NoIdleSlot
<1>1. IInv => NoIdleSlot
    BY DEF IInv
<1> QED BY Invariance, <1>1, PTL

\* The slots in use never exceed every configured cap.
THEOREM SlotsWithinCaps == Spec => []SlotsBounded
<1>1. IInv => SlotsBounded
    BY DEF IInv
<1> QED BY Invariance, <1>1, PTL

\* Nobody takes a slot past the callers that wait for one.
THEOREM NobodyBarges == Spec => NoBarging
<1>1. IInv /\ [Next]_vars => [\A r \in Runs : (MuFree /\ r \notin SlotHolders /\ r \in SlotHolders')
                                => ~SomeoneQueued]_vars
    <2> SUFFICES ASSUME IInv, Next, NEW r \in Runs, MuFree, r \notin SlotHolders,
                        r \in SlotHolders'
                 PROVE  ~SomeoneQueued
        OBVIOUS
    <2>1. ~Holds(r) /\ Holds(r)'
        BY DEF SlotHolders, Holds
    <2>2. active < maxConcurrent
        <3>1. ASSUME NEW x \in Runs,
                     Enter(x) \/ Step(x) \/ Cancel(x) \/ End(x) \/ Lend(x) \/ TryReclaim(x) \/ Reclaim(x)
              PROVE  active < maxConcurrent
            <4>1. OnlyMoves(x)
                BY <3>1, CallerMoves DEF IInv
            <4>2. x = r
                BY <2>1, <4>1 DEF OnlyMoves, Holds
            <4> QED BY <2>1, <3>1, <4>2, AdmissionStep DEF IInv
        <3>2. ASSUME Wake PROVE FALSE
            BY <3>2 DEF MuFree, Wake, WakeNext, WakeNextDone, WakeUser, WakeUserDone
        <3>3. ASSUME Reload PROVE FALSE
            <4>1. UNCHANGED <<pc, tokens>>
                BY <3>3 DEF Reload, SetCaps, WithPerUserCap, WithQueuedPerUserCap
            <4> QED BY <2>1, <4>1 DEF Holds
        <3> QED BY <3>1, <3>2, <3>3 DEF Next
    <2>3. active \in Int /\ maxConcurrent \in Int
        BY CapsAreNat DEF IInv, Types
    <2> QED BY <2>2, <2>3 DEF IInv, NoIdleSlot, MuFree
<1> QED BY Invariance, <1>1, PTL DEF Spec, NoBarging

-----------------------------------------------------------------------------
\* Refinement of SlotPool.  What a caller's step does to its slot: it keeps what
\* it has, takes a free slot, joins the wait when none is free, gives up the wait
\* or gives back the slot.
PoolEffect(r) ==
    \/ (Holds(r)' <=> Holds(r)) /\ (SlotWaiter(r)' <=> SlotWaiter(r))
    \/ /\ ~Holds(r) /\ Holds(r)' /\ ~SlotWaiter(r) /\ ~SlotWaiter(r)' /\ MuFree
       /\ active < maxConcurrent
    \/ /\ ~Holds(r) /\ ~Holds(r)' /\ ~SlotWaiter(r) /\ SlotWaiter(r)'
       /\ active >= maxConcurrent
    \/ ~Holds(r) /\ ~Holds(r)' /\ SlotWaiter(r) /\ ~SlotWaiter(r)'
    \/ Holds(r) /\ ~Holds(r)' /\ ~SlotWaiter(r) /\ ~SlotWaiter(r)'

\* Every caller's step has one of these effects.
LEMMA CallerPoolEffect ==
    ASSUME Types, NoStrandedWaiter, NEW r \in Runs,
           Enter(r) \/ Step(r) \/ Cancel(r) \/ End(r) \/ Lend(r) \/ TryReclaim(r) \/ Reclaim(r)
    PROVE  PoolEffect(r)
<1> USE DEF PoolEffect, Holds, SlotWaiter, caps, queues, req
<1>0. /\ pc[r] \notin Blocked => r \notin tokens
      /\ \A p : Goto(r, p) => pc'[r] = p
      /\ Leave(r) => pc'[r] = "idle"
      /\ InQueues(r) => r \notin tokens
    BY DEF Types, NoStrandedWaiter, Blocked, Goto, Leave, InQueues
<1>1. CASE Enter(r)
    <2>1. ASSUME NEW o \in SnapshotOps, NEW k \in Keys, ReadCap(r, o, k) PROVE PoolEffect(r)
        BY <1>0, <2>1 DEF ReadCap
    <2>2. ASSUME NEW k \in Keys, AdmitSlot(r, k) PROVE PoolEffect(r)
        BY <1>0, <2>2 DEF AdmitSlot
    <2>3. CASE TryAcquire(r)
        BY <1>0, <2>3 DEF TryAcquire, TakeFreeSlot
    <2>4. CASE Wait(r)
        BY <1>0, <2>4 DEF Wait, TakeFreeSlot, QueueAdmitted, Blocked
    <2> QED BY <1>1, <2>1, <2>2, <2>3, <2>4 DEF Enter
<1>2. CASE AcquireForUser(r) \/ WaitForUser(r)
    BY <1>0, <1>2 DEF AcquireForUser, WaitForUser, TakeFreeSlot, QueueAdmitted, Blocked
<1>3. CASE ReserveUser(r) \/ AdmitUserLocal(r)
    BY <1>0, <1>3 DEF ReserveUser, AdmitUserLocal
<1>4. CASE AdmitNew(r) \/ AdmitWaited(r)
    BY <1>0, <1>4 DEF AdmitNew, AdmitWaited, AdmitGlobal
<1>5. CASE ReceiveSlot(r)
    BY <1>0, <1>5 DEF ReceiveSlot
<1>6. CASE Cancel(r)
    BY <1>0, <1>6 DEF Cancel, CancelUserWaiter, CancelWaiter, ReclaimCancelled
<1>7. CASE End(r)
    BY <1>0, <1>7 DEF End, EndRun, EndLent, EndRunLent, ReleaseReserve
<1>8. CASE Lend(r) \/ TryReclaim(r) \/ Reclaim(r)
    BY <1>0, <1>8 DEF Lend, TryReclaim, Reclaim, QueueAdmitted, Blocked
<1> QED BY <1>1, <1>2, <1>3, <1>4, <1>5, <1>6, <1>7, <1>8 DEF Step

\* The callers that wait for a slot.
Waiters == {x \in Runs : SlotWaiter(x)}

\* Somebody waits for a slot exactly when one of the slot queues is not empty.
LEMMA WaitersQueued ==
    ASSUME Types, NoStrandedWaiter
    PROVE  SomeoneQueued <=> Waiters # {}
<1>1. /\ admitted = <<>> <=> ToSet(admitted) = {}
      /\ ring = <<>> <=> ToSet(ring) = {}
    BY FifoEmpty DEF Types
<1>2. \A k \in Keys : buckets[k] = <<>> <=> ToSet(buckets[k]) = {}
    BY FifoEmpty DEF Types
<1>3. \A x \in Runs : key[x] \in Keys
    BY DEF Types
<1> QED BY <1>1, <1>2, <1>3 DEF NoStrandedWaiter, SomeoneQueued, Waiters

\* Every step of the semaphore is a step of the slot pool or leaves it alone.
LEMMA PoolStep == IInv /\ [Next]_vars => [Pool!PoolNext]_(Pool!poolVars)
<1> SUFFICES ASSUME IInv, [Next]_vars PROVE [Pool!PoolNext]_(Pool!poolVars)
    OBVIOUS
<1> USE DEF Pool!PoolNext, Pool!poolVars
<1>0. /\ SlotHolders = {x \in Runs : Holds(x)} /\ SlotHolders' = {x \in Runs : Holds(x)'}
      /\ Waiters = {x \in Runs : SlotWaiter(x)}
      /\ Waiters' = {x \in Runs : SlotWaiter(x)'}
      /\ Cardinality(SlotHolders) = active
      /\ active \in Int /\ maxConcurrent \in Int
    BY CapsAreNat DEF SlotHolders, Holds, Waiters, IInv, SlotAccounting, Types
<1>free. Pool!FreeSlot <=> active < maxConcurrent
    <2>1. Pool!Cardinality(SlotHolders) = Cardinality(SlotHolders)
        BY DEF Pool!Cardinality, Cardinality
    <2> QED BY <1>0, <2>1 DEF Pool!FreeSlot
<1>1. ASSUME NEW r \in Runs,
             Enter(r) \/ Step(r) \/ Cancel(r) \/ End(r) \/ Lend(r) \/ TryReclaim(r) \/ Reclaim(r)
      PROVE  [Pool!PoolNext]_(Pool!poolVars)
    <2>1. PoolEffect(r) /\ OnlyMoves(r) /\ UNCHANGED maxConcurrent
        BY <1>1, CallerPoolEffect, CallerMoves, AdmissionStep DEF IInv
    <2>2. \A x \in Runs \ {r} : (Holds(x)' <=> Holds(x)) /\ (SlotWaiter(x)' <=> SlotWaiter(x))
        BY <2>1 DEF OnlyMoves, Holds, SlotWaiter
    <2>3. ASSUME (Holds(r)' <=> Holds(r)) /\ (SlotWaiter(r)' <=> SlotWaiter(r))
          PROVE  UNCHANGED <<maxConcurrent, SlotHolders, Waiters>>
        BY <1>0, <2>1, <2>2, <2>3
    <2>4. ASSUME ~Holds(r), Holds(r)', ~SlotWaiter(r), ~SlotWaiter(r)', MuFree, active < maxConcurrent
          PROVE  Pool!Take(r)
        <3>1. /\ SlotHolders' = SlotHolders \cup {r} /\ r \notin SlotHolders
              /\ Waiters' = Waiters
            BY <1>0, <2>2, <2>4
        <3>2. Waiters = {}
            BY <1>0, <2>4, WaitersQueued DEF IInv, NoIdleSlot, MuFree
        <3> QED BY <1>free, <2>1, <2>4, <3>1, <3>2 DEF Pool!Take, Waiters
    <2>5. ASSUME ~Holds(r), ~Holds(r)', ~SlotWaiter(r), SlotWaiter(r)', active >= maxConcurrent
          PROVE  Pool!Queue(r)
        <3>1. /\ SlotHolders' = SlotHolders /\ r \notin SlotHolders \cup Waiters
              /\ Waiters' = Waiters \cup {r}
            BY <1>0, <2>2, <2>5
        <3> QED BY <1>0, <1>free, <2>1, <2>5, <3>1 DEF Pool!Queue, Waiters
    <2>6. ASSUME ~Holds(r), ~Holds(r)', SlotWaiter(r), ~SlotWaiter(r)' PROVE Pool!Withdraw(r)
        <3>1. SlotHolders' = SlotHolders /\ r \in Waiters /\ Waiters' = Waiters \ {r}
            BY <1>0, <2>2, <2>6
        <3> QED BY <2>1, <3>1 DEF Pool!Withdraw, Waiters
    <2>7. ASSUME Holds(r), ~Holds(r)', ~SlotWaiter(r), ~SlotWaiter(r)' PROVE Pool!GiveBack(r)
        <3>1. SlotHolders' = SlotHolders \ {r} /\ r \in SlotHolders /\ Waiters' = Waiters
            BY <1>0, <2>2, <2>7
        <3> QED BY <2>1, <3>1 DEF Pool!GiveBack, Waiters
    <2> QED BY <2>1, <2>3, <2>4, <2>5, <2>6, <2>7 DEF PoolEffect, Waiters
<1>2. CASE WakeNext
    <2>1. PICK r \in Runs : OnlyMoves(r) /\ UNCHANGED <<pc, req>> /\ SlotWaiter(r) /\ r \in tokens'
        BY <1>2, WakeNextQueues DEF IInv
    <2>2. active < maxConcurrent /\ UNCHANGED maxConcurrent
        BY <1>2 DEF WakeNext, caps
    <2>3. \A x \in Runs \ {r} : (Holds(x)' <=> Holds(x)) /\ (SlotWaiter(x)' <=> SlotWaiter(x))
        BY <2>1 DEF OnlyMoves, Holds, SlotWaiter
    <2>4. Holds(r)' /\ ~SlotWaiter(r)'
        BY <2>1 DEF Holds, SlotWaiter
    <2>5. SlotHolders' = SlotHolders \cup {r} /\ r \in Waiters /\ Waiters' = Waiters \ {r}
        BY <1>0, <2>1, <2>3, <2>4
    <2> QED BY <1>free, <2>2, <2>5 DEF Pool!Grant, Waiters
<1>3. CASE \E u \in Users : WakeUser(u)
    <2>1. PICK u \in Users : WakeUser(u)
        BY <1>3
    <2>2. PICK r \in Runs : r = Head(userWait[u]) /\ OnlyMoves(r) /\ r \in ToSet(userWait[u])
        BY <2>1, WakeUserQueues DEF IInv
    <2>3. pc[r] = "userWait" /\ UNCHANGED <<pc, maxConcurrent>>
        BY <2>1, <2>2 DEF IInv, NoStrandedWaiter, WakeUser, caps
    <2>4. \A x \in Runs : (Holds(x)' <=> Holds(x)) /\ (SlotWaiter(x)' <=> SlotWaiter(x))
        BY <2>2, <2>3 DEF OnlyMoves, Holds, SlotWaiter
    <2>5. UNCHANGED <<maxConcurrent, SlotHolders, Waiters>>
        BY <1>0, <2>3, <2>4
    <2> QED BY <2>5 DEF Waiters
<1>4. CASE Reload \/ WakeNextDone \/ (\E u \in Users : WakeUserDone(u)) \/ UNCHANGED vars
    <2>1. UNCHANGED <<pc, tokens>> /\ (maxConcurrent' \in MaxConcurrents)
        BY <1>4 DEF Reload, SetCaps, WithPerUserCap, WithQueuedPerUserCap, WakeNextDone,
                    WakeUserDone, vars, caps, IInv, Types
    <2>2. UNCHANGED <<SlotHolders, Waiters>>
        BY <2>1 DEF SlotHolders, Waiters, SlotWaiter
    <2> QED BY <2>1, <2>2 DEF Pool!Resize, Waiters
<1> QED BY <1>1, <1>2, <1>3, <1>4 DEF Next, Wake

\* The semaphore implements the slot pool, for every set of callers and caps.
THEOREM RefinesSlotPool == Spec => ImplementsSlotPool
<1>1. Init => Pool!PoolInit
    BY DEF Init, Pool!PoolInit, SlotHolders, SlotWaiter
<1> QED BY Invariance, PoolStep, <1>1, PTL DEF Spec, ImplementsSlotPool, Pool!PoolSpec

-----------------------------------------------------------------------------
\* The per-user counts.  AcquireForUser gives back what it never counted when the
\* per-user cap was off as it was called, so the counts are exact only where that
\* cannot happen.
CountsPaired == "AcquireForUser" \notin Ops \/ 0 \notin MaxPerUsers

\* The cap each kind of call goes by.
CapInv ==
    \A r \in Runs : /\ op[r] = "AcquireForUser" => cap[r] > 0
                    /\ op[r] \in {"AdmitSlot", "TryAcquire", "Wait", "none"} => cap[r] = 0

\* The caller is counted against user u.
Counted(r, u) ==
    /\ key[r] = u /\ cap[r] > 0
    /\ \/ pc[r] \in {"counted", "waiting", "running", "lent", "reclaiming", "ending", "reserved"}
       \/ pc[r] = "userWait" /\ r \in tokens

\* A step keeps the caps the calls go by.
LEMMA CapInvStep ==
    ASSUME Types, CapInv, CountsPaired, Next
    PROVE  CapInv'
<1> USE DEF Types, CapInv, caps, req
<1>0. maxPerUser \in Nat /\ (0 \notin MaxPerUsers => maxPerUser > 0)
    BY CapsAreNat
<1>1. ASSUME NEW r \in Runs, NEW o \in SnapshotOps, NEW k \in Keys, ReadCap(r, o, k) PROVE CapInv'
    <2>1. o \in Ops /\ o \notin {"AdmitSlot", "TryAcquire", "Wait", "none"}
        BY <1>1 DEF ReadCap, SnapshotOps
    <2>2. o = "AcquireForUser" => maxPerUser > 0
        BY <1>0, <2>1 DEF CountsPaired
    <2>3. /\ op' = [op EXCEPT ![r] = o] /\ cap' = [cap EXCEPT ![r] = maxPerUser]
        BY <1>1 DEF ReadCap, Called
    <2> QED BY <2>1, <2>2, <2>3
<1>2. ASSUME NEW r \in Runs, NEW k \in Keys, AdmitSlot(r, k) PROVE CapInv'
    BY <1>2 DEF AdmitSlot, Called
<1>3. ASSUME NEW r \in Runs, TryAcquire(r) \/ Wait(r) PROVE CapInv'
    BY <1>3 DEF TryAcquire, Wait, Called
<1>4. ASSUME NEW r \in Runs, Step(r) \/ Cancel(r) \/ End(r) \/ Lend(r) \/ TryReclaim(r) \/ Reclaim(r)
      PROVE  CapInv'
    <2>1. UNCHANGED <<op, cap>> \/ Leave(r)
        BY <1>4 DEF Step, AcquireForUser, ReserveUser, WaitForUser, AdmitUserLocal,
            AdmitNew,
                    AdmitWaited, AdmitGlobal, ReceiveSlot, Cancel, CancelUserWaiter, CancelWaiter,
                    ReclaimCancelled, End, EndRun, EndLent, EndRunLent, ReleaseReserve, Lend,
                    TryReclaim, Reclaim
    <2> QED BY <2>1 DEF Leave
<1>5. ASSUME Wake \/ Reload PROVE CapInv'
    BY <1>5 DEF Wake, WakeNext, WakeNextDone, WakeUser, WakeUserDone, Reload, SetCaps,
                WithPerUserCap, WithQueuedPerUserCap
<1> QED BY <1>1, <1>2, <1>3, <1>4, <1>5 DEF Next, Enter

\* A step that moves one caller keeps the counts right if they follow it.
LEMMA UserMove ==
    ASSUME UserAccounting, NEW r \in Runs, OnlyMoves(r),
           \A u \in Users : perUser'[u] = perUser[u] + One(Counted(r, u)') - One(Counted(r, u))
    PROVE  UserAccounting'
<1> SUFFICES ASSUME NEW u \in Users PROVE perUser'[u] = Cardinality(CountedRuns(u)')
    BY DEF UserAccounting
<1>1. /\ CountedRuns(u) = {x \in Runs : Counted(x, u)}
      /\ CountedRuns(u)' = {x \in Runs : Counted(x, u)'}
    BY DEF CountedRuns, Counted
<1>2. \A x \in Runs \ {r} : Counted(x, u)' <=> Counted(x, u)
    BY DEF OnlyMoves, Counted
<1>3. SameBut(CountedRuns(u)', CountedRuns(u), r)
    BY <1>1, <1>2 DEF SameBut
<1>4. IsFiniteSet(CountedRuns(u))
    BY <1>1, RunsFinite, FS_Subset
<1>5. Cardinality(CountedRuns(u)') = Cardinality(CountedRuns(u)) + One(Counted(r, u)') - One(Counted(r, u))
    BY <1>1, <1>3, <1>4, CountStep DEF One
<1> QED BY <1>5 DEF UserAccounting

\* Who is counted has a count to give back.
LEMMA CountedPositive ==
    ASSUME UserAccounting, NEW r \in Runs, NEW u \in Users, Counted(r, u)
    PROVE  perUser[u] \in Nat /\ perUser[u] > 0
<1>1. r \in CountedRuns(u)
    BY DEF CountedRuns, Counted
<1>2. IsFiniteSet(CountedRuns(u))
    BY RunsFinite, FS_Subset DEF CountedRuns
<1>3. Cardinality(CountedRuns(u)) \in Nat /\ Cardinality(CountedRuns(u)) # 0
    BY <1>1, <1>2, FS_CardinalityType, FS_EmptySet
<1> QED BY <1>3 DEF UserAccounting

\* Counting and giving back, for a caller that was not counted and for one that was.
LEMMA CountPaired ==
    ASSUME Types, CapInv, UserAccounting, NEW r \in Runs, NEW u \in Users
    PROVE  /\ CountUser(r) => perUser'[u] = perUser[u] + One(PerUserActive(r) /\ key[r] = u)
           /\ \A loops \in SUBSET {Global} :
                 GiveBackUser(r, loops) /\ (PerUserActive(r) => Counted(r, key[r]))
                    => perUser'[u] = perUser[u] - One(PerUserActive(r) /\ key[r] = u)
<1>0. /\ perUser \in [Users -> Nat] /\ (PerUserActive(r) => key[r] \in Users)
      /\ cap[r] \in Nat
    <2>1. perUser \in [Users -> Nat] /\ cap[r] \in MaxPerUsers \cup {0}
        BY DEF Types
    <2>2. cap[r] \in Nat
        <3>1. 0 \in Nat /\ MaxPerUsers \subseteq Nat
            BY CapsAreNat
        <3> QED BY <2>1, <3>1
    <2>3. PerUserActive(r) => key[r] \in Users
        BY CallerTypes DEF PerUserActive
    <2> QED BY <2>1, <2>2, <2>3
<1>1. ASSUME CountUser(r) PROVE perUser'[u] = perUser[u] + One(PerUserActive(r) /\ key[r] = u)
    BY <1>0, <1>1 DEF CountUser, One
<1>2. GivesBack(r) <=> PerUserActive(r)
    BY <1>0 DEF GivesBack, PerUserActive, CapInv
<1>3. ASSUME NEW loops \in SUBSET {Global}, GiveBackUser(r, loops),
             PerUserActive(r) => Counted(r, key[r])
      PROVE  perUser'[u] = perUser[u] - One(PerUserActive(r) /\ key[r] = u)
    <2>1. CASE PerUserActive(r)
        <3>1. perUser[key[r]] > 0
            BY <1>0, <1>3, <2>1, CountedPositive
        <3>2. perUser' = [perUser EXCEPT ![key[r]] = perUser[key[r]] - 1]
            BY <1>2, <1>3, <2>1, <3>1 DEF GiveBackUser, Decremented
        <3> QED BY <1>0, <2>1, <3>2 DEF One
    <2>2. CASE ~PerUserActive(r)
        BY <1>0, <1>2, <1>3, <2>2 DEF GiveBackUser, One
    <2> QED BY <2>1, <2>2
<1> QED BY <1>1, <1>3

\* A step keeps the per-user counts in step with the callers they count.
LEMMA UserAccountingStep ==
    ASSUME Types, CallerInv, NoStrandedWaiter, CapInv, UserAccounting, Next
    PROVE  UserAccounting'
<1> USE DEF caps, queues, req
<1> DEFINE Kept(r) == \A u \in Users :
                         perUser'[u] = perUser[u] + One(Counted(r, u)') - One(Counted(r, u))
<1>0. /\ perUser \in [Users -> Nat]
      /\ \A r \in Runs : \A p : Goto(r, p) => pc'[r] = p
      /\ \A r \in Runs : Leave(r) => pc'[r] = "idle" /\ cap'[r] = 0
      /\ {} \in SUBSET {Global} /\ {Global} \in SUBSET {Global}
      /\ \A u \in Users : u # NoUser
    BY NoUserIsNoUser DEF Types, Goto, Leave
<1>1. ASSUME NEW r \in Runs, NEW o \in SnapshotOps, NEW k \in Keys, ReadCap(r, o, k) PROVE Kept(r)
    BY <1>0, <1>1 DEF ReadCap, Counted, One
<1>2. ASSUME NEW r \in Runs, NEW k \in Keys, AdmitSlot(r, k) PROVE Kept(r)
    BY <1>0, <1>2 DEF AdmitSlot, Counted, One
<1>3. ASSUME NEW r \in Runs, TryAcquire(r) \/ Wait(r) PROVE Kept(r)
    <2>1. pc[r] = "idle" /\ cap'[r] = 0 /\ UNCHANGED perUser
        BY <1>3 DEF TryAcquire, Wait, Called, Types
    <2> QED BY <1>0, <2>1 DEF Counted, One
<1>4. ASSUME NEW r \in Runs, CountUser(r), pc[r] \in {"capRead"}, UNCHANGED req,
             pc'[r] \in {"counted", "waiting", "running", "reserved"}
      PROVE  Kept(r)
    <2>1. \A u \in Users : ~Counted(r, u)
        BY <1>4 DEF Counted
    <2>2. \A u \in Users : Counted(r, u)' <=> PerUserActive(r) /\ key[r] = u
        BY <1>0, <1>4 DEF Counted, PerUserActive
    <2>3. \A u \in Users : perUser'[u] = perUser[u] + One(PerUserActive(r) /\ key[r] = u)
        BY <1>4, CountPaired
    <2> QED BY <1>0, <2>1, <2>2, <2>3 DEF One
<1>5. ASSUME NEW r \in Runs, NEW loops \in SUBSET {Global}, GiveBackUser(r, loops), Leave(r),
             PerUserActive(r) => Counted(r, key[r])
      PROVE  Kept(r)
    <2>1. \A u \in Users : ~Counted(r, u)'
        BY <1>0, <1>5 DEF Counted
    <2>2. \A u \in Users : Counted(r, u) <=> PerUserActive(r) /\ key[r] = u
        BY <1>0, <1>5 DEF Counted, PerUserActive
    <2>3. \A u \in Users : perUser'[u] = perUser[u] - One(PerUserActive(r) /\ key[r] = u)
        BY <1>5, CountPaired
    <2> QED BY <1>0, <2>1, <2>2, <2>3 DEF One
<1>6. ASSUME NEW r \in Runs, pc[r] = "capRead", Leave(r), UNCHANGED perUser PROVE Kept(r)
    BY <1>0, <1>6 DEF Counted, One
<1>7. ASSUME NEW r \in Runs, AcquireForUser(r) \/ ReserveUser(r) \/ WaitForUser(r) PROVE Kept(r)
    <2>1. pc[r] = "capRead"
        BY <1>7 DEF AcquireForUser, ReserveUser, WaitForUser
    <2>2. \/ Leave(r) /\ UNCHANGED perUser
          \/ /\ CountUser(r) /\ UNCHANGED req
             /\ pc'[r] \in {"counted", "waiting", "running", "reserved"}
        BY <1>0, <1>7 DEF AcquireForUser, ReserveUser, WaitForUser, TakeFreeSlot,
            QueueAdmitted,
                          CountUser
    <2> QED BY <1>4, <1>6, <2>1, <2>2
<1>8. ASSUME NEW r \in Runs, AdmitUserLocal(r) PROVE Kept(r)
    <2>1. pc[r] = "capRead"
        BY <1>8 DEF AdmitUserLocal
    <2>2. CASE CountUser(r) /\ Goto(r, "counted") /\ UNCHANGED req
        BY <1>0, <1>4, <2>1, <2>2
    <2>3. CASE Leave(r) /\ UNCHANGED perUser
        BY <1>6, <2>1, <2>3
    <2>4. CASE Goto(r, "userWait") /\ UNCHANGED <<perUser, req>>
        <3>1. r \notin tokens' /\ pc'[r] = "userWait"
            BY <1>0, <1>8, <2>1, <2>4, NotQueued DEF AdmitUserLocal, Blocked
        <3> QED BY <1>0, <2>1, <2>4, <3>1 DEF Counted, One
    <2> QED BY <1>8, <2>2, <2>3, <2>4 DEF AdmitUserLocal
<1>9. ASSUME NEW r \in Runs, AdmitNew(r) \/ AdmitWaited(r) PROVE Kept(r)
    <2>1. PerUserActive(r) => Counted(r, key[r])
        <3>1. ASSUME op[r] = "AdmitSlot" PROVE ~PerUserActive(r)
            BY <3>1 DEF CapInv, PerUserActive
        <3> QED BY <1>9, <3>1 DEF AdmitNew, AdmitWaited, Counted, PerUserActive
    <2>2. PICK b \in BOOLEAN : AdmitGlobal(r, b)
        BY <1>9 DEF AdmitNew, AdmitWaited
    <2>3. CASE GiveBackUser(r, {}) /\ Leave(r)
        BY <1>0, <1>5, <2>1, <2>3
    <2>4. CASE UNCHANGED <<perUser, req>> /\ (Goto(r, "running") \/ Goto(r, "waiting"))
        <3>1. \A u \in Users : Counted(r, u)' <=> PerUserActive(r) /\ key[r] = u
            BY <1>0, <2>4 DEF Counted, PerUserActive
        <3>2. \A u \in Users : Counted(r, u) <=> PerUserActive(r) /\ key[r] = u
            BY <1>0, <2>1 DEF Counted, PerUserActive
        <3> QED BY <1>0, <2>4, <3>1, <3>2 DEF One
    <2> QED BY <2>2, <2>3, <2>4 DEF AdmitGlobal
<1>10. ASSUME NEW r \in Runs, ReceiveSlot(r) \/ ReclaimCancelled(r) \/ EndLent(r) \/ Lend(r)
                              \/ TryReclaim(r) \/ Reclaim(r)
       PROVE  Kept(r)
    <2>1. /\ pc[r] \in {"waiting", "reclaiming", "running", "lent"}
          /\ pc'[r] \in {"running", "lent", "ending", "reclaiming"}
          /\ UNCHANGED <<perUser, req>>
        BY <1>0, <1>10 DEF ReceiveSlot, ReclaimCancelled, EndLent, Lend, TryReclaim, Reclaim
    <2> QED BY <1>0, <2>1 DEF Counted, One
<1>11. ASSUME NEW r \in Runs, CancelUserWaiter(r) PROVE Kept(r)
    <2>0. /\ pc[r] = "userWait" /\ PerUserActive(r) /\ key[r] \in Users /\ Leave(r)
        BY <1>11, CallerTypes DEF CancelUserWaiter, CallerInv, PerUserActive
    <2>1. \A u \in Users : ~Counted(r, u)'
        BY <1>0, <2>0 DEF Counted
    <2>2. CASE r \in ToSet(userWait[key[r]])
        <3>1. r \notin tokens /\ UNCHANGED perUser
            BY <1>11, <2>0, <2>2 DEF NoStrandedWaiter, CancelUserWaiter
        <3>2. \A u \in Users : ~Counted(r, u)
            BY <2>0, <3>1 DEF Counted
        <3> QED BY <1>0, <2>1, <3>1, <3>2 DEF One
    <2>3. CASE r \notin ToSet(userWait[key[r]])
        <3>1. r \in tokens /\ perUser' = Decremented(key[r])
            BY <1>11, <2>0, <2>3 DEF NoStrandedWaiter, CancelUserWaiter
        <3>2. \A u \in Users : Counted(r, u) <=> key[r] = u
            BY <2>0, <3>1 DEF Counted, PerUserActive
        <3>3. perUser[key[r]] > 0
            BY <2>0, <3>2, CountedPositive
        <3>4. perUser' = [perUser EXCEPT ![key[r]] = perUser[key[r]] - 1]
            BY <3>1, <3>3 DEF Decremented
        <3> QED BY <1>0, <2>0, <2>1, <3>2, <3>4 DEF One
    <2> QED BY <2>2, <2>3
<1>12. ASSUME NEW r \in Runs, CancelWaiter(r) \/ EndRun(r) \/ EndRunLent(r) \/ ReleaseReserve(r)
       PROVE  Kept(r)
    <2>1. /\ pc[r] \in {"waiting", "running", "ending", "reserved"} /\ Leave(r)
          /\ GiveBackUser(r, {}) \/ GiveBackUser(r, {Global})
        BY <1>12 DEF CancelWaiter, EndRun, EndRunLent, ReleaseReserve
    <2>2. PerUserActive(r) => Counted(r, key[r])
        BY <2>1 DEF PerUserActive, Counted
    <2> QED BY <1>0, <1>5, <2>1, <2>2
<1>13. ASSUME NEW r \in Runs,
              Enter(r) \/ Step(r) \/ Cancel(r) \/ End(r) \/ Lend(r) \/ TryReclaim(r) \/ Reclaim(r)
       PROVE  UserAccounting'
    <2>1. Kept(r)
        BY <1>1, <1>2, <1>3, <1>7, <1>8, <1>9, <1>10, <1>11, <1>12, <1>13
        DEF Enter, Step, Cancel, End
    <2>2. OnlyMoves(r)
        BY <1>13, CallerMoves
    <2> QED BY <2>1, <2>2, UserMove
<1>14. ASSUME WakeNext PROVE UserAccounting'
    <2>1. PICK r \in Runs : OnlyMoves(r) /\ UNCHANGED <<pc, req>> /\ SlotWaiter(r) /\ r \in tokens'
        BY <1>14, WakeNextQueues
    <2>2. \A u \in Users : (Counted(r, u)' <=> Counted(r, u)) /\ perUser'[u] = perUser[u]
        BY <1>14, <2>1 DEF WakeNext, SlotWaiter, Counted
    <2>3. Kept(r)
        BY <1>0, <2>2 DEF One
    <2> QED BY <2>1, <2>3, UserMove
<1>15. ASSUME NEW v \in Users, WakeUser(v) PROVE UserAccounting'
    <2>1. PICK r \in Runs : r = Head(userWait[v]) /\ OnlyMoves(r) /\ r \in ToSet(userWait[v])
        BY <1>15, WakeUserQueues
    <2>2. /\ pc[r] = "userWait" /\ key[r] = v /\ r \notin tokens /\ cap[r] > 0
          /\ r \in tokens' /\ UNCHANGED <<pc, req>>
          /\ perUser' = [perUser EXCEPT ![v] = perUser[v] + 1]
        BY <1>15, <2>1 DEF NoStrandedWaiter, CallerInv, PerUserActive, WakeUser
    <2>3. \A u \in Users : ~Counted(r, u) /\ (Counted(r, u)' <=> u = v)
        BY <2>2 DEF Counted
    <2>4. Kept(r)
        BY <1>0, <2>2, <2>3 DEF One
    <2> QED BY <2>1, <2>4, UserMove
<1>16. ASSUME WakeNextDone \/ (\E u \in Users : WakeUserDone(u)) \/ Reload PROVE UserAccounting'
    <2>1. UNCHANGED <<perUser, tokens, pc, key, cap>>
        BY <1>16 DEF WakeNextDone, WakeUserDone, Reload, SetCaps, WithPerUserCap,
                     WithQueuedPerUserCap
    <2> QED BY <2>1 DEF UserAccounting, CountedRuns
<1> QED BY <1>13, <1>14, <1>15, <1>16 DEF Next, Wake

\* perUser counts the callers that were counted against each user, wherever every
\* give-back had its count: no AcquireForUser, or a per-user cap that is never off.
THEOREM UserCountsAccurate ==
    ASSUME CountsPaired
    PROVE  Spec => []UserAccounting
<1> DEFINE UInv == IInv /\ CapInv /\ UserAccounting
<1>1. Init => UInv
    <2> SUFFICES ASSUME Init PROVE UInv
        OBVIOUS
    <2>1. CapInv /\ \A u \in Users : CountedRuns(u) = {} /\ perUser[u] = 0
        BY DEF Init, CapInv, CountedRuns
    <2> QED BY <2>1, InitIInv, FS_EmptySet DEF UserAccounting
<1>2. UInv /\ [Next]_vars => UInv'
    <2> SUFFICES ASSUME UInv, [Next]_vars PROVE UInv'
        OBVIOUS
    <2>1. IInv'
        BY NextIInv
    <2>2. CASE Next
        BY <2>1, <2>2, CapInvStep, UserAccountingStep DEF IInv
    <2>3. CASE UNCHANGED vars
        BY <2>1, <2>3 DEF CapInv, UserAccounting, CountedRuns, vars, req
    <2> QED BY <2>2, <2>3
<1>3. UInv => UserAccounting
    OBVIOUS
<1> QED BY <1>1, <1>2, <1>3, PTL DEF Spec
-----------------------------------------------------------------------------
(* The runs alive.                                                         *)

\* The runs that hold a place in the queue or have lent their slot, apart from
\* the ones Wait may not refuse.
BoundedPlaces == {r \in PlaceHolders \cup Lenders : ~NeverRefused(r)}

\* A caller gets a place, or lends, only while the queue is not full.
LEMMA PlaceTaken ==
    ASSUME Types, CallerInv, NoStrandedWaiter, NEW r \in Runs,
           Enter(r) \/ Step(r) \/ Cancel(r) \/ End(r) \/ Lend(r) \/ TryReclaim(r) \/ Reclaim(r),
           ~((HasPlace(r) \/ Lends(r)) /\ ~NeverRefused(r)),
           (HasPlace(r) \/ Lends(r))' /\ ~NeverRefused(r)'
    PROVE  ~QueueFull
<1> USE DEF caps, queues, req
<1>0. /\ \A p : Goto(r, p) => pc'[r] = p
      /\ Leave(r) => pc'[r] = "idle"
      /\ op \in [Runs -> AllOps \cup {"none"}]
    BY DEF Types, Goto, Leave
<1>1. CASE Enter(r)
    <2>1. ASSUME NEW o \in SnapshotOps, NEW k \in Keys, ReadCap(r, o, k) PROVE pc'[r] = "capRead"
        BY <1>0, <2>1 DEF ReadCap
    <2>2. ASSUME NEW k \in Keys, AdmitSlot(r, k) PROVE pc'[r] = "capRead"
        BY <1>0, <2>2 DEF AdmitSlot
    <2>3. ASSUME TryAcquire(r) PROVE pc'[r] = "running"
        BY <1>0, <2>3 DEF TryAcquire, TakeFreeSlot
    <2>4. ASSUME Wait(r) PROVE NeverRefused(r)'
        BY <1>0, <2>4 DEF Wait, Called, NeverRefused
    <2> QED BY <1>1, <2>1, <2>2, <2>3, <2>4 DEF Enter, HasPlace, Lends, SlotWaiter
<1>2. CASE AcquireForUser(r)
    BY <1>0, <1>2 DEF AcquireForUser, TakeFreeSlot, HasPlace, Lends, SlotWaiter
<1>3. CASE WaitForUser(r)
    <2>1. NeverRefused(r)'
        BY <1>3 DEF WaitForUser, NeverRefused
    <2> QED BY <2>1
<1>4. CASE ReserveUser(r) \/ ReceiveSlot(r)
    BY <1>0, <1>4 DEF ReserveUser, ReceiveSlot, HasPlace, Lends, SlotWaiter
<1>5. CASE AdmitUserLocal(r)
    BY <1>0, <1>5 DEF AdmitUserLocal, HasPlace, Lends, SlotWaiter
<1>6. CASE AdmitNew(r)
    BY <1>0, <1>6 DEF AdmitNew, AdmitGlobal, HasPlace, Lends, SlotWaiter
<1>7. CASE AdmitWaited(r)
    <2>1. HasPlace(r) /\ ~NeverRefused(r)
        BY <1>7 DEF AdmitWaited, HasPlace, CallerInv, CanLend, NeverRefused
    <2> QED BY <2>1
<1>8. CASE Cancel(r)
    <2>1. CASE CancelUserWaiter(r) \/ CancelWaiter(r)
        BY <1>0, <2>1 DEF CancelUserWaiter, CancelWaiter, HasPlace, Lends, SlotWaiter
    <2>2. CASE ReclaimCancelled(r)
        <3>1. pc[r] = "reclaiming" /\ r \notin tokens
            BY <2>2, TokenNotQueued DEF ReclaimCancelled, InQueues
        <3>2. HasPlace(r) /\ ~NeverRefused(r)
            BY <3>1 DEF HasPlace, SlotWaiter, CallerInv, CanLend, NeverRefused
        <3> QED BY <3>2
    <2> QED BY <1>8, <2>1, <2>2 DEF Cancel
<1>9. CASE End(r)
    BY <1>0, <1>9 DEF End, EndRun, EndLent, EndRunLent, ReleaseReserve, HasPlace, Lends,
        SlotWaiter
<1>10. CASE Lend(r)
    BY <1>10 DEF Lend
<1>11. CASE TryReclaim(r) \/ Reclaim(r)
    <2>1. Lends(r) /\ ~NeverRefused(r)
        BY <1>11 DEF TryReclaim, Reclaim, Lends, CallerInv, CanLend, NeverRefused
    <2> QED BY <2>1
<1> QED BY <1>1, <1>2, <1>3, <1>4, <1>5, <1>6, <1>7, <1>8, <1>9, <1>10, <1>11 DEF Step

\* The runs a set of places is made of.
LEMMA PlacesCounted ==
    ASSUME Types, SlotAccounting
    PROVE  /\ IsFiniteSet(BoundedPlaces) /\ Cardinality(BoundedPlaces) \in Nat
           /\ Cardinality(BoundedPlaces) <= queued + lent
           /\ queued \in Nat /\ lent \in Nat
<1>1. IsFiniteSet(PlaceHolders) /\ IsFiniteSet(Lenders)
    BY RunsFinite, FS_Subset DEF PlaceHolders, Lenders
<1>2. queued \in Nat /\ lent \in Nat
    BY <1>1, FS_CardinalityType DEF SlotAccounting
<1>3. /\ IsFiniteSet(PlaceHolders \cup Lenders)
      /\ Cardinality(PlaceHolders \cup Lenders) =
            Cardinality(PlaceHolders) + Cardinality(Lenders) - Cardinality(PlaceHolders \cap Lenders)
    BY <1>1, FS_Union
<1>4. /\ Cardinality(PlaceHolders \cap Lenders) \in Nat
      /\ Cardinality(PlaceHolders \cup Lenders) \in Nat
    BY <1>1, <1>3, FS_Intersection, FS_CardinalityType
<1>5. BoundedPlaces \subseteq PlaceHolders \cup Lenders
    BY DEF BoundedPlaces
<1> DEFINE U == PlaceHolders \cup Lenders
<1>6. IsFiniteSet(U) /\ BoundedPlaces \subseteq U
    BY <1>3, <1>5
<1> HIDE DEF U
<1>7. /\ IsFiniteSet(BoundedPlaces) /\ Cardinality(BoundedPlaces) \in Nat
      /\ Cardinality(BoundedPlaces) <= Cardinality(U)
    BY <1>6, FS_Subset, FS_CardinalityType
<1>8. Cardinality(U) <= queued + lent
    BY <1>2, <1>3, <1>4 DEF U, SlotAccounting
<1> QED BY <1>2, <1>4, <1>7, <1>8 DEF U

\* The places stay within the queue's bound while the bound stays.
LEMMA PlacesStep ==
    ASSUME IInv, Next, maxQueue' = maxQueue, Cardinality(BoundedPlaces) <= maxQueue
    PROVE  Cardinality(BoundedPlaces') <= maxQueue'
<1>0. /\ Types /\ CallerInv /\ NoStrandedWaiter /\ SlotAccounting /\ maxQueue \in Int
      /\ IsFiniteSet(BoundedPlaces) /\ Cardinality(BoundedPlaces) \in Nat
      /\ Cardinality(BoundedPlaces) <= queued + lent /\ queued \in Nat /\ lent \in Nat
    <2>1. Types /\ CallerInv /\ NoStrandedWaiter /\ SlotAccounting
        BY DEF IInv
    <2>2. maxQueue \in Int
        BY <2>1, CapsAreNat DEF Types
    <2> QED BY <2>1, <2>2, PlacesCounted
<1> DEFINE InPlace(x) == (HasPlace(x) \/ Lends(x)) /\ ~NeverRefused(x)
<1>1. /\ BoundedPlaces = {x \in Runs : InPlace(x)}
      /\ BoundedPlaces' = {x \in Runs : InPlace(x)'}
    BY DEF BoundedPlaces, PlaceHolders, Lenders, HasPlace, Lends
<1>2. ASSUME NEW r \in Runs, OnlyMoves(r), ~InPlace(r) /\ InPlace(r)' => ~QueueFull
      PROVE  Cardinality(BoundedPlaces') <= maxQueue'
    <2>1. \A x \in Runs \ {r} : InPlace(x)' <=> InPlace(x)
        BY <1>2 DEF OnlyMoves, HasPlace, Lends, SlotWaiter, NeverRefused
    <2>2. SameBut(BoundedPlaces', BoundedPlaces, r)
        BY <1>1, <2>1 DEF SameBut
    <2>3. Cardinality(BoundedPlaces') = Cardinality(BoundedPlaces)
               + One(r \in BoundedPlaces') - One(r \in BoundedPlaces)
        BY <1>0, <2>2, CountStep
    <2>4. CASE r \in BoundedPlaces' /\ r \notin BoundedPlaces
        <3>1. queued + lent < maxQueue
            BY <1>0, <1>1, <1>2, <2>4 DEF QueueFull
        <3>2. Cardinality(BoundedPlaces') = Cardinality(BoundedPlaces) + 1
            BY <1>0, <2>3, <2>4 DEF One
        <3> QED BY <1>0, <3>1, <3>2
    <2>5. CASE ~(r \in BoundedPlaces' /\ r \notin BoundedPlaces)
        <3>1. Cardinality(BoundedPlaces') <= Cardinality(BoundedPlaces)
            BY <1>0, <2>3, <2>5 DEF One
        <3>2. Cardinality(BoundedPlaces') \in Int
            BY <1>0, <2>3 DEF One
        <3> QED BY <1>0, <3>1, <3>2
    <2> QED BY <2>4, <2>5
<1>3. ASSUME NEW r \in Runs,
             Enter(r) \/ Step(r) \/ Cancel(r) \/ End(r) \/ Lend(r) \/ TryReclaim(r) \/ Reclaim(r)
      PROVE  Cardinality(BoundedPlaces') <= maxQueue'
    <2>1. OnlyMoves(r)
        BY <1>0, <1>3, CallerMoves
    <2>2. ASSUME ~InPlace(r), InPlace(r)' PROVE ~QueueFull
        BY <1>0, <1>3, <2>2, PlaceTaken
    <2> QED BY <1>2, <2>1, <2>2
<1>4. CASE WakeNext
    <2>1. PICK r \in Runs : OnlyMoves(r) /\ UNCHANGED <<pc, req>> /\ SlotWaiter(r)
        BY <1>0, <1>4, WakeNextQueues
    <2>2. InPlace(r)' => InPlace(r)
        BY <2>1 DEF HasPlace, Lends, SlotWaiter, NeverRefused, req
    <2> QED BY <1>2, <2>1, <2>2
<1>5. ASSUME NEW u \in Users, WakeUser(u) PROVE Cardinality(BoundedPlaces') <= maxQueue'
    <2>1. PICK r \in Runs : OnlyMoves(r) /\ r \in ToSet(userWait[u])
        BY <1>0, <1>5, WakeUserQueues
    <2>2. pc[r] = "userWait" /\ UNCHANGED <<pc, req>>
        BY <1>0, <1>5, <2>1 DEF WakeUser, NoStrandedWaiter
    <2>3. InPlace(r)' => InPlace(r)
        BY <2>2 DEF HasPlace, Lends, SlotWaiter, NeverRefused, req
    <2> QED BY <1>2, <2>1, <2>3
<1>6. CASE WakeNextDone \/ (\E u \in Users : WakeUserDone(u)) \/ Reload
    <2>1. UNCHANGED <<tokens, pc, op>>
        BY <1>6 DEF WakeNextDone, WakeUserDone, Reload, SetCaps, WithPerUserCap,
                    WithQueuedPerUserCap, req
    <2>2. BoundedPlaces' = BoundedPlaces
        BY <2>1 DEF BoundedPlaces, PlaceHolders, Lenders, SlotWaiter, NeverRefused
    <2> QED BY <2>2
<1> QED BY <1>3, <1>4, <1>5, <1>6 DEF Next, Wake

\* The caps on slots and on the queue are not reloaded.
CapsStay == (\E c : MaxConcurrents = {c}) /\ (\E q : MaxQueues = {q})

\* The runs alive, the lent ones included, stay within what was configured
\* (lend.go:20), as long as no reload lowers the caps under them.
THEOREM AliveWithinCaps ==
    ASSUME CapsStay
    PROVE  Spec => []AliveBounded
<1> DEFINE AInv == IInv /\ Cardinality(BoundedPlaces) <= maxQueue
<1>1. Init => AInv
    <2> SUFFICES ASSUME Init PROVE AInv
        OBVIOUS
    <2>1. BoundedPlaces = {}
        BY DEF Init, BoundedPlaces, PlaceHolders, Lenders, SlotWaiter
    <2>2. maxQueue \in Nat
        BY CapsAreNat DEF Init
    <2> QED BY <2>1, <2>2, InitIInv, FS_EmptySet
<1>2. AInv /\ [Next]_vars => AInv'
    <2> SUFFICES ASSUME AInv, [Next]_vars PROVE AInv'
        OBVIOUS
    <2>1. IInv'
        BY NextIInv
    <2>2. maxQueue' = maxQueue
        BY <2>1 DEF CapsStay, IInv, Types
    <2>3. CASE Next
        BY <2>1, <2>2, <2>3, PlacesStep
    <2>4. CASE UNCHANGED vars
        BY <2>1, <2>4 DEF BoundedPlaces, PlaceHolders, Lenders, SlotWaiter,
            NeverRefused, vars, req,
                          caps
    <2> QED BY <2>3, <2>4
<1>3. AInv => AliveBounded
    <2> SUFFICES ASSUME AInv PROVE AliveBounded
        OBVIOUS
    <2>1. Types /\ SlotAccounting /\ SlotsBounded
        BY DEF IInv
    <2>2. active <= maxConcurrent /\ maxConcurrent \in Nat /\ maxQueue \in Nat
        BY <2>1, CapsAreNat DEF CapsStay, Types, SlotsBounded
    <2>3. /\ IsFiniteSet(BoundedPlaces) /\ Cardinality(BoundedPlaces) \in Nat
        BY <2>1, PlacesCounted
    <2>4. IsFiniteSet(SlotHolders) /\ Cardinality(SlotHolders) \in Nat
        BY RunsFinite, FS_Subset, FS_CardinalityType DEF SlotHolders
    <2> DEFINE A == {r \in SlotHolders \cup PlaceHolders \cup Lenders : ~NeverRefused(r)}
               U == SlotHolders \cup BoundedPlaces
    <2>5. A \subseteq U
        BY DEF BoundedPlaces
    <2>6. /\ IsFiniteSet(U)
          /\ Cardinality(U) = Cardinality(SlotHolders) + Cardinality(BoundedPlaces)
                                - Cardinality(SlotHolders \cap BoundedPlaces)
        BY <2>3, <2>4, FS_Union
    <2>7. Cardinality(SlotHolders \cap BoundedPlaces) \in Nat
        BY <2>3, <2>4, FS_Intersection, FS_CardinalityType
    <2> HIDE DEF A, U
    <2>8. /\ Cardinality(A) \in Nat /\ Cardinality(A) <= Cardinality(U)
          /\ Cardinality(U) \in Nat
        BY <2>5, <2>6, FS_Subset, FS_CardinalityType
    <2>9. Cardinality(SlotHolders) = active
        BY <2>1 DEF SlotAccounting
    <2>10. Cardinality(A) <= maxConcurrent + maxQueue
        BY <2>2, <2>3, <2>4, <2>6, <2>7, <2>8, <2>9
    <2> QED BY <2>10 DEF AliveBounded, A
<1> QED BY <1>1, <1>2, <1>3, PTL DEF Spec
-----------------------------------------------------------------------------
(* The wait on the per-user cap.                                           *)

\* Whoever gives a user's count back leaves the user's loop to run, and whoever
\* queues on the user's cap found it reached.
LEMMA UserPlaceEffect ==
    ASSUME Types, CallerInv, NoStrandedWaiter, NEW r \in Runs, NEW u \in Users,
           Enter(r) \/ Step(r) \/ Cancel(r) \/ End(r) \/ Lend(r) \/ TryReclaim(r) \/ Reclaim(r),
           u \notin wakes'
    PROVE  /\ u \notin wakes /\ maxPerUser' = maxPerUser /\ perUser'[u] >= perUser[u]
           /\ \/ userWait'[u] = userWait[u]
              \/ userWait[u] # <<>>
              \/ PerUserActive(r) /\ key[r] = u /\ perUser[u] >= cap[r]
<1> USE DEF caps, queues, req
<1>0. /\ perUser \in [Users -> Nat] /\ userWait \in [Users -> Seq(Runs)]
      /\ perUser[u] \in Nat
    BY DEF Types
<1>1. CountUser(r) => perUser'[u] >= perUser[u]
    BY <1>0, CallerTypes DEF CountUser, PerUserActive
<1>2. ASSUME NEW loops, GiveBackUser(r, loops) PROVE perUser'[u] = perUser[u]
    <2>1. GivesBack(r) => key[r] \in Users /\ key[r] # u
        BY <1>2, CallerTypes DEF GiveBackUser, GivesBack, PerUserActive
    <2> QED BY <1>0, <1>2, <2>1 DEF GiveBackUser, Decremented
<1>3. CASE Enter(r)
    <2>1. UNCHANGED <<perUser, userWait, wakes, maxPerUser>>
        BY <1>3 DEF Enter, ReadCap, AdmitSlot, TryAcquire, Wait, TakeFreeSlot, QueueAdmitted
    <2> QED BY <1>0, <2>1
<1>4. CASE AcquireForUser(r) \/ WaitForUser(r) \/ ReserveUser(r)
    <2>1. /\ UNCHANGED <<userWait, wakes, maxPerUser>>
          /\ CountUser(r) \/ UNCHANGED perUser
        BY <1>4 DEF AcquireForUser, WaitForUser, ReserveUser, TakeFreeSlot, QueueAdmitted
    <2> QED BY <1>0, <1>1, <2>1
<1>5. CASE AdmitUserLocal(r)
    <2>1. /\ UNCHANGED <<wakes, maxPerUser>> /\ PerUserActive(r) /\ key[r] \in Users
          /\ CountUser(r) \/ UNCHANGED perUser
        BY <1>5, CallerTypes DEF AdmitUserLocal, PerUserActive
    <2>2. \/ UNCHANGED userWait
          \/ /\ userWait' = [userWait EXCEPT ![key[r]] = Append(@, r)]
             /\ perUser[key[r]] >= cap[r]
        BY <1>5 DEF AdmitUserLocal
    <2>3. \/ userWait'[u] = userWait[u]
          \/ key[r] = u /\ perUser[u] >= cap[r]
        BY <1>0, <2>1, <2>2
    <2> QED BY <1>0, <1>1, <2>1, <2>3
<1>6. CASE AdmitNew(r) \/ AdmitWaited(r)
    <2>1. PICK b \in BOOLEAN : AdmitGlobal(r, b)
        BY <1>6 DEF AdmitNew, AdmitWaited
    <2>2. MuFree /\ UNCHANGED <<userWait, maxPerUser>>
        BY <1>6, <2>1 DEF AdmitNew, AdmitWaited, AdmitGlobal
    <2>3. GiveBackUser(r, {}) \/ UNCHANGED perUser
        BY <2>1 DEF AdmitGlobal
    <2> QED BY <1>0, <1>2, <2>2, <2>3 DEF MuFree
<1>7. CASE ReceiveSlot(r) \/ EndLent(r) \/ TryReclaim(r) \/ Reclaim(r) \/ ReclaimCancelled(r)
    <2>1. UNCHANGED <<perUser, userWait, wakes, maxPerUser>>
        BY <1>7 DEF ReceiveSlot, EndLent, TryReclaim, Reclaim, ReclaimCancelled,
            QueueAdmitted
    <2> QED BY <1>0, <2>1
<1>8. CASE Lend(r)
    <2>1. UNCHANGED <<perUser, userWait, maxPerUser>> /\ MuFree
        BY <1>8 DEF Lend
    <2> QED BY <1>0, <2>1 DEF MuFree
<1>9. CASE CancelUserWaiter(r)
    <2>1. MuFree /\ UNCHANGED maxPerUser /\ PerUserActive(r) /\ key[r] \in Users
        BY <1>9, CallerTypes DEF CancelUserWaiter, CallerInv, PerUserActive
    <2>2. CASE r \in ToSet(userWait[key[r]])
        <3>1. /\ userWait' = [userWait EXCEPT ![key[r]] = RemoveFirst(@, r)]
              /\ UNCHANGED perUser
            BY <1>9, <2>2 DEF CancelUserWaiter
        <3>2. userWait[key[r]] # <<>>
            BY <1>0, <2>1, <2>2, FifoEmpty
        <3>3. key[r] # u => userWait'[u] = userWait[u]
            BY <1>0, <2>1, <3>1
        <3> QED BY <1>0, <2>1, <3>1, <3>2, <3>3 DEF MuFree
    <2>3. CASE r \notin ToSet(userWait[key[r]])
        <3>1. perUser' = Decremented(key[r]) /\ wakes' = {key[r]} /\ UNCHANGED userWait
            BY <1>9, <2>3 DEF CancelUserWaiter
        <3>2. perUser'[u] = perUser[u]
            BY <1>0, <2>1, <3>1 DEF Decremented
        <3> QED BY <1>0, <2>1, <3>1, <3>2 DEF MuFree
    <2> QED BY <2>2, <2>3
<1>10. CASE CancelWaiter(r) \/ EndRun(r) \/ EndRunLent(r) \/ ReleaseReserve(r)
    <2>1. /\ MuFree /\ UNCHANGED <<userWait, maxPerUser>>
          /\ \E loops : GiveBackUser(r, loops)
        BY <1>10 DEF CancelWaiter, EndRun, EndRunLent, ReleaseReserve
    <2> QED BY <1>0, <1>2, <2>1 DEF MuFree
<1> QED BY <1>3, <1>4, <1>5, <1>6, <1>7, <1>8, <1>9, <1>10 DEF Step, Cancel, End

\* The per-user cap is not reloaded.
PerUserCapStays == \E n : MaxPerUsers = {n}

\* Without a reload of the per-user cap nobody waits on it while the user is
\* under it (wakeUserWaiter): every count given back runs the user's loop.  With
\* one, a caller that read the old cap queues under the new one (SemStaleCap.cfg).
THEOREM NoUserPlaceIdle ==
    ASSUME PerUserCapStays
    PROVE  Spec => []NoIdleUserPlace
<1> DEFINE PInv == IInv /\ NoIdleUserPlace
<1>1. Init => PInv
    BY InitIInv DEF Init, NoIdleUserPlace
<1>2. PInv /\ [Next]_vars => PInv'
    <2> SUFFICES ASSUME PInv, [Next]_vars PROVE PInv'
        OBVIOUS
    <2>0. Types /\ CallerInv /\ NoStrandedWaiter /\ NoIdleUserPlace
        BY DEF IInv
    <2>1. IInv'
        BY NextIInv
    <2>2. maxPerUser \in Nat /\ MaxPerUsers = {maxPerUser} /\ perUser \in [Users -> Nat]
          /\ maxPerUser' = maxPerUser /\ cap \in [Runs -> {maxPerUser, 0}]
          /\ perUser' \in [Users -> Nat]
        <3>1. /\ MaxPerUsers = {maxPerUser} /\ maxPerUser \in Nat
              /\ perUser \in [Users -> Nat]
            BY <2>0, CapsAreNat DEF PerUserCapStays, Types
        <3>2. maxPerUser' \in MaxPerUsers /\ perUser' \in [Users -> Nat]
            BY <2>1 DEF IInv, Types
        <3>3. cap \in [Runs -> MaxPerUsers \cup {0}]
            BY <2>0 DEF Types
        <3>4. MaxPerUsers \cup {0} = {maxPerUser, 0}
            BY <3>1
        <3> QED BY <3>1, <3>2, <3>3, <3>4
    <2>a. ASSUME perUser' = perUser, userWait' = userWait,
                 \A u \in Users : u \in wakes => u \in wakes'
          PROVE  NoIdleUserPlace'
        <3> SUFFICES ASSUME NEW u \in Users, u \notin wakes', userWait'[u] # <<>>
                     PROVE  UserAtCap(u)'
            BY DEF NoIdleUserPlace
        <3>1. UserAtCap(u)
            BY <2>0, <2>a DEF NoIdleUserPlace
        <3> QED BY <2>2, <2>a, <3>1 DEF UserAtCap
    <2>3. ASSUME NEW r \in Runs,
                 Enter(r) \/ Step(r) \/ Cancel(r) \/ End(r) \/ Lend(r) \/ TryReclaim(r) \/ Reclaim(r)
          PROVE  NoIdleUserPlace'
        <3> SUFFICES ASSUME NEW u \in Users, u \notin wakes', userWait'[u] # <<>>
                     PROVE  UserAtCap(u)'
            BY DEF NoIdleUserPlace
        <3>1. /\ u \notin wakes /\ perUser'[u] >= perUser[u]
              /\ \/ userWait'[u] = userWait[u]
                 \/ userWait[u] # <<>>
                 \/ PerUserActive(r) /\ key[r] = u /\ perUser[u] >= cap[r]
            BY <2>0, <2>3, UserPlaceEffect
        <3>2. CASE userWait[u] # <<>>
            <4>1. maxPerUser > 0 /\ perUser[u] >= maxPerUser
                BY <2>0, <3>1, <3>2 DEF NoIdleUserPlace, UserAtCap
            <4> QED BY <2>2, <3>1, <4>1 DEF UserAtCap
        <3>3. CASE PerUserActive(r) /\ key[r] = u /\ perUser[u] >= cap[r]
            <4>1. cap[r] = maxPerUser /\ maxPerUser > 0
                BY <2>2, <3>3 DEF PerUserActive
            <4> QED BY <2>2, <3>1, <3>3, <4>1 DEF UserAtCap
        <3> QED BY <3>1, <3>2, <3>3
    <2>4. CASE WakeNext \/ WakeNextDone
        <3>1. /\ perUser' = perUser /\ userWait' = userWait
              /\ wakes \ {Global} \subseteq wakes'
            BY <2>4 DEF WakeNext, WakeNextDone
        <3>2. Global \notin Users
            BY GlobalIsNoKey DEF Keys
        <3>3. \A u \in Users : u \in wakes => u \in wakes'
            BY <3>1, <3>2
        <3> QED BY <2>1, <2>a, <3>1, <3>3
    <2>5. ASSUME NEW v \in Users, WakeUser(v) \/ WakeUserDone(v) PROVE NoIdleUserPlace'
        <3> SUFFICES ASSUME NEW u \in Users, u \notin wakes', userWait'[u] # <<>>
                     PROVE  UserAtCap(u)'
            BY DEF NoIdleUserPlace
        <3>1. CASE WakeUser(v)
            <4>1. /\ v \in wakes /\ wakes' = wakes
                  /\ perUser' = [perUser EXCEPT ![v] = @ + 1]
                  /\ userWait' = [userWait EXCEPT ![v] = Tail(@)]
                BY <3>1 DEF WakeUser
            <4>2. u # v /\ perUser'[u] = perUser[u] /\ userWait'[u] = userWait[u]
                BY <2>0, <2>2, <4>1 DEF Types
            <4> QED BY <2>0, <2>2, <4>1, <4>2 DEF NoIdleUserPlace, UserAtCap
        <3>2. CASE WakeUserDone(v)
            <4>1. /\ wakes' = wakes \ {v} /\ UNCHANGED <<perUser, userWait>>
                  /\ userWait[v] = <<>> \/ UserAtCap(v)
                BY <3>2 DEF WakeUserDone
            <4>2. UserAtCap(u)
                BY <2>0, <4>1 DEF NoIdleUserPlace
            <4> QED BY <2>2, <4>1, <4>2 DEF UserAtCap
        <3> QED BY <2>5, <3>1, <3>2
    <2>6. CASE Reload
        <3>1. perUser' = perUser /\ userWait' = userWait /\ wakes = {}
            BY <2>6 DEF Reload, SetCaps, WithPerUserCap, WithQueuedPerUserCap, MuFree
        <3> QED BY <2>1, <2>a, <3>1
    <2>7. CASE UNCHANGED vars
        <3>1. perUser' = perUser /\ userWait' = userWait /\ wakes' = wakes
            BY <2>7 DEF vars
        <3> QED BY <2>1, <2>a, <3>1
    <2>8. NoIdleUserPlace'
        BY <2>3, <2>4, <2>5, <2>6, <2>7 DEF Next, Wake
    <2> QED BY <2>1, <2>8
<1>3. PInv => NoIdleUserPlace
    OBVIOUS
<1> QED BY <1>1, <1>2, <1>3, PTL DEF Spec
-----------------------------------------------------------------------------
(* The per-user cap.                                                       *)

\* The runs counted against a user that the cap could refuse.
UnderUserCap(u) == {r \in CountedRuns(u) : op[r] # "WaitForUser"}

\* Who becomes one of them found the user under a cap.
LEMMA CountedUnderCap ==
    ASSUME Types, CallerInv, NoStrandedWaiter, CapInv, NEW r \in Runs, NEW u \in Users,
           Enter(r) \/ Step(r) \/ Cancel(r) \/ End(r) \/ Lend(r) \/ TryReclaim(r) \/ Reclaim(r),
           ~(Counted(r, u) /\ op[r] # "WaitForUser"),
           Counted(r, u)' /\ op'[r] # "WaitForUser"
    PROVE  PerUserActive(r) /\ key[r] = u /\ perUser[u] < cap[r]
<1> USE DEF caps, queues, req
<1>0. /\ \A p : Goto(r, p) => pc'[r] = p
      /\ Leave(r) => pc'[r] = "idle" /\ cap'[r] = 0
      /\ u # NoUser
    BY NoUserIsNoUser DEF Types, Goto, Leave
<1>1. CASE Enter(r)
    <2>1. ASSUME NEW o \in SnapshotOps, NEW k \in Keys, ReadCap(r, o, k) PROVE pc'[r] = "capRead"
        BY <1>0, <2>1 DEF ReadCap
    <2>2. ASSUME NEW k \in Keys, AdmitSlot(r, k) PROVE pc'[r] = "capRead"
        BY <1>0, <2>2 DEF AdmitSlot
    <2>3. ASSUME TryAcquire(r) \/ Wait(r) PROVE key'[r] = NoUser
        BY <2>3 DEF TryAcquire, Wait, Called, Types
    <2> QED BY <1>0, <1>1, <2>1, <2>2, <2>3 DEF Enter, Counted
<1>2. CASE AcquireForUser(r)
    <2>1. CASE Leave(r)
        BY <1>0, <2>1 DEF Counted
    <2>2. CASE UNCHANGED req /\ ~(PerUserActive(r) /\ perUser[key[r]] >= cap[r])
        <3>1. cap[r] > 0 /\ key[r] = u
            BY <2>2 DEF Counted
        <3>2. PerUserActive(r) /\ ~(perUser[u] >= cap[r])
            BY <1>0, <2>2, <3>1 DEF PerUserActive
        <3>3. perUser[u] \in Nat /\ cap[r] \in MaxPerUsers \cup {0}
            BY DEF Types
        <3>4. cap[r] \in Nat
            BY <3>3, CapsAreNat
        <3> QED BY <3>1, <3>2, <3>3, <3>4
    <2> QED BY <1>2, <2>1, <2>2 DEF AcquireForUser
<1>3. CASE WaitForUser(r)
    <2>1. op'[r] = "WaitForUser"
        BY <1>3 DEF WaitForUser
    <2> QED BY <2>1
<1>4. CASE ReserveUser(r)
    <2>1. CASE Leave(r)
        BY <1>0, <2>1 DEF Counted
    <2>2. CASE UNCHANGED req /\ (PerUserActive(r) => perUser[key[r]] < cap[r])
        <3>1. cap[r] > 0 /\ key[r] = u
            BY <2>2 DEF Counted
        <3> QED BY <1>0, <2>2, <3>1 DEF PerUserActive
    <2> QED BY <1>4, <2>1, <2>2 DEF ReserveUser
<1>5. CASE AdmitUserLocal(r)
    <2>1. pc[r] = "capRead" /\ PerUserActive(r) /\ tokens' = tokens
        BY <1>5 DEF AdmitUserLocal
    <2>2. r \notin tokens
        BY <2>1, NotQueued DEF Blocked
    <2>3. CASE UNCHANGED req /\ perUser[key[r]] < cap[r]
        BY <2>1, <2>3 DEF Counted
    <2>4. CASE Leave(r)
        BY <1>0, <2>4 DEF Counted
    <2>5. CASE Goto(r, "userWait")
        BY <1>0, <2>1, <2>2, <2>5 DEF Counted
    <2> QED BY <1>5, <2>3, <2>4, <2>5 DEF AdmitUserLocal
<1>6. CASE AdmitNew(r) \/ AdmitWaited(r)
    <2>1. PICK b \in BOOLEAN : AdmitGlobal(r, b)
        BY <1>6 DEF AdmitNew, AdmitWaited
    <2>2. CASE Leave(r)
        BY <1>0, <2>2 DEF Counted
    <2>3. CASE UNCHANGED req
        <3>1. cap[r] > 0 /\ key[r] = u /\ op[r] # "WaitForUser"
            BY <2>3 DEF Counted
        <3>2. PerUserActive(r) /\ op[r] # "AdmitSlot"
            BY <1>0, <3>1 DEF PerUserActive, CapInv
        <3>3. Counted(r, u)
            BY <1>6, <3>1, <3>2 DEF AdmitNew, AdmitWaited, Counted
        <3> QED BY <3>1, <3>3
    <2> QED BY <2>1, <2>2, <2>3 DEF AdmitGlobal
<1>7. CASE ReceiveSlot(r) \/ ReclaimCancelled(r) \/ EndLent(r) \/ Lend(r) \/ TryReclaim(r)
           \/ Reclaim(r)
    <2>1. /\ pc[r] \in {"waiting", "reclaiming", "running", "lent"} /\ UNCHANGED req
        BY <1>7 DEF ReceiveSlot, ReclaimCancelled, EndLent, Lend, TryReclaim, Reclaim
    <2> QED BY <2>1 DEF Counted
<1>8. CASE CancelUserWaiter(r) \/ CancelWaiter(r) \/ EndRun(r) \/ EndRunLent(r) \/ ReleaseReserve(r)
    <2>1. Leave(r)
        BY <1>8 DEF CancelUserWaiter, CancelWaiter, EndRun, EndRunLent, ReleaseReserve
    <2> QED BY <1>0, <2>1 DEF Counted
<1> QED BY <1>1, <1>2, <1>3, <1>4, <1>5, <1>6, <1>7, <1>8 DEF Step, Cancel, End

\* Where the per-user cap is never switched off, no user ever has more runs that it
\* could refuse than a cap allowed, the lent and the waiting ones included: nobody
\* is counted on a stale number (admitUserLocal, wakeUserWaiter, AcquireForUser).
THEOREM UserCapKept ==
    ASSUME 0 \notin MaxPerUsers
    PROVE  Spec => []UserCapRespected
<1> DEFINE CInv == IInv /\ CapInv /\ UserAccounting /\ UserCapRespected
<1>0. CountsPaired
    BY DEF CountsPaired
<1>1. Init => CInv
    <2> SUFFICES ASSUME Init PROVE CInv
        OBVIOUS
    <2>1. CapInv /\ \A u \in Users : CountedRuns(u) = {} /\ perUser[u] = 0
        BY DEF Init, CapInv, CountedRuns
    <2>2. UserAccounting
        BY <2>1, FS_EmptySet DEF UserAccounting
    <2>3. maxPerUser \in MaxPerUsers /\ maxPerUser >= 0
        BY CapsAreNat DEF Init
    <2>4. \A u \in Users : {r \in CountedRuns(u) : op[r] # "WaitForUser"} = {}
        BY <2>1
    <2>5. \A u \in Users : Cardinality({r \in CountedRuns(u) : op[r] # "WaitForUser"}) = 0
        BY <2>4, FS_EmptySet
    <2>6. UserCapRespected
        BY <2>3, <2>5 DEF UserCapRespected
    <2> QED BY <2>1, <2>2, <2>6, InitIInv
<1>2. CInv /\ [Next]_vars => CInv'
    <2> SUFFICES ASSUME CInv, [Next]_vars PROVE CInv'
        OBVIOUS
    <2>0. /\ Types /\ CallerInv /\ NoStrandedWaiter /\ CapInv /\ UserAccounting
          /\ UserCapRespected
        BY DEF IInv
    <2>1. IInv'
        BY NextIInv
    <2>2. CASE UNCHANGED vars
        <3>1. UNCHANGED <<perUser, tokens, pc, op, key, cap>>
            BY <2>2 DEF vars, req
        <3> QED BY <2>0, <2>1, <3>1 DEF CapInv, UserAccounting, CountedRuns,
            UserCapRespected
    <2>3. CASE Next
        <3>1. CapInv' /\ UserAccounting'
            BY <1>0, <2>0, <2>3, CapInvStep, UserAccountingStep
        <3>2. ASSUME NEW u \in Users
              PROVE  /\ IsFiniteSet(UnderUserCap(u))
                     /\ Cardinality(UnderUserCap(u)) \in Nat
                     /\ perUser[u] \in Nat /\ Cardinality(UnderUserCap(u)) <= perUser[u]
            <4>1. IsFiniteSet(CountedRuns(u)) /\ UnderUserCap(u) \subseteq CountedRuns(u)
                BY RunsFinite, FS_Subset DEF CountedRuns, UnderUserCap
            <4>2. perUser[u] = Cardinality(CountedRuns(u)) /\ perUser[u] \in Nat
                BY <2>0, <4>1, FS_CardinalityType DEF UserAccounting
            <4> QED BY <4>1, <4>2, FS_Subset, FS_CardinalityType
        <3>3. ASSUME NEW u \in Users
              PROVE  /\ UnderUserCap(u) = {x \in Runs : Counted(x, u) /\ op[x] # "WaitForUser"}
                     /\ UnderUserCap(u)' = {x \in Runs : Counted(x, u)' /\ op'[x] # "WaitForUser"}
            BY DEF UnderUserCap, CountedRuns, Counted
        <3>4. ASSUME NEW u \in Users, NEW r \in Runs, OnlyMoves(r),
                     /\ ~(Counted(r, u) /\ op[r] # "WaitForUser")
                     /\ Counted(r, u)' /\ op'[r] # "WaitForUser"
                     => \E n \in MaxPerUsers : perUser[u] < n
              PROVE  \E n \in MaxPerUsers : Cardinality(UnderUserCap(u)') <= n
            <4>1. \A x \in Runs \ {r} : /\ Counted(x, u)' <=> Counted(x, u)
                                        /\ op'[x] = op[x]
                BY <3>4 DEF OnlyMoves, Counted
            <4>2. SameBut(UnderUserCap(u)', UnderUserCap(u), r)
                BY <3>3, <4>1 DEF SameBut
            <4>3. Cardinality(UnderUserCap(u)') = Cardinality(UnderUserCap(u))
                       + One(r \in UnderUserCap(u)') - One(r \in UnderUserCap(u))
                BY <3>2, <4>2, CountStep
            <4>4. CASE r \in UnderUserCap(u)' /\ r \notin UnderUserCap(u)
                <5>1. PICK n \in MaxPerUsers : perUser[u] < n
                    BY <3>3, <3>4, <4>4
                <5>2. n \in Nat
                    BY CapsAreNat
                <5>3. Cardinality(UnderUserCap(u)') = Cardinality(UnderUserCap(u)) + 1
                    BY <3>2, <4>3, <4>4 DEF One
                <5>4. Cardinality(UnderUserCap(u)') <= n
                    BY <3>2, <5>1, <5>2, <5>3
                <5> QED BY <5>4
            <4>5. CASE ~(r \in UnderUserCap(u)' /\ r \notin UnderUserCap(u))
                <5>1. PICK n \in MaxPerUsers : Cardinality(UnderUserCap(u)) <= n
                    BY <2>0 DEF UserCapRespected, UnderUserCap
                <5>2. n \in Nat
                    BY CapsAreNat
                <5>3. /\ Cardinality(UnderUserCap(u)') <= Cardinality(UnderUserCap(u))
                      /\ Cardinality(UnderUserCap(u)') \in Int
                    BY <3>2, <4>3, <4>5 DEF One
                <5>4. Cardinality(UnderUserCap(u)') <= n
                    BY <3>2, <5>1, <5>2, <5>3
                <5> QED BY <5>4
            <4> QED BY <4>4, <4>5
        <3>5. ASSUME NEW u \in Users PROVE \E n \in MaxPerUsers : Cardinality(UnderUserCap(u)') <= n
            <4>1. ASSUME NEW r \in Runs,
                         Enter(r) \/ Step(r) \/ Cancel(r) \/ End(r) \/ Lend(r) \/ TryReclaim(r)
                            \/ Reclaim(r)
                  PROVE  \E n \in MaxPerUsers : Cardinality(UnderUserCap(u)') <= n
                <5>1. OnlyMoves(r)
                    BY <2>0, <4>1, CallerMoves
                <5>2. ASSUME ~(Counted(r, u) /\ op[r] # "WaitForUser"),
                             Counted(r, u)' /\ op'[r] # "WaitForUser"
                      PROVE  \E n \in MaxPerUsers : perUser[u] < n
                    <6>1. PerUserActive(r) /\ perUser[u] < cap[r]
                        BY <2>0, <4>1, <5>2, CountedUnderCap
                    <6>2. cap[r] \in MaxPerUsers
                        BY <2>0, <6>1 DEF Types, PerUserActive
                    <6> QED BY <6>1, <6>2
                <5> QED BY <3>4, <5>1, <5>2
            <4>2. CASE WakeNext
                <5>1. PICK r \in Runs : OnlyMoves(r) /\ UNCHANGED <<pc, req>> /\ SlotWaiter(r)
                    BY <2>0, <4>2, WakeNextQueues
                <5>2. Counted(r, u)' => Counted(r, u)
                    BY <5>1 DEF Counted, SlotWaiter, req
                <5>3. op'[r] = op[r]
                    BY <5>1 DEF req
                <5> QED BY <3>4, <5>1, <5>2, <5>3
            <4>3. ASSUME NEW v \in Users, WakeUser(v)
                  PROVE  \E n \in MaxPerUsers : Cardinality(UnderUserCap(u)') <= n
                <5>1. PICK r \in Runs : OnlyMoves(r) /\ r \in ToSet(userWait[v])
                    BY <2>0, <4>3, WakeUserQueues
                <5>2. pc[r] = "userWait" /\ key[r] = v /\ UNCHANGED <<pc, req>>
                    BY <2>0, <4>3, <5>1 DEF WakeUser, NoStrandedWaiter
                <5>3. maxPerUser \in MaxPerUsers /\ maxPerUser \in Nat /\ maxPerUser # 0
                    BY <2>0, CapsAreNat DEF Types
                <5>4. perUser[v] \in Nat /\ perUser[v] < maxPerUser
                    BY <3>2, <4>3, <5>3 DEF WakeUser, UserAtCap
                <5>5. Counted(r, u)' => u = v
                    BY <5>2 DEF Counted, req
                <5> QED BY <3>4, <5>1, <5>3, <5>4, <5>5
            <4>4. CASE WakeNextDone \/ (\E v \in Users : WakeUserDone(v)) \/ Reload
                <5>1. UNCHANGED <<tokens, pc, op, key, cap>>
                    BY <4>4 DEF WakeNextDone, WakeUserDone, Reload, SetCaps, WithPerUserCap,
                                WithQueuedPerUserCap, req
                <5>2. UnderUserCap(u)' = UnderUserCap(u)
                    BY <5>1 DEF UnderUserCap, CountedRuns
                <5> QED BY <2>0, <5>2 DEF UserCapRespected, UnderUserCap
            <4> QED BY <2>3, <4>1, <4>2, <4>3, <4>4 DEF Next, Wake
        <3>6. UserCapRespected'
            BY <3>5 DEF UserCapRespected, UnderUserCap
        <3> QED BY <2>1, <3>1, <3>6
    <2> QED BY <2>2, <2>3
<1>3. CInv => UserCapRespected
    OBVIOUS
<1> QED BY <1>1, <1>2, <1>3, PTL DEF Spec

-----------------------------------------------------------------------------
\* What a step does to the ring: nothing, a push of a bucket that was empty, a
\* cancel that empties one, or a turn taken by the head.
LEMMA RingStep ==
    ASSUME IInv, Next
    PROVE  \/ ring' = ring
           \/ \E k \in Keys : buckets[k] = <<>> /\ ring' = Append(ring, k)
           \/ \E k \in Keys : ring' = RemoveFirst(ring, k)
           \/ /\ ring # <<>>
              /\ tokens' = tokens \cup {Head(buckets[Head(ring)])}
              /\ ring' \in {Tail(ring), Append(Tail(ring), Head(ring))}
<1> DEFINE Kept == ring' = ring
           Joined == \E k \in Keys : buckets[k] = <<>> /\ ring' = Append(ring, k)
           Left == \E k \in Keys : ring' = RemoveFirst(ring, k)
<1>1. \A r \in Runs, k \in Keys : Push(k, r) => Kept \/ Joined
    BY DEF Push
<1>2. \A r \in Runs : RemoveWaiter(r) => Kept \/ Left
    <2> SUFFICES ASSUME NEW r \in Runs, RemoveWaiter(r) PROVE Kept \/ Left
        OBVIOUS
    <2>1. CASE \E k \in Keys : buckets[k] = <<r>>
        <3>1. (CHOOSE k \in Keys : buckets[k] = <<r>>) \in Keys
            BY <2>1
        <3> QED BY <2>1, <3>1 DEF RemoveWaiter
    <2>2. CASE ~ \E k \in Keys : buckets[k] = <<r>>
        BY <2>2 DEF RemoveWaiter
    <2> QED BY <2>1, <2>2
<1>3. \A r \in Runs : key[r] \in Keys
    BY DEF IInv, Types
<1>4. ASSUME NEW r \in Runs, Enter(r) \/ End(r) \/ Lend(r) \/ TryReclaim(r) \/ Reclaim(r) PROVE Kept
    BY <1>4 DEF Enter, ReadCap, AdmitSlot, TryAcquire, Wait, TakeFreeSlot,
        QueueAdmitted, End, EndRun,
                EndLent, EndRunLent, ReleaseReserve, Lend, TryReclaim, Reclaim, queues
<1>5. ASSUME NEW r \in Runs, Step(r) PROVE Kept \/ Joined
    <2>1. CASE AcquireForUser(r)
        BY <1>1, <1>3, <2>1 DEF AcquireForUser, TakeFreeSlot, queues
    <2>2. CASE AdmitNew(r) \/ AdmitWaited(r)
        BY <1>1, <1>3, <2>2 DEF AdmitNew, AdmitWaited, AdmitGlobal, queues
    <2>3. CASE ReserveUser(r) \/ WaitForUser(r) \/ AdmitUserLocal(r) \/ ReceiveSlot(r)
        BY <2>3 DEF ReserveUser, WaitForUser, TakeFreeSlot, QueueAdmitted, AdmitUserLocal,
                    ReceiveSlot, queues
    <2> QED BY <1>5, <2>1, <2>2, <2>3 DEF Step
<1>6. ASSUME NEW r \in Runs, Cancel(r) PROVE Kept \/ Left
    BY <1>2, <1>6 DEF Cancel, CancelUserWaiter, CancelWaiter, ReclaimCancelled, queues
<1>7. CASE Reload
    <2>1. Kept
        BY <1>7 DEF Reload, SetCaps, WithPerUserCap, WithQueuedPerUserCap, queues
    <2> QED BY <2>1
<1>8. CASE Wake
    BY <1>8 DEF Wake, WakeNext, WakeNextDone, WakeUser, WakeUserDone, queues
<1> QED BY <1>4, <1>5, <1>6, <1>7, <1>8 DEF Next

\* In the round robin a bucket keeps its turn until one of its own runs is served,
\* whatever the others do: an arrival joins behind it, a cancel moves it forward or
\* not at all, and a turn taken by another bucket moves it forward (semQueue.push,
\* remove and next).
THEOREM TurnsKept == Spec => TurnKept
<1> DEFINE Kept(k) ==
        \A i \in DOMAIN ring, j \in DOMAIN ring' :
            (ring[i] = k /\ ring'[j] = k /\ j > i) => Head(buckets[k]) \in tokens' \ tokens
<1>1. IInv /\ [Next]_vars => [\A k \in Keys : Kept(k)]_vars
    <2> SUFFICES ASSUME IInv, Next, NEW k \in Keys, NEW i \in DOMAIN ring, NEW j \in DOMAIN ring',
                        ring[i] = k, ring'[j] = k, j > i
                 PROVE  Head(buckets[k]) \in tokens' \ tokens
        OBVIOUS
    <2>0. /\ ring \in Seq(Keys) /\ Len(ring) \in Nat /\ DOMAIN ring = 1..Len(ring)
          /\ IsInjective(ring) /\ ToSet(ring) = {x \in Keys : buckets[x] # <<>>}
          /\ k \in ToSet(ring) /\ buckets[k] # <<>>
        <3>1. /\ ring \in Seq(Keys) /\ IsInjective(ring)
              /\ ToSet(ring) = {x \in Keys : buckets[x] # <<>>}
            BY DEF IInv, Types, NoStrandedWaiter
        <3>2. k \in ToSet(ring)
            BY DEF ToSet
        <3> QED BY <3>1, <3>2
    <2>1. \A n \in DOMAIN ring : ring[n] = k => n = i
        BY <2>0 DEF IsInjective
    <2>2. CASE ring' = ring
        BY <2>0, <2>1, <2>2
    <2>3. ASSUME NEW x \in Keys, buckets[x] = <<>>, ring' = Append(ring, x) PROVE FALSE
        <3>1. x # k
            BY <2>0, <2>3
        <3>2. /\ DOMAIN ring' = 1..(Len(ring) + 1)
              /\ \A n \in 1..Len(ring) : ring'[n] = ring[n]
              /\ ring'[Len(ring) + 1] = x
            BY <2>0, <2>3
        <3>3. j \in 1..Len(ring) /\ ring[j] = k
            BY <2>0, <3>1, <3>2
        <3> QED BY <2>0, <2>1, <3>3
    <2>4. ASSUME NEW x \in Keys, ring' = RemoveFirst(ring, x) PROVE FALSE
        <3>1. j \in DOMAIN RemoveFirst(ring, x) /\ RemoveFirst(ring, x)[j] = ring[i]
            BY <2>4
        <3>2. j <= i
            BY <2>0, <3>1, FifoRemoveKeepsTurn
        <3>3. i \in Int /\ j \in Int
            <4>1. RemoveFirst(ring, x) \in Seq(Keys)
                BY <2>0, FifoRemove
            <4> QED BY <2>0, <3>1, <4>1
        <3> QED BY <3>2, <3>3
    <2>5. CASE /\ ring # <<>>
               /\ tokens' = tokens \cup {Head(buckets[Head(ring)])}
               /\ ring' \in {Tail(ring), Append(Tail(ring), Head(ring))}
        <3>1. Len(ring) \in Nat /\ Len(ring) >= 1 /\ Head(ring) = ring[1]
            BY <2>0, <2>5
        <3>2. /\ Tail(ring) \in Seq(Keys) /\ Len(Tail(ring)) = Len(ring) - 1
              /\ \A n \in 1..(Len(ring) - 1) : Tail(ring)[n] = ring[n + 1]
            BY <2>0, <2>5
        <3>3. ASSUME j \in 1..(Len(ring) - 1), ring'[j] = Tail(ring)[j] PROVE FALSE
            <4>1. ring[j + 1] = k /\ j + 1 \in DOMAIN ring
                BY <2>0, <3>1, <3>2, <3>3
            <4> QED BY <2>0, <2>1, <4>1
        <3>4. CASE ring' = Tail(ring)
            BY <3>1, <3>2, <3>3, <3>4
        <3>5. CASE ring' = Append(Tail(ring), Head(ring))
            <4>1. /\ DOMAIN ring' = 1..Len(ring)
                  /\ \A n \in 1..(Len(ring) - 1) : ring'[n] = Tail(ring)[n]
                  /\ ring'[Len(ring)] = Head(ring)
                BY <3>1, <3>2, <3>5
            <4>2. j = Len(ring)
                BY <3>1, <3>3, <4>1
            <4>3. Head(ring) = k
                BY <4>1, <4>2
            <4>4. Head(buckets[k]) \in ToSet(buckets[k])
                BY <2>0, FifoTail DEF IInv, Types, NoStrandedWaiter
            <4>5. Head(buckets[k]) \notin tokens
                BY <4>4 DEF IInv, NoStrandedWaiter, SlotWaiter
            <4> QED BY <2>5, <4>3, <4>5
        <3> QED BY <2>5, <3>4, <3>5
    <2> QED BY <2>2, <2>3, <2>4, <2>5, RingStep
<1> QED BY Invariance, <1>1, PTL DEF Spec, TurnKept
-----------------------------------------------------------------------------
(***************************************************************************)
(* Positions.  positionLocked is a closed count over the buckets; the      *)
(* order of service is what nextWaiter does, step after step.  They are    *)
(* tied by the set of the waiters ahead of a run: the count is its size    *)
(* (PositionCounts, by induction over the ring), and every step of         *)
(* nextWaiter takes exactly one member from it (ServingOrder, by induction *)
(* over the steps).                                                        *)
(***************************************************************************)

\* x is the n-th of the bucket with turn i, where st is a state of the queues as
\* Served steps through them.
At(st, x, i, n) ==
    /\ i \in DOMAIN st.turns /\ n \in DOMAIN st.lists[st.turns[i]]
    /\ st.lists[st.turns[i]][n] = x

\* The n-th of the bucket with turn i is served before the m-th of the one with
\* turn j: in an earlier round, or in the same one at an earlier turn.
Sooner(i, n, j, m) == n < m \/ (n = m /\ i < j)

\* Who is served before x.
Ahead(st, x) ==
    ToSet(st.first) \cup
    {y \in Runs : \E i, n, j, m \in Nat :
        At(st, y, i, n) /\ At(st, x, j, m) /\ Sooner(i, n, j, m)}

\* The new runs that wait, and everyone who does.
Listed(st) == UNION {ToSet(st.lists[k]) : k \in Keys}
Left(st) == ToSet(st.first) \cup Listed(st)

\* What NoStrandedWaiter says of the queues as such.
Sound(st) ==
    /\ st.first \in Seq(Runs) /\ st.turns \in Seq(Keys)
    /\ st.lists \in [Keys -> Seq(Runs)] /\ st.out \in Seq(Runs)
    /\ IsInjective(st.first) /\ IsInjective(st.turns)
    /\ \A k \in Keys : IsInjective(st.lists[k])
    /\ \A k \in Keys : ToSet(st.lists[k]) \cap ToSet(st.first) = {}
    /\ \A k, l \in Keys : k # l => ToSet(st.lists[k]) \cap ToSet(st.lists[l]) = {}
    /\ ToSet(st.turns) = {k \in Keys : st.lists[k] # <<>>}

\* A waiting new run has one place.
LEMMA AtUnique ==
    ASSUME NEW st, Sound(st), NEW x, NEW i, NEW n, At(st, x, i, n)
    PROVE  /\ i \in 1..Len(st.turns) /\ Len(st.turns) \in Nat
           /\ st.turns[i] \in Keys
           /\ n \in 1..Len(st.lists[st.turns[i]]) /\ Len(st.lists[st.turns[i]]) \in Nat
           /\ x \in ToSet(st.lists[st.turns[i]]) /\ x \in Runs /\ x \in Listed(st)
           /\ \A j, m : At(st, x, j, m) => j = i /\ m = n
<1>1. /\ i \in 1..Len(st.turns) /\ Len(st.turns) \in Nat /\ st.turns[i] \in Keys
      /\ DOMAIN st.turns = 1..Len(st.turns)
    BY DEF Sound, At
<1>2. st.lists[st.turns[i]] \in Seq(Runs)
    BY <1>1 DEF Sound
<1>3. /\ n \in 1..Len(st.lists[st.turns[i]]) /\ Len(st.lists[st.turns[i]]) \in Nat
      /\ x \in Runs
    BY <1>2 DEF At
<1>4. x \in ToSet(st.lists[st.turns[i]])
    BY DEF At, ToSet
<1>5. x \in Listed(st)
    BY <1>1, <1>4 DEF Listed
<1>6. ASSUME NEW j, NEW m, At(st, x, j, m) PROVE j = i /\ m = n
    <2>1. j \in DOMAIN st.turns /\ st.turns[j] \in Keys
        BY <1>1, <1>6 DEF Sound, At
    <2>2. x \in ToSet(st.lists[st.turns[j]])
        BY <1>6 DEF At, ToSet
    <2>3. st.turns[j] = st.turns[i]
        BY <1>1, <2>1, <1>4, <2>2 DEF Sound
    <2>4. j = i
        BY <1>1, <2>1, <2>3 DEF Sound, IsInjective
    <2>5. IsInjective(st.lists[st.turns[i]])
        BY <1>1 DEF Sound
    <2>6. m = n
        BY <2>4, <2>5, <1>6 DEF At, IsInjective
    <2> QED BY <2>4, <2>6
<1> QED BY <1>1, <1>3, <1>4, <1>5, <1>6

\* ... and every waiting new run has a place.
LEMMA AtListed ==
    ASSUME NEW st, Sound(st), NEW x \in Listed(st)
    PROVE  \E i, n \in Nat : At(st, x, i, n)
<1>1. PICK k \in Keys : x \in ToSet(st.lists[k])
    BY DEF Listed
<1>2. st.lists[k] \in Seq(Runs)
    BY DEF Sound
<1>3. PICK n \in DOMAIN st.lists[k] : st.lists[k][n] = x
    BY <1>1 DEF ToSet
<1>4. n \in Nat /\ st.lists[k] # <<>>
    BY <1>2, <1>3
<1>5. k \in ToSet(st.turns)
    BY <1>4 DEF Sound
<1>6. PICK i \in DOMAIN st.turns : st.turns[i] = k
    BY <1>5 DEF ToSet
<1>7. i \in Nat
    BY <1>6 DEF Sound
<1>8. At(st, x, i, n)
    BY <1>3, <1>6 DEF At
<1> QED BY <1>4, <1>7, <1>8

\* Who is served before the run at one place.
LEMMA AheadOf ==
    ASSUME NEW st, Sound(st), NEW x, NEW j \in Nat, NEW m \in Nat, At(st, x, j, m)
    PROVE  \A y : y \in Ahead(st, x) <=>
              \/ y \in ToSet(st.first)
              \/ \E i, n \in Nat : At(st, y, i, n) /\ Sooner(i, n, j, m)
<1>1. \A a, b : At(st, x, a, b) => a = j /\ b = m
    BY AtUnique
<1>2. \A y, i, n : At(st, y, i, n) => y \in Runs
    BY AtUnique
<1> QED BY <1>1, <1>2 DEF Ahead

\* Serving an admitted caller.
LEMMA ServedFirst ==
    ASSUME NEW st, Sound(st), st.first # <<>>
    PROVE  LET t == Served(st)
               s == Head(st.first)
           IN  /\ Sound(t) /\ t.out = Append(st.out, s)
               /\ s \in Runs /\ s \in ToSet(st.first) /\ s \notin Listed(st)
               /\ ToSet(t.first) = ToSet(st.first) \ {s}
               /\ t.turns = st.turns /\ t.lists = st.lists
<1> DEFINE t == Served(st)
           s == Head(st.first)
<1>1. /\ t.first = Tail(st.first) /\ t.turns = st.turns /\ t.lists = st.lists
      /\ t.out = Append(st.out, s)
    BY DEF Served
<1>2. /\ s \in Runs /\ s \in ToSet(st.first) /\ Tail(st.first) \in Seq(Runs)
      /\ ToSet(Tail(st.first)) = ToSet(st.first) \ {s} /\ IsInjective(Tail(st.first))
    BY FifoTail DEF Sound
<1>3. s \notin Listed(st)
    BY <1>2 DEF Sound, Listed
<1>4. t.out \in Seq(Runs)
    BY <1>1, <1>2 DEF Sound
<1>5. Sound(t)
    <2> HIDE DEF t
    <2>1. \A k \in Keys : ToSet(t.lists[k]) \cap ToSet(t.first) = {}
        BY <1>1, <1>2 DEF Sound
    <2> QED BY <1>1, <1>2, <1>4, <2>1 DEF Sound
<1> QED BY <1>1, <1>2, <1>3, <1>5

\* ... moves nobody else.
LEMMA ServedFirstAhead ==
    ASSUME NEW st, Sound(st), st.first # <<>>, NEW x \in Listed(st)
    PROVE  /\ Head(st.first) \in Ahead(st, x)
           /\ Ahead(Served(st), x) = Ahead(st, x) \ {Head(st.first)}
<1> DEFINE t == Served(st)
           s == Head(st.first)
<1>1. /\ s \in ToSet(st.first) /\ s \notin Listed(st)
      /\ ToSet(t.first) = ToSet(st.first) \ {s}
      /\ t.turns = st.turns /\ t.lists = st.lists
    BY ServedFirst
<1> HIDE DEF t, s
<1>2. \A y, i, n : At(t, y, i, n) <=> At(st, y, i, n)
    BY <1>1 DEF At
<1>3. \A i, n : ~ At(st, s, i, n)
    BY <1>1, AtUnique
<1>4. Ahead(t, x) = Ahead(st, x) \ {s}
    BY <1>1, <1>2, <1>3 DEF Ahead
<1>5. s \in Ahead(st, x)
    BY <1>1 DEF Ahead
<1> QED BY <1>4, <1>5 DEF t, s

\* Serving the head of the bucket whose turn it is.
LEMMA ServedBucket ==
    ASSUME NEW st, Sound(st), st.first = <<>>, Listed(st) # {}
    PROVE  LET t == Served(st)
               k == Head(st.turns)
               s == Head(st.lists[k])
           IN  /\ st.turns # <<>> /\ k \in Keys /\ k = st.turns[1]
               /\ st.lists[k] # <<>>
               /\ s = st.lists[k][1] /\ s \in Runs /\ s \in ToSet(st.lists[k])
               /\ t.first = <<>> /\ t.out = Append(st.out, s)
               /\ t.lists = [st.lists EXCEPT ![k] = Tail(st.lists[k])]
               /\ t.turns = IF Tail(st.lists[k]) = <<>> THEN Tail(st.turns)
                            ELSE Append(Tail(st.turns), k)
               /\ ToSet(t.lists[k]) = ToSet(st.lists[k]) \ {s}
               /\ \A l \in Keys : l # k => t.lists[l] = st.lists[l]
               /\ Listed(t) = Listed(st) \ {s}
               /\ Sound(t)
<1> DEFINE t == Served(st)
           k == Head(st.turns)
           s == Head(st.lists[k])
<1>1. PICK l \in Keys : ToSet(st.lists[l]) # {}
    BY DEF Listed
<1>2. st.lists[l] # <<>>
    BY <1>1, FifoEmpty DEF Sound
<1>3. st.turns # <<>>
    BY <1>2, FifoEmpty DEF Sound
<1>4. /\ k \in Keys /\ k \in ToSet(st.turns) /\ Tail(st.turns) \in Seq(Keys)
      /\ ToSet(Tail(st.turns)) = ToSet(st.turns) \ {k} /\ IsInjective(Tail(st.turns))
    BY <1>3, FifoTail DEF Sound
<1>5. st.lists[k] # <<>> /\ st.lists[k] \in Seq(Runs) /\ IsInjective(st.lists[k])
    BY <1>4 DEF Sound
<1>6. k = st.turns[1] /\ s = st.lists[k][1]
    BY <1>3, <1>5 DEF Sound
<1>7. /\ s \in Runs /\ s \in ToSet(st.lists[k]) /\ Tail(st.lists[k]) \in Seq(Runs)
      /\ ToSet(Tail(st.lists[k])) = ToSet(st.lists[k]) \ {s} /\ IsInjective(Tail(st.lists[k]))
    BY <1>5, FifoTail
<1>8. /\ t.first = <<>> /\ t.out = Append(st.out, s)
      /\ t.lists = [st.lists EXCEPT ![k] = Tail(st.lists[k])]
      /\ t.turns = IF Tail(st.lists[k]) = <<>> THEN Tail(st.turns)
                   ELSE Append(Tail(st.turns), k)
    BY DEF Served
<1> HIDE DEF t, k, s
<1>9. st.lists \in [Keys -> Seq(Runs)]
    BY DEF Sound
<1>10. /\ t.lists \in [Keys -> Seq(Runs)]
       /\ t.lists[k] = Tail(st.lists[k])
       /\ \A j \in Keys : j # k => t.lists[j] = st.lists[j]
    BY <1>4, <1>7, <1>8, <1>9
<1>11. ToSet(t.lists[k]) = ToSet(st.lists[k]) \ {s}
    BY <1>7, <1>10
<1>12. \A j \in Keys : j # k => s \notin ToSet(st.lists[j])
    BY <1>4, <1>7 DEF Sound
<1>13. \A j \in Keys : ToSet(t.lists[j]) = ToSet(st.lists[j]) \ {s}
    BY <1>10, <1>11, <1>12
<1>14. Listed(t) = Listed(st) \ {s}
    <2>1. \A y : y \in Listed(t) <=> \E j \in Keys : y \in ToSet(t.lists[j])
        BY DEF Listed
    <2>2. \A y : y \in Listed(st) <=> \E j \in Keys : y \in ToSet(st.lists[j])
        BY DEF Listed
    <2>3. \A y : y \in Listed(t) <=> y \in Listed(st) /\ y # s
        <3>1. \A j \in Keys : \A y : y \in ToSet(t.lists[j]) <=> y \in ToSet(st.lists[j]) /\ y # s
            BY <1>13
        <3> QED BY <3>1, <2>1, <2>2
    <2> QED BY <2>3
<1>15. Sound(t)
    <2>1. t.first \in Seq(Runs) /\ IsInjective(t.first) /\ ToSet(t.first) = {}
        BY <1>8 DEF IsInjective, ToSet
    <2>2. t.out \in Seq(Runs)
        BY <1>7, <1>8 DEF Sound
    <2>3. \A j \in Keys : IsInjective(t.lists[j])
        BY <1>7, <1>10 DEF Sound
    <2>4. \A i, j \in Keys : i # j => ToSet(t.lists[i]) \cap ToSet(t.lists[j]) = {}
        BY <1>13 DEF Sound
    <2>5. /\ t.turns \in Seq(Keys) /\ IsInjective(t.turns)
          /\ ToSet(t.turns) = IF t.lists[k] = <<>> THEN ToSet(st.turns) \ {k}
                              ELSE ToSet(st.turns)
        <3>1. CASE t.lists[k] = <<>>
            BY <3>1, <1>4, <1>8, <1>10
        <3>2. CASE t.lists[k] # <<>>
            <4>1. t.turns = Append(Tail(st.turns), k)
                BY <3>2, <1>8, <1>10
            <4>2. k \notin ToSet(Tail(st.turns))
                BY <1>4
            <4> DEFINE q == Tail(st.turns)
            <4> HIDE DEF q
            <4>3. q \in Seq(Keys) /\ k \notin ToSet(q) /\ IsInjective(q) /\ t.turns = Append(q, k)
                BY <4>1, <4>2, <1>4 DEF q
            <4>4. /\ Append(q, k) \in Seq(Keys) /\ IsInjective(Append(q, k))
                  /\ ToSet(Append(q, k)) = ToSet(q) \cup {k}
                BY <4>3, <1>4, FifoAppend
            <4> QED BY <4>3, <4>4, <3>2, <1>4 DEF q
        <3> QED BY <3>1, <3>2
    <2>6. ToSet(t.turns) = {j \in Keys : t.lists[j] # <<>>}
        <3>1. ToSet(st.turns) = {j \in Keys : st.lists[j] # <<>>}
            BY DEF Sound
        <3> QED BY <3>1, <2>5, <1>4, <1>10
    <2>7. \A j \in Keys : ToSet(t.lists[j]) \cap ToSet(t.first) = {}
        BY <2>1
    <2> QED BY <1>10, <2>1, <2>2, <2>3, <2>4, <2>5, <2>6, <2>7 DEF Sound
<1> QED BY <1>3, <1>4, <1>5, <1>6, <1>7, <1>8, <1>10, <1>11, <1>14, <1>15 DEF t, k, s

\* Where the others are then: the runs of the bucket that was served are one
\* place and as many turns on, the others one turn earlier.
LEMMA ServedPlace ==
    ASSUME NEW st, Sound(st), st.first = <<>>, Listed(st) # {},
           NEW x, NEW i, NEW n, At(st, x, i, n)
    PROVE  IF x = Head(st.lists[Head(st.turns)]) THEN i = 1 /\ n = 1
           ELSE /\ i # 1 \/ n > 1
                /\ IF i = 1 THEN At(Served(st), x, Len(st.turns), n - 1)
                   ELSE At(Served(st), x, i - 1, n)
<1> DEFINE t == Served(st)
           k == Head(st.turns)
           s == Head(st.lists[k])
           L == Len(st.turns)
<1>1. /\ st.turns # <<>> /\ k \in Keys /\ k = st.turns[1]
      /\ st.lists[k] # <<>>
      /\ s = st.lists[k][1]
      /\ t.lists = [st.lists EXCEPT ![k] = Tail(st.lists[k])]
      /\ t.turns = IF Tail(st.lists[k]) = <<>> THEN Tail(st.turns)
                   ELSE Append(Tail(st.turns), k)
      /\ \A l \in Keys : l # k => t.lists[l] = st.lists[l]
    BY ServedBucket
<1> HIDE DEF t, k, s
<1>2. /\ i \in 1..L /\ L \in Nat /\ st.turns[i] \in Keys
      /\ n \in 1..Len(st.lists[st.turns[i]]) /\ Len(st.lists[st.turns[i]]) \in Nat
      /\ \A j, m : At(st, x, j, m) => j = i /\ m = n
    BY AtUnique
<1>3. st.turns \in Seq(Keys) /\ st.lists[k] \in Seq(Runs) /\ st.lists \in [Keys -> Seq(Runs)]
    BY <1>1 DEF Sound
<1>4. At(st, s, 1, 1)
    <2>1. 1 \in DOMAIN st.turns
        BY <1>1, <1>3
    <2>2. 1 \in DOMAIN st.lists[st.turns[1]]
        BY <1>1, <1>3
    <2> QED BY <2>1, <2>2, <1>1 DEF At
<1>5. CASE x = s
    BY <1>2, <1>4, <1>5 DEF s, k
<1>6. CASE x # s
    <2>1. i # 1 \/ n > 1
        <3> SUFFICES ASSUME i = 1, n = 1 PROVE FALSE
            BY <1>2
        <3> QED BY <1>1, <1>6 DEF At
    <2>2. CASE i = 1
        <3>1. n - 1 \in 1..Len(Tail(st.lists[k])) /\ Tail(st.lists[k])[n - 1] = x
            <4>1. n \in 2..Len(st.lists[k]) /\ st.lists[k][n] = x
                BY <2>1, <2>2, <1>1, <1>2 DEF At
            <4> QED BY <4>1, <1>1, <1>3
        <3>2. Tail(st.lists[k]) # <<>> /\ Tail(st.lists[k]) \in Seq(Runs)
            BY <3>1, <1>1, <1>3
        <3>3. t.turns = Append(Tail(st.turns), k)
            BY <3>2, <1>1
        <3>4. L \in DOMAIN t.turns /\ t.turns[L] = k
            <4>1. Tail(st.turns) \in Seq(Keys) /\ Len(Tail(st.turns)) = L - 1 /\ L \in Nat
                BY <1>1, <1>3, HeadTailProperties
            <4>2. /\ Len(Append(Tail(st.turns), k)) = L
                  /\ Append(Tail(st.turns), k)[L] = k
                  /\ DOMAIN Append(Tail(st.turns), k) = 1..L
                BY <4>1
            <4> QED BY <3>3, <4>2, <1>2
        <3>5. t.lists[k] = Tail(st.lists[k])
            BY <1>1, <1>3
        <3>6. At(t, x, L, n - 1)
            BY <3>1, <3>2, <3>4, <3>5 DEF At
        <3> QED BY <3>6, <2>1, <2>2, <1>6 DEF t, s, k
    <2>3. CASE i # 1
        <3>1. i - 1 \in DOMAIN Tail(st.turns) /\ Tail(st.turns)[i - 1] = st.turns[i]
            BY <2>3, <1>1, <1>2, <1>3
        <3>2. i - 1 \in DOMAIN t.turns /\ t.turns[i - 1] = st.turns[i]
            <4>1. Tail(st.turns) \in Seq(Keys) /\ k \in Keys
                BY <1>1, <1>3
            <4>2. /\ i - 1 \in DOMAIN Append(Tail(st.turns), k)
                  /\ Append(Tail(st.turns), k)[i - 1] = st.turns[i]
                BY <4>1, <3>1
            <4>3. t.turns = Tail(st.turns) \/ t.turns = Append(Tail(st.turns), k)
                BY <1>1
            <4> QED BY <4>2, <4>3, <3>1
        <3>3. st.turns[i] # k
            <4>1. IsInjective(st.turns) /\ 1 \in DOMAIN st.turns /\ i \in DOMAIN st.turns
                BY <1>1, <1>2, <1>3 DEF Sound
            <4> QED BY <4>1, <2>3, <1>1 DEF IsInjective
        <3>4. t.lists[st.turns[i]] = st.lists[st.turns[i]]
            BY <3>3, <1>1, <1>2
        <3>5. At(t, x, i - 1, n)
            BY <3>2, <3>4 DEF At
        <3> QED BY <3>5, <2>1, <2>3, <1>6 DEF t, s, k
    <2> QED BY <2>2, <2>3
<1> QED BY <1>5, <1>6

\* Serving a bucket takes exactly its head from before every other run, and the
\* head had nobody before it.
LEMMA ServedBucketAhead ==
    ASSUME NEW st, Sound(st), st.first = <<>>, NEW x \in Listed(st)
    PROVE  LET s == Head(st.lists[Head(st.turns)])
           IN  /\ x = s => Ahead(st, x) = {}
               /\ x # s => /\ s \in Ahead(st, x)
                           /\ Ahead(Served(st), x) = Ahead(st, x) \ {s}
<1> DEFINE t == Served(st)
           k == Head(st.turns)
           s == Head(st.lists[k])
           L == Len(st.turns)
<1>1. /\ k \in Keys /\ s \in ToSet(st.lists[k]) /\ s \in Runs
      /\ t.first = <<>> /\ Sound(t) /\ Listed(t) = Listed(st) \ {s}
    BY ServedBucket
<1>2. \A y, i, n : At(st, y, i, n) =>
         IF y = s THEN i = 1 /\ n = 1
         ELSE /\ i # 1 \/ n > 1
              /\ IF i = 1 THEN At(t, y, L, n - 1) ELSE At(t, y, i - 1, n)
    BY ServedPlace
<1>3. \A y, i, n : At(st, y, i, n) => /\ i \in 1..L /\ n \in Nat \ {0} /\ L \in Nat
                                      /\ y \in Runs
    BY AtUnique
<1> HIDE DEF t, s, k, L
<1>4. s \in Listed(st)
    BY <1>1 DEF Listed
<1>5. At(st, s, 1, 1)
    BY <1>2, <1>4, AtListed
<1>6. PICK j, m \in Nat : At(st, x, j, m)
    BY AtListed
<1>7. \A y : y \in Ahead(st, x) <=>
         \E i, n \in Nat : At(st, y, i, n) /\ Sooner(i, n, j, m)
    <2>1. ToSet(st.first) = {}
        BY DEF ToSet
    <2> QED BY <2>1, <1>6, AheadOf
<1>8. ASSUME x = s PROVE Ahead(st, x) = {}
    <2>1. j = 1 /\ m = 1
        BY <1>2, <1>6, <1>8
    <2>2. \A y, i, n : At(st, y, i, n) => ~ Sooner(i, n, j, m)
        BY <2>1, <1>3 DEF Sooner
    <2> QED BY <2>2, <1>7
<1>9. ASSUME x # s PROVE s \in Ahead(st, x) /\ Ahead(t, x) = Ahead(st, x) \ {s}
    <2>1. j \in 1..L /\ m \in Nat \ {0} /\ L \in Nat /\ (j # 1 \/ m > 1)
        BY <1>2, <1>3, <1>6, <1>9
    <2>2. Sooner(1, 1, j, m)
        BY <2>1 DEF Sooner
    <2>3. s \in Ahead(st, x)
        BY <2>2, <1>5, <1>7
    <2> DEFINE J == IF j = 1 THEN L ELSE j - 1
               M == IF j = 1 THEN m - 1 ELSE m
    <2>4. At(t, x, J, M) /\ J \in Nat /\ M \in Nat
        BY <2>1, <1>2, <1>6, <1>9
    <2>5. \A y : y \in Ahead(t, x) <=>
             \E i, n \in Nat : At(t, y, i, n) /\ Sooner(i, n, J, M)
        <3> HIDE DEF J, M
        <3>1. ToSet(t.first) = {}
            BY <1>1 DEF ToSet
        <3> QED BY <3>1, <2>4, <1>1, AheadOf
    <2>6. ASSUME NEW y, NEW i, NEW n, At(st, y, i, n), y # s
          PROVE  /\ i \in 1..L /\ n \in Nat \ {0} /\ (i # 1 \/ n > 1)
                 /\ At(t, y, IF i = 1 THEN L ELSE i - 1, IF i = 1 THEN n - 1 ELSE n)
                 /\ Sooner(IF i = 1 THEN L ELSE i - 1, IF i = 1 THEN n - 1 ELSE n, J, M)
                      <=> Sooner(i, n, j, m)
        <3>1. /\ i \in 1..L /\ n \in Nat \ {0} /\ (i # 1 \/ n > 1)
            BY <1>2, <1>3, <2>6
        <3>2. At(t, y, IF i = 1 THEN L ELSE i - 1, IF i = 1 THEN n - 1 ELSE n)
            BY <1>2, <2>6
        <3>3. Sooner(IF i = 1 THEN L ELSE i - 1, IF i = 1 THEN n - 1 ELSE n, J, M)
                      <=> Sooner(i, n, j, m)
            BY <3>1, <2>1 DEF Sooner
        <3> QED BY <3>1, <3>2, <3>3
    <2>7. ASSUME NEW y \in Ahead(st, x), y # s PROVE y \in Ahead(t, x)
        <3>1. PICK i, n \in Nat : At(st, y, i, n) /\ Sooner(i, n, j, m)
            BY <1>7
        <3> DEFINE I == IF i = 1 THEN L ELSE i - 1
                   N == IF i = 1 THEN n - 1 ELSE n
        <3>2. At(t, y, I, N) /\ Sooner(I, N, J, M)
            BY <3>1, <2>6, <2>7
        <3>3. I \in Nat /\ N \in Nat
            BY <3>1, <2>1, <2>6, <2>7
        <3> HIDE DEF I, N, J, M
        <3> QED BY <3>2, <3>3, <2>5
    <2>8. ASSUME NEW y \in Ahead(t, x) PROVE y \in Ahead(st, x) /\ y # s
        <3>1. PICK a, b \in Nat : At(t, y, a, b) /\ Sooner(a, b, J, M)
            <4> HIDE DEF J, M
            <4> QED BY <2>5
        <3>2. y \in Listed(t)
            BY <3>1, <1>1, AtUnique
        <3>3. y \in Listed(st) /\ y # s
            BY <3>2, <1>1
        <3>4. PICK i, n \in Nat : At(st, y, i, n)
            BY <3>3, AtListed
        <3> DEFINE I == IF i = 1 THEN L ELSE i - 1
                   N == IF i = 1 THEN n - 1 ELSE n
        <3>5. At(t, y, I, N) /\ (Sooner(I, N, J, M) <=> Sooner(i, n, j, m))
            BY <3>3, <3>4, <2>6
        <3> HIDE DEF I, N, J, M
        <3>6. a = I /\ b = N
            BY <3>1, <3>5, <1>1, AtUnique
        <3>7. Sooner(i, n, j, m)
            BY <3>1, <3>5, <3>6
        <3> QED BY <3>3, <3>4, <3>7, <1>7
    <2> HIDE DEF J, M
    <2>9. s \notin Ahead(t, x)
        BY <2>8
    <2>10. Ahead(t, x) = Ahead(st, x) \ {s}
        BY <2>7, <2>8
    <2> QED BY <2>3, <2>10
<1> QED BY <1>8, <1>9 DEF t, s, k

\* One call of nextWaiter, whoever it serves: that waiter leaves, it is taken
\* from before everyone else, and it had nobody before it if it is a new run.
LEMMA ServedStep ==
    ASSUME NEW st, Sound(st), Left(st) # {}
    PROVE  \E s \in Runs :
              /\ Sound(Served(st)) /\ Served(st).out = Append(st.out, s)
              /\ s \in Left(st) /\ Left(Served(st)) = Left(st) \ {s}
              /\ Listed(Served(st)) = Listed(st) \ {s}
              /\ \A x \in Listed(st) :
                    IF x = s THEN Ahead(st, x) = {}
                    ELSE s \in Ahead(st, x) /\ Ahead(Served(st), x) = Ahead(st, x) \ {s}
<1> DEFINE t == Served(st)
<1>1. CASE st.first # <<>>
    <2> DEFINE s == Head(st.first)
    <2>1. /\ Sound(t) /\ t.out = Append(st.out, s)
          /\ s \in Runs /\ s \in ToSet(st.first) /\ s \notin Listed(st)
          /\ ToSet(t.first) = ToSet(st.first) \ {s}
          /\ t.turns = st.turns /\ t.lists = st.lists
        BY <1>1, ServedFirst
    <2>2. \A x \in Listed(st) : s \in Ahead(st, x) /\ Ahead(t, x) = Ahead(st, x) \ {s}
        BY <1>1, ServedFirstAhead
    <2> HIDE DEF t, s
    <2>3. Listed(t) = Listed(st)
        BY <2>1 DEF Listed
    <2>4. Listed(t) = Listed(st) \ {s} /\ s \in Left(st) /\ Left(t) = Left(st) \ {s}
        BY <2>1, <2>3 DEF Left
    <2> QED BY <2>1, <2>2, <2>4 DEF t
<1>2. CASE st.first = <<>>
    <2> DEFINE k == Head(st.turns)
               s == Head(st.lists[k])
    <2>1. ToSet(st.first) = {}
        BY <1>2 DEF ToSet
    <2>2. Listed(st) # {}
        BY <2>1 DEF Left
    <2>3. /\ Sound(t) /\ t.out = Append(st.out, s) /\ t.first = <<>>
          /\ k \in Keys /\ s \in Runs /\ s \in ToSet(st.lists[k])
          /\ Listed(t) = Listed(st) \ {s}
        BY <1>2, <2>2, ServedBucket
    <2>4. \A x \in Listed(st) :
             /\ x = s => Ahead(st, x) = {}
             /\ x # s => s \in Ahead(st, x) /\ Ahead(t, x) = Ahead(st, x) \ {s}
        BY <1>2, ServedBucketAhead
    <2> HIDE DEF t, s, k
    <2>5. ToSet(t.first) = {}
        BY <2>3 DEF ToSet
    <2>6. s \in Listed(st)
        BY <2>3 DEF Listed
    <2>7. s \in Left(st) /\ Left(t) = Left(st) \ {s}
        BY <2>1, <2>3, <2>5, <2>6 DEF Left
    <2> QED BY <2>3, <2>4, <2>7 DEF t
<1> QED BY <1>1, <1>2

\* Everyone who waits, and everyone before a waiter, is one of finitely many.
LEMMA WaitersFinite ==
    ASSUME NEW st, Sound(st), NEW x
    PROVE  /\ IsFiniteSet(Left(st)) /\ Cardinality(Left(st)) \in Nat
           /\ IsFiniteSet(Ahead(st, x)) /\ Cardinality(Ahead(st, x)) \in Nat
           /\ ToSet(st.first) \subseteq Runs /\ Listed(st) \subseteq Runs
<1>1. ToSet(st.first) \subseteq Runs
    BY DEF Sound, ToSet
<1>2. \A k \in Keys : ToSet(st.lists[k]) \subseteq Runs
    BY DEF Sound, ToSet
<1>3. Listed(st) \subseteq Runs
    BY <1>2 DEF Listed
<1>4. Left(st) \subseteq Runs /\ Ahead(st, x) \subseteq Runs
    BY <1>1, <1>3 DEF Left, Ahead
<1>5. IsFiniteSet(Left(st)) /\ IsFiniteSet(Ahead(st, x))
    BY <1>4, RunsFinite, FS_Subset
<1> QED BY <1>1, <1>3, <1>5, FS_CardinalityType

\* Served one after the other, a new run comes out right after the ones that
\* were before it at the start.
LEMMA ServingOrder ==
    ASSUME NEW f, NEW total \in Nat,
           Sound(f[0]), f[0].out = <<>>, Cardinality(Left(f[0])) = total,
           \A n \in 1..total : f[n] = Served(f[n - 1]),
           NEW x \in Listed(f[0])
    PROVE  f[total].out[Cardinality(Ahead(f[0], x)) + 1] = x
<1> DEFINE due == Cardinality(Ahead(f[0], x))
           Done(n) == /\ Sound(f[n]) /\ Len(f[n].out) = n
                      /\ Cardinality(Left(f[n])) = total - n
                      /\ \/ x \in Listed(f[n]) /\ Cardinality(Ahead(f[n], x)) = due - n
                         \/ x \notin Listed(f[n]) /\ due + 1 <= n /\ f[n].out[due + 1] = x
           S == {n \in Nat : n <= total => Done(n)}
<1>0. due \in Nat
    BY WaitersFinite
<1>1. 0 \in S
    BY <1>0
<1>2. ASSUME NEW n \in Nat, n \in S PROVE n + 1 \in S
    <2> SUFFICES ASSUME n + 1 <= total PROVE Done(n + 1)
        OBVIOUS
    <2> DEFINE st == f[n]
               t == f[n + 1]
    <2>1. Done(n)
        BY <1>2
    <2>2. t = Served(st)
        OBVIOUS
    <2> HIDE DEF st, t, S, due
    <2>3. /\ Sound(st) /\ Len(st.out) = n /\ Cardinality(Left(st)) = total - n
          /\ \/ x \in Listed(st) /\ Cardinality(Ahead(st, x)) = due - n
             \/ x \notin Listed(st) /\ due + 1 <= n /\ st.out[due + 1] = x
        BY <2>1 DEF st
    <2>4. Left(st) # {}
        <3>1. total - n # 0
            OBVIOUS
        <3>2. Cardinality(Left(st)) # 0
            BY <2>3, <3>1
        <3> QED BY <3>2, FS_EmptySet
    <2>5. PICK s \in Runs :
              /\ Sound(t) /\ t.out = Append(st.out, s)
              /\ s \in Left(st) /\ Left(t) = Left(st) \ {s}
              /\ Listed(t) = Listed(st) \ {s}
              /\ \A y \in Listed(st) :
                    IF y = s THEN Ahead(st, y) = {}
                    ELSE s \in Ahead(st, y) /\ Ahead(t, y) = Ahead(st, y) \ {s}
        <3>1. Sound(st) /\ Left(st) # {}
            BY <2>3, <2>4
        <3> QED BY <2>2, <3>1, ServedStep
    <2>6. st.out \in Seq(Runs)
        BY <2>3 DEF Sound
    <2>7. Len(t.out) = n + 1 /\ t.out[n + 1] = s /\ \A i \in 1..n : t.out[i] = st.out[i]
        BY <2>3, <2>5, <2>6
    <2>8. Cardinality(Left(t)) = total - (n + 1)
        <3>1. IsFiniteSet(Left(st))
            BY <2>3, WaitersFinite
        <3>2. Cardinality(Left(st) \ {s}) = Cardinality(Left(st)) - 1
            BY <3>1, <2>5, FS_RemoveElement
        <3> QED BY <3>2, <2>3, <2>5
    <2>9. \/ x \in Listed(t) /\ Cardinality(Ahead(t, x)) = due - (n + 1)
          \/ x \notin Listed(t) /\ due + 1 <= n + 1 /\ t.out[due + 1] = x
        <3>1. CASE x \notin Listed(st)
            <4>1. x \notin Listed(t)
                BY <3>1, <2>5
            <4>2. due + 1 <= n /\ st.out[due + 1] = x
                BY <3>1, <2>3
            <4>3. due + 1 \in 1..n /\ due + 1 <= n + 1
                BY <4>2, <1>0
            <4>4. t.out[due + 1] = x
                BY <4>2, <4>3, <2>7
            <4> QED BY <4>1, <4>3, <4>4
        <3>2. CASE x \in Listed(st) /\ x = s
            <4>1. Cardinality(Ahead(st, x)) = 0
                BY <3>2, <2>5, FS_EmptySet
            <4>2. due = n
                BY <4>1, <3>2, <2>3, <1>0
            <4>3. x \notin Listed(t)
                BY <3>2, <2>5
            <4> QED BY <4>2, <4>3, <3>2, <2>7
        <3>3. CASE x \in Listed(st) /\ x # s
            <4>1. s \in Ahead(st, x) /\ Ahead(t, x) = Ahead(st, x) \ {s} /\ x \in Listed(t)
                BY <3>3, <2>5
            <4>2. IsFiniteSet(Ahead(st, x))
                BY <2>3, WaitersFinite
            <4>3. Cardinality(Ahead(st, x) \ {s}) = Cardinality(Ahead(st, x)) - 1
                BY <4>1, <4>2, FS_RemoveElement
            <4>4. Cardinality(Ahead(st, x)) = due - n
                BY <3>3, <2>3
            <4> QED BY <4>1, <4>3, <4>4, <1>0
        <3> QED BY <3>1, <3>2, <3>3
    <2> QED BY <2>5, <2>7, <2>8, <2>9 DEF t
<1> HIDE DEF S
<1>3. total \in S
    BY <1>1, <1>2, SetInduction
<1>4. Done(total)
    BY <1>3 DEF S
<1>5. Left(f[total]) = {}
    <2>1. Cardinality(Left(f[total])) = 0 /\ IsFiniteSet(Left(f[total]))
        BY <1>4, WaitersFinite
    <2> QED BY <2>1, FS_EmptySet
<1>6. x \notin Listed(f[total])
    BY <1>5 DEF Left
<1> QED BY <1>4, <1>6

\* Two sets with no common member have as many members as both together.
LEMMA DisjointCount ==
    ASSUME NEW A, NEW B, IsFiniteSet(A), IsFiniteSet(B), A \cap B = {}
    PROVE  IsFiniteSet(A \cup B) /\ Cardinality(A \cup B) = Cardinality(A) + Cardinality(B)
<1>1. Cardinality(A \cap B) = 0
    BY FS_EmptySet
<1>2. /\ IsFiniteSet(A \cup B)
      /\ Cardinality(A \cup B) = Cardinality(A) + Cardinality(B) - Cardinality(A \cap B)
    BY FS_Union
<1>3. Cardinality(A) \in Nat /\ Cardinality(B) \in Nat
    BY FS_CardinalityType
<1> QED BY <1>1, <1>2, <1>3

\* The queues as they are now.
Queues == [first |-> admitted, turns |-> ring, lists |-> buckets, out |-> <<>>]

\* ... are sound: this is all the proof needs of the reachable states.
LEMMA QueuesSound ==
    ASSUME Types, NoStrandedWaiter
    PROVE  /\ Sound(Queues) /\ Queues.out = <<>>
           /\ Queues.first = admitted /\ Queues.turns = ring /\ Queues.lists = buckets
<1>1. /\ Queues.first = admitted /\ Queues.turns = ring /\ Queues.lists = buckets
      /\ Queues.out = <<>>
    BY DEF Queues
<1>2. \A k \in Keys : ToSet(buckets[k]) \cap ToSet(admitted) = {}
    BY DEF NoStrandedWaiter
<1>3. \A k, l \in Keys : k # l => ToSet(buckets[k]) \cap ToSet(buckets[l]) = {}
    BY DEF NoStrandedWaiter
<1>4. Queues.out \in Seq(Runs)
    BY <1>1
<1>5. Sound(Queues)
    BY <1>1, <1>2, <1>3, <1>4 DEF Sound, Types, NoStrandedWaiter
<1> QED BY <1>1, <1>5

\* ServeOrder is what nextWaiter serves, called once for everyone who waits.
LEMMA ServeOrderRun ==
    ASSUME Types, NoStrandedWaiter
    PROVE  LET total == Cardinality(Left(Queues))
           IN  /\ total \in Nat
               /\ \E f : /\ f[0] = Queues
                         /\ \A n \in 1..total : f[n] = Served(f[n - 1])
                         /\ ServeOrder = f[total].out
<1> DEFINE total == Len(admitted) + Cardinality(UNION {ToSet(buckets[k]) : k \in Keys})
           Rec(f, m) == f = [n \in 0..m |-> IF n = 0 THEN Queues ELSE Served(f[n - 1])]
           S == {m \in Nat : \E f : Rec(f, m)}
           h == CHOOSE f : Rec(f, total)
<1>1. ServeOrder = h[total].out
    BY DEF ServeOrder, Queues
<1>2. total = Cardinality(Left(Queues)) /\ total \in Nat
    <2> DEFINE U == Listed(Queues)
    <2>1. Sound(Queues) /\ Queues.first = admitted /\ Queues.lists = buckets
        BY QueuesSound
    <2>2. U = UNION {ToSet(buckets[k]) : k \in Keys}
        BY <2>1 DEF Listed
    <2>3. /\ IsFiniteSet(Left(Queues)) /\ Cardinality(Left(Queues)) \in Nat
          /\ U \subseteq Runs /\ ToSet(admitted) \subseteq Runs
        BY <2>1, WaitersFinite
    <2>4. U \cap ToSet(admitted) = {}
        BY <2>1 DEF Listed, Sound
    <2> HIDE DEF U
    <2>5. IsFiniteSet(U) /\ IsFiniteSet(ToSet(admitted))
        BY <2>3, RunsFinite, FS_Subset
    <2>6. Len(admitted) \in Nat
        BY DEF Types
    <2>7. IsInjective(admitted) /\ admitted \in Seq(Runs)
        BY DEF NoStrandedWaiter, Types
    <2>8. Cardinality(ToSet(admitted)) = Len(admitted)
        <3>1. Len(admitted) \in 0..Len(admitted)
            BY <2>6
        <3> QED BY <3>1, <2>6, <2>7, FifoPrefixCount
    <2>9. Left(Queues) = ToSet(admitted) \cup U
        BY <2>1 DEF Left, U
    <2>10. Cardinality(ToSet(admitted) \cup U) = Len(admitted) + Cardinality(U)
        BY <2>4, <2>5, <2>8, DisjointCount
    <2> QED BY <2>2, <2>3, <2>9, <2>10
<1> HIDE DEF total
<1>3. 0 \in S
    <2> DEFINE f == [n \in 0..0 |-> Queues]
    <2>1. Rec(f, 0)
        OBVIOUS
    <2> QED BY <2>1
<1>4. ASSUME NEW m \in Nat, m \in S PROVE m + 1 \in S
    <2>1. PICK f : Rec(f, m)
        BY <1>4
    <2> DEFINE g == [n \in 0..(m + 1) |-> IF n = m + 1 THEN Served(f[m]) ELSE f[n]]
    <2>2. Rec(g, m + 1)
        <3> SUFFICES ASSUME NEW n \in 0..(m + 1)
                     PROVE  g[n] = IF n = 0 THEN Queues ELSE Served(g[n - 1])
            OBVIOUS
        <3> HIDE DEF g
        <3>1. \A i \in 0..m : f[i] = IF i = 0 THEN Queues ELSE Served(f[i - 1])
            BY <2>1
        <3>2. g[m + 1] = Served(f[m]) /\ \A i \in 0..m : g[i] = f[i]
            BY DEF g
        <3>3. CASE n = m + 1
            <4>1. n # 0 /\ n - 1 = m /\ m \in 0..m
                BY <3>3
            <4> QED BY <3>2, <3>3, <4>1
        <3>4. CASE n # m + 1
            <4>1. n \in 0..m /\ (n # 0 => n - 1 \in 0..m)
                BY <3>4
            <4>2. g[n] = f[n] /\ (n # 0 => g[n - 1] = f[n - 1])
                BY <3>2, <4>1
            <4> QED BY <3>1, <4>1, <4>2
        <3> QED BY <3>3, <3>4
    <2> HIDE DEF g
    <2>3. m + 1 \in Nat /\ \E e : Rec(e, m + 1)
        BY <2>2
    <2> QED BY <2>3
<1> HIDE DEF S
<1>5. total \in S
    BY <1>2, <1>3, <1>4, SetInduction
<1>6. \E f : Rec(f, total)
    BY <1>5 DEF S
<1>7. Rec(h, total)
    BY <1>6
<1> HIDE DEF h
<1>8. \A n \in 0..total : h[n] = IF n = 0 THEN Queues ELSE Served(h[n - 1])
    BY <1>7
<1>9. h[0] = Queues /\ \A n \in 1..total : h[n] = Served(h[n - 1])
    BY <1>8, <1>2
<1> QED BY <1>1, <1>2, <1>9

\* positionLocked counts exactly the waiters that are served before its own.
LEMMA PositionCounts ==
    ASSUME Types, NoStrandedWaiter, NEW k \in Keys, NEW r \in ToSet(buckets[k])
    PROVE  PositionOf(r) = Cardinality(Ahead(Queues, r)) + 1
<1> DEFINE L == Len(ring)
           idx == SelectInSeq(buckets[key[r]], LAMBDA x : x = r) - 1
           turn == SelectInSeq(ring, LAMBDA x : x = key[r])
           counted(j) == LET n == Len(buckets[ring[j]])
                             rounds == IF j < turn THEN idx + 1 ELSE idx
                         IN  IF j = turn THEN 0 ELSE IF n < rounds THEN n ELSE rounds
           Rec(f, m) == f = [j \in 0..m |-> IF j = 0 THEN Len(admitted) + idx
                                           ELSE f[j - 1] + counted(j)]
           S == {m \in Nat : \E f : Rec(f, m)}
           h == CHOOSE f : Rec(f, L)
<1>1. PositionOf(r) = h[L] + 1
    BY DEF PositionOf
<1>2. /\ admitted \in Seq(Runs) /\ ring \in Seq(Keys) /\ buckets \in [Keys -> Seq(Runs)]
      /\ L \in Nat /\ DOMAIN ring = 1..L /\ Len(admitted) \in Nat
      /\ DOMAIN buckets[k] = 1..Len(buckets[k]) /\ Len(buckets[k]) \in Nat
      /\ buckets[k] \in Seq(Runs)
    BY DEF Types
<1>3. key[r] = k /\ r \in Runs
    BY DEF NoStrandedWaiter
<1>4. PICK p \in 1..Len(buckets[k]) : buckets[k][p] = r
    BY <1>2 DEF ToSet
<1>5. PICK t \in 1..L : ring[t] = k
    <2>1. buckets[k] # <<>>
        BY <1>2, <1>4
    <2>2. k \in ToSet(ring)
        BY <2>1 DEF NoStrandedWaiter
    <2> QED BY <2>2, <1>2 DEF ToSet
<1>6. idx = p - 1 /\ turn = t
    <2>1. {i \in 1..Len(buckets[k]) : buckets[k][i] = r} = {p}
        <3>1. IsInjective(buckets[k])
            BY DEF NoStrandedWaiter
        <3> QED BY <3>1, <1>2, <1>4 DEF IsInjective
    <2>2. SelectInSeq(buckets[k], LAMBDA x : x = r) = p
        BY <2>1, <1>2, <1>4 DEF SelectInSeq, Min
    <2>3. {i \in 1..L : ring[i] = k} = {t}
        BY <1>2, <1>5 DEF NoStrandedWaiter, IsInjective
    <2>4. SelectInSeq(ring, LAMBDA x : x = k) = t
        BY <2>3, <1>2, <1>5 DEF SelectInSeq, Min
    <2> QED BY <2>2, <2>4, <1>3
<1> HIDE DEF idx, turn
<1>7. 0 \in S
    <2> DEFINE f == [j \in 0..0 |-> Len(admitted) + idx]
    <2>1. Rec(f, 0)
        OBVIOUS
    <2> QED BY <2>1
<1>8. ASSUME NEW m \in Nat, m \in S PROVE m + 1 \in S
    <2>1. PICK f : Rec(f, m)
        BY <1>8
    <2> DEFINE g == [j \in 0..(m + 1) |-> IF j = m + 1 THEN f[m] + counted(m + 1) ELSE f[j]]
    <2> HIDE DEF counted
    <2>2. Rec(g, m + 1)
        <3> SUFFICES ASSUME NEW j \in 0..(m + 1)
                     PROVE  g[j] = IF j = 0 THEN Len(admitted) + idx ELSE g[j - 1] + counted(j)
            OBVIOUS
        <3> HIDE DEF g
        <3>1. \A i \in 0..m : f[i] = IF i = 0 THEN Len(admitted) + idx ELSE f[i - 1] + counted(i)
            BY <2>1
        <3>2. g[m + 1] = f[m] + counted(m + 1) /\ \A i \in 0..m : g[i] = f[i]
            BY DEF g
        <3>3. CASE j = m + 1
            <4>1. j # 0 /\ j - 1 = m /\ m \in 0..m
                BY <3>3
            <4> QED BY <3>2, <3>3, <4>1
        <3>4. CASE j # m + 1
            <4>1. j \in 0..m /\ (j # 0 => j - 1 \in 0..m)
                BY <3>4
            <4>2. g[j] = f[j] /\ (j # 0 => g[j - 1] = f[j - 1])
                BY <3>2, <4>1
            <4> QED BY <3>1, <4>1, <4>2
        <3> QED BY <3>3, <3>4
    <2> HIDE DEF g
    <2>3. m + 1 \in Nat
        OBVIOUS
    <2>4. \E e : Rec(e, m + 1)
        BY <2>2, Zenon
    <2> QED BY <2>3, <2>4
<1> HIDE DEF S, counted
<1>9. L \in S
    BY <1>2, <1>7, <1>8, SetInduction
<1>10. \E f : Rec(f, L)
    BY <1>9 DEF S
<1>11. Rec(h, L)
    BY <1>10
<1> HIDE DEF h
<1>12. /\ h[0] = Len(admitted) + p - 1
       /\ \A j \in 1..L : h[j] = h[j - 1] + counted(j)
    <2>1. \A j \in 0..L : h[j] = IF j = 0 THEN Len(admitted) + idx ELSE h[j - 1] + counted(j)
        BY <1>11
    <2> QED BY <2>1, <1>2, <1>6
<1>13. \A j \in 1..L : counted(j) = LET n == Len(buckets[ring[j]])
                                        rounds == IF j < t THEN p ELSE p - 1
                                    IN  IF j = t THEN 0 ELSE IF n < rounds THEN n ELSE rounds
    BY <1>6, <1>4 DEF counted
<1> DEFINE Q == Queues
           Before(i, n) == Sooner(i, n, t, p)
           Upto(j) == ToSet(admitted) \cup
                      {y \in Runs : \E i, n \in Nat :
                          At(Q, y, i, n) /\ Before(i, n) /\ (i = t \/ i <= j)}
           Have == {j \in Nat : j <= L => /\ IsFiniteSet(Upto(j))
                                          /\ Cardinality(Upto(j)) = h[j]}
<1>14. Sound(Q) /\ Q.first = admitted /\ Q.turns = ring /\ Q.lists = buckets
    BY QueuesSound
<1> HIDE DEF Q
<1>15. \A y, i, n : At(Q, y, i, n) <=>
          i \in 1..L /\ n \in DOMAIN buckets[ring[i]] /\ buckets[ring[i]][n] = y
    BY <1>2, <1>14 DEF At
<1>16. \A i \in 1..L : /\ ring[i] \in Keys /\ buckets[ring[i]] \in Seq(Runs)
                       /\ IsInjective(buckets[ring[i]])
                       /\ Len(buckets[ring[i]]) \in Nat
                       /\ DOMAIN buckets[ring[i]] = 1..Len(buckets[ring[i]])
                       /\ ToSet(buckets[ring[i]]) \cap ToSet(admitted) = {}
    BY <1>2, <1>14 DEF Sound
<1>17. 0 \in Have
    <2> DEFINE A == ToSet(admitted)
               B == FifoPrefix(buckets[k], p - 1)
    <2>1. Len(admitted) \in 0..Len(admitted) /\ IsInjective(admitted)
        BY <1>2 DEF NoStrandedWaiter
    <2>2. IsFiniteSet(A) /\ Cardinality(A) = Len(admitted)
        BY <2>1, <1>2, FifoPrefixCount
    <2>3. p - 1 \in 0..Len(buckets[k]) /\ IsInjective(buckets[k])
        BY <1>4, <1>5, <1>16
    <2>4. IsFiniteSet(B) /\ Cardinality(B) = p - 1
        BY <2>3, <1>2, FifoPrefixCount
    <2>5. B \subseteq ToSet(buckets[k])
        BY <2>3, <1>2, FifoPrefixCount
    <2>6. A \cap B = {}
        BY <2>5, <1>5, <1>16
    <2>7. Upto(0) = A \cup B
        <3>1. \A y : (\E i, n \in Nat : At(Q, y, i, n) /\ Before(i, n) /\ (i = t \/ i <= 0))
                       <=> y \in B
            <4>1. ASSUME NEW y, NEW i \in Nat, NEW n \in Nat,
                         At(Q, y, i, n), Before(i, n), i = t \/ i <= 0
                  PROVE  y \in B
                <5>1. i = t /\ n \in 1..(p - 1) /\ buckets[k][n] = y
                    BY <4>1, <1>2, <1>4, <1>5, <1>15 DEF Sooner
                <5> QED BY <5>1 DEF FifoPrefix
            <4>2. ASSUME NEW y \in B
                  PROVE  \E i, n \in Nat : At(Q, y, i, n) /\ Before(i, n) /\ (i = t \/ i <= 0)
                <5>1. PICK n \in 1..(p - 1) : buckets[k][n] = y
                    BY DEF FifoPrefix
                <5>2. n \in 1..Len(buckets[k]) /\ n < p /\ n \in Nat /\ t \in Nat
                    BY <1>2, <1>4
                <5>3. At(Q, y, t, n) /\ Before(t, n)
                    BY <5>1, <5>2, <1>2, <1>5, <1>15 DEF Sooner
                <5> QED BY <5>2, <5>3
            <4> QED BY <4>1, <4>2
        <3>2. B \subseteq Runs
            BY <2>5, <1>2 DEF ToSet
        <3> HIDE DEF B, Before
        <3> QED BY <3>1, <3>2
    <2> HIDE DEF A, B, Upto
    <2>8. IsFiniteSet(A \cup B) /\ Cardinality(A \cup B) = Len(admitted) + (p - 1)
        BY <2>2, <2>4, <2>6, DisjointCount
    <2>9. Cardinality(Upto(0)) = h[0] /\ IsFiniteSet(Upto(0))
        BY <2>7, <2>8, <1>2, <1>4, <1>12
    <2> QED BY <2>9
<1>18. ASSUME NEW j \in Nat, j \in Have PROVE j + 1 \in Have
    <2> SUFFICES ASSUME j + 1 <= L
                 PROVE  IsFiniteSet(Upto(j + 1)) /\ Cardinality(Upto(j + 1)) = h[j + 1]
        OBVIOUS
    <2>1. j + 1 \in 1..L /\ IsFiniteSet(Upto(j)) /\ Cardinality(Upto(j)) = h[j]
        BY <1>2, <1>18
    <2>2. h[j + 1] = h[j] + counted(j + 1)
        BY <2>1, <1>12
    <2>3. CASE j + 1 = t
        <3>1. counted(j + 1) = 0
            BY <2>1, <2>3, <1>13
        <3>2. \A i \in Nat : (i = t \/ i <= j + 1) <=> (i = t \/ i <= j)
            BY <2>3
        <3>3. Upto(j + 1) = Upto(j)
            BY <3>2
        <3>4. h[j] \in Nat
            <4> HIDE DEF Upto
            <4> QED BY <2>1, FS_CardinalityType
        <3> HIDE DEF Upto
        <3> QED BY <3>1, <3>3, <3>4, <2>1, <2>2
    <2>4. CASE j + 1 # t
        <3> DEFINE s == buckets[ring[j + 1]]
                   c == counted(j + 1)
                   B == FifoPrefix(s, c)
        <3>1. /\ s \in Seq(Runs) /\ IsInjective(s) /\ Len(s) \in Nat
              /\ DOMAIN s = 1..Len(s) /\ ToSet(s) \cap ToSet(admitted) = {}
            BY <2>1, <1>16
        <3>2. c = LET rounds == IF j + 1 < t THEN p ELSE p - 1
                  IN  IF Len(s) < rounds THEN Len(s) ELSE rounds
            BY <2>1, <2>4, <1>13
        <3> HIDE DEF c
        <3>3. c \in 0..Len(s)
            BY <3>1, <3>2, <1>4
        <3>4. IsFiniteSet(B) /\ Cardinality(B) = c
            <4> HIDE DEF s
            <4> QED BY <3>1, <3>3, FifoPrefixCount
        <3>5. \A n \in 1..Len(s) : Before(j + 1, n) <=> n <= c
            BY <3>1, <3>2, <2>4, <1>4, <1>5 DEF Sooner
        <3>6. \A y : y \in B <=> \E n \in Nat : At(Q, y, j + 1, n) /\ Before(j + 1, n)
            <4>1. \A y : y \in B <=> \E n \in 1..Len(s) : s[n] = y /\ n <= c
                BY <3>1, <3>3 DEF FifoPrefix
            <4>2. \A y, n : At(Q, y, j + 1, n) <=> n \in 1..Len(s) /\ s[n] = y
                BY <3>1, <2>1, <1>15
            <4>3. 1..Len(s) \subseteq Nat
                OBVIOUS
            <4> HIDE DEF s, B, Before
            <4> QED BY <4>1, <4>2, <4>3, <3>5
        <3>7. B \subseteq Runs /\ B \subseteq ToSet(s)
            <4> HIDE DEF s
            <4>1. B \subseteq ToSet(s)
                BY <3>1, <3>3, FifoPrefixCount
            <4> QED BY <4>1, <3>1 DEF ToSet
        <3>8. Upto(j + 1) = Upto(j) \cup B
            <4> HIDE DEF B, Before
            <4>1. \A i \in Nat : (i = t \/ i <= j + 1) <=> (i = t \/ i <= j \/ i = j + 1)
                OBVIOUS
            <4>2. j + 1 \in Nat
                OBVIOUS
            <4>3. \A y : (\E i, n \in Nat : At(Q, y, i, n) /\ Before(i, n) /\ (i = t \/ i <= j + 1))
                     <=> \/ \E i, n \in Nat : At(Q, y, i, n) /\ Before(i, n) /\ (i = t \/ i <= j)
                         \/ y \in B
                BY <4>1, <4>2, <3>6
            <4> QED BY <4>3, <3>7
        <3>9. Upto(j) \cap B = {}
            <4> SUFFICES ASSUME NEW y \in Upto(j), y \in B PROVE FALSE
                OBVIOUS
            <4>1. y \notin ToSet(admitted)
                BY <3>1, <3>7
            <4>2. PICK i, n \in Nat : At(Q, y, i, n) /\ (i = t \/ i <= j)
                BY <4>1
            <4>3. PICK m \in Nat : At(Q, y, j + 1, m)
                BY <3>6
            <4>4. i = j + 1
                BY <4>2, <4>3, <1>14, AtUnique
            <4> QED BY <4>2, <4>4, <2>4
        <3> HIDE DEF B, Upto
        <3>10. IsFiniteSet(Upto(j) \cup B) /\ Cardinality(Upto(j) \cup B) = h[j] + c
            BY <3>4, <3>9, <2>1, DisjointCount
        <3> QED BY <3>8, <3>10, <2>2 DEF c
    <2> QED BY <2>3, <2>4
<1> HIDE DEF Have
<1>19. L \in Have
    BY <1>2, <1>17, <1>18, SetInduction
<1>20. Cardinality(Upto(L)) = h[L]
    BY <1>2, <1>19 DEF Have
<1>21. Upto(L) = Ahead(Q, r)
    <2>1. At(Q, r, t, p) /\ t \in Nat /\ p \in Nat
        <3>1. t \in Nat /\ p \in Nat /\ p \in DOMAIN buckets[ring[t]] /\ buckets[ring[t]][p] = r
            BY <1>2, <1>4, <1>5
        <3> QED BY <3>1, <1>15
    <2>2. \A y : y \in Ahead(Q, r) <=>
             \/ y \in ToSet(admitted)
             \/ \E i, n \in Nat : At(Q, y, i, n) /\ Sooner(i, n, t, p)
        BY <2>1, <1>14, AheadOf
    <2>3. \A y, i, n : At(Q, y, i, n) => y \in Runs /\ i <= L
        <3>1. \A y, i, n : At(Q, y, i, n) => y \in Runs
            BY <1>14, AtUnique
        <3>2. \A y, i, n : At(Q, y, i, n) => i <= L
            BY <1>15, <1>2
        <3> QED BY <3>1, <3>2
    <2>4. \A y : y \in Upto(L) <=>
             \/ y \in ToSet(admitted)
             \/ \E i, n \in Nat : At(Q, y, i, n) /\ Sooner(i, n, t, p)
        BY <2>3
    <2> HIDE DEF Upto
    <2> QED BY <2>2, <2>4
<1> HIDE DEF Upto
<1> QED BY <1>1, <1>20, <1>21 DEF Q

\* The position reported to a waiting run is its place in the order of service.
LEMMA PositionInOrder == Types /\ NoStrandedWaiter => PositionIsServeOrder
<1> SUFFICES ASSUME Types, NoStrandedWaiter, NEW k \in Keys, NEW r \in ToSet(buckets[k])
             PROVE  ServeOrder[PositionOf(r)] = r
    BY DEF PositionIsServeOrder
<1>1. PositionOf(r) = Cardinality(Ahead(Queues, r)) + 1
    BY PositionCounts
<1> DEFINE total == Cardinality(Left(Queues))
<1>2. PICK f : /\ f[0] = Queues
               /\ \A n \in 1..total : f[n] = Served(f[n - 1])
               /\ ServeOrder = f[total].out
    BY ServeOrderRun
<1>3. total \in Nat
    BY ServeOrderRun
<1>4. Sound(Queues) /\ Queues.out = <<>> /\ r \in Listed(Queues)
    BY QueuesSound DEF Listed
<1>5. f[total].out[Cardinality(Ahead(Queues, r)) + 1] = r
    BY <1>2, <1>3, <1>4, ServingOrder
<1> QED BY <1>1, <1>2, <1>5

\* A waiting run is told its place in the order of service, whatever joined,
\* left or was served before (positionLocked against nextWaiter).
THEOREM PositionsServed == Spec => []PositionIsServeOrder
<1>1. IInv => PositionIsServeOrder
    BY PositionInOrder DEF IInv
<1> QED BY <1>1, Invariance, PTL

\* A step of the loop is one call of nextWaiter.
LEMMA WakeServes ==
    ASSUME Types, NoStrandedWaiter, WakeNext
    PROVE  /\ Left(Queues) # {}
           /\ admitted' = Served(Queues).first
           /\ ring' = Served(Queues).turns
           /\ buckets' = Served(Queues).lists
<1>1. /\ Sound(Queues) /\ Queues.first = admitted /\ Queues.turns = ring
      /\ Queues.lists = buckets
    BY QueuesSound
<1>2. CASE admitted # <<>>
    <2>1. /\ admitted' = Served(Queues).first /\ ring' = Served(Queues).turns
          /\ buckets' = Served(Queues).lists
        BY <1>1, <1>2 DEF WakeNext, Served
    <2>2. ToSet(admitted) # {}
        BY <1>2, FifoEmpty DEF Types
    <2> QED BY <1>1, <2>1, <2>2 DEF Left
<1>3. CASE admitted = <<>>
    <2> DEFINE k == Head(ring)
    <2>1. /\ ring # <<>> /\ UNCHANGED admitted
          /\ buckets' = [buckets EXCEPT ![k] = Tail(buckets[k])]
          /\ ring' = IF Len(buckets[k]) = 1 THEN Tail(ring) ELSE Append(Tail(ring), k)
        BY <1>3 DEF WakeNext
    <2>2. k \in Keys /\ k \in ToSet(ring)
        BY <2>1, FifoTail DEF Types, NoStrandedWaiter
    <2>3. buckets[k] # <<>> /\ buckets[k] \in Seq(Runs) /\ IsInjective(buckets[k])
        BY <2>2 DEF Types, NoStrandedWaiter
    <2> HIDE DEF k
    <2>4. Tail(buckets[k]) = <<>> <=> Len(buckets[k]) = 1
        BY <2>3, FifoTail
    <2>5. /\ Served(Queues).first = <<>>
          /\ Served(Queues).lists = [buckets EXCEPT ![k] = Tail(buckets[k])]
          /\ Served(Queues).turns = IF Tail(buckets[k]) = <<>> THEN Tail(ring)
                                    ELSE Append(Tail(ring), k)
        BY <1>1, <1>3 DEF Served, k
    <2>6. Head(buckets[k]) \in Listed(Queues)
        BY <2>2, <2>3, <1>1, FifoTail DEF Listed
    <2> QED BY <1>3, <2>1, <2>4, <2>5, <2>6 DEF Left
<1> QED BY <1>2, <1>3

\* What PositionCounts says, of every waiting new run.
PositionsCounted ==
    \A k \in Keys : \A r \in ToSet(buckets[k]) : PositionOf(r) = Cardinality(Ahead(Queues, r)) + 1

\* ... holds in every state of the invariant.
LEMMA PositionsCountedInv == IInv => PositionsCounted /\ Sound(Queues)
BY PositionCounts, QueuesSound DEF PositionsCounted, IInv

\* A step of the loop moves every new run that still waits up by one.
LEMMA WakeCountsDown ==
    ASSUME IInv, WakeNext, PositionsCounted, PositionsCounted',
           NEW k \in Keys, NEW r \in ToSet(buckets'[k])
    PROVE  PositionOf(r)' = PositionOf(r) - 1
<1>1. PositionOf(r)' = Cardinality(Ahead(Queues, r)') + 1
    BY DEF PositionsCounted
<1>2. /\ Left(Queues) # {}
      /\ admitted' = Served(Queues).first
      /\ ring' = Served(Queues).turns
      /\ buckets' = Served(Queues).lists
    BY WakeServes DEF IInv
<1>3. Sound(Queues) /\ Queues.lists = buckets
    BY QueuesSound DEF IInv
<1> DEFINE t == Served(Queues)
<1> HIDE DEF t
<1>4. Ahead(Queues, r)' = Ahead(t, r)
    BY <1>2 DEF Queues, Ahead, At, t
<1>5. PICK s \in Runs :
          /\ Listed(t) = Listed(Queues) \ {s}
          /\ \A x \in Listed(Queues) :
                IF x = s THEN Ahead(Queues, x) = {}
                ELSE s \in Ahead(Queues, x) /\ Ahead(t, x) = Ahead(Queues, x) \ {s}
    BY <1>2, <1>3, ServedStep DEF t
<1>6. r \in Listed(t)
    BY <1>2 DEF Listed, t
<1>7. /\ r \in Listed(Queues) /\ s \in Ahead(Queues, r)
      /\ Ahead(t, r) = Ahead(Queues, r) \ {s}
    BY <1>5, <1>6
<1>8. IsFiniteSet(Ahead(Queues, r)) /\ Cardinality(Ahead(Queues, r)) \in Nat
    BY <1>3, WaitersFinite
<1>9. Cardinality(Ahead(t, r)) = Cardinality(Ahead(Queues, r)) - 1
    BY <1>7, <1>8, FS_RemoveElement
<1>10. PositionOf(r) = Cardinality(Ahead(Queues, r)) + 1
    BY <1>3, <1>7 DEF PositionsCounted, Listed
<1> QED BY <1>1, <1>4, <1>8, <1>9, <1>10

\* Whenever a waiter is handed a slot, every new run that still waits moves up by
\* exactly one: wakeNextLocked serves in the order positionLocked reports.
THEOREM PositionsCountDown ==
    Spec => [][WakeNext => \A k \in Keys : \A r \in ToSet(buckets'[k]) :
                              PositionOf(r)' = PositionOf(r) - 1]_vars
<1>1. (IInv => PositionsCounted /\ Sound(Queues))'
    BY PositionsCountedInv, PTL
<1>2. IInv /\ [Next]_vars
        => [WakeNext => \A k \in Keys : \A r \in ToSet(buckets'[k]) :
                           PositionOf(r)' = PositionOf(r) - 1]_vars
    BY <1>1, PositionsCountedInv, NextIInv, WakeCountsDown
<1> QED BY <1>2, Invariance, PTL DEF Spec

\* Nobody gets more waiters ahead when queues only lose members: the order of
\* the turns is kept, no bucket is longer, and x is no further back in its own.
LEMMA AheadShrinks ==
    ASSUME NEW st, NEW t, Sound(st), Sound(t), NEW x,
           x \in Listed(t), x \in Listed(st), ToSet(t.first) \subseteq ToSet(st.first),
           \A k \in Keys : Len(t.lists[k]) <= Len(st.lists[k]),
           \A i, j \in DOMAIN t.turns : \A a, b \in DOMAIN st.turns :
              t.turns[i] = st.turns[a] /\ t.turns[j] = st.turns[b] /\ i < j => a < b,
           \A i, n, a, m \in Nat :
              At(t, x, i, n) /\ At(st, x, a, m) => t.turns[i] = st.turns[a] /\ n <= m
    PROVE  Cardinality(Ahead(t, x)) <= Cardinality(Ahead(st, x))
<1>1. PICK i, n \in Nat : At(t, x, i, n)
    BY AtListed
<1>2. PICK a, m \in Nat : At(st, x, a, m)
    BY AtListed
<1>3. n <= m /\ t.turns[i] = st.turns[a]
    BY <1>1, <1>2
<1>4. \A y : y \in Ahead(t, x) <=>
         \/ y \in ToSet(t.first)
         \/ \E j, p \in Nat : At(t, y, j, p) /\ Sooner(j, p, i, n)
    BY <1>1, AheadOf
<1>5. \A y : y \in Ahead(st, x) <=>
         \/ y \in ToSet(st.first)
         \/ \E j, p \in Nat : At(st, y, j, p) /\ Sooner(j, p, a, m)
    BY <1>2, AheadOf
<1> DEFINE Same(y, z) == \E j, b, p \in Nat : /\ At(t, y, j, p) /\ At(st, z, b, p)
                                             /\ t.turns[j] = st.turns[b]
           g == [y \in Ahead(t, x) |-> IF y \in ToSet(t.first) THEN y ELSE CHOOSE z : Same(y, z)]
<1>6. ASSUME NEW y, NEW j \in Nat, NEW p \in Nat, At(t, y, j, p), Sooner(j, p, i, n)
      PROVE  \E z : Same(y, z) /\ z \in Ahead(st, x)
    <2> DEFINE k == t.turns[j]
    <2>1. /\ k \in Keys /\ p \in 1..Len(t.lists[k]) /\ j \in DOMAIN t.turns
        <3>1. j \in DOMAIN t.turns
            BY <1>6 DEF At
        <3>2. k \in Keys /\ p \in 1..Len(t.lists[k])
            BY <1>6, AtUnique
        <3> QED BY <3>1, <3>2
    <2>2. st.lists[k] \in Seq(Runs) /\ Len(t.lists[k]) <= Len(st.lists[k]) /\ t.lists[k] \in Seq(Runs)
        BY <2>1 DEF Sound
    <2>3. p \in 1..Len(st.lists[k]) /\ st.lists[k] # <<>> /\ p \in DOMAIN st.lists[k]
        BY <2>1, <2>2
    <2>4. k \in ToSet(st.turns)
        BY <2>1, <2>3 DEF Sound
    <2>5. PICK b \in DOMAIN st.turns : st.turns[b] = k
        BY <2>4 DEF ToSet
    <2>6. b \in Nat
        <3>1. st.turns \in Seq(Keys)
            BY DEF Sound
        <3> QED BY <2>5, <3>1
    <2> DEFINE z == st.lists[k][p]
    <2>7. At(st, z, b, p)
        BY <2>3, <2>5 DEF At
    <2>8. Same(y, z)
        BY <1>6, <2>5, <2>6, <2>7
    <2>9. j < i => b < a
        <3>1. i \in DOMAIN t.turns /\ a \in DOMAIN st.turns
            BY <1>1, <1>2 DEF At
        <3> QED BY <3>1, <2>1, <2>5, <1>3
    <2>10. Sooner(b, p, a, m)
        BY <1>3, <1>6, <2>9 DEF Sooner
    <2>11. z \in Ahead(st, x)
        BY <1>5, <2>6, <2>7, <2>10
    <2> QED BY <2>8, <2>11
<1>7. \A y, z, w : Same(y, z) /\ Same(y, w) => z = w
    <2> SUFFICES ASSUME NEW y, NEW z, NEW w, Same(y, z), Same(y, w) PROVE z = w
        OBVIOUS
    <2>1. PICK j, b, p \in Nat : At(t, y, j, p) /\ At(st, z, b, p) /\ t.turns[j] = st.turns[b]
        OBVIOUS
    <2>2. PICK k, c, q \in Nat : At(t, y, k, q) /\ At(st, w, c, q) /\ t.turns[k] = st.turns[c]
        OBVIOUS
    <2>3. k = j /\ q = p
        BY <2>1, <2>2, AtUnique
    <2> QED BY <2>1, <2>2, <2>3 DEF At
<1>8. \A y, z, w : Same(y, w) /\ Same(z, w) => y = z
    <2> SUFFICES ASSUME NEW y, NEW z, NEW w, Same(y, w), Same(z, w) PROVE y = z
        OBVIOUS
    <2>1. PICK j, b, p \in Nat : At(t, y, j, p) /\ At(st, w, b, p) /\ t.turns[j] = st.turns[b]
        OBVIOUS
    <2>2. PICK k, c, q \in Nat : At(t, z, k, q) /\ At(st, w, c, q) /\ t.turns[k] = st.turns[c]
        OBVIOUS
    <2>3. c = b /\ q = p
        BY <2>1, <2>2, AtUnique
    <2> QED BY <2>1, <2>2, <2>3 DEF At
<1>9. \A y, z : Same(y, z) => z \notin ToSet(st.first)
    <2> SUFFICES ASSUME NEW y, NEW z, Same(y, z) PROVE z \notin ToSet(st.first)
        OBVIOUS
    <2>1. PICK b, p \in Nat : At(st, z, b, p)
        OBVIOUS
    <2>2. st.turns[b] \in Keys /\ z \in ToSet(st.lists[st.turns[b]])
        BY <2>1, AtUnique
    <2> QED BY <2>2 DEF Sound
<1>10. \A y \in Ahead(t, x) : y \notin ToSet(t.first) => \E z : Same(y, z) /\ z \in Ahead(st, x)
    <2> HIDE DEF Same
    <2> QED BY <1>4, <1>6
<1> HIDE DEF Same
<1>11. ASSUME NEW y \in Ahead(t, x)
       PROVE  /\ g[y] \in Ahead(st, x)
              /\ y \in ToSet(t.first) => g[y] = y
              /\ y \notin ToSet(t.first) => Same(y, g[y])
    <2>1. CASE y \in ToSet(t.first)
        BY <2>1, <1>5
    <2>2. CASE y \notin ToSet(t.first)
        <3>1. PICK z : Same(y, z) /\ z \in Ahead(st, x)
            BY <2>2, <1>10
        <3>2. g[y] = CHOOSE w : Same(y, w)
            BY <2>2
        <3>3. Same(y, g[y])
            BY <3>1, <3>2
        <3>4. g[y] = z
            BY <3>1, <3>3, <1>7
        <3> QED BY <2>2, <3>1, <3>3, <3>4
    <2> QED BY <2>1, <2>2
<1>12. DOMAIN g = Ahead(t, x) /\ g \in [Ahead(t, x) -> Ahead(st, x)]
    <2>1. DOMAIN g = Ahead(t, x) /\ g = [y \in Ahead(t, x) |-> g[y]]
        OBVIOUS
    <2> HIDE DEF g
    <2> QED BY <2>1, <1>11
<1> HIDE DEF g
<1>13. ASSUME NEW y \in Ahead(t, x), NEW z \in Ahead(t, x), g[y] = g[z] PROVE y = z
    <2>1. CASE y \in ToSet(t.first) /\ z \in ToSet(t.first)
        BY <2>1, <1>11, <1>13
    <2>2. CASE y \notin ToSet(t.first) /\ z \notin ToSet(t.first)
        <3>1. Same(y, g[y]) /\ Same(z, g[y])
            BY <2>2, <1>11, <1>13
        <3> QED BY <3>1, <1>8
    <2>3. CASE y \in ToSet(t.first) /\ z \notin ToSet(t.first)
        <3>1. g[y] = y /\ g[z] \notin ToSet(st.first) /\ y \in ToSet(st.first)
            BY <2>3, <1>9, <1>11
        <3> QED BY <3>1, <1>13
    <2>4. CASE y \notin ToSet(t.first) /\ z \in ToSet(t.first)
        <3>1. g[z] = z /\ g[y] \notin ToSet(st.first) /\ z \in ToSet(st.first)
            BY <2>4, <1>9, <1>11
        <3> QED BY <3>1, <1>13
    <2> QED BY <2>1, <2>2, <2>3, <2>4
<1>14. g \in Injection(Ahead(t, x), Ahead(st, x))
    BY <1>12, <1>13 DEF Injection, IsInjective
<1>15. IsFiniteSet(Ahead(st, x))
    BY WaitersFinite
<1> QED BY <1>14, <1>15, FS_Injection

\* An arrival that leaves everyone's place and turn alone is at most one more.
LEMMA AheadGrows ==
    ASSUME NEW st, NEW t, Sound(st), Sound(t), NEW x \in Listed(st), NEW s, x # s,
           x \in Listed(t), ToSet(t.first) \subseteq ToSet(st.first) \cup {s},
           \A y, i, n : At(t, y, i, n) /\ y # s => At(st, y, i, n)
    PROVE  Cardinality(Ahead(t, x)) <= Cardinality(Ahead(st, x)) + 1
<1>1. Ahead(t, x) \subseteq Ahead(st, x) \cup {s}
    BY DEF Ahead
<1>2. IsFiniteSet(Ahead(st, x)) /\ Cardinality(Ahead(st, x)) \in Nat
    BY WaitersFinite
<1>3. /\ IsFiniteSet(Ahead(st, x) \cup {s})
      /\ Cardinality(Ahead(st, x) \cup {s}) <= Cardinality(Ahead(st, x)) + 1
    BY <1>2, FS_AddElement
<1>4. /\ Cardinality(Ahead(t, x)) <= Cardinality(Ahead(st, x) \cup {s})
      /\ Cardinality(Ahead(t, x)) \in Nat /\ Cardinality(Ahead(st, x) \cup {s}) \in Nat
    BY <1>1, <1>3, FS_Subset, FS_CardinalityType
<1> QED BY <1>2, <1>3, <1>4

\* What a step does to the queues: a caller that did not wait for a slot joins
\* at the back, one leaves, nextWaiter is called, or nothing.
LEMMA QueueMoves ==
    ASSUME IInv, Next
    PROVE  \/ UNCHANGED <<admitted, buckets, ring>>
           \/ \E r \in Runs : /\ ~SlotWaiter(r) /\ SlotWaiter(r)'
                              /\ admitted' = Append(admitted, r)
                              /\ UNCHANGED <<buckets, ring>>
           \/ \E r \in Runs, k \in Keys : ~SlotWaiter(r) /\ SlotWaiter(r)' /\ Push(k, r)
           \/ \E r \in Runs : RemoveWaiter(r)
           \/ WakeNext
<1> DEFINE Kept == UNCHANGED <<admitted, buckets, ring>>
           First == \E r \in Runs : /\ ~SlotWaiter(r) /\ SlotWaiter(r)'
                                    /\ admitted' = Append(admitted, r)
                                    /\ UNCHANGED <<buckets, ring>>
           Joined == \E r \in Runs, k \in Keys : ~SlotWaiter(r) /\ SlotWaiter(r)' /\ Push(k, r)
           Removed == \E r \in Runs : RemoveWaiter(r)
<1>0. /\ \A r \in Runs : key[r] \in Keys
      /\ pc \in [Runs -> Phases]
      /\ \A r \in tokens : pc[r] \in {"waiting", "reclaiming", "userWait"}
    BY DEF IInv, Types, NoStrandedWaiter
<1>1. UNCHANGED queues => Kept
    BY DEF queues
<1>2. ASSUME NEW r \in Runs, pc[r] \notin {"waiting", "reclaiming", "userWait"},
             QueueAdmitted(r), Goto(r, "waiting") \/ Goto(r, "reclaiming")
      PROVE  First
    <2>1. r \notin tokens /\ tokens' = tokens /\ pc'[r] \in {"waiting", "reclaiming"}
        BY <1>0, <1>2 DEF QueueAdmitted, Goto
    <2> QED BY <1>2, <2>1 DEF QueueAdmitted, SlotWaiter
<1>3. ASSUME NEW r \in Runs, pc[r] \notin {"waiting", "reclaiming"},
             r \notin tokens', Push(key[r], r), Goto(r, "waiting")
      PROVE  Joined
    <2>1. pc'[r] = "waiting"
        BY <1>0, <1>3 DEF Goto
    <2> QED BY <1>0, <1>3, <2>1 DEF SlotWaiter
<1>4. ASSUME NEW r \in Runs, Enter(r) PROVE Kept \/ First
    <2>1. CASE Wait(r)
        BY <1>1, <1>2, <2>1 DEF Wait, TakeFreeSlot
    <2>2. CASE TryAcquire(r) \/ (\E k \in Keys : AdmitSlot(r, k))
               \/ \E o \in SnapshotOps, k \in Keys : ReadCap(r, o, k)
        BY <1>1, <2>2 DEF TryAcquire, TakeFreeSlot, AdmitSlot, ReadCap
    <2> QED BY <1>4, <2>1, <2>2 DEF Enter
<1>5. ASSUME NEW r \in Runs, End(r) \/ Lend(r) \/ TryReclaim(r) PROVE Kept
    BY <1>1, <1>5 DEF End, EndRun, EndLent, EndRunLent, ReleaseReserve, Lend, TryReclaim
<1>6. ASSUME NEW r \in Runs, Reclaim(r) PROVE First
    BY <1>2, <1>6 DEF Reclaim
<1>7. ASSUME NEW r \in Runs, Step(r) PROVE Kept \/ First \/ Joined
    <2>1. CASE AcquireForUser(r)
        <3>1. pc[r] = "capRead" /\ r \notin tokens
            BY <1>0, <2>1 DEF AcquireForUser
        <3> QED BY <1>1, <1>3, <2>1, <3>1 DEF AcquireForUser, TakeFreeSlot
    <2>2. CASE AdmitNew(r) \/ AdmitWaited(r)
        <3>1. /\ pc[r] \notin {"waiting", "reclaiming"} /\ r \notin tokens'
              /\ AdmitGlobal(r, TRUE) \/ AdmitGlobal(r, FALSE)
            BY <2>2 DEF AdmitNew, AdmitWaited, AdmitGlobal
        <3>2. UNCHANGED queues \/ (Push(key[r], r) /\ Goto(r, "waiting"))
            BY <3>1 DEF AdmitGlobal
        <3> QED BY <1>1, <1>3, <3>1, <3>2
    <2>3. CASE WaitForUser(r)
        BY <1>1, <1>2, <2>3 DEF WaitForUser, TakeFreeSlot
    <2>4. CASE ReserveUser(r) \/ AdmitUserLocal(r) \/ ReceiveSlot(r)
        BY <1>1, <2>4 DEF ReserveUser, AdmitUserLocal, ReceiveSlot
    <2> QED BY <1>7, <2>1, <2>2, <2>3, <2>4 DEF Step
<1>8. ASSUME NEW r \in Runs, Cancel(r) PROVE Kept \/ Removed
    BY <1>1, <1>8 DEF Cancel, CancelUserWaiter, CancelWaiter, ReclaimCancelled
<1>9. ASSUME Reload PROVE Kept
    BY <1>1, <1>9 DEF Reload, SetCaps, WithPerUserCap, WithQueuedPerUserCap
<1>10. ASSUME Wake PROVE Kept \/ WakeNext
    BY <1>1, <1>10 DEF Wake, WakeNextDone, WakeUser, WakeUserDone
<1> HIDE DEF Kept, First, Joined, Removed
<1>11. Kept \/ First \/ Joined \/ Removed \/ WakeNext
    BY <1>4, <1>5, <1>6, <1>7, <1>8, <1>9, <1>10 DEF Next
<1> QED BY <1>11 DEF Kept, First, Joined, Removed

\* The queues of the next state.
LEMMA NextQueues ==
    ASSUME PositionsCounted', Sound(Queues)',
           NEW t, t = [first |-> admitted', turns |-> ring', lists |-> buckets', out |-> <<>>]
    PROVE  /\ Sound(t) /\ t.first = admitted' /\ t.turns = ring' /\ t.lists = buckets'
           /\ \A k \in Keys : \A x \in ToSet(buckets'[k]) :
                 PositionOf(x)' = Cardinality(Ahead(t, x)) + 1
<1>1. t.first = admitted' /\ t.turns = ring' /\ t.lists = buckets'
    OBVIOUS
<1>2. Sound(t)
    BY DEF Sound, Queues
<1>3. \A x : Ahead(Queues, x)' = Ahead(t, x)
    BY <1>1 DEF Queues, Ahead, At
<1> QED BY <1>1, <1>2, <1>3 DEF PositionsCounted

\* What a cancel does to the queues' lengths and order.
LEMMA RemovedShrinks ==
    ASSUME IInv, NEW r \in Runs, RemoveWaiter(r), Sound(Queues)',
           NEW t, t = [first |-> admitted', turns |-> ring', lists |-> buckets', out |-> <<>>],
           Sound(t), NEW x, x \in Listed(t), x \in Listed(Queues)
    PROVE  Cardinality(Ahead(t, x)) <= Cardinality(Ahead(Queues, x))
<1>1. /\ Sound(Queues) /\ Queues.first = admitted /\ Queues.turns = ring
      /\ Queues.lists = buckets
    BY QueuesSound DEF IInv
<1>2. t.first = admitted' /\ t.turns = ring' /\ t.lists = buckets'
    OBVIOUS
<1>3. /\ ToSet(admitted') \subseteq ToSet(admitted)
      /\ \A k \in Keys : ToSet(buckets'[k]) \subseteq ToSet(buckets[k])
    BY RemoveMembers DEF IInv
<1>4. /\ \A k \in Keys : /\ buckets'[k] = RemoveFirst(buckets[k], r)
                         /\ buckets[k] \in Seq(Runs) /\ IsInjective(buckets[k])
      /\ ring \in Seq(Keys) /\ IsInjective(ring)
    BY DEF RemoveWaiter, IInv, Types, NoStrandedWaiter
<1>5. \A k \in Keys : Len(buckets'[k]) <= Len(buckets[k])
    BY <1>4, FifoRemoveOrder
<1>6. ASSUME NEW i \in DOMAIN ring', NEW j \in DOMAIN ring', NEW a \in DOMAIN ring,
             NEW b \in DOMAIN ring, ring'[i] = ring[a], ring'[j] = ring[b], i < j
      PROVE  a < b
    <2>1. CASE ring' = ring
        BY <1>4, <1>6, <2>1 DEF IsInjective
    <2>2. ASSUME NEW l, ring' = RemoveFirst(ring, l) PROVE a < b
        BY <1>4, <1>6, <2>2, FifoRemoveOrder
    <2> QED BY <2>1, <2>2 DEF RemoveWaiter
<1>7. ASSUME NEW i \in Nat, NEW n \in Nat, NEW a \in Nat, NEW m \in Nat,
             At(t, x, i, n), At(Queues, x, a, m)
      PROVE  ring'[i] = ring[a] /\ n <= m
    <2>1. ring'[i] \in Keys /\ x \in ToSet(buckets'[ring'[i]])
        BY <1>2, <1>7, AtUnique
    <2>2. ring[a] \in Keys /\ x \in ToSet(buckets[ring[a]])
        BY <1>1, <1>7, AtUnique
    <2>3. ring'[i] = ring[a]
        BY <1>1, <1>3, <2>1, <2>2 DEF Sound
    <2> DEFINE k == ring[a]
    <2>4. /\ n \in DOMAIN RemoveFirst(buckets[k], r) /\ RemoveFirst(buckets[k], r)[n] = x
          /\ m \in DOMAIN buckets[k] /\ buckets[k][m] = x
        BY <1>1, <1>2, <1>4, <1>7, <2>2, <2>3 DEF At
    <2>5. n <= m
        BY <1>4, <2>2, <2>4, FifoRemoveKeepsTurn
    <2> QED BY <2>3, <2>5
<1> QED BY <1>1, <1>2, <1>3, <1>5, <1>6, <1>7, AheadShrinks

\* What an arrival does to the places of the others.
LEMMA JoinedPlaces ==
    ASSUME IInv, NEW s \in Runs, NEW l \in Keys, Push(l, s),
           NEW t, t = [first |-> admitted', turns |-> ring', lists |-> buckets', out |-> <<>>],
           NEW y, NEW i, NEW n, At(t, y, i, n), y # s
    PROVE  At(Queues, y, i, n)
<1>1. Queues.turns = ring /\ Queues.lists = buckets
    BY QueuesSound DEF IInv
<1>2. /\ i \in DOMAIN ring' /\ n \in DOMAIN buckets'[ring'[i]] /\ buckets'[ring'[i]][n] = y
    BY DEF At
<1>3. /\ ring \in Seq(Keys) /\ buckets \in [Keys -> Seq(Runs)]
    BY DEF IInv, Types
<1>4. /\ buckets' = [buckets EXCEPT ![l] = Append(buckets[l], s)]
      /\ ring' = IF buckets[l] = <<>> THEN Append(ring, l) ELSE ring
    BY DEF Push
<1>5. ASSUME NEW k \in Keys, n \in DOMAIN buckets'[k], buckets'[k][n] = y
      PROVE  n \in DOMAIN buckets[k] /\ buckets[k][n] = y
    <2>1. CASE k # l
        BY <1>3, <1>4, <1>5, <2>1
    <2>2. CASE k = l
        <3>1. buckets'[k] = Append(buckets[l], s) /\ buckets[l] \in Seq(Runs)
            BY <1>3, <1>4, <2>2
        <3>2. n \in 1..(Len(buckets[l]) + 1) /\ Len(buckets[l]) \in Nat
            BY <1>5, <3>1
        <3>3. n # Len(buckets[l]) + 1
            BY <1>5, <3>1
        <3> QED BY <1>5, <2>2, <3>1, <3>2, <3>3
    <2> QED BY <2>1, <2>2
<1>6. i \in DOMAIN ring /\ ring'[i] = ring[i]
    <2>1. CASE ring' = ring
        BY <1>2, <2>1
    <2>2. CASE buckets[l] = <<>> /\ ring' = Append(ring, l)
        <3>1. i \in 1..(Len(ring) + 1) /\ Len(ring) \in Nat
            BY <1>2, <1>3, <2>2
        <3>2. i # Len(ring) + 1
            <4> SUFFICES ASSUME i = Len(ring) + 1 PROVE FALSE
                OBVIOUS
            <4>1. ring'[i] = l
                BY <1>3, <2>2
            <4>2. n \in DOMAIN buckets[l]
                BY <1>2, <1>5, <4>1
            <4> QED BY <2>2, <4>2
        <3>3. i \in 1..Len(ring)
            BY <3>1, <3>2
        <3>4. DOMAIN ring = 1..Len(ring) /\ \A q \in 1..Len(ring) : Append(ring, l)[q] = ring[q]
            BY <1>3
        <3> QED BY <2>2, <3>3, <3>4
    <2> QED BY <1>4, <2>1, <2>2
<1>7. ring[i] \in Keys
    BY <1>3, <1>6
<1>8. n \in DOMAIN buckets[ring[i]] /\ buckets[ring[i]][n] = y
    BY <1>2, <1>5, <1>6, <1>7
<1> QED BY <1>1, <1>6, <1>8 DEF At

\* A step in which nobody joins leaves no run further back, and an arrival puts
\* it back by at most one.
LEMMA PositionMoves ==
    ASSUME IInv, Next, PositionsCounted, PositionsCounted', Sound(Queues)',
           NEW k \in Keys, NEW x \in ToSet(buckets[k]), x \in ToSet(buckets'[k])
    PROVE  \/ PositionOf(x)' <= PositionOf(x)
           \/ /\ PositionOf(x)' = PositionOf(x) + 1
              /\ \E y \in Runs : ~SlotWaiter(y) /\ SlotWaiter(y)'
<1> DEFINE t == [first |-> admitted', turns |-> ring', lists |-> buckets', out |-> <<>>]
           Q == Queues
<1>1. /\ Sound(Q) /\ Q.first = admitted /\ Q.turns = ring /\ Q.lists = buckets
    BY QueuesSound DEF IInv
<1>2. /\ Sound(t) /\ t.first = admitted' /\ t.turns = ring' /\ t.lists = buckets'
      /\ PositionOf(x)' = Cardinality(Ahead(t, x)) + 1
    BY NextQueues
<1>3. PositionOf(x) = Cardinality(Ahead(Q, x)) + 1
    BY DEF PositionsCounted
<1>4. t = [first |-> admitted', turns |-> ring', lists |-> buckets', out |-> <<>>]
    OBVIOUS
<1> HIDE DEF t
<1>5. x \in Listed(Q) /\ x \in Listed(t) /\ x \in Runs /\ SlotWaiter(x)
    BY <1>1, <1>2 DEF Listed, IInv, NoStrandedWaiter
<1>6. Cardinality(Ahead(Q, x)) \in Nat /\ Cardinality(Ahead(t, x)) \in Nat
    BY <1>1, <1>2, WaitersFinite
<1>7. CASE UNCHANGED <<admitted, buckets, ring>>
    <2>1. Ahead(t, x) = Ahead(Q, x)
        BY <1>1, <1>2, <1>7 DEF Ahead, At
    <2> QED BY <1>2, <1>3, <1>6, <2>1
<1>8. ASSUME NEW s \in Runs, ~SlotWaiter(s), SlotWaiter(s)',
             \/ admitted' = Append(admitted, s) /\ UNCHANGED <<buckets, ring>>
             \/ \E l \in Keys : Push(l, s)
      PROVE  \/ PositionOf(x)' <= PositionOf(x)
             \/ /\ PositionOf(x)' = PositionOf(x) + 1
                /\ \E y \in Runs : ~SlotWaiter(y) /\ SlotWaiter(y)'
    <2>1. x # s
        BY <1>5, <1>8
    <2>2. /\ ToSet(t.first) \subseteq ToSet(Q.first) \cup {s}
          /\ \A y, i, n : At(t, y, i, n) /\ y # s => At(Q, y, i, n)
        <3>1. CASE admitted' = Append(admitted, s) /\ UNCHANGED <<buckets, ring>>
            <4>1. ToSet(admitted') = ToSet(admitted) \cup {s}
                <5>1. s \notin ToSet(admitted) /\ admitted \in Seq(Runs) /\ IsInjective(admitted)
                    BY <1>8 DEF IInv, Types, NoStrandedWaiter
                <5> QED BY <3>1, <5>1, FifoAppend
            <4> QED BY <1>1, <1>2, <3>1, <4>1 DEF At
        <3>2. ASSUME NEW l \in Keys, Push(l, s)
              PROVE  /\ ToSet(t.first) \subseteq ToSet(Q.first) \cup {s}
                     /\ \A y, i, n : At(t, y, i, n) /\ y # s => At(Q, y, i, n)
            <4>1. admitted' = admitted
                BY <3>2 DEF Push
            <4>2. \A y, i, n : At(t, y, i, n) /\ y # s => At(Q, y, i, n)
                BY <1>4, <3>2, JoinedPlaces
            <4> QED BY <1>1, <1>2, <4>1, <4>2
        <3> QED BY <1>8, <3>1, <3>2
    <2> HIDE DEF Q
    <2>3. Cardinality(Ahead(t, x)) <= Cardinality(Ahead(Q, x)) + 1
        BY <1>1, <1>2, <1>5, <2>1, <2>2, AheadGrows
    <2> QED BY <1>2, <1>3, <1>6, <1>8, <2>3
<1>9. ASSUME NEW r \in Runs, RemoveWaiter(r) PROVE PositionOf(x)' <= PositionOf(x)
    <2>1. Cardinality(Ahead(t, x)) <= Cardinality(Ahead(Q, x))
        BY <1>2, <1>4, <1>5, <1>9, RemovedShrinks
    <2> QED BY <1>2, <1>3, <1>6, <2>1
<1>10. CASE WakeNext
    <2>1. PositionOf(x)' = PositionOf(x) - 1
        BY <1>10, WakeCountsDown
    <2> QED BY <1>3, <1>6, <2>1
<1> QED BY <1>7, <1>8, <1>9, <1>10, QueueMoves

\* The position a waiting run was told only rises when somebody else joins the
\* queues, and then by one: no cancel, hand-over, lend, release or reload puts a
\* run further back (removeWaiter, semQueue.push, wakeNextLocked).
THEOREM PositionsRiseByArrivalsOnly ==
    Spec => [][\A k \in Keys : \A r \in ToSet(buckets[k]) :
                  r \in ToSet(buckets'[k]) =>
                      \/ PositionOf(r)' <= PositionOf(r)
                      \/ /\ PositionOf(r)' = PositionOf(r) + 1
                         /\ \E x \in Runs : ~SlotWaiter(x) /\ SlotWaiter(x)']_vars
<1>1. (IInv => PositionsCounted /\ Sound(Queues))'
    BY PositionsCountedInv, PTL
<1>2. IInv /\ [Next]_vars
        => [\A k \in Keys : \A r \in ToSet(buckets[k]) :
               r \in ToSet(buckets'[k]) =>
                   \/ PositionOf(r)' <= PositionOf(r)
                   \/ /\ PositionOf(r)' = PositionOf(r) + 1
                      /\ \E x \in Runs : ~SlotWaiter(x) /\ SlotWaiter(x)']_vars
    BY <1>1, PositionsCountedInv, NextIInv, PositionMoves
<1> QED BY <1>2, Invariance, PTL DEF Spec
=============================================================================
