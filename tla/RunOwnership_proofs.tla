------------------------ MODULE RunOwnership_proofs ------------------------
(***************************************************************************)
(* What holds of the ownership of runs for every finite set of replicas    *)
(* and runs and every bound.  For each action a lemma says what it does to *)
(* the places of the runs, the rows, the counts and the sweep; the         *)
(* inductive invariant is then kept part by part: LoopInv (who works on a  *)
(* run, and what its row says), RecordInv (which counts the rows record)   *)
(* and CountInv (what the shared count covers).                            *)
(***************************************************************************)
EXTENDS RunOwnership, FiniteSetTheorems, FunctionTheorems, TLAPS

(* Put changes the place of one run in one process. *)
LEMMA PutFacts ==
    ASSUME TypeOK, NEW p \in Replicas, NEW r \in Runs, NEW place \in Places, Put(p, r, place)
    PROVE  /\ at' \in [Replicas -> [Runs -> Places]]
           /\ at'[p][r] = place
           /\ \A q \in Replicas, s \in Runs : q # p \/ s # r => at'[q][s] = at[q][s]
  BY DEF TypeOK, Put

(* What each update of a row makes of it. *)
LEMMA RowUpdates ==
    ASSUME NEW rw \in Rows
    PROVE  /\ \A b \in BOOLEAN : [rw EXCEPT !.paused = b] \in Rows
           /\ \A b \in BOOLEAN : [rw EXCEPT !.quiet = b] \in Rows
           /\ \A b \in BOOLEAN : [rw EXCEPT !.userSlot = b] \in Rows
           /\ \A o \in Replicas \cup {NoReplica} : [rw EXCEPT !.owner = o] \in Rows
           /\ \A e \in {"none", Died, "queuedDied", "heartbeatTimeout", "unheld"} :
                 /\ [rw EXCEPT !.status = "ended", !.error = e] \in Rows
                 /\ Finished(rw, e) \in Rows
  BY DEF Rows, Finished, Died

(* The state keeps its types. *)
LEMMA TypeStep == TypeOK /\ [Next]_vars => TypeOK'
  <1> SUFFICES ASSUME TypeOK, [Next]_vars PROVE TypeOK'
    OBVIOUS
  <1> USE OwnershipAssumption
  <1> USE DEF nofaults, budgets, cluster, locks, Places, Passing, Dispatching
  <1>1. ASSUME NEW p \in Replicas, NEW r \in Runs, AdmitUser(p, r) PROVE TypeOK'
    BY <1>1, PutFacts DEF AdmitUser, TypeOK
  <1>2. ASSUME NEW p \in Replicas, NEW r \in Runs, QueueForUser(p, r) PROVE TypeOK'
    BY <1>2, PutFacts DEF QueueForUser, TypeOK, QueuedRow, Rows
  <1>3. ASSUME NEW p \in Replicas, NEW r \in Runs, QueueForSlot(p, r) PROVE TypeOK'
    BY <1>3 DEF QueueForSlot, TypeOK, QueuedRow, Rows
  <1>4. ASSUME NEW p \in Replicas, NEW r \in Runs, Park(p, r) PROVE TypeOK'
    <2>1. PICK b \in BOOLEAN : row' = [row EXCEPT ![r].paused = b]
      BY <1>4 DEF Park
    <2>2. row' \in [Runs -> Rows]
      BY <2>1, RowUpdates DEF TypeOK
    <2> QED BY <1>4, <2>2, PutFacts DEF Park, TypeOK
  <1>5. ASSUME NEW p \in Replicas, NEW r \in Runs, Check(p, r) PROVE TypeOK'
    BY <1>5, PutFacts DEF Check, TypeOK
  <1>6. ASSUME NEW p \in Replicas, NEW r \in Runs, Unclaim(p, r) PROVE TypeOK'
    <2>1. PICK b \in BOOLEAN : row' = [row EXCEPT ![r].paused = b]
      BY <1>6 DEF Unclaim
    <2>2. row' \in [Runs -> Rows]
      BY <2>1, RowUpdates DEF TypeOK
    <2> QED BY <1>6, <2>2, PutFacts DEF Unclaim, TypeOK
  <1>7. ASSUME NEW p \in Replicas, NEW r \in Runs, Refuse(p, r) PROVE TypeOK'
    BY <1>7, PutFacts, RowUpdates DEF Refuse, TypeOK
  <1>8. ASSUME NEW p \in Replicas, NEW r \in Runs, CancelUnheld(p, r) PROVE TypeOK'
    BY <1>8, RowUpdates DEF CancelUnheld, TypeOK
  <1>9. ASSUME NEW p \in Replicas, NEW r \in Runs, PollUser(p, r) PROVE TypeOK'
    BY <1>9, PutFacts DEF PollUser, TypeOK
  <1>10. ASSUME NEW p \in Replicas, NEW r \in Runs, StartRun(p, r) PROVE TypeOK'
    <2>1. [status |-> "running", error |-> "none", paused |-> FALSE, owner |-> p,
           userSlot |-> (p \in counted[r]), quiet |-> FALSE] \in Rows
      BY DEF Rows
    <2>2. row' \in [Runs -> Rows]
      BY <1>10, <2>1 DEF StartRun, TypeOK
    <2> QED BY <1>10, <2>2, PutFacts DEF StartRun, TypeOK
  <1>11. ASSUME NEW p \in Replicas, NEW r \in Runs, EndLoop(p, r) PROVE TypeOK'
    BY <1>11, PutFacts, RowUpdates DEF EndLoop, TypeOK
  <1>12. ASSUME NEW p \in Replicas, NEW r \in Runs, ReleaseUser(p, r) PROVE TypeOK'
    BY <1>12, PutFacts DEF ReleaseUser, TypeOK, Released
  <1>13. ASSUME NEW p \in Replicas, NEW r \in Runs, Unpark(p, r) PROVE TypeOK'
    BY <1>13, PutFacts, RowUpdates DEF Unpark, TypeOK
  <1>14. ASSUME NEW p \in Replicas, NEW r \in Runs, Claim(p, r) PROVE TypeOK'
    <2>1. row' = row \/ \E b \in BOOLEAN : row' = [row EXCEPT ![r].paused = b]
      BY <1>14 DEF Claim
    <2>2. row' \in [Runs -> Rows]
      <3>1. CASE row' = row
        BY <3>1 DEF TypeOK
      <3>2. ASSUME NEW b \in BOOLEAN, row' = [row EXCEPT ![r].paused = b]
            PROVE  row' \in [Runs -> Rows]
        BY <3>2, RowUpdates DEF TypeOK
      <3> QED BY <2>1, <3>1, <3>2
    <2> QED BY <1>14, <2>2, PutFacts DEF Claim, TypeOK
  <1>15. ASSUME NEW p \in Replicas, NEW r \in Runs, Stamp(p, r) PROVE TypeOK'
    <2>1. row[r].quiet \in BOOLEAN
      BY DEF TypeOK, Rows
    <2>2. PICK owner \in {p, row[r].owner} :
             /\ row' = [row EXCEPT ![r].owner = owner,
                                   ![r].quiet = IF row[r].status = "running" THEN FALSE ELSE @]
             /\ IF owner = p
                THEN UNCHANGED <<faults, unstamped>>
                ELSE /\ faults < MaxFaults /\ faults' = faults + 1
                     /\ unstamped' = unstamped \cup {r}
      BY <1>15 DEF Stamp
    <2>3. owner \in Replicas \cup {NoReplica}
      BY <2>2 DEF TypeOK, Rows
    <2>4. row' \in [Runs -> Rows]
      BY <2>1, <2>2, <2>3, RowUpdates DEF TypeOK
    <2>5. faults' \in 0..MaxFaults /\ unstamped' \subseteq Runs
      BY <2>2 DEF TypeOK
    <2>6. at' \in [Replicas -> [Runs -> Places]]
      BY <1>15, PutFacts DEF Stamp
    <2> QED BY <1>15, <2>4, <2>5, <2>6 DEF Stamp, TypeOK
  <1>16. ASSUME NEW p \in Replicas, NEW r \in Runs, TakeSlot(p, r) PROVE TypeOK'
    <2>1. row' = row \/ \E b \in BOOLEAN : row' = [row EXCEPT ![r].userSlot = b]
      BY <1>16 DEF TakeSlot
    <2>2. row' \in [Runs -> Rows]
      <3>1. CASE row' = row
        BY <3>1 DEF TypeOK
      <3>2. ASSUME NEW b \in BOOLEAN, row' = [row EXCEPT ![r].userSlot = b]
            PROVE  row' \in [Runs -> Rows]
        BY <3>2, RowUpdates DEF TypeOK
      <3> QED BY <2>1, <3>1, <3>2
    <2> QED BY <1>16, <2>2, PutFacts DEF TakeSlot, TypeOK
  <1>17. ASSUME NEW p \in Replicas, NEW r \in Runs, GiveSlot(p, r) PROVE TypeOK'
    BY <1>17, PutFacts DEF GiveSlot, TypeOK, Released
  <1>18. ASSUME NEW p \in Replicas, NEW r \in Runs, CountResumed(p, r) PROVE TypeOK'
    <2>1. row' = row \/ \E b \in BOOLEAN : row' = [row EXCEPT ![r].quiet = b]
      BY <1>18 DEF CountResumed
    <2>2. row' \in [Runs -> Rows]
      <3>1. CASE row' = row
        BY <3>1 DEF TypeOK
      <3>2. ASSUME NEW b \in BOOLEAN, row' = [row EXCEPT ![r].quiet = b]
            PROVE  row' \in [Runs -> Rows]
        BY <3>2, RowUpdates DEF TypeOK
      <3> QED BY <2>1, <3>1, <3>2
    <2>3. \E place \in {"counting", "live"} : Put(p, r, place)
      BY <1>18 DEF CountResumed
    <2>4. at' \in [Replicas -> [Runs -> Places]]
      BY <2>3, PutFacts
    <2>5. /\ counted' \in [Runs -> SUBSET Replicas] /\ quota' \in Nat
          /\ faults' \in 0..MaxFaults
      BY <1>18 DEF CountResumed, TypeOK
    <2> QED BY <1>18, <2>2, <2>4, <2>5 DEF CountResumed, TypeOK
  <1>19. ASSUME NEW p \in Replicas, NEW r \in Runs, MarkSlot(p, r) PROVE TypeOK'
    <2>1. \/ \E b \in BOOLEAN : row' = [row EXCEPT ![r].quiet = b]
          \/ \E b, c \in BOOLEAN : row' = [row EXCEPT ![r].userSlot = c, ![r].quiet = b]
      BY <1>19 DEF MarkSlot
    <2>2. row' \in [Runs -> Rows]
      <3>1. ASSUME NEW b \in BOOLEAN, row' = [row EXCEPT ![r].quiet = b]
            PROVE  row' \in [Runs -> Rows]
        BY <3>1, RowUpdates DEF TypeOK
      <3>2. ASSUME NEW b \in BOOLEAN, NEW c \in BOOLEAN,
                   row' = [row EXCEPT ![r].userSlot = c, ![r].quiet = b]
            PROVE  row' \in [Runs -> Rows]
        BY <3>2, RowUpdates DEF TypeOK
      <3> QED BY <2>1, <3>1, <3>2
    <2> QED BY <1>19, <2>2, PutFacts DEF MarkSlot, TypeOK
  <1>20. ASSUME NEW p \in Replicas, Stop(p) PROVE TypeOK'
    BY <1>20 DEF Stop, ProcessGone, TypeOK, Idle
  <1>21. ASSUME NEW p \in Replicas, Crash(p) PROVE TypeOK'
    <2>1. beat' \in [Replicas -> {"none", "fresh", "stale"}] /\ quit' \subseteq Replicas
      BY <1>21 DEF Crash, TypeOK
    <2>2. lostParked' \in BOOLEAN /\ crashes' \in 0..MaxCrashes
      BY <1>21 DEF Crash, TypeOK
    <2>3. /\ at' \in [Replicas -> [Runs -> Places]] /\ up' \subseteq Replicas
          /\ counted' \in [Runs -> SUBSET Replicas] /\ resumer' \in Replicas \cup {NoReplica}
      BY <1>21 DEF Crash, ProcessGone, TypeOK
    <2>4. sweep' \in [by : Replicas \cup {NoReplica}, left : SUBSET Replicas,
                      id : Replicas \cup {NoReplica},
                      pc : {"list", "pick", "mark", "count", "decrement", "queued", "delete"},
                      marked : SUBSET Runs, leaked : Nat]
      BY <1>21 DEF Crash, ProcessGone, TypeOK, Idle
    <2>5. UNCHANGED <<row, quota, faults, parks, boots, doubted, unstamped>>
      BY <1>21 DEF Crash, ProcessGone
    <2> QED BY <2>1, <2>2, <2>3, <2>4, <2>5 DEF TypeOK
  <1>22. ASSUME NEW p \in Replicas, Boot(p) PROVE TypeOK'
    <2> DEFINE mine == {r \in Runs : row[r].status = "queued" /\ row[r].owner = p}
    <2>1. PICK failed \in SUBSET mine : \E held \in SUBSET (mine \ failed) :
             /\ row' = [r \in Runs |-> IF r \in failed THEN Finished(row[r], "none") ELSE row[r]]
             /\ at' = [at EXCEPT ![p] = [r \in Runs |-> CASE r \in held -> "held"
                                               [] r \in mine \ (failed \cup held) -> "polling"
                                               [] OTHER -> "none"]]
      BY <1>22 DEF Boot, QueueAgain
    <2>2. PICK held \in SUBSET (mine \ failed) :
             /\ row' = [r \in Runs |-> IF r \in failed THEN Finished(row[r], "none") ELSE row[r]]
             /\ at' = [at EXCEPT ![p] = [r \in Runs |-> CASE r \in held -> "held"
                                               [] r \in mine \ (failed \cup held) -> "polling"
                                               [] OTHER -> "none"]]
      BY <2>1
    <2>3. row' \in [Runs -> Rows]
      BY <2>2, RowUpdates DEF TypeOK
    <2>4. at' \in [Replicas -> [Runs -> Places]]
      BY <2>2 DEF TypeOK
    <2>5. /\ boots' \in 0..MaxBoots /\ up' \subseteq Replicas /\ quit' \subseteq Replicas
          /\ beat' \in [Replicas -> {"none", "fresh", "stale"}]
      BY <1>22 DEF Boot, TypeOK
    <2>6. UNCHANGED <<counted, quota, locks, crashes, faults, parks, lostParked, doubted, unstamped>>
      BY <1>22 DEF Boot
    <2> QED BY <2>3, <2>4, <2>5, <2>6 DEF TypeOK
  <1>23. ASSUME NEW p \in Replicas, Heartbeat(p) PROVE TypeOK'
    BY <1>23 DEF Heartbeat, TypeOK
  <1>24. ASSUME NEW p \in Replicas, GoStale(p) PROVE TypeOK'
    BY <1>24 DEF GoStale, TypeOK
  <1>25. ASSUME NEW p \in Replicas, SweepList(p) PROVE TypeOK'
    BY <1>25 DEF SweepList, TypeOK
  <1>26. CASE SweepFail
    <2>1. sweep' \in [by : Replicas \cup {NoReplica}, left : SUBSET Replicas,
                      id : Replicas \cup {NoReplica},
                      pc : {"list", "pick", "mark", "count", "decrement", "queued", "delete"},
                      marked : SUBSET Runs, leaked : Nat]
      BY <1>26 DEF SweepFail, TypeOK
    <2>2. faults' \in 0..MaxFaults
      BY <1>26 DEF SweepFail, TypeOK
    <2>3. UNCHANGED <<cluster, row, at, counted, quota, resumer, nofaults>>
      BY <1>26 DEF SweepFail
    <2> QED BY <2>1, <2>2, <2>3 DEF TypeOK
  <1>27. CASE SweepPick
    <2>1. CASE sweep.left = {}
      BY <1>27, <2>1 DEF SweepPick, TypeOK, Idle
    <2>2. CASE sweep.left # {}
      <3>1. PICK q \in Replicas : sweep' = [sweep EXCEPT !.left = @ \ {q}, !.id = q, !.pc = "mark"]
        BY <1>27, <2>2 DEF SweepPick, TypeOK
      <3> QED BY <1>27, <3>1 DEF SweepPick, TypeOK
    <2> QED BY <2>1, <2>2
  <1>28. CASE SweepMark
    <2>1. row' \in [Runs -> Rows]
      BY <1>28, RowUpdates DEF SweepMark, TypeOK
    <2>2. Marked(sweep.id) \subseteq Runs
      BY DEF Marked
    <2> QED BY <1>28, <2>1, <2>2 DEF SweepMark, TypeOK
  <1>29. CASE SweepCount
    <2>1. Cardinality(Leaked(sweep.id)) \in Nat
      BY FS_Subset, FS_CardinalityType DEF Leaked
    <2> QED BY <1>29, <2>1 DEF SweepCount, TypeOK
  <1>30. CASE SweepDecrement
    BY <1>30 DEF SweepDecrement, TypeOK
  <1>31. CASE SweepQueued
    <2>1. row' \in [Runs -> Rows]
      BY <1>31, RowUpdates DEF SweepQueued, TypeOK
    <2> QED BY <1>31, <2>1 DEF SweepQueued, TypeOK
  <1>32. CASE SweepDelete
    BY <1>32 DEF SweepDelete, TypeOK
  <1>33. CASE HeartbeatSweep
    BY <1>33, RowUpdates DEF HeartbeatSweep, TypeOK
  <1>34. ASSUME NEW r \in Runs, GoQuiet(r) PROVE TypeOK'
    BY <1>34, RowUpdates DEF GoQuiet, TypeOK
  <1>35. CASE UNCHANGED vars
    BY <1>35 DEF vars, TypeOK
  <1> QED
    BY <1>1, <1>2, <1>3, <1>4, <1>5, <1>6, <1>7, <1>8, <1>9, <1>10, <1>11, <1>12, <1>13,
        <1>14, <1>15, <1>16, <1>17, <1>18, <1>19, <1>20, <1>21, <1>22, <1>23, <1>24,
        <1>25, <1>26, <1>27, <1>28, <1>29, <1>30, <1>31, <1>32, <1>33, <1>34, <1>35
       DEF Next, RunStep, SweepStep
-----------------------------------------------------------------------------
(* What each action does to the state, field by field.                     *)

(* Only the place of run r in process p changes. *)
Moved(p, r, place) ==
    /\ at'[p][r] = place
    /\ \A q \in Replicas, s \in Runs : q # p \/ s # r => at'[q][s] = at[q][s]
SamePlaces == \A q \in Replicas, s \in Runs : at'[q][s] = at[q][s]

(* The fields of a row that the invariants read. *)
SameRow(s) == /\ row'[s].status = row[s].status /\ row'[s].error = row[s].error
              /\ row'[s].paused = row[s].paused /\ row'[s].owner = row[s].owner
              /\ row'[s].userSlot = row[s].userSlot
SameRows == \A s \in Runs : SameRow(s)
OtherRowsKept(r) == \A s \in Runs : s # r => SameRow(s)

(* Process p counts run r, or counts it no more. *)
Takes(p, r) == /\ counted'[r] = counted[r] \cup {p}
               /\ \A s \in Runs : s # r => counted'[s] = counted[s]
GivesUp(p, r) == /\ counted'[r] = counted[r] \ {p}
                 /\ \A s \in Runs : s # r => counted'[s] = counted[s]

ClusterKept == up' = up /\ beat' = beat
HistoryKept == /\ crashes' = crashes /\ boots' = boots
               /\ lostParked' = lostParked /\ doubted' = doubted
               /\ unstamped' = unstamped

(* A run is admitted: its process counts it and nobody else had it. *)
LEMMA AdmitUserEffect ==
    ASSUME TypeOK, NEW p \in Replicas, NEW r \in Runs, AdmitUser(p, r)
    PROVE  /\ p \in up /\ row[r].status = "none" /\ \A q \in Replicas : at[q][r] = "none"
           /\ Moved(p, r, "admitting")
           /\ SameRows
           /\ Takes(p, r) /\ quota' = quota + 1
           /\ ClusterKept /\ HistoryKept /\ sweep' = sweep /\ resumer' = resumer
           /\ faults' = faults
  <1>0. row \in [Runs -> Rows] /\ counted \in [Runs -> SUBSET Replicas] /\ quota \in Nat
    BY DEF TypeOK
  <1>1. p \in up /\ row[r].status = "none" /\ \A q \in Replicas : at[q][r] = "none"
    BY DEF AdmitUser
  <1>2. Moved(p, r, "admitting")
    BY PutFacts DEF AdmitUser, Moved, Places, Passing, Dispatching
  <1>3. SameRows
    BY DEF AdmitUser, SameRows, SameRow
  <1>4. Takes(p, r) /\ quota' = quota + 1
    BY <1>0 DEF AdmitUser, Takes
  <1>5. /\ ClusterKept /\ HistoryKept /\ sweep' = sweep /\ resumer' = resumer
        /\ faults' = faults
    BY DEF AdmitUser, nofaults, budgets, cluster, locks, ClusterKept, HistoryKept
  <1> QED BY <1>1, <1>2, <1>3, <1>4, <1>5

(* A run over the cap gets a queued row and polls. *)
LEMMA QueueForUserEffect ==
    ASSUME TypeOK, NEW p \in Replicas, NEW r \in Runs, QueueForUser(p, r)
    PROVE  /\ p \in up /\ row[r].status = "none" /\ \A q \in Replicas : at[q][r] = "none"
           /\ Moved(p, r, "polling")
           /\ OtherRowsKept(r) /\ row'[r].status = "queued" /\ row'[r].error = "none"
           /\ row'[r].owner = p /\ ~row'[r].paused /\ ~row'[r].userSlot
           /\ ClusterKept /\ HistoryKept /\ counted' = counted /\ quota' = quota
           /\ sweep' = sweep /\ resumer' = resumer /\ faults' = faults
  <1>0. row \in [Runs -> Rows] /\ counted \in [Runs -> SUBSET Replicas] /\ quota \in Nat
    BY DEF TypeOK
  <1>1. p \in up /\ row[r].status = "none" /\ \A q \in Replicas : at[q][r] = "none"
    BY DEF QueueForUser
  <1>2. Moved(p, r, "polling")
    BY PutFacts DEF QueueForUser, Moved, Places, Passing, Dispatching
  <1>3. /\ OtherRowsKept(r) /\ row'[r].status = "queued" /\ row'[r].error = "none"
        /\ row'[r].owner = p /\ ~row'[r].paused /\ ~row'[r].userSlot
    BY <1>0 DEF QueueForUser, Rows, SameRow, OtherRowsKept, QueuedRow
  <1>4. /\ ClusterKept /\ HistoryKept /\ counted' = counted /\ quota' = quota
        /\ sweep' = sweep /\ resumer' = resumer /\ faults' = faults
    BY DEF QueueForUser, nofaults, budgets, cluster, locks, ClusterKept, HistoryKept
  <1> QED BY <1>1, <1>2, <1>3, <1>4

(* A counted run waits for a slot under a queued row. *)
LEMMA QueueForSlotEffect ==
    ASSUME TypeOK, NEW p \in Replicas, NEW r \in Runs, QueueForSlot(p, r)
    PROVE  /\ p \in up /\ at[p][r] = "admitting" /\ row[r].status = "none"
           /\ SamePlaces
           /\ OtherRowsKept(r) /\ row'[r].status = "queued" /\ row'[r].error = "none"
           /\ row'[r].owner = p /\ ~row'[r].paused /\ ~row'[r].userSlot
           /\ ClusterKept /\ HistoryKept /\ counted' = counted /\ quota' = quota
           /\ sweep' = sweep /\ resumer' = resumer /\ faults' = faults
  <1>0. row \in [Runs -> Rows] /\ counted \in [Runs -> SUBSET Replicas] /\ quota \in Nat
    BY DEF TypeOK
  <1>1. p \in up /\ at[p][r] = "admitting" /\ row[r].status = "none"
    BY DEF QueueForSlot
  <1>2. SamePlaces
    BY DEF QueueForSlot, SamePlaces
  <1>3. /\ OtherRowsKept(r) /\ row'[r].status = "queued" /\ row'[r].error = "none"
        /\ row'[r].owner = p /\ ~row'[r].paused /\ ~row'[r].userSlot
    BY <1>0 DEF QueueForSlot, Rows, SameRow, OtherRowsKept, QueuedRow
  <1>4. /\ ClusterKept /\ HistoryKept /\ counted' = counted /\ quota' = quota
        /\ sweep' = sweep /\ resumer' = resumer /\ faults' = faults
    BY DEF QueueForSlot, nofaults, budgets, cluster, locks, ClusterKept, HistoryKept
  <1> QED BY <1>1, <1>2, <1>3, <1>4

(* A loop parks: a running row becomes paused. *)
LEMMA ParkEffect ==
    ASSUME TypeOK, NEW p \in Replicas, NEW r \in Runs, Park(p, r)
    PROVE  /\ p \in up /\ at[p][r] = "live"
           /\ Moved(p, r, "parked")
           /\ OtherRowsKept(r) /\ row'[r].status = row[r].status
           /\ row'[r].error = row[r].error /\ row'[r].owner = row[r].owner
           /\ (row'[r].paused <=> row[r].status = "running")
           /\ row'[r].userSlot = row[r].userSlot
           /\ ClusterKept /\ HistoryKept /\ counted' = counted /\ quota' = quota
           /\ sweep' = sweep /\ resumer' = resumer /\ faults' = faults
  <1>0. row \in [Runs -> Rows] /\ counted \in [Runs -> SUBSET Replicas] /\ quota \in Nat
    BY DEF TypeOK
  <1>1. p \in up /\ at[p][r] = "live"
    BY DEF Park
  <1>2. Moved(p, r, "parked")
    BY PutFacts DEF Park, Moved, Places, Passing, Dispatching
  <1>3. /\ OtherRowsKept(r) /\ row'[r].status = row[r].status
        /\ row'[r].error = row[r].error /\ row'[r].owner = row[r].owner
        /\ (row'[r].paused <=> row[r].status = "running")
        /\ row'[r].userSlot = row[r].userSlot
    BY <1>0 DEF Park, Rows, SameRow, OtherRowsKept
  <1>4. /\ ClusterKept /\ HistoryKept /\ counted' = counted /\ quota' = quota
        /\ sweep' = sweep /\ resumer' = resumer /\ faults' = faults
    BY DEF Park, nofaults, budgets, cluster, locks, ClusterKept, HistoryKept
  <1> QED BY <1>1, <1>2, <1>3, <1>4

(* A resume looks at a paused row that nobody live holds. *)
LEMMA CheckEffect ==
    ASSUME TypeOK, NEW p \in Replicas, NEW r \in Runs, Check(p, r)
    PROVE  /\ p \in up /\ at[p][r] = "none" /\ row[r].status = "running" /\ row[r].paused
           /\ ~IsLive(p, r)
           /\ Moved(p, r, "checked")
           /\ SameRows
           /\ ClusterKept /\ HistoryKept /\ counted' = counted /\ quota' = quota
           /\ sweep' = sweep /\ resumer = NoReplica /\ resumer' = p /\ faults' = faults
  <1>0. row \in [Runs -> Rows] /\ counted \in [Runs -> SUBSET Replicas] /\ quota \in Nat
    BY DEF TypeOK
  <1>1. /\ p \in up /\ at[p][r] = "none" /\ row[r].status = "running" /\ row[r].paused
        /\ ~IsLive(p, r)
    BY DEF Check
  <1>2. Moved(p, r, "checked")
    BY PutFacts DEF Check, Moved, Places, Passing, Dispatching
  <1>3. SameRows
    BY DEF Check, SameRows, SameRow
  <1>4. /\ ClusterKept /\ HistoryKept /\ counted' = counted /\ quota' = quota
        /\ sweep' = sweep /\ resumer = NoReplica /\ resumer' = p /\ faults' = faults
    BY DEF Check, nofaults, budgets, cluster, locks, ClusterKept, HistoryKept
  <1> QED BY <1>1, <1>2, <1>3, <1>4

(* A resume that failed to read gives the row back as paused. *)
LEMMA UnclaimEffect ==
    ASSUME TypeOK, NEW p \in Replicas, NEW r \in Runs, Unclaim(p, r)
    PROVE  /\ p \in up /\ at[p][r] \in {"claimed", "dispatch"}
           /\ Moved(p, r, "none")
           /\ OtherRowsKept(r) /\ row'[r].status = row[r].status
           /\ row'[r].error = row[r].error /\ row'[r].owner = row[r].owner
           /\ (row'[r].paused <=> row[r].status = "running")
           /\ row'[r].userSlot = row[r].userSlot
           /\ ClusterKept /\ HistoryKept /\ counted' = counted /\ quota' = quota
           /\ sweep' = sweep /\ resumer' = NoReplica /\ faults' = faults + 1
  <1>0. row \in [Runs -> Rows] /\ counted \in [Runs -> SUBSET Replicas] /\ quota \in Nat
    BY DEF TypeOK
  <1>1. p \in up /\ at[p][r] \in {"claimed", "dispatch"}
    BY DEF Unclaim
  <1>2. Moved(p, r, "none")
    BY PutFacts DEF Unclaim, Moved, Places, Passing, Dispatching
  <1>3. /\ OtherRowsKept(r) /\ row'[r].status = row[r].status
        /\ row'[r].error = row[r].error /\ row'[r].owner = row[r].owner
        /\ (row'[r].paused <=> row[r].status = "running")
        /\ row'[r].userSlot = row[r].userSlot
    BY <1>0 DEF Unclaim, Rows, SameRow, OtherRowsKept
  <1>4. /\ ClusterKept /\ HistoryKept /\ counted' = counted /\ quota' = quota
        /\ sweep' = sweep /\ resumer' = NoReplica /\ faults' = faults + 1
    BY DEF Unclaim, nofaults, budgets, cluster, locks, ClusterKept, HistoryKept
  <1> QED BY <1>1, <1>2, <1>3, <1>4

(* A run that cannot be resumed is ended. *)
LEMMA RefuseEffect ==
    ASSUME TypeOK, NEW p \in Replicas, NEW r \in Runs, Refuse(p, r)
    PROVE  /\ p \in up /\ at[p][r] = "claimed"
           /\ Moved(p, r, "refused")
           /\ OtherRowsKept(r) /\ row'[r].owner = row[r].owner
           /\ row'[r].userSlot = row[r].userSlot
              /\ (row[r].status \notin {"running", "queued"} => SameRow(r))
              /\ (row[r].status \in {"running", "queued"} => row'[r].status = "ended" /\ row'[r].error = "none")
           /\ ClusterKept /\ HistoryKept /\ counted' = counted /\ quota' = quota
           /\ sweep' = sweep /\ resumer' = resumer /\ faults' = faults
  <1>0. row \in [Runs -> Rows] /\ counted \in [Runs -> SUBSET Replicas] /\ quota \in Nat
    BY DEF TypeOK
  <1>1. p \in up /\ at[p][r] = "claimed"
    BY DEF Refuse
  <1>2. Moved(p, r, "refused")
    BY PutFacts DEF Refuse, Moved, Places, Passing, Dispatching
  <1>3. /\ OtherRowsKept(r) /\ row'[r].owner = row[r].owner
        /\ row'[r].userSlot = row[r].userSlot
        /\ (row[r].status \notin {"running", "queued"} => SameRow(r))
        /\ (row[r].status \in {"running", "queued"} => row'[r].status = "ended" /\ row'[r].error = "none")
    BY <1>0 DEF Refuse, Rows, SameRow, OtherRowsKept, Finished
  <1>4. /\ ClusterKept /\ HistoryKept /\ counted' = counted /\ quota' = quota
        /\ sweep' = sweep /\ resumer' = resumer /\ faults' = faults
    BY DEF Refuse, nofaults, budgets, cluster, locks, ClusterKept, HistoryKept
  <1> QED BY <1>1, <1>2, <1>3, <1>4

(* A cancel ends the row of a run nobody live holds. *)
LEMMA CancelUnheldEffect ==
    ASSUME TypeOK, NEW p \in Replicas, NEW r \in Runs, CancelUnheld(p, r)
    PROVE  /\ p \in up /\ row[r].status = "running"
           /\ SamePlaces
           /\ OtherRowsKept(r) /\ row'[r].status = "ended" /\ row'[r].error = "unheld"
           /\ row'[r].owner = row[r].owner /\ row'[r].userSlot = row[r].userSlot
           /\ ClusterKept /\ HistoryKept /\ counted' = counted /\ quota' = quota
           /\ sweep' = sweep /\ resumer' = resumer /\ faults' = faults
  <1>0. row \in [Runs -> Rows] /\ counted \in [Runs -> SUBSET Replicas] /\ quota \in Nat
    BY DEF TypeOK
  <1>1. p \in up /\ row[r].status = "running"
    BY DEF CancelUnheld
  <1>2. SamePlaces
    BY DEF CancelUnheld, SamePlaces
  <1>3. OtherRowsKept(r) /\ row'[r].status = "ended" /\ row'[r].error = "unheld"
    BY <1>0, <1>1 DEF CancelUnheld, Rows, OtherRowsKept, SameRow, Finished
  <1>4. row'[r].owner = row[r].owner /\ row'[r].userSlot = row[r].userSlot
    BY <1>0, <1>1 DEF CancelUnheld, Rows, Finished
  <1>5. /\ ClusterKept /\ HistoryKept /\ counted' = counted /\ quota' = quota
        /\ sweep' = sweep /\ resumer' = resumer /\ faults' = faults
    BY DEF CancelUnheld, nofaults, budgets, cluster, locks, ClusterKept, HistoryKept
  <1> QED BY <1>1, <1>2, <1>3, <1>4, <1>5

(* A polling run is counted. *)
LEMMA PollUserEffect ==
    ASSUME TypeOK, NEW p \in Replicas, NEW r \in Runs, PollUser(p, r)
    PROVE  /\ p \in up /\ at[p][r] = "polling"
           /\ Moved(p, r, "admitting")
           /\ SameRows
           /\ Takes(p, r) /\ quota' = quota + 1
           /\ ClusterKept /\ HistoryKept /\ sweep' = sweep /\ resumer' = resumer
           /\ faults' = faults
  <1>0. row \in [Runs -> Rows] /\ counted \in [Runs -> SUBSET Replicas] /\ quota \in Nat
    BY DEF TypeOK
  <1>1. p \in up /\ at[p][r] = "polling"
    BY DEF PollUser
  <1>2. Moved(p, r, "admitting")
    BY PutFacts DEF PollUser, Moved, Places, Passing, Dispatching
  <1>3. SameRows
    BY DEF PollUser, SameRows, SameRow
  <1>4. Takes(p, r) /\ quota' = quota + 1
    BY <1>0 DEF PollUser, Takes
  <1>5. /\ ClusterKept /\ HistoryKept /\ sweep' = sweep /\ resumer' = resumer
        /\ faults' = faults
    BY DEF PollUser, nofaults, budgets, cluster, locks, ClusterKept, HistoryKept
  <1> QED BY <1>1, <1>2, <1>3, <1>4, <1>5

(* A run with its slot starts, unless its row was ended while it waited. *)
LEMMA StartRunEffect ==
    ASSUME TypeOK, NEW p \in Replicas, NEW r \in Runs, StartRun(p, r)
    PROVE  /\ p \in up /\ at[p][r] = "admitting"
           /\ \/ /\ row[r].status \in {"none", "queued"} /\ Moved(p, r, "live")
                 /\ OtherRowsKept(r) /\ row'[r].status = "running"
                 /\ row'[r].error = "none" /\ row'[r].owner = p /\ ~row'[r].paused
                 /\ (row'[r].userSlot <=> p \in counted[r])
              \/ /\ row[r].status \notin {"none", "queued"} /\ Moved(p, r, "ending")
                 /\ SameRows
           /\ ClusterKept /\ HistoryKept /\ counted' = counted /\ quota' = quota
           /\ sweep' = sweep /\ resumer' = resumer /\ faults' = faults
  <1>0. row \in [Runs -> Rows] /\ counted \in [Runs -> SUBSET Replicas] /\ quota \in Nat
    BY DEF TypeOK
  <1>1. p \in up /\ at[p][r] = "admitting"
    BY DEF StartRun
  <1>2. \/ /\ row[r].status \in {"none", "queued"} /\ Moved(p, r, "live")
           /\ OtherRowsKept(r) /\ row'[r].status = "running" /\ row'[r].error = "none"
           /\ row'[r].owner = p /\ ~row'[r].paused
           /\ (row'[r].userSlot <=> p \in counted[r])
        \/ /\ row[r].status \notin {"none", "queued"} /\ Moved(p, r, "ending") /\ SameRows
    <2>1. CASE row[r].status \in {"none", "queued"}
      <3>1. row' = [row EXCEPT ![r] = [status |-> "running", error |-> "none", paused |-> FALSE,
                                       owner |-> p, userSlot |-> (p \in counted[r]),
                                       quiet |-> FALSE]]
        BY <2>1 DEF StartRun
      <3>2. /\ OtherRowsKept(r) /\ row'[r].status = "running" /\ row'[r].error = "none"
            /\ row'[r].owner = p /\ ~row'[r].paused
            /\ (row'[r].userSlot <=> p \in counted[r])
        BY <1>0, <3>1 DEF OtherRowsKept, SameRow
      <3>3. Moved(p, r, "live")
        BY <2>1, PutFacts DEF StartRun, Moved, Places
      <3> QED BY <2>1, <3>2, <3>3
    <2>2. CASE row[r].status \notin {"none", "queued"}
      BY <2>2, PutFacts DEF StartRun, Moved, Places, SameRows, SameRow
    <2> QED BY <2>1, <2>2
  <1>3. /\ ClusterKept /\ HistoryKept /\ counted' = counted /\ quota' = quota
        /\ sweep' = sweep /\ resumer' = resumer /\ faults' = faults
    BY DEF StartRun, nofaults, budgets, cluster, locks, ClusterKept, HistoryKept
  <1> QED BY <1>1, <1>2, <1>3

(* A loop ends its row. *)
LEMMA EndLoopEffect ==
    ASSUME TypeOK, NEW p \in Replicas, NEW r \in Runs, EndLoop(p, r)
    PROVE  /\ p \in up /\ at[p][r] = "live"
           /\ Moved(p, r, "ending")
           /\ OtherRowsKept(r) /\ row'[r].owner = row[r].owner
           /\ row'[r].userSlot = row[r].userSlot
              /\ (row[r].status \notin {"running", "queued"} => SameRow(r))
              /\ (row[r].status \in {"running", "queued"} => row'[r].status = "ended" /\ row'[r].error = "none")
           /\ ClusterKept /\ HistoryKept /\ counted' = counted /\ quota' = quota
           /\ sweep' = sweep /\ resumer' = resumer /\ faults' = faults
  <1>0. row \in [Runs -> Rows] /\ counted \in [Runs -> SUBSET Replicas] /\ quota \in Nat
    BY DEF TypeOK
  <1>1. p \in up /\ at[p][r] = "live"
    BY DEF EndLoop
  <1>2. Moved(p, r, "ending")
    BY PutFacts DEF EndLoop, Moved, Places, Passing, Dispatching
  <1>3. /\ OtherRowsKept(r) /\ row'[r].owner = row[r].owner
        /\ row'[r].userSlot = row[r].userSlot
        /\ (row[r].status \notin {"running", "queued"} => SameRow(r))
        /\ (row[r].status \in {"running", "queued"} => row'[r].status = "ended" /\ row'[r].error = "none")
    BY <1>0 DEF EndLoop, Rows, SameRow, OtherRowsKept, Finished
  <1>4. /\ ClusterKept /\ HistoryKept /\ counted' = counted /\ quota' = quota
        /\ sweep' = sweep /\ resumer' = resumer /\ faults' = faults
    BY DEF EndLoop, nofaults, budgets, cluster, locks, ClusterKept, HistoryKept
  <1> QED BY <1>1, <1>2, <1>3, <1>4

(* A count goes back, or leaks. *)
LEMMA ReleaseUserEffect ==
    ASSUME TypeOK, NEW p \in Replicas, NEW r \in Runs, ReleaseUser(p, r)
    PROVE  /\ p \in up /\ at[p][r] = "ending"
           /\ Moved(p, r, "none")
           /\ SameRows
           /\ GivesUp(p, r)
           /\ \/ /\ quota' = (IF p \in counted[r] THEN Released(quota) ELSE quota)
                 /\ faults' = faults
              \/ quota' = quota /\ faults' = faults + 1
           /\ ClusterKept /\ HistoryKept /\ sweep' = sweep /\ resumer' = resumer
  <1>0. row \in [Runs -> Rows] /\ counted \in [Runs -> SUBSET Replicas] /\ quota \in Nat
    BY DEF TypeOK
  <1>1. p \in up /\ at[p][r] = "ending"
    BY DEF ReleaseUser
  <1>2. Moved(p, r, "none")
    BY PutFacts DEF ReleaseUser, Moved, Places, Passing, Dispatching
  <1>3. SameRows
    BY DEF ReleaseUser, SameRows, SameRow
  <1>4. GivesUp(p, r)
    BY <1>0 DEF ReleaseUser, GivesUp
  <1>5. \/ /\ quota' = (IF p \in counted[r] THEN Released(quota) ELSE quota)
           /\ faults' = faults
        \/ quota' = quota /\ faults' = faults + 1
    BY DEF ReleaseUser
  <1>6. ClusterKept /\ HistoryKept /\ sweep' = sweep /\ resumer' = resumer
    BY DEF ReleaseUser, nofaults, budgets, cluster, locks, ClusterKept, HistoryKept
  <1> QED BY <1>1, <1>2, <1>3, <1>4, <1>5, <1>6

(* A parked loop goes on. *)
LEMMA UnparkEffect ==
    ASSUME TypeOK, NEW p \in Replicas, NEW r \in Runs, Unpark(p, r)
    PROVE  /\ p \in up /\ at[p][r] = "parked"
           /\ Moved(p, r, "live")
           /\ OtherRowsKept(r) /\ row'[r].status = row[r].status
           /\ row'[r].error = row[r].error /\ row'[r].owner = row[r].owner
           /\ ~row'[r].paused /\ row'[r].userSlot = row[r].userSlot
           /\ ClusterKept /\ HistoryKept /\ counted' = counted /\ quota' = quota
           /\ sweep' = sweep /\ resumer' = resumer /\ faults' = faults
  <1>0. row \in [Runs -> Rows] /\ counted \in [Runs -> SUBSET Replicas] /\ quota \in Nat
    BY DEF TypeOK
  <1>1. p \in up /\ at[p][r] = "parked"
    BY DEF Unpark
  <1>2. Moved(p, r, "live")
    BY PutFacts DEF Unpark, Moved, Places, Passing, Dispatching
  <1>3. /\ OtherRowsKept(r) /\ row'[r].status = row[r].status
        /\ row'[r].error = row[r].error /\ row'[r].owner = row[r].owner /\ ~row'[r].paused
        /\ row'[r].userSlot = row[r].userSlot
    BY <1>0 DEF Unpark, Rows, SameRow, OtherRowsKept
  <1>4. /\ ClusterKept /\ HistoryKept /\ counted' = counted /\ quota' = quota
        /\ sweep' = sweep /\ resumer' = resumer /\ faults' = faults
    BY DEF Unpark, nofaults, budgets, cluster, locks, ClusterKept, HistoryKept
  <1> QED BY <1>1, <1>2, <1>3, <1>4

(* A resume claims a row that is still paused. *)
LEMMA ClaimEffect ==
    ASSUME TypeOK, NEW p \in Replicas, NEW r \in Runs, Claim(p, r)
    PROVE  /\ p \in up /\ at[p][r] = "checked"
           /\ \/ /\ row[r].status = "running" /\ row[r].paused /\ Moved(p, r, "claimed")
                 /\ OtherRowsKept(r) /\ row'[r].status = row[r].status
                 /\ row'[r].error = row[r].error /\ row'[r].owner = row[r].owner
                 /\ ~row'[r].paused /\ row'[r].userSlot = row[r].userSlot
                 /\ resumer' = resumer
              \/ Moved(p, r, "none") /\ SameRows /\ resumer' = NoReplica
           /\ ClusterKept /\ HistoryKept /\ counted' = counted /\ quota' = quota
           /\ sweep' = sweep /\ faults' = faults
  <1>0. row \in [Runs -> Rows] /\ counted \in [Runs -> SUBSET Replicas] /\ quota \in Nat
    BY DEF TypeOK
  <1>1. p \in up /\ at[p][r] = "checked"
    BY DEF Claim
  <1>2. \/ /\ row[r].status = "running" /\ row[r].paused /\ Moved(p, r, "claimed")
           /\ OtherRowsKept(r) /\ row'[r].status = row[r].status
           /\ row'[r].error = row[r].error /\ row'[r].owner = row[r].owner
           /\ ~row'[r].paused /\ row'[r].userSlot = row[r].userSlot /\ resumer' = resumer
        \/ Moved(p, r, "none") /\ SameRows /\ resumer' = NoReplica
    <2>1. CASE row[r].status = "running" /\ row[r].paused
      <3>1. row' = [row EXCEPT ![r].paused = FALSE] /\ resumer' = resumer
        BY <2>1 DEF Claim
      <3>2. /\ OtherRowsKept(r) /\ row'[r].status = row[r].status
            /\ row'[r].error = row[r].error /\ row'[r].owner = row[r].owner
            /\ ~row'[r].paused /\ row'[r].userSlot = row[r].userSlot
        BY <1>0, <3>1 DEF Rows, OtherRowsKept, SameRow
      <3>3. Moved(p, r, "claimed")
        BY <2>1, PutFacts DEF Claim, Moved, Places, Dispatching
      <3> QED BY <2>1, <3>1, <3>2, <3>3, Zenon
    <2>2. CASE ~(row[r].status = "running" /\ row[r].paused)
      BY <2>2, PutFacts DEF Claim, Moved, Places, SameRows, SameRow
    <2> QED BY <2>1, <2>2
  <1>3. /\ ClusterKept /\ HistoryKept /\ counted' = counted /\ quota' = quota
        /\ sweep' = sweep /\ faults' = faults
    BY DEF Claim, nofaults, budgets, cluster, locks, ClusterKept, HistoryKept
  <1> QED BY <1>1, <1>2, <1>3

(* A resume writes its replica on the row. *)
LEMMA StampEffect ==
    ASSUME TypeOK, NEW p \in Replicas, NEW r \in Runs, Stamp(p, r)
    PROVE  /\ p \in up /\ at[p][r] = "claimed"
           /\ Moved(p, r, "dispatch")
           /\ OtherRowsKept(r) /\ row'[r].status = row[r].status
           /\ row'[r].error = row[r].error
           /\ row'[r].paused = row[r].paused /\ row'[r].userSlot = row[r].userSlot
           /\ \/ row'[r].owner = p /\ faults' = faults /\ unstamped' = unstamped
              \/ /\ row'[r].owner = row[r].owner /\ faults' = faults + 1
                 /\ unstamped' = unstamped \cup {r}
           /\ ClusterKept /\ crashes' = crashes /\ boots' = boots
           /\ lostParked' = lostParked /\ doubted' = doubted
           /\ counted' = counted /\ quota' = quota
           /\ sweep' = sweep /\ resumer' = resumer
  <1>0. row \in [Runs -> Rows] /\ counted \in [Runs -> SUBSET Replicas] /\ quota \in Nat
    BY DEF TypeOK
  <1>1. p \in up /\ at[p][r] = "claimed"
    BY DEF Stamp
  <1>2. Moved(p, r, "dispatch")
    BY PutFacts DEF Stamp, Moved, Places, Passing, Dispatching
  <1>3. PICK owner \in {p, row[r].owner} :
           /\ row' = [row EXCEPT ![r].owner = owner,
                                 ![r].quiet = IF row[r].status = "running" THEN FALSE ELSE @]
           /\ IF owner = p
              THEN UNCHANGED <<faults, unstamped>>
              ELSE /\ faults < MaxFaults /\ faults' = faults + 1
                   /\ unstamped' = unstamped \cup {r}
    BY DEF Stamp
  <1>4. /\ OtherRowsKept(r) /\ row'[r].status = row[r].status
        /\ row'[r].error = row[r].error /\ row'[r].owner = owner
        /\ row'[r].paused = row[r].paused /\ row'[r].userSlot = row[r].userSlot
    BY <1>0, <1>3 DEF Rows, SameRow, OtherRowsKept
  <1>5. \/ row'[r].owner = p /\ faults' = faults /\ unstamped' = unstamped
        \/ /\ row'[r].owner = row[r].owner /\ faults' = faults + 1
           /\ unstamped' = unstamped \cup {r}
    BY <1>3, <1>4
  <1>6. /\ ClusterKept /\ crashes' = crashes /\ boots' = boots
        /\ lostParked' = lostParked /\ doubted' = doubted
        /\ counted' = counted /\ quota' = quota
        /\ sweep' = sweep /\ resumer' = resumer
    BY DEF Stamp, cluster, locks, ClusterKept
  <1> QED BY <1>1, <1>2, <1>4, <1>5, <1>6

(* A resume takes the record of the old owner's count, if there is one. *)
LEMMA TakeSlotEffect ==
    ASSUME TypeOK, NEW p \in Replicas, NEW r \in Runs, TakeSlot(p, r)
    PROVE  /\ p \in up /\ at[p][r] \in {"dispatch", "refused"}
           /\ \/ /\ row[r].userSlot /\ OtherRowsKept(r) /\ row'[r].status = row[r].status
                 /\ row'[r].error = row[r].error /\ row'[r].owner = row[r].owner
                 /\ row'[r].paused = row[r].paused /\ ~row'[r].userSlot
                 /\ resumer' = resumer
                 /\ Moved(p, r, IF at[p][r] = "dispatch" THEN "dispatchGiving" ELSE "refusedGiving")
              \/ /\ ~row[r].userSlot /\ SameRows /\ resumer' = NoReplica
                 /\ Moved(p, r, IF at[p][r] = "dispatch" THEN "resumed" ELSE "none")
           /\ ClusterKept /\ HistoryKept /\ counted' = counted /\ quota' = quota
           /\ sweep' = sweep /\ faults' = faults
  <1>0. row \in [Runs -> Rows] /\ counted \in [Runs -> SUBSET Replicas] /\ quota \in Nat
    BY DEF TypeOK
  <1>1. p \in up /\ at[p][r] \in {"dispatch", "refused"}
    BY DEF TakeSlot
  <1>2. \/ /\ row[r].userSlot /\ OtherRowsKept(r) /\ row'[r].status = row[r].status
           /\ row'[r].error = row[r].error /\ row'[r].owner = row[r].owner
           /\ row'[r].paused = row[r].paused /\ ~row'[r].userSlot /\ resumer' = resumer
           /\ Moved(p, r, IF at[p][r] = "dispatch" THEN "dispatchGiving" ELSE "refusedGiving")
        \/ /\ ~row[r].userSlot /\ SameRows /\ resumer' = NoReplica
           /\ Moved(p, r, IF at[p][r] = "dispatch" THEN "resumed" ELSE "none")
    <2>1. CASE row[r].userSlot
      <3>1. row' = [row EXCEPT ![r].userSlot = FALSE] /\ resumer' = resumer
        BY <2>1 DEF TakeSlot
      <3>2. /\ OtherRowsKept(r) /\ row'[r].status = row[r].status
            /\ row'[r].error = row[r].error /\ row'[r].owner = row[r].owner
            /\ row'[r].paused = row[r].paused /\ ~row'[r].userSlot
        BY <1>0, <3>1 DEF Rows, OtherRowsKept, SameRow
      <3>3. Moved(p, r, IF at[p][r] = "dispatch" THEN "dispatchGiving" ELSE "refusedGiving")
        BY <2>1, PutFacts DEF TakeSlot, Moved, Places, Dispatching, Passing
      <3> QED BY <2>1, <3>1, <3>2, <3>3
    <2>2. CASE ~row[r].userSlot
      BY <2>2, PutFacts DEF TakeSlot, Moved, Places, Dispatching, SameRows, SameRow
    <2> QED BY <2>1, <2>2
  <1>3. /\ ClusterKept /\ HistoryKept /\ counted' = counted /\ quota' = quota
        /\ sweep' = sweep /\ faults' = faults
    BY DEF TakeSlot, nofaults, budgets, cluster, locks, ClusterKept, HistoryKept
  <1> QED BY <1>1, <1>2, <1>3

(* A resume gives the old owner's count back. *)
LEMMA GiveSlotEffect ==
    ASSUME TypeOK, NEW p \in Replicas, NEW r \in Runs, GiveSlot(p, r)
    PROVE  /\ p \in up /\ at[p][r] \in {"dispatchGiving", "refusedGiving"}
           /\ Moved(p, r, IF at[p][r] = "dispatchGiving" THEN "resumed" ELSE "none")
           /\ SameRows
           /\ ClusterKept /\ HistoryKept /\ counted' = counted /\ quota' = Released(quota)
           /\ sweep' = sweep /\ resumer' = NoReplica /\ faults' = faults
  <1>0. row \in [Runs -> Rows] /\ counted \in [Runs -> SUBSET Replicas] /\ quota \in Nat
    BY DEF TypeOK
  <1>1. p \in up /\ at[p][r] \in {"dispatchGiving", "refusedGiving"}
    BY DEF GiveSlot
  <1>2. Moved(p, r, IF at[p][r] = "dispatchGiving" THEN "resumed" ELSE "none")
    BY PutFacts DEF GiveSlot, Moved, Places, Passing, Dispatching
  <1>3. SameRows
    BY DEF GiveSlot, SameRows, SameRow
  <1>4. /\ ClusterKept /\ HistoryKept /\ counted' = counted /\ quota' = Released(quota)
        /\ sweep' = sweep /\ resumer' = NoReplica /\ faults' = faults
    BY DEF GiveSlot, nofaults, budgets, cluster, locks, ClusterKept, HistoryKept
  <1> QED BY <1>1, <1>2, <1>3, <1>4

(* A resumed run is counted, or its count cannot be written. *)
LEMMA CountResumedEffect ==
    ASSUME TypeOK, NEW p \in Replicas, NEW r \in Runs, CountResumed(p, r)
    PROVE  /\ p \in up /\ at[p][r] = "resumed"
           /\ \/ /\ Moved(p, r, "counting") /\ Takes(p, r) /\ quota' = quota + 1
                 /\ faults' = faults
              \/ /\ Moved(p, r, "live") /\ counted' = counted /\ quota' = quota
                 /\ faults' = faults + 1
           /\ SameRows
           /\ ClusterKept /\ HistoryKept /\ sweep' = sweep /\ resumer' = resumer
  <1>0. row \in [Runs -> Rows] /\ counted \in [Runs -> SUBSET Replicas] /\ quota \in Nat
    BY DEF TypeOK
  <1>1. p \in up /\ at[p][r] = "resumed"
    BY DEF CountResumed
  <1>2. \/ /\ Moved(p, r, "counting") /\ Takes(p, r) /\ quota' = quota + 1
           /\ faults' = faults
        \/ /\ Moved(p, r, "live") /\ counted' = counted /\ quota' = quota
           /\ faults' = faults + 1
    <2>1. CASE Put(p, r, "counting") /\ quota' = quota + 1 /\ faults' = faults
               /\ counted' = [counted EXCEPT ![r] = @ \cup {p}]
      BY <1>0, <2>1, PutFacts DEF Moved, Takes, Places, Dispatching
    <2>2. CASE Put(p, r, "live") /\ counted' = counted /\ quota' = quota
               /\ faults' = faults + 1
      BY <2>2, PutFacts DEF Moved, Places
    <2> QED BY <2>1, <2>2 DEF CountResumed
  <1>3. SameRows
    <2>1. row' = row \/ row' = [row EXCEPT ![r].quiet = FALSE]
      BY DEF CountResumed
    <2>2. CASE row' = row
      BY <2>2 DEF SameRows, SameRow
    <2>3. CASE row' = [row EXCEPT ![r].quiet = FALSE]
      BY <1>0, <2>3 DEF Rows, SameRows, SameRow
    <2> QED BY <2>1, <2>2, <2>3
  <1>4. ClusterKept /\ HistoryKept /\ sweep' = sweep /\ resumer' = resumer
    BY DEF CountResumed, nofaults, budgets, cluster, locks, ClusterKept, HistoryKept
  <1> QED BY <1>1, <1>2, <1>3, <1>4

(* The count of a resumed run is recorded, or the record fails. *)
LEMMA MarkSlotEffect ==
    ASSUME TypeOK, NEW p \in Replicas, NEW r \in Runs, MarkSlot(p, r)
    PROVE  /\ p \in up /\ at[p][r] = "counting"
           /\ Moved(p, r, "live")
           /\ \/ /\ OtherRowsKept(r) /\ row'[r].status = row[r].status
                 /\ row'[r].error = row[r].error /\ row'[r].owner = row[r].owner
                 /\ row'[r].paused = row[r].paused /\ row'[r].userSlot /\ faults' = faults
              \/ SameRows /\ faults' = faults + 1
           /\ ClusterKept /\ HistoryKept /\ counted' = counted /\ quota' = quota
           /\ sweep' = sweep /\ resumer' = resumer
  <1>0. row \in [Runs -> Rows] /\ counted \in [Runs -> SUBSET Replicas] /\ quota \in Nat
    BY DEF TypeOK
  <1>1. p \in up /\ at[p][r] = "counting"
    BY DEF MarkSlot
  <1>2. Moved(p, r, "live")
    BY PutFacts DEF MarkSlot, Moved, Places, Passing, Dispatching
  <1>3. \/ /\ OtherRowsKept(r) /\ row'[r].status = row[r].status
           /\ row'[r].error = row[r].error /\ row'[r].owner = row[r].owner
           /\ row'[r].paused = row[r].paused /\ row'[r].userSlot /\ faults' = faults
        \/ SameRows /\ faults' = faults + 1
    <2>1. \/ /\ row' = [row EXCEPT ![r].userSlot = TRUE, ![r].quiet = FALSE]
             /\ faults' = faults
          \/ row' = [row EXCEPT ![r].quiet = FALSE] /\ faults' = faults + 1
      BY DEF MarkSlot
    <2>2. ASSUME row' = [row EXCEPT ![r].userSlot = TRUE, ![r].quiet = FALSE]
          PROVE  /\ OtherRowsKept(r) /\ row'[r].status = row[r].status
                 /\ row'[r].error = row[r].error /\ row'[r].owner = row[r].owner
                 /\ row'[r].paused = row[r].paused /\ row'[r].userSlot
      BY <1>0, <2>2 DEF Rows, SameRow, OtherRowsKept
    <2>3. ASSUME row' = [row EXCEPT ![r].quiet = FALSE] PROVE SameRows
      BY <1>0, <2>3 DEF Rows, SameRows, SameRow
    <2> QED BY <2>1, <2>2, <2>3, Zenon
  <1>4. /\ ClusterKept /\ HistoryKept /\ counted' = counted /\ quota' = quota
        /\ sweep' = sweep /\ resumer' = resumer
    BY DEF MarkSlot, nofaults, budgets, cluster, locks, ClusterKept, HistoryKept
  <1> QED BY <1>1, <1>2, <1>3, <1>4

(* A clean stop: what was in memory is gone and the heartbeat row is deleted. *)
LEMMA StopEffect ==
    ASSUME TypeOK, NEW p \in Replicas, Stop(p)
    PROVE  /\ p \in up /\ up' = up \ {p} /\ boots' = boots /\ doubted' = doubted
           /\ faults' = faults /\ quota' = quota /\ unstamped' = unstamped
           /\ \A q \in Replicas, s \in Runs : at'[q][s] = IF q = p THEN "none" ELSE at[q][s]
           /\ SameRows
           /\ \A s \in Runs : counted'[s] = counted[s] \ {p}
           /\ sweep' = (IF sweep.by = p THEN Idle ELSE sweep)
           /\ resumer' = (IF resumer = p THEN NoReplica ELSE resumer)
           /\ beat'[p] = "none" /\ (\A q \in Replicas : q # p => beat'[q] = beat[q])
           /\ crashes' = crashes /\ lostParked' = lostParked
           /\ \A s \in Runs : at[p][s] \in {"none", "parked", "polling", "held"}
  <1>0. row \in [Runs -> Rows] /\ counted \in [Runs -> SUBSET Replicas] /\ quota \in Nat
    BY DEF TypeOK
  <1>1. /\ p \in up /\ up' = up \ {p} /\ boots' = boots /\ doubted' = doubted
        /\ faults' = faults /\ quota' = quota /\ unstamped' = unstamped
    BY DEF Stop, ProcessGone
  <1>2. \A q \in Replicas, s \in Runs : at'[q][s] = IF q = p THEN "none" ELSE at[q][s]
    BY DEF Stop, ProcessGone, TypeOK
  <1>3. SameRows
    BY DEF Stop, ProcessGone, SameRows, SameRow
  <1>4. \A s \in Runs : counted'[s] = counted[s] \ {p}
    BY DEF Stop, ProcessGone
  <1>5. sweep' = (IF sweep.by = p THEN Idle ELSE sweep)
    BY DEF Stop, ProcessGone
  <1>6. resumer' = (IF resumer = p THEN NoReplica ELSE resumer)
    BY DEF Stop, ProcessGone
  <1>7. beat'[p] = "none" /\ (\A q \in Replicas : q # p => beat'[q] = beat[q])
    BY DEF Stop, TypeOK
  <1>8. crashes' = crashes /\ lostParked' = lostParked
    BY DEF Stop
  <1>9. \A s \in Runs : at[p][s] \in {"none", "parked", "polling", "held"}
    BY DEF Stop
  <1> QED BY <1>1, <1>2, <1>3, <1>4, <1>5, <1>6, <1>7, <1>8, <1>9

(* A crash: what was in memory is gone. *)
LEMMA CrashEffect ==
    ASSUME TypeOK, NEW p \in Replicas, Crash(p)
    PROVE  /\ p \in up /\ up' = up \ {p} /\ boots' = boots /\ doubted' = doubted
           /\ faults' = faults /\ quota' = quota /\ unstamped' = unstamped
           /\ \A q \in Replicas, s \in Runs : at'[q][s] = IF q = p THEN "none" ELSE at[q][s]
           /\ SameRows
           /\ \A s \in Runs : counted'[s] = counted[s] \ {p}
           /\ sweep' = (IF sweep.by = p THEN Idle ELSE sweep)
           /\ resumer' = (IF resumer = p THEN NoReplica ELSE resumer)
           /\ beat'[p] \in {beat[p], "none"} /\ (\A q \in Replicas : q # p => beat'[q] = beat[q])
           /\ crashes' = crashes + 1
           /\ ~lostParked' => /\ ~lostParked
                              /\ \A s \in Runs : /\ at[p][s] # "parked"
                                                 /\ ~(row[s].paused /\ row[s].owner = p)
  <1>0. row \in [Runs -> Rows] /\ counted \in [Runs -> SUBSET Replicas] /\ quota \in Nat
    BY DEF TypeOK
  <1>1. /\ p \in up /\ up' = up \ {p} /\ boots' = boots /\ doubted' = doubted
        /\ faults' = faults /\ quota' = quota /\ unstamped' = unstamped
    BY DEF Crash, ProcessGone
  <1>2. \A q \in Replicas, s \in Runs : at'[q][s] = IF q = p THEN "none" ELSE at[q][s]
    BY DEF Crash, ProcessGone, TypeOK
  <1>3. SameRows
    BY DEF Crash, ProcessGone, SameRows, SameRow
  <1>4. \A s \in Runs : counted'[s] = counted[s] \ {p}
    BY DEF Crash, ProcessGone
  <1>5. sweep' = (IF sweep.by = p THEN Idle ELSE sweep)
    BY DEF Crash, ProcessGone
  <1>6. resumer' = (IF resumer = p THEN NoReplica ELSE resumer)
    BY DEF Crash, ProcessGone
  <1>7. /\ beat'[p] \in {beat[p], "none"} /\ (\A q \in Replicas : q # p => beat'[q] = beat[q])
        /\ crashes' = crashes + 1
    BY DEF Crash, TypeOK
  <1>8. ~lostParked' => /\ ~lostParked
                        /\ \A s \in Runs : /\ at[p][s] # "parked"
                                           /\ ~(row[s].paused /\ row[s].owner = p)
    BY DEF Crash
  <1> QED BY <1>1, <1>2, <1>3, <1>4, <1>5, <1>6, <1>7, <1>8

(* A replica starts again and queues the runs it had queued. *)
LEMMA BootEffect ==
    ASSUME TypeOK, NEW p \in Replicas, Boot(p)
    PROVE  /\ p \notin up /\ up' = up \cup {p} /\ boots' = boots + 1
           /\ \A q \in Replicas, s \in Runs : q # p => at'[q][s] = at[q][s]
           /\ \A s \in Runs :
                \/ at'[p][s] = "none" /\ SameRow(s)
                \/ /\ at'[p][s] \in {"polling", "held"} /\ SameRow(s)
                   /\ row[s].status = "queued" /\ row[s].owner = p
                \/ /\ at'[p][s] = "none" /\ row[s].status = "queued" /\ row[s].owner = p
                   /\ row'[s].status = "ended" /\ row'[s].error = "none" /\ ~row'[s].paused
                   /\ row'[s].owner = row[s].owner /\ row'[s].userSlot = row[s].userSlot
           /\ beat'[p] = "fresh" /\ (\A q \in Replicas : q # p => beat'[q] = beat[q])
           /\ counted' = counted /\ quota' = quota /\ sweep' = sweep /\ resumer' = resumer
           /\ faults' = faults /\ unstamped' = unstamped
           /\ crashes' = crashes /\ lostParked' = lostParked /\ doubted' = doubted
  <1>0. row \in [Runs -> Rows] /\ counted \in [Runs -> SUBSET Replicas] /\ quota \in Nat
    BY DEF TypeOK
  <1>1. p \notin up /\ up' = up \cup {p} /\ boots' = boots + 1
    BY DEF Boot
  <1> DEFINE mine == {r \in Runs : row[r].status = "queued" /\ row[r].owner = p}
  <1>2. PICK failed \in SUBSET mine : \E held \in SUBSET (mine \ failed) :
           /\ row' = [r \in Runs |-> IF r \in failed THEN Finished(row[r], "none") ELSE row[r]]
           /\ at' = [at EXCEPT ![p] = [r \in Runs |-> CASE r \in held -> "held"
                                             [] r \in mine \ (failed \cup held) -> "polling"
                                             [] OTHER -> "none"]]
    BY DEF Boot, QueueAgain
  <1>3. PICK held \in SUBSET (mine \ failed) :
           /\ row' = [r \in Runs |-> IF r \in failed THEN Finished(row[r], "none") ELSE row[r]]
           /\ at' = [at EXCEPT ![p] = [r \in Runs |-> CASE r \in held -> "held"
                                             [] r \in mine \ (failed \cup held) -> "polling"
                                             [] OTHER -> "none"]]
    BY <1>2
  <1>4. \A q \in Replicas, s \in Runs : q # p => at'[q][s] = at[q][s]
    BY <1>3 DEF TypeOK
  <1>5. \A s \in Runs : at'[p][s] = CASE s \in held -> "held"
                                     [] s \in mine \ (failed \cup held) -> "polling"
                                     [] OTHER -> "none"
    BY <1>3 DEF TypeOK
  <1>6. ASSUME NEW s \in Runs
        PROVE  \/ at'[p][s] = "none" /\ SameRow(s)
               \/ /\ at'[p][s] \in {"polling", "held"} /\ SameRow(s)
                  /\ row[s].status = "queued" /\ row[s].owner = p
               \/ /\ at'[p][s] = "none" /\ row[s].status = "queued" /\ row[s].owner = p
                  /\ row'[s].status = "ended" /\ row'[s].error = "none" /\ ~row'[s].paused
                  /\ row'[s].owner = row[s].owner /\ row'[s].userSlot = row[s].userSlot
    <2>1. CASE s \in failed
      <3>1. at'[p][s] = "none" /\ row[s].status = "queued" /\ row[s].owner = p
        BY <1>5, <2>1
      <3>2. row'[s] = Finished(row[s], "none")
        BY <1>3, <2>1
      <3> QED BY <1>0, <3>1, <3>2 DEF Finished, Rows
    <2>2. CASE s \notin failed
      <3>1. SameRow(s)
        BY <1>3, <2>2 DEF SameRow
      <3> QED BY <1>5, <2>2, <3>1
    <2> QED BY <2>1, <2>2
  <1>7. beat'[p] = "fresh" /\ (\A q \in Replicas : q # p => beat'[q] = beat[q])
    BY DEF Boot, TypeOK
  <1>8. /\ counted' = counted /\ quota' = quota /\ sweep' = sweep /\ resumer' = resumer
        /\ faults' = faults /\ unstamped' = unstamped
    BY DEF Boot, locks
  <1>9. crashes' = crashes /\ lostParked' = lostParked /\ doubted' = doubted
    BY DEF Boot
  <1> QED BY <1>1, <1>4, <1>6, <1>7, <1>8, <1>9

(* A running replica is fresh again. *)
LEMMA HeartbeatEffect ==
    ASSUME TypeOK, NEW p \in Replicas, Heartbeat(p)
    PROVE  /\ p \in up /\ up' = up
           /\ SamePlaces /\ SameRows
           /\ beat'[p] = "fresh" /\ (\A q \in Replicas : q # p => beat'[q] = beat[q])
           /\ HistoryKept /\ counted' = counted /\ quota' = quota /\ sweep' = sweep
           /\ resumer' = resumer /\ faults' = faults
  <1>0. row \in [Runs -> Rows] /\ counted \in [Runs -> SUBSET Replicas] /\ quota \in Nat
    BY DEF TypeOK
  <1>1. p \in up /\ up' = up
    BY DEF Heartbeat
  <1>2. SamePlaces /\ SameRows
    BY DEF Heartbeat, SamePlaces, SameRows, SameRow
  <1>3. beat'[p] = "fresh" /\ (\A q \in Replicas : q # p => beat'[q] = beat[q])
    BY DEF Heartbeat, TypeOK
  <1>4. /\ HistoryKept /\ counted' = counted /\ quota' = quota /\ sweep' = sweep
        /\ resumer' = resumer /\ faults' = faults
    BY DEF Heartbeat, nofaults, budgets, cluster, locks, ClusterKept, HistoryKept
  <1> QED BY <1>1, <1>2, <1>3, <1>4

(* A dead replica's heartbeat goes stale. *)
LEMMA GoStaleEffect ==
    ASSUME TypeOK, NEW p \in Replicas, GoStale(p)
    PROVE  /\ p \notin up /\ beat[p] = "fresh" /\ up' = up
           /\ SamePlaces /\ SameRows
           /\ beat'[p] = "stale" /\ (\A q \in Replicas : q # p => beat'[q] = beat[q])
           /\ HistoryKept /\ counted' = counted /\ quota' = quota /\ sweep' = sweep
           /\ resumer' = resumer /\ faults' = faults
  <1>0. row \in [Runs -> Rows] /\ counted \in [Runs -> SUBSET Replicas] /\ quota \in Nat
    BY DEF TypeOK
  <1>1. p \notin up /\ beat[p] = "fresh" /\ up' = up
    BY DEF GoStale
  <1>2. SamePlaces /\ SameRows
    BY DEF GoStale, SamePlaces, SameRows, SameRow
  <1>3. beat'[p] = "stale" /\ (\A q \in Replicas : q # p => beat'[q] = beat[q])
    BY DEF GoStale, TypeOK
  <1>4. /\ HistoryKept /\ counted' = counted /\ quota' = quota /\ sweep' = sweep
        /\ resumer' = resumer /\ faults' = faults
    BY DEF GoStale, nofaults, budgets, cluster, locks, ClusterKept, HistoryKept
  <1> QED BY <1>1, <1>2, <1>3, <1>4

(* A sweep lists the stale replicas. *)
LEMMA SweepListEffect ==
    ASSUME TypeOK, NEW p \in Replicas, SweepList(p)
    PROVE  /\ SamePlaces /\ SameRows
           /\ \E q \in Replicas : beat[q] = "stale"
           /\ sweep'.pc = "pick" /\ sweep'.id = NoReplica
           /\ sweep'.left = {q \in Replicas : beat[q] = "stale"}
           /\ ClusterKept /\ HistoryKept /\ resumer' = resumer /\ counted' = counted
           /\ quota' = quota /\ faults' = faults
  <1>0. row \in [Runs -> Rows] /\ counted \in [Runs -> SUBSET Replicas] /\ quota \in Nat
    BY DEF TypeOK
  <1>1. SamePlaces /\ SameRows
    BY DEF SweepList, SamePlaces, SameRows, SameRow
  <1>2. \E q \in Replicas : beat[q] = "stale"
    BY DEF SweepList
  <1>3. /\ sweep'.pc = "pick" /\ sweep'.id = NoReplica
        /\ sweep'.left = {q \in Replicas : beat[q] = "stale"}
    BY DEF SweepList
  <1>4. /\ ClusterKept /\ HistoryKept /\ resumer' = resumer /\ counted' = counted
        /\ quota' = quota /\ faults' = faults
    BY DEF SweepList, nofaults, budgets, cluster, locks, ClusterKept, HistoryKept
  <1> QED BY <1>1, <1>2, <1>3, <1>4

(* A statement of the sweep fails. *)
LEMMA SweepFailEffect ==
    ASSUME TypeOK, SweepFail
    PROVE  /\ SamePlaces /\ SameRows
           /\ sweep.pc \notin {"list", "pick"} /\ sweep'.pc \in {"queued", "pick"}
           /\ sweep'.id = sweep.id /\ sweep'.left = sweep.left
           /\ sweep'.pc = "queued" => sweep.pc \in {"count", "decrement"}
           /\ ClusterKept /\ HistoryKept /\ resumer' = resumer /\ counted' = counted
           /\ quota' = quota /\ faults' = faults + 1
  <1>0. row \in [Runs -> Rows] /\ counted \in [Runs -> SUBSET Replicas] /\ quota \in Nat
    BY DEF TypeOK
  <1>1. SamePlaces /\ SameRows
    BY DEF SweepFail, SamePlaces, SameRows, SameRow
  <1>2. sweep.pc \notin {"list", "pick"} /\ sweep'.pc \in {"queued", "pick"}
    BY DEF SweepFail, TypeOK
  <1>3. sweep'.id = sweep.id /\ sweep'.left = sweep.left
    BY DEF SweepFail, TypeOK
  <1>4. sweep'.pc = "queued" => sweep.pc \in {"count", "decrement"}
    BY DEF SweepFail, TypeOK
  <1>5. /\ ClusterKept /\ HistoryKept /\ resumer' = resumer /\ counted' = counted
        /\ quota' = quota /\ faults' = faults + 1
    BY DEF SweepFail, nofaults, budgets, cluster, locks, ClusterKept, HistoryKept
  <1> QED BY <1>1, <1>2, <1>3, <1>4, <1>5

(* The sweep goes on with the next replica, or ends. *)
LEMMA SweepPickEffect ==
    ASSUME TypeOK, SweepPick
    PROVE  /\ SamePlaces /\ SameRows
           /\ sweep.pc = "pick"
           /\ \/ sweep' = Idle
              \/ \E q \in sweep.left : sweep'.id = q /\ sweep'.left = sweep.left \ {q} /\ sweep'.pc = "mark"
           /\ ClusterKept /\ HistoryKept /\ resumer' = resumer /\ counted' = counted
           /\ quota' = quota /\ faults' = faults
  <1>0. row \in [Runs -> Rows] /\ counted \in [Runs -> SUBSET Replicas] /\ quota \in Nat
    BY DEF TypeOK
  <1>1. SamePlaces /\ SameRows
    BY DEF SweepPick, SamePlaces, SameRows, SameRow
  <1>2. sweep.pc = "pick"
    BY DEF SweepPick
  <1>3. \/ sweep' = Idle
        \/ \E q \in sweep.left : sweep'.id = q /\ sweep'.left = sweep.left \ {q} /\ sweep'.pc = "mark"
    BY DEF SweepPick, TypeOK
  <1>4. /\ ClusterKept /\ HistoryKept /\ resumer' = resumer /\ counted' = counted
        /\ quota' = quota /\ faults' = faults
    BY DEF SweepPick, nofaults, budgets, cluster, locks, ClusterKept, HistoryKept
  <1> QED BY <1>1, <1>2, <1>3, <1>4

(* The running, unparked rows of the replica are failed. *)
LEMMA SweepMarkEffect ==
    ASSUME TypeOK, SweepMark
    PROVE  /\ SamePlaces
           /\ sweep.pc = "mark" /\ sweep'.id = sweep.id /\ sweep'.left = sweep.left
           /\ sweep'.pc = IF Marked(sweep.id) # {} THEN "count" ELSE "queued"
           /\ \A s \in Runs : s \notin Marked(sweep.id) => SameRow(s)
           /\ \A s \in Marked(sweep.id) :
                /\ row'[s].status = "ended" /\ row'[s].error = Died
                /\ row'[s].owner = row[s].owner /\ row'[s].userSlot = row[s].userSlot
           /\ ClusterKept /\ HistoryKept /\ resumer' = resumer /\ counted' = counted
           /\ quota' = quota /\ faults' = faults
  <1>0. row \in [Runs -> Rows] /\ counted \in [Runs -> SUBSET Replicas] /\ quota \in Nat
    BY DEF TypeOK
  <1>1. SamePlaces
    BY DEF SweepMark, SamePlaces
  <1>2. sweep.pc = "mark" /\ sweep'.id = sweep.id /\ sweep'.left = sweep.left
    BY DEF SweepMark, TypeOK
  <1>3. sweep'.pc = IF Marked(sweep.id) # {} THEN "count" ELSE "queued"
    BY DEF SweepMark, TypeOK
  <1>4. \A s \in Runs : s \notin Marked(sweep.id) => SameRow(s)
    BY <1>0 DEF SweepMark, SameRow
  <1>5. \A s \in Marked(sweep.id) :
          /\ row'[s].status = "ended" /\ row'[s].error = Died
          /\ row'[s].owner = row[s].owner /\ row'[s].userSlot = row[s].userSlot
    BY <1>0 DEF SweepMark, Marked, Rows
  <1>6. /\ ClusterKept /\ HistoryKept /\ resumer' = resumer /\ counted' = counted
        /\ quota' = quota /\ faults' = faults
    BY DEF SweepMark, nofaults, budgets, cluster, locks, ClusterKept, HistoryKept
  <1> QED BY <1>1, <1>2, <1>3, <1>4, <1>5, <1>6

(* The sweep counts the records of the replica it failed. *)
LEMMA SweepCountEffect ==
    ASSUME TypeOK, SweepCount
    PROVE  /\ SamePlaces /\ SameRows
           /\ sweep.pc = "count" /\ sweep'.pc = "decrement" /\ sweep'.id = sweep.id
           /\ sweep'.left = sweep.left
           /\ sweep'.leaked = Cardinality(Leaked(sweep.id))
           /\ ClusterKept /\ HistoryKept /\ resumer' = resumer /\ counted' = counted
           /\ quota' = quota /\ faults' = faults
  <1>0. row \in [Runs -> Rows] /\ counted \in [Runs -> SUBSET Replicas] /\ quota \in Nat
    BY DEF TypeOK
  <1>1. SamePlaces /\ SameRows
    BY DEF SweepCount, SamePlaces, SameRows, SameRow
  <1>2. /\ sweep.pc = "count" /\ sweep'.pc = "decrement" /\ sweep'.id = sweep.id
        /\ sweep'.left = sweep.left
    BY DEF SweepCount, TypeOK
  <1>3. sweep'.leaked = Cardinality(Leaked(sweep.id))
    BY DEF SweepCount, TypeOK
  <1>4. /\ ClusterKept /\ HistoryKept /\ resumer' = resumer /\ counted' = counted
        /\ quota' = quota /\ faults' = faults
    BY DEF SweepCount, nofaults, budgets, cluster, locks, ClusterKept, HistoryKept
  <1> QED BY <1>1, <1>2, <1>3, <1>4

(* The sweep takes them off the shared count. *)
LEMMA SweepDecrementEffect ==
    ASSUME TypeOK, SweepDecrement
    PROVE  /\ SamePlaces /\ SameRows
           /\ sweep.pc = "decrement" /\ sweep'.pc = "queued" /\ sweep'.id = sweep.id
           /\ sweep'.left = sweep.left
           /\ quota' = IF quota > sweep.leaked THEN quota - sweep.leaked ELSE 0
           /\ ClusterKept /\ HistoryKept /\ resumer' = resumer /\ counted' = counted
           /\ faults' = faults
  <1>0. row \in [Runs -> Rows] /\ counted \in [Runs -> SUBSET Replicas] /\ quota \in Nat
    BY DEF TypeOK
  <1>1. SamePlaces /\ SameRows
    BY DEF SweepDecrement, SamePlaces, SameRows, SameRow
  <1>2. /\ sweep.pc = "decrement" /\ sweep'.pc = "queued" /\ sweep'.id = sweep.id
        /\ sweep'.left = sweep.left
    BY DEF SweepDecrement, TypeOK
  <1>3. quota' = IF quota > sweep.leaked THEN quota - sweep.leaked ELSE 0
    BY DEF SweepDecrement
  <1>4. /\ ClusterKept /\ HistoryKept /\ resumer' = resumer /\ counted' = counted
        /\ faults' = faults
    BY DEF SweepDecrement, nofaults, budgets, cluster, locks, ClusterKept, HistoryKept
  <1> QED BY <1>1, <1>2, <1>3, <1>4

(* The queued rows of the replica are failed. *)
LEMMA SweepQueuedEffect ==
    ASSUME TypeOK, SweepQueued
    PROVE  /\ SamePlaces
           /\ sweep.pc = "queued" /\ sweep'.pc = "delete" /\ sweep'.id = sweep.id
           /\ sweep'.left = sweep.left
           /\ \A s \in Runs :
                \/ SameRow(s)
                \/ /\ row'[s].status = "ended" /\ row'[s].error = "queuedDied"
                   /\ row'[s].owner = row[s].owner /\ row'[s].userSlot = row[s].userSlot
                   /\ row[s].status = "queued"
           /\ ClusterKept /\ HistoryKept /\ resumer' = resumer /\ counted' = counted
           /\ quota' = quota /\ faults' = faults
  <1>0. row \in [Runs -> Rows] /\ counted \in [Runs -> SUBSET Replicas] /\ quota \in Nat
    BY DEF TypeOK
  <1>1. SamePlaces
    BY DEF SweepQueued, SamePlaces
  <1>2. /\ sweep.pc = "queued" /\ sweep'.pc = "delete" /\ sweep'.id = sweep.id
        /\ sweep'.left = sweep.left
    BY DEF SweepQueued, TypeOK
  <1>3. \A s \in Runs :
          \/ SameRow(s)
          \/ /\ row'[s].status = "ended" /\ row'[s].error = "queuedDied"
             /\ row'[s].owner = row[s].owner /\ row'[s].userSlot = row[s].userSlot
             /\ row[s].status = "queued"
    BY <1>0 DEF SweepQueued, SameRow, Rows
  <1>4. /\ ClusterKept /\ HistoryKept /\ resumer' = resumer /\ counted' = counted
        /\ quota' = quota /\ faults' = faults
    BY DEF SweepQueued, nofaults, budgets, cluster, locks, ClusterKept, HistoryKept
  <1> QED BY <1>1, <1>2, <1>3, <1>4

(* The heartbeat row of the replica is deleted. *)
LEMMA SweepDeleteEffect ==
    ASSUME TypeOK, SweepDelete
    PROVE  /\ SamePlaces /\ SameRows
           /\ sweep.pc = "delete" /\ sweep'.pc = "pick" /\ sweep'.id = sweep.id
           /\ sweep'.left = sweep.left
           /\ up' = up /\ (sweep.id \in Replicas => beat'[sweep.id] = "none")
           /\ \A q \in Replicas : q # sweep.id => beat'[q] = beat[q]
           /\ ~doubted' => ~doubted /\ sweep.id \notin up
           /\ doubted' => doubted \/ sweep.id \in up
           /\ crashes' = crashes /\ boots' = boots /\ lostParked' = lostParked
           /\ unstamped' = unstamped /\ resumer' = resumer /\ counted' = counted /\ quota' = quota
           /\ faults' = faults
  <1>0. row \in [Runs -> Rows] /\ counted \in [Runs -> SUBSET Replicas] /\ quota \in Nat
    BY DEF TypeOK
  <1>1. SamePlaces /\ SameRows
    BY DEF SweepDelete, SamePlaces, SameRows, SameRow
  <1>2. /\ sweep.pc = "delete" /\ sweep'.pc = "pick" /\ sweep'.id = sweep.id
        /\ sweep'.left = sweep.left
    BY DEF SweepDelete, TypeOK
  <1>3. up' = up /\ (sweep.id \in Replicas => beat'[sweep.id] = "none")
    BY DEF SweepDelete, TypeOK
  <1>4. \A q \in Replicas : q # sweep.id => beat'[q] = beat[q]
    BY DEF SweepDelete, TypeOK
  <1>5. ~doubted' => ~doubted /\ sweep.id \notin up
    BY DEF SweepDelete
  <1>6. doubted' => doubted \/ sweep.id \in up
    BY DEF SweepDelete
  <1>7. /\ crashes' = crashes /\ boots' = boots /\ lostParked' = lostParked
        /\ unstamped' = unstamped
    BY DEF SweepDelete
  <1>8. resumer' = resumer /\ counted' = counted /\ quota' = quota /\ faults' = faults
    BY DEF SweepDelete
  <1> QED BY <1>1, <1>2, <1>3, <1>4, <1>5, <1>6, <1>7, <1>8

(* The rows whose loop does not heartbeat are failed. *)
LEMMA HeartbeatSweepEffect ==
    ASSUME TypeOK, HeartbeatSweep
    PROVE  /\ SamePlaces
           /\ \A s \in Runs :
                \/ SameRow(s)
                \/ /\ row'[s].status = "ended" /\ row'[s].error = "heartbeatTimeout"
                   /\ row'[s].owner = row[s].owner /\ row'[s].userSlot = row[s].userSlot
                   /\ row[s].status = "running"
           /\ ClusterKept /\ HistoryKept /\ resumer' = resumer /\ counted' = counted
           /\ quota' = quota /\ faults' = faults /\ sweep' = sweep
  <1>0. row \in [Runs -> Rows] /\ counted \in [Runs -> SUBSET Replicas] /\ quota \in Nat
    BY DEF TypeOK
  <1>1. SamePlaces
    BY DEF HeartbeatSweep, SamePlaces
  <1>2. \A s \in Runs :
          \/ SameRow(s)
          \/ /\ row'[s].status = "ended" /\ row'[s].error = "heartbeatTimeout"
             /\ row'[s].owner = row[s].owner /\ row'[s].userSlot = row[s].userSlot
             /\ row[s].status = "running"
    BY <1>0 DEF HeartbeatSweep, SameRow, Rows
  <1>3. /\ ClusterKept /\ HistoryKept /\ resumer' = resumer /\ counted' = counted
        /\ quota' = quota /\ faults' = faults /\ sweep' = sweep
    BY DEF HeartbeatSweep, nofaults, budgets, cluster, locks, ClusterKept, HistoryKept
  <1> QED BY <1>1, <1>2, <1>3

(* A row whose loop does not run is not heartbeated. *)
LEMMA GoQuietEffect ==
    ASSUME TypeOK, NEW r \in Runs, GoQuiet(r)
    PROVE  /\ SamePlaces
           /\ SameRows
           /\ ClusterKept /\ HistoryKept /\ resumer' = resumer /\ counted' = counted
           /\ quota' = quota /\ faults' = faults /\ sweep' = sweep
  <1>0. row \in [Runs -> Rows] /\ counted \in [Runs -> SUBSET Replicas] /\ quota \in Nat
    BY DEF TypeOK
  <1>1. SamePlaces
    BY DEF GoQuiet, SamePlaces
  <1>2. SameRows
    BY <1>0 DEF GoQuiet, SameRows, SameRow, Rows
  <1>3. /\ ClusterKept /\ HistoryKept /\ resumer' = resumer /\ counted' = counted
        /\ quota' = quota /\ faults' = faults /\ sweep' = sweep
    BY DEF GoQuiet, nofaults, budgets, cluster, locks, ClusterKept, HistoryKept
  <1> QED BY <1>1, <1>2, <1>3

-----------------------------------------------------------------------------
(* The inductive invariant of the hand-over of runs between processes.     *)

(* A process that does not run holds nothing. *)
GoneHoldNothing == \A p \in Replicas, r \in Runs : p \notin up => at[p][r] = "none"

(* As long as no sweep doubted a running replica, running is being fresh. *)
UpIsFresh == ~doubted => \A p \in Replicas : p \in up => beat[p] = "fresh"

(* One resume pass at a time, and it looks at one run at a time. *)
OnePass ==
    /\ \A p \in Replicas, r \in Runs : at[p][r] \in Passing => resumer = p
    /\ \A p \in Replicas, r, s \in Runs : at[p][r] \in Passing /\ at[p][s] \in Passing => r = s

(* Before its row runs, a run is with the process that admits it. *)
BeforeRunning ==
    \A p \in Replicas, r \in Runs :
      /\ row[r].status = "none" => at[p][r] \in {"none", "admitting"}
      /\ row[r].status = "queued" => at[p][r] \in {"none", "held", "polling", "admitting"}
      /\ row[r].status = "queued" /\ at[p][r] # "none" => row[r].owner = p
      /\ \A q \in Replicas :
            row[r].status = "none" /\ at[p][r] # "none" /\ at[q][r] # "none" => p = q
      /\ at[p][r] \in {"held", "polling", "admitting"} => row[r].status # "running"

(* A process that is ending or refusing a run has seen its row end. *)
AfterRunning ==
    \A p \in Replicas, r \in Runs :
      at[p][r] \in {"ending", "refused", "refusedGiving"} => row[r].status = "ended"

(* A running row names its holder, but for the resume that has claimed and *)
(* not yet stamped it, and the runs whose stamp failed.                    *)
OwnerNamed ==
    ~doubted => \A p \in Replicas, r \in Runs :
      r \notin unstamped /\ row[r].status = "running" =>
        /\ at[p][r] \in Holding \ {"claimed"} => row[r].owner = p
        /\ at[p][r] = "claimed" => ~row[r].paused

(* One process at a time has anything to do with a run. *)
OnePlace ==
    ~doubted => \A p, q \in Replicas, r \in Runs :
      r \notin unstamped /\ at[p][r] # "none" /\ at[q][r] # "none" => p = q

LoopParts == /\ GoneHoldNothing /\ UpIsFresh /\ OnePass /\ BeforeRunning
             /\ AfterRunning /\ OwnerNamed /\ OnePlace

LoopInv == TypeOK /\ LoopParts

(* Every step keeps what the invariant says of who holds a run. *)
LEMMA LoopStep == LoopInv /\ [Next]_vars => LoopInv'
  <1> SUFFICES ASSUME LoopInv, [Next]_vars PROVE LoopInv'
    OBVIOUS
  <1> USE DEF Moved, SamePlaces, SameRow, SameRows, OtherRowsKept, ClusterKept, HistoryKept
  <1>0. TypeOK /\ TypeOK' /\ LoopParts
    BY TypeStep DEF LoopInv
  <1>a. up \subseteq Replicas /\ \A s \in Runs : row[s].status \in {"none", "queued", "running", "ended"}
    BY <1>0 DEF TypeOK, Rows
  <1>1. ASSUME NEW p \in Replicas, NEW r \in Runs, AdmitUser(p, r) PROVE LoopParts'
    <2>1. GoneHoldNothing'
      BY <1>0, <1>a, <1>1, AdmitUserEffect DEF LoopParts, GoneHoldNothing
    <2>2. UpIsFresh'
      BY <1>0, <1>a, <1>1, AdmitUserEffect DEF LoopParts, UpIsFresh
    <2>3. OnePass'
      BY <1>0, <1>a, <1>1, AdmitUserEffect, OwnershipAssumption DEF LoopParts, OnePass,
          Passing
    <2>4. BeforeRunning'
      BY <1>0, <1>a, <1>1, AdmitUserEffect DEF LoopParts, BeforeRunning, OnePlace
    <2>5. AfterRunning'
      BY <1>0, <1>a, <1>1, AdmitUserEffect DEF LoopParts, AfterRunning, BeforeRunning,
          OwnerNamed
    <2>6. OwnerNamed'
      BY <1>0, <1>a, <1>1, AdmitUserEffect DEF LoopParts, OwnerNamed, OnePlace,
          BeforeRunning, Holding, Dispatching
    <2>7. OnePlace'
      BY <1>0, <1>a, <1>1, AdmitUserEffect, OwnershipAssumption DEF LoopParts, OnePlace,
          BeforeRunning, AfterRunning, OwnerNamed, UpIsFresh, GoneHoldNothing, OnePass,
          Holding, Dispatching, Passing
    <2> QED BY <2>1, <2>2, <2>3, <2>4, <2>5, <2>6, <2>7 DEF LoopParts
  <1>2. ASSUME NEW p \in Replicas, NEW r \in Runs, QueueForUser(p, r) PROVE LoopParts'
    <2>1. GoneHoldNothing'
      BY <1>0, <1>a, <1>2, QueueForUserEffect DEF LoopParts, GoneHoldNothing
    <2>2. UpIsFresh'
      BY <1>0, <1>a, <1>2, QueueForUserEffect DEF LoopParts, UpIsFresh
    <2>3. OnePass'
      BY <1>0, <1>a, <1>2, QueueForUserEffect, OwnershipAssumption DEF LoopParts,
          OnePass, Passing
    <2>4. BeforeRunning'
      BY <1>0, <1>a, <1>2, QueueForUserEffect DEF LoopParts, BeforeRunning, OnePlace
    <2>5. AfterRunning'
      BY <1>0, <1>a, <1>2, QueueForUserEffect DEF LoopParts, AfterRunning,
          BeforeRunning, OwnerNamed
    <2>6. OwnerNamed'
      BY <1>0, <1>a, <1>2, QueueForUserEffect DEF LoopParts, OwnerNamed, OnePlace,
          BeforeRunning, Holding, Dispatching
    <2>7. OnePlace'
      BY <1>0, <1>a, <1>2, QueueForUserEffect, OwnershipAssumption DEF LoopParts,
          OnePlace, BeforeRunning, AfterRunning, OwnerNamed, UpIsFresh, GoneHoldNothing,
          OnePass, Holding, Dispatching, Passing
    <2> QED BY <2>1, <2>2, <2>3, <2>4, <2>5, <2>6, <2>7 DEF LoopParts
  <1>3. ASSUME NEW p \in Replicas, NEW r \in Runs, QueueForSlot(p, r) PROVE LoopParts'
    <2>1. GoneHoldNothing'
      BY <1>0, <1>a, <1>3, QueueForSlotEffect DEF LoopParts, GoneHoldNothing
    <2>2. UpIsFresh'
      BY <1>0, <1>a, <1>3, QueueForSlotEffect DEF LoopParts, UpIsFresh
    <2>3. OnePass'
      BY <1>0, <1>a, <1>3, QueueForSlotEffect, OwnershipAssumption DEF LoopParts,
          OnePass, Passing
    <2>4. BeforeRunning'
      BY <1>0, <1>a, <1>3, QueueForSlotEffect DEF LoopParts, BeforeRunning, OnePlace
    <2>5. AfterRunning'
      BY <1>0, <1>a, <1>3, QueueForSlotEffect DEF LoopParts, AfterRunning,
          BeforeRunning, OwnerNamed
    <2>6. OwnerNamed'
      BY <1>0, <1>a, <1>3, QueueForSlotEffect DEF LoopParts, OwnerNamed, OnePlace,
          BeforeRunning, Holding, Dispatching
    <2>7. OnePlace'
      BY <1>0, <1>a, <1>3, QueueForSlotEffect, OwnershipAssumption DEF LoopParts,
          OnePlace, BeforeRunning, AfterRunning, OwnerNamed, UpIsFresh, GoneHoldNothing,
          OnePass, Holding, Dispatching, Passing
    <2> QED BY <2>1, <2>2, <2>3, <2>4, <2>5, <2>6, <2>7 DEF LoopParts
  <1>4. ASSUME NEW p \in Replicas, NEW r \in Runs, Park(p, r) PROVE LoopParts'
    <2>1. GoneHoldNothing'
      BY <1>0, <1>a, <1>4, ParkEffect DEF LoopParts, GoneHoldNothing
    <2>2. UpIsFresh'
      BY <1>0, <1>a, <1>4, ParkEffect DEF LoopParts, UpIsFresh
    <2>3. OnePass'
      BY <1>0, <1>a, <1>4, ParkEffect, OwnershipAssumption DEF LoopParts, OnePass, Passing
    <2>4. BeforeRunning'
      BY <1>0, <1>a, <1>4, ParkEffect DEF LoopParts, BeforeRunning, OnePlace
    <2>5. AfterRunning'
      BY <1>0, <1>a, <1>4, ParkEffect DEF LoopParts, AfterRunning, BeforeRunning, OwnerNamed
    <2>6. OwnerNamed'
      BY <1>0, <1>a, <1>4, ParkEffect DEF LoopParts, OwnerNamed, OnePlace,
          BeforeRunning, Holding, Dispatching
    <2>7. OnePlace'
      BY <1>0, <1>a, <1>4, ParkEffect, OwnershipAssumption DEF LoopParts, OnePlace,
          BeforeRunning, AfterRunning, OwnerNamed, UpIsFresh, GoneHoldNothing, OnePass,
          Holding, Dispatching, Passing
    <2> QED BY <2>1, <2>2, <2>3, <2>4, <2>5, <2>6, <2>7 DEF LoopParts
  <1>5. ASSUME NEW p \in Replicas, NEW r \in Runs, Check(p, r) PROVE LoopParts'
    <2>1. GoneHoldNothing'
      BY <1>0, <1>a, <1>5, CheckEffect DEF LoopParts, GoneHoldNothing
    <2>2. UpIsFresh'
      BY <1>0, <1>a, <1>5, CheckEffect DEF LoopParts, UpIsFresh
    <2>3. OnePass'
      BY <1>0, <1>a, <1>5, CheckEffect, OwnershipAssumption DEF LoopParts, OnePass, Passing
    <2>4. BeforeRunning'
      BY <1>0, <1>a, <1>5, CheckEffect DEF LoopParts, BeforeRunning, OnePlace
    <2>5. AfterRunning'
      BY <1>0, <1>a, <1>5, CheckEffect DEF LoopParts, AfterRunning, BeforeRunning,
          OwnerNamed
    <2>6. OwnerNamed'
      BY <1>0, <1>a, <1>5, CheckEffect DEF LoopParts, OwnerNamed, OnePlace,
          BeforeRunning, Holding, Dispatching
    <2>7. OnePlace'
      <3> SUFFICES ASSUME ~doubted, r \notin unstamped, NEW q \in Replicas, q # p
                      PROVE  at[q][r] = "none"
        BY <1>0, <1>5, CheckEffect DEF LoopParts, OnePlace
      <3>1. /\ p \in up /\ at[p][r] = "none" /\ row[r].status = "running" /\ row[r].paused
            /\ ~IsLive(p, r)
            /\ resumer = NoReplica
        BY <1>0, <1>5, CheckEffect
      <3>2. row[r].owner = q => q \notin up
        BY <1>0, <3>1, OwnershipAssumption DEF LoopParts, UpIsFresh, IsLive
      <3>3. at[q][r] \notin Holding
        BY <1>0, <3>1, <3>2 DEF LoopParts, OwnerNamed, GoneHoldNothing, Holding, Dispatching
      <3>4. at[q][r] \notin Passing
        BY <1>0, <3>1, OwnershipAssumption DEF LoopParts, OnePass
      <3>5. at[q][r] \notin {"ending", "held"}
        BY <1>0, <3>1 DEF LoopParts, AfterRunning, BeforeRunning
      <3>6. at[q][r] \in Places
        BY <1>0 DEF TypeOK
      <3> QED BY <3>3, <3>4, <3>5, <3>6 DEF Places, Holding
    <2> QED BY <2>1, <2>2, <2>3, <2>4, <2>5, <2>6, <2>7 DEF LoopParts
  <1>6. ASSUME NEW p \in Replicas, NEW r \in Runs, Unclaim(p, r) PROVE LoopParts'
    <2>1. GoneHoldNothing'
      BY <1>0, <1>a, <1>6, UnclaimEffect DEF LoopParts, GoneHoldNothing
    <2>2. UpIsFresh'
      BY <1>0, <1>a, <1>6, UnclaimEffect DEF LoopParts, UpIsFresh
    <2>3. OnePass'
      BY <1>0, <1>a, <1>6, UnclaimEffect, OwnershipAssumption DEF LoopParts, OnePass,
          Passing
    <2>4. BeforeRunning'
      BY <1>0, <1>a, <1>6, UnclaimEffect DEF LoopParts, BeforeRunning, OnePlace
    <2>5. AfterRunning'
      BY <1>0, <1>a, <1>6, UnclaimEffect DEF LoopParts, AfterRunning, BeforeRunning,
          OwnerNamed
    <2>6. OwnerNamed'
      BY <1>0, <1>a, <1>6, UnclaimEffect DEF LoopParts, OwnerNamed, OnePlace,
          BeforeRunning, Holding, Dispatching
    <2>7. OnePlace'
      BY <1>0, <1>a, <1>6, UnclaimEffect, OwnershipAssumption DEF LoopParts, OnePlace,
          BeforeRunning, AfterRunning, OwnerNamed, UpIsFresh, GoneHoldNothing, OnePass,
          Holding, Dispatching, Passing
    <2> QED BY <2>1, <2>2, <2>3, <2>4, <2>5, <2>6, <2>7 DEF LoopParts
  <1>7. ASSUME NEW p \in Replicas, NEW r \in Runs, Refuse(p, r) PROVE LoopParts'
    <2>1. GoneHoldNothing'
      BY <1>0, <1>a, <1>7, RefuseEffect DEF LoopParts, GoneHoldNothing
    <2>2. UpIsFresh'
      BY <1>0, <1>a, <1>7, RefuseEffect DEF LoopParts, UpIsFresh
    <2>3. OnePass'
      BY <1>0, <1>a, <1>7, RefuseEffect, OwnershipAssumption DEF LoopParts, OnePass, Passing
    <2>4. BeforeRunning'
      BY <1>0, <1>a, <1>7, RefuseEffect DEF LoopParts, BeforeRunning, OnePlace
    <2>5. AfterRunning'
      BY <1>0, <1>a, <1>7, RefuseEffect DEF LoopParts, AfterRunning, BeforeRunning,
          OwnerNamed
    <2>6. OwnerNamed'
      BY <1>0, <1>a, <1>7, RefuseEffect DEF LoopParts, OwnerNamed, OnePlace,
          BeforeRunning, Holding, Dispatching
    <2>7. OnePlace'
      BY <1>0, <1>a, <1>7, RefuseEffect, OwnershipAssumption DEF LoopParts, OnePlace,
          BeforeRunning, AfterRunning, OwnerNamed, UpIsFresh, GoneHoldNothing, OnePass,
          Holding, Dispatching, Passing
    <2> QED BY <2>1, <2>2, <2>3, <2>4, <2>5, <2>6, <2>7 DEF LoopParts
  <1>8. ASSUME NEW p \in Replicas, NEW r \in Runs, CancelUnheld(p, r) PROVE LoopParts'
    <2>1. GoneHoldNothing'
      BY <1>0, <1>a, <1>8, CancelUnheldEffect DEF LoopParts, GoneHoldNothing
    <2>2. UpIsFresh'
      BY <1>0, <1>a, <1>8, CancelUnheldEffect DEF LoopParts, UpIsFresh
    <2>3. OnePass'
      BY <1>0, <1>a, <1>8, CancelUnheldEffect, OwnershipAssumption DEF LoopParts,
          OnePass, Passing
    <2>4. BeforeRunning'
      BY <1>0, <1>a, <1>8, CancelUnheldEffect DEF LoopParts, BeforeRunning, OnePlace
    <2>5. AfterRunning'
      BY <1>0, <1>a, <1>8, CancelUnheldEffect DEF LoopParts, AfterRunning,
          BeforeRunning, OwnerNamed
    <2>6. OwnerNamed'
      BY <1>0, <1>a, <1>8, CancelUnheldEffect DEF LoopParts, OwnerNamed, OnePlace,
          BeforeRunning, Holding, Dispatching
    <2>7. OnePlace'
      BY <1>0, <1>a, <1>8, CancelUnheldEffect, OwnershipAssumption DEF LoopParts,
          OnePlace, BeforeRunning, AfterRunning, OwnerNamed, UpIsFresh, GoneHoldNothing,
          OnePass, Holding, Dispatching, Passing
    <2> QED BY <2>1, <2>2, <2>3, <2>4, <2>5, <2>6, <2>7 DEF LoopParts
  <1>9. ASSUME NEW p \in Replicas, NEW r \in Runs, PollUser(p, r) PROVE LoopParts'
    <2>1. GoneHoldNothing'
      BY <1>0, <1>a, <1>9, PollUserEffect DEF LoopParts, GoneHoldNothing
    <2>2. UpIsFresh'
      BY <1>0, <1>a, <1>9, PollUserEffect DEF LoopParts, UpIsFresh
    <2>3. OnePass'
      BY <1>0, <1>a, <1>9, PollUserEffect, OwnershipAssumption DEF LoopParts, OnePass,
          Passing
    <2>4. BeforeRunning'
      BY <1>0, <1>a, <1>9, PollUserEffect DEF LoopParts, BeforeRunning, OnePlace
    <2>5. AfterRunning'
      BY <1>0, <1>a, <1>9, PollUserEffect DEF LoopParts, AfterRunning, BeforeRunning,
          OwnerNamed
    <2>6. OwnerNamed'
      BY <1>0, <1>a, <1>9, PollUserEffect DEF LoopParts, OwnerNamed, OnePlace,
          BeforeRunning, Holding, Dispatching
    <2>7. OnePlace'
      BY <1>0, <1>a, <1>9, PollUserEffect, OwnershipAssumption DEF LoopParts, OnePlace,
          BeforeRunning, AfterRunning, OwnerNamed, UpIsFresh, GoneHoldNothing, OnePass,
          Holding, Dispatching, Passing
    <2> QED BY <2>1, <2>2, <2>3, <2>4, <2>5, <2>6, <2>7 DEF LoopParts
  <1>10. ASSUME NEW p \in Replicas, NEW r \in Runs, StartRun(p, r) PROVE LoopParts'
    <2>1. GoneHoldNothing'
      BY <1>0, <1>a, <1>10, StartRunEffect DEF LoopParts, GoneHoldNothing
    <2>2. UpIsFresh'
      BY <1>0, <1>a, <1>10, StartRunEffect DEF LoopParts, UpIsFresh
    <2>3. OnePass'
      BY <1>0, <1>a, <1>10, StartRunEffect, OwnershipAssumption DEF LoopParts, OnePass,
          Passing
    <2>4. BeforeRunning'
      BY <1>0, <1>a, <1>10, StartRunEffect DEF LoopParts, BeforeRunning, OnePlace
    <2>5. AfterRunning'
      BY <1>0, <1>a, <1>10, StartRunEffect DEF LoopParts, AfterRunning, BeforeRunning,
          OwnerNamed
    <2>6. OwnerNamed'
      BY <1>0, <1>a, <1>10, StartRunEffect DEF LoopParts, OwnerNamed, OnePlace,
          BeforeRunning, Holding, Dispatching
    <2>7. OnePlace'
      BY <1>0, <1>a, <1>10, StartRunEffect, OwnershipAssumption DEF LoopParts, OnePlace,
          BeforeRunning, AfterRunning, OwnerNamed, UpIsFresh, GoneHoldNothing, OnePass,
          Holding, Dispatching, Passing
    <2> QED BY <2>1, <2>2, <2>3, <2>4, <2>5, <2>6, <2>7 DEF LoopParts
  <1>11. ASSUME NEW p \in Replicas, NEW r \in Runs, EndLoop(p, r) PROVE LoopParts'
    <2>1. GoneHoldNothing'
      BY <1>0, <1>a, <1>11, EndLoopEffect DEF LoopParts, GoneHoldNothing
    <2>2. UpIsFresh'
      BY <1>0, <1>a, <1>11, EndLoopEffect DEF LoopParts, UpIsFresh
    <2>3. OnePass'
      BY <1>0, <1>a, <1>11, EndLoopEffect, OwnershipAssumption DEF LoopParts, OnePass,
          Passing
    <2>4. BeforeRunning'
      BY <1>0, <1>a, <1>11, EndLoopEffect DEF LoopParts, BeforeRunning, OnePlace
    <2>5. AfterRunning'
      BY <1>0, <1>a, <1>11, EndLoopEffect DEF LoopParts, AfterRunning, BeforeRunning,
          OwnerNamed
    <2>6. OwnerNamed'
      BY <1>0, <1>a, <1>11, EndLoopEffect DEF LoopParts, OwnerNamed, OnePlace,
          BeforeRunning, Holding, Dispatching
    <2>7. OnePlace'
      BY <1>0, <1>a, <1>11, EndLoopEffect, OwnershipAssumption DEF LoopParts, OnePlace,
          BeforeRunning, AfterRunning, OwnerNamed, UpIsFresh, GoneHoldNothing, OnePass,
          Holding, Dispatching, Passing
    <2> QED BY <2>1, <2>2, <2>3, <2>4, <2>5, <2>6, <2>7 DEF LoopParts
  <1>12. ASSUME NEW p \in Replicas, NEW r \in Runs, ReleaseUser(p, r) PROVE LoopParts'
    <2>1. GoneHoldNothing'
      BY <1>0, <1>a, <1>12, ReleaseUserEffect DEF LoopParts, GoneHoldNothing
    <2>2. UpIsFresh'
      BY <1>0, <1>a, <1>12, ReleaseUserEffect DEF LoopParts, UpIsFresh
    <2>3. OnePass'
      BY <1>0, <1>a, <1>12, ReleaseUserEffect, OwnershipAssumption DEF LoopParts,
          OnePass, Passing
    <2>4. BeforeRunning'
      BY <1>0, <1>a, <1>12, ReleaseUserEffect DEF LoopParts, BeforeRunning, OnePlace
    <2>5. AfterRunning'
      BY <1>0, <1>a, <1>12, ReleaseUserEffect DEF LoopParts, AfterRunning,
          BeforeRunning, OwnerNamed
    <2>6. OwnerNamed'
      BY <1>0, <1>a, <1>12, ReleaseUserEffect DEF LoopParts, OwnerNamed, OnePlace,
          BeforeRunning, Holding, Dispatching
    <2>7. OnePlace'
      BY <1>0, <1>a, <1>12, ReleaseUserEffect, OwnershipAssumption DEF LoopParts,
          OnePlace, BeforeRunning, AfterRunning, OwnerNamed, UpIsFresh, GoneHoldNothing,
          OnePass, Holding, Dispatching, Passing
    <2> QED BY <2>1, <2>2, <2>3, <2>4, <2>5, <2>6, <2>7 DEF LoopParts
  <1>13. ASSUME NEW p \in Replicas, NEW r \in Runs, Unpark(p, r) PROVE LoopParts'
    <2>1. GoneHoldNothing'
      BY <1>0, <1>a, <1>13, UnparkEffect DEF LoopParts, GoneHoldNothing
    <2>2. UpIsFresh'
      BY <1>0, <1>a, <1>13, UnparkEffect DEF LoopParts, UpIsFresh
    <2>3. OnePass'
      BY <1>0, <1>a, <1>13, UnparkEffect, OwnershipAssumption DEF LoopParts, OnePass,
          Passing
    <2>4. BeforeRunning'
      BY <1>0, <1>a, <1>13, UnparkEffect DEF LoopParts, BeforeRunning, OnePlace
    <2>5. AfterRunning'
      BY <1>0, <1>a, <1>13, UnparkEffect DEF LoopParts, AfterRunning, BeforeRunning,
          OwnerNamed
    <2>6. OwnerNamed'
      BY <1>0, <1>a, <1>13, UnparkEffect DEF LoopParts, OwnerNamed, OnePlace,
          BeforeRunning, Holding, Dispatching
    <2>7. OnePlace'
      BY <1>0, <1>a, <1>13, UnparkEffect, OwnershipAssumption DEF LoopParts, OnePlace,
          BeforeRunning, AfterRunning, OwnerNamed, UpIsFresh, GoneHoldNothing, OnePass,
          Holding, Dispatching, Passing
    <2> QED BY <2>1, <2>2, <2>3, <2>4, <2>5, <2>6, <2>7 DEF LoopParts
  <1>14. ASSUME NEW p \in Replicas, NEW r \in Runs, Claim(p, r) PROVE LoopParts'
    <2>1. GoneHoldNothing'
      BY <1>0, <1>a, <1>14, ClaimEffect DEF LoopParts, GoneHoldNothing
    <2>2. UpIsFresh'
      BY <1>0, <1>a, <1>14, ClaimEffect DEF LoopParts, UpIsFresh
    <2>3. OnePass'
      BY <1>0, <1>a, <1>14, ClaimEffect, OwnershipAssumption DEF LoopParts, OnePass, Passing
    <2>4. BeforeRunning'
      BY <1>0, <1>a, <1>14, ClaimEffect DEF LoopParts, BeforeRunning, OnePlace
    <2>5. AfterRunning'
      BY <1>0, <1>a, <1>14, ClaimEffect DEF LoopParts, AfterRunning, BeforeRunning,
          OwnerNamed
    <2>6. OwnerNamed'
      BY <1>0, <1>a, <1>14, ClaimEffect DEF LoopParts, OwnerNamed, OnePlace,
          BeforeRunning, Holding, Dispatching
    <2>7. OnePlace'
      BY <1>0, <1>a, <1>14, ClaimEffect, OwnershipAssumption DEF LoopParts, OnePlace,
          BeforeRunning, AfterRunning, OwnerNamed, UpIsFresh, GoneHoldNothing, OnePass,
          Holding, Dispatching, Passing
    <2> QED BY <2>1, <2>2, <2>3, <2>4, <2>5, <2>6, <2>7 DEF LoopParts
  <1>15. ASSUME NEW p \in Replicas, NEW r \in Runs, Stamp(p, r) PROVE LoopParts'
    <2>1. GoneHoldNothing'
      BY <1>0, <1>a, <1>15, StampEffect DEF LoopParts, GoneHoldNothing
    <2>2. UpIsFresh'
      BY <1>0, <1>a, <1>15, StampEffect DEF LoopParts, UpIsFresh
    <2>3. OnePass'
      BY <1>0, <1>a, <1>15, StampEffect, OwnershipAssumption DEF LoopParts, OnePass, Passing
    <2>4. BeforeRunning'
      BY <1>0, <1>a, <1>15, StampEffect DEF LoopParts, BeforeRunning, OnePlace
    <2>5. AfterRunning'
      BY <1>0, <1>a, <1>15, StampEffect DEF LoopParts, AfterRunning, BeforeRunning,
          OwnerNamed
    <2>6. OwnerNamed'
      BY <1>0, <1>a, <1>15, StampEffect DEF LoopParts, OwnerNamed, OnePlace,
          BeforeRunning, Holding, Dispatching
    <2>7. OnePlace'
      BY <1>0, <1>a, <1>15, StampEffect, OwnershipAssumption DEF LoopParts, OnePlace,
          BeforeRunning, AfterRunning, OwnerNamed, UpIsFresh, GoneHoldNothing, OnePass,
          Holding, Dispatching, Passing
    <2> QED BY <2>1, <2>2, <2>3, <2>4, <2>5, <2>6, <2>7 DEF LoopParts
  <1>16. ASSUME NEW p \in Replicas, NEW r \in Runs, TakeSlot(p, r) PROVE LoopParts'
    <2>1. GoneHoldNothing'
      BY <1>0, <1>a, <1>16, TakeSlotEffect DEF LoopParts, GoneHoldNothing
    <2>2. UpIsFresh'
      BY <1>0, <1>a, <1>16, TakeSlotEffect DEF LoopParts, UpIsFresh
    <2>3. OnePass'
      BY <1>0, <1>a, <1>16, TakeSlotEffect, OwnershipAssumption DEF LoopParts, OnePass,
          Passing
    <2>4. BeforeRunning'
      BY <1>0, <1>a, <1>16, TakeSlotEffect DEF LoopParts, BeforeRunning, OnePlace
    <2>5. AfterRunning'
      BY <1>0, <1>a, <1>16, TakeSlotEffect DEF LoopParts, AfterRunning, BeforeRunning,
          OwnerNamed
    <2>6. OwnerNamed'
      BY <1>0, <1>a, <1>16, TakeSlotEffect DEF LoopParts, OwnerNamed, OnePlace,
          BeforeRunning, Holding, Dispatching
    <2>7. OnePlace'
      BY <1>0, <1>a, <1>16, TakeSlotEffect, OwnershipAssumption DEF LoopParts, OnePlace,
          BeforeRunning, AfterRunning, OwnerNamed, UpIsFresh, GoneHoldNothing, OnePass,
          Holding, Dispatching, Passing
    <2> QED BY <2>1, <2>2, <2>3, <2>4, <2>5, <2>6, <2>7 DEF LoopParts
  <1>17. ASSUME NEW p \in Replicas, NEW r \in Runs, GiveSlot(p, r) PROVE LoopParts'
    <2>1. GoneHoldNothing'
      BY <1>0, <1>a, <1>17, GiveSlotEffect DEF LoopParts, GoneHoldNothing
    <2>2. UpIsFresh'
      BY <1>0, <1>a, <1>17, GiveSlotEffect DEF LoopParts, UpIsFresh
    <2>3. OnePass'
      BY <1>0, <1>a, <1>17, GiveSlotEffect, OwnershipAssumption DEF LoopParts, OnePass,
          Passing
    <2>4. BeforeRunning'
      BY <1>0, <1>a, <1>17, GiveSlotEffect DEF LoopParts, BeforeRunning, OnePlace
    <2>5. AfterRunning'
      BY <1>0, <1>a, <1>17, GiveSlotEffect DEF LoopParts, AfterRunning, BeforeRunning,
          OwnerNamed
    <2>6. OwnerNamed'
      BY <1>0, <1>a, <1>17, GiveSlotEffect DEF LoopParts, OwnerNamed, OnePlace,
          BeforeRunning, Holding, Dispatching
    <2>7. OnePlace'
      BY <1>0, <1>a, <1>17, GiveSlotEffect, OwnershipAssumption DEF LoopParts, OnePlace,
          BeforeRunning, AfterRunning, OwnerNamed, UpIsFresh, GoneHoldNothing, OnePass,
          Holding, Dispatching, Passing
    <2> QED BY <2>1, <2>2, <2>3, <2>4, <2>5, <2>6, <2>7 DEF LoopParts
  <1>18. ASSUME NEW p \in Replicas, NEW r \in Runs, CountResumed(p, r) PROVE LoopParts'
    <2>1. GoneHoldNothing'
      BY <1>0, <1>a, <1>18, CountResumedEffect DEF LoopParts, GoneHoldNothing
    <2>2. UpIsFresh'
      BY <1>0, <1>a, <1>18, CountResumedEffect DEF LoopParts, UpIsFresh
    <2>3. OnePass'
      BY <1>0, <1>a, <1>18, CountResumedEffect, OwnershipAssumption DEF LoopParts,
          OnePass, Passing
    <2>4. BeforeRunning'
      BY <1>0, <1>a, <1>18, CountResumedEffect DEF LoopParts, BeforeRunning, OnePlace
    <2>5. AfterRunning'
      BY <1>0, <1>a, <1>18, CountResumedEffect DEF LoopParts, AfterRunning,
          BeforeRunning, OwnerNamed
    <2>6. OwnerNamed'
      BY <1>0, <1>a, <1>18, CountResumedEffect DEF LoopParts, OwnerNamed, OnePlace,
          BeforeRunning, Holding, Dispatching
    <2>7. OnePlace'
      BY <1>0, <1>a, <1>18, CountResumedEffect, OwnershipAssumption DEF LoopParts,
          OnePlace, BeforeRunning, AfterRunning, OwnerNamed, UpIsFresh, GoneHoldNothing,
          OnePass, Holding, Dispatching, Passing
    <2> QED BY <2>1, <2>2, <2>3, <2>4, <2>5, <2>6, <2>7 DEF LoopParts
  <1>19. ASSUME NEW p \in Replicas, NEW r \in Runs, MarkSlot(p, r) PROVE LoopParts'
    <2>1. GoneHoldNothing'
      BY <1>0, <1>a, <1>19, MarkSlotEffect DEF LoopParts, GoneHoldNothing
    <2>2. UpIsFresh'
      BY <1>0, <1>a, <1>19, MarkSlotEffect DEF LoopParts, UpIsFresh
    <2>3. OnePass'
      BY <1>0, <1>a, <1>19, MarkSlotEffect, OwnershipAssumption DEF LoopParts, OnePass,
          Passing
    <2>4. BeforeRunning'
      BY <1>0, <1>a, <1>19, MarkSlotEffect DEF LoopParts, BeforeRunning, OnePlace
    <2>5. AfterRunning'
      BY <1>0, <1>a, <1>19, MarkSlotEffect DEF LoopParts, AfterRunning, BeforeRunning,
          OwnerNamed
    <2>6. OwnerNamed'
      BY <1>0, <1>a, <1>19, MarkSlotEffect DEF LoopParts, OwnerNamed, OnePlace,
          BeforeRunning, Holding, Dispatching
    <2>7. OnePlace'
      BY <1>0, <1>a, <1>19, MarkSlotEffect, OwnershipAssumption DEF LoopParts, OnePlace,
          BeforeRunning, AfterRunning, OwnerNamed, UpIsFresh, GoneHoldNothing, OnePass,
          Holding, Dispatching, Passing
    <2> QED BY <2>1, <2>2, <2>3, <2>4, <2>5, <2>6, <2>7 DEF LoopParts
  <1>20. ASSUME NEW p \in Replicas, Stop(p) PROVE LoopParts'
    <2>1. GoneHoldNothing'
      BY <1>0, <1>a, <1>20, StopEffect DEF LoopParts, GoneHoldNothing
    <2>2. UpIsFresh'
      BY <1>0, <1>a, <1>20, StopEffect DEF LoopParts, UpIsFresh
    <2>3. OnePass'
      BY <1>0, <1>a, <1>20, StopEffect, OwnershipAssumption DEF LoopParts, OnePass, Passing
    <2>4. BeforeRunning'
      BY <1>0, <1>a, <1>20, StopEffect DEF LoopParts, BeforeRunning, OnePlace
    <2>5. AfterRunning'
      BY <1>0, <1>a, <1>20, StopEffect DEF LoopParts, AfterRunning, BeforeRunning,
          OwnerNamed
    <2>6. OwnerNamed'
      BY <1>0, <1>a, <1>20, StopEffect DEF LoopParts, OwnerNamed, OnePlace,
          BeforeRunning, Holding, Dispatching
    <2>7. OnePlace'
      BY <1>0, <1>a, <1>20, StopEffect, OwnershipAssumption DEF LoopParts, OnePlace,
          BeforeRunning, AfterRunning, OwnerNamed, UpIsFresh, GoneHoldNothing, OnePass,
          Holding, Dispatching, Passing
    <2> QED BY <2>1, <2>2, <2>3, <2>4, <2>5, <2>6, <2>7 DEF LoopParts
  <1>21. ASSUME NEW p \in Replicas, Crash(p) PROVE LoopParts'
    <2>1. GoneHoldNothing'
      BY <1>0, <1>a, <1>21, CrashEffect DEF LoopParts, GoneHoldNothing
    <2>2. UpIsFresh'
      BY <1>0, <1>a, <1>21, CrashEffect DEF LoopParts, UpIsFresh
    <2>3. OnePass'
      BY <1>0, <1>a, <1>21, CrashEffect, OwnershipAssumption DEF LoopParts, OnePass, Passing
    <2>4. BeforeRunning'
      BY <1>0, <1>a, <1>21, CrashEffect DEF LoopParts, BeforeRunning, OnePlace
    <2>5. AfterRunning'
      BY <1>0, <1>a, <1>21, CrashEffect DEF LoopParts, AfterRunning, BeforeRunning,
          OwnerNamed
    <2>6. OwnerNamed'
      BY <1>0, <1>a, <1>21, CrashEffect DEF LoopParts, OwnerNamed, OnePlace,
          BeforeRunning, Holding, Dispatching
    <2>7. OnePlace'
      BY <1>0, <1>a, <1>21, CrashEffect, OwnershipAssumption DEF LoopParts, OnePlace,
          BeforeRunning, AfterRunning, OwnerNamed, UpIsFresh, GoneHoldNothing, OnePass,
          Holding, Dispatching, Passing
    <2> QED BY <2>1, <2>2, <2>3, <2>4, <2>5, <2>6, <2>7 DEF LoopParts
  <1>22. ASSUME NEW p \in Replicas, Boot(p) PROVE LoopParts'
    <2>1. GoneHoldNothing'
      BY <1>0, <1>a, <1>22, BootEffect DEF LoopParts, GoneHoldNothing
    <2>2. UpIsFresh'
      BY <1>0, <1>a, <1>22, BootEffect DEF LoopParts, UpIsFresh
    <2>3. OnePass'
      BY <1>0, <1>a, <1>22, BootEffect, OwnershipAssumption DEF LoopParts, OnePass, Passing
    <2>4. BeforeRunning'
      BY <1>0, <1>a, <1>22, BootEffect DEF LoopParts, BeforeRunning, OnePlace
    <2>5. AfterRunning'
      BY <1>0, <1>a, <1>22, BootEffect DEF LoopParts, AfterRunning, BeforeRunning,
          OwnerNamed
    <2>6. OwnerNamed'
      BY <1>0, <1>a, <1>22, BootEffect DEF LoopParts, OwnerNamed, OnePlace,
          BeforeRunning, Holding, Dispatching
    <2>7. OnePlace'
      BY <1>0, <1>a, <1>22, BootEffect, OwnershipAssumption DEF LoopParts, OnePlace,
          BeforeRunning, AfterRunning, OwnerNamed, UpIsFresh, GoneHoldNothing, OnePass,
          Holding, Dispatching, Passing
    <2> QED BY <2>1, <2>2, <2>3, <2>4, <2>5, <2>6, <2>7 DEF LoopParts
  <1>23. ASSUME NEW p \in Replicas, Heartbeat(p) PROVE LoopParts'
    <2>1. GoneHoldNothing'
      BY <1>0, <1>a, <1>23, HeartbeatEffect DEF LoopParts, GoneHoldNothing
    <2>2. UpIsFresh'
      BY <1>0, <1>a, <1>23, HeartbeatEffect DEF LoopParts, UpIsFresh
    <2>3. OnePass'
      BY <1>0, <1>a, <1>23, HeartbeatEffect, OwnershipAssumption DEF LoopParts, OnePass,
          Passing
    <2>4. BeforeRunning'
      BY <1>0, <1>a, <1>23, HeartbeatEffect DEF LoopParts, BeforeRunning, OnePlace
    <2>5. AfterRunning'
      BY <1>0, <1>a, <1>23, HeartbeatEffect DEF LoopParts, AfterRunning, BeforeRunning,
          OwnerNamed
    <2>6. OwnerNamed'
      BY <1>0, <1>a, <1>23, HeartbeatEffect DEF LoopParts, OwnerNamed, OnePlace,
          BeforeRunning, Holding, Dispatching
    <2>7. OnePlace'
      BY <1>0, <1>a, <1>23, HeartbeatEffect, OwnershipAssumption DEF LoopParts,
          OnePlace, BeforeRunning, AfterRunning, OwnerNamed, UpIsFresh, GoneHoldNothing,
          OnePass, Holding, Dispatching, Passing
    <2> QED BY <2>1, <2>2, <2>3, <2>4, <2>5, <2>6, <2>7 DEF LoopParts
  <1>24. ASSUME NEW p \in Replicas, GoStale(p) PROVE LoopParts'
    <2>1. GoneHoldNothing'
      BY <1>0, <1>a, <1>24, GoStaleEffect DEF LoopParts, GoneHoldNothing
    <2>2. UpIsFresh'
      BY <1>0, <1>a, <1>24, GoStaleEffect DEF LoopParts, UpIsFresh
    <2>3. OnePass'
      BY <1>0, <1>a, <1>24, GoStaleEffect, OwnershipAssumption DEF LoopParts, OnePass,
          Passing
    <2>4. BeforeRunning'
      BY <1>0, <1>a, <1>24, GoStaleEffect DEF LoopParts, BeforeRunning, OnePlace
    <2>5. AfterRunning'
      BY <1>0, <1>a, <1>24, GoStaleEffect DEF LoopParts, AfterRunning, BeforeRunning,
          OwnerNamed
    <2>6. OwnerNamed'
      BY <1>0, <1>a, <1>24, GoStaleEffect DEF LoopParts, OwnerNamed, OnePlace,
          BeforeRunning, Holding, Dispatching
    <2>7. OnePlace'
      BY <1>0, <1>a, <1>24, GoStaleEffect, OwnershipAssumption DEF LoopParts, OnePlace,
          BeforeRunning, AfterRunning, OwnerNamed, UpIsFresh, GoneHoldNothing, OnePass,
          Holding, Dispatching, Passing
    <2> QED BY <2>1, <2>2, <2>3, <2>4, <2>5, <2>6, <2>7 DEF LoopParts
  <1>25. ASSUME NEW p \in Replicas, SweepList(p) PROVE LoopParts'
    <2>1. GoneHoldNothing'
      BY <1>0, <1>a, <1>25, SweepListEffect DEF LoopParts, GoneHoldNothing
    <2>2. UpIsFresh'
      BY <1>0, <1>a, <1>25, SweepListEffect DEF LoopParts, UpIsFresh
    <2>3. OnePass'
      BY <1>0, <1>a, <1>25, SweepListEffect, OwnershipAssumption DEF LoopParts, OnePass,
          Passing
    <2>4. BeforeRunning'
      BY <1>0, <1>a, <1>25, SweepListEffect DEF LoopParts, BeforeRunning, OnePlace
    <2>5. AfterRunning'
      BY <1>0, <1>a, <1>25, SweepListEffect DEF LoopParts, AfterRunning, BeforeRunning,
          OwnerNamed
    <2>6. OwnerNamed'
      BY <1>0, <1>a, <1>25, SweepListEffect DEF LoopParts, OwnerNamed, OnePlace,
          BeforeRunning, Holding, Dispatching
    <2>7. OnePlace'
      BY <1>0, <1>a, <1>25, SweepListEffect, OwnershipAssumption DEF LoopParts,
          OnePlace, BeforeRunning, AfterRunning, OwnerNamed, UpIsFresh, GoneHoldNothing,
          OnePass, Holding, Dispatching, Passing
    <2> QED BY <2>1, <2>2, <2>3, <2>4, <2>5, <2>6, <2>7 DEF LoopParts
  <1>26. ASSUME SweepFail PROVE LoopParts'
    <2>1. GoneHoldNothing'
      BY <1>0, <1>a, <1>26, SweepFailEffect DEF LoopParts, GoneHoldNothing
    <2>2. UpIsFresh'
      BY <1>0, <1>a, <1>26, SweepFailEffect DEF LoopParts, UpIsFresh
    <2>3. OnePass'
      BY <1>0, <1>a, <1>26, SweepFailEffect, OwnershipAssumption DEF LoopParts, OnePass,
          Passing
    <2>4. BeforeRunning'
      BY <1>0, <1>a, <1>26, SweepFailEffect DEF LoopParts, BeforeRunning, OnePlace
    <2>5. AfterRunning'
      BY <1>0, <1>a, <1>26, SweepFailEffect DEF LoopParts, AfterRunning, BeforeRunning,
          OwnerNamed
    <2>6. OwnerNamed'
      BY <1>0, <1>a, <1>26, SweepFailEffect DEF LoopParts, OwnerNamed, OnePlace,
          BeforeRunning, Holding, Dispatching
    <2>7. OnePlace'
      BY <1>0, <1>a, <1>26, SweepFailEffect, OwnershipAssumption DEF LoopParts,
          OnePlace, BeforeRunning, AfterRunning, OwnerNamed, UpIsFresh, GoneHoldNothing,
          OnePass, Holding, Dispatching, Passing
    <2> QED BY <2>1, <2>2, <2>3, <2>4, <2>5, <2>6, <2>7 DEF LoopParts
  <1>27. ASSUME SweepPick PROVE LoopParts'
    <2>1. GoneHoldNothing'
      BY <1>0, <1>a, <1>27, SweepPickEffect DEF LoopParts, GoneHoldNothing
    <2>2. UpIsFresh'
      BY <1>0, <1>a, <1>27, SweepPickEffect DEF LoopParts, UpIsFresh
    <2>3. OnePass'
      BY <1>0, <1>a, <1>27, SweepPickEffect, OwnershipAssumption DEF LoopParts, OnePass,
          Passing
    <2>4. BeforeRunning'
      BY <1>0, <1>a, <1>27, SweepPickEffect DEF LoopParts, BeforeRunning, OnePlace
    <2>5. AfterRunning'
      BY <1>0, <1>a, <1>27, SweepPickEffect DEF LoopParts, AfterRunning, BeforeRunning,
          OwnerNamed
    <2>6. OwnerNamed'
      BY <1>0, <1>a, <1>27, SweepPickEffect DEF LoopParts, OwnerNamed, OnePlace,
          BeforeRunning, Holding, Dispatching
    <2>7. OnePlace'
      BY <1>0, <1>a, <1>27, SweepPickEffect, OwnershipAssumption DEF LoopParts,
          OnePlace, BeforeRunning, AfterRunning, OwnerNamed, UpIsFresh, GoneHoldNothing,
          OnePass, Holding, Dispatching, Passing
    <2> QED BY <2>1, <2>2, <2>3, <2>4, <2>5, <2>6, <2>7 DEF LoopParts
  <1>28. ASSUME SweepMark PROVE LoopParts'
    <2>1. GoneHoldNothing'
      BY <1>0, <1>a, <1>28, SweepMarkEffect DEF LoopParts, GoneHoldNothing
    <2>2. UpIsFresh'
      BY <1>0, <1>a, <1>28, SweepMarkEffect DEF LoopParts, UpIsFresh
    <2>3. OnePass'
      BY <1>0, <1>a, <1>28, SweepMarkEffect, OwnershipAssumption DEF LoopParts, OnePass,
          Passing
    <2>4. BeforeRunning'
      BY <1>0, <1>a, <1>28, SweepMarkEffect DEF LoopParts, BeforeRunning, OnePlace
    <2>5. AfterRunning'
      BY <1>0, <1>a, <1>28, SweepMarkEffect DEF LoopParts, AfterRunning, BeforeRunning,
          OwnerNamed
    <2>6. OwnerNamed'
      BY <1>0, <1>a, <1>28, SweepMarkEffect DEF LoopParts, OwnerNamed, OnePlace,
          BeforeRunning, Holding, Dispatching
    <2>7. OnePlace'
      BY <1>0, <1>a, <1>28, SweepMarkEffect, OwnershipAssumption DEF LoopParts,
          OnePlace, BeforeRunning, AfterRunning, OwnerNamed, UpIsFresh, GoneHoldNothing,
          OnePass, Holding, Dispatching, Passing
    <2> QED BY <2>1, <2>2, <2>3, <2>4, <2>5, <2>6, <2>7 DEF LoopParts
  <1>29. ASSUME SweepCount PROVE LoopParts'
    <2>1. GoneHoldNothing'
      BY <1>0, <1>a, <1>29, SweepCountEffect DEF LoopParts, GoneHoldNothing
    <2>2. UpIsFresh'
      BY <1>0, <1>a, <1>29, SweepCountEffect DEF LoopParts, UpIsFresh
    <2>3. OnePass'
      BY <1>0, <1>a, <1>29, SweepCountEffect, OwnershipAssumption DEF LoopParts,
          OnePass, Passing
    <2>4. BeforeRunning'
      BY <1>0, <1>a, <1>29, SweepCountEffect DEF LoopParts, BeforeRunning, OnePlace
    <2>5. AfterRunning'
      BY <1>0, <1>a, <1>29, SweepCountEffect DEF LoopParts, AfterRunning, BeforeRunning,
          OwnerNamed
    <2>6. OwnerNamed'
      BY <1>0, <1>a, <1>29, SweepCountEffect DEF LoopParts, OwnerNamed, OnePlace,
          BeforeRunning, Holding, Dispatching
    <2>7. OnePlace'
      BY <1>0, <1>a, <1>29, SweepCountEffect, OwnershipAssumption DEF LoopParts,
          OnePlace, BeforeRunning, AfterRunning, OwnerNamed, UpIsFresh, GoneHoldNothing,
          OnePass, Holding, Dispatching, Passing
    <2> QED BY <2>1, <2>2, <2>3, <2>4, <2>5, <2>6, <2>7 DEF LoopParts
  <1>30. ASSUME SweepDecrement PROVE LoopParts'
    <2>1. GoneHoldNothing'
      BY <1>0, <1>a, <1>30, SweepDecrementEffect DEF LoopParts, GoneHoldNothing
    <2>2. UpIsFresh'
      BY <1>0, <1>a, <1>30, SweepDecrementEffect DEF LoopParts, UpIsFresh
    <2>3. OnePass'
      BY <1>0, <1>a, <1>30, SweepDecrementEffect, OwnershipAssumption DEF LoopParts,
          OnePass, Passing
    <2>4. BeforeRunning'
      BY <1>0, <1>a, <1>30, SweepDecrementEffect DEF LoopParts, BeforeRunning, OnePlace
    <2>5. AfterRunning'
      BY <1>0, <1>a, <1>30, SweepDecrementEffect DEF LoopParts, AfterRunning,
          BeforeRunning, OwnerNamed
    <2>6. OwnerNamed'
      BY <1>0, <1>a, <1>30, SweepDecrementEffect DEF LoopParts, OwnerNamed, OnePlace,
          BeforeRunning, Holding, Dispatching
    <2>7. OnePlace'
      BY <1>0, <1>a, <1>30, SweepDecrementEffect, OwnershipAssumption DEF LoopParts,
          OnePlace, BeforeRunning, AfterRunning, OwnerNamed, UpIsFresh, GoneHoldNothing,
          OnePass, Holding, Dispatching, Passing
    <2> QED BY <2>1, <2>2, <2>3, <2>4, <2>5, <2>6, <2>7 DEF LoopParts
  <1>31. ASSUME SweepQueued PROVE LoopParts'
    <2>1. GoneHoldNothing'
      BY <1>0, <1>a, <1>31, SweepQueuedEffect DEF LoopParts, GoneHoldNothing
    <2>2. UpIsFresh'
      BY <1>0, <1>a, <1>31, SweepQueuedEffect DEF LoopParts, UpIsFresh
    <2>3. OnePass'
      BY <1>0, <1>a, <1>31, SweepQueuedEffect, OwnershipAssumption DEF LoopParts,
          OnePass, Passing
    <2>4. BeforeRunning'
      BY <1>0, <1>a, <1>31, SweepQueuedEffect DEF LoopParts, BeforeRunning, OnePlace
    <2>5. AfterRunning'
      BY <1>0, <1>a, <1>31, SweepQueuedEffect DEF LoopParts, AfterRunning,
          BeforeRunning, OwnerNamed
    <2>6. OwnerNamed'
      BY <1>0, <1>a, <1>31, SweepQueuedEffect DEF LoopParts, OwnerNamed, OnePlace,
          BeforeRunning, Holding, Dispatching
    <2>7. OnePlace'
      BY <1>0, <1>a, <1>31, SweepQueuedEffect, OwnershipAssumption DEF LoopParts,
          OnePlace, BeforeRunning, AfterRunning, OwnerNamed, UpIsFresh, GoneHoldNothing,
          OnePass, Holding, Dispatching, Passing
    <2> QED BY <2>1, <2>2, <2>3, <2>4, <2>5, <2>6, <2>7 DEF LoopParts
  <1>32. ASSUME SweepDelete PROVE LoopParts'
    <2>1. GoneHoldNothing'
      BY <1>0, <1>a, <1>32, SweepDeleteEffect DEF LoopParts, GoneHoldNothing
    <2>2. UpIsFresh'
      BY <1>0, <1>a, <1>32, SweepDeleteEffect DEF LoopParts, UpIsFresh
    <2>3. OnePass'
      BY <1>0, <1>a, <1>32, SweepDeleteEffect, OwnershipAssumption DEF LoopParts,
          OnePass, Passing
    <2>4. BeforeRunning'
      BY <1>0, <1>a, <1>32, SweepDeleteEffect DEF LoopParts, BeforeRunning, OnePlace
    <2>5. AfterRunning'
      BY <1>0, <1>a, <1>32, SweepDeleteEffect DEF LoopParts, AfterRunning,
          BeforeRunning, OwnerNamed
    <2>6. OwnerNamed'
      BY <1>0, <1>a, <1>32, SweepDeleteEffect DEF LoopParts, OwnerNamed, OnePlace,
          BeforeRunning, Holding, Dispatching
    <2>7. OnePlace'
      BY <1>0, <1>a, <1>32, SweepDeleteEffect, OwnershipAssumption DEF LoopParts,
          OnePlace, BeforeRunning, AfterRunning, OwnerNamed, UpIsFresh, GoneHoldNothing,
          OnePass, Holding, Dispatching, Passing
    <2> QED BY <2>1, <2>2, <2>3, <2>4, <2>5, <2>6, <2>7 DEF LoopParts
  <1>33. ASSUME HeartbeatSweep PROVE LoopParts'
    <2>1. GoneHoldNothing'
      BY <1>0, <1>a, <1>33, HeartbeatSweepEffect DEF LoopParts, GoneHoldNothing
    <2>2. UpIsFresh'
      BY <1>0, <1>a, <1>33, HeartbeatSweepEffect DEF LoopParts, UpIsFresh
    <2>3. OnePass'
      BY <1>0, <1>a, <1>33, HeartbeatSweepEffect, OwnershipAssumption DEF LoopParts,
          OnePass, Passing
    <2>4. BeforeRunning'
      BY <1>0, <1>a, <1>33, HeartbeatSweepEffect DEF LoopParts, BeforeRunning, OnePlace
    <2>5. AfterRunning'
      BY <1>0, <1>a, <1>33, HeartbeatSweepEffect DEF LoopParts, AfterRunning,
          BeforeRunning, OwnerNamed
    <2>6. OwnerNamed'
      BY <1>0, <1>a, <1>33, HeartbeatSweepEffect DEF LoopParts, OwnerNamed, OnePlace,
          BeforeRunning, Holding, Dispatching
    <2>7. OnePlace'
      BY <1>0, <1>a, <1>33, HeartbeatSweepEffect, OwnershipAssumption DEF LoopParts,
          OnePlace, BeforeRunning, AfterRunning, OwnerNamed, UpIsFresh, GoneHoldNothing,
          OnePass, Holding, Dispatching, Passing
    <2> QED BY <2>1, <2>2, <2>3, <2>4, <2>5, <2>6, <2>7 DEF LoopParts
  <1>34. ASSUME NEW r \in Runs, GoQuiet(r) PROVE LoopParts'
    <2>1. GoneHoldNothing'
      BY <1>0, <1>a, <1>34, GoQuietEffect DEF LoopParts, GoneHoldNothing
    <2>2. UpIsFresh'
      BY <1>0, <1>a, <1>34, GoQuietEffect DEF LoopParts, UpIsFresh
    <2>3. OnePass'
      BY <1>0, <1>a, <1>34, GoQuietEffect, OwnershipAssumption DEF LoopParts, OnePass,
          Passing
    <2>4. BeforeRunning'
      BY <1>0, <1>a, <1>34, GoQuietEffect DEF LoopParts, BeforeRunning, OnePlace
    <2>5. AfterRunning'
      BY <1>0, <1>a, <1>34, GoQuietEffect DEF LoopParts, AfterRunning, BeforeRunning,
          OwnerNamed
    <2>6. OwnerNamed'
      BY <1>0, <1>a, <1>34, GoQuietEffect DEF LoopParts, OwnerNamed, OnePlace,
          BeforeRunning, Holding, Dispatching
    <2>7. OnePlace'
      BY <1>0, <1>a, <1>34, GoQuietEffect, OwnershipAssumption DEF LoopParts, OnePlace,
          BeforeRunning, AfterRunning, OwnerNamed, UpIsFresh, GoneHoldNothing, OnePass,
          Holding, Dispatching, Passing
    <2> QED BY <2>1, <2>2, <2>3, <2>4, <2>5, <2>6, <2>7 DEF LoopParts
  <1>35. ASSUME UNCHANGED vars PROVE LoopParts'
    BY <1>35, <1>0 DEF vars, LoopParts, GoneHoldNothing, UpIsFresh, OnePass,
        BeforeRunning, AfterRunning, OwnerNamed, OnePlace
  <1> QED
    BY <1>0, <1>1, <1>2, <1>3, <1>4, <1>5, <1>6, <1>7, <1>8, <1>9, <1>10, <1>11, <1>12,
        <1>13, <1>14, <1>15, <1>16, <1>17, <1>18, <1>19, <1>20, <1>21, <1>22, <1>23,
        <1>24, <1>25, <1>26, <1>27, <1>28, <1>29, <1>30, <1>31, <1>32, <1>33, <1>34,
        <1>35 DEF Next, RunStep, SweepStep, LoopInv

-----------------------------------------------------------------------------
(* The records of the counts that a crash or a stop leaves behind.         *)

(* No replica booted again, none crashed with parked runs, and every       *)
(* resumed run got its owner's id.                                         *)
Calm == boots = 0 /\ ~lostParked /\ unstamped = {}

(* No replica crashed, no statement failed, every row was ended by its     *)
(* run's loop or by a resume.                                              *)
Clean == /\ crashes = 0 /\ faults = 0 /\ unstamped = {}
         /\ \A r \in Runs : row[r].error = "none"

(* Without a boot, the replicas a sweep lists stay down and stale. *)
SweptAreDown ==
    boots = 0 =>
      /\ ~doubted /\ sweep.id \notin up
      /\ \A q \in sweep.left : q \notin up /\ beat[q] = "stale" /\ sweep.id # q
      /\ sweep.pc \notin {"list", "pick"} => sweep.id \in Replicas /\ beat[sweep.id] = "stale"

(* Without a crash, nothing goes stale and no sweep runs. *)
NoSweep ==
    crashes = 0 => /\ ~doubted /\ sweep.pc = "list"
                   /\ \A p \in Replicas : beat[p] = IF p \in up THEN "fresh" ELSE "none"

(* A process owes a count for the runs it works on. *)
CountsHeld ==
    \A p \in Replicas, r \in Runs :
      /\ p \in counted[r] => at[p][r] \in {"admitting", "live", "parked", "ending", "counting"}
      /\ at[p][r] = "counting" => p \in counted[r]

(* Rows without a record of a count. *)
Unrecorded ==
    \A r \in Runs :
      /\ row[r].status \in {"none", "queued"} => ~row[r].userSlot
      /\ row[r].status # "ended" => row[r].error = "none"
      /\ ~doubted /\ r \notin unstamped => \A p \in Replicas :
            at[p][r] \in {"resumed", "counting", "dispatchGiving", "refusedGiving"}
               => ~row[r].userSlot

(* Without a boot and a failed stamp, the owner of a running row holds the *)
(* run, is down, or has given it back as paused; a resume that looks at a  *)
(* row has seen that its owner is down or itself.                          *)
OwnerKnown ==
    boots = 0 /\ unstamped = {} => \A r \in Runs :
      row[r].status = "running" =>
        /\ row[r].owner \in Replicas
        /\ \A p \in Replicas :
              /\ p \in up /\ row[r].owner = p =>
                    /\ at[p][r] \in Holding \/ row[r].paused
                    /\ row[r].paused => at[p][r] \in {"parked", "none", "checked"}
              /\ at[p][r] = "checked" => row[r].owner = p \/ row[r].owner \notin up

(* The owner of a parked row, or of one another process has claimed,       *)
(* stopped cleanly, when it is down.                                       *)
OwnerStopped ==
    Calm => \A r \in Runs, o \in Replicas :
      row[r].owner = o =>
        /\ row[r].status = "running" /\ row[r].paused /\ o \notin up => beat[o] = "none"
        /\ \A p \in Replicas : at[p][r] = "claimed" /\ p # o => o \notin up /\ beat[o] = "none"

(* The rows a sweep failed are over, and all of their owner's are. *)
DiedSettled ==
    Calm => \A r \in Runs :
      row[r].error = Died =>
        /\ row[r].status = "ended" /\ row[r].owner \notin up
        /\ \A p \in Replicas : at[p][r] \in {"none", "checked"}
        /\ \A s \in Runs : row[s].status = "running" => row[s].owner # row[r].owner

(* Where nothing goes wrong, every count is held and recorded. *)
CleanCounted ==
    Clean => \A p \in Replicas, r \in Runs :
      /\ at[p][r] \in {"admitting", "live", "parked", "counting"} => p \in counted[r]
      /\ at[p][r] \in {"live", "parked"} => row[r].userSlot
      /\ at[p][r] \in {"live", "parked"} \cup Dispatching => row[r].status = "running"

RecordParts == /\ SweptAreDown /\ NoSweep /\ CountsHeld /\ Unrecorded
               /\ OwnerKnown /\ OwnerStopped /\ DiedSettled /\ CleanCounted

RecordInv == LoopInv /\ RecordParts

(* Every step keeps what the invariant says of the records. *)
LEMMA RecordStep == RecordInv /\ [Next]_vars => RecordInv'
  <1> SUFFICES ASSUME RecordInv, [Next]_vars PROVE RecordInv'
    OBVIOUS
  <1> USE DEF Moved, SamePlaces, SameRow, SameRows, OtherRowsKept, ClusterKept, HistoryKept
  <1>0. TypeOK /\ LoopInv' /\ LoopParts /\ RecordParts
    BY LoopStep DEF RecordInv, LoopInv
  <1>a. /\ up \subseteq Replicas
        /\ \A s \in Runs : row[s].status \in {"none", "queued", "running", "ended"}
        /\ sweep.left \subseteq Replicas /\ sweep.id \in Replicas \cup {NoReplica}
        /\ boots \in Nat /\ faults \in Nat /\ crashes \in Nat
        /\ \A s \in Runs : counted[s] \subseteq Replicas
    BY <1>0, OwnershipAssumption DEF TypeOK, Rows
  <1>1. ASSUME NEW p \in Replicas, NEW r \in Runs, AdmitUser(p, r) PROVE RecordParts'
    <2>1. SweptAreDown'
      BY <1>0, <1>a, <1>1, AdmitUserEffect, OwnershipAssumption DEF LoopParts,
          RecordParts, SweptAreDown, UpIsFresh, Idle
    <2>2. NoSweep'
      BY <1>0, <1>a, <1>1, AdmitUserEffect, OwnershipAssumption DEF LoopParts,
          RecordParts, NoSweep, Idle
    <2>3. CountsHeld'
      BY <1>0, <1>a, <1>1, AdmitUserEffect, OwnershipAssumption DEF LoopParts,
          RecordParts, CountsHeld, GoneHoldNothing, Takes, GivesUp
    <2>4. Unrecorded'
      BY <1>0, <1>a, <1>1, AdmitUserEffect, OwnershipAssumption DEF LoopParts,
          RecordParts, Unrecorded, BeforeRunning, OnePlace, OwnerNamed
    <2>5. OwnerKnown'
      BY <1>0, <1>a, <1>1, AdmitUserEffect, OwnershipAssumption DEF LoopParts,
          RecordParts, OwnerKnown, Holding, Dispatching, SweptAreDown, BeforeRunning,
          OnePlace, OwnerNamed
    <2>6. OwnerStopped'
      BY <1>0, <1>a, <1>1, AdmitUserEffect, OwnershipAssumption DEF LoopParts,
          RecordParts, OwnerStopped, Calm, SweptAreDown, OwnerKnown, OwnerNamed,
          OnePlace, BeforeRunning, Holding, Dispatching
    <2>7. DiedSettled'
      BY <1>0, <1>a, <1>1, AdmitUserEffect, OwnershipAssumption DEF LoopParts,
          RecordParts, DiedSettled, Calm, SweptAreDown, OwnerStopped, OwnerKnown,
          OwnerNamed, Unrecorded, AfterRunning, BeforeRunning, Died
    <2>8. CleanCounted'
      BY <1>0, <1>a, <1>1, AdmitUserEffect, OwnershipAssumption DEF LoopParts,
          RecordParts, CleanCounted, Clean, NoSweep, Unrecorded, OnePlace,
          BeforeRunning, CountsHeld, Died, Dispatching, Takes, GivesUp
    <2> QED BY <2>1, <2>2, <2>3, <2>4, <2>5, <2>6, <2>7, <2>8 DEF RecordParts
  <1>2. ASSUME NEW p \in Replicas, NEW r \in Runs, QueueForUser(p, r) PROVE RecordParts'
    <2>1. SweptAreDown'
      BY <1>0, <1>a, <1>2, QueueForUserEffect, OwnershipAssumption DEF LoopParts,
          RecordParts, SweptAreDown, UpIsFresh, Idle
    <2>2. NoSweep'
      BY <1>0, <1>a, <1>2, QueueForUserEffect, OwnershipAssumption DEF LoopParts,
          RecordParts, NoSweep, Idle
    <2>3. CountsHeld'
      BY <1>0, <1>a, <1>2, QueueForUserEffect, OwnershipAssumption DEF LoopParts,
          RecordParts, CountsHeld, GoneHoldNothing, Takes, GivesUp
    <2>4. Unrecorded'
      BY <1>0, <1>a, <1>2, QueueForUserEffect, OwnershipAssumption DEF LoopParts,
          RecordParts, Unrecorded, BeforeRunning, OnePlace, OwnerNamed
    <2>5. OwnerKnown'
      BY <1>0, <1>a, <1>2, QueueForUserEffect, OwnershipAssumption DEF LoopParts,
          RecordParts, OwnerKnown, Holding, Dispatching, SweptAreDown, BeforeRunning,
          OnePlace, OwnerNamed
    <2>6. OwnerStopped'
      BY <1>0, <1>a, <1>2, QueueForUserEffect, OwnershipAssumption DEF LoopParts,
          RecordParts, OwnerStopped, Calm, SweptAreDown, OwnerKnown, OwnerNamed,
          OnePlace, BeforeRunning, Holding, Dispatching
    <2>7. DiedSettled'
      BY <1>0, <1>a, <1>2, QueueForUserEffect, OwnershipAssumption DEF LoopParts,
          RecordParts, DiedSettled, Calm, SweptAreDown, OwnerStopped, OwnerKnown,
          OwnerNamed, Unrecorded, AfterRunning, BeforeRunning, Died
    <2>8. CleanCounted'
      BY <1>0, <1>a, <1>2, QueueForUserEffect, OwnershipAssumption DEF LoopParts,
          RecordParts, CleanCounted, Clean, NoSweep, Unrecorded, OnePlace,
          BeforeRunning, CountsHeld, Died, Dispatching, Takes, GivesUp
    <2> QED BY <2>1, <2>2, <2>3, <2>4, <2>5, <2>6, <2>7, <2>8 DEF RecordParts
  <1>3. ASSUME NEW p \in Replicas, NEW r \in Runs, QueueForSlot(p, r) PROVE RecordParts'
    <2>1. SweptAreDown'
      BY <1>0, <1>a, <1>3, QueueForSlotEffect, OwnershipAssumption DEF LoopParts,
          RecordParts, SweptAreDown, UpIsFresh, Idle
    <2>2. NoSweep'
      BY <1>0, <1>a, <1>3, QueueForSlotEffect, OwnershipAssumption DEF LoopParts,
          RecordParts, NoSweep, Idle
    <2>3. CountsHeld'
      BY <1>0, <1>a, <1>3, QueueForSlotEffect, OwnershipAssumption DEF LoopParts,
          RecordParts, CountsHeld, GoneHoldNothing, Takes, GivesUp
    <2>4. Unrecorded'
      BY <1>0, <1>a, <1>3, QueueForSlotEffect, OwnershipAssumption DEF LoopParts,
          RecordParts, Unrecorded, BeforeRunning, OnePlace, OwnerNamed
    <2>5. OwnerKnown'
      BY <1>0, <1>a, <1>3, QueueForSlotEffect, OwnershipAssumption DEF LoopParts,
          RecordParts, OwnerKnown, Holding, Dispatching, SweptAreDown, BeforeRunning,
          OnePlace, OwnerNamed
    <2>6. OwnerStopped'
      BY <1>0, <1>a, <1>3, QueueForSlotEffect, OwnershipAssumption DEF LoopParts,
          RecordParts, OwnerStopped, Calm, SweptAreDown, OwnerKnown, OwnerNamed,
          OnePlace, BeforeRunning, Holding, Dispatching
    <2>7. DiedSettled'
      BY <1>0, <1>a, <1>3, QueueForSlotEffect, OwnershipAssumption DEF LoopParts,
          RecordParts, DiedSettled, Calm, SweptAreDown, OwnerStopped, OwnerKnown,
          OwnerNamed, Unrecorded, AfterRunning, BeforeRunning, Died
    <2>8. CleanCounted'
      BY <1>0, <1>a, <1>3, QueueForSlotEffect, OwnershipAssumption DEF LoopParts,
          RecordParts, CleanCounted, Clean, NoSweep, Unrecorded, OnePlace,
          BeforeRunning, CountsHeld, Died, Dispatching, Takes, GivesUp
    <2> QED BY <2>1, <2>2, <2>3, <2>4, <2>5, <2>6, <2>7, <2>8 DEF RecordParts
  <1>4. ASSUME NEW p \in Replicas, NEW r \in Runs, Park(p, r) PROVE RecordParts'
    <2>1. SweptAreDown'
      BY <1>0, <1>a, <1>4, ParkEffect, OwnershipAssumption DEF LoopParts, RecordParts,
          SweptAreDown, UpIsFresh, Idle
    <2>2. NoSweep'
      BY <1>0, <1>a, <1>4, ParkEffect, OwnershipAssumption DEF LoopParts, RecordParts,
          NoSweep, Idle
    <2>3. CountsHeld'
      BY <1>0, <1>a, <1>4, ParkEffect, OwnershipAssumption DEF LoopParts, RecordParts,
          CountsHeld, GoneHoldNothing, Takes, GivesUp
    <2>4. Unrecorded'
      BY <1>0, <1>a, <1>4, ParkEffect, OwnershipAssumption DEF LoopParts, RecordParts,
          Unrecorded, BeforeRunning, OnePlace, OwnerNamed
    <2>5. OwnerKnown'
      BY <1>0, <1>a, <1>4, ParkEffect, OwnershipAssumption DEF LoopParts, RecordParts,
          OwnerKnown, Holding, Dispatching, SweptAreDown, BeforeRunning, OnePlace,
          OwnerNamed
    <2>6. OwnerStopped'
      BY <1>0, <1>a, <1>4, ParkEffect, OwnershipAssumption DEF LoopParts, RecordParts,
          OwnerStopped, Calm, SweptAreDown, OwnerKnown, OwnerNamed, OnePlace,
          BeforeRunning, Holding, Dispatching
    <2>7. DiedSettled'
      BY <1>0, <1>a, <1>4, ParkEffect, OwnershipAssumption DEF LoopParts, RecordParts,
          DiedSettled, Calm, SweptAreDown, OwnerStopped, OwnerKnown, OwnerNamed,
          Unrecorded, AfterRunning, BeforeRunning, Died
    <2>8. CleanCounted'
      BY <1>0, <1>a, <1>4, ParkEffect, OwnershipAssumption DEF LoopParts, RecordParts,
          CleanCounted, Clean, NoSweep, Unrecorded, OnePlace, BeforeRunning, CountsHeld,
          Died, Dispatching, Takes, GivesUp
    <2> QED BY <2>1, <2>2, <2>3, <2>4, <2>5, <2>6, <2>7, <2>8 DEF RecordParts
  <1>5. ASSUME NEW p \in Replicas, NEW r \in Runs, Check(p, r) PROVE RecordParts'
    <2>1. SweptAreDown'
      BY <1>0, <1>a, <1>5, CheckEffect, OwnershipAssumption DEF LoopParts, RecordParts,
          SweptAreDown, UpIsFresh, Idle
    <2>2. NoSweep'
      BY <1>0, <1>a, <1>5, CheckEffect, OwnershipAssumption DEF LoopParts, RecordParts,
          NoSweep, Idle
    <2>3. CountsHeld'
      BY <1>0, <1>a, <1>5, CheckEffect, OwnershipAssumption DEF LoopParts, RecordParts,
          CountsHeld, GoneHoldNothing, Takes, GivesUp
    <2>4. Unrecorded'
      BY <1>0, <1>a, <1>5, CheckEffect, OwnershipAssumption DEF LoopParts, RecordParts,
          Unrecorded, BeforeRunning, OnePlace, OwnerNamed
    <2>5. OwnerKnown'
      <3> SUFFICES ASSUME boots = 0, unstamped = {}, NEW s \in Runs, row[s].status = "running"
                   PROVE  /\ row[s].owner \in Replicas
                          /\ \A q \in Replicas :
                                /\ q \in up /\ row[s].owner = q =>
                                      /\ at'[q][s] \in Holding \/ row[s].paused
                                      /\ row[s].paused => at'[q][s] \in {"parked", "none", "checked"}
                                /\ at'[q][s] = "checked" => row[s].owner = q \/ row[s].owner \notin up
        BY <1>0, <1>5, CheckEffect DEF OwnerKnown
      <3>1. ~doubted
        BY <1>0 DEF RecordParts, SweptAreDown
      <3>2. /\ row[s].owner \in Replicas
            /\ \A q \in Replicas :
                  /\ q \in up /\ row[s].owner = q =>
                        /\ at[q][s] \in Holding \/ row[s].paused
                        /\ row[s].paused => at[q][s] \in {"parked", "none", "checked"}
                  /\ at[q][s] = "checked" => row[s].owner = q \/ row[s].owner \notin up
        BY <1>0 DEF RecordParts, OwnerKnown
      <3>3. CASE s # r
        BY <1>0, <1>5, <3>2, <3>3, CheckEffect
      <3>4. CASE s = r
        <4>1. row[r].owner = p \/ row[r].owner \notin up
          BY <1>0, <1>5, <3>1, <3>2, <3>4, CheckEffect, OwnershipAssumption
             DEF LoopParts, UpIsFresh, IsLive
        <4>2. row[r].paused /\ at'[p][r] = "checked"
          BY <1>0, <1>5, CheckEffect
        <4>3. \A q \in Replicas : q # p => at'[q][r] = at[q][r]
          BY <1>0, <1>5, CheckEffect
        <4> QED BY <3>2, <3>4, <4>1, <4>2, <4>3
      <3> QED BY <3>3, <3>4
    <2>6. OwnerStopped'
      BY <1>0, <1>a, <1>5, CheckEffect, OwnershipAssumption DEF LoopParts, RecordParts,
          OwnerStopped, Calm, SweptAreDown, OwnerKnown, OwnerNamed, OnePlace,
          BeforeRunning, Holding, Dispatching
    <2>7. DiedSettled'
      BY <1>0, <1>a, <1>5, CheckEffect, OwnershipAssumption DEF LoopParts, RecordParts,
          DiedSettled, Calm, SweptAreDown, OwnerStopped, OwnerKnown, OwnerNamed,
          Unrecorded, AfterRunning, BeforeRunning, Died
    <2>8. CleanCounted'
      BY <1>0, <1>a, <1>5, CheckEffect, OwnershipAssumption DEF LoopParts, RecordParts,
          CleanCounted, Clean, NoSweep, Unrecorded, OnePlace, BeforeRunning, CountsHeld,
          Died, Dispatching, Takes, GivesUp
    <2> QED BY <2>1, <2>2, <2>3, <2>4, <2>5, <2>6, <2>7, <2>8 DEF RecordParts
  <1>6. ASSUME NEW p \in Replicas, NEW r \in Runs, Unclaim(p, r) PROVE RecordParts'
    <2>1. SweptAreDown'
      BY <1>0, <1>a, <1>6, UnclaimEffect, OwnershipAssumption DEF LoopParts,
          RecordParts, SweptAreDown, UpIsFresh, Idle
    <2>2. NoSweep'
      BY <1>0, <1>a, <1>6, UnclaimEffect, OwnershipAssumption DEF LoopParts,
          RecordParts, NoSweep, Idle
    <2>3. CountsHeld'
      BY <1>0, <1>a, <1>6, UnclaimEffect, OwnershipAssumption DEF LoopParts,
          RecordParts, CountsHeld, GoneHoldNothing, Takes, GivesUp
    <2>4. Unrecorded'
      BY <1>0, <1>a, <1>6, UnclaimEffect, OwnershipAssumption DEF LoopParts,
          RecordParts, Unrecorded, BeforeRunning, OnePlace, OwnerNamed
    <2>5. OwnerKnown'
      BY <1>0, <1>a, <1>6, UnclaimEffect, OwnershipAssumption DEF LoopParts,
          RecordParts, OwnerKnown, Holding, Dispatching, SweptAreDown, BeforeRunning,
          OnePlace, OwnerNamed
    <2>6. OwnerStopped'
      BY <1>0, <1>a, <1>6, UnclaimEffect, OwnershipAssumption DEF LoopParts,
          RecordParts, OwnerStopped, Calm, SweptAreDown, OwnerKnown, OwnerNamed,
          OnePlace, BeforeRunning, Holding, Dispatching
    <2>7. DiedSettled'
      BY <1>0, <1>a, <1>6, UnclaimEffect, OwnershipAssumption DEF LoopParts,
          RecordParts, DiedSettled, Calm, SweptAreDown, OwnerStopped, OwnerKnown,
          OwnerNamed, Unrecorded, AfterRunning, BeforeRunning, Died
    <2>8. CleanCounted'
      BY <1>0, <1>a, <1>6, UnclaimEffect, OwnershipAssumption DEF LoopParts,
          RecordParts, CleanCounted, Clean, NoSweep, Unrecorded, OnePlace,
          BeforeRunning, CountsHeld, Died, Dispatching, Takes, GivesUp
    <2> QED BY <2>1, <2>2, <2>3, <2>4, <2>5, <2>6, <2>7, <2>8 DEF RecordParts
  <1>7. ASSUME NEW p \in Replicas, NEW r \in Runs, Refuse(p, r) PROVE RecordParts'
    <2>1. SweptAreDown'
      BY <1>0, <1>a, <1>7, RefuseEffect, OwnershipAssumption DEF LoopParts, RecordParts,
          SweptAreDown, UpIsFresh, Idle
    <2>2. NoSweep'
      BY <1>0, <1>a, <1>7, RefuseEffect, OwnershipAssumption DEF LoopParts, RecordParts,
          NoSweep, Idle
    <2>3. CountsHeld'
      BY <1>0, <1>a, <1>7, RefuseEffect, OwnershipAssumption DEF LoopParts, RecordParts,
          CountsHeld, GoneHoldNothing, Takes, GivesUp
    <2>4. Unrecorded'
      BY <1>0, <1>a, <1>7, RefuseEffect, OwnershipAssumption DEF LoopParts, RecordParts,
          Unrecorded, BeforeRunning, OnePlace, OwnerNamed
    <2>5. OwnerKnown'
      BY <1>0, <1>a, <1>7, RefuseEffect, OwnershipAssumption DEF LoopParts, RecordParts,
          OwnerKnown, Holding, Dispatching, SweptAreDown, BeforeRunning, OnePlace,
          OwnerNamed
    <2>6. OwnerStopped'
      BY <1>0, <1>a, <1>7, RefuseEffect, OwnershipAssumption DEF LoopParts, RecordParts,
          OwnerStopped, Calm, SweptAreDown, OwnerKnown, OwnerNamed, OnePlace,
          BeforeRunning, Holding, Dispatching
    <2>7. DiedSettled'
      BY <1>0, <1>a, <1>7, RefuseEffect, OwnershipAssumption DEF LoopParts, RecordParts,
          DiedSettled, Calm, SweptAreDown, OwnerStopped, OwnerKnown, OwnerNamed,
          Unrecorded, AfterRunning, BeforeRunning, Died
    <2>8. CleanCounted'
      BY <1>0, <1>a, <1>7, RefuseEffect, OwnershipAssumption DEF LoopParts, RecordParts,
          CleanCounted, Clean, NoSweep, Unrecorded, OnePlace, BeforeRunning, CountsHeld,
          Died, Dispatching, Takes, GivesUp
    <2> QED BY <2>1, <2>2, <2>3, <2>4, <2>5, <2>6, <2>7, <2>8 DEF RecordParts
  <1>8. ASSUME NEW p \in Replicas, NEW r \in Runs, CancelUnheld(p, r) PROVE RecordParts'
    <2>1. SweptAreDown'
      BY <1>0, <1>a, <1>8, CancelUnheldEffect, OwnershipAssumption DEF LoopParts,
          RecordParts, SweptAreDown, UpIsFresh, Idle
    <2>2. NoSweep'
      BY <1>0, <1>a, <1>8, CancelUnheldEffect, OwnershipAssumption DEF LoopParts,
          RecordParts, NoSweep, Idle
    <2>3. CountsHeld'
      BY <1>0, <1>a, <1>8, CancelUnheldEffect, OwnershipAssumption DEF LoopParts,
          RecordParts, CountsHeld, GoneHoldNothing, Takes, GivesUp
    <2>4. Unrecorded'
      BY <1>0, <1>a, <1>8, CancelUnheldEffect, OwnershipAssumption DEF LoopParts,
          RecordParts, Unrecorded, BeforeRunning, OnePlace, OwnerNamed
    <2>5. OwnerKnown'
      BY <1>0, <1>a, <1>8, CancelUnheldEffect, OwnershipAssumption DEF LoopParts,
          RecordParts, OwnerKnown, Holding, Dispatching, SweptAreDown, BeforeRunning,
          OnePlace, OwnerNamed
    <2>6. OwnerStopped'
      BY <1>0, <1>a, <1>8, CancelUnheldEffect, OwnershipAssumption DEF LoopParts,
          RecordParts, OwnerStopped, Calm, SweptAreDown, OwnerKnown, OwnerNamed,
          OnePlace, BeforeRunning, Holding, Dispatching
    <2>7. DiedSettled'
      BY <1>0, <1>a, <1>8, CancelUnheldEffect, OwnershipAssumption DEF LoopParts,
          RecordParts, DiedSettled, Calm, SweptAreDown, OwnerStopped, OwnerKnown,
          OwnerNamed, Unrecorded, AfterRunning, BeforeRunning, Died
    <2>8. CleanCounted'
      BY <1>0, <1>a, <1>8, CancelUnheldEffect, OwnershipAssumption DEF LoopParts,
          RecordParts, CleanCounted, Clean, NoSweep, Unrecorded, OnePlace,
          BeforeRunning, CountsHeld, Died, Dispatching, Takes, GivesUp
    <2> QED BY <2>1, <2>2, <2>3, <2>4, <2>5, <2>6, <2>7, <2>8 DEF RecordParts
  <1>9. ASSUME NEW p \in Replicas, NEW r \in Runs, PollUser(p, r) PROVE RecordParts'
    <2>1. SweptAreDown'
      BY <1>0, <1>a, <1>9, PollUserEffect, OwnershipAssumption DEF LoopParts,
          RecordParts, SweptAreDown, UpIsFresh, Idle
    <2>2. NoSweep'
      BY <1>0, <1>a, <1>9, PollUserEffect, OwnershipAssumption DEF LoopParts,
          RecordParts, NoSweep, Idle
    <2>3. CountsHeld'
      BY <1>0, <1>a, <1>9, PollUserEffect, OwnershipAssumption DEF LoopParts,
          RecordParts, CountsHeld, GoneHoldNothing, Takes, GivesUp
    <2>4. Unrecorded'
      BY <1>0, <1>a, <1>9, PollUserEffect, OwnershipAssumption DEF LoopParts,
          RecordParts, Unrecorded, BeforeRunning, OnePlace, OwnerNamed
    <2>5. OwnerKnown'
      BY <1>0, <1>a, <1>9, PollUserEffect, OwnershipAssumption DEF LoopParts,
          RecordParts, OwnerKnown, Holding, Dispatching, SweptAreDown, BeforeRunning,
          OnePlace, OwnerNamed
    <2>6. OwnerStopped'
      BY <1>0, <1>a, <1>9, PollUserEffect, OwnershipAssumption DEF LoopParts,
          RecordParts, OwnerStopped, Calm, SweptAreDown, OwnerKnown, OwnerNamed,
          OnePlace, BeforeRunning, Holding, Dispatching
    <2>7. DiedSettled'
      BY <1>0, <1>a, <1>9, PollUserEffect, OwnershipAssumption DEF LoopParts,
          RecordParts, DiedSettled, Calm, SweptAreDown, OwnerStopped, OwnerKnown,
          OwnerNamed, Unrecorded, AfterRunning, BeforeRunning, Died
    <2>8. CleanCounted'
      BY <1>0, <1>a, <1>9, PollUserEffect, OwnershipAssumption DEF LoopParts,
          RecordParts, CleanCounted, Clean, NoSweep, Unrecorded, OnePlace,
          BeforeRunning, CountsHeld, Died, Dispatching, Takes, GivesUp
    <2> QED BY <2>1, <2>2, <2>3, <2>4, <2>5, <2>6, <2>7, <2>8 DEF RecordParts
  <1>10. ASSUME NEW p \in Replicas, NEW r \in Runs, StartRun(p, r) PROVE RecordParts'
    <2>1. SweptAreDown'
      BY <1>0, <1>a, <1>10, StartRunEffect, OwnershipAssumption DEF LoopParts,
          RecordParts, SweptAreDown, UpIsFresh, Idle
    <2>2. NoSweep'
      BY <1>0, <1>a, <1>10, StartRunEffect, OwnershipAssumption DEF LoopParts,
          RecordParts, NoSweep, Idle
    <2>3. CountsHeld'
      BY <1>0, <1>a, <1>10, StartRunEffect, OwnershipAssumption DEF LoopParts,
          RecordParts, CountsHeld, GoneHoldNothing, Takes, GivesUp
    <2>4. Unrecorded'
      BY <1>0, <1>a, <1>10, StartRunEffect, OwnershipAssumption DEF LoopParts,
          RecordParts, Unrecorded, BeforeRunning, OnePlace, OwnerNamed
    <2>5. OwnerKnown'
      BY <1>0, <1>a, <1>10, StartRunEffect, OwnershipAssumption DEF LoopParts,
          RecordParts, OwnerKnown, Holding, Dispatching, SweptAreDown, BeforeRunning,
          OnePlace, OwnerNamed
    <2>6. OwnerStopped'
      BY <1>0, <1>a, <1>10, StartRunEffect, OwnershipAssumption DEF LoopParts,
          RecordParts, OwnerStopped, Calm, SweptAreDown, OwnerKnown, OwnerNamed,
          OnePlace, BeforeRunning, Holding, Dispatching
    <2>7. DiedSettled'
      BY <1>0, <1>a, <1>10, StartRunEffect, OwnershipAssumption DEF LoopParts,
          RecordParts, DiedSettled, Calm, SweptAreDown, OwnerStopped, OwnerKnown,
          OwnerNamed, Unrecorded, AfterRunning, BeforeRunning, Died
    <2>8. CleanCounted'
      BY <1>0, <1>a, <1>10, StartRunEffect, OwnershipAssumption DEF LoopParts,
          RecordParts, CleanCounted, Clean, NoSweep, Unrecorded, OnePlace,
          BeforeRunning, CountsHeld, Died, Dispatching, Takes, GivesUp
    <2> QED BY <2>1, <2>2, <2>3, <2>4, <2>5, <2>6, <2>7, <2>8 DEF RecordParts
  <1>11. ASSUME NEW p \in Replicas, NEW r \in Runs, EndLoop(p, r) PROVE RecordParts'
    <2>1. SweptAreDown'
      BY <1>0, <1>a, <1>11, EndLoopEffect, OwnershipAssumption DEF LoopParts,
          RecordParts, SweptAreDown, UpIsFresh, Idle
    <2>2. NoSweep'
      BY <1>0, <1>a, <1>11, EndLoopEffect, OwnershipAssumption DEF LoopParts,
          RecordParts, NoSweep, Idle
    <2>3. CountsHeld'
      BY <1>0, <1>a, <1>11, EndLoopEffect, OwnershipAssumption DEF LoopParts,
          RecordParts, CountsHeld, GoneHoldNothing, Takes, GivesUp
    <2>4. Unrecorded'
      BY <1>0, <1>a, <1>11, EndLoopEffect, OwnershipAssumption DEF LoopParts,
          RecordParts, Unrecorded, BeforeRunning, OnePlace, OwnerNamed
    <2>5. OwnerKnown'
      BY <1>0, <1>a, <1>11, EndLoopEffect, OwnershipAssumption DEF LoopParts,
          RecordParts, OwnerKnown, Holding, Dispatching, SweptAreDown, BeforeRunning,
          OnePlace, OwnerNamed
    <2>6. OwnerStopped'
      BY <1>0, <1>a, <1>11, EndLoopEffect, OwnershipAssumption DEF LoopParts,
          RecordParts, OwnerStopped, Calm, SweptAreDown, OwnerKnown, OwnerNamed,
          OnePlace, BeforeRunning, Holding, Dispatching
    <2>7. DiedSettled'
      BY <1>0, <1>a, <1>11, EndLoopEffect, OwnershipAssumption DEF LoopParts,
          RecordParts, DiedSettled, Calm, SweptAreDown, OwnerStopped, OwnerKnown,
          OwnerNamed, Unrecorded, AfterRunning, BeforeRunning, Died
    <2>8. CleanCounted'
      BY <1>0, <1>a, <1>11, EndLoopEffect, OwnershipAssumption DEF LoopParts,
          RecordParts, CleanCounted, Clean, NoSweep, Unrecorded, OnePlace,
          BeforeRunning, CountsHeld, Died, Dispatching, Takes, GivesUp
    <2> QED BY <2>1, <2>2, <2>3, <2>4, <2>5, <2>6, <2>7, <2>8 DEF RecordParts
  <1>12. ASSUME NEW p \in Replicas, NEW r \in Runs, ReleaseUser(p, r) PROVE RecordParts'
    <2>1. SweptAreDown'
      BY <1>0, <1>a, <1>12, ReleaseUserEffect, OwnershipAssumption DEF LoopParts,
          RecordParts, SweptAreDown, UpIsFresh, Idle
    <2>2. NoSweep'
      BY <1>0, <1>a, <1>12, ReleaseUserEffect, OwnershipAssumption DEF LoopParts,
          RecordParts, NoSweep, Idle
    <2>3. CountsHeld'
      BY <1>0, <1>a, <1>12, ReleaseUserEffect, OwnershipAssumption DEF LoopParts,
          RecordParts, CountsHeld, GoneHoldNothing, Takes, GivesUp
    <2>4. Unrecorded'
      BY <1>0, <1>a, <1>12, ReleaseUserEffect, OwnershipAssumption DEF LoopParts,
          RecordParts, Unrecorded, BeforeRunning, OnePlace, OwnerNamed
    <2>5. OwnerKnown'
      BY <1>0, <1>a, <1>12, ReleaseUserEffect, OwnershipAssumption DEF LoopParts,
          RecordParts, OwnerKnown, Holding, Dispatching, SweptAreDown, BeforeRunning,
          OnePlace, OwnerNamed
    <2>6. OwnerStopped'
      BY <1>0, <1>a, <1>12, ReleaseUserEffect, OwnershipAssumption DEF LoopParts,
          RecordParts, OwnerStopped, Calm, SweptAreDown, OwnerKnown, OwnerNamed,
          OnePlace, BeforeRunning, Holding, Dispatching
    <2>7. DiedSettled'
      BY <1>0, <1>a, <1>12, ReleaseUserEffect, OwnershipAssumption DEF LoopParts,
          RecordParts, DiedSettled, Calm, SweptAreDown, OwnerStopped, OwnerKnown,
          OwnerNamed, Unrecorded, AfterRunning, BeforeRunning, Died
    <2>8. CleanCounted'
      BY <1>0, <1>a, <1>12, ReleaseUserEffect, OwnershipAssumption DEF LoopParts,
          RecordParts, CleanCounted, Clean, NoSweep, Unrecorded, OnePlace,
          BeforeRunning, CountsHeld, Died, Dispatching, Takes, GivesUp
    <2> QED BY <2>1, <2>2, <2>3, <2>4, <2>5, <2>6, <2>7, <2>8 DEF RecordParts
  <1>13. ASSUME NEW p \in Replicas, NEW r \in Runs, Unpark(p, r) PROVE RecordParts'
    <2>1. SweptAreDown'
      BY <1>0, <1>a, <1>13, UnparkEffect, OwnershipAssumption DEF LoopParts,
          RecordParts, SweptAreDown, UpIsFresh, Idle
    <2>2. NoSweep'
      BY <1>0, <1>a, <1>13, UnparkEffect, OwnershipAssumption DEF LoopParts,
          RecordParts, NoSweep, Idle
    <2>3. CountsHeld'
      BY <1>0, <1>a, <1>13, UnparkEffect, OwnershipAssumption DEF LoopParts,
          RecordParts, CountsHeld, GoneHoldNothing, Takes, GivesUp
    <2>4. Unrecorded'
      BY <1>0, <1>a, <1>13, UnparkEffect, OwnershipAssumption DEF LoopParts,
          RecordParts, Unrecorded, BeforeRunning, OnePlace, OwnerNamed
    <2>5. OwnerKnown'
      BY <1>0, <1>a, <1>13, UnparkEffect, OwnershipAssumption DEF LoopParts,
          RecordParts, OwnerKnown, Holding, Dispatching, SweptAreDown, BeforeRunning,
          OnePlace, OwnerNamed
    <2>6. OwnerStopped'
      BY <1>0, <1>a, <1>13, UnparkEffect, OwnershipAssumption DEF LoopParts,
          RecordParts, OwnerStopped, Calm, SweptAreDown, OwnerKnown, OwnerNamed,
          OnePlace, BeforeRunning, Holding, Dispatching
    <2>7. DiedSettled'
      BY <1>0, <1>a, <1>13, UnparkEffect, OwnershipAssumption DEF LoopParts,
          RecordParts, DiedSettled, Calm, SweptAreDown, OwnerStopped, OwnerKnown,
          OwnerNamed, Unrecorded, AfterRunning, BeforeRunning, Died
    <2>8. CleanCounted'
      BY <1>0, <1>a, <1>13, UnparkEffect, OwnershipAssumption DEF LoopParts,
          RecordParts, CleanCounted, Clean, NoSweep, Unrecorded, OnePlace,
          BeforeRunning, CountsHeld, Died, Dispatching, Takes, GivesUp
    <2> QED BY <2>1, <2>2, <2>3, <2>4, <2>5, <2>6, <2>7, <2>8 DEF RecordParts
  <1>14. ASSUME NEW p \in Replicas, NEW r \in Runs, Claim(p, r) PROVE RecordParts'
    <2>1. SweptAreDown'
      BY <1>0, <1>a, <1>14, ClaimEffect, OwnershipAssumption DEF LoopParts, RecordParts,
          SweptAreDown, UpIsFresh, Idle
    <2>2. NoSweep'
      BY <1>0, <1>a, <1>14, ClaimEffect, OwnershipAssumption DEF LoopParts, RecordParts,
          NoSweep, Idle
    <2>3. CountsHeld'
      BY <1>0, <1>a, <1>14, ClaimEffect, OwnershipAssumption DEF LoopParts, RecordParts,
          CountsHeld, GoneHoldNothing, Takes, GivesUp
    <2>4. Unrecorded'
      BY <1>0, <1>a, <1>14, ClaimEffect, OwnershipAssumption DEF LoopParts, RecordParts,
          Unrecorded, BeforeRunning, OnePlace, OwnerNamed
    <2>5. OwnerKnown'
      BY <1>0, <1>a, <1>14, ClaimEffect, OwnershipAssumption DEF LoopParts, RecordParts,
          OwnerKnown, Holding, Dispatching, SweptAreDown, BeforeRunning, OnePlace,
          OwnerNamed
    <2>6. OwnerStopped'
      BY <1>0, <1>a, <1>14, ClaimEffect, OwnershipAssumption DEF LoopParts, RecordParts,
          OwnerStopped, Calm, SweptAreDown, OwnerKnown, OwnerNamed, OnePlace,
          BeforeRunning, Holding, Dispatching
    <2>7. DiedSettled'
      BY <1>0, <1>a, <1>14, ClaimEffect, OwnershipAssumption DEF LoopParts, RecordParts,
          DiedSettled, Calm, SweptAreDown, OwnerStopped, OwnerKnown, OwnerNamed,
          Unrecorded, AfterRunning, BeforeRunning, Died
    <2>8. CleanCounted'
      BY <1>0, <1>a, <1>14, ClaimEffect, OwnershipAssumption DEF LoopParts, RecordParts,
          CleanCounted, Clean, NoSweep, Unrecorded, OnePlace, BeforeRunning, CountsHeld,
          Died, Dispatching, Takes, GivesUp
    <2> QED BY <2>1, <2>2, <2>3, <2>4, <2>5, <2>6, <2>7, <2>8 DEF RecordParts
  <1>15. ASSUME NEW p \in Replicas, NEW r \in Runs, Stamp(p, r) PROVE RecordParts'
    <2>1. SweptAreDown'
      BY <1>0, <1>a, <1>15, StampEffect, OwnershipAssumption DEF LoopParts, RecordParts,
          SweptAreDown, UpIsFresh, Idle
    <2>2. NoSweep'
      BY <1>0, <1>a, <1>15, StampEffect, OwnershipAssumption DEF LoopParts, RecordParts,
          NoSweep, Idle
    <2>3. CountsHeld'
      BY <1>0, <1>a, <1>15, StampEffect, OwnershipAssumption DEF LoopParts, RecordParts,
          CountsHeld, GoneHoldNothing, Takes, GivesUp
    <2>4. Unrecorded'
      <3>1. /\ unstamped \subseteq unstamped' /\ doubted' = doubted
            /\ \A s \in Runs : /\ row'[s].status = row[s].status /\ row'[s].error = row[s].error
                               /\ row'[s].userSlot = row[s].userSlot
            /\ Moved(p, r, "dispatch")
        BY <1>0, <1>15, StampEffect
      <3> QED BY <1>0, <3>1 DEF RecordParts, Unrecorded
    <2>5. OwnerKnown'
      BY <1>0, <1>a, <1>15, StampEffect, OwnershipAssumption DEF LoopParts, RecordParts,
          OwnerKnown, Holding, Dispatching, SweptAreDown, BeforeRunning, OnePlace,
          OwnerNamed
    <2>6. OwnerStopped'
      BY <1>0, <1>a, <1>15, StampEffect, OwnershipAssumption DEF LoopParts, RecordParts,
          OwnerStopped, Calm, SweptAreDown, OwnerKnown, OwnerNamed, OnePlace,
          BeforeRunning, Holding, Dispatching
    <2>7. DiedSettled'
      BY <1>0, <1>a, <1>15, StampEffect, OwnershipAssumption DEF LoopParts, RecordParts,
          DiedSettled, Calm, SweptAreDown, OwnerStopped, OwnerKnown, OwnerNamed,
          Unrecorded, AfterRunning, BeforeRunning, Died
    <2>8. CleanCounted'
      BY <1>0, <1>a, <1>15, StampEffect, OwnershipAssumption DEF LoopParts, RecordParts,
          CleanCounted, Clean, NoSweep, Unrecorded, OnePlace, BeforeRunning, CountsHeld,
          Died, Dispatching, Takes, GivesUp
    <2> QED BY <2>1, <2>2, <2>3, <2>4, <2>5, <2>6, <2>7, <2>8 DEF RecordParts
  <1>16. ASSUME NEW p \in Replicas, NEW r \in Runs, TakeSlot(p, r) PROVE RecordParts'
    <2>1. SweptAreDown'
      BY <1>0, <1>a, <1>16, TakeSlotEffect, OwnershipAssumption DEF LoopParts,
          RecordParts, SweptAreDown, UpIsFresh, Idle
    <2>2. NoSweep'
      BY <1>0, <1>a, <1>16, TakeSlotEffect, OwnershipAssumption DEF LoopParts,
          RecordParts, NoSweep, Idle
    <2>3. CountsHeld'
      BY <1>0, <1>a, <1>16, TakeSlotEffect, OwnershipAssumption DEF LoopParts,
          RecordParts, CountsHeld, GoneHoldNothing, Takes, GivesUp
    <2>4. Unrecorded'
      BY <1>0, <1>a, <1>16, TakeSlotEffect, OwnershipAssumption DEF LoopParts,
          RecordParts, Unrecorded, BeforeRunning, OnePlace, OwnerNamed
    <2>5. OwnerKnown'
      BY <1>0, <1>a, <1>16, TakeSlotEffect, OwnershipAssumption DEF LoopParts,
          RecordParts, OwnerKnown, Holding, Dispatching, SweptAreDown, BeforeRunning,
          OnePlace, OwnerNamed
    <2>6. OwnerStopped'
      BY <1>0, <1>a, <1>16, TakeSlotEffect, OwnershipAssumption DEF LoopParts,
          RecordParts, OwnerStopped, Calm, SweptAreDown, OwnerKnown, OwnerNamed,
          OnePlace, BeforeRunning, Holding, Dispatching
    <2>7. DiedSettled'
      BY <1>0, <1>a, <1>16, TakeSlotEffect, OwnershipAssumption DEF LoopParts,
          RecordParts, DiedSettled, Calm, SweptAreDown, OwnerStopped, OwnerKnown,
          OwnerNamed, Unrecorded, AfterRunning, BeforeRunning, Died
    <2>8. CleanCounted'
      BY <1>0, <1>a, <1>16, TakeSlotEffect, OwnershipAssumption DEF LoopParts,
          RecordParts, CleanCounted, Clean, NoSweep, Unrecorded, OnePlace,
          BeforeRunning, CountsHeld, Died, Dispatching, Takes, GivesUp
    <2> QED BY <2>1, <2>2, <2>3, <2>4, <2>5, <2>6, <2>7, <2>8 DEF RecordParts
  <1>17. ASSUME NEW p \in Replicas, NEW r \in Runs, GiveSlot(p, r) PROVE RecordParts'
    <2>1. SweptAreDown'
      BY <1>0, <1>a, <1>17, GiveSlotEffect, OwnershipAssumption DEF LoopParts,
          RecordParts, SweptAreDown, UpIsFresh, Idle
    <2>2. NoSweep'
      BY <1>0, <1>a, <1>17, GiveSlotEffect, OwnershipAssumption DEF LoopParts,
          RecordParts, NoSweep, Idle
    <2>3. CountsHeld'
      BY <1>0, <1>a, <1>17, GiveSlotEffect, OwnershipAssumption DEF LoopParts,
          RecordParts, CountsHeld, GoneHoldNothing, Takes, GivesUp
    <2>4. Unrecorded'
      BY <1>0, <1>a, <1>17, GiveSlotEffect, OwnershipAssumption DEF LoopParts,
          RecordParts, Unrecorded, BeforeRunning, OnePlace, OwnerNamed
    <2>5. OwnerKnown'
      BY <1>0, <1>a, <1>17, GiveSlotEffect, OwnershipAssumption DEF LoopParts,
          RecordParts, OwnerKnown, Holding, Dispatching, SweptAreDown, BeforeRunning,
          OnePlace, OwnerNamed
    <2>6. OwnerStopped'
      BY <1>0, <1>a, <1>17, GiveSlotEffect, OwnershipAssumption DEF LoopParts,
          RecordParts, OwnerStopped, Calm, SweptAreDown, OwnerKnown, OwnerNamed,
          OnePlace, BeforeRunning, Holding, Dispatching
    <2>7. DiedSettled'
      BY <1>0, <1>a, <1>17, GiveSlotEffect, OwnershipAssumption DEF LoopParts,
          RecordParts, DiedSettled, Calm, SweptAreDown, OwnerStopped, OwnerKnown,
          OwnerNamed, Unrecorded, AfterRunning, BeforeRunning, Died
    <2>8. CleanCounted'
      BY <1>0, <1>a, <1>17, GiveSlotEffect, OwnershipAssumption DEF LoopParts,
          RecordParts, CleanCounted, Clean, NoSweep, Unrecorded, OnePlace,
          BeforeRunning, CountsHeld, Died, Dispatching, Takes, GivesUp
    <2> QED BY <2>1, <2>2, <2>3, <2>4, <2>5, <2>6, <2>7, <2>8 DEF RecordParts
  <1>18. ASSUME NEW p \in Replicas, NEW r \in Runs, CountResumed(p, r) PROVE RecordParts'
    <2>1. SweptAreDown'
      BY <1>0, <1>a, <1>18, CountResumedEffect, OwnershipAssumption DEF LoopParts,
          RecordParts, SweptAreDown, UpIsFresh, Idle
    <2>2. NoSweep'
      BY <1>0, <1>a, <1>18, CountResumedEffect, OwnershipAssumption DEF LoopParts,
          RecordParts, NoSweep, Idle
    <2>3. CountsHeld'
      BY <1>0, <1>a, <1>18, CountResumedEffect, OwnershipAssumption DEF LoopParts,
          RecordParts, CountsHeld, GoneHoldNothing, Takes, GivesUp
    <2>4. Unrecorded'
      BY <1>0, <1>a, <1>18, CountResumedEffect, OwnershipAssumption DEF LoopParts,
          RecordParts, Unrecorded, BeforeRunning, OnePlace, OwnerNamed
    <2>5. OwnerKnown'
      BY <1>0, <1>a, <1>18, CountResumedEffect, OwnershipAssumption DEF LoopParts,
          RecordParts, OwnerKnown, Holding, Dispatching, SweptAreDown, BeforeRunning,
          OnePlace, OwnerNamed
    <2>6. OwnerStopped'
      BY <1>0, <1>a, <1>18, CountResumedEffect, OwnershipAssumption DEF LoopParts,
          RecordParts, OwnerStopped, Calm, SweptAreDown, OwnerKnown, OwnerNamed,
          OnePlace, BeforeRunning, Holding, Dispatching
    <2>7. DiedSettled'
      BY <1>0, <1>a, <1>18, CountResumedEffect, OwnershipAssumption DEF LoopParts,
          RecordParts, DiedSettled, Calm, SweptAreDown, OwnerStopped, OwnerKnown,
          OwnerNamed, Unrecorded, AfterRunning, BeforeRunning, Died
    <2>8. CleanCounted'
      BY <1>0, <1>a, <1>18, CountResumedEffect, OwnershipAssumption DEF LoopParts,
          RecordParts, CleanCounted, Clean, NoSweep, Unrecorded, OnePlace,
          BeforeRunning, CountsHeld, Died, Dispatching, Takes, GivesUp
    <2> QED BY <2>1, <2>2, <2>3, <2>4, <2>5, <2>6, <2>7, <2>8 DEF RecordParts
  <1>19. ASSUME NEW p \in Replicas, NEW r \in Runs, MarkSlot(p, r) PROVE RecordParts'
    <2>1. SweptAreDown'
      BY <1>0, <1>a, <1>19, MarkSlotEffect, OwnershipAssumption DEF LoopParts,
          RecordParts, SweptAreDown, UpIsFresh, Idle
    <2>2. NoSweep'
      BY <1>0, <1>a, <1>19, MarkSlotEffect, OwnershipAssumption DEF LoopParts,
          RecordParts, NoSweep, Idle
    <2>3. CountsHeld'
      BY <1>0, <1>a, <1>19, MarkSlotEffect, OwnershipAssumption DEF LoopParts,
          RecordParts, CountsHeld, GoneHoldNothing, Takes, GivesUp
    <2>4. Unrecorded'
      BY <1>0, <1>a, <1>19, MarkSlotEffect, OwnershipAssumption DEF LoopParts,
          RecordParts, Unrecorded, BeforeRunning, OnePlace, OwnerNamed
    <2>5. OwnerKnown'
      BY <1>0, <1>a, <1>19, MarkSlotEffect, OwnershipAssumption DEF LoopParts,
          RecordParts, OwnerKnown, Holding, Dispatching, SweptAreDown, BeforeRunning,
          OnePlace, OwnerNamed
    <2>6. OwnerStopped'
      BY <1>0, <1>a, <1>19, MarkSlotEffect, OwnershipAssumption DEF LoopParts,
          RecordParts, OwnerStopped, Calm, SweptAreDown, OwnerKnown, OwnerNamed,
          OnePlace, BeforeRunning, Holding, Dispatching
    <2>7. DiedSettled'
      BY <1>0, <1>a, <1>19, MarkSlotEffect, OwnershipAssumption DEF LoopParts,
          RecordParts, DiedSettled, Calm, SweptAreDown, OwnerStopped, OwnerKnown,
          OwnerNamed, Unrecorded, AfterRunning, BeforeRunning, Died
    <2>8. CleanCounted'
      BY <1>0, <1>a, <1>19, MarkSlotEffect, OwnershipAssumption DEF LoopParts,
          RecordParts, CleanCounted, Clean, NoSweep, Unrecorded, OnePlace,
          BeforeRunning, CountsHeld, Died, Dispatching, Takes, GivesUp
    <2> QED BY <2>1, <2>2, <2>3, <2>4, <2>5, <2>6, <2>7, <2>8 DEF RecordParts
  <1>20. ASSUME NEW p \in Replicas, Stop(p) PROVE RecordParts'
    <2>1. SweptAreDown'
      BY <1>0, <1>a, <1>20, StopEffect, OwnershipAssumption DEF LoopParts, RecordParts,
          SweptAreDown, UpIsFresh, Idle
    <2>2. NoSweep'
      BY <1>0, <1>a, <1>20, StopEffect, OwnershipAssumption DEF LoopParts, RecordParts,
          NoSweep, Idle
    <2>3. CountsHeld'
      BY <1>0, <1>a, <1>20, StopEffect, OwnershipAssumption DEF LoopParts, RecordParts,
          CountsHeld, GoneHoldNothing, Takes, GivesUp
    <2>4. Unrecorded'
      BY <1>0, <1>a, <1>20, StopEffect, OwnershipAssumption DEF LoopParts, RecordParts,
          Unrecorded, BeforeRunning, OnePlace, OwnerNamed
    <2>5. OwnerKnown'
      BY <1>0, <1>a, <1>20, StopEffect, OwnershipAssumption DEF LoopParts, RecordParts,
          OwnerKnown, Holding, Dispatching, SweptAreDown, BeforeRunning, OnePlace,
          OwnerNamed
    <2>6. OwnerStopped'
      BY <1>0, <1>a, <1>20, StopEffect, OwnershipAssumption DEF LoopParts, RecordParts,
          OwnerStopped, Calm, SweptAreDown, OwnerKnown, OwnerNamed, OnePlace,
          BeforeRunning, Holding, Dispatching
    <2>7. DiedSettled'
      BY <1>0, <1>a, <1>20, StopEffect, OwnershipAssumption DEF LoopParts, RecordParts,
          DiedSettled, Calm, SweptAreDown, OwnerStopped, OwnerKnown, OwnerNamed,
          Unrecorded, AfterRunning, BeforeRunning, Died
    <2>8. CleanCounted'
      BY <1>0, <1>a, <1>20, StopEffect, OwnershipAssumption DEF LoopParts, RecordParts,
          CleanCounted, Clean, NoSweep, Unrecorded, OnePlace, BeforeRunning, CountsHeld,
          Died, Dispatching, Takes, GivesUp
    <2> QED BY <2>1, <2>2, <2>3, <2>4, <2>5, <2>6, <2>7, <2>8 DEF RecordParts
  <1>21. ASSUME NEW p \in Replicas, Crash(p) PROVE RecordParts'
    <2>1. SweptAreDown'
      BY <1>0, <1>a, <1>21, CrashEffect, OwnershipAssumption DEF LoopParts, RecordParts,
          SweptAreDown, UpIsFresh, Idle
    <2>2. NoSweep'
      BY <1>0, <1>a, <1>21, CrashEffect, OwnershipAssumption DEF LoopParts, RecordParts,
          NoSweep, Idle
    <2>3. CountsHeld'
      BY <1>0, <1>a, <1>21, CrashEffect, OwnershipAssumption DEF LoopParts, RecordParts,
          CountsHeld, GoneHoldNothing, Takes, GivesUp
    <2>4. Unrecorded'
      BY <1>0, <1>a, <1>21, CrashEffect, OwnershipAssumption DEF LoopParts, RecordParts,
          Unrecorded, BeforeRunning, OnePlace, OwnerNamed
    <2>5. OwnerKnown'
      BY <1>0, <1>a, <1>21, CrashEffect, OwnershipAssumption DEF LoopParts, RecordParts,
          OwnerKnown, Holding, Dispatching, SweptAreDown, BeforeRunning, OnePlace,
          OwnerNamed
    <2>6. OwnerStopped'
      BY <1>0, <1>a, <1>21, CrashEffect, OwnershipAssumption DEF LoopParts, RecordParts,
          OwnerStopped, Calm, SweptAreDown, OwnerKnown, OwnerNamed, OnePlace,
          BeforeRunning, Holding, Dispatching
    <2>7. DiedSettled'
      BY <1>0, <1>a, <1>21, CrashEffect, OwnershipAssumption DEF LoopParts, RecordParts,
          DiedSettled, Calm, SweptAreDown, OwnerStopped, OwnerKnown, OwnerNamed,
          Unrecorded, AfterRunning, BeforeRunning, Died
    <2>8. CleanCounted'
      BY <1>0, <1>a, <1>21, CrashEffect, OwnershipAssumption DEF LoopParts, RecordParts,
          CleanCounted, Clean, NoSweep, Unrecorded, OnePlace, BeforeRunning, CountsHeld,
          Died, Dispatching, Takes, GivesUp
    <2> QED BY <2>1, <2>2, <2>3, <2>4, <2>5, <2>6, <2>7, <2>8 DEF RecordParts
  <1>22. ASSUME NEW p \in Replicas, Boot(p) PROVE RecordParts'
    <2>1. SweptAreDown'
      BY <1>0, <1>a, <1>22, BootEffect, OwnershipAssumption DEF LoopParts, RecordParts,
          SweptAreDown, UpIsFresh, Idle
    <2>2. NoSweep'
      BY <1>0, <1>a, <1>22, BootEffect, OwnershipAssumption DEF LoopParts, RecordParts,
          NoSweep, Idle
    <2>3. CountsHeld'
      BY <1>0, <1>a, <1>22, BootEffect, OwnershipAssumption DEF LoopParts, RecordParts,
          CountsHeld, GoneHoldNothing, Takes, GivesUp
    <2>4. Unrecorded'
      BY <1>0, <1>a, <1>22, BootEffect, OwnershipAssumption DEF LoopParts, RecordParts,
          Unrecorded, BeforeRunning, OnePlace, OwnerNamed
    <2>5. OwnerKnown'
      BY <1>0, <1>a, <1>22, BootEffect, OwnershipAssumption DEF LoopParts, RecordParts,
          OwnerKnown, Holding, Dispatching, SweptAreDown, BeforeRunning, OnePlace,
          OwnerNamed
    <2>6. OwnerStopped'
      BY <1>0, <1>a, <1>22, BootEffect, OwnershipAssumption DEF LoopParts, RecordParts,
          OwnerStopped, Calm, SweptAreDown, OwnerKnown, OwnerNamed, OnePlace,
          BeforeRunning, Holding, Dispatching
    <2>7. DiedSettled'
      BY <1>0, <1>a, <1>22, BootEffect, OwnershipAssumption DEF LoopParts, RecordParts,
          DiedSettled, Calm, SweptAreDown, OwnerStopped, OwnerKnown, OwnerNamed,
          Unrecorded, AfterRunning, BeforeRunning, Died
    <2>8. CleanCounted'
      BY <1>0, <1>a, <1>22, BootEffect, OwnershipAssumption DEF LoopParts, RecordParts,
          CleanCounted, Clean, NoSweep, Unrecorded, OnePlace, BeforeRunning, CountsHeld,
          Died, Dispatching, Takes, GivesUp
    <2> QED BY <2>1, <2>2, <2>3, <2>4, <2>5, <2>6, <2>7, <2>8 DEF RecordParts
  <1>23. ASSUME NEW p \in Replicas, Heartbeat(p) PROVE RecordParts'
    <2>1. SweptAreDown'
      BY <1>0, <1>a, <1>23, HeartbeatEffect, OwnershipAssumption DEF LoopParts,
          RecordParts, SweptAreDown, UpIsFresh, Idle
    <2>2. NoSweep'
      BY <1>0, <1>a, <1>23, HeartbeatEffect, OwnershipAssumption DEF LoopParts,
          RecordParts, NoSweep, Idle
    <2>3. CountsHeld'
      BY <1>0, <1>a, <1>23, HeartbeatEffect, OwnershipAssumption DEF LoopParts,
          RecordParts, CountsHeld, GoneHoldNothing, Takes, GivesUp
    <2>4. Unrecorded'
      BY <1>0, <1>a, <1>23, HeartbeatEffect, OwnershipAssumption DEF LoopParts,
          RecordParts, Unrecorded, BeforeRunning, OnePlace, OwnerNamed
    <2>5. OwnerKnown'
      BY <1>0, <1>a, <1>23, HeartbeatEffect, OwnershipAssumption DEF LoopParts,
          RecordParts, OwnerKnown, Holding, Dispatching, SweptAreDown, BeforeRunning,
          OnePlace, OwnerNamed
    <2>6. OwnerStopped'
      BY <1>0, <1>a, <1>23, HeartbeatEffect, OwnershipAssumption DEF LoopParts,
          RecordParts, OwnerStopped, Calm, SweptAreDown, OwnerKnown, OwnerNamed,
          OnePlace, BeforeRunning, Holding, Dispatching
    <2>7. DiedSettled'
      BY <1>0, <1>a, <1>23, HeartbeatEffect, OwnershipAssumption DEF LoopParts,
          RecordParts, DiedSettled, Calm, SweptAreDown, OwnerStopped, OwnerKnown,
          OwnerNamed, Unrecorded, AfterRunning, BeforeRunning, Died
    <2>8. CleanCounted'
      BY <1>0, <1>a, <1>23, HeartbeatEffect, OwnershipAssumption DEF LoopParts,
          RecordParts, CleanCounted, Clean, NoSweep, Unrecorded, OnePlace,
          BeforeRunning, CountsHeld, Died, Dispatching, Takes, GivesUp
    <2> QED BY <2>1, <2>2, <2>3, <2>4, <2>5, <2>6, <2>7, <2>8 DEF RecordParts
  <1>24. ASSUME NEW p \in Replicas, GoStale(p) PROVE RecordParts'
    <2>1. SweptAreDown'
      BY <1>0, <1>a, <1>24, GoStaleEffect, OwnershipAssumption DEF LoopParts,
          RecordParts, SweptAreDown, UpIsFresh, Idle
    <2>2. NoSweep'
      BY <1>0, <1>a, <1>24, GoStaleEffect, OwnershipAssumption DEF LoopParts,
          RecordParts, NoSweep, Idle
    <2>3. CountsHeld'
      BY <1>0, <1>a, <1>24, GoStaleEffect, OwnershipAssumption DEF LoopParts,
          RecordParts, CountsHeld, GoneHoldNothing, Takes, GivesUp
    <2>4. Unrecorded'
      BY <1>0, <1>a, <1>24, GoStaleEffect, OwnershipAssumption DEF LoopParts,
          RecordParts, Unrecorded, BeforeRunning, OnePlace, OwnerNamed
    <2>5. OwnerKnown'
      BY <1>0, <1>a, <1>24, GoStaleEffect, OwnershipAssumption DEF LoopParts,
          RecordParts, OwnerKnown, Holding, Dispatching, SweptAreDown, BeforeRunning,
          OnePlace, OwnerNamed
    <2>6. OwnerStopped'
      BY <1>0, <1>a, <1>24, GoStaleEffect, OwnershipAssumption DEF LoopParts,
          RecordParts, OwnerStopped, Calm, SweptAreDown, OwnerKnown, OwnerNamed,
          OnePlace, BeforeRunning, Holding, Dispatching
    <2>7. DiedSettled'
      BY <1>0, <1>a, <1>24, GoStaleEffect, OwnershipAssumption DEF LoopParts,
          RecordParts, DiedSettled, Calm, SweptAreDown, OwnerStopped, OwnerKnown,
          OwnerNamed, Unrecorded, AfterRunning, BeforeRunning, Died
    <2>8. CleanCounted'
      BY <1>0, <1>a, <1>24, GoStaleEffect, OwnershipAssumption DEF LoopParts,
          RecordParts, CleanCounted, Clean, NoSweep, Unrecorded, OnePlace,
          BeforeRunning, CountsHeld, Died, Dispatching, Takes, GivesUp
    <2> QED BY <2>1, <2>2, <2>3, <2>4, <2>5, <2>6, <2>7, <2>8 DEF RecordParts
  <1>25. ASSUME NEW p \in Replicas, SweepList(p) PROVE RecordParts'
    <2>1. SweptAreDown'
      BY <1>0, <1>a, <1>25, SweepListEffect, OwnershipAssumption DEF LoopParts,
          RecordParts, SweptAreDown, UpIsFresh, Idle
    <2>2. NoSweep'
      BY <1>0, <1>a, <1>25, SweepListEffect, OwnershipAssumption DEF LoopParts,
          RecordParts, NoSweep, Idle
    <2>3. CountsHeld'
      BY <1>0, <1>a, <1>25, SweepListEffect, OwnershipAssumption DEF LoopParts,
          RecordParts, CountsHeld, GoneHoldNothing, Takes, GivesUp
    <2>4. Unrecorded'
      BY <1>0, <1>a, <1>25, SweepListEffect, OwnershipAssumption DEF LoopParts,
          RecordParts, Unrecorded, BeforeRunning, OnePlace, OwnerNamed
    <2>5. OwnerKnown'
      BY <1>0, <1>a, <1>25, SweepListEffect, OwnershipAssumption DEF LoopParts,
          RecordParts, OwnerKnown, Holding, Dispatching, SweptAreDown, BeforeRunning,
          OnePlace, OwnerNamed
    <2>6. OwnerStopped'
      BY <1>0, <1>a, <1>25, SweepListEffect, OwnershipAssumption DEF LoopParts,
          RecordParts, OwnerStopped, Calm, SweptAreDown, OwnerKnown, OwnerNamed,
          OnePlace, BeforeRunning, Holding, Dispatching
    <2>7. DiedSettled'
      BY <1>0, <1>a, <1>25, SweepListEffect, OwnershipAssumption DEF LoopParts,
          RecordParts, DiedSettled, Calm, SweptAreDown, OwnerStopped, OwnerKnown,
          OwnerNamed, Unrecorded, AfterRunning, BeforeRunning, Died
    <2>8. CleanCounted'
      BY <1>0, <1>a, <1>25, SweepListEffect, OwnershipAssumption DEF LoopParts,
          RecordParts, CleanCounted, Clean, NoSweep, Unrecorded, OnePlace,
          BeforeRunning, CountsHeld, Died, Dispatching, Takes, GivesUp
    <2> QED BY <2>1, <2>2, <2>3, <2>4, <2>5, <2>6, <2>7, <2>8 DEF RecordParts
  <1>26. ASSUME SweepFail PROVE RecordParts'
    <2>1. SweptAreDown'
      BY <1>0, <1>a, <1>26, SweepFailEffect, OwnershipAssumption DEF LoopParts,
          RecordParts, SweptAreDown, UpIsFresh, Idle
    <2>2. NoSweep'
      BY <1>0, <1>a, <1>26, SweepFailEffect, OwnershipAssumption DEF LoopParts,
          RecordParts, NoSweep, Idle
    <2>3. CountsHeld'
      BY <1>0, <1>a, <1>26, SweepFailEffect, OwnershipAssumption DEF LoopParts,
          RecordParts, CountsHeld, GoneHoldNothing, Takes, GivesUp
    <2>4. Unrecorded'
      BY <1>0, <1>a, <1>26, SweepFailEffect, OwnershipAssumption DEF LoopParts,
          RecordParts, Unrecorded, BeforeRunning, OnePlace, OwnerNamed
    <2>5. OwnerKnown'
      BY <1>0, <1>a, <1>26, SweepFailEffect, OwnershipAssumption DEF LoopParts,
          RecordParts, OwnerKnown, Holding, Dispatching, SweptAreDown, BeforeRunning,
          OnePlace, OwnerNamed
    <2>6. OwnerStopped'
      BY <1>0, <1>a, <1>26, SweepFailEffect, OwnershipAssumption DEF LoopParts,
          RecordParts, OwnerStopped, Calm, SweptAreDown, OwnerKnown, OwnerNamed,
          OnePlace, BeforeRunning, Holding, Dispatching
    <2>7. DiedSettled'
      BY <1>0, <1>a, <1>26, SweepFailEffect, OwnershipAssumption DEF LoopParts,
          RecordParts, DiedSettled, Calm, SweptAreDown, OwnerStopped, OwnerKnown,
          OwnerNamed, Unrecorded, AfterRunning, BeforeRunning, Died
    <2>8. CleanCounted'
      BY <1>0, <1>a, <1>26, SweepFailEffect, OwnershipAssumption DEF LoopParts,
          RecordParts, CleanCounted, Clean, NoSweep, Unrecorded, OnePlace,
          BeforeRunning, CountsHeld, Died, Dispatching, Takes, GivesUp
    <2> QED BY <2>1, <2>2, <2>3, <2>4, <2>5, <2>6, <2>7, <2>8 DEF RecordParts
  <1>27. ASSUME SweepPick PROVE RecordParts'
    <2>1. SweptAreDown'
      BY <1>0, <1>a, <1>27, SweepPickEffect, OwnershipAssumption DEF LoopParts,
          RecordParts, SweptAreDown, UpIsFresh, Idle
    <2>2. NoSweep'
      BY <1>0, <1>a, <1>27, SweepPickEffect, OwnershipAssumption DEF LoopParts,
          RecordParts, NoSweep, Idle
    <2>3. CountsHeld'
      BY <1>0, <1>a, <1>27, SweepPickEffect, OwnershipAssumption DEF LoopParts,
          RecordParts, CountsHeld, GoneHoldNothing, Takes, GivesUp
    <2>4. Unrecorded'
      BY <1>0, <1>a, <1>27, SweepPickEffect, OwnershipAssumption DEF LoopParts,
          RecordParts, Unrecorded, BeforeRunning, OnePlace, OwnerNamed
    <2>5. OwnerKnown'
      BY <1>0, <1>a, <1>27, SweepPickEffect, OwnershipAssumption DEF LoopParts,
          RecordParts, OwnerKnown, Holding, Dispatching, SweptAreDown, BeforeRunning,
          OnePlace, OwnerNamed
    <2>6. OwnerStopped'
      BY <1>0, <1>a, <1>27, SweepPickEffect, OwnershipAssumption DEF LoopParts,
          RecordParts, OwnerStopped, Calm, SweptAreDown, OwnerKnown, OwnerNamed,
          OnePlace, BeforeRunning, Holding, Dispatching
    <2>7. DiedSettled'
      BY <1>0, <1>a, <1>27, SweepPickEffect, OwnershipAssumption DEF LoopParts,
          RecordParts, DiedSettled, Calm, SweptAreDown, OwnerStopped, OwnerKnown,
          OwnerNamed, Unrecorded, AfterRunning, BeforeRunning, Died
    <2>8. CleanCounted'
      BY <1>0, <1>a, <1>27, SweepPickEffect, OwnershipAssumption DEF LoopParts,
          RecordParts, CleanCounted, Clean, NoSweep, Unrecorded, OnePlace,
          BeforeRunning, CountsHeld, Died, Dispatching, Takes, GivesUp
    <2> QED BY <2>1, <2>2, <2>3, <2>4, <2>5, <2>6, <2>7, <2>8 DEF RecordParts
  <1>28. ASSUME SweepMark PROVE RecordParts'
    <2>1. SweptAreDown'
      BY <1>0, <1>a, <1>28, SweepMarkEffect, OwnershipAssumption DEF LoopParts,
          RecordParts, SweptAreDown, UpIsFresh, Idle
    <2>2. NoSweep'
      BY <1>0, <1>a, <1>28, SweepMarkEffect, OwnershipAssumption DEF LoopParts,
          RecordParts, NoSweep, Idle
    <2>3. CountsHeld'
      BY <1>0, <1>a, <1>28, SweepMarkEffect, OwnershipAssumption DEF LoopParts,
          RecordParts, CountsHeld, GoneHoldNothing, Takes, GivesUp
    <2>4. Unrecorded'
      BY <1>0, <1>a, <1>28, SweepMarkEffect, OwnershipAssumption DEF LoopParts,
          RecordParts, Unrecorded, BeforeRunning, OnePlace, OwnerNamed
    <2>5. OwnerKnown'
      BY <1>0, <1>a, <1>28, SweepMarkEffect, OwnershipAssumption DEF LoopParts,
          RecordParts, OwnerKnown, Holding, Dispatching, SweptAreDown, BeforeRunning,
          OnePlace, OwnerNamed
    <2>6. OwnerStopped'
      BY <1>0, <1>a, <1>28, SweepMarkEffect, OwnershipAssumption DEF LoopParts,
          RecordParts, OwnerStopped, Calm, SweptAreDown, OwnerKnown, OwnerNamed,
          OnePlace, BeforeRunning, Holding, Dispatching
    <2>7. DiedSettled'
      <3> SUFFICES ASSUME Calm, NEW r \in Runs, row'[r].error = Died
                   PROVE  /\ row'[r].status = "ended" /\ row'[r].owner \notin up
                          /\ \A p \in Replicas : at[p][r] \in {"none", "checked"}
                          /\ \A s \in Runs : row'[s].status = "running"
                                 => row'[s].owner # row'[r].owner
        BY <1>0, <1>28, SweepMarkEffect DEF DiedSettled, Calm
      <3>0. /\ sweep.id \in Replicas /\ sweep.id \notin up /\ beat[sweep.id] = "stale"
            /\ ~doubted /\ unstamped = {} /\ up' = up
        BY <1>0, <1>28, SweepMarkEffect DEF RecordParts, SweptAreDown, Calm
      <3>1. \A s \in Runs : row[s].status = "running" /\ row[s].owner = sweep.id
               => s \in Marked(sweep.id)
        BY <1>0, <3>0 DEF RecordParts, OwnerStopped, Marked
      <3>2. ASSUME NEW s \in Marked(sweep.id), NEW p \in Replicas
            PROVE  at[p][s] \in {"none", "checked"}
        <4>1. s \in Runs /\ row[s].status = "running" /\ row[s].owner = sweep.id
          BY DEF Marked
        <4>2. at[p][s] \notin Holding \ {"claimed"}
          BY <1>0, <3>0, <4>1 DEF LoopParts, OwnerNamed, GoneHoldNothing, Holding,
              Dispatching
        <4>3. at[p][s] # "claimed"
          BY <1>0, <3>0, <4>1 DEF RecordParts, OwnerStopped, LoopParts, GoneHoldNothing
        <4>4. at[p][s] \notin {"held", "ending", "refused", "refusedGiving"}
          BY <1>0, <4>1 DEF LoopParts, AfterRunning, BeforeRunning
        <4>5. at[p][s] \in Places
          BY <1>0, <4>1 DEF TypeOK
        <4> QED BY <4>2, <4>3, <4>4, <4>5 DEF Places, Holding, Dispatching, Passing
      <3>3. ASSUME NEW s \in Runs, row'[s].status = "running" PROVE row'[s].owner # sweep.id
        BY <1>0, <1>28, <3>1, <3>3, SweepMarkEffect
      <3>4. \A s \in Runs : row'[s].status = "running" => row[s].status = "running"
        BY <1>0, <1>28, SweepMarkEffect
      <3>5. \A s \in Runs : row'[s].owner = row[s].owner
        BY <1>0, <1>28, SweepMarkEffect
      <3>6. CASE r \in Marked(sweep.id)
        <4>1. row[r].owner = sweep.id
          BY <3>6 DEF Marked
        <4> QED
          BY <1>0, <1>28, <3>0, <3>2, <3>3, <3>5, <3>6, <4>1, SweepMarkEffect
      <3>7. CASE r \notin Marked(sweep.id)
        <4>1. row[r].error = Died /\ row'[r].status = row[r].status
          BY <1>0, <1>28, <3>7, SweepMarkEffect
        <4> QED
          BY <1>0, <4>1, <3>4, <3>5 DEF RecordParts, DiedSettled
      <3> QED BY <3>6, <3>7
    <2>8. CleanCounted'
      BY <1>0, <1>a, <1>28, SweepMarkEffect, OwnershipAssumption DEF LoopParts,
          RecordParts, CleanCounted, Clean, NoSweep, Unrecorded, OnePlace,
          BeforeRunning, CountsHeld, Died, Dispatching, Takes, GivesUp, Marked
    <2> QED BY <2>1, <2>2, <2>3, <2>4, <2>5, <2>6, <2>7, <2>8 DEF RecordParts
  <1>29. ASSUME SweepCount PROVE RecordParts'
    <2>1. SweptAreDown'
      BY <1>0, <1>a, <1>29, SweepCountEffect, OwnershipAssumption DEF LoopParts,
          RecordParts, SweptAreDown, UpIsFresh, Idle
    <2>2. NoSweep'
      BY <1>0, <1>a, <1>29, SweepCountEffect, OwnershipAssumption DEF LoopParts,
          RecordParts, NoSweep, Idle
    <2>3. CountsHeld'
      BY <1>0, <1>a, <1>29, SweepCountEffect, OwnershipAssumption DEF LoopParts,
          RecordParts, CountsHeld, GoneHoldNothing, Takes, GivesUp
    <2>4. Unrecorded'
      BY <1>0, <1>a, <1>29, SweepCountEffect, OwnershipAssumption DEF LoopParts,
          RecordParts, Unrecorded, BeforeRunning, OnePlace, OwnerNamed
    <2>5. OwnerKnown'
      BY <1>0, <1>a, <1>29, SweepCountEffect, OwnershipAssumption DEF LoopParts,
          RecordParts, OwnerKnown, Holding, Dispatching, SweptAreDown, BeforeRunning,
          OnePlace, OwnerNamed
    <2>6. OwnerStopped'
      BY <1>0, <1>a, <1>29, SweepCountEffect, OwnershipAssumption DEF LoopParts,
          RecordParts, OwnerStopped, Calm, SweptAreDown, OwnerKnown, OwnerNamed,
          OnePlace, BeforeRunning, Holding, Dispatching
    <2>7. DiedSettled'
      BY <1>0, <1>a, <1>29, SweepCountEffect, OwnershipAssumption DEF LoopParts,
          RecordParts, DiedSettled, Calm, SweptAreDown, OwnerStopped, OwnerKnown,
          OwnerNamed, Unrecorded, AfterRunning, BeforeRunning, Died
    <2>8. CleanCounted'
      BY <1>0, <1>a, <1>29, SweepCountEffect, OwnershipAssumption DEF LoopParts,
          RecordParts, CleanCounted, Clean, NoSweep, Unrecorded, OnePlace,
          BeforeRunning, CountsHeld, Died, Dispatching, Takes, GivesUp
    <2> QED BY <2>1, <2>2, <2>3, <2>4, <2>5, <2>6, <2>7, <2>8 DEF RecordParts
  <1>30. ASSUME SweepDecrement PROVE RecordParts'
    <2>1. SweptAreDown'
      BY <1>0, <1>a, <1>30, SweepDecrementEffect, OwnershipAssumption DEF LoopParts,
          RecordParts, SweptAreDown, UpIsFresh, Idle
    <2>2. NoSweep'
      BY <1>0, <1>a, <1>30, SweepDecrementEffect, OwnershipAssumption DEF LoopParts,
          RecordParts, NoSweep, Idle
    <2>3. CountsHeld'
      BY <1>0, <1>a, <1>30, SweepDecrementEffect, OwnershipAssumption DEF LoopParts,
          RecordParts, CountsHeld, GoneHoldNothing, Takes, GivesUp
    <2>4. Unrecorded'
      BY <1>0, <1>a, <1>30, SweepDecrementEffect, OwnershipAssumption DEF LoopParts,
          RecordParts, Unrecorded, BeforeRunning, OnePlace, OwnerNamed
    <2>5. OwnerKnown'
      BY <1>0, <1>a, <1>30, SweepDecrementEffect, OwnershipAssumption DEF LoopParts,
          RecordParts, OwnerKnown, Holding, Dispatching, SweptAreDown, BeforeRunning,
          OnePlace, OwnerNamed
    <2>6. OwnerStopped'
      BY <1>0, <1>a, <1>30, SweepDecrementEffect, OwnershipAssumption DEF LoopParts,
          RecordParts, OwnerStopped, Calm, SweptAreDown, OwnerKnown, OwnerNamed,
          OnePlace, BeforeRunning, Holding, Dispatching
    <2>7. DiedSettled'
      BY <1>0, <1>a, <1>30, SweepDecrementEffect, OwnershipAssumption DEF LoopParts,
          RecordParts, DiedSettled, Calm, SweptAreDown, OwnerStopped, OwnerKnown,
          OwnerNamed, Unrecorded, AfterRunning, BeforeRunning, Died
    <2>8. CleanCounted'
      BY <1>0, <1>a, <1>30, SweepDecrementEffect, OwnershipAssumption DEF LoopParts,
          RecordParts, CleanCounted, Clean, NoSweep, Unrecorded, OnePlace,
          BeforeRunning, CountsHeld, Died, Dispatching, Takes, GivesUp
    <2> QED BY <2>1, <2>2, <2>3, <2>4, <2>5, <2>6, <2>7, <2>8 DEF RecordParts
  <1>31. ASSUME SweepQueued PROVE RecordParts'
    <2>1. SweptAreDown'
      BY <1>0, <1>a, <1>31, SweepQueuedEffect, OwnershipAssumption DEF LoopParts,
          RecordParts, SweptAreDown, UpIsFresh, Idle
    <2>2. NoSweep'
      BY <1>0, <1>a, <1>31, SweepQueuedEffect, OwnershipAssumption DEF LoopParts,
          RecordParts, NoSweep, Idle
    <2>3. CountsHeld'
      BY <1>0, <1>a, <1>31, SweepQueuedEffect, OwnershipAssumption DEF LoopParts,
          RecordParts, CountsHeld, GoneHoldNothing, Takes, GivesUp
    <2>4. Unrecorded'
      BY <1>0, <1>a, <1>31, SweepQueuedEffect, OwnershipAssumption DEF LoopParts,
          RecordParts, Unrecorded, BeforeRunning, OnePlace, OwnerNamed
    <2>5. OwnerKnown'
      BY <1>0, <1>a, <1>31, SweepQueuedEffect, OwnershipAssumption DEF LoopParts,
          RecordParts, OwnerKnown, Holding, Dispatching, SweptAreDown, BeforeRunning,
          OnePlace, OwnerNamed
    <2>6. OwnerStopped'
      BY <1>0, <1>a, <1>31, SweepQueuedEffect, OwnershipAssumption DEF LoopParts,
          RecordParts, OwnerStopped, Calm, SweptAreDown, OwnerKnown, OwnerNamed,
          OnePlace, BeforeRunning, Holding, Dispatching
    <2>7. DiedSettled'
      BY <1>0, <1>a, <1>31, SweepQueuedEffect, OwnershipAssumption DEF LoopParts,
          RecordParts, DiedSettled, Calm, SweptAreDown, OwnerStopped, OwnerKnown,
          OwnerNamed, Unrecorded, AfterRunning, BeforeRunning, Died
    <2>8. CleanCounted'
      BY <1>0, <1>a, <1>31, SweepQueuedEffect, OwnershipAssumption DEF LoopParts,
          RecordParts, CleanCounted, Clean, NoSweep, Unrecorded, OnePlace,
          BeforeRunning, CountsHeld, Died, Dispatching, Takes, GivesUp
    <2> QED BY <2>1, <2>2, <2>3, <2>4, <2>5, <2>6, <2>7, <2>8 DEF RecordParts
  <1>32. ASSUME SweepDelete PROVE RecordParts'
    <2>1. SweptAreDown'
      BY <1>0, <1>a, <1>32, SweepDeleteEffect, OwnershipAssumption DEF LoopParts,
          RecordParts, SweptAreDown, UpIsFresh, Idle
    <2>2. NoSweep'
      BY <1>0, <1>a, <1>32, SweepDeleteEffect, OwnershipAssumption DEF LoopParts,
          RecordParts, NoSweep, Idle
    <2>3. CountsHeld'
      BY <1>0, <1>a, <1>32, SweepDeleteEffect, OwnershipAssumption DEF LoopParts,
          RecordParts, CountsHeld, GoneHoldNothing, Takes, GivesUp
    <2>4. Unrecorded'
      <3>1. /\ unstamped' = unstamped /\ (~doubted' => ~doubted)
            /\ SamePlaces /\ SameRows
        BY <1>0, <1>32, SweepDeleteEffect
      <3> QED BY <1>0, <3>1 DEF RecordParts, Unrecorded
    <2>5. OwnerKnown'
      BY <1>0, <1>a, <1>32, SweepDeleteEffect, OwnershipAssumption DEF LoopParts,
          RecordParts, OwnerKnown, Holding, Dispatching, SweptAreDown, BeforeRunning,
          OnePlace, OwnerNamed
    <2>6. OwnerStopped'
      BY <1>0, <1>a, <1>32, SweepDeleteEffect, OwnershipAssumption DEF LoopParts,
          RecordParts, OwnerStopped, Calm, SweptAreDown, OwnerKnown, OwnerNamed,
          OnePlace, BeforeRunning, Holding, Dispatching
    <2>7. DiedSettled'
      BY <1>0, <1>a, <1>32, SweepDeleteEffect, OwnershipAssumption DEF LoopParts,
          RecordParts, DiedSettled, Calm, SweptAreDown, OwnerStopped, OwnerKnown,
          OwnerNamed, Unrecorded, AfterRunning, BeforeRunning, Died
    <2>8. CleanCounted'
      BY <1>0, <1>a, <1>32, SweepDeleteEffect, OwnershipAssumption DEF LoopParts,
          RecordParts, CleanCounted, Clean, NoSweep, Unrecorded, OnePlace,
          BeforeRunning, CountsHeld, Died, Dispatching, Takes, GivesUp
    <2> QED BY <2>1, <2>2, <2>3, <2>4, <2>5, <2>6, <2>7, <2>8 DEF RecordParts
  <1>33. ASSUME HeartbeatSweep PROVE RecordParts'
    <2>1. SweptAreDown'
      BY <1>0, <1>a, <1>33, HeartbeatSweepEffect, OwnershipAssumption DEF LoopParts,
          RecordParts, SweptAreDown, UpIsFresh, Idle
    <2>2. NoSweep'
      BY <1>0, <1>a, <1>33, HeartbeatSweepEffect, OwnershipAssumption DEF LoopParts,
          RecordParts, NoSweep, Idle
    <2>3. CountsHeld'
      BY <1>0, <1>a, <1>33, HeartbeatSweepEffect, OwnershipAssumption DEF LoopParts,
          RecordParts, CountsHeld, GoneHoldNothing, Takes, GivesUp
    <2>4. Unrecorded'
      BY <1>0, <1>a, <1>33, HeartbeatSweepEffect, OwnershipAssumption DEF LoopParts,
          RecordParts, Unrecorded, BeforeRunning, OnePlace, OwnerNamed
    <2>5. OwnerKnown'
      BY <1>0, <1>a, <1>33, HeartbeatSweepEffect, OwnershipAssumption DEF LoopParts,
          RecordParts, OwnerKnown, Holding, Dispatching, SweptAreDown, BeforeRunning,
          OnePlace, OwnerNamed
    <2>6. OwnerStopped'
      BY <1>0, <1>a, <1>33, HeartbeatSweepEffect, OwnershipAssumption DEF LoopParts,
          RecordParts, OwnerStopped, Calm, SweptAreDown, OwnerKnown, OwnerNamed,
          OnePlace, BeforeRunning, Holding, Dispatching
    <2>7. DiedSettled'
      BY <1>0, <1>a, <1>33, HeartbeatSweepEffect, OwnershipAssumption DEF LoopParts,
          RecordParts, DiedSettled, Calm, SweptAreDown, OwnerStopped, OwnerKnown,
          OwnerNamed, Unrecorded, AfterRunning, BeforeRunning, Died
    <2>8. CleanCounted'
      BY <1>0, <1>a, <1>33, HeartbeatSweepEffect, OwnershipAssumption DEF LoopParts,
          RecordParts, CleanCounted, Clean, NoSweep, Unrecorded, OnePlace,
          BeforeRunning, CountsHeld, Died, Dispatching, Takes, GivesUp
    <2> QED BY <2>1, <2>2, <2>3, <2>4, <2>5, <2>6, <2>7, <2>8 DEF RecordParts
  <1>34. ASSUME NEW r \in Runs, GoQuiet(r) PROVE RecordParts'
    <2>1. SweptAreDown'
      BY <1>0, <1>a, <1>34, GoQuietEffect, OwnershipAssumption DEF LoopParts,
          RecordParts, SweptAreDown, UpIsFresh, Idle
    <2>2. NoSweep'
      BY <1>0, <1>a, <1>34, GoQuietEffect, OwnershipAssumption DEF LoopParts,
          RecordParts, NoSweep, Idle
    <2>3. CountsHeld'
      BY <1>0, <1>a, <1>34, GoQuietEffect, OwnershipAssumption DEF LoopParts,
          RecordParts, CountsHeld, GoneHoldNothing, Takes, GivesUp
    <2>4. Unrecorded'
      BY <1>0, <1>a, <1>34, GoQuietEffect, OwnershipAssumption DEF LoopParts,
          RecordParts, Unrecorded, BeforeRunning, OnePlace, OwnerNamed
    <2>5. OwnerKnown'
      BY <1>0, <1>a, <1>34, GoQuietEffect, OwnershipAssumption DEF LoopParts,
          RecordParts, OwnerKnown, Holding, Dispatching, SweptAreDown, BeforeRunning,
          OnePlace, OwnerNamed
    <2>6. OwnerStopped'
      BY <1>0, <1>a, <1>34, GoQuietEffect, OwnershipAssumption DEF LoopParts,
          RecordParts, OwnerStopped, Calm, SweptAreDown, OwnerKnown, OwnerNamed,
          OnePlace, BeforeRunning, Holding, Dispatching
    <2>7. DiedSettled'
      BY <1>0, <1>a, <1>34, GoQuietEffect, OwnershipAssumption DEF LoopParts,
          RecordParts, DiedSettled, Calm, SweptAreDown, OwnerStopped, OwnerKnown,
          OwnerNamed, Unrecorded, AfterRunning, BeforeRunning, Died
    <2>8. CleanCounted'
      BY <1>0, <1>a, <1>34, GoQuietEffect, OwnershipAssumption DEF LoopParts,
          RecordParts, CleanCounted, Clean, NoSweep, Unrecorded, OnePlace,
          BeforeRunning, CountsHeld, Died, Dispatching, Takes, GivesUp
    <2> QED BY <2>1, <2>2, <2>3, <2>4, <2>5, <2>6, <2>7, <2>8 DEF RecordParts
  <1>35. ASSUME UNCHANGED vars PROVE RecordParts'
    BY <1>35, <1>0 DEF vars, RecordParts, Calm, Clean, SweptAreDown, NoSweep,
        CountsHeld, Unrecorded, OwnerKnown, OwnerStopped, DiedSettled, CleanCounted
  <1> QED
    BY <1>0, <1>1, <1>2, <1>3, <1>4, <1>5, <1>6, <1>7, <1>8, <1>9, <1>10, <1>11, <1>12,
        <1>13, <1>14, <1>15, <1>16, <1>17, <1>18, <1>19, <1>20, <1>21, <1>22, <1>23,
        <1>24, <1>25, <1>26, <1>27, <1>28, <1>29, <1>30, <1>31, <1>32, <1>33, <1>34,
        <1>35 DEF Next, RunStep, SweepStep, RecordInv

-----------------------------------------------------------------------------
(* The shared count.  Each run stands for at most one unit of it: a count  *)
(* a process owes, the record of a count whose process is gone, a count a  *)
(* resume is giving back, or one a sweep is about to take back.            *)
Unit(r) ==
    \/ counted[r] # {}
    \/ row[r].userSlot /\ row[r].status = "running"
    \/ row[r].userSlot /\ \E p \in Replicas : at[p][r] \in {"claimed", "dispatch", "refused"}
    \/ \E p \in Replicas : at[p][r] \in {"dispatchGiving", "refusedGiving"}
    \/ sweep.pc = "count" /\ r \in Leaked(sweep.id)
Units == {r \in Runs : Unit(r)}

(* What the sweep has counted and not yet taken off. *)
Due == IF sweep.pc = "decrement" THEN sweep.leaked ELSE 0

Covered == Calm => quota >= Cardinality(Units) + Due
Exact   == Clean => quota = Cardinality(Units)

CountInv == RecordInv /\ Covered /\ Exact

(* There are finitely many units, and the sweep takes back a number. *)
LEMMA UnitsFinite ==
    ASSUME TypeOK
    PROVE  /\ IsFiniteSet(Units) /\ Cardinality(Units) \in Nat
           /\ Due \in Nat /\ quota \in Nat
  <1>1. IsFiniteSet(Units) /\ Cardinality(Units) \in Nat
    BY OwnershipAssumption, FS_Subset, FS_CardinalityType DEF Units
  <1>2. sweep.leaked \in Nat /\ quota \in Nat
    BY DEF TypeOK
  <1> QED BY <1>1, <1>2 DEF Due

(* The same after a step. *)
LEMMA UnitsFiniteNext ==
    ASSUME TypeOK'
    PROVE  Cardinality(Units)' \in Nat /\ Due' \in Nat
  <1>1. Cardinality(Units') \in Nat
    <2>1. Units' \in SUBSET Runs
      BY DEF Units
    <2> QED BY <2>1, OwnershipAssumption, FS_Subset, FS_CardinalityType
  <1>2. sweep'.leaked \in Nat
    BY DEF TypeOK
  <1> QED BY <1>1, <1>2 DEF Due

(* A step that leaves the count alone and makes no unit. *)
LEMMA CountKept ==
    ASSUME CountInv, TypeOK', quota' = quota,
           Calm' => Calm /\ Due' <= Due /\ \A s \in Runs : Unit(s)' => Unit(s),
           Clean' => Clean /\ \A s \in Runs : Unit(s)' <=> Unit(s)
    PROVE  Covered' /\ Exact'
  <1>0. TypeOK
    BY DEF CountInv, RecordInv, LoopInv
  <1>1. ASSUME Calm' PROVE quota' >= Cardinality(Units)' + Due'
    <2>1. Units' \subseteq Units
      BY <1>1 DEF Units
    <2>2. Cardinality(Units') <= Cardinality(Units)
      BY <1>0, <2>1, UnitsFinite, FS_Subset
    <2>3. /\ Due \in Nat /\ Due' \in Nat /\ Cardinality(Units) \in Nat
          /\ Cardinality(Units)' \in Nat
          /\ quota \in Nat
      BY <1>0, UnitsFinite, UnitsFiniteNext
    <2> QED BY <1>1, <2>2, <2>3 DEF CountInv, Covered
  <1>2. ASSUME Clean' PROVE quota' = Cardinality(Units)'
    <2>1. Units' = Units
      BY <1>2 DEF Units
    <2> QED BY <1>2, <2>1 DEF CountInv, Exact
  <1> QED BY <1>1, <1>2 DEF Covered, Exact

(* A step that takes a count for a run. *)
LEMMA CountAdded ==
    ASSUME CountInv, TypeOK', NEW r \in Runs, quota' = quota + 1,
           Calm' => Calm /\ Due' = Due /\ \A s \in Runs : s # r /\ Unit(s)' => Unit(s),
           Clean' => /\ Clean /\ ~Unit(r) /\ Unit(r)'
                     /\ \A s \in Runs : s # r => (Unit(s)' <=> Unit(s))
    PROVE  Covered' /\ Exact'
  <1>0. TypeOK
    BY DEF CountInv, RecordInv, LoopInv
  <1>3. /\ IsFiniteSet(Units \cup {r})
        /\ Cardinality(Units \cup {r}) = IF r \in Units THEN Cardinality(Units) ELSE Cardinality(Units) + 1
    BY <1>0, UnitsFinite, FS_AddElement
  <1>4. /\ Due \in Nat /\ Due' \in Nat /\ Cardinality(Units) \in Nat
        /\ Cardinality(Units)' \in Nat
        /\ quota \in Nat
    BY <1>0, UnitsFinite, UnitsFiniteNext
  <1>1. ASSUME Calm' PROVE quota' >= Cardinality(Units)' + Due'
    <2>1. Units' \subseteq Units \cup {r}
      BY <1>1 DEF Units
    <2>2. Cardinality(Units') <= Cardinality(Units \cup {r})
      BY <1>3, <2>1, FS_Subset
    <2>3. Cardinality(Units') <= Cardinality(Units) + 1
      BY <1>3, <1>4, <2>2
    <2>4. quota >= Cardinality(Units) + Due
      BY <1>1 DEF CountInv, Covered
    <2> QED BY <1>1, <1>4, <2>3, <2>4
  <1>2. ASSUME Clean' PROVE quota' = Cardinality(Units)'
    <2>1. Units' = Units \cup {r} /\ r \notin Units
      BY <1>2 DEF Units
    <2>2. quota = Cardinality(Units)
      BY <1>2 DEF CountInv, Exact
    <2> QED BY <2>1, <2>2, <1>3
  <1> QED BY <1>1, <1>2 DEF Covered, Exact

(* A step that gives the count of a run back. *)
LEMMA CountRemoved ==
    ASSUME CountInv, TypeOK', NEW r \in Runs, quota' = Released(quota), Unit(r),
           Calm' => Calm /\ Due' = Due /\ ~Unit(r)' /\ \A s \in Runs : Unit(s)' => Unit(s),
           Clean' => /\ Clean /\ ~Unit(r)'
                     /\ \A s \in Runs : s # r => (Unit(s)' <=> Unit(s))
    PROVE  Covered' /\ Exact'
  <1>0. TypeOK
    BY DEF CountInv, RecordInv, LoopInv
  <1>3. IsFiniteSet(Units \ {r}) /\ Cardinality(Units \ {r}) = Cardinality(Units) - 1
    BY <1>0, UnitsFinite, FS_RemoveElement DEF Units
  <1>4. /\ Due \in Nat /\ Due' \in Nat /\ Cardinality(Units) \in Nat
        /\ Cardinality(Units)' \in Nat
        /\ quota \in Nat /\ Cardinality(Units \ {r}) \in Nat
    BY <1>0, <1>3, UnitsFinite, UnitsFiniteNext, FS_CardinalityType
  <1>1. ASSUME Calm' PROVE quota' >= Cardinality(Units)' + Due'
    <2>1. Units' \subseteq Units \ {r}
      BY <1>1 DEF Units
    <2>2. Cardinality(Units') <= Cardinality(Units \ {r})
      BY <1>3, <2>1, FS_Subset
    <2>4. quota >= Cardinality(Units) + Due
      BY <1>1 DEF CountInv, Covered
    <2> QED BY <1>1, <1>3, <1>4, <2>2, <2>4 DEF Released
  <1>2. ASSUME Clean' PROVE quota' = Cardinality(Units)'
    <2>1. Units' = Units \ {r}
      BY <1>2 DEF Units
    <2>2. quota = Cardinality(Units)
      BY <1>2 DEF CountInv, Exact
    <2> QED BY <2>1, <2>2, <1>3, <1>4 DEF Released
  <1> QED BY <1>1, <1>2 DEF Covered, Exact

(* Every step keeps the count covering, and where nothing goes wrong equal *)
(* to, the units.                                                          *)
LEMMA CountStep == CountInv /\ [Next]_vars => CountInv'
  <1> SUFFICES ASSUME CountInv, [Next]_vars PROVE CountInv'
    OBVIOUS
  <1> USE DEF Moved, SamePlaces, SameRow, SameRows, OtherRowsKept, ClusterKept, HistoryKept
  <1> DEFINE Goal == Covered' /\ Exact'
  <1>0. TypeOK /\ LoopParts /\ RecordParts /\ RecordInv' /\ TypeOK'
    BY RecordStep DEF CountInv, RecordInv, LoopInv
  <1>a. /\ up \subseteq Replicas
        /\ \A s \in Runs : row[s].status \in {"none", "queued", "running", "ended"}
        /\ boots \in Nat /\ faults \in Nat /\ crashes \in Nat /\ quota \in Nat
        /\ sweep.leaked \in Nat
        /\ \A s \in Runs : counted[s] \subseteq Replicas
    BY <1>0, OwnershipAssumption DEF TypeOK, Rows
  <1>b. ASSUME Calm PROVE ~doubted /\ unstamped = {}
    BY <1>0, <1>b DEF RecordParts, SweptAreDown, Calm
  <1>c. ASSUME Clean PROVE ~doubted /\ unstamped = {} /\ sweep.pc = "list"
    BY <1>0, <1>c DEF RecordParts, NoSweep, Clean
  <1>1. ASSUME NEW p \in Replicas, NEW r \in Runs, AdmitUser(p, r) PROVE Goal
    <2>1. Calm' => Calm /\ Due' = Due
      BY <1>0, <1>a, <1>1, AdmitUserEffect DEF Calm, Due
    <2>2. Calm' => \A s \in Runs : s # r /\ Unit(s)' => Unit(s)
      BY <1>0, <1>a, <1>1, AdmitUserEffect, <2>1, <1>b DEF Takes, GivesUp, Unit, Leaked
    <2>3. Clean' => Clean
      BY <1>0, <1>a, <1>1, AdmitUserEffect DEF Clean
    <2>4. Clean' => \A s \in Runs : s # r => (Unit(s)' <=> Unit(s))
      BY <1>0, <1>a, <1>1, AdmitUserEffect, <2>3, <1>c DEF Takes, GivesUp, Unit
    <2>5. Clean' => ~Unit(r) /\ Unit(r)'
      BY <1>0, <1>a, <1>1, AdmitUserEffect, <2>3, <1>c DEF Takes, GivesUp, Unit, Clean,
          CleanCounted, LoopParts, RecordParts, GoneHoldNothing, OnePlace,
          BeforeRunning, AfterRunning, CountsHeld, Unrecorded
    <2>6. quota' = quota + 1
      BY <1>0, <1>a, <1>1, AdmitUserEffect
    <2> QED BY <1>0, <2>1, <2>2, <2>3, <2>4, <2>5, <2>6, CountAdded
  <1>2. ASSUME NEW p \in Replicas, NEW r \in Runs, QueueForUser(p, r) PROVE Goal
    <2>1. Calm' => Calm /\ Due' <= Due
      BY <1>0, <1>a, <1>2, QueueForUserEffect DEF Calm, Due, Idle
    <2>2. Calm' => \A s \in Runs : Unit(s)' => Unit(s)
      BY <1>0, <1>a, <1>2, QueueForUserEffect, <2>1, <1>b DEF Takes, GivesUp, Unit,
          Leaked, DiedSettled, Idle, Died, LoopParts, RecordParts, GoneHoldNothing,
          OnePlace, BeforeRunning, AfterRunning, CountsHeld, Unrecorded
    <2>3. Clean' => Clean
      BY <1>0, <1>a, <1>2, QueueForUserEffect DEF Clean, RecordParts, Unrecorded,
          Marked, Died
    <2>4. Clean' => \A s \in Runs : Unit(s)' <=> Unit(s)
      BY <1>0, <1>a, <1>2, QueueForUserEffect, <2>3, <1>c DEF Takes, GivesUp, Unit,
          Clean, CleanCounted, Idle, Died, LoopParts, RecordParts, GoneHoldNothing,
          OnePlace, BeforeRunning, AfterRunning, CountsHeld, Unrecorded
    <2> QED BY <1>0, <1>a, <1>2, QueueForUserEffect, <2>1, <2>2, <2>3, <2>4, CountKept
  <1>3. ASSUME NEW p \in Replicas, NEW r \in Runs, QueueForSlot(p, r) PROVE Goal
    <2>1. Calm' => Calm /\ Due' <= Due
      BY <1>0, <1>a, <1>3, QueueForSlotEffect DEF Calm, Due, Idle
    <2>2. Calm' => \A s \in Runs : Unit(s)' => Unit(s)
      BY <1>0, <1>a, <1>3, QueueForSlotEffect, <2>1, <1>b DEF Takes, GivesUp, Unit,
          Leaked, DiedSettled, Idle, Died, LoopParts, RecordParts, GoneHoldNothing,
          OnePlace, BeforeRunning, AfterRunning, CountsHeld, Unrecorded
    <2>3. Clean' => Clean
      BY <1>0, <1>a, <1>3, QueueForSlotEffect DEF Clean, RecordParts, Unrecorded,
          Marked, Died
    <2>4. Clean' => \A s \in Runs : Unit(s)' <=> Unit(s)
      BY <1>0, <1>a, <1>3, QueueForSlotEffect, <2>3, <1>c DEF Takes, GivesUp, Unit,
          Clean, CleanCounted, Idle, Died, LoopParts, RecordParts, GoneHoldNothing,
          OnePlace, BeforeRunning, AfterRunning, CountsHeld, Unrecorded
    <2> QED BY <1>0, <1>a, <1>3, QueueForSlotEffect, <2>1, <2>2, <2>3, <2>4, CountKept
  <1>4. ASSUME NEW p \in Replicas, NEW r \in Runs, Park(p, r) PROVE Goal
    <2>1. Calm' => Calm /\ Due' <= Due
      BY <1>0, <1>a, <1>4, ParkEffect DEF Calm, Due, Idle
    <2>2. Calm' => \A s \in Runs : Unit(s)' => Unit(s)
      BY <1>0, <1>a, <1>4, ParkEffect, <2>1, <1>b DEF Takes, GivesUp, Unit, Leaked,
          DiedSettled, Idle, Died, LoopParts, RecordParts, GoneHoldNothing, OnePlace,
          BeforeRunning, AfterRunning, CountsHeld, Unrecorded
    <2>3. Clean' => Clean
      BY <1>0, <1>a, <1>4, ParkEffect DEF Clean, RecordParts, Unrecorded, Marked, Died
    <2>4. Clean' => \A s \in Runs : Unit(s)' <=> Unit(s)
      BY <1>0, <1>a, <1>4, ParkEffect, <2>3, <1>c DEF Takes, GivesUp, Unit, Clean,
          CleanCounted, Idle, Died, LoopParts, RecordParts, GoneHoldNothing, OnePlace,
          BeforeRunning, AfterRunning, CountsHeld, Unrecorded
    <2> QED BY <1>0, <1>a, <1>4, ParkEffect, <2>1, <2>2, <2>3, <2>4, CountKept
  <1>5. ASSUME NEW p \in Replicas, NEW r \in Runs, Check(p, r) PROVE Goal
    <2>1. Calm' => Calm /\ Due' <= Due
      BY <1>0, <1>a, <1>5, CheckEffect DEF Calm, Due, Idle
    <2>2. Calm' => \A s \in Runs : Unit(s)' => Unit(s)
      BY <1>0, <1>a, <1>5, CheckEffect, <2>1, <1>b DEF Takes, GivesUp, Unit, Leaked,
          DiedSettled, Idle, Died, LoopParts, RecordParts, GoneHoldNothing, OnePlace,
          BeforeRunning, AfterRunning, CountsHeld, Unrecorded
    <2>3. Clean' => Clean
      BY <1>0, <1>a, <1>5, CheckEffect DEF Clean, RecordParts, Unrecorded, Marked, Died
    <2>4. Clean' => \A s \in Runs : Unit(s)' <=> Unit(s)
      BY <1>0, <1>a, <1>5, CheckEffect, <2>3, <1>c DEF Takes, GivesUp, Unit, Clean,
          CleanCounted, Idle, Died, LoopParts, RecordParts, GoneHoldNothing, OnePlace,
          BeforeRunning, AfterRunning, CountsHeld, Unrecorded
    <2> QED BY <1>0, <1>a, <1>5, CheckEffect, <2>1, <2>2, <2>3, <2>4, CountKept
  <1>6. ASSUME NEW p \in Replicas, NEW r \in Runs, Unclaim(p, r) PROVE Goal
    <2>1. Calm' => Calm /\ Due' <= Due
      BY <1>0, <1>a, <1>6, UnclaimEffect DEF Calm, Due, Idle
    <2>2. Calm' => \A s \in Runs : Unit(s)' => Unit(s)
      BY <1>0, <1>a, <1>6, UnclaimEffect, <2>1, <1>b DEF Takes, GivesUp, Unit, Leaked,
          DiedSettled, Idle, Died, LoopParts, RecordParts, GoneHoldNothing, OnePlace,
          BeforeRunning, AfterRunning, CountsHeld, Unrecorded
    <2>3. Clean' => Clean
      BY <1>0, <1>a, <1>6, UnclaimEffect DEF Clean, RecordParts, Unrecorded, Marked, Died
    <2>4. Clean' => \A s \in Runs : Unit(s)' <=> Unit(s)
      BY <1>0, <1>a, <1>6, UnclaimEffect, <2>3, <1>c DEF Takes, GivesUp, Unit, Clean,
          CleanCounted, Idle, Died, LoopParts, RecordParts, GoneHoldNothing, OnePlace,
          BeforeRunning, AfterRunning, CountsHeld, Unrecorded
    <2> QED BY <1>0, <1>a, <1>6, UnclaimEffect, <2>1, <2>2, <2>3, <2>4, CountKept
  <1>7. ASSUME NEW p \in Replicas, NEW r \in Runs, Refuse(p, r) PROVE Goal
    <2>1. Calm' => Calm /\ Due' <= Due
      BY <1>0, <1>a, <1>7, RefuseEffect DEF Calm, Due, Idle
    <2>2. Calm' => \A s \in Runs : Unit(s)' => Unit(s)
      BY <1>0, <1>a, <1>7, RefuseEffect, <2>1, <1>b DEF Takes, GivesUp, Unit, Leaked,
          DiedSettled, Idle, Died, LoopParts, RecordParts, GoneHoldNothing, OnePlace,
          BeforeRunning, AfterRunning, CountsHeld, Unrecorded
    <2>3. Clean' => Clean
      BY <1>0, <1>a, <1>7, RefuseEffect DEF Clean, RecordParts, Unrecorded, Marked, Died
    <2>4. Clean' => \A s \in Runs : Unit(s)' <=> Unit(s)
      BY <1>0, <1>a, <1>7, RefuseEffect, <2>3, <1>c DEF Takes, GivesUp, Unit, Clean,
          CleanCounted, Idle, Died, LoopParts, RecordParts, GoneHoldNothing, OnePlace,
          BeforeRunning, AfterRunning, CountsHeld, Unrecorded
    <2> QED BY <1>0, <1>a, <1>7, RefuseEffect, <2>1, <2>2, <2>3, <2>4, CountKept
  <1>8. ASSUME NEW p \in Replicas, NEW r \in Runs, CancelUnheld(p, r) PROVE Goal
    <2>1. Calm' => Calm /\ Due' <= Due
      BY <1>0, <1>a, <1>8, CancelUnheldEffect DEF Calm, Due, Idle
    <2>2. Calm' => \A s \in Runs : Unit(s)' => Unit(s)
      BY <1>0, <1>a, <1>8, CancelUnheldEffect, <2>1, <1>b DEF Takes, GivesUp, Unit,
          Leaked, DiedSettled, Idle, Died, LoopParts, RecordParts, GoneHoldNothing,
          OnePlace, BeforeRunning, AfterRunning, CountsHeld, Unrecorded
    <2>3. Clean' => Clean
      BY <1>0, <1>a, <1>8, CancelUnheldEffect DEF Clean, RecordParts, Unrecorded,
          Marked, Died
    <2>4. Clean' => \A s \in Runs : Unit(s)' <=> Unit(s)
      BY <1>0, <1>a, <1>8, CancelUnheldEffect, <2>3, <1>c DEF Takes, GivesUp, Unit,
          Clean, CleanCounted, Idle, Died, LoopParts, RecordParts, GoneHoldNothing,
          OnePlace, BeforeRunning, AfterRunning, CountsHeld, Unrecorded
    <2> QED BY <1>0, <1>a, <1>8, CancelUnheldEffect, <2>1, <2>2, <2>3, <2>4, CountKept
  <1>9. ASSUME NEW p \in Replicas, NEW r \in Runs, PollUser(p, r) PROVE Goal
    <2>1. Calm' => Calm /\ Due' = Due
      BY <1>0, <1>a, <1>9, PollUserEffect DEF Calm, Due
    <2>2. Calm' => \A s \in Runs : s # r /\ Unit(s)' => Unit(s)
      BY <1>0, <1>a, <1>9, PollUserEffect, <2>1, <1>b DEF Takes, GivesUp, Unit, Leaked
    <2>3. Clean' => Clean
      BY <1>0, <1>a, <1>9, PollUserEffect DEF Clean
    <2>4. Clean' => \A s \in Runs : s # r => (Unit(s)' <=> Unit(s))
      BY <1>0, <1>a, <1>9, PollUserEffect, <2>3, <1>c DEF Takes, GivesUp, Unit
    <2>5. Clean' => ~Unit(r) /\ Unit(r)'
      BY <1>0, <1>a, <1>9, PollUserEffect, <2>3, <1>c DEF Takes, GivesUp, Unit, Clean,
          CleanCounted, LoopParts, RecordParts, GoneHoldNothing, OnePlace,
          BeforeRunning, AfterRunning, CountsHeld, Unrecorded
    <2>6. quota' = quota + 1
      BY <1>0, <1>a, <1>9, PollUserEffect
    <2> QED BY <1>0, <2>1, <2>2, <2>3, <2>4, <2>5, <2>6, CountAdded
  <1>10. ASSUME NEW p \in Replicas, NEW r \in Runs, StartRun(p, r) PROVE Goal
    <2>1. Calm' => Calm /\ Due' <= Due
      BY <1>0, <1>a, <1>10, StartRunEffect DEF Calm, Due, Idle
    <2>2. Calm' => \A s \in Runs : Unit(s)' => Unit(s)
      BY <1>0, <1>a, <1>10, StartRunEffect, <2>1, <1>b DEF Takes, GivesUp, Unit, Leaked,
          DiedSettled, Idle, Died, LoopParts, RecordParts, GoneHoldNothing, OnePlace,
          BeforeRunning, AfterRunning, CountsHeld, Unrecorded
    <2>3. Clean' => Clean
      BY <1>0, <1>a, <1>10, StartRunEffect DEF Clean, RecordParts, Unrecorded, Marked, Died
    <2>4. Clean' => \A s \in Runs : Unit(s)' <=> Unit(s)
      BY <1>0, <1>a, <1>10, StartRunEffect, <2>3, <1>c DEF Takes, GivesUp, Unit, Clean,
          CleanCounted, Idle, Died, LoopParts, RecordParts, GoneHoldNothing, OnePlace,
          BeforeRunning, AfterRunning, CountsHeld, Unrecorded
    <2> QED BY <1>0, <1>a, <1>10, StartRunEffect, <2>1, <2>2, <2>3, <2>4, CountKept
  <1>11. ASSUME NEW p \in Replicas, NEW r \in Runs, EndLoop(p, r) PROVE Goal
    <2>1. Calm' => Calm /\ Due' <= Due
      BY <1>0, <1>a, <1>11, EndLoopEffect DEF Calm, Due, Idle
    <2>2. Calm' => \A s \in Runs : Unit(s)' => Unit(s)
      BY <1>0, <1>a, <1>11, EndLoopEffect, <2>1, <1>b DEF Takes, GivesUp, Unit, Leaked,
          DiedSettled, Idle, Died, LoopParts, RecordParts, GoneHoldNothing, OnePlace,
          BeforeRunning, AfterRunning, CountsHeld, Unrecorded
    <2>3. Clean' => Clean
      BY <1>0, <1>a, <1>11, EndLoopEffect DEF Clean, RecordParts, Unrecorded, Marked, Died
    <2>4. Clean' => \A s \in Runs : Unit(s)' <=> Unit(s)
      BY <1>0, <1>a, <1>11, EndLoopEffect, <2>3, <1>c DEF Takes, GivesUp, Unit, Clean,
          CleanCounted, Idle, Died, LoopParts, RecordParts, GoneHoldNothing, OnePlace,
          BeforeRunning, AfterRunning, CountsHeld, Unrecorded
    <2> QED BY <1>0, <1>a, <1>11, EndLoopEffect, <2>1, <2>2, <2>3, <2>4, CountKept
  <1>12. ASSUME NEW p \in Replicas, NEW r \in Runs, ReleaseUser(p, r) PROVE Goal
    <2>1. CASE p \in counted[r] /\ quota' = Released(quota)
      <3>1. Calm' => Calm /\ Due' = Due
        BY <1>0, <1>a, <1>12, <2>1, ReleaseUserEffect DEF Calm, Due
      <3>2. Calm' => ~Unit(r)' /\ \A s \in Runs : Unit(s)' => Unit(s)
        BY <1>0, <1>a, <1>12, <2>1, ReleaseUserEffect, <3>1, <1>b DEF Takes, GivesUp,
            Unit, Leaked, DiedSettled, LoopParts, RecordParts, GoneHoldNothing,
            OnePlace, BeforeRunning, AfterRunning, CountsHeld, Unrecorded
      <3>3. Clean' => Clean
        BY <1>0, <1>a, <1>12, <2>1, ReleaseUserEffect DEF Clean
      <3>4. Clean' => ~Unit(r)' /\ \A s \in Runs : s # r => (Unit(s)' <=> Unit(s))
        BY <1>0, <1>a, <1>12, <2>1, ReleaseUserEffect, <3>3, <1>c DEF Takes, GivesUp,
            Unit, LoopParts, RecordParts, GoneHoldNothing, OnePlace, BeforeRunning,
            AfterRunning, CountsHeld, Unrecorded
      <3>5. Unit(r) /\ quota' = Released(quota)
        BY <1>0, <1>a, <1>12, <2>1, ReleaseUserEffect DEF Unit
      <3> QED BY <1>0, <3>1, <3>2, <3>3, <3>4, <3>5, CountRemoved
    <2>2. CASE quota' = quota /\ (p \notin counted[r] \/ faults' = faults + 1)
      <3>1. Calm' => Calm /\ Due' <= Due
        BY <1>0, <1>a, <1>12, <2>2, ReleaseUserEffect DEF Calm, Due, Idle
      <3>2. Calm' => \A s \in Runs : Unit(s)' => Unit(s)
        BY <1>0, <1>a, <1>12, <2>2, ReleaseUserEffect, <3>1, <1>b DEF Takes, GivesUp,
            Unit, Leaked, DiedSettled, Idle, Died, LoopParts, RecordParts,
            GoneHoldNothing, OnePlace, BeforeRunning, AfterRunning, CountsHeld,
            Unrecorded
      <3>3. Clean' => Clean
        BY <1>0, <1>a, <1>12, <2>2, ReleaseUserEffect DEF Clean, RecordParts,
            Unrecorded, Marked, Died
      <3>4. Clean' => \A s \in Runs : Unit(s)' <=> Unit(s)
        BY <1>0, <1>a, <1>12, <2>2, ReleaseUserEffect, <3>3, <1>c DEF Takes, GivesUp,
            Unit, Clean, CleanCounted, Idle, Died, LoopParts, RecordParts,
            GoneHoldNothing, OnePlace, BeforeRunning, AfterRunning, CountsHeld,
            Unrecorded
      <3> QED BY <1>0, <1>a, <1>12, <2>2, ReleaseUserEffect, <3>1, <3>2, <3>3, <3>4,
          CountKept
    <2> QED BY <1>0, <1>12, <2>1, <2>2, ReleaseUserEffect
  <1>13. ASSUME NEW p \in Replicas, NEW r \in Runs, Unpark(p, r) PROVE Goal
    <2>1. Calm' => Calm /\ Due' <= Due
      BY <1>0, <1>a, <1>13, UnparkEffect DEF Calm, Due, Idle
    <2>2. Calm' => \A s \in Runs : Unit(s)' => Unit(s)
      BY <1>0, <1>a, <1>13, UnparkEffect, <2>1, <1>b DEF Takes, GivesUp, Unit, Leaked,
          DiedSettled, Idle, Died, LoopParts, RecordParts, GoneHoldNothing, OnePlace,
          BeforeRunning, AfterRunning, CountsHeld, Unrecorded
    <2>3. Clean' => Clean
      BY <1>0, <1>a, <1>13, UnparkEffect DEF Clean, RecordParts, Unrecorded, Marked, Died
    <2>4. Clean' => \A s \in Runs : Unit(s)' <=> Unit(s)
      BY <1>0, <1>a, <1>13, UnparkEffect, <2>3, <1>c DEF Takes, GivesUp, Unit, Clean,
          CleanCounted, Idle, Died, LoopParts, RecordParts, GoneHoldNothing, OnePlace,
          BeforeRunning, AfterRunning, CountsHeld, Unrecorded
    <2> QED BY <1>0, <1>a, <1>13, UnparkEffect, <2>1, <2>2, <2>3, <2>4, CountKept
  <1>14. ASSUME NEW p \in Replicas, NEW r \in Runs, Claim(p, r) PROVE Goal
    <2>1. Calm' => Calm /\ Due' <= Due
      BY <1>0, <1>a, <1>14, ClaimEffect DEF Calm, Due, Idle
    <2>2. Calm' => \A s \in Runs : Unit(s)' => Unit(s)
      BY <1>0, <1>a, <1>14, ClaimEffect, <2>1, <1>b DEF Takes, GivesUp, Unit, Leaked,
          DiedSettled, Idle, Died, LoopParts, RecordParts, GoneHoldNothing, OnePlace,
          BeforeRunning, AfterRunning, CountsHeld, Unrecorded
    <2>3. Clean' => Clean
      BY <1>0, <1>a, <1>14, ClaimEffect DEF Clean, RecordParts, Unrecorded, Marked, Died
    <2>4. Clean' => \A s \in Runs : Unit(s)' <=> Unit(s)
      BY <1>0, <1>a, <1>14, ClaimEffect, <2>3, <1>c DEF Takes, GivesUp, Unit, Clean,
          CleanCounted, Idle, Died, LoopParts, RecordParts, GoneHoldNothing, OnePlace,
          BeforeRunning, AfterRunning, CountsHeld, Unrecorded
    <2> QED BY <1>0, <1>a, <1>14, ClaimEffect, <2>1, <2>2, <2>3, <2>4, CountKept
  <1>15. ASSUME NEW p \in Replicas, NEW r \in Runs, Stamp(p, r) PROVE Goal
    <2>1. Calm' => Calm /\ Due' <= Due
      BY <1>0, <1>a, <1>15, StampEffect DEF Calm, Due, Idle
    <2>2. Calm' => \A s \in Runs : Unit(s)' => Unit(s)
      BY <1>0, <1>a, <1>15, StampEffect, <2>1, <1>b DEF Takes, GivesUp, Unit, Leaked,
          DiedSettled, Idle, Died, LoopParts, RecordParts, GoneHoldNothing, OnePlace,
          BeforeRunning, AfterRunning, CountsHeld, Unrecorded
    <2>3. Clean' => Clean
      BY <1>0, <1>a, <1>15, StampEffect DEF Clean, RecordParts, Unrecorded, Marked, Died
    <2>4. Clean' => \A s \in Runs : Unit(s)' <=> Unit(s)
      BY <1>0, <1>a, <1>15, StampEffect, <2>3, <1>c DEF Takes, GivesUp, Unit, Clean,
          CleanCounted, Idle, Died, LoopParts, RecordParts, GoneHoldNothing, OnePlace,
          BeforeRunning, AfterRunning, CountsHeld, Unrecorded
    <2> QED BY <1>0, <1>a, <1>15, StampEffect, <2>1, <2>2, <2>3, <2>4, CountKept
  <1>16. ASSUME NEW p \in Replicas, NEW r \in Runs, TakeSlot(p, r) PROVE Goal
    <2>1. Calm' => Calm /\ Due' <= Due
      BY <1>0, <1>a, <1>16, TakeSlotEffect DEF Calm, Due, Idle
    <2>2. Calm' => \A s \in Runs : Unit(s)' => Unit(s)
      BY <1>0, <1>a, <1>16, TakeSlotEffect, <2>1, <1>b DEF Takes, GivesUp, Unit, Leaked,
          DiedSettled, Idle, Died, LoopParts, RecordParts, GoneHoldNothing, OnePlace,
          BeforeRunning, AfterRunning, CountsHeld, Unrecorded
    <2>3. Clean' => Clean
      BY <1>0, <1>a, <1>16, TakeSlotEffect DEF Clean, RecordParts, Unrecorded, Marked, Died
    <2>4. Clean' => \A s \in Runs : Unit(s)' <=> Unit(s)
      BY <1>0, <1>a, <1>16, TakeSlotEffect, <2>3, <1>c DEF Takes, GivesUp, Unit, Clean,
          CleanCounted, Idle, Died, LoopParts, RecordParts, GoneHoldNothing, OnePlace,
          BeforeRunning, AfterRunning, CountsHeld, Unrecorded
    <2> QED BY <1>0, <1>a, <1>16, TakeSlotEffect, <2>1, <2>2, <2>3, <2>4, CountKept
  <1>17. ASSUME NEW p \in Replicas, NEW r \in Runs, GiveSlot(p, r) PROVE Goal
    <2>1. Calm' => Calm /\ Due' = Due
      BY <1>0, <1>a, <1>17, GiveSlotEffect DEF Calm, Due
    <2>2. Calm' => ~Unit(r)' /\ \A s \in Runs : Unit(s)' => Unit(s)
      BY <1>0, <1>a, <1>17, GiveSlotEffect, <2>1, <1>b DEF Takes, GivesUp, Unit, Leaked,
          DiedSettled, LoopParts, RecordParts, GoneHoldNothing, OnePlace, BeforeRunning,
          AfterRunning, CountsHeld, Unrecorded
    <2>3. Clean' => Clean
      BY <1>0, <1>a, <1>17, GiveSlotEffect DEF Clean
    <2>4. Clean' => ~Unit(r)' /\ \A s \in Runs : s # r => (Unit(s)' <=> Unit(s))
      BY <1>0, <1>a, <1>17, GiveSlotEffect, <2>3, <1>c DEF Takes, GivesUp, Unit,
          LoopParts, RecordParts, GoneHoldNothing, OnePlace, BeforeRunning,
          AfterRunning, CountsHeld, Unrecorded
    <2>5. Unit(r) /\ quota' = Released(quota)
      BY <1>0, <1>a, <1>17, GiveSlotEffect DEF Unit
    <2> QED BY <1>0, <2>1, <2>2, <2>3, <2>4, <2>5, CountRemoved
  <1>18. ASSUME NEW p \in Replicas, NEW r \in Runs, CountResumed(p, r) PROVE Goal
    <2>1. CASE Takes(p, r) /\ quota' = quota + 1
      <3>1. Calm' => Calm /\ Due' = Due
        BY <1>0, <1>a, <1>18, <2>1, CountResumedEffect DEF Calm, Due
      <3>2. Calm' => \A s \in Runs : s # r /\ Unit(s)' => Unit(s)
        BY <1>0, <1>a, <1>18, <2>1, CountResumedEffect, <3>1, <1>b DEF Takes, GivesUp,
            Unit, Leaked
      <3>3. Clean' => Clean
        BY <1>0, <1>a, <1>18, <2>1, CountResumedEffect DEF Clean
      <3>4. Clean' => \A s \in Runs : s # r => (Unit(s)' <=> Unit(s))
        BY <1>0, <1>a, <1>18, <2>1, CountResumedEffect, <3>3, <1>c DEF Takes, GivesUp, Unit
      <3>5. Clean' => ~Unit(r) /\ Unit(r)'
        BY <1>0, <1>a, <1>18, <2>1, CountResumedEffect, <3>3, <1>c DEF Takes, GivesUp,
            Unit, Clean, CleanCounted, LoopParts, RecordParts, GoneHoldNothing,
            OnePlace, BeforeRunning, AfterRunning, CountsHeld, Unrecorded
      <3>6. quota' = quota + 1
        BY <1>0, <1>a, <1>18, <2>1, CountResumedEffect
      <3> QED BY <1>0, <3>1, <3>2, <3>3, <3>4, <3>5, <3>6, CountAdded
    <2>2. CASE counted' = counted /\ quota' = quota /\ faults' = faults + 1
      <3>1. Calm' => Calm /\ Due' <= Due
        BY <1>0, <1>a, <1>18, <2>2, CountResumedEffect DEF Calm, Due, Idle
      <3>2. Calm' => \A s \in Runs : Unit(s)' => Unit(s)
        BY <1>0, <1>a, <1>18, <2>2, CountResumedEffect, <3>1, <1>b DEF Takes, GivesUp,
            Unit, Leaked, DiedSettled, Idle, Died, LoopParts, RecordParts,
            GoneHoldNothing, OnePlace, BeforeRunning, AfterRunning, CountsHeld,
            Unrecorded
      <3>3. Clean' => Clean
        BY <1>0, <1>a, <1>18, <2>2, CountResumedEffect DEF Clean, RecordParts,
            Unrecorded, Marked, Died
      <3>4. Clean' => \A s \in Runs : Unit(s)' <=> Unit(s)
        BY <1>0, <1>a, <1>18, <2>2, CountResumedEffect, <3>3, <1>c DEF Takes, GivesUp,
            Unit, Clean, CleanCounted, Idle, Died, LoopParts, RecordParts,
            GoneHoldNothing, OnePlace, BeforeRunning, AfterRunning, CountsHeld,
            Unrecorded
      <3> QED BY <1>0, <1>a, <1>18, <2>2, CountResumedEffect, <3>1, <3>2, <3>3, <3>4,
          CountKept
    <2> QED BY <1>0, <1>18, <2>1, <2>2, CountResumedEffect
  <1>19. ASSUME NEW p \in Replicas, NEW r \in Runs, MarkSlot(p, r) PROVE Goal
    <2>1. Calm' => Calm /\ Due' <= Due
      BY <1>0, <1>a, <1>19, MarkSlotEffect DEF Calm, Due, Idle
    <2>2. Calm' => \A s \in Runs : Unit(s)' => Unit(s)
      BY <1>0, <1>a, <1>19, MarkSlotEffect, <2>1, <1>b DEF Takes, GivesUp, Unit, Leaked,
          DiedSettled, Idle, Died, LoopParts, RecordParts, GoneHoldNothing, OnePlace,
          BeforeRunning, AfterRunning, CountsHeld, Unrecorded
    <2>3. Clean' => Clean
      BY <1>0, <1>a, <1>19, MarkSlotEffect DEF Clean, RecordParts, Unrecorded, Marked, Died
    <2>4. Clean' => \A s \in Runs : Unit(s)' <=> Unit(s)
      BY <1>0, <1>a, <1>19, MarkSlotEffect, <2>3, <1>c DEF Takes, GivesUp, Unit, Clean,
          CleanCounted, Idle, Died, LoopParts, RecordParts, GoneHoldNothing, OnePlace,
          BeforeRunning, AfterRunning, CountsHeld, Unrecorded
    <2> QED BY <1>0, <1>a, <1>19, MarkSlotEffect, <2>1, <2>2, <2>3, <2>4, CountKept
  <1>20. ASSUME NEW p \in Replicas, Stop(p) PROVE Goal
    <2>1. Calm' => Calm /\ Due' <= Due
      BY <1>0, <1>a, <1>20, StopEffect DEF Calm, Due, Idle
    <2>2. Calm' => \A s \in Runs : Unit(s)' => Unit(s)
      BY <1>0, <1>a, <1>20, StopEffect, <2>1, <1>b DEF Takes, GivesUp, Unit, Leaked,
          DiedSettled, Idle, Died, LoopParts, RecordParts, GoneHoldNothing, OnePlace,
          BeforeRunning, AfterRunning, CountsHeld, Unrecorded
    <2>3. Clean' => Clean
      BY <1>0, <1>a, <1>20, StopEffect DEF Clean, RecordParts, Unrecorded, Marked, Died
    <2>4. Clean' => \A s \in Runs : Unit(s)' <=> Unit(s)
      BY <1>0, <1>a, <1>20, StopEffect, <2>3, <1>c DEF Takes, GivesUp, Unit, Clean,
          CleanCounted, Idle, Died, LoopParts, RecordParts, GoneHoldNothing, OnePlace,
          BeforeRunning, AfterRunning, CountsHeld, Unrecorded
    <2> QED BY <1>0, <1>a, <1>20, StopEffect, <2>1, <2>2, <2>3, <2>4, CountKept
  <1>21. ASSUME NEW p \in Replicas, Crash(p) PROVE Goal
    <2>1. Calm' => Calm /\ Due' <= Due
      BY <1>0, <1>a, <1>21, CrashEffect DEF Calm, Due, Idle
    <2>2. Calm' => \A s \in Runs : Unit(s)' => Unit(s)
      BY <1>0, <1>a, <1>21, CrashEffect, <2>1, <1>b DEF Takes, GivesUp, Unit, Leaked,
          DiedSettled, Idle, Died, LoopParts, RecordParts, GoneHoldNothing, OnePlace,
          BeforeRunning, AfterRunning, CountsHeld, Unrecorded
    <2>3. Clean' => Clean
      BY <1>0, <1>a, <1>21, CrashEffect DEF Clean, RecordParts, Unrecorded, Marked, Died
    <2>4. Clean' => \A s \in Runs : Unit(s)' <=> Unit(s)
      BY <1>0, <1>a, <1>21, CrashEffect, <2>3, <1>c DEF Takes, GivesUp, Unit, Clean,
          CleanCounted, Idle, Died, LoopParts, RecordParts, GoneHoldNothing, OnePlace,
          BeforeRunning, AfterRunning, CountsHeld, Unrecorded
    <2> QED BY <1>0, <1>a, <1>21, CrashEffect, <2>1, <2>2, <2>3, <2>4, CountKept
  <1>22. ASSUME NEW p \in Replicas, Boot(p) PROVE Goal
    <2>1. Calm' => Calm /\ Due' <= Due
      BY <1>0, <1>a, <1>22, BootEffect DEF Calm, Due, Idle
    <2>2. Calm' => \A s \in Runs : Unit(s)' => Unit(s)
      BY <1>0, <1>a, <1>22, BootEffect, <2>1, <1>b DEF Takes, GivesUp, Unit, Leaked,
          DiedSettled, Idle, Died, LoopParts, RecordParts, GoneHoldNothing, OnePlace,
          BeforeRunning, AfterRunning, CountsHeld, Unrecorded
    <2>3. Clean' => Clean
      BY <1>0, <1>a, <1>22, BootEffect DEF Clean, RecordParts, Unrecorded, Marked, Died
    <2>4. Clean' => \A s \in Runs : Unit(s)' <=> Unit(s)
      BY <1>0, <1>a, <1>22, BootEffect, <2>3, <1>c DEF Takes, GivesUp, Unit, Clean,
          CleanCounted, Idle, Died, LoopParts, RecordParts, GoneHoldNothing, OnePlace,
          BeforeRunning, AfterRunning, CountsHeld, Unrecorded
    <2> QED BY <1>0, <1>a, <1>22, BootEffect, <2>1, <2>2, <2>3, <2>4, CountKept
  <1>23. ASSUME NEW p \in Replicas, Heartbeat(p) PROVE Goal
    <2>1. Calm' => Calm /\ Due' <= Due
      BY <1>0, <1>a, <1>23, HeartbeatEffect DEF Calm, Due, Idle
    <2>2. Calm' => \A s \in Runs : Unit(s)' => Unit(s)
      BY <1>0, <1>a, <1>23, HeartbeatEffect, <2>1, <1>b DEF Takes, GivesUp, Unit,
          Leaked, DiedSettled, Idle, Died, LoopParts, RecordParts, GoneHoldNothing,
          OnePlace, BeforeRunning, AfterRunning, CountsHeld, Unrecorded
    <2>3. Clean' => Clean
      BY <1>0, <1>a, <1>23, HeartbeatEffect DEF Clean, RecordParts, Unrecorded, Marked, Died
    <2>4. Clean' => \A s \in Runs : Unit(s)' <=> Unit(s)
      BY <1>0, <1>a, <1>23, HeartbeatEffect, <2>3, <1>c DEF Takes, GivesUp, Unit, Clean,
          CleanCounted, Idle, Died, LoopParts, RecordParts, GoneHoldNothing, OnePlace,
          BeforeRunning, AfterRunning, CountsHeld, Unrecorded
    <2> QED BY <1>0, <1>a, <1>23, HeartbeatEffect, <2>1, <2>2, <2>3, <2>4, CountKept
  <1>24. ASSUME NEW p \in Replicas, GoStale(p) PROVE Goal
    <2>1. Calm' => Calm /\ Due' <= Due
      BY <1>0, <1>a, <1>24, GoStaleEffect DEF Calm, Due, Idle
    <2>2. Calm' => \A s \in Runs : Unit(s)' => Unit(s)
      BY <1>0, <1>a, <1>24, GoStaleEffect, <2>1, <1>b DEF Takes, GivesUp, Unit, Leaked,
          DiedSettled, Idle, Died, LoopParts, RecordParts, GoneHoldNothing, OnePlace,
          BeforeRunning, AfterRunning, CountsHeld, Unrecorded
    <2>3. Clean' => Clean
      BY <1>0, <1>a, <1>24, GoStaleEffect DEF Clean, RecordParts, Unrecorded, Marked, Died
    <2>4. Clean' => \A s \in Runs : Unit(s)' <=> Unit(s)
      BY <1>0, <1>a, <1>24, GoStaleEffect, <2>3, <1>c DEF Takes, GivesUp, Unit, Clean,
          CleanCounted, Idle, Died, LoopParts, RecordParts, GoneHoldNothing, OnePlace,
          BeforeRunning, AfterRunning, CountsHeld, Unrecorded
    <2> QED BY <1>0, <1>a, <1>24, GoStaleEffect, <2>1, <2>2, <2>3, <2>4, CountKept
  <1>25. ASSUME NEW p \in Replicas, SweepList(p) PROVE Goal
    <2>1. Calm' => Calm /\ Due' <= Due
      BY <1>0, <1>a, <1>25, SweepListEffect DEF Calm, Due, Idle
    <2>2. Calm' => \A s \in Runs : Unit(s)' => Unit(s)
      BY <1>0, <1>a, <1>25, SweepListEffect, <2>1, <1>b DEF Takes, GivesUp, Unit,
          Leaked, DiedSettled, Idle, Died, LoopParts, RecordParts, GoneHoldNothing,
          OnePlace, BeforeRunning, AfterRunning, CountsHeld, Unrecorded
    <2>3. Clean' => Clean
      BY <1>0, <1>a, <1>25, SweepListEffect DEF Clean, RecordParts, Unrecorded, Marked, Died
    <2>4. Clean' => \A s \in Runs : Unit(s)' <=> Unit(s)
      BY <1>0, <1>a, <1>25, SweepListEffect, <2>3, <1>c DEF Takes, GivesUp, Unit, Clean,
          CleanCounted, Idle, Died, LoopParts, RecordParts, GoneHoldNothing, OnePlace,
          BeforeRunning, AfterRunning, CountsHeld, Unrecorded
    <2> QED BY <1>0, <1>a, <1>25, SweepListEffect, <2>1, <2>2, <2>3, <2>4, CountKept
  <1>26. ASSUME SweepFail PROVE Goal
    <2>1. Calm' => Calm /\ Due' <= Due
      BY <1>0, <1>a, <1>26, SweepFailEffect DEF Calm, Due, Idle
    <2>2. Calm' => \A s \in Runs : Unit(s)' => Unit(s)
      BY <1>0, <1>a, <1>26, SweepFailEffect, <2>1, <1>b DEF Takes, GivesUp, Unit,
          Leaked, DiedSettled, Idle, Died, LoopParts, RecordParts, GoneHoldNothing,
          OnePlace, BeforeRunning, AfterRunning, CountsHeld, Unrecorded
    <2>3. Clean' => Clean
      BY <1>0, <1>a, <1>26, SweepFailEffect DEF Clean, RecordParts, Unrecorded, Marked, Died
    <2>4. Clean' => \A s \in Runs : Unit(s)' <=> Unit(s)
      BY <1>0, <1>a, <1>26, SweepFailEffect, <2>3, <1>c DEF Takes, GivesUp, Unit, Clean,
          CleanCounted, Idle, Died, LoopParts, RecordParts, GoneHoldNothing, OnePlace,
          BeforeRunning, AfterRunning, CountsHeld, Unrecorded
    <2> QED BY <1>0, <1>a, <1>26, SweepFailEffect, <2>1, <2>2, <2>3, <2>4, CountKept
  <1>27. ASSUME SweepPick PROVE Goal
    <2>1. Calm' => Calm /\ Due' <= Due
      BY <1>0, <1>a, <1>27, SweepPickEffect DEF Calm, Due, Idle
    <2>2. Calm' => \A s \in Runs : Unit(s)' => Unit(s)
      BY <1>0, <1>a, <1>27, SweepPickEffect, <2>1, <1>b DEF Takes, GivesUp, Unit,
          Leaked, DiedSettled, Idle, Died, LoopParts, RecordParts, GoneHoldNothing,
          OnePlace, BeforeRunning, AfterRunning, CountsHeld, Unrecorded
    <2>3. Clean' => Clean
      BY <1>0, <1>a, <1>27, SweepPickEffect DEF Clean, RecordParts, Unrecorded, Marked, Died
    <2>4. Clean' => \A s \in Runs : Unit(s)' <=> Unit(s)
      BY <1>0, <1>a, <1>27, SweepPickEffect, <2>3, <1>c DEF Takes, GivesUp, Unit, Clean,
          CleanCounted, Idle, Died, LoopParts, RecordParts, GoneHoldNothing, OnePlace,
          BeforeRunning, AfterRunning, CountsHeld, Unrecorded
    <2> QED BY <1>0, <1>a, <1>27, SweepPickEffect, <2>1, <2>2, <2>3, <2>4, CountKept
  <1>28. ASSUME SweepMark PROVE Goal
    <2>1. Calm' => Calm /\ Due' <= Due
      BY <1>0, <1>a, <1>28, SweepMarkEffect DEF Calm, Due, Idle
    <2>2. Calm' => \A s \in Runs : Unit(s)' => Unit(s)
      <3> SUFFICES ASSUME Calm, NEW s \in Runs, Unit(s)', ~Unit(s) PROVE FALSE
        BY <2>1
      <3>1. counted' = counted /\ \A q \in Replicas : at'[q][s] = at[q][s]
        BY <1>0, <1>28, SweepMarkEffect
      <3>2. /\ row'[s].userSlot = row[s].userSlot
            /\ (row'[s].status = "running" => row[s].status = "running")
        BY <1>0, <1>28, SweepMarkEffect
      <3>3. sweep'.pc = "count" /\ (s \in Leaked(sweep.id))'
        BY <3>1, <3>2 DEF Unit
      <3>4. sweep'.id = sweep.id /\ Marked(sweep.id) # {}
        BY <1>0, <1>28, <3>3, SweepMarkEffect
      <3>5. row'[s].userSlot /\ row'[s].owner = sweep.id /\ row'[s].error = Died
        BY <3>3, <3>4 DEF Leaked
      <3>6. s \notin Marked(sweep.id)
        BY <3>2, <3>5 DEF Unit, Marked
      <3>7. row[s].error = Died /\ row[s].owner = sweep.id
        BY <1>0, <1>28, <3>5, <3>6, SweepMarkEffect
      <3> QED BY <1>0, <3>4, <3>7 DEF RecordParts, DiedSettled, Marked
    <2>3. Clean' => Clean
      BY <1>0, <1>a, <1>28, SweepMarkEffect DEF Clean, RecordParts, Unrecorded, Marked, Died
    <2>4. Clean' => \A s \in Runs : Unit(s)' <=> Unit(s)
      BY <1>0, <1>a, <1>28, SweepMarkEffect, <2>3, <1>c DEF Takes, GivesUp, Unit, Clean,
          CleanCounted, Idle, Died, LoopParts, RecordParts, GoneHoldNothing, OnePlace,
          BeforeRunning, AfterRunning, CountsHeld, Unrecorded
    <2> QED BY <1>0, <1>a, <1>28, SweepMarkEffect, <2>1, <2>2, <2>3, <2>4, CountKept
  <1>29. ASSUME SweepCount PROVE Goal
    <2>1. Leaked(sweep.id) \subseteq Units /\ IsFiniteSet(Leaked(sweep.id))
      BY <1>0, <1>29, SweepCountEffect, OwnershipAssumption, FS_Subset DEF Units, Unit,
          Leaked
    <2>2. ASSUME Calm, NEW s \in Runs, Unit(s)' PROVE Unit(s) /\ s \notin Leaked(sweep.id)
      <3>1. Unit(s)
        BY <1>0, <1>29, <2>2, SweepCountEffect DEF Unit
      <3>2. CASE row[s].error = Died
        <4>1. /\ row[s].status = "ended"
              /\ (\A p \in Replicas : at[p][s] \in {"none", "checked"})
          BY <1>0, <2>2, <3>2 DEF RecordParts, DiedSettled
        <4>2. counted[s] = {}
          BY <1>0, <1>a, <4>1 DEF RecordParts, CountsHeld
        <4> QED BY <1>0, <1>29, <2>2, <4>1, <4>2, SweepCountEffect DEF Unit
      <3> QED BY <3>1, <3>2 DEF Leaked
    <2>3. Calm' => Calm
      BY <1>0, <1>29, SweepCountEffect DEF Calm
    <2>4. ~Clean'
      BY <1>0, <1>29, <1>c, SweepCountEffect DEF Clean
    <2>5. ASSUME Calm' PROVE quota' >= Cardinality(Units)' + Due'
      <3>1. Units' \subseteq Units \ Leaked(sweep.id)
        BY <2>2, <2>3, <2>5 DEF Units
      <3>2. /\ IsFiniteSet(Units \ Leaked(sweep.id))
            /\ Cardinality(Units \ Leaked(sweep.id))
                 = Cardinality(Units) - Cardinality(Units \cap Leaked(sweep.id))
        BY <1>0, UnitsFinite, FS_Difference
      <3>3. Cardinality(Units \ Leaked(sweep.id))
              = Cardinality(Units) - Cardinality(Leaked(sweep.id))
        <4>1. Units \cap Leaked(sweep.id) = Leaked(sweep.id)
          BY <2>1
        <4> QED BY <3>2, <4>1
      <3>4. Cardinality(Units') <= Cardinality(Units \ Leaked(sweep.id))
        BY <3>1, <3>2, FS_Subset
      <3>5. Due' = Cardinality(Leaked(sweep.id)) /\ Due = 0 /\ quota' = quota
        BY <1>0, <1>29, SweepCountEffect DEF Due
      <3>6. quota >= Cardinality(Units) + Due
        BY <2>3, <2>5 DEF CountInv, Covered
      <3>7. /\ Cardinality(Units) \in Nat /\ Cardinality(Units)' \in Nat
            /\ Cardinality(Leaked(sweep.id)) \in Nat
        BY <1>0, <2>1, UnitsFinite, UnitsFiniteNext, FS_CardinalityType
      <3> QED BY <1>a, <3>3, <3>4, <3>5, <3>6, <3>7
    <2> QED BY <2>4, <2>5 DEF Covered, Exact
  <1>30. ASSUME SweepDecrement PROVE Goal
    <2>1. Calm' => Calm
      BY <1>0, <1>30, SweepDecrementEffect DEF Calm
    <2>2. ~Clean'
      BY <1>0, <1>30, <1>c, SweepDecrementEffect DEF Clean
    <2>3. \A s \in Runs : Unit(s)' => Unit(s)
      BY <1>0, <1>30, SweepDecrementEffect DEF Unit
    <2>4. ASSUME Calm' PROVE quota' >= Cardinality(Units)' + Due'
      <3>1. Cardinality(Units') <= Cardinality(Units)
        BY <1>0, <2>3, UnitsFinite, FS_Subset DEF Units
      <3>2. Due' = 0 /\ Due = sweep.leaked
        BY <1>0, <1>30, SweepDecrementEffect DEF Due
      <3>3. quota >= Cardinality(Units) + Due
        BY <2>1, <2>4 DEF CountInv, Covered
      <3>4. quota' = IF quota > sweep.leaked THEN quota - sweep.leaked ELSE 0
        BY <1>0, <1>30, SweepDecrementEffect
      <3>5. Cardinality(Units) \in Nat /\ Cardinality(Units)' \in Nat
        BY <1>0, UnitsFinite, UnitsFiniteNext
      <3> QED BY <1>a, <3>1, <3>2, <3>3, <3>4, <3>5
    <2> QED BY <2>2, <2>4 DEF Covered, Exact
  <1>31. ASSUME SweepQueued PROVE Goal
    <2>1. Calm' => Calm /\ Due' <= Due
      BY <1>0, <1>a, <1>31, SweepQueuedEffect DEF Calm, Due, Idle
    <2>2. Calm' => \A s \in Runs : Unit(s)' => Unit(s)
      BY <1>0, <1>a, <1>31, SweepQueuedEffect, <2>1, <1>b DEF Takes, GivesUp, Unit,
          Leaked, DiedSettled, Idle, Died, LoopParts, RecordParts, GoneHoldNothing,
          OnePlace, BeforeRunning, AfterRunning, CountsHeld, Unrecorded
    <2>3. Clean' => Clean
      BY <1>0, <1>a, <1>31, SweepQueuedEffect DEF Clean, RecordParts, Unrecorded,
          Marked, Died
    <2>4. Clean' => \A s \in Runs : Unit(s)' <=> Unit(s)
      BY <1>0, <1>a, <1>31, SweepQueuedEffect, <2>3, <1>c DEF Takes, GivesUp, Unit,
          Clean, CleanCounted, Idle, Died, LoopParts, RecordParts, GoneHoldNothing,
          OnePlace, BeforeRunning, AfterRunning, CountsHeld, Unrecorded
    <2> QED BY <1>0, <1>a, <1>31, SweepQueuedEffect, <2>1, <2>2, <2>3, <2>4, CountKept
  <1>32. ASSUME SweepDelete PROVE Goal
    <2>1. Calm' => Calm /\ Due' <= Due
      BY <1>0, <1>a, <1>32, SweepDeleteEffect DEF Calm, Due, Idle
    <2>2. Calm' => \A s \in Runs : Unit(s)' => Unit(s)
      BY <1>0, <1>a, <1>32, SweepDeleteEffect, <2>1, <1>b DEF Takes, GivesUp, Unit,
          Leaked, DiedSettled, Idle, Died, LoopParts, RecordParts, GoneHoldNothing,
          OnePlace, BeforeRunning, AfterRunning, CountsHeld, Unrecorded
    <2>3. Clean' => Clean
      BY <1>0, <1>a, <1>32, SweepDeleteEffect DEF Clean, RecordParts, Unrecorded,
          Marked, Died
    <2>4. Clean' => \A s \in Runs : Unit(s)' <=> Unit(s)
      BY <1>0, <1>a, <1>32, SweepDeleteEffect, <2>3, <1>c DEF Takes, GivesUp, Unit,
          Clean, CleanCounted, Idle, Died, LoopParts, RecordParts, GoneHoldNothing,
          OnePlace, BeforeRunning, AfterRunning, CountsHeld, Unrecorded
    <2> QED BY <1>0, <1>a, <1>32, SweepDeleteEffect, <2>1, <2>2, <2>3, <2>4, CountKept
  <1>33. ASSUME HeartbeatSweep PROVE Goal
    <2>1. Calm' => Calm /\ Due' <= Due
      BY <1>0, <1>a, <1>33, HeartbeatSweepEffect DEF Calm, Due, Idle
    <2>2. Calm' => \A s \in Runs : Unit(s)' => Unit(s)
      BY <1>0, <1>a, <1>33, HeartbeatSweepEffect, <2>1, <1>b DEF Takes, GivesUp, Unit,
          Leaked, DiedSettled, Idle, Died, LoopParts, RecordParts, GoneHoldNothing,
          OnePlace, BeforeRunning, AfterRunning, CountsHeld, Unrecorded
    <2>3. Clean' => Clean
      BY <1>0, <1>a, <1>33, HeartbeatSweepEffect DEF Clean, RecordParts, Unrecorded,
          Marked, Died
    <2>4. Clean' => \A s \in Runs : Unit(s)' <=> Unit(s)
      BY <1>0, <1>a, <1>33, HeartbeatSweepEffect, <2>3, <1>c DEF Takes, GivesUp, Unit,
          Clean, CleanCounted, Idle, Died, LoopParts, RecordParts, GoneHoldNothing,
          OnePlace, BeforeRunning, AfterRunning, CountsHeld, Unrecorded
    <2> QED BY <1>0, <1>a, <1>33, HeartbeatSweepEffect, <2>1, <2>2, <2>3, <2>4, CountKept
  <1>34. ASSUME NEW r \in Runs, GoQuiet(r) PROVE Goal
    <2>1. Calm' => Calm /\ Due' <= Due
      BY <1>0, <1>a, <1>34, GoQuietEffect DEF Calm, Due, Idle
    <2>2. Calm' => \A s \in Runs : Unit(s)' => Unit(s)
      BY <1>0, <1>a, <1>34, GoQuietEffect, <2>1, <1>b DEF Takes, GivesUp, Unit, Leaked,
          DiedSettled, Idle, Died, LoopParts, RecordParts, GoneHoldNothing, OnePlace,
          BeforeRunning, AfterRunning, CountsHeld, Unrecorded
    <2>3. Clean' => Clean
      BY <1>0, <1>a, <1>34, GoQuietEffect DEF Clean, RecordParts, Unrecorded, Marked, Died
    <2>4. Clean' => \A s \in Runs : Unit(s)' <=> Unit(s)
      BY <1>0, <1>a, <1>34, GoQuietEffect, <2>3, <1>c DEF Takes, GivesUp, Unit, Clean,
          CleanCounted, Idle, Died, LoopParts, RecordParts, GoneHoldNothing, OnePlace,
          BeforeRunning, AfterRunning, CountsHeld, Unrecorded
    <2> QED BY <1>0, <1>a, <1>34, GoQuietEffect, <2>1, <2>2, <2>3, <2>4, CountKept
  <1>35. ASSUME UNCHANGED vars PROVE Goal
    BY <1>35 DEF vars, CountInv, Covered, Exact, Calm, Clean, Units, Unit, Due, Leaked
  <1> QED
    BY <1>0, <1>1, <1>2, <1>3, <1>4, <1>5, <1>6, <1>7, <1>8, <1>9, <1>10, <1>11, <1>12,
        <1>13, <1>14, <1>15, <1>16, <1>17, <1>18, <1>19, <1>20, <1>21, <1>22, <1>23,
        <1>24, <1>25, <1>26, <1>27, <1>28, <1>29, <1>30, <1>31, <1>32, <1>33, <1>34,
        <1>35 DEF Next, RunStep, SweepStep, CountInv

-----------------------------------------------------------------------------
(* The whole inductive invariant holds of every reachable state. *)
LEMMA Invariance == Spec => []CountInv
  <1>1. Init => CountInv
    <2> SUFFICES ASSUME Init PROVE CountInv
      OBVIOUS
    <2>1. TypeOK
      <3>1. row \in [Runs -> Rows]
        BY DEF Init, Rows
      <3>2. sweep \in [by : Replicas \cup {NoReplica}, left : SUBSET Replicas,
                  id : Replicas \cup {NoReplica},
                  pc : {"list", "pick", "mark", "count", "decrement", "queued", "delete"},
                  marked : SUBSET Runs, leaked : Nat]
        BY DEF Init, Idle
      <3>3. at \in [Replicas -> [Runs -> Places]]
        BY DEF Init, Places
      <3>4. /\ quota \in Nat /\ crashes \in 0..MaxCrashes /\ faults \in 0..MaxFaults
            /\ parks \in 0..MaxParks /\ boots \in 0..MaxBoots
        BY OwnershipAssumption DEF Init
      <3>5. lostParked \in BOOLEAN /\ doubted \in BOOLEAN
        BY DEF Init
      <3>6. /\ up \subseteq Replicas /\ beat \in [Replicas -> {"none", "fresh", "stale"}]
            /\ counted \in [Runs -> SUBSET Replicas]
            /\ resumer \in Replicas \cup {NoReplica}
            /\ unstamped \subseteq Runs /\ quit \subseteq Replicas
        BY DEF Init
      <3> QED BY <3>1, <3>2, <3>3, <3>4, <3>5, <3>6 DEF TypeOK
    <2>2. \A r \in Runs :
            /\ \A p \in Replicas : at[p][r] = "none" /\ beat[p] = "fresh"
            /\ row[r].status = "none" /\ ~row[r].userSlot /\ row[r].error = "none"
            /\ counted[r] = {}
      BY DEF Init
    <2>3. /\ sweep.pc = "list" /\ sweep.left = {} /\ sweep.id = NoReplica /\ quota = 0
          /\ \A p \in Replicas : beat[p] = "fresh" /\ p \in up
      BY DEF Init, Idle
    <2>4. ~doubted /\ up = Replicas
      BY DEF Init
    <2>5. LoopParts
      BY <2>2, <2>3, <2>4 DEF LoopParts, GoneHoldNothing, UpIsFresh, OnePass,
          BeforeRunning, AfterRunning, OwnerNamed, OnePlace, Passing, Holding,
          Dispatching
    <2>6. RecordParts
      <3>1. SweptAreDown /\ NoSweep
        BY <2>3, <2>4, OwnershipAssumption DEF SweptAreDown, NoSweep
      <3>2. CountsHeld /\ Unrecorded
        BY <2>2 DEF CountsHeld, Unrecorded
      <3>3. OwnerKnown /\ OwnerStopped
        BY <2>2 DEF OwnerKnown, OwnerStopped
      <3>4. DiedSettled /\ CleanCounted
        BY <2>2 DEF DiedSettled, CleanCounted, Died, Dispatching
      <3> QED BY <3>1, <3>2, <3>3, <3>4 DEF RecordParts
    <2>7. Cardinality(Units) = 0 /\ Due = 0
      <3>1. Units = {}
        BY <2>2, <2>3 DEF Units, Unit
      <3> QED BY <3>1, <2>3, FS_EmptySet DEF Due
    <2> QED BY <2>1, <2>3, <2>5, <2>6, <2>7 DEF CountInv, RecordInv, LoopInv, Covered, Exact
  <1> QED
    BY <1>1, CountStep, PTL DEF Spec

(* The state has its types in every reachable state. *)
THEOREM TypeCorrect == Spec => []TypeOK
  BY Invariance, PTL DEF CountInv, RecordInv, LoopInv

(* A run never has two loops (resume.go, boot and sweepers), as long as no *)
(* sweep deleted the heartbeat row of a running replica and the owner      *)
(* stamp of the run's own resumes was written: for every number of         *)
(* replicas, runs, crashes, restarts and other failed statements, failed   *)
(* stamps of other runs among them.                                        *)
THEOREM OneLoopAlways == Spec => []OneLoop
  <1>1. ASSUME CountInv PROVE OneLoop
    <2> SUFFICES ASSUME ~doubted, NEW r \in Runs \ unstamped
                 PROVE  Cardinality({p \in up : at[p][r] \in Holding}) <= 1
      BY DEF OneLoop
    <2> DEFINE H == {p \in up : at[p][r] \in Holding}
    <2>1. \A p, q \in H : p = q
      BY <1>1 DEF CountInv, RecordInv, LoopInv, LoopParts, OnePlace, TypeOK, Holding,
          Dispatching
    <2> HIDE DEF H
    <2>2. H = {} \/ \E p : H = {p}
      BY <2>1
    <2>3. H = {} => Cardinality(H) = 0
      BY FS_EmptySet
    <2>4. \A p : H = {p} => Cardinality(H) = 1
      BY FS_Singleton
    <2>5. Cardinality(H) <= 1
      <3>1. CASE H = {}
        BY <3>1, <2>3
      <3>2. CASE \E p : H = {p}
        BY <3>2, <2>4
      <3> QED BY <2>2, <3>1, <3>2
    <2> QED
      BY <2>5 DEF H
  <1> QED
    BY <1>1, Invariance, PTL

(* A set of pairs whose second components are all different has as many    *)
(* members as there are second components.                                 *)
LEMMA PairsAsRuns ==
    ASSUME NEW S, NEW T \in SUBSET Runs, S \subseteq Replicas \X Runs,
           \A a, b \in S : a[2] = b[2] => a = b,
           \A a \in S : a[2] \in T,
           \A r \in T : \E a \in S : a[2] = r
    PROVE  IsFiniteSet(T) /\ Cardinality(S) = Cardinality(T)
  <1> DEFINE f == [a \in S |-> a[2]]
  <1>1. IsFiniteSet(S) /\ IsFiniteSet(T)
    BY OwnershipAssumption, FS_Product, FS_Subset
  <1>2. f \in Bijection(S, T)
    <2>1. f \in [S -> T] /\ (\A a, b \in S : f[a] = f[b] => a = b)
      OBVIOUS
    <2>2. \A r \in T : \E a \in S : f[a] = r
      OBVIOUS
    <2> HIDE DEF f
    <2> QED BY <2>1, <2>2, Fun_IsBij
  <1>3. ExistsBijection(S, T)
    BY <1>2, Fun_ExistsBij
  <1> QED BY <1>1, <1>3, FS_Bijection

(* The runs some process owes a count for. *)
OwedRuns == {r \in Runs : counted[r] # {}}

(* A count is owed by one process. *)
LEMMA OwedOnce ==
    ASSUME CountInv, ~doubted, unstamped = {}
    PROVE  IsFiniteSet(OwedRuns) /\ Cardinality(Owed) = Cardinality(OwedRuns)
  <1>0. counted \in [Runs -> SUBSET Replicas]
    BY DEF CountInv, RecordInv, LoopInv, TypeOK
  <1>1. Owed \subseteq Replicas \X Runs
    BY DEF Owed
  <1>2. ASSUME NEW a \in Owed, NEW b \in Owed, a[2] = b[2] PROVE a = b
    <2>1. /\ a \in Replicas \X Runs /\ b \in Replicas \X Runs /\ a[1] \in counted[a[2]]
          /\ b[1] \in counted[b[2]]
      BY DEF Owed
    <2>2. a[1] = b[1]
      BY <1>2, <2>1 DEF CountInv, RecordInv, LoopInv, RecordParts, LoopParts,
          CountsHeld, OnePlace
    <2> QED BY <1>2, <2>1, <2>2
  <1>3. \A a \in Owed : a[2] \in OwedRuns
    BY DEF Owed, OwedRuns
  <1>4. ASSUME NEW r \in OwedRuns PROVE \E a \in Owed : a[2] = r
    <2>1. PICK p \in Replicas : p \in counted[r]
      BY <1>0 DEF OwedRuns
    <2>2. <<p, r>> \in Owed /\ <<p, r>>[2] = r
      BY <2>1 DEF Owed, OwedRuns
    <2> QED BY <2>2
  <1>5. OwedRuns \in SUBSET Runs
    BY DEF OwedRuns
  <1> QED BY <1>1, <1>2, <1>3, <1>4, <1>5, PairsAsRuns

(* Where no replica boots again under its id, none crashes with parked     *)
(* runs and no owner stamp fails, the sweeper's reaps, done again after failed statements, and the  *)
(* releases and hand-overs never take back a count another run holds       *)
(* (replicas_sweeper.go, resume.go).                                       *)
THEOREM ReapTakesNoOthersAlways == Spec => []ReapTakesNoOthers
  <1>1. ASSUME CountInv PROVE ReapTakesNoOthers
    <2> SUFFICES ASSUME Calm PROVE quota >= Cardinality(Owed)
      BY DEF ReapTakesNoOthers, QuotaCovers, Calm
    <2>0. TypeOK /\ ~doubted /\ unstamped = {}
      BY <1>1 DEF CountInv, RecordInv, LoopInv, RecordParts, SweptAreDown, Calm
    <2>1. OwedRuns \subseteq Units
      BY DEF OwedRuns, Units, Unit
    <2>2. Cardinality(OwedRuns) <= Cardinality(Units)
      BY <2>0, <2>1, UnitsFinite, FS_Subset
    <2>3. Cardinality(Owed) = Cardinality(OwedRuns) /\ Cardinality(OwedRuns) \in Nat
      BY <1>1, <2>0, OwedOnce, FS_CardinalityType
    <2>4. quota >= Cardinality(Units) + Due
      BY <1>1 DEF CountInv, Covered
    <2>5. Cardinality(Units) \in Nat /\ Due \in Nat /\ quota \in Nat
      BY <2>0, UnitsFinite
    <2> QED BY <2>2, <2>3, <2>4, <2>5
  <1> QED
    BY <1>1, Invariance, PTL

(* Two finite sets without a common element have as many elements together   *)
(* as apart.                                                                 *)
LEMMA DisjointUnion ==
  ASSUME NEW S, NEW T, IsFiniteSet(S), IsFiniteSet(T), S \cap T = {}
  PROVE  /\ IsFiniteSet(S \cup T)
         /\ Cardinality(S \cup T) = Cardinality(S) + Cardinality(T)
  <1>1. IsFiniteSet(S \cup T)
    BY FS_Union
  <1>2. Cardinality(S \cup T) = Cardinality(S) + Cardinality(T) - Cardinality(S \cap T)
    BY FS_Union
  <1>3. Cardinality(S \cap T) = 0
    BY FS_EmptySet
  <1>4. Cardinality(S) \in Nat /\ Cardinality(T) \in Nat
    BY FS_CardinalityType
  <1> QED BY <1>1, <1>2, <1>3, <1>4

(* A failed owner stamp is a failed statement. *)
FaultSeen == faults = 0 => unstamped = {}

(* It stays so: the stamp is the only step that leaves a run unstamped. *)
LEMMA FaultsSeen == Spec => []FaultSeen
  <1>1. Init => FaultSeen
    BY DEF Init, FaultSeen
  <1>2. ASSUME TypeOK, FaultSeen, [Next]_vars PROVE FaultSeen'
    <2> SUFFICES \/ faults' = faults + 1
                 \/ faults' = faults /\ unstamped' = unstamped
      BY <1>2, OwnershipAssumption DEF FaultSeen, TypeOK
    <2> DEFINE Goal == \/ faults' = faults + 1
                       \/ faults' = faults /\ unstamped' = unstamped
    <2> USE <1>2 DEF HistoryKept
    <2>1. ASSUME NEW p \in Replicas, NEW r \in Runs, AdmitUser(p, r) PROVE Goal
      BY <2>1, AdmitUserEffect
    <2>2. ASSUME NEW p \in Replicas, NEW r \in Runs, QueueForUser(p, r) PROVE Goal
      BY <2>2, QueueForUserEffect
    <2>3. ASSUME NEW p \in Replicas, NEW r \in Runs, QueueForSlot(p, r) PROVE Goal
      BY <2>3, QueueForSlotEffect
    <2>4. ASSUME NEW p \in Replicas, NEW r \in Runs, Park(p, r) PROVE Goal
      BY <2>4, ParkEffect
    <2>5. ASSUME NEW p \in Replicas, NEW r \in Runs, Check(p, r) PROVE Goal
      BY <2>5, CheckEffect
    <2>6. ASSUME NEW p \in Replicas, NEW r \in Runs, Unclaim(p, r) PROVE Goal
      BY <2>6, UnclaimEffect
    <2>7. ASSUME NEW p \in Replicas, NEW r \in Runs, Refuse(p, r) PROVE Goal
      BY <2>7, RefuseEffect
    <2>8. ASSUME NEW p \in Replicas, NEW r \in Runs, CancelUnheld(p, r) PROVE Goal
      BY <2>8, CancelUnheldEffect
    <2>9. ASSUME NEW p \in Replicas, NEW r \in Runs, PollUser(p, r) PROVE Goal
      BY <2>9, PollUserEffect
    <2>10. ASSUME NEW p \in Replicas, NEW r \in Runs, StartRun(p, r) PROVE Goal
      BY <2>10, StartRunEffect
    <2>11. ASSUME NEW p \in Replicas, NEW r \in Runs, EndLoop(p, r) PROVE Goal
      BY <2>11, EndLoopEffect
    <2>12. ASSUME NEW p \in Replicas, NEW r \in Runs, ReleaseUser(p, r) PROVE Goal
      BY <2>12, ReleaseUserEffect
    <2>13. ASSUME NEW p \in Replicas, NEW r \in Runs, Unpark(p, r) PROVE Goal
      BY <2>13, UnparkEffect
    <2>14. ASSUME NEW p \in Replicas, NEW r \in Runs, Claim(p, r) PROVE Goal
      BY <2>14, ClaimEffect
    <2>15. ASSUME NEW p \in Replicas, NEW r \in Runs, Stamp(p, r) PROVE Goal
      BY <2>15, StampEffect
    <2>16. ASSUME NEW p \in Replicas, NEW r \in Runs, TakeSlot(p, r) PROVE Goal
      BY <2>16, TakeSlotEffect
    <2>17. ASSUME NEW p \in Replicas, NEW r \in Runs, GiveSlot(p, r) PROVE Goal
      BY <2>17, GiveSlotEffect
    <2>18. ASSUME NEW p \in Replicas, NEW r \in Runs, CountResumed(p, r) PROVE Goal
      BY <2>18, CountResumedEffect
    <2>19. ASSUME NEW p \in Replicas, NEW r \in Runs, MarkSlot(p, r) PROVE Goal
      BY <2>19, MarkSlotEffect
    <2>20. ASSUME NEW p \in Replicas, Stop(p) PROVE Goal
      BY <2>20, StopEffect
    <2>21. ASSUME NEW p \in Replicas, Crash(p) PROVE Goal
      BY <2>21, CrashEffect
    <2>22. ASSUME NEW p \in Replicas, Boot(p) PROVE Goal
      BY <2>22, BootEffect
    <2>23. ASSUME NEW p \in Replicas, Heartbeat(p) PROVE Goal
      BY <2>23, HeartbeatEffect
    <2>24. ASSUME NEW p \in Replicas, GoStale(p) PROVE Goal
      BY <2>24, GoStaleEffect
    <2>25. ASSUME NEW p \in Replicas, SweepList(p) PROVE Goal
      BY <2>25, SweepListEffect
    <2>26. CASE SweepFail
      BY <2>26, SweepFailEffect
    <2>27. CASE SweepPick
      BY <2>27, SweepPickEffect
    <2>28. CASE SweepMark
      BY <2>28, SweepMarkEffect
    <2>29. CASE SweepCount
      BY <2>29, SweepCountEffect
    <2>30. CASE SweepDecrement
      BY <2>30, SweepDecrementEffect
    <2>31. CASE SweepQueued
      BY <2>31, SweepQueuedEffect
    <2>32. CASE SweepDelete
      BY <2>32, SweepDeleteEffect
    <2>33. CASE HeartbeatSweep
      BY <2>33, HeartbeatSweepEffect
    <2>34. ASSUME NEW r \in Runs, GoQuiet(r) PROVE Goal
      BY <2>34, GoQuietEffect
    <2>35. CASE UNCHANGED vars
      BY <2>35 DEF vars
    <2> QED
      BY <2>1, <2>2, <2>3, <2>4, <2>5, <2>6, <2>7, <2>8, <2>9, <2>10, <2>11, <2>12,
          <2>13, <2>14, <2>15, <2>16, <2>17, <2>18, <2>19, <2>20, <2>21, <2>22,
          <2>23, <2>24, <2>25, <2>26, <2>27, <2>28, <2>29, <2>30, <2>31, <2>32,
          <2>33, <2>34, <2>35 DEF Next, RunStep, SweepStep
  <1>3. Spec => []TypeOK
    BY TypeCorrect
  <1> QED
    BY <1>1, <1>2, <1>3, PTL DEF Spec

(* Where no replica crashed, no statement failed and every row was ended   *)
(* by its loop or by a resume, the shared count equals the counts owed,    *)
(* recorded on the rows of stopped replicas and being given back, through  *)
(* stops, boots, parks and resumes (resume.go, cluster user quota).        *)
THEOREM CleanHandoffExactAlways == Spec => []CleanHandoffExact
  <1>1. ASSUME CountInv, FaultSeen PROVE CleanHandoffExact
    <2> SUFFICES ASSUME Clean
                 PROVE  quota = Cardinality(Owed) + Cardinality(Recorded) + Cardinality(Giving)
      BY <1>1 DEF CleanHandoffExact, Clean, FaultSeen
    <2> DEFINE GivingRuns == {r \in Runs : \E p \in Replicas : at[p][r] \in {"dispatchGiving", "refusedGiving"}}
    <2>0. TypeOK /\ LoopParts /\ RecordParts
      BY <1>1 DEF CountInv, RecordInv, LoopInv
    <2>a. ~doubted /\ unstamped = {} /\ sweep.pc = "list" /\ up \subseteq Replicas
      BY <2>0 DEF RecordParts, NoSweep, Clean, TypeOK
    <2>b. ASSUME NEW p \in Replicas, NEW r \in Runs, at[p][r] # "none" PROVE p \in up
      BY <2>0, <2>b DEF LoopParts, GoneHoldNothing
    <2>1. Cardinality(Owed) = Cardinality(OwedRuns) /\ IsFiniteSet(OwedRuns)
      BY <1>1, <2>a, OwedOnce
    <2>2. Cardinality(Giving) = Cardinality(GivingRuns) /\ IsFiniteSet(GivingRuns)
      <3>1. Giving \subseteq Replicas \X Runs /\ GivingRuns \in SUBSET Runs
        BY <2>a DEF Giving
      <3>2. ASSUME NEW a \in Giving, NEW b \in Giving, a[2] = b[2] PROVE a = b
        <4>1. /\ a \in Replicas \X Runs /\ b \in Replicas \X Runs
              /\ at[a[1]][a[2]] \in {"dispatchGiving", "refusedGiving"}
              /\ at[b[1]][b[2]] \in {"dispatchGiving", "refusedGiving"}
          BY <2>a DEF Giving
        <4>2. a[1] = b[1]
          BY <2>0, <2>a, <3>2, <4>1 DEF LoopParts, OnePlace
        <4> QED BY <3>2, <4>1, <4>2
      <3>3. \A a \in Giving : a[2] \in GivingRuns
        BY <2>a DEF Giving
      <3>4. ASSUME NEW r \in GivingRuns PROVE \E a \in Giving : a[2] = r
        <4>1. PICK p \in Replicas : at[p][r] \in {"dispatchGiving", "refusedGiving"}
          OBVIOUS
        <4>2. <<p, r>> \in Giving /\ <<p, r>>[2] = r
          BY <4>1, <2>b DEF Giving
        <4> QED BY <4>2
      <3> HIDE DEF GivingRuns
      <3> QED BY <3>1, <3>2, <3>3, <3>4, PairsAsRuns
    <2>3. IsFiniteSet(Recorded)
      BY OwnershipAssumption, FS_Subset DEF Recorded
    <2>4. Units = (OwedRuns \cup Recorded) \cup GivingRuns
      BY <2>a, <2>b DEF Units, Unit, OwedRuns, Recorded
    <2>5. OwedRuns \cap Recorded = {}
      BY DEF OwedRuns, Recorded
    <2>6. (OwedRuns \cup Recorded) \cap GivingRuns = {}
      <3> SUFFICES ASSUME NEW r \in Runs, NEW p \in Replicas,
                          at[p][r] \in {"dispatchGiving", "refusedGiving"}
                   PROVE  r \notin OwedRuns /\ r \notin Recorded
        OBVIOUS
      <3>1. counted[r] \subseteq Replicas
        BY <2>0 DEF TypeOK
      <3>2. counted[r] = {}
        BY <2>0, <2>a, <3>1 DEF LoopParts, RecordParts, OnePlace, CountsHeld
      <3>3. ~row[r].userSlot
        BY <2>0, <2>a DEF RecordParts, Unrecorded
      <3> QED BY <3>2, <3>3 DEF OwedRuns, Recorded
    <2> HIDE DEF GivingRuns
    <2>7. /\ IsFiniteSet(OwedRuns \cup Recorded)
          /\ Cardinality(OwedRuns \cup Recorded) = Cardinality(OwedRuns) + Cardinality(Recorded)
      BY <2>1, <2>3, <2>5, DisjointUnion
    <2>8. Cardinality(Units) = Cardinality(OwedRuns \cup Recorded) + Cardinality(GivingRuns)
      BY <2>2, <2>4, <2>6, <2>7, DisjointUnion
    <2>9. quota = Cardinality(Units)
      BY <1>1 DEF CountInv, Exact
    <2> QED BY <2>1, <2>2, <2>7, <2>8, <2>9
  <1> QED
    BY <1>1, Invariance, FaultsSeen, PTL
=============================================================================
