------------------------- MODULE SessionTurns_proofs -------------------------
(***************************************************************************)
(* What holds of a session's turns for every set of calls, replicas,       *)
(* messages and cancelling clients, and every bound.                       *)
(***************************************************************************)
EXTENDS SessionTurns, FiniteSetTheorems, TLAPS

(* The points where a call has got past the tests of takeSession and its   *)
(* run has not been finished, and those after the caller's last word.      *)
Past == Starting \cup Looping \cup {"finish"}
Turning == Looping \ {"begin", "track", "ask"}

(* Where a call may have the session's in-process lock, and where it must. *)
HeldInv ==
  \A c \in Calls :
    /\ held[c] # 0 =>
         pc[c] \in {"cluster", "check", "release", "unlock", "unref"}
                     \cup Starting \cup Looping \cup Ending
    /\ pc[c] \in {"cluster", "check", "retake", "recheck", "unlock", "unref"} =>
         held[c] # 0

(* The map's entry is the one its holders refer to, its mutex belongs to   *)
(* the call that took it last, and its count is the number of referrers.   *)
LockInv ==
  /\ \A c \in Calls : held[c] # 0 => current[at[c]] = held[c]
  /\ \A c \in Calls : HoldsLocal(c) => mutex[EntryOf(c)] = c
  /\ \A e \in Entries, c \in Calls :
       mutex[e] = c => HoldsLocal(c) /\ EntryOf(c) = e
  /\ \A e \in Entries : refs[e] = Cardinality({c \in Calls : EntryOf(c) = e})

(* Where a call may have the advisory lock, and where it must.             *)
PgInv ==
  \A c \in Calls :
    /\ pg = c => /\ clustered /\ held[c] # 0
                 /\ pc[c] \in {"check", "admit", "letgo", "recheck", "row", "release"}
                                 \cup Looping \cup Ending
    /\ clustered /\ held[c] # 0 /\ pc[c] \in {"check", "admit", "letgo", "recheck", "row"}
         => pg = c
    /\ pc[c] = "cluster" => clustered

(* What the row and the registries say of a call.  A live run's row is     *)
(* running, or was ended past the cutoff.  A row is left behind only by a  *)
(* call that is on its way out for good.                                   *)
RowInv ==
  \A c \in Calls :
    /\ Live(c) => row[c] = "running" \/ (row[c] = "ended" /\ c \in aged)
    /\ row[c] = "running" => Live(c) \/ c \in unended
    /\ row[c] = "queued" => pc[c] \in {"queued", "retake", "recheck", "row"} \/ c \in unended
    /\ c \in unended => \/ pc[c] \in {"dereg"} \cup Over
                        \/ pc[c] \in Release /\ next[c] # "busy"
    /\ pc[c] = "new" => row[c] = "none"
    /\ c \in tracked => pc[c] \in Looping \cup Ending \cup Release
    /\ c \in open => pc[c] \in Turning \cup Ending

(* The row was ended while the call waited: StartRow will refuse it.       *)
Refusable(c) == row[c] = "ended" /\ pc[c] \in {"queued", "row"}

(* A run that began the session holds no lock: while it is on its way,     *)
(* nobody else has got past the tests, because the session does not exist  *)
(* yet or the run's row says it is live, unless a test could not see it.   *)
BeginInv ==
  /\ \A c \in Calls :
       held[c] = 0 /\ pc[c] \in Past =>
         /\ c \in Starter
         /\ pc[c] \in {"admit", "letgo"} => ~exists
         /\ pc[c] \in {"admit", "letgo", "queue"} => row[c] = "none"
         /\ pc[c] = "queued" => row[c] \in {"queued", "ended"}
         /\ clustered /\ ~Refusable(c) =>
              \A d \in Calls \ {c} : pc[d] \in Past => c \in overlooked
  /\ ~exists => \A c \in Calls :
       /\ row[c] = "none" /\ next[c] # "busy"
       /\ \/ pc[c] = "new"
          \/ /\ c \in Starter /\ held[c] = 0
             /\ pc[c] \in {"admit", "letgo", "queue", "row", "release", "untrack"} \cup Over

(* With the cluster lock, a call that has passed the tests and has not let *)
(* the lock go since has no live run beside it that they could see, and    *)
(* neither has a live run.                                                 *)
ClaimInv ==
  clustered =>
    /\ \A c, d \in Calls :
         c # d /\ held[c] # 0 /\ pc[c] \in {"admit", "row"} /\ Live(d) => d \in overlooked
    /\ \A c, d \in Calls :
         c # d /\ Live(c) /\ Live(d) => c \in overlooked \/ d \in overlooked

(* Without a cluster lock there is one replica.                            *)
PlaceInv == ~clustered => \A c, d \in Calls : at[c] = at[d]

(* A turn cancel that is owed has stopped the turn's context, or has made  *)
(* the run park, or the run is being cancelled as a whole.                 *)
OwedInv ==
  \A c \in Calls :
    owed[c] = "turn" => \/ c \in cancelled
                        \/ pc[c] = "parking"
                        \/ pc[c] \in {"model", "tools"} /\ fired[c]

IInv == /\ TypeOK /\ HeldInv /\ LockInv /\ PgInv /\ RowInv /\ BeginInv
        /\ ClaimInv /\ PlaceInv /\ OwedInv /\ AcceptedIsRead

-----------------------------------------------------------------------------
(* Every step keeps the types, given a free entry where one is needed.     *)
LEMMA TypeStep ==
  ASSUME TypeOK, [Next]_vars,
         \A x \in Replicas : current[x] = 0 => FreeEntry(x) \in Numbers
  PROVE  TypeOK'
<1> USE SessionAssumption DEF Goto, lockVars, ageVars, rowVars, steerVars, turnVars
<1>pc. pc \in [Calls -> Points]
    BY DEF TypeOK
<1>next. next \in [Calls -> {"busy", "refused", "done"}]
    BY DEF TypeOK
<1>row. row \in [Calls -> {"none", "queued", "running", "ended"}]
    BY DEF TypeOK
<1>current. current \in [Replicas -> Numbers \cup {0}]
    BY DEF TypeOK
<1>mutex. mutex \in [Entries -> Calls \cup {None}]
    BY DEF TypeOK
<1>refs. refs \in [Entries -> Nat]
    BY DEF TypeOK
<1>held. held \in [Calls -> Numbers \cup {0}]
    BY DEF TypeOK
<1>queue. queue \in [Calls -> Seq(Messages)]
    BY DEF TypeOK
<1>iter. iter \in [Calls -> Nat]
    BY DEF TypeOK
<1>token. token \in [Calls -> Nat]
    BY DEF TypeOK
<1>fired. fired \in [Calls -> BOOLEAN]
    BY DEF TypeOK
<1>owed. owed \in [Calls -> {"no", "turn", "gap"}]
    BY DEF TypeOK
<1>pg. pg \in Calls \cup {None}
    BY DEF TypeOK
<1>closing. closing \in SUBSET Calls
    BY DEF TypeOK
<1>busyTurn. busyTurn \in SUBSET Calls
    BY DEF TypeOK
<1>closed. closed \in SUBSET Calls
    BY DEF TypeOK
<1>exists. exists \in BOOLEAN
    BY DEF TypeOK
<1>faults. faults \in Nat
    BY DEF TypeOK
<1>unended. unended \in SUBSET Calls
    BY DEF TypeOK
<1>overlooked. overlooked \in SUBSET Calls
    BY DEF TypeOK
<1>aged. aged \in SUBSET Calls
    BY DEF TypeOK
<1>open. open \in SUBSET Calls
    BY DEF TypeOK
<1>Arrive. ASSUME NEW c \in Calls, Arrive(c) PROVE TypeOK'
  <2>pc. pc' \in [Calls -> Points]
    <3>1. \E p \in Points : pc' = [pc EXCEPT ![c] = p]
        BY <1>Arrive DEF Arrive, Points, Taking, Starting, Looping, Ending, Release,
            Over
    <3> QED BY <1>pc, <3>1
  <2> QED BY <1>Arrive, <2>pc DEF Arrive, TypeOK
<1>TryLock. ASSUME NEW c \in Calls, TryLock(c) PROVE TypeOK'
  <2> DEFINE n == IF current[at[c]] = 0 THEN FreeEntry(at[c]) ELSE current[at[c]]
             e == <<at[c], n>>
  <2>at. at[c] \in Replicas
      BY DEF TypeOK
  <2>n. n \in Numbers /\ e \in Entries
      BY <2>at, <1>current DEF Entries
  <2> HIDE DEF n
  <2>1. pc' \in [Calls -> Points]
    <3>1. \E p \in Points : pc' = [pc EXCEPT ![c] = p]
        BY <1>TryLock DEF TryLock, Points, Taking, Starting, Looping, Ending, Release,
            Over
    <3> QED BY <1>pc, <3>1
  <2>2. /\ current' = [current EXCEPT ![at[c]] = n]
        /\ \/ /\ mutex' = [mutex EXCEPT ![e] = c]
              /\ refs' = [refs EXCEPT ![e] = @ + 1]
              /\ held' = [held EXCEPT ![c] = n]
           \/ UNCHANGED <<mutex, refs, held>>
      BY <1>TryLock DEF TryLock, n
  <2>3. current' \in [Replicas -> Numbers \cup {0}]
      BY <2>n, <2>2, <1>current
  <2>4. mutex' \in [Entries -> Calls \cup {None}]
      BY <2>n, <2>2, <1>mutex
  <2>5. refs' \in [Entries -> Nat]
      BY <2>n, <2>2, <1>refs
  <2>6. held' \in [Calls -> Numbers \cup {0}]
      BY <2>n, <2>2, <1>held
  <2> QED BY <1>TryLock, <2>1, <2>3, <2>4, <2>5, <2>6 DEF TryLock, TypeOK
<1>TryCluster. ASSUME NEW c \in Calls, TryCluster(c) PROVE TypeOK'
  <2>pc. pc' \in [Calls -> Points]
    <3>1. \E p \in Points : pc' = [pc EXCEPT ![c] = p]
        BY <1>TryCluster DEF TryCluster, Points, Taking, Starting, Looping, Ending,
            Release, Over
    <3> QED BY <1>pc, <3>1
  <2>next. next' \in [Calls -> {"busy", "refused", "done"}]
      BY <1>TryCluster, <1>next DEF TryCluster
  <2>pg. pg' \in Calls \cup {None}
      BY <1>TryCluster, <1>pg DEF TryCluster
  <2> QED BY <1>TryCluster, <2>pc, <2>next, <2>pg DEF TryCluster, TypeOK
<1>Check. ASSUME NEW c \in Calls, Check(c) PROVE TypeOK'
  <2>pc. pc' \in [Calls -> Points]
    <3>1. \E p \in Points : pc' = [pc EXCEPT ![c] = p]
        BY <1>Check DEF Check, SessionHasLiveRun, Unseen, Points, Taking, Starting,
            Looping, Ending, Release, Over
    <3> QED BY <1>pc, <3>1
  <2>next. next' \in [Calls -> {"busy", "refused", "done"}]
      BY <1>Check, <1>next DEF Check, SessionHasLiveRun, Unseen
  <2>overlooked. overlooked' \in SUBSET Calls
      BY <1>Check, <1>overlooked DEF Check, SessionHasLiveRun, Unseen
  <2> QED BY <1>Check, <2>pc, <2>next, <2>overlooked DEF Check, SessionHasLiveRun,
      Unseen, TypeOK
<1>Busy. ASSUME NEW c \in Calls, Busy(c) PROVE TypeOK'
  <2>pc. pc' \in [Calls -> Points]
    <3>1. \E p \in Points : pc' = [pc EXCEPT ![c] = p]
        BY <1>Busy DEF Busy, SessionEnding, Points, Taking, Starting, Looping, Ending,
            Release, Over
    <3> QED BY <1>pc, <3>1
  <2> QED BY <1>Busy, <2>pc DEF Busy, SessionEnding, TypeOK
<1>ReleaseCluster. ASSUME NEW c \in Calls, ReleaseCluster(c) PROVE TypeOK'
    BY <1>ReleaseCluster DEF ReleaseCluster, TypeOK, Points, Taking, Starting, Looping,
        Ending, Release, Over
<1>Unlock. ASSUME NEW c \in Calls, Unlock(c) PROVE TypeOK'
    BY <1>Unlock DEF Unlock, EntryOf, Entries, TypeOK, Points, Taking, Starting,
        Looping, Ending, Release, Over
<1>Unref. ASSUME NEW c \in Calls, Unref(c) PROVE TypeOK'
  <2>1. refs' \in [Entries -> Nat]
    <3>1. ASSUME NEW f \in Entries PROVE (IF refs[f] > 0 THEN refs[f] - 1 ELSE refs[f]) \in Nat
        BY <1>refs
    <3> QED BY <1>Unref, <1>refs, <3>1 DEF Unref
  <2> QED BY <1>Unref, <2>1 DEF Unref, TypeOK, Points, Taking, Starting, Looping,
      Ending, Release, Over
<1>Untrack. ASSUME NEW c \in Calls, Untrack(c) PROVE TypeOK'
    BY <1>Untrack DEF Untrack, TypeOK, Points, Taking, Starting, Looping, Ending,
        Release, Over
<1>Admit. ASSUME NEW c \in Calls, Admit(c) PROVE TypeOK'
  <2>pc. pc' \in [Calls -> Points]
    <3>1. \E p \in Points : pc' = [pc EXCEPT ![c] = p]
        BY <1>Admit DEF Admit, Points, Taking, Starting, Looping, Ending, Release, Over
    <3> QED BY <1>pc, <3>1
  <2>next. next' \in [Calls -> {"busy", "refused", "done"}]
      BY <1>Admit, <1>next DEF Admit
  <2> QED BY <1>Admit, <2>pc, <2>next DEF Admit, TypeOK
<1>LetGo. ASSUME NEW c \in Calls, LetGo(c) PROVE TypeOK'
    BY <1>LetGo DEF LetGo, TypeOK, Points, Taking, Starting, Looping, Ending, Release,
        Over
<1>CreateSession. ASSUME NEW c \in Calls, CreateSession(c) PROVE TypeOK'
    BY <1>CreateSession DEF CreateSession, TypeOK, Points, Taking, Starting, Looping,
        Ending, Release, Over
<1>QueueRow. ASSUME NEW c \in Calls, QueueRow(c) PROVE TypeOK'
  <2>pc. pc' \in [Calls -> Points]
    <3>1. \E p \in Points : pc' = [pc EXCEPT ![c] = p]
        BY <1>QueueRow DEF QueueRow, Points, Taking, Starting, Looping, Ending,
            Release, Over
    <3> QED BY <1>pc, <3>1
  <2>next. next' \in [Calls -> {"busy", "refused", "done"}]
      BY <1>QueueRow, <1>next DEF QueueRow
  <2>row. row' \in [Calls -> {"none", "queued", "running", "ended"}]
      BY <1>QueueRow, <1>row DEF QueueRow
  <2> QED BY <1>QueueRow, <2>pc, <2>next, <2>row DEF QueueRow, TypeOK
<1>Dequeue. ASSUME NEW c \in Calls, Dequeue(c) PROVE TypeOK'
  <2>pc. pc' \in [Calls -> Points]
    <3>1. \E p \in Points : pc' = [pc EXCEPT ![c] = p]
        BY <1>Dequeue DEF Dequeue, EndQueued, EndRow, LeaveBehind, Points, Taking,
            Starting, Looping, Ending, Release, Over
    <3> QED BY <1>pc, <3>1
  <2>next. next' \in [Calls -> {"busy", "refused", "done"}]
      BY <1>Dequeue, <1>next DEF Dequeue, EndQueued, EndRow, LeaveBehind
  <2>row. row' \in [Calls -> {"none", "queued", "running", "ended"}]
      BY <1>Dequeue, <1>row DEF Dequeue, EndQueued, EndRow, LeaveBehind
  <2>faults. faults' \in Nat
      BY <1>Dequeue, <1>faults DEF Dequeue, EndQueued, EndRow, LeaveBehind
  <2>unended. unended' \in SUBSET Calls
      BY <1>Dequeue, <1>unended DEF Dequeue, EndQueued, EndRow, LeaveBehind
  <2> QED BY <1>Dequeue, <2>pc, <2>next, <2>row, <2>faults, <2>unended DEF Dequeue,
      EndQueued, EndRow, LeaveBehind, TypeOK
<1>Retake. ASSUME NEW c \in Calls, Retake(c) PROVE TypeOK'
  <2>pc. pc' \in [Calls -> Points]
    <3>1. \E p \in Points : pc' = [pc EXCEPT ![c] = p]
        BY <1>Retake DEF Retake, EndQueued, EndRow, LeaveBehind, Points, Taking,
            Starting, Looping, Ending, Release, Over
    <3> QED BY <1>pc, <3>1
  <2>next. next' \in [Calls -> {"busy", "refused", "done"}]
      BY <1>Retake, <1>next DEF Retake, EndQueued, EndRow, LeaveBehind
  <2>row. row' \in [Calls -> {"none", "queued", "running", "ended"}]
      BY <1>Retake, <1>row DEF Retake, EndQueued, EndRow, LeaveBehind
  <2>faults. faults' \in Nat
      BY <1>Retake, <1>faults DEF Retake, EndQueued, EndRow, LeaveBehind
  <2>unended. unended' \in SUBSET Calls
      BY <1>Retake, <1>unended DEF Retake, EndQueued, EndRow, LeaveBehind
  <2>pg. pg' \in Calls \cup {None}
      BY <1>Retake, <1>pg DEF Retake, EndQueued, EndRow, LeaveBehind
  <2> QED BY <1>Retake, <2>pc, <2>next, <2>row, <2>faults, <2>unended, <2>pg DEF
      Retake, EndQueued, EndRow, LeaveBehind, TypeOK
<1>Recheck. ASSUME NEW c \in Calls, Recheck(c) PROVE TypeOK'
  <2>pc. pc' \in [Calls -> Points]
    <3>1. \E p \in Points : pc' = [pc EXCEPT ![c] = p]
        BY <1>Recheck DEF Recheck, EndQueued, EndRow, LeaveBehind,
            SessionHasLiveRun, Unseen, Points, Taking, Starting, Looping, Ending,
            Release, Over
    <3> QED BY <1>pc, <3>1
  <2>next. next' \in [Calls -> {"busy", "refused", "done"}]
      BY <1>Recheck, <1>next DEF Recheck, EndQueued, EndRow, LeaveBehind,
          SessionHasLiveRun, Unseen
  <2>row. row' \in [Calls -> {"none", "queued", "running", "ended"}]
      BY <1>Recheck, <1>row DEF Recheck, EndQueued, EndRow, LeaveBehind,
          SessionHasLiveRun, Unseen
  <2>faults. faults' \in Nat
      BY <1>Recheck, <1>faults DEF Recheck, EndQueued, EndRow, LeaveBehind,
          SessionHasLiveRun, Unseen
  <2>unended. unended' \in SUBSET Calls
      BY <1>Recheck, <1>unended DEF Recheck, EndQueued, EndRow, LeaveBehind,
          SessionHasLiveRun, Unseen
  <2>overlooked. overlooked' \in SUBSET Calls
      BY <1>Recheck, <1>overlooked DEF Recheck, EndQueued, EndRow, LeaveBehind,
          SessionHasLiveRun, Unseen
  <2> QED BY <1>Recheck, <2>pc, <2>next, <2>row, <2>faults, <2>unended,
      <2>overlooked DEF Recheck, EndQueued, EndRow, LeaveBehind, SessionHasLiveRun,
      Unseen, TypeOK
<1>StartRow. ASSUME NEW c \in Calls, StartRow(c) PROVE TypeOK'
  <2>pc. pc' \in [Calls -> Points]
    <3>1. \E p \in Points : pc' = [pc EXCEPT ![c] = p]
        BY <1>StartRow DEF StartRow, StartQueuedRun, EndQueued, EndRow, LeaveBehind,
            Points, Taking, Starting, Looping, Ending, Release, Over
    <3> QED BY <1>pc, <3>1
  <2>next. next' \in [Calls -> {"busy", "refused", "done"}]
      BY <1>StartRow, <1>next DEF StartRow, StartQueuedRun, EndQueued, EndRow,
          LeaveBehind
  <2>row. row' \in [Calls -> {"none", "queued", "running", "ended"}]
      BY <1>StartRow, <1>row DEF StartRow, StartQueuedRun, EndQueued, EndRow,
          LeaveBehind
  <2>faults. faults' \in Nat
      BY <1>StartRow, <1>faults DEF StartRow, StartQueuedRun, EndQueued, EndRow,
          LeaveBehind
  <2>unended. unended' \in SUBSET Calls
      BY <1>StartRow, <1>unended DEF StartRow, StartQueuedRun, EndQueued, EndRow,
          LeaveBehind
  <2>aged. aged' \in SUBSET Calls
      BY <1>StartRow, <1>aged DEF StartRow, StartQueuedRun, EndQueued, EndRow,
          LeaveBehind
  <2> QED BY <1>StartRow, <2>pc, <2>next, <2>row, <2>faults, <2>unended, <2>aged DEF
      StartRow, StartQueuedRun, EndQueued, EndRow, LeaveBehind, TypeOK
<1>Track. ASSUME NEW c \in Calls, Track(c) PROVE TypeOK'
    BY <1>Track DEF Track, TypeOK, Points, Taking, Starting, Looping, Ending, Release,
        Over
<1>Ask. ASSUME NEW c \in Calls, Ask(c) PROVE TypeOK'
  <2>pc. pc' \in [Calls -> Points]
    <3>1. \E p \in Points : pc' = [pc EXCEPT ![c] = p]
        BY <1>Ask DEF Ask, FailRun, EndRow, LeaveBehind, Points, Taking, Starting,
            Looping, Ending, Release, Over
    <3> QED BY <1>pc, <3>1
  <2>next. next' \in [Calls -> {"busy", "refused", "done"}]
      BY <1>Ask, <1>next DEF Ask, FailRun, EndRow, LeaveBehind
  <2>row. row' \in [Calls -> {"none", "queued", "running", "ended"}]
      BY <1>Ask, <1>row DEF Ask, FailRun, EndRow, LeaveBehind
  <2>faults. faults' \in Nat
      BY <1>Ask, <1>faults DEF Ask, FailRun, EndRow, LeaveBehind
  <2>unended. unended' \in SUBSET Calls
      BY <1>Ask, <1>unended DEF Ask, FailRun, EndRow, LeaveBehind
  <2>open. open' \in SUBSET Calls
      BY <1>Ask, <1>open DEF Ask, FailRun, EndRow, LeaveBehind
  <2> QED BY <1>Ask, <2>pc, <2>next, <2>row, <2>faults, <2>unended, <2>open DEF Ask,
      FailRun, EndRow, LeaveBehind, TypeOK
<1>Begin. ASSUME NEW c \in Calls, Begin(c) PROVE TypeOK'
  <2>pc. pc' \in [Calls -> Points]
    <3>1. \E p \in Points : pc' = [pc EXCEPT ![c] = p]
        BY <1>Begin DEF Begin, FailRun, EndRow, LeaveBehind, Points, Taking,
            Starting, Looping, Ending, Release, Over
    <3> QED BY <1>pc, <3>1
  <2>next. next' \in [Calls -> {"busy", "refused", "done"}]
      BY <1>Begin, <1>next DEF Begin, FailRun, EndRow, LeaveBehind
  <2>row. row' \in [Calls -> {"none", "queued", "running", "ended"}]
      BY <1>Begin, <1>row DEF Begin, FailRun, EndRow, LeaveBehind
  <2>faults. faults' \in Nat
      BY <1>Begin, <1>faults DEF Begin, FailRun, EndRow, LeaveBehind
  <2>unended. unended' \in SUBSET Calls
      BY <1>Begin, <1>unended DEF Begin, FailRun, EndRow, LeaveBehind
  <2> QED BY <1>Begin, <2>pc, <2>next, <2>row, <2>faults, <2>unended DEF Begin,
      FailRun, EndRow, LeaveBehind, TypeOK
<1>Top. ASSUME NEW c \in Calls, Top(c) PROVE TypeOK'
    BY <1>Top DEF Top, Drain, Fresh, TakeBack, TypeOK, Points, Taking, Starting,
        Looping, Ending,
        Release, Over
<1>TopLeaves. ASSUME NEW c \in Calls, TopLeaves(c) PROVE TypeOK'
  <2>pc. pc' \in [Calls -> Points]
    <3>1. \E p \in Points : pc' = [pc EXCEPT ![c] = p]
        BY <1>TopLeaves DEF TopLeaves, Drain, TakeBack, LeaveLoop, Points, Taking,
            Starting, Looping, Ending, Release, Over
    <3> QED BY <1>pc, <3>1
  <2>pg. pg' \in Calls \cup {None}
      BY <1>TopLeaves, <1>pg DEF TopLeaves, Drain, TakeBack, LeaveLoop
  <2>queue. queue' \in [Calls -> Seq(Messages)]
    <3>1. queue' = queue \/ queue' = [queue EXCEPT ![c] = <<>>]
        BY <1>TopLeaves DEF TopLeaves, Drain
    <3>2. <<>> \in Seq(Messages)
        OBVIOUS
    <3>3. CASE queue' = queue
        BY <3>3, <1>queue
    <3>4. CASE queue' = [queue EXCEPT ![c] = <<>>]
        BY <3>2, <3>4, <1>queue
    <3> QED BY <3>1, <3>3, <3>4
  <2>busyTurn. busyTurn' \in SUBSET Calls
      BY <1>TopLeaves, <1>busyTurn DEF TopLeaves, Drain, TakeBack, LeaveLoop
  <2>token. token' \in [Calls -> Nat]
      BY <1>TopLeaves, <1>token DEF TopLeaves, Drain, TakeBack, LeaveLoop
  <2>owed. owed' \in [Calls -> {"no", "turn", "gap"}]
      BY <1>TopLeaves, <1>owed DEF TopLeaves, Drain, TakeBack, LeaveLoop
  <2> QED BY <1>TopLeaves, <2>pc, <2>pg, <2>queue, <2>busyTurn, <2>token, <2>owed
      DEF TopLeaves, Drain, TakeBack, LeaveLoop, TypeOK
<1>CapReached. ASSUME NEW c \in Calls, CapReached(c) PROVE TypeOK'
    BY <1>CapReached DEF CapReached, LeaveLoop, TypeOK, Points, Taking, Starting,
        Looping, Ending, Release, Over
<1>Arm. ASSUME NEW c \in Calls, Arm(c) PROVE TypeOK'
    BY <1>Arm DEF Arm, TypeOK, Points, Taking, Starting, Looping, Ending, Release, Over
<1>Model. ASSUME NEW c \in Calls, Model(c) PROVE TypeOK'
  <2>pc. pc' \in [Calls -> Points]
    <3>1. \E p \in Points : pc' = [pc EXCEPT ![c] = p]
        BY <1>Model DEF Model, FinishTurnCancel, Replied, CallFailed, LeaveLoop,
            TurnStopped, Points, Taking, Starting, Looping, Ending, Release, Over
    <3> QED BY <1>pc, <3>1
  <2>token. token' \in [Calls -> Nat]
      BY <1>Model, <1>token DEF Model, FinishTurnCancel, Replied, CallFailed, LeaveLoop,
          TurnStopped
  <2>owed. owed' \in [Calls -> {"no", "turn", "gap"}]
      BY <1>Model, <1>owed DEF Model, FinishTurnCancel, Replied, CallFailed, LeaveLoop,
          TurnStopped
  <2>iter. iter' \in [Calls -> Nat]
      BY <1>Model, <1>iter DEF Model, FinishTurnCancel, Replied, CallFailed, LeaveLoop,
          TurnStopped
  <2> QED BY <1>Model, <2>pc, <2>token, <2>owed, <2>iter DEF Model, FinishTurnCancel,
      Replied, CallFailed, LeaveLoop, TurnStopped, TypeOK
<1>Backoff. ASSUME NEW c \in Calls, Backoff(c) PROVE TypeOK'
    BY <1>Backoff DEF Backoff, NextIteration, TypeOK, Points, Taking, Starting, Looping,
        Ending, Release, Over
<1>Tools. ASSUME NEW c \in Calls, Tools(c) PROVE TypeOK'
  <2>pc. pc' \in [Calls -> Points]
    <3>1. \E p \in Points : pc' = [pc EXCEPT ![c] = p]
        BY <1>Tools DEF Tools, StoppedInTools, TurnStopped, FinishTurnCancel,
            NextIteration, LeaveLoop, Points, Taking, Starting, Looping, Ending,
            Release, Over
    <3> QED BY <1>pc, <3>1
  <2>token. token' \in [Calls -> Nat]
      BY <1>Tools, <1>token DEF Tools, StoppedInTools, TurnStopped, FinishTurnCancel,
          NextIteration, LeaveLoop
  <2>owed. owed' \in [Calls -> {"no", "turn", "gap"}]
      BY <1>Tools, <1>owed DEF Tools, StoppedInTools, TurnStopped, FinishTurnCancel,
          NextIteration, LeaveLoop
  <2>iter. iter' \in [Calls -> Nat]
      BY <1>Tools, <1>iter DEF Tools, StoppedInTools, TurnStopped, FinishTurnCancel,
          NextIteration, LeaveLoop
  <2>closing. closing' \in SUBSET Calls
      BY <1>Tools, <1>closing DEF Tools, StoppedInTools, TurnStopped, FinishTurnCancel,
          NextIteration, LeaveLoop
  <2> QED BY <1>Tools, <2>pc, <2>token, <2>owed, <2>iter, <2>closing DEF Tools,
      StoppedInTools, TurnStopped, FinishTurnCancel, NextIteration, LeaveLoop, TypeOK
<1>Boundary. ASSUME NEW c \in Calls, Boundary(c) PROVE TypeOK'
  <2>pc. pc' \in [Calls -> Points]
    <3>1. \E p \in Points : pc' = [pc EXCEPT ![c] = p]
        BY <1>Boundary DEF Boundary, NextIteration, Points, Taking, Starting,
            Looping, Ending, Release, Over
    <3> QED BY <1>pc, <3>1
  <2>token. token' \in [Calls -> Nat]
      BY <1>Boundary, <1>token DEF Boundary, NextIteration
  <2>closing. closing' \in SUBSET Calls
      BY <1>Boundary, <1>closing DEF Boundary, NextIteration
  <2>iter. iter' \in [Calls -> Nat]
      BY <1>Boundary, <1>iter DEF Boundary, NextIteration
  <2> QED BY <1>Boundary, <2>pc, <2>token, <2>closing, <2>iter DEF Boundary,
      NextIteration, TypeOK
<1>Answer. ASSUME NEW c \in Calls, Answer(c) PROVE TypeOK'
  <2>pc. pc' \in [Calls -> Points]
    <3>1. \E p \in Points : pc' = [pc EXCEPT ![c] = p]
        BY <1>Answer DEF Answer, StopBlocked, NextIteration, LeaveLoop, Points, Taking,
            Starting, Looping, Ending, Release, Over
    <3> QED BY <1>pc, <3>1
  <2>token. token' \in [Calls -> Nat]
      BY <1>Answer, <1>token DEF Answer, StopBlocked, NextIteration, LeaveLoop
  <2>owed. owed' \in [Calls -> {"no", "turn", "gap"}]
      BY <1>Answer, <1>owed DEF Answer, StopBlocked, NextIteration, LeaveLoop
  <2>iter. iter' \in [Calls -> Nat]
      BY <1>Answer, <1>iter DEF Answer, StopBlocked, NextIteration, LeaveLoop
  <2> QED BY <1>Answer, <2>pc, <2>token, <2>owed, <2>iter DEF Answer, StopBlocked,
      NextIteration, LeaveLoop, TypeOK
<1>Park. ASSUME NEW c \in Calls, Park(c) PROVE TypeOK'
    BY <1>Park DEF Park, TypeOK, Points, Taking, Starting, Looping, Ending, Release,
        Over
<1>Parked. ASSUME NEW c \in Calls, Parked(c) PROVE TypeOK'
    BY <1>Parked DEF Parked, TakeMessage, TypeOK, Points, Taking, Starting, Looping,
        Ending, Release, Over
<1>Resume. ASSUME NEW c \in Calls, Resume(c) PROVE TypeOK'
  <2>pc. pc' \in [Calls -> Points]
    <3>1. \E p \in Points : pc' = [pc EXCEPT ![c] = p]
        BY <1>Resume DEF Resume, TakeBack, NextIteration, Points, Taking, Starting,
            Looping, Ending, Release, Over
    <3> QED BY <1>pc, <3>1
  <2>pg. pg' \in Calls \cup {None}
      BY <1>Resume, <1>pg DEF Resume, TakeBack, NextIteration
  <2>busyTurn. busyTurn' \in SUBSET Calls
      BY <1>Resume, <1>busyTurn DEF Resume, TakeBack, NextIteration
  <2>iter. iter' \in [Calls -> Nat]
      BY <1>Resume, <1>iter DEF Resume, TakeBack, NextIteration
  <2> QED BY <1>Resume, <2>pc, <2>pg, <2>busyTurn, <2>iter DEF Resume, TakeBack,
      NextIteration, TypeOK
<1>EndIdle. ASSUME NEW c \in Calls, EndIdle(c) PROVE TypeOK'
  <2>0. UNCHANGED <<clustered, at, next, cancelled, aim, lockVars, rowVars, turnVars>>
      BY <1>EndIdle DEF EndIdle
  <2>1. CASE CloseIfEmpty(c) /\ Goto(c, "mark") /\ UNCHANGED <<open, queue, unsent>>
      BY <2>0, <2>1 DEF CloseIfEmpty, TypeOK, Points, Taking, Starting, Looping, Ending,
          Release, Over
  <2>2. CASE TakeMessage(c)
      BY <2>0, <2>2 DEF TakeMessage, TypeOK, Points, Taking, Starting, Looping, Ending,
          Release, Over
  <2> QED BY <1>EndIdle, <2>1, <2>2 DEF EndIdle
<1>Settle. ASSUME NEW c \in Calls, Settle(c) PROVE TypeOK'
  <2>pc. pc' \in [Calls -> Points]
    <3>1. \E p \in Points : pc' = [pc EXCEPT ![c] = p]
        BY <1>Settle DEF Settle, NextIteration, Points, Taking, Starting, Looping,
            Ending, Release, Over
    <3> QED BY <1>pc, <3>1
  <2>token. token' \in [Calls -> Nat]
      BY <1>Settle, <1>token DEF Settle, NextIteration
  <2>iter. iter' \in [Calls -> Nat]
      BY <1>Settle, <1>iter DEF Settle, NextIteration
  <2>queue. queue' \in [Calls -> Seq(Messages)]
      BY <1>Settle, <1>queue DEF Settle, NextIteration
  <2> QED BY <1>Settle, <2>pc, <2>token, <2>iter, <2>queue DEF Settle, NextIteration,
      TypeOK
<1>Close. ASSUME NEW c \in Calls, Close(c) PROVE TypeOK'
  <2>pc. pc' \in [Calls -> Points]
    <3>1. \E p \in Points : pc' = [pc EXCEPT ![c] = p]
        BY <1>Close DEF Close, CloseIfEmpty, Points, Taking, Starting, Looping, Ending,
            Release, Over
    <3> QED BY <1>pc, <3>1
  <2>closed. closed' \in SUBSET Calls
      BY <1>Close, <1>closed DEF Close, CloseIfEmpty
  <2> QED BY <1>Close, <2>pc, <2>closed DEF Close, CloseIfEmpty, TypeOK
<1>MarkFinishing. ASSUME NEW c \in Calls, MarkFinishing(c) PROVE TypeOK'
    BY <1>MarkFinishing DEF MarkFinishing, TypeOK, Points, Taking, Starting, Looping,
        Ending, Release, Over
<1>SeeCancel. ASSUME NEW c \in Calls, SeeCancel(c) PROVE TypeOK'
    BY <1>SeeCancel DEF SeeCancel, LeaveLoop, TypeOK, Points, Taking, Starting, Looping,
        Ending, Release, Over
<1>Finish. ASSUME NEW c \in Calls, Finish(c) PROVE TypeOK'
  <2>pc. pc' \in [Calls -> Points]
    <3>1. \E p \in Points : pc' = [pc EXCEPT ![c] = p]
        BY <1>Finish DEF Finish, EndRow, LeaveBehind, Points, Taking, Starting,
            Looping, Ending, Release, Over
    <3> QED BY <1>pc, <3>1
  <2>row. row' \in [Calls -> {"none", "queued", "running", "ended"}]
      BY <1>Finish, <1>row DEF Finish, EndRow, LeaveBehind
  <2>faults. faults' \in Nat
      BY <1>Finish, <1>faults DEF Finish, EndRow, LeaveBehind
  <2>unended. unended' \in SUBSET Calls
      BY <1>Finish, <1>unended DEF Finish, EndRow, LeaveBehind
  <2>iter. iter' \in [Calls -> Nat]
      BY <1>Finish, <1>iter DEF Finish, EndRow, LeaveBehind
  <2>fired. fired' \in [Calls -> BOOLEAN]
      BY <1>Finish, <1>fired DEF Finish, EndRow, LeaveBehind
  <2>closing. closing' \in SUBSET Calls
      BY <1>Finish, <1>closing DEF Finish, EndRow, LeaveBehind
  <2>busyTurn. busyTurn' \in SUBSET Calls
      BY <1>Finish, <1>busyTurn DEF Finish, EndRow, LeaveBehind
  <2> QED BY <1>Finish, <2>pc, <2>row, <2>faults, <2>unended, <2>iter, <2>fired,
      <2>closing, <2>busyTurn DEF Finish, EndRow, LeaveBehind, TypeOK
<1>Deregister. ASSUME NEW c \in Calls, Deregister(c) PROVE TypeOK'
    BY <1>Deregister DEF Deregister, TypeOK, Points, Taking, Starting, Looping, Ending,
        Release, Over
<1>IdleDeadline. ASSUME NEW c \in Calls, IdleDeadline(c) PROVE TypeOK'
    BY <1>IdleDeadline DEF IdleDeadline, TypeOK, Points, Taking, Starting, Looping,
        Ending, Release, Over
<1>CancelRun. ASSUME NEW c \in Calls, CancelRun(c) PROVE TypeOK'
    BY <1>CancelRun DEF CancelRun, TypeOK, Points, Taking, Starting, Looping, Ending,
        Release, Over
<1>EndElsewhere. ASSUME NEW c \in Calls, EndElsewhere(c) PROVE TypeOK'
    BY <1>EndElsewhere DEF EndElsewhere, TypeOK, Points, Taking, Starting, Looping,
        Ending, Release, Over
<1>Beat. ASSUME NEW c \in Calls, Beat(c) PROVE TypeOK'
    BY <1>Beat DEF Beat, Fresh, TypeOK, Points, Taking, Starting, Looping, Ending,
        Release, Over
<1>Age. ASSUME NEW c \in Calls, Age(c) PROVE TypeOK'
    BY <1>Age DEF Age, TypeOK, Points, Taking, Starting, Looping, Ending, Release, Over
<1>GC. ASSUME NEW x \in Replicas, GC(x) PROVE TypeOK'
    BY <1>GC DEF GC, TypeOK
<1>Push. ASSUME NEW m \in Messages, NEW c \in Calls, Push(m, c) PROVE TypeOK'
  <2>1. queue' \in [Calls -> Seq(Messages)]
    <3>1. Append(queue[c], m) \in Seq(Messages)
        BY <1>queue
    <3> QED BY <1>Push, <1>queue, <3>1 DEF Push
  <2> QED BY <1>Push, <2>1 DEF Push, TypeOK
<1>TakeToken. ASSUME NEW k \in DOMAIN aim, NEW c \in Calls, TakeToken(k, c) PROVE TypeOK'
    BY <1>TakeToken DEF TakeToken, TypeOK
<1>FireToken. ASSUME NEW k \in DOMAIN aim, FireToken(k) PROVE TypeOK'
  <2>1. fired' \in [Calls -> BOOLEAN] /\ owed' \in [Calls -> {"no", "turn", "gap"}]
      BY <1>FireToken, <1>fired, <1>owed DEF FireToken
  <2>2. aim' \in [DOMAIN aim' -> (Calls \cup {None}) \X Nat] /\ DOMAIN aim' = DOMAIN aim
      BY <1>FireToken DEF FireToken, TypeOK
  <2> QED BY <1>FireToken, <2>1, <2>2 DEF FireToken, TypeOK
<1>stutter. ASSUME UNCHANGED vars PROVE TypeOK'
    BY <1>stutter DEF vars, TypeOK
<1> QED
    BY <1>Arrive, <1>TryLock, <1>TryCluster, <1>Check, <1>Busy, <1>ReleaseCluster,
        <1>Unlock, <1>Unref, <1>Untrack, <1>Admit, <1>LetGo, <1>CreateSession, <1>QueueRow, <1>Dequeue,
        <1>Retake, <1>Recheck, <1>StartRow, <1>Begin, <1>Track, <1>Ask, <1>Top, <1>TopLeaves, <1>CapReached, <1>Arm,
        <1>Model, <1>Backoff, <1>Tools, <1>Boundary, <1>Answer, <1>Park, <1>Parked, <1>Resume,
        <1>EndIdle, <1>Settle, <1>Close, <1>MarkFinishing, <1>SeeCancel, <1>Finish,
        <1>Deregister, <1>IdleDeadline, <1>CancelRun, <1>Age, <1>Beat, <1>EndElsewhere, <1>GC, <1>Push, <1>TakeToken,
        <1>FireToken, <1>stutter DEF Next, Step, Take, LetSessionGo, Start, Loop
-----------------------------------------------------------------------------
(* TryLock has an entry to create: where the map has none for the session, *)
(* nobody refers to one.                                                   *)
LEMMA FreeEntryFound ==
  ASSUME TypeOK, LockInv, NEW x \in Replicas, current[x] = 0
  PROVE  /\ FreeEntry(x) \in Numbers
         /\ mutex[<<x, FreeEntry(x)>>] = None /\ refs[<<x, FreeEntry(x)>>] = 0
         /\ \A c \in Calls : EntryOf(c) # <<x, FreeEntry(x)>>
<1>1. 1 \in Numbers
    BY SessionAssumption, FS_CardinalityType DEF Numbers
<1>e. <<x, 1>> \in Entries
    BY <1>1 DEF Entries
<1>2. ASSUME NEW c \in Calls PROVE EntryOf(c) # <<x, 1>>
  <2>1. EntryOf(c) = <<x, 1>> => at[c] = x /\ held[c] = 1
      BY DEF EntryOf
  <2>2. held[c] # 0 => current[at[c]] = held[c]
      BY DEF LockInv
  <2> QED BY <2>1, <2>2
<1>3. mutex[<<x, 1>>] = None
    BY <1>2, <1>e DEF TypeOK, LockInv
<1>4. refs[<<x, 1>>] = 0
  <2>1. {c \in Calls : EntryOf(c) = <<x, 1>>} = {}
      BY <1>2
  <2> QED BY <2>1, <1>e, FS_EmptySet DEF LockInv
<1> QED BY <1>1, <1>2, <1>3, <1>4 DEF FreeEntry

(* A step that leaves the lock alone and moves nobody into or out of the   *)
(* second half of a release keeps LockInv.                                 *)
LEMMA LockFrame ==
  ASSUME LockInv, UNCHANGED <<at, current, mutex, refs, held>>,
         \A c \in Calls : held[c] # 0 => (pc'[c] = "unref" <=> pc[c] = "unref")
  PROVE  LockInv'
<1>1. \A c \in Calls : (HoldsLocal(c)' <=> HoldsLocal(c)) /\ EntryOf(c)' = EntryOf(c)
    BY DEF HoldsLocal, EntryOf
<1>2. \A e \in Entries :
        {c \in Calls : EntryOf(c)' = e} = {c \in Calls : EntryOf(c) = e}
    BY <1>1
<1>3. \A e \in Entries : refs'[e] = Cardinality({c \in Calls : EntryOf(c)' = e})
    BY <1>2 DEF LockInv
<1>4. \A c \in Calls : held'[c] # 0 => current'[at'[c]] = held'[c]
    BY DEF LockInv
<1>5. \A c \in Calls : HoldsLocal(c)' => mutex'[EntryOf(c)'] = c
    BY <1>1 DEF LockInv
<1>6. \A e \in Entries, c \in Calls :
        mutex'[e] = c => HoldsLocal(c)' /\ EntryOf(c)' = e
    BY <1>1 DEF LockInv
<1> QED BY <1>3, <1>4, <1>5, <1>6 DEF LockInv

(* A step inside the loop: one call moves between its points, or leaves    *)
(* it, and may take the advisory lock back or let it go.                   *)
LEMMA LoopFrame ==
  ASSUME TypeOK, HeldInv, LockInv, PgInv, RowInv, BeginInv, ClaimInv, PlaceInv,
         NEW c \in Calls, NEW p \in Turning \cup {"finish"},
         pc[c] \in Turning, pc' = [pc EXCEPT ![c] = p],
         UNCHANGED <<clustered, exists, at, current, mutex, refs, held, next, row,
                     unended, overlooked, tracked, open>>,
         aged' = aged \/ aged' = Fresh(c),
         \/ pg' = pg
         \/ pg = c /\ pg' = None
         \/ pg = None /\ pg' = c /\ clustered /\ held[c] # 0
  PROVE  HeldInv' /\ LockInv' /\ PgInv' /\ RowInv' /\ BeginInv' /\ ClaimInv' /\ PlaceInv'
<1>pc. /\ pc \in [Calls -> Points] /\ pc'[c] = p
       /\ \A d \in Calls \ {c} : pc'[d] = pc[d]
    BY DEF TypeOK
<1>1. HeldInv'
    BY <1>pc DEF HeldInv, Starting, Turning, Looping, Ending
<1>2. LockInv'
    BY <1>pc, LockFrame DEF Turning, Looping
<1>3. PgInv'
    BY <1>pc, SessionAssumption DEF PgInv, Turning, Looping, Ending
<1>live. \A d \in Calls : Live(d)' <=> Live(d)
    BY <1>pc DEF Live, Turning, Looping
<1>4. RowInv'
  <2>1. \A d \in Calls : row[d] = "ended" /\ d \in aged => d \in aged'
      BY DEF Fresh
  <2> QED BY <1>pc, <1>live, <2>1 DEF RowInv, Turning, Looping, Ending, Release, Over
<1>5. BeginInv'
    BY <1>pc DEF BeginInv, Refusable, Past, Starting, Turning, Looping, Over
<1>6. ClaimInv'
    BY <1>pc, <1>live DEF ClaimInv, Turning, Looping
<1>7. PlaceInv'
    BY DEF PlaceInv
<1> QED BY <1>1, <1>2, <1>3, <1>4, <1>5, <1>6, <1>7
-----------------------------------------------------------------------------
(* The steps of a call outside the loop: take, start, end and let go.      *)
Outside(c) ==
  \/ Arrive(c) \/ TryLock(c) \/ TryCluster(c) \/ Check(c) \/ Busy(c)
  \/ ReleaseCluster(c) \/ Unlock(c) \/ Unref(c) \/ Untrack(c) \/ Admit(c)
  \/ LetGo(c) \/ CreateSession(c) \/ QueueRow(c) \/ Dequeue(c) \/ Retake(c)
  \/ Recheck(c) \/ StartRow(c) \/ Begin(c) \/ Track(c) \/ Ask(c)
  \/ Finish(c) \/ Deregister(c)

(* Its steps inside the loop.                                              *)
Inside(c) ==
  \/ Top(c) \/ TopLeaves(c) \/ CapReached(c) \/ Arm(c) \/ Model(c)
  \/ Backoff(c) \/ Tools(c) \/ Boundary(c) \/ Answer(c) \/ Park(c) \/ Parked(c)
  \/ IdleDeadline(c) \/ Resume(c) \/ EndIdle(c) \/ Settle(c) \/ Close(c)
  \/ MarkFinishing(c) \/ SeeCancel(c)

(* They keep HeldInv. *)
LEMMA HeldInvStep ==
  ASSUME TypeOK, HeldInv, LockInv, PgInv, RowInv, BeginInv, ClaimInv,
         \A x \in Replicas : current[x] = 0 => FreeEntry(x) \in Numbers,
         NEW c \in Calls
  PROVE  Outside(c) => HeldInv'
<1> USE SessionAssumption DEF Goto, lockVars, ageVars, rowVars, steerVars, turnVars
<1>t. /\ pc \in [Calls -> Points] /\ held \in [Calls -> Numbers \cup {0}]
      /\ next \in [Calls -> {"busy", "refused", "done"}]
      /\ row \in [Calls -> {"none", "queued", "running", "ended"}]
    BY DEF TypeOK
<1>Arrive. ASSUME Arrive(c) PROVE HeldInv'
    BY <1>Arrive, <1>t DEF Arrive, HeldInv, Past, Starting, Looping, Ending, Release,
        Over
<1>TryLock. ASSUME TryLock(c) PROVE HeldInv'
  <2>1. at[c] \in Replicas /\ current[at[c]] \in Numbers \cup {0} /\ 0 \notin Numbers
      BY DEF TypeOK, Numbers
  <2>2. held' = held \/ \E n \in Numbers : held' = [held EXCEPT ![c] = n]
      BY <1>TryLock, <2>1 DEF TryLock
  <2>3. \/ pc' = [pc EXCEPT ![c] = "busy"] /\ held' = held
        \/ held'[c] # 0 /\ \E p \in {"cluster", "admit"} : pc' = [pc EXCEPT ![c] = p]
      BY <1>TryLock, <1>t, <2>1 DEF TryLock
  <2>4. /\ pc[c] = "take" /\ UNCHANGED <<clustered, exists, row, next>>
        /\ \A d \in Calls \ {c} : held'[d] = held[d] /\ pc'[d] = pc[d]
        /\ (pc'[c] = "admit" => ~clustered)
      BY <1>TryLock, <1>t, <2>2, <2>3 DEF TryLock
  <2> QED BY <1>t, <2>2, <2>3, <2>4 DEF HeldInv, Starting, Looping, Ending
<1>TryCluster. ASSUME TryCluster(c) PROVE HeldInv'
    BY <1>TryCluster, <1>t DEF TryCluster, HeldInv, Past, Starting, Looping, Ending,
        Release, Over
<1>Check. ASSUME Check(c) PROVE HeldInv'
    BY <1>Check, <1>t DEF Check, SessionHasLiveRun, HeldInv, Past, Starting, Looping,
        Ending, Release, Over
<1>Busy. ASSUME Busy(c) PROVE HeldInv'
    BY <1>Busy, <1>t DEF Busy, SessionEnding, HeldInv, Past, Starting, Looping, Ending,
        Release, Over
<1>ReleaseCluster. ASSUME ReleaseCluster(c) PROVE HeldInv'
    BY <1>ReleaseCluster, <1>t DEF ReleaseCluster, HeldInv, Past, Starting, Looping,
        Ending, Release, Over
<1>Unlock. ASSUME Unlock(c) PROVE HeldInv'
    BY <1>Unlock, <1>t DEF Unlock, HeldInv, Past, Starting, Looping, Ending, Release,
        Over
<1>Unref. ASSUME Unref(c) PROVE HeldInv'
    BY <1>Unref, <1>t DEF Unref, HeldInv, Past, Starting, Looping, Ending, Release, Over
<1>Untrack. ASSUME Untrack(c) PROVE HeldInv'
    BY <1>Untrack, <1>t DEF Untrack, HeldInv, Past, Starting, Looping, Ending, Release,
        Over
<1>Admit. ASSUME Admit(c) PROVE HeldInv'
    BY <1>Admit, <1>t DEF Admit, HeldInv, Past, Starting, Looping, Ending, Release, Over
<1>LetGo. ASSUME LetGo(c) PROVE HeldInv'
    BY <1>LetGo, <1>t DEF LetGo, HeldInv, Past, Starting, Looping, Ending, Release, Over
<1>CreateSession. ASSUME CreateSession(c) PROVE HeldInv'
    BY <1>CreateSession, <1>t DEF CreateSession, HeldInv, HeldInv, Past, Starting,
        Looping, Ending, Release, Over
<1>QueueRow. ASSUME QueueRow(c) PROVE HeldInv'
    BY <1>QueueRow, <1>t DEF QueueRow, HeldInv, Past, Starting, Looping, Ending,
        Release, Over
<1>Dequeue. ASSUME Dequeue(c) PROVE HeldInv'
    BY <1>Dequeue, <1>t DEF Dequeue, EndQueued, EndRow, LeaveBehind, HeldInv, Past,
        Starting, Looping,
        Ending, Release, Over
<1>Retake. ASSUME Retake(c) PROVE HeldInv'
    BY <1>Retake, <1>t DEF Retake, EndQueued, EndRow, LeaveBehind, HeldInv, Past,
        Starting, Looping, Ending,
        Release, Over
<1>Recheck. ASSUME Recheck(c) PROVE HeldInv'
    BY <1>Recheck, <1>t DEF Recheck, EndQueued, EndRow, LeaveBehind, SessionHasLiveRun,
        HeldInv, Past,
        Starting, Looping, Ending, Release, Over
<1>StartRow. ASSUME StartRow(c) PROVE HeldInv'
    BY <1>StartRow, <1>t DEF StartRow, StartQueuedRun, EndQueued, EndRow, LeaveBehind,
        HeldInv, Past, Starting, Looping, Ending,
        Release, Over
<1>Begin. ASSUME Begin(c) PROVE HeldInv'
    BY <1>Begin, <1>t DEF Begin, FailRun, EndRow, LeaveBehind, HeldInv, HeldInv, Past,
        Starting, Looping, Ending, Release, Over
<1>Track. ASSUME Track(c) PROVE HeldInv'
    BY <1>Track, <1>t DEF Track, HeldInv, HeldInv, Past, Starting, Looping, Ending,
        Release, Over
<1>Ask. ASSUME Ask(c) PROVE HeldInv'
    BY <1>Ask, <1>t DEF Ask, FailRun, EndRow, LeaveBehind, HeldInv, HeldInv, Past,
        Starting, Looping, Ending, Release, Over
<1>Finish. ASSUME Finish(c) PROVE HeldInv'
    BY <1>Finish, <1>t DEF Finish, EndRow, LeaveBehind, HeldInv, Past, Starting,
        Looping, Ending, Release, Over
<1>Deregister. ASSUME Deregister(c) PROVE HeldInv'
    BY <1>Deregister, <1>t DEF Deregister, HeldInv, Past, Starting, Looping, Ending,
        Release, Over
<1> QED BY <1>Arrive, <1>TryLock, <1>TryCluster, <1>Check, <1>Busy, <1>ReleaseCluster,
    <1>Unlock, <1>Unref, <1>Untrack, <1>Admit, <1>LetGo, <1>CreateSession, <1>QueueRow, <1>Dequeue,
    <1>Retake, <1>Recheck, <1>StartRow, <1>Begin, <1>Track, <1>Ask, <1>Finish, <1>Deregister
    DEF Outside

(* They keep PgInv. *)
LEMMA PgInvStep ==
  ASSUME TypeOK, HeldInv, LockInv, PgInv, RowInv, BeginInv, ClaimInv,
         \A x \in Replicas : current[x] = 0 => FreeEntry(x) \in Numbers,
         NEW c \in Calls
  PROVE  Outside(c) => PgInv'
<1> USE SessionAssumption DEF Goto, lockVars, ageVars, rowVars, steerVars, turnVars
<1>t. /\ pc \in [Calls -> Points] /\ held \in [Calls -> Numbers \cup {0}]
      /\ next \in [Calls -> {"busy", "refused", "done"}]
      /\ row \in [Calls -> {"none", "queued", "running", "ended"}]
    BY DEF TypeOK
<1>Arrive. ASSUME Arrive(c) PROVE PgInv'
    BY <1>Arrive, <1>t DEF Arrive, PgInv, HeldInv, Past, Starting, Looping, Ending,
        Release, Over
<1>TryLock. ASSUME TryLock(c) PROVE PgInv'
    BY <1>TryLock, <1>t DEF TryLock, PgInv, HeldInv, Past, Starting, Looping, Ending,
        Release, Over
<1>TryCluster. ASSUME TryCluster(c) PROVE PgInv'
    BY <1>TryCluster, <1>t DEF TryCluster, PgInv, HeldInv, Past, Starting, Looping,
        Ending, Release, Over
<1>Check. ASSUME Check(c) PROVE PgInv'
    BY <1>Check, <1>t DEF Check, SessionHasLiveRun, PgInv, HeldInv, Past, Starting,
        Looping, Ending, Release, Over
<1>Busy. ASSUME Busy(c) PROVE PgInv'
    BY <1>Busy, <1>t DEF Busy, SessionEnding, PgInv, HeldInv, Past, Starting, Looping,
        Ending, Release, Over
<1>ReleaseCluster. ASSUME ReleaseCluster(c) PROVE PgInv'
    BY <1>ReleaseCluster, <1>t DEF ReleaseCluster, PgInv, HeldInv, Past, Starting,
        Looping, Ending, Release, Over
<1>Unlock. ASSUME Unlock(c) PROVE PgInv'
    BY <1>Unlock, <1>t DEF Unlock, PgInv, HeldInv, Past, Starting, Looping, Ending,
        Release, Over
<1>Unref. ASSUME Unref(c) PROVE PgInv'
    BY <1>Unref, <1>t DEF Unref, PgInv, HeldInv, Past, Starting, Looping, Ending,
        Release, Over
<1>Untrack. ASSUME Untrack(c) PROVE PgInv'
    BY <1>Untrack, <1>t DEF Untrack, PgInv, HeldInv, Past, Starting, Looping, Ending,
        Release, Over
<1>Admit. ASSUME Admit(c) PROVE PgInv'
    BY <1>Admit, <1>t DEF Admit, PgInv, HeldInv, Past, Starting, Looping, Ending,
        Release, Over
<1>LetGo. ASSUME LetGo(c) PROVE PgInv'
    BY <1>LetGo, <1>t DEF LetGo, PgInv, HeldInv, Past, Starting, Looping, Ending,
        Release, Over
<1>CreateSession. ASSUME CreateSession(c) PROVE PgInv'
    BY <1>CreateSession, <1>t DEF CreateSession, PgInv, HeldInv, Past, Starting,
        Looping, Ending, Release, Over
<1>QueueRow. ASSUME QueueRow(c) PROVE PgInv'
    BY <1>QueueRow, <1>t DEF QueueRow, PgInv, HeldInv, Past, Starting, Looping, Ending,
        Release, Over
<1>Dequeue. ASSUME Dequeue(c) PROVE PgInv'
    BY <1>Dequeue, <1>t DEF Dequeue, EndQueued, EndRow, LeaveBehind, PgInv, HeldInv,
        Past, Starting, Looping,
        Ending, Release, Over
<1>Retake. ASSUME Retake(c) PROVE PgInv'
    BY <1>Retake, <1>t DEF Retake, EndQueued, EndRow, LeaveBehind, PgInv, HeldInv, Past,
        Starting, Looping,
        Ending, Release, Over
<1>Recheck. ASSUME Recheck(c) PROVE PgInv'
    BY <1>Recheck, <1>t DEF Recheck, EndQueued, EndRow, LeaveBehind, SessionHasLiveRun,
        PgInv, HeldInv, Past,
        Starting, Looping, Ending, Release, Over
<1>StartRow. ASSUME StartRow(c) PROVE PgInv'
    BY <1>StartRow, <1>t DEF StartRow, StartQueuedRun, EndQueued, EndRow, LeaveBehind,
        PgInv, HeldInv, Past, Starting, Looping, Ending,
        Release, Over
<1>Begin. ASSUME Begin(c) PROVE PgInv'
    BY <1>Begin, <1>t DEF Begin, FailRun, EndRow, LeaveBehind, PgInv, HeldInv, Past,
        Starting, Looping, Ending, Release, Over
<1>Track. ASSUME Track(c) PROVE PgInv'
    BY <1>Track, <1>t DEF Track, PgInv, HeldInv, Past, Starting, Looping, Ending,
        Release, Over
<1>Ask. ASSUME Ask(c) PROVE PgInv'
    BY <1>Ask, <1>t DEF Ask, FailRun, EndRow, LeaveBehind, PgInv, HeldInv, Past,
        Starting, Looping, Ending, Release, Over
<1>Finish. ASSUME Finish(c) PROVE PgInv'
    BY <1>Finish, <1>t DEF Finish, EndRow, LeaveBehind, PgInv, HeldInv, Past, Starting,
        Looping, Ending,
        Release, Over
<1>Deregister. ASSUME Deregister(c) PROVE PgInv'
    BY <1>Deregister, <1>t DEF Deregister, PgInv, HeldInv, Past, Starting, Looping,
        Ending, Release, Over
<1> QED BY <1>Arrive, <1>TryLock, <1>TryCluster, <1>Check, <1>Busy, <1>ReleaseCluster,
    <1>Unlock, <1>Unref, <1>Untrack, <1>Admit, <1>LetGo, <1>CreateSession, <1>QueueRow, <1>Dequeue,
    <1>Retake, <1>Recheck, <1>StartRow, <1>Begin, <1>Track, <1>Ask, <1>Finish, <1>Deregister
    DEF Outside

(* They keep RowInv. *)
LEMMA RowInvStep ==
  ASSUME TypeOK, HeldInv, LockInv, PgInv, RowInv, BeginInv, ClaimInv,
         \A x \in Replicas : current[x] = 0 => FreeEntry(x) \in Numbers,
         NEW c \in Calls
  PROVE  Outside(c) => RowInv'
<1> USE SessionAssumption DEF Goto, lockVars, ageVars, rowVars, steerVars, turnVars
<1>t. /\ pc \in [Calls -> Points] /\ held \in [Calls -> Numbers \cup {0}]
      /\ next \in [Calls -> {"busy", "refused", "done"}]
      /\ row \in [Calls -> {"none", "queued", "running", "ended"}]
    BY DEF TypeOK
<1>Arrive. ASSUME Arrive(c) PROVE RowInv'
    BY <1>Arrive, <1>t DEF Arrive, RowInv, Live, Turning, HeldInv, Past, Starting,
        Looping, Ending,
        Release, Over
<1>TryLock. ASSUME TryLock(c) PROVE RowInv'
    BY <1>TryLock, <1>t DEF TryLock, RowInv, Live, Turning, HeldInv, Past, Starting,
        Looping, Ending,
        Release, Over
<1>TryCluster. ASSUME TryCluster(c) PROVE RowInv'
    BY <1>TryCluster, <1>t DEF TryCluster, RowInv, Live, Turning, HeldInv, Past,
        Starting, Looping,
        Ending, Release, Over
<1>Check. ASSUME Check(c) PROVE RowInv'
    BY <1>Check, <1>t DEF Check, SessionHasLiveRun, RowInv, Live, Turning, HeldInv,
        Past, Starting,
        Looping, Ending, Release, Over
<1>Busy. ASSUME Busy(c) PROVE RowInv'
    BY <1>Busy, <1>t DEF Busy, SessionEnding, RowInv, Live, Turning, HeldInv, Past,
        Starting, Looping,
        Ending, Release, Over
<1>ReleaseCluster. ASSUME ReleaseCluster(c) PROVE RowInv'
    BY <1>ReleaseCluster, <1>t DEF ReleaseCluster, RowInv, Live, Turning, HeldInv, Past,
        Starting,
        Looping, Ending, Release, Over
<1>Unlock. ASSUME Unlock(c) PROVE RowInv'
    BY <1>Unlock, <1>t DEF Unlock, RowInv, Live, Turning, HeldInv, Past, Starting,
        Looping, Ending,
        Release, Over
<1>Unref. ASSUME Unref(c) PROVE RowInv'
    BY <1>Unref, <1>t DEF Unref, RowInv, Live, Turning, HeldInv, Past, Starting,
        Looping, Ending,
        Release, Over
<1>Untrack. ASSUME Untrack(c) PROVE RowInv'
    BY <1>Untrack, <1>t DEF Untrack, RowInv, Live, Turning, HeldInv, Past, Starting,
        Looping, Ending,
        Release, Over
<1>Admit. ASSUME Admit(c) PROVE RowInv'
    BY <1>Admit, <1>t DEF Admit, RowInv, Live, Turning, HeldInv, Past, Starting,
        Looping, Ending,
        Release, Over
<1>LetGo. ASSUME LetGo(c) PROVE RowInv'
    BY <1>LetGo, <1>t DEF LetGo, RowInv, Live, Turning, HeldInv, Past, Starting,
        Looping, Ending,
        Release, Over
<1>CreateSession. ASSUME CreateSession(c) PROVE RowInv'
    BY <1>CreateSession, <1>t DEF CreateSession, RowInv, Live, Turning, HeldInv, Past,
        Starting, Looping, Ending, Release, Over
<1>QueueRow. ASSUME QueueRow(c) PROVE RowInv'
    BY <1>QueueRow, <1>t DEF QueueRow, RowInv, Live, Turning, HeldInv, Past, Starting,
        Looping, Ending,
        Release, Over
<1>Dequeue. ASSUME Dequeue(c) PROVE RowInv'
    BY <1>Dequeue, <1>t DEF Dequeue, EndQueued, EndRow, LeaveBehind, RowInv, Live,
        Turning, HeldInv, Past, Starting,
        Looping, Ending, Release, Over
<1>Retake. ASSUME Retake(c) PROVE RowInv'
    BY <1>Retake, <1>t DEF Retake, EndQueued, EndRow, LeaveBehind, RowInv, Live,
        Turning, HeldInv, Past, Starting, Looping,
        Ending, Release, Over
<1>Recheck. ASSUME Recheck(c) PROVE RowInv'
    BY <1>Recheck, <1>t DEF Recheck, EndQueued, EndRow, LeaveBehind, SessionHasLiveRun,
        RowInv, Live, Turning, HeldInv,
        Past, Starting, Looping, Ending, Release, Over
<1>StartRow. ASSUME StartRow(c) PROVE RowInv'
    BY <1>StartRow, <1>t DEF StartRow, StartQueuedRun, EndQueued, EndRow, LeaveBehind,
        RowInv, Live, Turning, HeldInv, Past, Starting, Looping, Ending,
        Release, Over
<1>Begin. ASSUME Begin(c) PROVE RowInv'
    BY <1>Begin, <1>t DEF Begin, FailRun, EndRow, LeaveBehind, RowInv, Live, Turning,
        HeldInv, Past, Starting, Looping, Ending, Release, Over
<1>Track. ASSUME Track(c) PROVE RowInv'
    BY <1>Track, <1>t DEF Track, RowInv, Live, Turning, HeldInv, Past, Starting,
        Looping, Ending, Release, Over
<1>Ask. ASSUME Ask(c) PROVE RowInv'
    BY <1>Ask, <1>t DEF Ask, FailRun, EndRow, LeaveBehind, RowInv, Live, Turning,
        HeldInv, Past, Starting, Looping, Ending, Release, Over
<1>Finish. ASSUME Finish(c) PROVE RowInv'
    BY <1>Finish, <1>t DEF Finish, EndRow, LeaveBehind, RowInv, Live, Turning, HeldInv,
        Past, Starting, Looping, Ending,
        Release, Over
<1>Deregister. ASSUME Deregister(c) PROVE RowInv'
    BY <1>Deregister, <1>t DEF Deregister, RowInv, Live, Turning, HeldInv, Past,
        Starting, Looping,
        Ending, Release, Over
<1> QED BY <1>Arrive, <1>TryLock, <1>TryCluster, <1>Check, <1>Busy, <1>ReleaseCluster,
    <1>Unlock, <1>Unref, <1>Untrack, <1>Admit, <1>LetGo, <1>CreateSession, <1>QueueRow, <1>Dequeue,
    <1>Retake, <1>Recheck, <1>StartRow, <1>Begin, <1>Track, <1>Ask, <1>Finish, <1>Deregister
    DEF Outside

(* A test that finds no live run passes over the runs it cannot see, and   *)
(* no others: the live ones, and the one that is beginning the session.    *)
LEMMA BlindSpots ==
  ASSUME TypeOK, HeldInv, RowInv, BeginInv, clustered, exists,
         NEW c \in Calls, ~SessionHasLiveRun(c), NEW d \in Calls \ {c},
         Live(d) \/ (held[d] = 0 /\ pc[d] \in Past /\ ~Refusable(d))
  PROVE  d \in Unseen(c)
<1>1. CASE Live(d)
    BY <1>1 DEF RowInv, SessionHasLiveRun, Unseen
<1>2. CASE ~Live(d)
  <2>1. pc[d] \in {"queue", "queued", "row"}
      BY <1>2 DEF Past, Starting, Live, HeldInv, BeginInv
  <2>2. pc[d] \in {"queue", "row"} /\ row[d] = "none" => d \in Unseen(c)
      BY <1>2 DEF Unseen
  <2>3. row[d] = "queued" => d \in Unseen(c)
      BY <1>2 DEF Unseen, SessionHasLiveRun
  <2>4. row[d] # "running"
      BY <1>2, <2>1 DEF RowInv, Release, Over
  <2>5. row[d] \in {"none", "queued", "ended"}
      BY <2>4 DEF TypeOK
  <2> QED BY <1>2, <2>1, <2>2, <2>3, <2>5 DEF BeginInv, Refusable, Past, Starting
<1> QED BY <1>1, <1>2

(* They keep BeginInv. *)
LEMMA BeginInvStep ==
  ASSUME TypeOK, HeldInv, LockInv, PgInv, RowInv, BeginInv, ClaimInv,
         \A x \in Replicas : current[x] = 0 => FreeEntry(x) \in Numbers,
         NEW c \in Calls
  PROVE  Outside(c) => BeginInv'
<1> USE SessionAssumption DEF Goto, lockVars, ageVars, rowVars, steerVars, turnVars
<1>t. /\ pc \in [Calls -> Points] /\ held \in [Calls -> Numbers \cup {0}]
      /\ next \in [Calls -> {"busy", "refused", "done"}]
      /\ row \in [Calls -> {"none", "queued", "running", "ended"}]
    BY DEF TypeOK
<1>Arrive. ASSUME Arrive(c) PROVE BeginInv'
    BY <1>Arrive, <1>t DEF Arrive, BeginInv, Refusable, RowInv, Live, HeldInv, Past,
        Starting, Looping, Ending,
        Release, Over
<1>TryLock. ASSUME TryLock(c) PROVE BeginInv'
  <2>1. at[c] \in Replicas /\ current[at[c]] \in Numbers \cup {0} /\ 0 \notin Numbers
      BY DEF TypeOK, Numbers
  <2>2. held' = held \/ \E n \in Numbers : held' = [held EXCEPT ![c] = n]
      BY <1>TryLock, <2>1 DEF TryLock
  <2>3. \/ pc' = [pc EXCEPT ![c] = "busy"] /\ held' = held
        \/ held'[c] # 0 /\ \E p \in {"cluster", "admit"} : pc' = [pc EXCEPT ![c] = p]
      BY <1>TryLock, <1>t, <2>1 DEF TryLock
  <2>4. /\ pc[c] = "take" /\ UNCHANGED <<clustered, exists, row, next, overlooked>>
        /\ \A d \in Calls \ {c} : held'[d] = held[d] /\ pc'[d] = pc[d]
        /\ (pc'[c] = "admit" => ~clustered)
      BY <1>TryLock, <1>t, <2>2, <2>3 DEF TryLock
  <2>5. exists
      BY <2>4 DEF BeginInv, Over
  <2> QED BY <1>t, <2>2, <2>3, <2>4, <2>5 DEF BeginInv, Refusable, Past, Starting,
      Looping
<1>TryCluster. ASSUME TryCluster(c) PROVE BeginInv'
    BY <1>TryCluster, <1>t DEF TryCluster, BeginInv, Refusable, RowInv, Live, HeldInv,
        Past, Starting, Looping,
        Ending, Release, Over
<1>Check. ASSUME Check(c) PROVE BeginInv'
  <2>1. /\ pc[c] = "check" /\ held[c] # 0 /\ exists /\ overlooked \subseteq overlooked'
        /\ UNCHANGED <<clustered, exists, row, held>>
        /\ \A d \in Calls \ {c} : pc'[d] = pc[d]
      BY <1>Check, <1>t DEF Check, HeldInv, BeginInv, Over
  <2>2. ASSUME NEW d \in Calls \ {c}, held[d] = 0, pc[d] \in Past, ~Refusable(d),
               clustered, pc'[c] \in Past
        PROVE  d \in overlooked'
    <3>1. ~SessionHasLiveRun(c) /\ overlooked' = overlooked \cup Unseen(c)
        BY <1>Check, <1>t, <2>2 DEF Check, Past, Starting, Looping
    <3>2. d \in Unseen(c)
        BY <2>1, <2>2, <3>1, BlindSpots
    <3> QED BY <3>1, <3>2
  <2> QED BY <1>t, <2>1, <2>2 DEF BeginInv, Refusable
<1>Busy. ASSUME Busy(c) PROVE BeginInv'
    BY <1>Busy, <1>t DEF Busy, SessionEnding, BeginInv, Refusable, RowInv, Live,
        HeldInv, Past, Starting,
        Looping, Ending, Release, Over
<1>ReleaseCluster. ASSUME ReleaseCluster(c) PROVE BeginInv'
    BY <1>ReleaseCluster, <1>t DEF ReleaseCluster, BeginInv, Refusable, RowInv, Live,
        HeldInv, Past, Starting,
        Looping, Ending, Release, Over
<1>Unlock. ASSUME Unlock(c) PROVE BeginInv'
    BY <1>Unlock, <1>t DEF Unlock, BeginInv, Refusable, RowInv, Live, HeldInv, Past,
        Starting, Looping, Ending,
        Release, Over
<1>Unref. ASSUME Unref(c) PROVE BeginInv'
    BY <1>Unref, <1>t DEF Unref, BeginInv, Refusable, RowInv, Live, HeldInv, Past,
        Starting, Looping, Ending,
        Release, Over
<1>Untrack. ASSUME Untrack(c) PROVE BeginInv'
    BY <1>Untrack, <1>t DEF Untrack, BeginInv, Refusable, RowInv, Live, HeldInv, Past,
        Starting, Looping, Ending,
        Release, Over
<1>Admit. ASSUME Admit(c) PROVE BeginInv'
    BY <1>Admit, <1>t DEF Admit, BeginInv, Refusable, RowInv, Live, HeldInv, Past,
        Starting, Looping, Ending,
        Release, Over
<1>LetGo. ASSUME LetGo(c) PROVE BeginInv'
    BY <1>LetGo, <1>t DEF LetGo, BeginInv, Refusable, RowInv, Live, HeldInv, Past,
        Starting, Looping, Ending,
        Release, Over
<1>CreateSession. ASSUME CreateSession(c) PROVE BeginInv'
    BY <1>CreateSession, <1>t DEF CreateSession, BeginInv, Refusable, RowInv, Live,
        HeldInv, Past, Starting, Looping, Ending, Release, Over
<1>QueueRow. ASSUME QueueRow(c) PROVE BeginInv'
    BY <1>QueueRow, <1>t DEF QueueRow, BeginInv, Refusable, RowInv, Live, HeldInv, Past,
        Starting, Looping,
        Ending, Release, Over
<1>Dequeue. ASSUME Dequeue(c) PROVE BeginInv'
    BY <1>Dequeue, <1>t DEF Dequeue, EndQueued, EndRow, LeaveBehind, BeginInv,
        Refusable, RowInv, Live, HeldInv, Past, Starting,
        Looping, Ending, Release, Over
<1>Retake. ASSUME Retake(c) PROVE BeginInv'
    BY <1>Retake, <1>t DEF Retake, EndQueued, EndRow, LeaveBehind, BeginInv, Refusable,
        RowInv, Live, HeldInv, Past, Starting,
        Looping, Ending, Release, Over
<1>Recheck. ASSUME Recheck(c) PROVE BeginInv'
    BY <1>Recheck, <1>t DEF Recheck, EndQueued, EndRow, LeaveBehind, SessionHasLiveRun,
        BeginInv, Refusable, RowInv, Live, HeldInv,
        Past, Starting, Looping, Ending, Release, Over
<1>StartRow. ASSUME StartRow(c) PROVE BeginInv'
  <2>1. /\ pc[c] = "row" /\ UNCHANGED <<clustered, exists, held, overlooked>>
        /\ \A d \in Calls \ {c} : pc'[d] = pc[d] /\ row'[d] = row[d] /\ next'[d] = next[d]
      BY <1>StartRow, <1>t DEF StartRow, StartQueuedRun, EndQueued, EndRow, LeaveBehind
  <2>2. \/ /\ exists /\ ~Refusable(c) /\ pc'[c] \in {"begin", "track", "release"}
        \/ /\ pc'[c] = "release" /\ next'[c] = "refused"
           /\ (row[c] = "none" => row'[c] = "none")
    <3>1. CASE EndQueued(c)
        BY <3>1, <1>t DEF EndQueued, EndRow, LeaveBehind
    <3>2. CASE ~EndQueued(c)
        BY <3>2, <1>StartRow, <1>t DEF StartRow, StartQueuedRun, Refusable, BeginInv
    <3> QED BY <3>1, <3>2
  <2> QED BY <1>t, <2>1, <2>2 DEF BeginInv, Refusable, Past, Starting, Looping
<1>Begin. ASSUME Begin(c) PROVE BeginInv'
    BY <1>Begin, <1>t DEF Begin, FailRun, EndRow, LeaveBehind, BeginInv, Refusable,
        RowInv, Live, HeldInv, Past, Starting, Looping, Ending, Release, Over
<1>Track. ASSUME Track(c) PROVE BeginInv'
    BY <1>Track, <1>t DEF Track, BeginInv, Refusable, RowInv, Live, HeldInv, Past,
        Starting, Looping, Ending, Release, Over
<1>Ask. ASSUME Ask(c) PROVE BeginInv'
    BY <1>Ask, <1>t DEF Ask, FailRun, EndRow, LeaveBehind, BeginInv, Refusable, RowInv,
        Live, HeldInv, Past, Starting, Looping, Ending, Release, Over
<1>Finish. ASSUME Finish(c) PROVE BeginInv'
    BY <1>Finish, <1>t DEF Finish, EndRow, LeaveBehind, BeginInv, Refusable, RowInv,
        Live, HeldInv, Past, Starting, Looping, Ending,
        Release, Over
<1>Deregister. ASSUME Deregister(c) PROVE BeginInv'
    BY <1>Deregister, <1>t DEF Deregister, BeginInv, Refusable, RowInv, Live, HeldInv,
        Past, Starting, Looping,
        Ending, Release, Over
<1> QED BY <1>Arrive, <1>TryLock, <1>TryCluster, <1>Check, <1>Busy, <1>ReleaseCluster,
    <1>Unlock, <1>Unref, <1>Untrack, <1>Admit, <1>LetGo, <1>CreateSession, <1>QueueRow, <1>Dequeue,
    <1>Retake, <1>Recheck, <1>StartRow, <1>Begin, <1>Track, <1>Ask, <1>Finish, <1>Deregister
    DEF Outside

(* They keep ClaimInv. *)
LEMMA ClaimInvStep ==
  ASSUME TypeOK, HeldInv, LockInv, PgInv, RowInv, BeginInv, ClaimInv,
         \A x \in Replicas : current[x] = 0 => FreeEntry(x) \in Numbers,
         NEW c \in Calls
  PROVE  Outside(c) => ClaimInv'
<1> USE SessionAssumption DEF Goto, lockVars, ageVars, rowVars, steerVars, turnVars
<1>t. /\ pc \in [Calls -> Points] /\ held \in [Calls -> Numbers \cup {0}]
      /\ next \in [Calls -> {"busy", "refused", "done"}]
      /\ row \in [Calls -> {"none", "queued", "running", "ended"}]
    BY DEF TypeOK
<1>Arrive. ASSUME Arrive(c) PROVE ClaimInv'
    BY <1>Arrive, <1>t DEF Arrive, ClaimInv, Live, HeldInv, Past, Starting, Looping,
        Ending,
        Release, Over
<1>TryLock. ASSUME TryLock(c) PROVE ClaimInv'
    BY <1>TryLock, <1>t DEF TryLock, ClaimInv, Live, HeldInv, Past, Starting, Looping,
        Ending,
        Release, Over
<1>TryCluster. ASSUME TryCluster(c) PROVE ClaimInv'
    BY <1>TryCluster, <1>t DEF TryCluster, ClaimInv, Live, HeldInv, Past, Starting,
        Looping,
        Ending, Release, Over
<1>Check. ASSUME Check(c) PROVE ClaimInv'
  <2>1. /\ pc[c] = "check" /\ ~Live(c)' /\ overlooked \subseteq overlooked'
        /\ UNCHANGED <<clustered, held>> /\ exists
        /\ \A d \in Calls \ {c} : pc'[d] = pc[d]
        /\ pc'[c] # "row"
      BY <1>Check, <1>t DEF Check, Live, Looping, BeginInv, Over
  <2>2. ASSUME NEW d \in Calls \ {c}, clustered, Live(d), pc'[c] = "admit"
        PROVE  d \in overlooked'
    <3>1. ~SessionHasLiveRun(c) /\ overlooked' = overlooked \cup Unseen(c)
        BY <1>Check, <1>t, <2>2 DEF Check
    <3> QED BY <2>1, <2>2, <3>1, BlindSpots
  <2> QED BY <1>t, <2>1, <2>2 DEF ClaimInv, Live, Looping
<1>Busy. ASSUME Busy(c) PROVE ClaimInv'
    BY <1>Busy, <1>t DEF Busy, SessionEnding, ClaimInv, Live, HeldInv, Past, Starting,
        Looping, Ending, Release, Over
<1>ReleaseCluster. ASSUME ReleaseCluster(c) PROVE ClaimInv'
    BY <1>ReleaseCluster, <1>t DEF ReleaseCluster, ClaimInv, Live, HeldInv, Past,
        Starting,
        Looping, Ending, Release, Over
<1>Unlock. ASSUME Unlock(c) PROVE ClaimInv'
    BY <1>Unlock, <1>t DEF Unlock, ClaimInv, Live, HeldInv, Past, Starting, Looping,
        Ending,
        Release, Over
<1>Unref. ASSUME Unref(c) PROVE ClaimInv'
    BY <1>Unref, <1>t DEF Unref, ClaimInv, Live, HeldInv, Past, Starting, Looping,
        Ending,
        Release, Over
<1>Untrack. ASSUME Untrack(c) PROVE ClaimInv'
    BY <1>Untrack, <1>t DEF Untrack, ClaimInv, Live, HeldInv, Past, Starting, Looping,
        Ending,
        Release, Over
<1>Admit. ASSUME Admit(c) PROVE ClaimInv'
    BY <1>Admit, <1>t DEF Admit, ClaimInv, Live, HeldInv, Past, Starting, Looping,
        Ending,
        Release, Over
<1>LetGo. ASSUME LetGo(c) PROVE ClaimInv'
    BY <1>LetGo, <1>t DEF LetGo, ClaimInv, Live, HeldInv, Past, Starting, Looping,
        Ending,
        Release, Over
<1>CreateSession. ASSUME CreateSession(c) PROVE ClaimInv'
    BY <1>CreateSession, <1>t DEF CreateSession, ClaimInv, Live, HeldInv, Past,
        Starting, Looping, Ending, Release, Over
<1>QueueRow. ASSUME QueueRow(c) PROVE ClaimInv'
    BY <1>QueueRow, <1>t DEF QueueRow, ClaimInv, Live, HeldInv, Past, Starting, Looping,
        Ending, Release, Over
<1>Dequeue. ASSUME Dequeue(c) PROVE ClaimInv'
    BY <1>Dequeue, <1>t DEF Dequeue, EndQueued, EndRow, LeaveBehind, ClaimInv, Live,
        HeldInv, Past, Starting,
        Looping, Ending, Release, Over
<1>Retake. ASSUME Retake(c) PROVE ClaimInv'
    BY <1>Retake, <1>t DEF Retake, EndQueued, EndRow, LeaveBehind, ClaimInv, Live,
        HeldInv, Past, Starting,
        Looping, Ending, Release, Over
<1>Recheck. ASSUME Recheck(c) PROVE ClaimInv'
  <2>1. /\ pc[c] = "recheck" /\ ~Live(c)' /\ overlooked \subseteq overlooked'
        /\ UNCHANGED <<clustered, held>> /\ exists
        /\ \A d \in Calls \ {c} : pc'[d] = pc[d]
        /\ pc'[c] # "admit"
      BY <1>Recheck, <1>t DEF Recheck, EndQueued, Live, Looping, BeginInv, Over
  <2>2. ASSUME NEW d \in Calls \ {c}, clustered, Live(d), pc'[c] = "row"
        PROVE  d \in overlooked'
    <3>1. ~SessionHasLiveRun(c) /\ overlooked' = overlooked \cup Unseen(c)
        BY <1>Recheck, <1>t, <2>2 DEF Recheck, EndQueued
    <3> QED BY <2>1, <2>2, <3>1, BlindSpots
  <2> QED BY <1>t, <2>1, <2>2 DEF ClaimInv, Live, Looping
<1>StartRow. ASSUME StartRow(c) PROVE ClaimInv'
  <2>1. /\ pc[c] = "row" /\ UNCHANGED <<clustered, held, overlooked>>
        /\ \A d \in Calls \ {c} : pc'[d] = pc[d]
        /\ pc'[c] \in {"begin", "track", "release"}
      BY <1>StartRow, <1>t DEF StartRow, StartQueuedRun, EndQueued
  <2>2. ASSUME pc'[c] # "release" PROVE ~Refusable(c)
      BY <1>StartRow, <1>t, <2>2 DEF StartRow, StartQueuedRun, EndQueued, Refusable
  <2>3. ASSUME pc'[c] # "release", clustered, NEW d \in Calls \ {c},
               held[d] # 0, pc[d] \in {"admit", "row"}
        PROVE  c \in overlooked
    <3>1. pg = d
        BY <2>3 DEF PgInv
    <3>2. held[c] = 0
        BY <2>1, <2>3, <3>1 DEF PgInv
    <3> QED BY <2>1, <2>2, <2>3, <3>2 DEF BeginInv, Past, Starting
  <2>4. ASSUME pc'[c] # "release", clustered, NEW d \in Calls \ {c}, Live(d)
        PROVE  c \in overlooked \/ d \in overlooked
    <3>1. CASE held[c] # 0
        BY <2>1, <2>4, <3>1 DEF ClaimInv
    <3>2. CASE held[c] = 0
        BY <2>1, <2>2, <2>4, <3>2 DEF BeginInv, Past, Starting, Live
    <3> QED BY <3>1, <3>2
  <2>5. pc'[c] = "release" => ~Live(c)'
      BY DEF Live, Looping
  <2>6. \A d \in Calls \ {c} : Live(d)' <=> Live(d)
      BY <2>1 DEF Live
  <2>7. ASSUME clustered, NEW a \in Calls, NEW d \in Calls,
               a # d, held[a] # 0, pc'[a] \in {"admit", "row"}, Live(d)'
        PROVE  d \in overlooked
      BY <2>1, <2>3, <2>5, <2>6, <2>7 DEF ClaimInv
  <2>8. ASSUME clustered, NEW a \in Calls, NEW d \in Calls, a # d, Live(a)', Live(d)'
        PROVE  a \in overlooked \/ d \in overlooked
      BY <2>1, <2>4, <2>5, <2>6, <2>8 DEF ClaimInv
  <2> QED BY <2>1, <2>7, <2>8 DEF ClaimInv
<1>Begin. ASSUME Begin(c) PROVE ClaimInv'
    BY <1>Begin, <1>t DEF Begin, FailRun, EndRow, LeaveBehind, ClaimInv, Live, HeldInv,
        Past, Starting, Looping, Ending, Release, Over
<1>Track. ASSUME Track(c) PROVE ClaimInv'
    BY <1>Track, <1>t DEF Track, ClaimInv, Live, HeldInv, Past, Starting, Looping,
        Ending, Release, Over
<1>Ask. ASSUME Ask(c) PROVE ClaimInv'
    BY <1>Ask, <1>t DEF Ask, FailRun, EndRow, LeaveBehind, ClaimInv, Live, HeldInv,
        Past, Starting, Looping, Ending, Release, Over
<1>Finish. ASSUME Finish(c) PROVE ClaimInv'
    BY <1>Finish, <1>t DEF Finish, EndRow, LeaveBehind, ClaimInv, Live, HeldInv, Past,
        Starting, Looping, Ending,
        Release, Over
<1>Deregister. ASSUME Deregister(c) PROVE ClaimInv'
    BY <1>Deregister, <1>t DEF Deregister, ClaimInv, Live, HeldInv, Past, Starting,
        Looping,
        Ending, Release, Over
<1> QED BY <1>Arrive, <1>TryLock, <1>TryCluster, <1>Check, <1>Busy, <1>ReleaseCluster,
    <1>Unlock, <1>Unref, <1>Untrack, <1>Admit, <1>LetGo, <1>CreateSession, <1>QueueRow, <1>Dequeue,
    <1>Retake, <1>Recheck, <1>StartRow, <1>Begin, <1>Track, <1>Ask, <1>Finish, <1>Deregister
    DEF Outside
-----------------------------------------------------------------------------
(* The calls that refer to an entry.                                       *)
Referrers(e) == {c \in Calls : EntryOf(c) = e}

(* They are finitely many.                                                 *)
LEMMA ReferrersFinite ==
  ASSUME NEW e
  PROVE  IsFiniteSet(Referrers(e)) /\ IsFiniteSet(Referrers(e)')
  BY SessionAssumption, FS_Subset DEF Referrers

(* A call that takes an entry's mutex becomes its holder and one more      *)
(* referrer.                                                               *)
LEMMA LockTaken ==
  ASSUME TypeOK, LockInv, NEW c \in Calls, held[c] = 0, NEW n \in Numbers,
         mutex[<<at[c], n>>] = None,
         current[at[c]] # 0 => current[at[c]] = n,
         at' = at, current' = [current EXCEPT ![at[c]] = n],
         mutex' = [mutex EXCEPT ![<<at[c], n>>] = c],
         refs' = [refs EXCEPT ![<<at[c], n>>] = @ + 1],
         held' = [held EXCEPT ![c] = n],
         pc'[c] # "unref", \A d \in Calls \ {c} : pc'[d] = pc[d]
  PROVE  LockInv'
<1> DEFINE e == <<at[c], n>>
<1>t. /\ current \in [Replicas -> Numbers \cup {0}] /\ mutex \in [Entries -> Calls \cup {None}]
      /\ refs \in [Entries -> Nat] /\ held \in [Calls -> Numbers \cup {0}]
      /\ at \in [Calls -> Replicas] /\ None \notin Calls
    BY SessionAssumption DEF TypeOK
<1>n. 0 \notin Numbers /\ e \in Entries
    BY <1>t DEF Numbers, Entries
<1>0. \A f \in Entries : EntryOf(c) # f
    BY <1>n, <1>t DEF EntryOf, Entries
<1>c. held'[c] = n /\ HoldsLocal(c)' /\ EntryOf(c)' = e /\ mutex'[e] = c
    BY <1>t, <1>n DEF HoldsLocal, EntryOf
<1>d. ASSUME NEW d \in Calls \ {c}
      PROVE  held'[d] = held[d] /\ (HoldsLocal(d)' <=> HoldsLocal(d)) /\ EntryOf(d)' = EntryOf(d)
    BY <1>t DEF HoldsLocal, EntryOf
<1>1. ASSUME NEW d \in Calls, held'[d] # 0 PROVE current'[at'[d]] = held'[d]
  <2>1. CASE d = c
      BY <2>1, <1>c, <1>t
  <2>2. CASE d # c
    <3>1. current[at[d]] = held[d]
        BY <1>1, <2>2, <1>d DEF LockInv
    <3> QED BY <3>1, <1>1, <2>2, <1>d, <1>t
  <2> QED BY <2>1, <2>2
<1>2. ASSUME NEW d \in Calls, HoldsLocal(d)' PROVE mutex'[EntryOf(d)'] = d
  <2>1. CASE d = c
      BY <2>1, <1>c
  <2>2. CASE d # c
    <3>1. mutex[EntryOf(d)] = d /\ HoldsLocal(d)
        BY <1>2, <2>2, <1>d DEF LockInv
    <3>2. EntryOf(d) # e
        BY <3>1, <1>t
    <3>3. EntryOf(d) \in Entries
        BY <3>1, <1>t DEF EntryOf, HoldsLocal, Entries
    <3> QED BY <3>1, <3>2, <3>3, <2>2, <1>d, <1>t
  <2> QED BY <2>1, <2>2
<1>3. ASSUME NEW f \in Entries, NEW d \in Calls, mutex'[f] = d
      PROVE  HoldsLocal(d)' /\ EntryOf(d)' = f
  <2>1. CASE f = e
      BY <2>1, <1>3, <1>c
  <2>2. CASE f # e
    <3>1. mutex[f] = d
        BY <2>2, <1>3, <1>t
    <3>2. HoldsLocal(d) /\ EntryOf(d) = f
        BY <3>1 DEF LockInv
    <3>3. d # c
        BY <3>2, <1>0
    <3> QED BY <3>2, <3>3, <1>d
  <2> QED BY <2>1, <2>2
<1>4. ASSUME NEW f \in Entries PROVE refs'[f] = Cardinality(Referrers(f)')
  <2>0. refs[f] = Cardinality(Referrers(f))
      BY DEF LockInv, Referrers
  <2>1. CASE f = e
    <3>1. Referrers(f)' = Referrers(f) \cup {c}
        BY <2>1, <1>c, <1>d DEF Referrers
    <3>2. c \notin Referrers(f)
        BY <1>0 DEF Referrers
    <3> QED BY <2>0, <2>1, <3>1, <3>2, <1>t, ReferrersFinite, FS_AddElement
  <2>2. CASE f # e
    <3>1. Referrers(f)' = Referrers(f)
        BY <2>2, <1>c, <1>d, <1>0 DEF Referrers
    <3> QED BY <2>0, <2>2, <3>1, <1>t
  <2> QED BY <2>1, <2>2
<1> QED BY <1>1, <1>2, <1>3, <1>4 DEF LockInv, Referrers

(* LockInv over TryLock and the two halves of the release.                 *)
LEMMA LockStep ==
  ASSUME TypeOK, HeldInv, LockInv, NEW c \in Calls
  PROVE  TryLock(c) \/ Unlock(c) \/ Unref(c) => LockInv'
<1>t. /\ current \in [Replicas -> Numbers \cup {0}] /\ mutex \in [Entries -> Calls \cup {None}]
      /\ refs \in [Entries -> Nat] /\ held \in [Calls -> Numbers \cup {0}]
      /\ at \in [Calls -> Replicas] /\ None \notin Calls /\ 0 \notin Numbers
      /\ pc \in [Calls -> Points]
    BY SessionAssumption DEF TypeOK, Numbers
<1>e. ASSUME NEW d \in Calls, held[d] # 0 PROVE EntryOf(d) \in Entries
    BY <1>e, <1>t DEF EntryOf, Entries
<1>1. ASSUME TryLock(c) PROVE LockInv'
  <2> DEFINE n == IF current[at[c]] = 0 THEN FreeEntry(at[c]) ELSE current[at[c]]
  <2>0. held[c] = 0 /\ at[c] \in Replicas
      BY <1>1, <1>t DEF TryLock, HeldInv, Starting, Looping, Ending
  <2>1. /\ n \in Numbers
        /\ current[at[c]] = 0 => mutex[<<at[c], n>>] = None
        /\ current[at[c]] # 0 => current[at[c]] = n
      BY <2>0, <1>t, FreeEntryFound
  <2> HIDE DEF n
  <2>2. CASE mutex[<<at[c], n>>] = None
    <3>1. /\ at' = at /\ current' = [current EXCEPT ![at[c]] = n]
          /\ mutex' = [mutex EXCEPT ![<<at[c], n>>] = c]
          /\ refs' = [refs EXCEPT ![<<at[c], n>>] = @ + 1]
          /\ held' = [held EXCEPT ![c] = n]
          /\ pc'[c] # "unref" /\ \A d \in Calls \ {c} : pc'[d] = pc[d]
        BY <1>1, <2>2, <1>t DEF TryLock, n, Goto
    <3> QED BY <2>0, <2>1, <2>2, <3>1, LockTaken
  <2>3. CASE mutex[<<at[c], n>>] # None
    <3>1. current' = [current EXCEPT ![at[c]] = n] /\ pc' = [pc EXCEPT ![c] = "busy"]
          /\ UNCHANGED <<at, mutex, refs, held>>
        BY <1>1, <2>3 DEF TryLock, n, Goto
    <3>2. current' = current
        BY <3>1, <2>0, <2>1, <2>3, <1>t
    <3>3. \A d \in Calls : held[d] # 0 => (pc'[d] = "unref" <=> pc[d] = "unref")
        BY <3>1, <2>0, <1>t
    <3> QED BY <3>1, <3>2, <3>3, LockFrame
  <2> QED BY <2>2, <2>3
<1>2. ASSUME Unlock(c) PROVE LockInv'
  <2>0. /\ pc[c] = "unlock" /\ held[c] # 0 /\ mutex' = [mutex EXCEPT ![EntryOf(c)] = None]
        /\ pc' = [pc EXCEPT ![c] = "unref"] /\ UNCHANGED <<at, current, refs, held>>
      BY <1>2 DEF Unlock, Goto, HeldInv
  <2>1. mutex[EntryOf(c)] = c /\ EntryOf(c) \in Entries
      BY <2>0, <1>e DEF LockInv, HoldsLocal
  <2>2. ASSUME NEW d \in Calls
        PROVE  EntryOf(d)' = EntryOf(d) /\ (HoldsLocal(d)' <=> HoldsLocal(d) /\ d # c)
      BY <2>0, <1>t DEF EntryOf, HoldsLocal
  <2>3. \A d \in Calls : held'[d] # 0 => current'[at'[d]] = held'[d]
      BY <2>0 DEF LockInv
  <2>4. ASSUME NEW d \in Calls, HoldsLocal(d)' PROVE mutex'[EntryOf(d)'] = d
    <3>1. mutex[EntryOf(d)] = d /\ d # c /\ held[d] # 0
        BY <2>2, <2>4 DEF LockInv, HoldsLocal
    <3>2. EntryOf(d) # EntryOf(c) /\ EntryOf(d) \in Entries
        BY <3>1, <2>1, <1>e
    <3> QED BY <3>1, <3>2, <2>0, <2>2, <1>t
  <2>5. ASSUME NEW f \in Entries, NEW d \in Calls, mutex'[f] = d
        PROVE  HoldsLocal(d)' /\ EntryOf(d)' = f
    <3>1. f # EntryOf(c) /\ mutex[f] = d
        BY <2>0, <2>1, <2>5, <1>t
    <3>2. HoldsLocal(d) /\ EntryOf(d) = f
        BY <3>1 DEF LockInv
    <3> QED BY <3>1, <3>2, <2>2
  <2>6. ASSUME NEW f \in Entries PROVE refs'[f] = Cardinality(Referrers(f)')
    <3>1. Referrers(f)' = Referrers(f)
        BY <2>2 DEF Referrers
    <3> QED BY <3>1, <2>0 DEF LockInv, Referrers
  <2> QED BY <2>3, <2>4, <2>5, <2>6 DEF LockInv, Referrers
<1>3. ASSUME Unref(c) PROVE LockInv'
  <2>0. /\ pc[c] = "unref" /\ held[c] # 0 /\ held' = [held EXCEPT ![c] = 0]
        /\ refs' = [refs EXCEPT ![EntryOf(c)] = IF @ > 0 THEN @ - 1 ELSE @]
        /\ pc' = [pc EXCEPT ![c] = "untrack"] /\ UNCHANGED <<at, current, mutex>>
      BY <1>3 DEF Unref, Goto, HeldInv
  <2>1. EntryOf(c) \in Entries
      BY <2>0, <1>e
  <2>c. ~HoldsLocal(c) /\ ~HoldsLocal(c)' /\ \A f \in Entries : EntryOf(c)' # f
      BY <2>0, <1>t DEF HoldsLocal, EntryOf, Entries
  <2>d. ASSUME NEW d \in Calls \ {c}
        PROVE  held'[d] = held[d] /\ EntryOf(d)' = EntryOf(d) /\ (HoldsLocal(d)' <=> HoldsLocal(d))
      BY <2>0, <1>t DEF EntryOf, HoldsLocal
  <2>3. ASSUME NEW d \in Calls, held'[d] # 0 PROVE current'[at'[d]] = held'[d]
    <3>1. d # c
        BY <2>0, <2>3, <1>t
    <3> QED BY <3>1, <2>3, <2>0, <2>d DEF LockInv
  <2>4. ASSUME NEW d \in Calls, HoldsLocal(d)' PROVE mutex'[EntryOf(d)'] = d
    <3>1. d # c
        BY <2>4, <2>c
    <3> QED BY <3>1, <2>4, <2>0, <2>d DEF LockInv
  <2>5. ASSUME NEW f \in Entries, NEW d \in Calls, mutex'[f] = d
        PROVE  HoldsLocal(d)' /\ EntryOf(d)' = f
    <3>1. HoldsLocal(d) /\ EntryOf(d) = f
        BY <2>0, <2>5 DEF LockInv
    <3>2. d # c
        BY <3>1, <2>c
    <3> QED BY <3>1, <3>2, <2>d
  <2>6. ASSUME NEW f \in Entries PROVE refs'[f] = Cardinality(Referrers(f)')
    <3>0. refs[f] = Cardinality(Referrers(f))
        BY DEF LockInv, Referrers
    <3>1. CASE f = EntryOf(c)
      <4>1. Referrers(f)' = Referrers(f) \ {c} /\ c \in Referrers(f)
          BY <3>1, <2>c, <2>d DEF Referrers
      <4>2. Cardinality(Referrers(f)) # 0
          BY <4>1, ReferrersFinite, FS_EmptySet
      <4>3. Cardinality(Referrers(f)') = Cardinality(Referrers(f)) - 1
          BY <4>1, ReferrersFinite, FS_RemoveElement
      <4>4. refs'[f] = IF refs[f] > 0 THEN refs[f] - 1 ELSE refs[f]
          BY <2>0, <2>1, <3>1, <1>t
      <4> QED BY <3>0, <4>2, <4>3, <4>4, <1>t
    <3>2. CASE f # EntryOf(c)
      <4>1. Referrers(f)' = Referrers(f)
          BY <3>2, <2>c, <2>d DEF Referrers
      <4> QED BY <3>0, <3>2, <4>1, <2>0, <1>t
    <3> QED BY <3>1, <3>2
  <2> QED BY <2>3, <2>4, <2>5, <2>6 DEF LockInv, Referrers
<1> QED BY <1>1, <1>2, <1>3

(* The collector takes no entry a call refers to.                          *)
LEMMA CollectStep ==
  ASSUME TypeOK, LockInv, NEW x \in Replicas, GC(x)
  PROVE  LockInv'
<1>t. /\ current \in [Replicas -> Numbers \cup {0}] /\ held \in [Calls -> Numbers \cup {0}]
      /\ at \in [Calls -> Replicas]
    BY DEF TypeOK
<1>0. /\ current[x] # 0 /\ refs[<<x, current[x]>>] = 0
      /\ current' = [current EXCEPT ![x] = 0]
      /\ UNCHANGED <<at, mutex, refs, held, pc>>
    BY DEF GC, Collectable
<1>1. <<x, current[x]>> \in Entries
    BY <1>0, <1>t DEF Entries
<1>2. Referrers(<<x, current[x]>>) = {}
    BY <1>0, <1>1, ReferrersFinite, FS_EmptySet DEF LockInv, Referrers
<1>3. ASSUME NEW c \in Calls, held[c] # 0 PROVE at[c] # x
  <2>1. current[at[c]] = held[c]
      BY <1>3 DEF LockInv
  <2>2. at[c] = x => EntryOf(c) = <<x, current[x]>>
      BY <2>1 DEF EntryOf
  <2> QED BY <2>2, <1>2 DEF Referrers
<1>4. \A c \in Calls : held'[c] # 0 => current'[at'[c]] = held'[c]
    BY <1>0, <1>3, <1>t DEF LockInv
<1>5. \A c \in Calls : (HoldsLocal(c)' <=> HoldsLocal(c)) /\ EntryOf(c)' = EntryOf(c)
    BY <1>0 DEF HoldsLocal, EntryOf
<1>6. \A e \in Entries : Referrers(e)' = Referrers(e)
    BY <1>5 DEF Referrers
<1>7. \A e \in Entries : refs'[e] = Cardinality(Referrers(e)')
    BY <1>0, <1>6 DEF LockInv, Referrers
<1>8. /\ \A c \in Calls : HoldsLocal(c)' => mutex'[EntryOf(c)'] = c
      /\ \A e \in Entries, c \in Calls :
           mutex'[e] = c => HoldsLocal(c)' /\ EntryOf(c)' = e
    BY <1>0, <1>5 DEF LockInv
<1> QED BY <1>4, <1>7, <1>8 DEF LockInv, Referrers
-----------------------------------------------------------------------------
(* What every state of the lock, the row and the claim satisfies.          *)
StateInv == HeldInv /\ LockInv /\ PgInv /\ RowInv /\ BeginInv /\ ClaimInv /\ PlaceInv

(* The steps of the loop keep it.                                          *)
LEMMA LoopStep ==
  ASSUME TypeOK, StateInv, NEW c \in Calls,
         Inside(c)
  PROVE  StateInv'
<1> USE DEF Goto, lockVars, ageVars, rowVars, steerVars, turnVars
<1>1. pc[c] \in Turning /\ \E p \in Turning \cup {"finish"} : pc' = [pc EXCEPT ![c] = p]
  <2>Top. CASE Top(c)
      BY <2>Top DEF Top, Drain, Fresh, TakeBack, Turning, Looping
  <2>TopLeaves. CASE TopLeaves(c)
      BY <2>TopLeaves DEF TopLeaves, LeaveLoop, Turning, Looping
  <2>CapReached. CASE CapReached(c)
      BY <2>CapReached DEF CapReached, LeaveLoop, Turning, Looping
  <2>Arm. CASE Arm(c)
      BY <2>Arm DEF Arm, Turning, Looping
  <2>Model. CASE Model(c)
      BY <2>Model DEF Model, FinishTurnCancel, Replied, CallFailed, LeaveLoop, Turning,
          Looping
  <2>Backoff. CASE Backoff(c)
      BY <2>Backoff DEF Backoff, NextIteration, Turning, Looping
  <2>Tools. CASE Tools(c)
      BY <2>Tools DEF Tools, FinishTurnCancel, NextIteration, LeaveLoop, Turning,
          Looping
  <2>Boundary. CASE Boundary(c)
      BY <2>Boundary DEF Boundary, NextIteration, Turning, Looping
  <2>Answer. CASE Answer(c)
      BY <2>Answer DEF Answer, StopBlocked, NextIteration, LeaveLoop, Turning, Looping
  <2>Park. CASE Park(c)
      BY <2>Park DEF Park, Turning, Looping
  <2>Parked. CASE Parked(c)
      BY <2>Parked DEF Parked, TakeMessage, Turning, Looping
  <2>IdleDeadline. CASE IdleDeadline(c)
      BY <2>IdleDeadline DEF IdleDeadline, Turning, Looping
  <2>Resume. CASE Resume(c)
      BY <2>Resume DEF Resume, TakeBack, NextIteration, Turning, Looping
  <2>EndIdle. CASE EndIdle(c)
      BY <2>EndIdle DEF EndIdle, CloseIfEmpty, TakeMessage, Turning, Looping
  <2>Settle. CASE Settle(c)
      BY <2>Settle DEF Settle, NextIteration, Turning, Looping
  <2>Close. CASE Close(c)
      BY <2>Close DEF Close, CloseIfEmpty, Turning, Looping
  <2>MarkFinishing. CASE MarkFinishing(c)
      BY <2>MarkFinishing DEF MarkFinishing, Turning, Looping
  <2>SeeCancel. CASE SeeCancel(c)
      BY <2>SeeCancel DEF SeeCancel, LeaveLoop, Turning, Looping
  <2> QED BY <2>Top, <2>TopLeaves, <2>CapReached, <2>Arm, <2>Model, <2>Backoff,
      <2>Tools, <2>Boundary,
      <2>Answer, <2>Park, <2>Parked, <2>IdleDeadline, <2>Resume, <2>EndIdle, <2>Settle,
      <2>Close, <2>MarkFinishing, <2>SeeCancel DEF Inside
<1>2. UNCHANGED <<clustered, exists, at, current, mutex, refs, held, next, row, unended,
                  overlooked, tracked>>
    BY DEF Inside, Top, TopLeaves, CapReached, Arm, Model, Backoff, Tools, Boundary,
        Answer, Park, Parked, IdleDeadline, Resume, EndIdle, Settle, Close, MarkFinishing,
        SeeCancel
<1>3. open' = open /\ (aged' = aged \/ aged' = Fresh(c))
    BY DEF Inside, Top, TopLeaves, CapReached, Arm, Model, Backoff, Tools, Boundary,
        Answer, Park, Parked, IdleDeadline, Resume, EndIdle, Settle, Close, MarkFinishing,
        SeeCancel, TakeMessage
<1>4. \/ pg' = pg
      \/ pg = c /\ pg' = None
      \/ pg = None /\ pg' = c /\ clustered /\ held[c] # 0
    BY DEF Inside, Top, TopLeaves, CapReached, Arm, Model, Backoff, Tools, Boundary,
        Answer, Park, Parked,
        IdleDeadline, Resume, EndIdle, Settle, Close, MarkFinishing, SeeCancel, Drain, TakeBack
<1> QED BY <1>1, <1>2, <1>3, <1>4, LoopFrame DEF StateInv

(* The steps that take, start, end and let go keep it.                     *)
LEMMA CallStep ==
  ASSUME TypeOK, StateInv, NEW c \in Calls,
         Outside(c)
  PROVE  StateInv'
<1>f. \A x \in Replicas : current[x] = 0 => FreeEntry(x) \in Numbers
    BY FreeEntryFound DEF StateInv
<1>1. HeldInv' /\ PgInv' /\ RowInv' /\ BeginInv' /\ ClaimInv'
    BY <1>f, HeldInvStep, PgInvStep, RowInvStep, BeginInvStep, ClaimInvStep DEF StateInv
<1>2. LockInv'
  <2>1. CASE TryLock(c) \/ Unlock(c) \/ Unref(c)
      BY <2>1, LockStep DEF StateInv
  <2>2. CASE ~(TryLock(c) \/ Unlock(c) \/ Unref(c))
    <3> USE DEF Goto, lockVars
    <3>t. pc \in [Calls -> Points] /\ next \in [Calls -> {"busy", "refused", "done"}]
        BY DEF TypeOK
    <3>1. UNCHANGED <<at, current, mutex, refs, held>>
        BY <2>2 DEF Outside, Arrive, TryCluster, Check, Busy, ReleaseCluster, Untrack,
            Admit,
            LetGo, CreateSession, QueueRow, Dequeue, Retake, Recheck, StartRow, Begin,
            Track, Ask, Finish, Deregister
    <3>2. \E p \in Points \ {"unref"} : pc' = [pc EXCEPT ![c] = p]
        BY <2>2, <3>t DEF Outside, Arrive, TryCluster, Check, Busy, ReleaseCluster,
            Untrack,
            Admit, LetGo, CreateSession, QueueRow, Dequeue, Retake, Recheck, StartRow,
            StartQueuedRun, Begin, Track, Ask, FailRun, Finish, Deregister, EndQueued,
             Points, Taking, Starting, Looping, Ending, Release, Over
    <3>3. pc[c] # "unref"
        BY <2>2 DEF Outside, Arrive, TryCluster, Check, Busy, ReleaseCluster, Untrack,
            Admit,
            LetGo, CreateSession, QueueRow, Dequeue, Retake, Recheck, StartRow, Begin,
            Track, Ask, Finish, Deregister
    <3>4. \A d \in Calls : pc'[d] = "unref" <=> pc[d] = "unref"
        BY <3>2, <3>3, <3>t
    <3> QED BY <3>1, <3>4, LockFrame DEF StateInv
  <2> QED BY <2>1, <2>2
<1>3. PlaceInv'
    BY DEF StateInv, PlaceInv, lockVars, Outside, Arrive, TryLock, TryCluster, Check,
        Busy,
        ReleaseCluster, Unlock, Unref, Untrack, Admit, LetGo, CreateSession, QueueRow, Dequeue,
        Retake, Recheck, StartRow, Begin, Track, Ask, Finish, Deregister
<1> QED BY <1>1, <1>2, <1>3 DEF StateInv

(* A step that moves no call and takes no lock keeps it.                   *)
LEMMA StillStep ==
  ASSUME StateInv, LockInv',
         UNCHANGED <<clustered, exists, pc, at, held, pg, next, row, aged, unended,
                     overlooked, tracked, open>>
  PROVE  StateInv'
<1>1. HeldInv' /\ PgInv' /\ RowInv'
    BY DEF StateInv, HeldInv, PgInv, RowInv, Live
<1>2. BeginInv' /\ ClaimInv' /\ PlaceInv'
    BY DEF StateInv, BeginInv, Refusable, ClaimInv, Live, PlaceInv
<1> QED BY <1>1, <1>2 DEF StateInv

(* Time passing over a row, a heartbeat and a row ended elsewhere keep it. *)
LEMMA SweepStep ==
  ASSUME TypeOK, StateInv, NEW c \in Calls, Age(c) \/ Beat(c) \/ EndElsewhere(c)
  PROVE  StateInv'
<1> USE DEF lockVars, ageVars, steerVars, turnVars
<1>0. UNCHANGED <<clustered, exists, pc, at, current, mutex, refs, held, pg, next, unended,
                  overlooked, tracked, open>>
    BY DEF Age, Beat, EndElsewhere
<1>t. row \in [Calls -> {"none", "queued", "running", "ended"}]
    BY DEF TypeOK
<1>1. HeldInv' /\ PgInv' /\ ClaimInv' /\ PlaceInv'
    BY <1>0 DEF StateInv, HeldInv, PgInv, ClaimInv, Live, PlaceInv
<1>2. LockInv'
    BY <1>0, LockFrame DEF StateInv
<1>3. RowInv' /\ BeginInv'
  <2>1. CASE row' = row
    <3>1. \A d \in Calls : row[d] = "ended" /\ d \in aged => d \in aged'
        BY <2>1, <1>t DEF Age, Beat, EndElsewhere, Fresh
    <3> QED BY <2>1, <3>1, <1>0 DEF StateInv, RowInv, BeginInv, Refusable, Live
  <2>2. CASE row' # row
    <3>1. /\ row' = [row EXCEPT ![c] = "ended"] /\ aged' = aged
          /\ row[c] = "queued" \/ (row[c] = "running" /\ c \in aged)
        BY <2>2 DEF Age, Beat, EndElsewhere
    <3>2. Live(c) => c \in aged
        BY <3>1 DEF StateInv, RowInv, Live, Looping, Release, Over
    <3>3. RowInv'
        BY <3>1, <3>2, <1>0, <1>t DEF StateInv, RowInv, Live
    <3>4. BeginInv'
        BY <3>1, <1>0, <1>t DEF StateInv, BeginInv, Refusable
    <3> QED BY <3>3, <3>4
  <2> QED BY <2>1, <2>2
<1> QED BY <1>1, <1>2, <1>3 DEF StateInv

(* No step forgets a turn cancel that is owed.                             *)
LEMMA OwedStep ==
  ASSUME TypeOK, OwedInv, [Next]_vars
  PROVE  OwedInv'
<1> USE DEF Goto, lockVars, ageVars, rowVars, steerVars, turnVars
<1>t. /\ pc \in [Calls -> Points] /\ owed \in [Calls -> {"no", "turn", "gap"}]
      /\ fired \in [Calls -> BOOLEAN] /\ next \in [Calls -> {"busy", "refused", "done"}]
    BY DEF TypeOK
<1>Arrive. ASSUME NEW c \in Calls, Arrive(c) PROVE OwedInv'
    BY <1>Arrive, <1>t DEF Arrive, OwedInv
<1>TryLock. ASSUME NEW c \in Calls, TryLock(c) PROVE OwedInv'
    BY <1>TryLock, <1>t DEF TryLock, OwedInv
<1>TryCluster. ASSUME NEW c \in Calls, TryCluster(c) PROVE OwedInv'
    BY <1>TryCluster, <1>t DEF TryCluster, OwedInv
<1>Check. ASSUME NEW c \in Calls, Check(c) PROVE OwedInv'
    BY <1>Check, <1>t DEF Check, SessionHasLiveRun, OwedInv
<1>Busy. ASSUME NEW c \in Calls, Busy(c) PROVE OwedInv'
    BY <1>Busy, <1>t DEF Busy, SessionEnding, OwedInv
<1>ReleaseCluster. ASSUME NEW c \in Calls, ReleaseCluster(c) PROVE OwedInv'
    BY <1>ReleaseCluster, <1>t DEF ReleaseCluster, OwedInv
<1>Unlock. ASSUME NEW c \in Calls, Unlock(c) PROVE OwedInv'
    BY <1>Unlock, <1>t DEF Unlock, OwedInv
<1>Unref. ASSUME NEW c \in Calls, Unref(c) PROVE OwedInv'
    BY <1>Unref, <1>t DEF Unref, OwedInv
<1>Untrack. ASSUME NEW c \in Calls, Untrack(c) PROVE OwedInv'
    BY <1>Untrack, <1>t DEF Untrack, OwedInv
<1>Admit. ASSUME NEW c \in Calls, Admit(c) PROVE OwedInv'
    BY <1>Admit, <1>t DEF Admit, OwedInv
<1>LetGo. ASSUME NEW c \in Calls, LetGo(c) PROVE OwedInv'
    BY <1>LetGo, <1>t DEF LetGo, OwedInv
<1>CreateSession. ASSUME NEW c \in Calls, CreateSession(c) PROVE OwedInv'
    BY <1>CreateSession, <1>t DEF CreateSession, OwedInv
<1>QueueRow. ASSUME NEW c \in Calls, QueueRow(c) PROVE OwedInv'
    BY <1>QueueRow, <1>t DEF QueueRow, OwedInv
<1>Dequeue. ASSUME NEW c \in Calls, Dequeue(c) PROVE OwedInv'
    BY <1>Dequeue, <1>t DEF Dequeue, EndQueued, EndRow, LeaveBehind, OwedInv
<1>Retake. ASSUME NEW c \in Calls, Retake(c) PROVE OwedInv'
    BY <1>Retake, <1>t DEF Retake, EndQueued, EndRow, LeaveBehind, OwedInv
<1>Recheck. ASSUME NEW c \in Calls, Recheck(c) PROVE OwedInv'
    BY <1>Recheck, <1>t DEF Recheck, EndQueued, EndRow, LeaveBehind, SessionHasLiveRun,
        OwedInv
<1>StartRow. ASSUME NEW c \in Calls, StartRow(c) PROVE OwedInv'
    BY <1>StartRow, <1>t DEF StartRow, StartQueuedRun, EndQueued, EndRow, LeaveBehind,
        OwedInv
<1>Track. ASSUME NEW c \in Calls, Track(c) PROVE OwedInv'
    BY <1>Track, <1>t DEF Track, OwedInv
<1>Ask. ASSUME NEW c \in Calls, Ask(c) PROVE OwedInv'
    BY <1>Ask, <1>t DEF Ask, FailRun, EndRow, LeaveBehind, OwedInv
<1>Finish. ASSUME NEW c \in Calls, Finish(c) PROVE OwedInv'
    BY <1>Finish, <1>t DEF Finish, EndRow, LeaveBehind, OwedInv
<1>Deregister. ASSUME NEW c \in Calls, Deregister(c) PROVE OwedInv'
    BY <1>Deregister, <1>t DEF Deregister, OwedInv
<1>Begin. ASSUME NEW c \in Calls, Begin(c) PROVE OwedInv'
    BY <1>Begin, <1>t DEF Begin, FailRun, EndRow, LeaveBehind, OwedInv
<1>Top. ASSUME NEW c \in Calls, Top(c) PROVE OwedInv'
    BY <1>Top, <1>t DEF Top, Drain, Fresh, TakeBack, OwedInv
<1>TopLeaves. ASSUME NEW c \in Calls, TopLeaves(c) PROVE OwedInv'
    BY <1>TopLeaves, <1>t DEF TopLeaves, Drain, TakeBack, LeaveLoop, OwedInv
<1>CapReached. ASSUME NEW c \in Calls, CapReached(c) PROVE OwedInv'
    BY <1>CapReached, <1>t DEF CapReached, LeaveLoop, OwedInv
<1>Arm. ASSUME NEW c \in Calls, Arm(c) PROVE OwedInv'
    BY <1>Arm, <1>t DEF Arm, OwedInv
<1>Model. ASSUME NEW c \in Calls, Model(c) PROVE OwedInv'
    BY <1>Model, <1>t DEF Model, FinishTurnCancel, Replied, CallFailed, LeaveLoop,
        TurnStopped, StoppedInTools, OwedInv
<1>Backoff. ASSUME NEW c \in Calls, Backoff(c) PROVE OwedInv'
    BY <1>Backoff, <1>t DEF Backoff, NextIteration, OwedInv
<1>Tools. ASSUME NEW c \in Calls, Tools(c) PROVE OwedInv'
    BY <1>Tools, <1>t DEF Tools, FinishTurnCancel, NextIteration, LeaveLoop,
        TurnStopped, StoppedInTools, OwedInv
<1>Boundary. ASSUME NEW c \in Calls, Boundary(c) PROVE OwedInv'
    BY <1>Boundary, <1>t DEF Boundary, NextIteration, OwedInv
<1>Answer. ASSUME NEW c \in Calls, Answer(c) PROVE OwedInv'
    BY <1>Answer, <1>t DEF Answer, StopBlocked, NextIteration, LeaveLoop, OwedInv
<1>Park. ASSUME NEW c \in Calls, Park(c) PROVE OwedInv'
    BY <1>Park, <1>t DEF Park, OwedInv
<1>Parked. ASSUME NEW c \in Calls, Parked(c) PROVE OwedInv'
    BY <1>Parked, <1>t DEF Parked, TakeMessage, OwedInv
<1>IdleDeadline. ASSUME NEW c \in Calls, IdleDeadline(c) PROVE OwedInv'
    BY <1>IdleDeadline, <1>t DEF IdleDeadline, OwedInv
<1>Resume. ASSUME NEW c \in Calls, Resume(c) PROVE OwedInv'
    BY <1>Resume, <1>t DEF Resume, TakeBack, NextIteration, OwedInv
<1>EndIdle. ASSUME NEW c \in Calls, EndIdle(c) PROVE OwedInv'
    BY <1>EndIdle, <1>t DEF EndIdle, CloseIfEmpty, TakeMessage, OwedInv
<1>Settle. ASSUME NEW c \in Calls, Settle(c) PROVE OwedInv'
    BY <1>Settle, <1>t DEF Settle, NextIteration, OwedInv
<1>Close. ASSUME NEW c \in Calls, Close(c) PROVE OwedInv'
    BY <1>Close, <1>t DEF Close, CloseIfEmpty, OwedInv
<1>MarkFinishing. ASSUME NEW c \in Calls, MarkFinishing(c) PROVE OwedInv'
    BY <1>MarkFinishing, <1>t DEF MarkFinishing, OwedInv
<1>SeeCancel. ASSUME NEW c \in Calls, SeeCancel(c) PROVE OwedInv'
    BY <1>SeeCancel, <1>t DEF SeeCancel, LeaveLoop, OwedInv
<1>CancelRun. ASSUME NEW c \in Calls, CancelRun(c) PROVE OwedInv'
    BY <1>CancelRun, <1>t DEF CancelRun, OwedInv
<1>EndElsewhere. ASSUME NEW c \in Calls, EndElsewhere(c) PROVE OwedInv'
    BY <1>EndElsewhere, <1>t DEF EndElsewhere, OwedInv
<1>Beat. ASSUME NEW c \in Calls, Beat(c) PROVE OwedInv'
    BY <1>Beat, <1>t DEF Beat, Fresh, OwedInv
<1>Age. ASSUME NEW c \in Calls, Age(c) PROVE OwedInv'
    BY <1>Age, <1>t DEF Age, OwedInv
<1>GC. ASSUME NEW x \in Replicas, GC(x) PROVE OwedInv'
    BY <1>GC DEF GC, OwedInv
<1>Push. ASSUME NEW m \in Messages, NEW c \in Calls, Push(m, c) PROVE OwedInv'
    BY <1>Push DEF Push, OwedInv
<1>TakeToken. ASSUME NEW k \in DOMAIN aim, NEW c \in Calls, TakeToken(k, c) PROVE OwedInv'
    BY <1>TakeToken DEF TakeToken, OwedInv
<1>FireToken. ASSUME NEW k \in DOMAIN aim, FireToken(k) PROVE OwedInv'
    BY <1>FireToken, <1>t DEF FireToken, OwedInv
<1>stutter. ASSUME UNCHANGED vars PROVE OwedInv'
    BY <1>stutter DEF vars, OwedInv
<1> QED
    BY <1>Arrive, <1>TryLock, <1>TryCluster, <1>Check, <1>Busy, <1>ReleaseCluster,
        <1>Unlock, <1>Unref, <1>Untrack, <1>Admit, <1>LetGo, <1>CreateSession, <1>QueueRow, <1>Dequeue,
        <1>Retake, <1>Recheck, <1>StartRow, <1>Finish, <1>Deregister, <1>Begin, <1>Track, <1>Ask, <1>Top, <1>TopLeaves,
        <1>CapReached, <1>Arm, <1>Model, <1>Backoff, <1>Tools, <1>Boundary, <1>Answer, <1>Park,
        <1>Parked, <1>IdleDeadline, <1>Resume, <1>EndIdle, <1>Settle, <1>Close,
        <1>MarkFinishing, <1>SeeCancel, <1>CancelRun, <1>Age, <1>Beat, <1>EndElsewhere, <1>GC, <1>Push, <1>TakeToken,
        <1>FireToken, <1>stutter
    DEF Next, Step, Take, LetSessionGo, Start, Loop

(* No step leaves a message in a closed queue.                             *)
LEMMA ReadStep ==
  ASSUME TypeOK, AcceptedIsRead, [Next]_vars
  PROVE  AcceptedIsRead'
<1> USE DEF Goto, lockVars, ageVars, rowVars, steerVars, turnVars
<1>t. /\ queue \in [Calls -> Seq(Messages)]
    BY DEF TypeOK
<1>Arrive. ASSUME NEW c \in Calls, Arrive(c) PROVE AcceptedIsRead'
    BY <1>Arrive, <1>t DEF Arrive, AcceptedIsRead
<1>TryLock. ASSUME NEW c \in Calls, TryLock(c) PROVE AcceptedIsRead'
    BY <1>TryLock, <1>t DEF TryLock, AcceptedIsRead
<1>TryCluster. ASSUME NEW c \in Calls, TryCluster(c) PROVE AcceptedIsRead'
    BY <1>TryCluster, <1>t DEF TryCluster, AcceptedIsRead
<1>Check. ASSUME NEW c \in Calls, Check(c) PROVE AcceptedIsRead'
    BY <1>Check, <1>t DEF Check, SessionHasLiveRun, AcceptedIsRead
<1>Busy. ASSUME NEW c \in Calls, Busy(c) PROVE AcceptedIsRead'
    BY <1>Busy, <1>t DEF Busy, SessionEnding, AcceptedIsRead
<1>ReleaseCluster. ASSUME NEW c \in Calls, ReleaseCluster(c) PROVE AcceptedIsRead'
    BY <1>ReleaseCluster, <1>t DEF ReleaseCluster, AcceptedIsRead
<1>Unlock. ASSUME NEW c \in Calls, Unlock(c) PROVE AcceptedIsRead'
    BY <1>Unlock, <1>t DEF Unlock, AcceptedIsRead
<1>Unref. ASSUME NEW c \in Calls, Unref(c) PROVE AcceptedIsRead'
    BY <1>Unref, <1>t DEF Unref, AcceptedIsRead
<1>Untrack. ASSUME NEW c \in Calls, Untrack(c) PROVE AcceptedIsRead'
    BY <1>Untrack, <1>t DEF Untrack, AcceptedIsRead
<1>Admit. ASSUME NEW c \in Calls, Admit(c) PROVE AcceptedIsRead'
    BY <1>Admit, <1>t DEF Admit, AcceptedIsRead
<1>LetGo. ASSUME NEW c \in Calls, LetGo(c) PROVE AcceptedIsRead'
    BY <1>LetGo, <1>t DEF LetGo, AcceptedIsRead
<1>CreateSession. ASSUME NEW c \in Calls, CreateSession(c) PROVE AcceptedIsRead'
    BY <1>CreateSession, <1>t DEF CreateSession, AcceptedIsRead
<1>QueueRow. ASSUME NEW c \in Calls, QueueRow(c) PROVE AcceptedIsRead'
    BY <1>QueueRow, <1>t DEF QueueRow, AcceptedIsRead
<1>Dequeue. ASSUME NEW c \in Calls, Dequeue(c) PROVE AcceptedIsRead'
    BY <1>Dequeue, <1>t DEF Dequeue, EndQueued, EndRow, LeaveBehind, AcceptedIsRead
<1>Retake. ASSUME NEW c \in Calls, Retake(c) PROVE AcceptedIsRead'
    BY <1>Retake, <1>t DEF Retake, EndQueued, EndRow, LeaveBehind, AcceptedIsRead
<1>Recheck. ASSUME NEW c \in Calls, Recheck(c) PROVE AcceptedIsRead'
    BY <1>Recheck, <1>t DEF Recheck, EndQueued, EndRow, LeaveBehind, SessionHasLiveRun,
        AcceptedIsRead
<1>StartRow. ASSUME NEW c \in Calls, StartRow(c) PROVE AcceptedIsRead'
    BY <1>StartRow, <1>t DEF StartRow, StartQueuedRun, EndQueued, EndRow, LeaveBehind,
        AcceptedIsRead
<1>Track. ASSUME NEW c \in Calls, Track(c) PROVE AcceptedIsRead'
    BY <1>Track, <1>t DEF Track, AcceptedIsRead
<1>Ask. ASSUME NEW c \in Calls, Ask(c) PROVE AcceptedIsRead'
    BY <1>Ask, <1>t DEF Ask, FailRun, EndRow, LeaveBehind, AcceptedIsRead
<1>Finish. ASSUME NEW c \in Calls, Finish(c) PROVE AcceptedIsRead'
    BY <1>Finish, <1>t DEF Finish, EndRow, LeaveBehind, AcceptedIsRead
<1>Deregister. ASSUME NEW c \in Calls, Deregister(c) PROVE AcceptedIsRead'
    BY <1>Deregister, <1>t DEF Deregister, AcceptedIsRead
<1>Begin. ASSUME NEW c \in Calls, Begin(c) PROVE AcceptedIsRead'
    BY <1>Begin, <1>t DEF Begin, FailRun, EndRow, LeaveBehind, AcceptedIsRead
<1>Top. ASSUME NEW c \in Calls, Top(c) PROVE AcceptedIsRead'
    BY <1>Top, <1>t DEF Top, Drain, Fresh, TakeBack, AcceptedIsRead
<1>TopLeaves. ASSUME NEW c \in Calls, TopLeaves(c) PROVE AcceptedIsRead'
  <2>1. closed' = closed /\ (queue' = queue \/ queue' = [queue EXCEPT ![c] = <<>>])
      BY <1>TopLeaves DEF TopLeaves, Drain
  <2>2. CASE queue' = queue
      BY <2>1, <2>2 DEF AcceptedIsRead
  <2>3. CASE queue' = [queue EXCEPT ![c] = <<>>]
      BY <1>t, <2>1, <2>3 DEF AcceptedIsRead
  <2> QED BY <2>1, <2>2, <2>3
<1>CapReached. ASSUME NEW c \in Calls, CapReached(c) PROVE AcceptedIsRead'
    BY <1>CapReached, <1>t DEF CapReached, LeaveLoop, AcceptedIsRead
<1>Arm. ASSUME NEW c \in Calls, Arm(c) PROVE AcceptedIsRead'
    BY <1>Arm, <1>t DEF Arm, AcceptedIsRead
<1>Model. ASSUME NEW c \in Calls, Model(c) PROVE AcceptedIsRead'
    BY <1>Model, <1>t DEF Model, FinishTurnCancel, Replied, CallFailed, LeaveLoop,
        AcceptedIsRead
<1>Backoff. ASSUME NEW c \in Calls, Backoff(c) PROVE AcceptedIsRead'
    BY <1>Backoff, <1>t DEF Backoff, NextIteration, AcceptedIsRead
<1>Tools. ASSUME NEW c \in Calls, Tools(c) PROVE AcceptedIsRead'
    BY <1>Tools, <1>t DEF Tools, FinishTurnCancel, NextIteration, LeaveLoop,
        AcceptedIsRead
<1>Boundary. ASSUME NEW c \in Calls, Boundary(c) PROVE AcceptedIsRead'
    BY <1>Boundary, <1>t DEF Boundary, NextIteration, AcceptedIsRead
<1>Answer. ASSUME NEW c \in Calls, Answer(c) PROVE AcceptedIsRead'
    BY <1>Answer, <1>t DEF Answer, StopBlocked, NextIteration, LeaveLoop, AcceptedIsRead
<1>Park. ASSUME NEW c \in Calls, Park(c) PROVE AcceptedIsRead'
    BY <1>Park, <1>t DEF Park, AcceptedIsRead
<1>Parked. ASSUME NEW c \in Calls, Parked(c) PROVE AcceptedIsRead'
    BY <1>Parked, <1>t DEF Parked, TakeMessage, AcceptedIsRead
<1>IdleDeadline. ASSUME NEW c \in Calls, IdleDeadline(c) PROVE AcceptedIsRead'
    BY <1>IdleDeadline, <1>t DEF IdleDeadline, AcceptedIsRead
<1>Resume. ASSUME NEW c \in Calls, Resume(c) PROVE AcceptedIsRead'
    BY <1>Resume, <1>t DEF Resume, TakeBack, NextIteration, AcceptedIsRead
<1>EndIdle. ASSUME NEW c \in Calls, EndIdle(c) PROVE AcceptedIsRead'
  <2>1. CASE CloseIfEmpty(c) /\ UNCHANGED queue
      BY <2>1 DEF CloseIfEmpty, AcceptedIsRead
  <2>2. CASE TakeMessage(c)
    <3>1. c \notin closed /\ closed' = closed /\ \A d \in Calls \ {c} : queue'[d] = queue[d]
        BY <2>2, <1>t DEF TakeMessage, AcceptedIsRead
    <3> QED BY <3>1 DEF AcceptedIsRead, TypeOK
  <2> QED BY <1>EndIdle, <2>1, <2>2 DEF EndIdle
<1>Settle. ASSUME NEW c \in Calls, Settle(c) PROVE AcceptedIsRead'
    BY <1>Settle, <1>t DEF Settle, NextIteration, AcceptedIsRead
<1>Close. ASSUME NEW c \in Calls, Close(c) PROVE AcceptedIsRead'
    BY <1>Close, <1>t DEF Close, CloseIfEmpty, AcceptedIsRead
<1>MarkFinishing. ASSUME NEW c \in Calls, MarkFinishing(c) PROVE AcceptedIsRead'
    BY <1>MarkFinishing, <1>t DEF MarkFinishing, AcceptedIsRead
<1>SeeCancel. ASSUME NEW c \in Calls, SeeCancel(c) PROVE AcceptedIsRead'
    BY <1>SeeCancel, <1>t DEF SeeCancel, LeaveLoop, AcceptedIsRead
<1>CancelRun. ASSUME NEW c \in Calls, CancelRun(c) PROVE AcceptedIsRead'
    BY <1>CancelRun, <1>t DEF CancelRun, AcceptedIsRead
<1>EndElsewhere. ASSUME NEW c \in Calls, EndElsewhere(c) PROVE AcceptedIsRead'
    BY <1>EndElsewhere, <1>t DEF EndElsewhere, AcceptedIsRead
<1>Beat. ASSUME NEW c \in Calls, Beat(c) PROVE AcceptedIsRead'
    BY <1>Beat, <1>t DEF Beat, Fresh, AcceptedIsRead
<1>Age. ASSUME NEW c \in Calls, Age(c) PROVE AcceptedIsRead'
    BY <1>Age, <1>t DEF Age, AcceptedIsRead
<1>GC. ASSUME NEW x \in Replicas, GC(x) PROVE AcceptedIsRead'
    BY <1>GC DEF GC, AcceptedIsRead
<1>Push. ASSUME NEW m \in Messages, NEW c \in Calls, Push(m, c) PROVE AcceptedIsRead'
  <2>1. /\ closed' = closed
        /\ \A d \in Calls : d \in closed => queue'[d] = queue[d]
      BY <1>Push, <1>t DEF Push
  <2> QED BY <2>1 DEF AcceptedIsRead, TypeOK
<1>TakeToken. ASSUME NEW k \in DOMAIN aim, NEW c \in Calls, TakeToken(k, c) PROVE AcceptedIsRead'
    BY <1>TakeToken DEF TakeToken, AcceptedIsRead
<1>FireToken. ASSUME NEW k \in DOMAIN aim, FireToken(k) PROVE AcceptedIsRead'
    BY <1>FireToken, <1>t DEF FireToken, AcceptedIsRead
<1>stutter. ASSUME UNCHANGED vars PROVE AcceptedIsRead'
    BY <1>stutter DEF vars, AcceptedIsRead
<1> QED
    BY <1>Arrive, <1>TryLock, <1>TryCluster, <1>Check, <1>Busy, <1>ReleaseCluster,
        <1>Unlock, <1>Unref, <1>Untrack, <1>Admit, <1>LetGo, <1>CreateSession, <1>QueueRow, <1>Dequeue,
        <1>Retake, <1>Recheck, <1>StartRow, <1>Finish, <1>Deregister, <1>Begin, <1>Track, <1>Ask, <1>Top, <1>TopLeaves,
        <1>CapReached, <1>Arm, <1>Model, <1>Backoff, <1>Tools, <1>Boundary, <1>Answer, <1>Park,
        <1>Parked, <1>IdleDeadline, <1>Resume, <1>EndIdle, <1>Settle, <1>Close,
        <1>MarkFinishing, <1>SeeCancel, <1>CancelRun, <1>Age, <1>Beat, <1>EndElsewhere, <1>GC, <1>Push, <1>TakeToken,
        <1>FireToken, <1>stutter
    DEF Next, Step, Take, LetSessionGo, Start, Loop
-----------------------------------------------------------------------------
(* The invariant holds at the start ...                                    *)
LEMMA InvInit == Init => IInv
<1> SUFFICES ASSUME Init PROVE IInv
    OBVIOUS
<1> USE SessionAssumption
<1>pc. \A c \in Calls : pc[c] = "new" /\ held[c] = 0
    BY DEF Init
<1>1. TypeOK
  <2>1. at \in [Calls -> Replicas]
      BY DEF Init
  <2> QED BY <2>1 DEF Init, TypeOK, Points
<1>2. LockInv
  <2>1. \A e \in Entries, c \in Calls : EntryOf(c) # e
    <3>1. 0 \notin Numbers
        BY DEF Numbers
    <3> QED BY <1>pc, <3>1 DEF EntryOf, Entries
  <2>2. \A e \in Entries : {c \in Calls : EntryOf(c) = e} = {}
      BY <2>1
  <2>3. \A e \in Entries : refs[e] = Cardinality({c \in Calls : EntryOf(c) = e})
      BY <2>2, FS_EmptySet DEF Init
  <2>4. \A e \in Entries, c \in Calls : mutex[e] # c
      BY DEF Init
  <2> QED BY <1>pc, <2>3, <2>4 DEF LockInv, HoldsLocal
<1>3. HeldInv /\ PgInv
    BY <1>pc DEF Init, HeldInv, PgInv
<1>4. RowInv
    BY <1>pc DEF Init, RowInv, Live, Looping
<1>5. BeginInv
    BY <1>pc DEF Init, BeginInv, Past, Starting, Looping
<1>6. ClaimInv /\ PlaceInv /\ OwedInv /\ AcceptedIsRead
    BY <1>pc DEF Init, ClaimInv, Live, Looping, PlaceInv, OwedInv, AcceptedIsRead
<1> QED BY <1>1, <1>2, <1>3, <1>4, <1>5, <1>6 DEF IInv

(* ... and every step keeps it.                                            *)
LEMMA InvStep == IInv /\ [Next]_vars => IInv'
<1> SUFFICES ASSUME IInv, [Next]_vars PROVE IInv'
    OBVIOUS
<1>s. TypeOK /\ StateInv /\ OwedInv /\ AcceptedIsRead
    BY DEF IInv, StateInv
<1>1. TypeOK'
    BY <1>s, FreeEntryFound, TypeStep DEF StateInv
<1>2. OwedInv' /\ AcceptedIsRead'
    BY <1>s, OwedStep, ReadStep
<1> USE DEF lockVars, ageVars, rowVars, steerVars, turnVars
<1>3. ASSUME NEW c \in Calls,
             Arrive(c) \/ Step(c) \/ IdleDeadline(c)
      PROVE  StateInv'
    BY <1>3, <1>s, LoopStep, CallStep DEF Inside, Outside, Step, Take, LetSessionGo,
        Start, Loop
<1>4. ASSUME NEW x \in Replicas, GC(x) PROVE StateInv'
  <2>1. LockInv'
      BY <1>4, <1>s, CollectStep DEF StateInv
  <2> QED BY <1>4, <1>s, <2>1, StillStep DEF GC
<1>5. ASSUME UNCHANGED <<clustered, exists, pc, at, current, mutex, refs, held, pg, next,
                         row, aged, unended, overlooked, tracked, open>>
      PROVE  StateInv'
  <2>1. LockInv'
      BY <1>5, <1>s, LockFrame DEF StateInv
  <2> QED BY <1>5, <1>s, <2>1, StillStep
<1>6. ASSUME NEW c \in Calls, CancelRun(c) PROVE StateInv'
    BY <1>6, <1>5 DEF CancelRun
<1>7. ASSUME NEW m \in Messages, NEW c \in Calls, Push(m, c) PROVE StateInv'
    BY <1>7, <1>5 DEF Push
<1>8. ASSUME NEW k \in DOMAIN aim, NEW c \in Calls, TakeToken(k, c) PROVE StateInv'
    BY <1>8, <1>5 DEF TakeToken
<1>9. ASSUME NEW k \in DOMAIN aim, FireToken(k) PROVE StateInv'
    BY <1>9, <1>5 DEF FireToken
<1>10. ASSUME UNCHANGED vars PROVE StateInv'
    BY <1>10, <1>5 DEF vars
<1>12. ASSUME NEW c \in Calls, Age(c) \/ Beat(c) \/ EndElsewhere(c) PROVE StateInv'
    BY <1>12, <1>s, SweepStep
<1>11. StateInv'
    BY <1>12, <1>3, <1>4, <1>6, <1>7, <1>8, <1>9, <1>10 DEF Next
<1> QED BY <1>1, <1>2, <1>11 DEF IInv, StateInv

(* IInv is an invariant.                                                   *)
LEMMA InvHolds == Spec => []IInv
  BY InvInit, InvStep, PTL DEF Spec

(* Two calls never have the session's in-process lock on one replica,      *)
(* whatever the collector and the two halves of a release do: an entry     *)
(* somebody refers to stays in the map, and its mutex has one holder.      *)
THEOREM SessionLockExclusive == Spec => []LocalLockExclusive
<1>1. IInv => LocalLockExclusive
  <2> SUFFICES ASSUME IInv, NEW c \in Calls, NEW d \in Calls,
                      HoldsLocal(c), HoldsLocal(d), at[c] = at[d]
               PROVE  c = d
      BY DEF LocalLockExclusive
  <2>1. EntryOf(c) = EntryOf(d)
      BY DEF IInv, LockInv, HoldsLocal, EntryOf
  <2> QED BY <2>1 DEF IInv, LockInv
<1> QED BY <1>1, InvHolds, PTL

(* Two runs of a session are live together only when a check could not     *)
(* see one of them (its row past the cutoff, or not yet there for the      *)
(* session's first run), or without the cluster lock beside the first run. *)
THEOREM SessionOneLiveRun == Spec => []OneLiveRun
<1>1. IInv => OneLiveRun
  <2> SUFFICES ASSUME IInv, NEW c \in Calls, NEW d \in Calls, c # d, Live(c), Live(d),
                      c \notin overlooked, d \notin overlooked
               PROVE  ~clustered /\ (held[c] = 0 \/ held[d] = 0)
      BY DEF OneLiveRun
  <2>1. ~clustered
      BY DEF IInv, ClaimInv
  <2>2. held[c] = 0 \/ held[d] = 0
    <3> SUFFICES ASSUME held[c] # 0, held[d] # 0 PROVE FALSE
        OBVIOUS
    <3>1. HoldsLocal(c) /\ HoldsLocal(d)
        BY DEF HoldsLocal, Live, Looping
    <3>2. EntryOf(c) = EntryOf(d)
        BY <2>1, <3>1 DEF IInv, LockInv, PlaceInv, HoldsLocal, EntryOf
    <3> QED BY <3>1, <3>2 DEF IInv, LockInv
  <2> QED BY <2>1, <2>2
<1> QED BY <1>1, InvHolds, PTL

(* A call that is over has given back what it took, on every path out of   *)
(* taking, waiting, starting and running, failing statements included.     *)
(* Its row is ended unless the statement that ends it failed.              *)
THEOREM SessionGivenBack == Spec => []SessionReturned
<1>1. IInv => SessionReturned
  <2> SUFFICES ASSUME IInv, NEW c \in Calls, pc[c] \in Over
               PROVE  /\ pg # c /\ held[c] = 0 /\ c \notin tracked /\ c \notin open
                      /\ \A e \in Entries : mutex[e] # c
                      /\ row[c] \in {"none", "ended"} \/ c \in unended
      BY DEF SessionReturned
  <2>1. held[c] = 0 /\ pg # c
      BY DEF IInv, HeldInv, PgInv, Over, Starting, Looping, Ending
  <2>2. \A e \in Entries : mutex[e] # c
      BY <2>1 DEF IInv, LockInv, HoldsLocal
  <2>3. c \notin tracked /\ c \notin open
      BY DEF IInv, RowInv, Over, Turning, Looping, Ending, Release
  <2>4. row[c] \in {"none", "ended"} \/ c \in unended
      BY DEF IInv, TypeOK, RowInv, Live, Over, Looping
  <2> QED BY <2>1, <2>2, <2>3, <2>4
<1> QED BY <1>1, InvHolds, PTL

(* A closed queue is empty: every message the run accepted was read.       *)
THEOREM SessionMessagesRead == Spec => []AcceptedIsRead
<1>1. IInv => AcceptedIsRead
    BY DEF IInv
<1> QED BY <1>1, InvHolds, PTL

(* A turn cancel that fired in the model call or in the tools stops the    *)
(* run before its next turn.                                               *)
THEOREM SessionCancelStops == Spec => []CancelInTurnStops
<1>1. IInv => CancelInTurnStops
    BY DEF IInv, OwedInv, CancelInTurnStops
<1> QED BY <1>1, InvHolds, PTL

(* The types.                                                              *)
THEOREM SessionTypeCorrect == Spec => []TypeOK
<1>1. IInv => TypeOK
    BY DEF IInv
<1> QED BY <1>1, InvHolds, PTL
=============================================================================
