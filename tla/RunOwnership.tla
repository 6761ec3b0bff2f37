---------------------------- MODULE RunOwnership ----------------------------
(***************************************************************************)
(* Who owns a run in a cluster, and who gives its user's place back.       *)
(*                                                                         *)
(* Every replica writes a heartbeat row, runs loops, and keeps the shared  *)
(* per-user count (user_quotas) in the database.  A replica may stop after *)
(* parking its runs, or crash; the replicas sweeper                        *)
(* (internal/coord/replicas_sweeper.go) then fails its runs and takes      *)
(* their counts back, the heartbeat sweeper (internal/heartbeat) fails     *)
(* rows nobody heartbeats, and a resume pass (internal/api/http/resume.go) *)
(* moves parked runs to a live replica.  Each of these is several SQL      *)
(* statements with no transaction around them: each statement is a step.   *)
(*                                                                         *)
(* The counts of different users never meet, so one user is modelled.      *)
(* Sub-runs take no count and are left out; a resumed run whose count      *)
(* could not be written is a run of the same kind, without a record.       *)
(* A replica is taken for dead only when it is: heartbeats of a running    *)
(* process are assumed to reach the database within the 90 s cutoff, and a *)
(* running loop heartbeats its row within the 10 min cutoff.               *)
(*                                                                         *)
(* A statement fails where the code goes on without it: the release of a   *)
(* count, its record, the owner stamp of a resume, a statement of a sweep, *)
(* a read.  One that ends a row, or gives it back as paused, and those of  *)
(* releaseStoppedOwnersSlot are taken to succeed: a failed one leaves the  *)
(* row to the heartbeat sweeper, or the count behind, as a crash does.     *)
(***************************************************************************)
EXTENDS Integers, FiniteSets

CONSTANTS
    Replicas,       \* LOOMCYCLE_REPLICA_ID values
    Runs,
    NoReplica,
    Cap,            \* max_concurrent_runs_per_user
    MaxCrashes,     \* bound: replica crashes
    MaxFaults,      \* bound: failed statements and transient read errors
    MaxParks,       \* bound: runs parked
    MaxBoots        \* bound: replicas starting again under their old id

ASSUME OwnershipAssumption ==
    /\ NoReplica \notin Replicas
    /\ IsFiniteSet(Replicas) /\ IsFiniteSet(Runs)
    /\ Cap \in Nat \ {0}
    /\ MaxCrashes \in Nat /\ MaxFaults \in Nat /\ MaxParks \in Nat /\ MaxBoots \in Nat

VARIABLES
    up,       \* the replicas whose process runs
    beat,     \* replicas table: no row, a fresh row, a stale row
    row,      \* runs table
    at,       \* at[p][r]: where process p is with run r
    counted,  \* counted[r]: the processes that took a count for r and owe it back
    quota,    \* user_quotas.active_count
    sweep,    \* the replicas sweeper that holds the advisory lock
    resumer,  \* the process that holds the resume pass's advisory lock
    crashes, faults, parks, boots,
    lostParked, \* whether a replica crashed while runs it parked waited
    doubted,    \* whether a sweep deleted the heartbeat row of a running replica
    unstamped,  \* the runs that were resumed under their old owner's id
    quit        \* the replicas that stopped cleanly and have not booted again

vars == <<up, beat, row, at, counted, quota, sweep, resumer,
          crashes, faults, parks, boots, lostParked, doubted, unstamped, quit>>

(* What a row's error column tells apart: 'owner replica died', the queued *)
(* row of a dead replica, 'heartbeat timeout', the cancel of a run no live *)
(* loop holds, and none of these.                                          *)
Died == "ownerDied"

Rows == [status : {"none", "queued", "running", "ended"},
         error : {"none", Died, "queuedDied", "heartbeatTimeout", "unheld"},
         paused : BOOLEAN, owner : Replicas \cup {NoReplica},
         userSlot : BOOLEAN, quiet : BOOLEAN]

(* The places of a resume pass: it looked at the row, claimed it, will     *)
(* dispatch or refuse it, has taken the record of the old owner's slot     *)
(* (the Giving places), and then the run waits for a slot and is counted.  *)
Dispatching == {"claimed", "dispatch", "dispatchGiving", "resumed", "counting"}
Passing     == {"checked", "claimed", "dispatch", "refused", "dispatchGiving", "refusedGiving"}
Places == {"none", "held", "polling", "admitting", "live", "parked", "ending"} \cup Dispatching \cup Passing

(* A process that holds the run: its cancel registry or its pause manager  *)
(* has it, or it is about to.                                              *)
Holding == {"polling", "admitting", "live", "parked"} \cup Dispatching

Idle == [by |-> NoReplica, left |-> {}, id |-> NoReplica, pc |-> "list",
         marked |-> {}, leaked |-> 0]

TypeOK ==
    /\ up \subseteq Replicas
    /\ beat \in [Replicas -> {"none", "fresh", "stale"}]
    /\ row \in [Runs -> Rows]
    /\ at \in [Replicas -> [Runs -> Places]]
    /\ counted \in [Runs -> SUBSET Replicas]
    /\ quota \in Nat
    /\ sweep \in [by : Replicas \cup {NoReplica}, left : SUBSET Replicas,
                  id : Replicas \cup {NoReplica},
                  pc : {"list", "pick", "mark", "count", "decrement", "queued", "delete"},
                  marked : SUBSET Runs, leaked : Nat]
    /\ resumer \in Replicas \cup {NoReplica}
    /\ crashes \in 0..MaxCrashes /\ faults \in 0..MaxFaults
    /\ parks \in 0..MaxParks /\ boots \in 0..MaxBoots /\ lostParked \in BOOLEAN /\ doubted \in BOOLEAN
    /\ unstamped \subseteq Runs /\ quit \subseteq Replicas

Init ==
    /\ up = Replicas
    /\ beat = [p \in Replicas |-> "fresh"]
    /\ row = [r \in Runs |-> [status |-> "none", error |-> "none", paused |-> FALSE,
                              owner |-> NoReplica, userSlot |-> FALSE, quiet |-> FALSE]]
    /\ at = [p \in Replicas |-> [r \in Runs |-> "none"]]
    /\ counted = [r \in Runs |-> {}]
    /\ quota = 0
    /\ sweep = Idle
    /\ resumer = NoReplica
    /\ crashes = 0 /\ faults = 0 /\ parks = 0 /\ boots = 0 /\ lostParked = FALSE /\ doubted = FALSE
    /\ unstamped = {} /\ quit = {}

nofaults == <<crashes, parks, boots, lostParked, doubted, unstamped, quit>>
budgets == <<nofaults, faults>>
cluster == <<up, beat>>
locks   == <<sweep, resumer>>

Put(p, r, place) == at' = [at EXCEPT ![p][r] = place]

(* FinishRun: the row ends only if it has not; its pause ends with it. *)
Finished(rw, why) ==
    IF rw.status \in {"running", "queued"}
    THEN [rw EXCEPT !.status = "ended", !.error = why, !.paused = FALSE]
    ELSE rw

(* UserQuotaStore.Release: no lower than zero. *)
Released(n) == IF n > 0 THEN n - 1 ELSE 0
-----------------------------------------------------------------------------
(* Admission of a new run (Semaphore.Admit with the shared counter).       *)

(* TryAcquire under the cap. *)
AdmitUser(p, r) ==
    /\ p \in up /\ row[r].status = "none" /\ \A q \in Replicas : at[q][r] = "none"
    /\ quota < Cap
    /\ quota' = quota + 1
    /\ counted' = [counted EXCEPT ![r] = @ \cup {p}]
    /\ Put(p, r, "admitting")
    /\ UNCHANGED <<cluster, row, locks, budgets>>

QueuedRow(p) == [status |-> "queued", error |-> "none", paused |-> FALSE,
                 owner |-> p, userSlot |-> FALSE, quiet |-> FALSE]

(* Over the cap: the run gets its row and polls the counter. *)
QueueForUser(p, r) ==
    /\ p \in up /\ row[r].status = "none" /\ \A q \in Replicas : at[q][r] = "none"
    /\ quota >= Cap
    /\ row' = [row EXCEPT ![r] = QueuedRow(p)]
    /\ Put(p, r, "polling")
    /\ UNCHANGED <<cluster, counted, quota, locks, budgets>>

PollUser(p, r) ==
    /\ p \in up /\ at[p][r] = "polling" /\ quota < Cap
    /\ quota' = quota + 1
    /\ counted' = [counted EXCEPT ![r] = @ \cup {p}]
    /\ Put(p, r, "admitting")
    /\ UNCHANGED <<cluster, row, locks, budgets>>

(* Counted, but every run slot of the replica is taken: the row is queued. *)
QueueForSlot(p, r) ==
    /\ p \in up /\ at[p][r] = "admitting" /\ row[r].status = "none"
    /\ row' = [row EXCEPT ![r] = QueuedRow(p)]
    /\ UNCHANGED <<cluster, at, counted, quota, locks, budgets>>

(* The run has its slot: its row is created running, or moves from queued  *)
(* to running, recording whether the user's count was taken.  A row that   *)
(* was ended while it was queued wins, and the run gives its slot back.    *)
StartRun(p, r) ==
    /\ p \in up /\ at[p][r] = "admitting"
    /\ IF row[r].status \in {"none", "queued"}
       THEN /\ row' = [row EXCEPT ![r] = [status |-> "running", error |-> "none", paused |-> FALSE,
                                          owner |-> p, userSlot |-> (p \in counted[r]),
                                          quiet |-> FALSE]]
            /\ Put(p, r, "live")
       ELSE /\ UNCHANGED row
            /\ Put(p, r, "ending")
    /\ UNCHANGED <<cluster, counted, quota, locks, budgets>>

(* The loop ends: its row is finished, the slot goes back afterwards. *)
EndLoop(p, r) ==
    /\ p \in up /\ at[p][r] = "live"
    /\ row' = [row EXCEPT ![r] = Finished(@, "none")]
    /\ Put(p, r, "ending")
    /\ UNCHANGED <<cluster, counted, quota, locks, budgets>>

(* releaseInBackground: the count goes back, or the statement fails and    *)
(* the count leaks.                                                        *)
ReleaseUser(p, r) ==
    /\ p \in up /\ at[p][r] = "ending"
    /\ \/ /\ quota' = IF p \in counted[r] THEN Released(quota) ELSE quota
          /\ UNCHANGED faults
       \/ /\ p \in counted[r] /\ faults < MaxFaults
          /\ faults' = faults + 1
          /\ UNCHANGED quota
    /\ counted' = [counted EXCEPT ![r] = @ \ {p}]
    /\ Put(p, r, "none")
    /\ UNCHANGED <<cluster, row, locks, nofaults>>
-----------------------------------------------------------------------------
(* Parking (a cluster pause, or the drain of a stop) and its end in place. *)

Park(p, r) ==
    /\ p \in up /\ at[p][r] = "live" /\ parks < MaxParks
    /\ parks' = parks + 1
    /\ row' = [row EXCEPT ![r].paused = (row[r].status = "running")]
    /\ Put(p, r, "parked")
    /\ UNCHANGED <<cluster, counted, quota, locks, crashes, faults, boots, lostParked, doubted, unstamped, quit>>

Unpark(p, r) ==
    /\ p \in up /\ at[p][r] = "parked"
    /\ row' = [row EXCEPT ![r].paused = FALSE, ![r].quiet = FALSE]
    /\ Put(p, r, "live")
    /\ UNCHANGED <<cluster, counted, quota, locks, budgets>>
-----------------------------------------------------------------------------
(* Heartbeats, stops, crashes and boots.                                   *)

(* What the end of process p leaves: the database keeps its rows and       *)
(* counts, its session locks are released, everything in memory is gone.   *)
ProcessGone(p) ==
    /\ up' = up \ {p}
    /\ at' = [at EXCEPT ![p] = [r \in Runs |-> "none"]]
    /\ counted' = [r \in Runs |-> counted[r] \ {p}]
    /\ sweep' = IF sweep.by = p THEN Idle ELSE sweep
    /\ resumer' = IF resumer = p THEN NoReplica ELSE resumer
    /\ UNCHANGED <<row, quota, faults, parks, boots, doubted, unstamped>>

(* A stop whose drain parked every loop; the heartbeat row is deleted. *)
Stop(p) ==
    /\ p \in up /\ up # {p} /\ sweep.by # p
    /\ \A r \in Runs : at[p][r] \in {"none", "parked", "polling", "held"}
    /\ ProcessGone(p)
    /\ beat' = [beat EXCEPT ![p] = "none"]
    /\ quit' = quit \cup {p}
    /\ UNCHANGED <<crashes, lostParked>>

(* The process is killed and its heartbeat row stays, or its stop comes to *)
(* its end with runs that did not park in time and the row is deleted.     *)
Crash(p) ==
    /\ p \in up /\ up # {p} /\ crashes < MaxCrashes
    /\ crashes' = crashes + 1
    /\ lostParked' = (lostParked \/ \E r \in Runs :
                        at[p][r] = "parked" \/ (row[r].paused /\ row[r].owner = p))
    /\ ProcessGone(p)
    /\ \/ UNCHANGED <<beat, quit>>
       \/ beat' = [beat EXCEPT ![p] = "none"] /\ quit' = quit \cup {p}

(* What a boot makes of the runs its replica had queued (queueAgain): one  *)
(* whose request cannot be read is failed, one whose caller's rules cannot *)
(* be read is held and stays queued, as one does that cannot be listed or  *)
(* failed; the others queue again.                                         *)
QueueAgain(p, mine) ==
    \E failed \in SUBSET mine : \E held \in SUBSET (mine \ failed) :
        /\ row' = [r \in Runs |-> IF r \in failed THEN Finished(row[r], "none") ELSE row[r]]
        /\ at' = [at EXCEPT ![p] = [r \in Runs |-> CASE r \in held -> "held"
                                                    [] r \in mine \ (failed \cup held) -> "polling"
                                                    [] OTHER -> "none"]]

(* A replica starts again under its id: it writes its heartbeat row and    *)
(* takes up the runs it had queued (RestartQueuedRuns).                    *)
Boot(p) ==
    /\ p \notin up /\ boots < MaxBoots
    /\ boots' = boots + 1
    /\ up' = up \cup {p}
    /\ QueueAgain(p, {r \in Runs : row[r].status = "queued" /\ row[r].owner = p})
    /\ beat' = [beat EXCEPT ![p] = "fresh"]
    /\ quit' = quit \ {p}
    /\ UNCHANGED <<counted, quota, locks, crashes, faults, parks, lostParked, doubted, unstamped>>

(* UpsertReplica, every 30 s. *)
Heartbeat(p) ==
    /\ p \in up /\ beat[p] # "fresh"
    /\ beat' = [beat EXCEPT ![p] = "fresh"]
    /\ UNCHANGED <<up, row, at, counted, quota, locks, budgets>>

(* 90 s without a heartbeat. *)
GoStale(p) ==
    /\ p \notin up /\ beat[p] = "fresh"
    /\ beat' = [beat EXCEPT ![p] = "stale"]
    /\ UNCHANGED <<up, row, at, counted, quota, locks, budgets>>

(* A row whose loop does not run is not heartbeated. *)
GoQuiet(r) ==
    /\ row[r].status = "running" /\ ~row[r].quiet
    /\ \A p \in up : at[p][r] # "live"
    /\ row' = [row EXCEPT ![r].quiet = TRUE]
    /\ UNCHANGED <<cluster, at, counted, quota, locks, budgets>>
-----------------------------------------------------------------------------
(* The replicas sweeper: one pass under the advisory lock.                 *)

SweepList(p) ==
    /\ p \in up /\ sweep.by = NoReplica
    /\ \E q \in Replicas : beat[q] = "stale"
    /\ sweep' = [by |-> p, left |-> {q \in Replicas : beat[q] = "stale"},
                 id |-> NoReplica, pc |-> "pick",
                 marked |-> {}, leaked |-> 0]
    /\ UNCHANGED <<cluster, row, at, counted, quota, resumer, budgets>>

SweepPick ==
    /\ sweep.pc = "pick"
    /\ IF sweep.left = {}
       THEN sweep' = Idle
       ELSE \E q \in sweep.left :
              sweep' = [sweep EXCEPT !.left = @ \ {q}, !.id = q, !.pc = "mark"]
    /\ UNCHANGED <<cluster, row, at, counted, quota, resumer, budgets>>

(* A statement of the pass fails: the pass goes on with the next replica,  *)
(* except after the quota reap, whose failure is only logged.              *)
SweepFail ==
    /\ sweep.pc \in {"mark", "count", "decrement", "queued", "delete"}
    /\ faults < MaxFaults
    /\ faults' = faults + 1
    /\ sweep' = [sweep EXCEPT !.pc = IF @ \in {"count", "decrement"} THEN "queued" ELSE "pick"]
    /\ UNCHANGED <<cluster, row, at, counted, quota, resumer, nofaults>>

Marked(q) == {r \in Runs : /\ row[r].owner = q /\ row[r].status = "running"
                           /\ ~row[r].paused}

(* Mutant: the quota reap is not skipped when no row was marked. *)
SweepMarkUngated ==
    /\ sweep.pc = "mark"
    /\ row' = [r \in Runs |-> IF r \in Marked(sweep.id)
                              THEN [row[r] EXCEPT !.status = "ended", !.error = Died]
                              ELSE row[r]]
    /\ sweep' = [sweep EXCEPT !.pc = "count", !.marked = Marked(sweep.id)]
    /\ UNCHANGED <<cluster, at, counted, quota, resumer, budgets>>

SweepMark ==
    /\ sweep.pc = "mark"
    /\ row' = [r \in Runs |-> IF r \in Marked(sweep.id)
                              THEN [row[r] EXCEPT !.status = "ended", !.error = Died]
                              ELSE row[r]]
    /\ sweep' = [sweep EXCEPT !.pc = IF Marked(sweep.id) # {} THEN "count" ELSE "queued",
                              !.marked = Marked(sweep.id)]
    /\ UNCHANGED <<cluster, at, counted, quota, resumer, budgets>>

(* reapQuotas reads how many rows of the replica were failed as Died and   *)
(* had taken a count ...                                                   *)
Leaked(q) == {r \in Runs : /\ row[r].owner = q /\ row[r].status = "ended"
                           /\ row[r].error = Died /\ row[r].userSlot}

SweepCount ==
    /\ sweep.pc = "count"
    /\ sweep' = [sweep EXCEPT !.pc = "decrement", !.leaked = Cardinality(Leaked(sweep.id))]
    /\ UNCHANGED <<cluster, row, at, counted, quota, resumer, budgets>>

(* ... and takes as many off the user's count. *)
SweepDecrement ==
    /\ sweep.pc = "decrement"
    /\ quota' = IF quota > sweep.leaked THEN quota - sweep.leaked ELSE 0
    /\ sweep' = [sweep EXCEPT !.pc = "queued"]
    /\ UNCHANGED <<cluster, row, at, counted, resumer, budgets>>

(* Mutant: the queued rows of the dead replica are left. *)
SweepQueuedNone ==
    /\ sweep.pc = "queued"
    /\ sweep' = [sweep EXCEPT !.pc = "delete"]
    /\ UNCHANGED <<cluster, row, at, counted, quota, resumer, budgets>>

SweepQueued ==
    /\ sweep.pc = "queued"
    /\ row' = [r \in Runs |-> IF row[r].owner = sweep.id /\ row[r].status = "queued"
                              THEN [row[r] EXCEPT !.status = "ended", !.error = "queuedDied"]
                              ELSE row[r]]
    /\ sweep' = [sweep EXCEPT !.pc = "delete"]
    /\ UNCHANGED <<cluster, at, counted, quota, resumer, budgets>>

SweepDelete ==
    /\ sweep.pc = "delete"
    /\ beat' = [beat EXCEPT ![sweep.id] = "none"]
    /\ sweep' = [sweep EXCEPT !.pc = "pick"]
    /\ doubted' = (doubted \/ sweep.id \in up)
    /\ UNCHANGED <<up, row, at, counted, quota, resumer,
                   crashes, faults, parks, boots, lostParked, unstamped, quit>>

(* SweepStaleRuns: one statement over every running, unparked, quiet row. *)
HeartbeatSweep ==
    /\ up # {}
    /\ \E r \in Runs : row[r].status = "running" /\ ~row[r].paused /\ row[r].quiet
    /\ row' = [r \in Runs |->
                 IF row[r].status = "running" /\ ~row[r].paused /\ row[r].quiet
                 THEN [row[r] EXCEPT !.status = "ended", !.error = "heartbeatTimeout"]
                 ELSE row[r]]
    /\ UNCHANGED <<cluster, at, counted, quota, locks, budgets>>
-----------------------------------------------------------------------------
(* The resume pass (resumePausedRun), under its advisory lock.             *)

(* Mutant: only this process is asked. *)
IsLiveHere(p, r) == at[p][r] \in Holding

(* pausedRunIsLive: held in this process, or by another replica whose      *)
(* heartbeat is fresh.                                                     *)
IsLive(p, r) ==
    \/ at[p][r] \in Holding
    \/ row[r].owner \notin {p, NoReplica} /\ beat[row[r].owner] = "fresh"

Check(p, r) ==
    /\ p \in up /\ resumer = NoReplica /\ at[p][r] = "none"
    /\ row[r].status = "running" /\ row[r].paused
    /\ ~IsLive(p, r)
    /\ resumer' = p
    /\ Put(p, r, "checked")
    /\ UNCHANGED <<cluster, row, counted, quota, sweep, budgets>>

(* ClaimPausedRun: a compare-and-set from paused to running. *)
Claim(p, r) ==
    /\ p \in up /\ at[p][r] = "checked"
    /\ IF row[r].status = "running" /\ row[r].paused
       THEN /\ row' = [row EXCEPT ![r].paused = FALSE]
            /\ Put(p, r, "claimed")
            /\ UNCHANGED resumer
       ELSE /\ Put(p, r, "none")
            /\ resumer' = NoReplica
            /\ UNCHANGED row
    /\ UNCHANGED <<cluster, counted, quota, sweep, budgets>>

(* A transient read error or, after the stamp, an agent id that is in use  *)
(* here: the row is given back as paused, unless it ended meanwhile.       *)
Unclaim(p, r) ==
    /\ p \in up /\ at[p][r] \in {"claimed", "dispatch"} /\ faults < MaxFaults
    /\ faults' = faults + 1
    /\ row' = [row EXCEPT ![r].paused = (row[r].status = "running")]
    /\ Put(p, r, "none")
    /\ resumer' = NoReplica
    /\ UNCHANGED <<cluster, counted, quota, sweep, nofaults>>

(* A run that cannot be resumed is failed, or cancelled as an orphan. *)
Refuse(p, r) ==
    /\ p \in up /\ at[p][r] = "claimed"
    /\ row' = [row EXCEPT ![r] = Finished(@, "none")]
    /\ Put(p, r, "refused")
    /\ UNCHANGED <<cluster, counted, quota, locks, budgets>>

(* The heartbeat and this replica's id are stamped on the row.  The stamp  *)
(* of the id does not ask whether the row has ended; when it fails, that   *)
(* is only logged and the run goes on under its old owner's id.  (A failed *)
(* heartbeat is one that GoQuiet undoes at once.)                          *)
Stamp(p, r) ==
    /\ p \in up /\ at[p][r] = "claimed"
    /\ \E owner \in {p, row[r].owner} :
         /\ row' = [row EXCEPT ![r].owner = owner,
                               ![r].quiet = IF row[r].status = "running" THEN FALSE ELSE @]
         /\ IF owner = p
            THEN UNCHANGED <<faults, unstamped>>
            ELSE /\ faults < MaxFaults /\ faults' = faults + 1
                 /\ unstamped' = unstamped \cup {r}
    /\ Put(p, r, "dispatch")
    /\ UNCHANGED <<cluster, counted, quota, locks, crashes, parks, boots, lostParked, doubted, quit>>

(* Mutant: the record of the slot is read and left on the row. *)
TakeSlotKept(p, r) ==
    /\ p \in up /\ at[p][r] \in {"dispatch", "refused"}
    /\ IF row[r].userSlot
       THEN /\ Put(p, r, IF at[p][r] = "dispatch" THEN "dispatchGiving" ELSE "refusedGiving")
            /\ UNCHANGED resumer
       ELSE /\ Put(p, r, IF at[p][r] = "dispatch" THEN "resumed" ELSE "none")
            /\ resumer' = NoReplica
    /\ UNCHANGED <<cluster, row, counted, quota, sweep, budgets>>

(* releaseStoppedOwnersSlot: TakeRunUserSlot tells one caller only ...     *)
TakeSlot(p, r) ==
    /\ p \in up /\ at[p][r] \in {"dispatch", "refused"}
    /\ IF row[r].userSlot
       THEN /\ row' = [row EXCEPT ![r].userSlot = FALSE]
            /\ Put(p, r, IF at[p][r] = "dispatch" THEN "dispatchGiving" ELSE "refusedGiving")
            /\ UNCHANGED resumer
       ELSE /\ UNCHANGED row
            /\ Put(p, r, IF at[p][r] = "dispatch" THEN "resumed" ELSE "none")
            /\ resumer' = NoReplica
    /\ UNCHANGED <<cluster, counted, quota, sweep, budgets>>

(* ... and that caller gives the stopped owner's count back. *)
GiveSlot(p, r) ==
    /\ p \in up /\ at[p][r] \in {"dispatchGiving", "refusedGiving"}
    /\ quota' = Released(quota)
    /\ Put(p, r, IF at[p][r] = "dispatchGiving" THEN "resumed" ELSE "none")
    /\ resumer' = NoReplica
    /\ UNCHANGED <<cluster, row, counted, sweep, budgets>>

(* WaitForUser counts the resumed run without asking the cap; a count that *)
(* cannot be written is skipped, and the run gives none back.  A loop that *)
(* starts heartbeats its row.                                              *)
CountResumed(p, r) ==
    /\ p \in up /\ at[p][r] = "resumed"
    /\ \/ /\ quota' = quota + 1
          /\ counted' = [counted EXCEPT ![r] = @ \cup {p}]
          /\ Put(p, r, "counting")
          /\ UNCHANGED <<row, faults>>
       \/ /\ faults < MaxFaults /\ faults' = faults + 1
          /\ row' = [row EXCEPT ![r].quiet = FALSE]
          /\ Put(p, r, "live")
          /\ UNCHANGED <<quota, counted>>
    /\ UNCHANGED <<cluster, locks, nofaults>>

(* The run has its slot: MarkRunUserSlot records the count (or fails), and *)
(* the loop starts.                                                        *)
MarkSlot(p, r) ==
    /\ p \in up /\ at[p][r] = "counting"
    /\ \/ row' = [row EXCEPT ![r].userSlot = TRUE, ![r].quiet = FALSE] /\ UNCHANGED faults
       \/ /\ faults < MaxFaults /\ faults' = faults + 1
          /\ row' = [row EXCEPT ![r].quiet = FALSE]
    /\ Put(p, r, "live")
    /\ UNCHANGED <<cluster, counted, quota, locks, nofaults>>

(* FinishRunOwnerGone: a cancel of a run no live loop holds ends its row.  *)
CancelUnheld(p, r) ==
    /\ p \in up /\ row[r].status = "running" /\ row[r].quiet
    /\ row[r].owner # NoReplica /\ ~IsLive(p, r)
    /\ row' = [row EXCEPT ![r] = Finished(@, "unheld")]
    /\ UNCHANGED <<cluster, at, counted, quota, locks, budgets>>
-----------------------------------------------------------------------------
RunStep(p, r) ==
    \/ PollUser(p, r) \/ StartRun(p, r) \/ EndLoop(p, r) \/ ReleaseUser(p, r)
    \/ Unpark(p, r)
    \/ Claim(p, r) \/ Stamp(p, r) \/ TakeSlot(p, r) \/ GiveSlot(p, r)
    \/ CountResumed(p, r) \/ MarkSlot(p, r)

SweepStep == SweepPick \/ SweepMark \/ SweepCount \/ SweepDecrement \/ SweepQueued \/ SweepDelete

Next ==
    \/ \E p \in Replicas, r \in Runs :
          \/ AdmitUser(p, r) \/ QueueForUser(p, r) \/ QueueForSlot(p, r)
          \/ Park(p, r) \/ Check(p, r) \/ Unclaim(p, r) \/ Refuse(p, r)
          \/ CancelUnheld(p, r) \/ RunStep(p, r)
    \/ \E p \in Replicas : Stop(p) \/ Crash(p) \/ Boot(p) \/ Heartbeat(p) \/ GoStale(p) \/ SweepList(p)
    \/ SweepFail \/ SweepStep \/ HeartbeatSweep
    \/ \E r \in Runs : GoQuiet(r)

Spec == Init /\ [][Next]_vars

(* Fairness: time passes (rows go stale and quiet), the tickers of a       *)
(* running process fire, every loop ends and every parked run is resumed.  *)
FairSpec ==
    /\ Spec
    /\ \A p \in Replicas, r \in Runs : WF_vars(RunStep(p, r)) /\ SF_vars(Check(p, r))
    /\ \A p \in Replicas : WF_vars(Heartbeat(p)) /\ WF_vars(GoStale(p)) /\ SF_vars(SweepList(p))
    /\ WF_vars(SweepStep) /\ WF_vars(HeartbeatSweep)
    /\ \A r \in Runs : WF_vars(GoQuiet(r))
-----------------------------------------------------------------------------
(* A run never has two loops: the liveness check, the claim and the stamp  *)
(* of the resume pass, the restart of queued runs at a boot and the        *)
(* sweepers never leave two processes holding one run.  The two ways to    *)
(* break it: a sweep that listed a replica before it booted again deletes  *)
(* its fresh heartbeat row, or the owner stamp of the run's resume failed. *)
OneLoop == ~doubted => \A r \in Runs \ unstamped :
                          Cardinality({p \in up : at[p][r] \in Holding}) <= 1

(* "Logged, not fatal -- the run itself is fine" (resume.go:842): a failed *)
(* owner stamp does not lead to a second loop.  It does not hold.          *)
OneLoopUnstamped ==
    ~doubted => \A r \in Runs : Cardinality({p \in up : at[p][r] \in Holding}) <= 1

(* The counts live processes took for their runs are in the shared count:  *)
(* no sweep takes back a count that another run still holds.               *)
Owed == {pr \in Replicas \X Runs : pr[1] \in counted[pr[2]]}
QuotaCovers == quota >= Cardinality(Owed)

(* "Our quota-reap query filters on error='owner replica died' so we only  *)
(* decrement quotas for runs WE just marked" (replicas_sweeper.go:40).     *)
ReapCountsMarked == sweep.pc = "decrement" => sweep.leaked <= Cardinality(sweep.marked)

(* Where no replica id is used again, none crashes while runs it parked    *)
(* wait for a resume and every resumed run got its owner's id, sweeps that *)
(* fail half way and are done again, late releases and hand-overs never    *)
(* take back a count another run holds.                                    *)
ReapTakesNoOthers == boots = 0 /\ ~lostParked /\ unstamped = {} => QuotaCovers

(* Where no replica crashed, no statement failed and every row was ended   *)
(* by its run's loop or by a resume, the shared count is exact: the counts *)
(* live processes owe, those recorded on the parked rows of stopped        *)
(* replicas, and those a resume is giving back.                            *)
Recorded ==
    {r \in Runs :
        /\ row[r].userSlot /\ counted[r] = {}
        /\ \/ row[r].status = "running"
           \/ \E p \in up : at[p][r] \in {"claimed", "dispatch", "refused"}}
Giving == {pr \in up \X Runs : at[pr[1]][pr[2]] \in {"dispatchGiving", "refusedGiving"}}

CleanHandoffExact ==
    crashes = 0 /\ faults = 0 /\ (\A r \in Runs : row[r].error = "none") =>
        quota = Cardinality(Owed) + Cardinality(Recorded) + Cardinality(Giving)

(* Every accepted run's row ends, whatever replica crashes or stops, but   *)
(* for a run that is left queued by a replica that stopped (its heartbeat  *)
(* row is deleted, so no sweep sees it, and it waits for a boot under the  *)
(* same id), one a boot held for a later restart, and one that polls for   *)
(* good because the counts that leaked fill its user's cap.                *)
LeftQueued(r) == row[r].status = "queued" /\ row[r].owner \in quit
HeldBack(r)   == row[r].status = "queued" /\ \E p \in up : at[p][r] = "held"
Starved(r)    ==
    /\ row[r].status = "queued" /\ \E p \in up : at[p][r] = "polling"
    /\ quota >= Cap + Cardinality(Owed) + Cardinality(Recorded) + Cardinality(Giving)
EveryRunSettles ==
    \A r \in Runs : row[r].status \in {"queued", "running"}
                       ~> \/ row[r].status = "ended" \/ LeftQueued(r) \/ HeldBack(r)
                          \/ []Starved(r)
=============================================================================
