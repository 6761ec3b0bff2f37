# Loomcycle: TLA+ models, checks and proofs

Loomcycle is an agent runtime written in Go: it admits *runs*, drives each through
a loop of model calls and tool calls, and keeps them pausable, cancellable,
steerable and recoverable over one or several replicas that share a database.
This directory models the parts of it whose correctness rests on concurrency:
who may run, who waits, who is woken, and what a pause, a cancel, a reload or a
crash leaves behind.

All paths below are relative to `src/`.

## 1. Inventory

### 1.1 Admission and scheduling of work

| Part | State | Operations | What is hard | What makes it correct |
|---|---|---|---|---|
| Run semaphore (`internal/concurrency/semaphore.go`, `semqueue.go`, `admit.go`, `lend.go`) | `active`, `queued`, `lent`, per-user counts, a FIFO of already-admitted waiters, per-user buckets served in a ring, per-user FIFOs of runs over their user's cap | `Admit`, `AdmitSlot`, `AcquireForUser`, `ReserveUser`, `TryAcquire`, `Wait`, `WaitForUser`, release, `Lend`/`TryReclaim`/`Reclaim`, `SetCaps`, `WithPerUserCap`, `WithQueuedPerUserCap` | a token sent to a waiter whose context ends at the same moment; a cap read in one critical section and used in the next; a release in two critical sections; reloads in the middle of it all | counters equal what they count; no lost wake-up; nobody stranded; caps respected; fair order; everyone served |
| Call lane (`internal/concurrency/lane.go`, `lease_query.go`) | numbered slots of one provider, leases that keep a slot for an owner between two calls, a foreground and a background queue, a timer per idle lease | `Acquire`, finish, `expire`, `Done`, `Reconfigure`, `retire`, `yieldIdle` | a stale lease timer; an owner that queues twice; a cap lowered under busy slots; a cancel that races a grant | slot numbers unique; active + reserved within the cap; no eligible waiter beside a free slot |
| Model gate (`internal/concurrency/modelgate.go`) | the models in use on a lane and their counts, the waiting models | `enter`, `exit`, `admit`, `starving`, `SetLimit` | batching of one model starves the others | models loaded at once within the limit; a starving model is let in |
| Call scheduler (`internal/concurrency/callscheduler.go`) | the lanes by key, configuration per lane | lookup, reconfigure, drop | a lane replaced while callers hold its slots | one live lane per key |
| Lane gate (`internal/lanegate/lanegate.go`, `internal/api/http/llm_gateway.go`, `offrun_call.go`) | the run slot and the lane slot a call holds | `Provider.Call`, `acquireDirectSlots` | holding a run slot while waiting for a lane slot and the reverse | no deadlock: no caller waits for one while it holds the other; every slot goes back once |
| Scheduler (`internal/scheduler/`) | schedule rows, tracked runs, claims | tick, dispatch, `trackRun`, `finishTracked`, `reconcileOnce`, overlap policy, catch-up | two replicas tick at once; a run ends before it is tracked | each due time fires at most once, overlap policy holds, a tracked run is finished once |
| Limits (`internal/limits/tracker.go`), throughput | windows per key | `Check`, `Record` | check then act | budget never silently exceeded by more than what is in flight |

### 1.2 Control of runs in flight

| Part | State | Operations | What is hard | What makes it correct |
|---|---|---|---|---|
| Pause manager (`internal/pause/manager.go`, `shutdown.go`, `state.go`, `cluster_state.go`, gate in `internal/api/http/pause_gate.go`, `internal/loop/park_pause.go`) | per replica: a state word, `pauseCh`, `resumeCh`, registered runs and whether each is parked, a cache of the shared state row; shared: the row `runtime_state`, per-run `pause_state` | `Pause`, `Resume`, `State`, `applyRemotePause`, `applyRemoteResume`, `BeginPark`/`EndPark`, `PauseForShutdown` | the state word is also refreshed from the database, without its channels; a pause times out while runs park; shutdown races resume | every run parks within the pause; every parked run is woken; a resumed replica admits |
| Cancel registry and coordinator (`internal/cancel/registry.go`, `internal/coord/cancel_coordinator.go`) | run id → cancel function and parent; pending acks | `Register`, `Cancel` (cascade), `CancelRemote`, subscriber | a child registered behind the cascade; an owner that dies between the liveness check and the ack | a cancelled tree has no live descendant; the caller's answer is what happened |
| Steer and turn-cancel registries (`internal/steer/registry.go`, `internal/turncancel/registry.go` and their coordinators) | run id → queue or armed generation | `Push`, `CloseIfEmpty`, `Arm`, `Cancel` | a message pushed as the run decides to end; a cancel of the previous turn | no accepted message is lost; a cancel hits the turn it was meant for |
| Session locks (`internal/runner/session_locks.go`, `session_locks_pg.go`) | session → lock entry with a reference count; advisory locks | `TryLock`, release, `GC` | GC of an entry that is being locked | one turn per session at a time |
| Breakpoints, client tools, awaited runs (`internal/breakpoints`, `internal/clienttools`, `internal/awaited`) | pending waits by id | register, answer, cancel, time out | an answer that races the timeout | one outcome per wait |

### 1.3 Cluster

| Part | State | Operations | What is hard | What makes it correct |
|---|---|---|---|---|
| Replica table and sweeper (`internal/coord/replica_store.go`, `replicas_sweeper.go`) | heartbeat rows, running and queued run rows | heartbeat, `reapReplica` | a reap fails half-way; a replica that was only slow comes back | a dead replica's runs are failed and its quota is freed exactly once |
| Cluster user quota (`internal/coord/user_quota_store.go`, `admitUserShared` in `admit.go`) | counts per (user, replica) | acquire, release, reap | release after reap | sum of counts within the cap |
| Backplane, advisory locks, runtime state (`internal/coord/*`) | Postgres LISTEN/NOTIFY and locks | publish, subscribe, lock | dropped notifications, reconnects | – (external service) |
| Heartbeat sweeper (`internal/heartbeat/sweeper.go`) | stale run rows | sweep | a run that heartbeats late | a live run is not failed |

### 1.4 Events, history and the rest

| Part | What it does |
|---|---|
| Run-state bus, channel bus (`internal/runstate/bus.go`, `internal/channels/`) | fan-out to subscribers with bounded buffers; cursors and wake-ups |
| Audit chain (`internal/auditchain/`) | a hash chain over events: append, verify, checkpoint |
| Agent loop (`internal/loop/`) | the turn loop: model call, tool calls, compaction, retries, park points |
| Hooks, channel hooks, team runs, resume (`internal/hooks`, `internal/channelhooks`, `internal/teamrun`, `internal/api/http/resume.go`) | orchestration around runs |
| Snapshots, retention, usage, credentials, auth replay, memory, erasure, fences | persistence and background sweeps |
| Providers, tools, configuration, stores, adapters, UI, benchmarks | HTTP, file and database I/O, parsing, generated code |

How the parts interact: an HTTP handler asks the pause manager whether it may
start a run, then the semaphore for a slot; the run registers with the cancel,
steer and turn-cancel registries and the pause manager; each model call goes
through the lane gate, which may lend the run's semaphore slot while the call
waits for a lane; between turns the loop parks when the pause manager says so.
On several replicas the pause manager, the cancel coordinator and the sweeper talk
through rows of the database and the notification backplane.

## 2. Plan

The order is that of importance: what every request goes through first.

1. `RunSemaphore`, `SlotPool` (done, proved): admission, waiting, lending, reloads;
   the abstract slot pool it implements; the inductive invariant and its proof.
2. `PauseCluster` (done, proved): several pause managers, the shared row, the
   backplane; who parks, who is woken, what a shutdown keeps.
3. `CallLane`, `ModelGate` and their composition `CallScheduler` (done, proved): leases
   and their timers, the two priorities, model batching, reloads.
4. `LaneGate` (done, proved): a run between a lane slot and its run slot, over
   `CallLane` and the slots `SlotPool` promises.
5. `RunOwnership` (done, proved): replicas that stop, crash and boot again, the two
   sweepers, the resume pass, the queued runs and the cluster-wide user quota.
6. `SessionTurns` (done, proved): the session locks, the agent loop's control, the
   steer queue, the turn token.
7. Candidates, in this order: the routing of a cancel between replicas and its
   cascade (`cancel_coordinator.go`, `registry.go`), the routing of a steer message,
   schedule claims, the audit chain, one-shot waits.

Every safety invariant and action property of the runs is proved (section 5), and
eight results that no run states: two on positions (5.1), three on the queues of the
lane and the gate (5.4), three on runs between lane and run slots (5.5). What is left to
the model checker is liveness (5.7).

## 3. The modules

| Module | Models |
|---|---|
| `RunSemaphore` | the run semaphore, its properties and the mutated definitions used to test them |
| `SlotPool` | what the semaphore promises about slots, without queues, channels and counters |
| `MCRunSemaphore` | the symmetry set for TLC |
| `FifoLemmas` | lemmas on duplicate-free FIFOs (append, take the head, remove, rotate, that a removal moves nobody back and keeps the order, how many are in a prefix) and induction over the naturals, stated with a set |
| `RunSemaphore_proofs` | the theorems about `RunSemaphore` |
| `PauseCluster` | the runtime pause: the managers of one or several replicas, the shared row, the events, the gates of the runs; its properties and the mutated definitions |
| `MCPauseCluster` | the symmetry set for TLC |
| `PauseCluster_proofs` | the theorems about `PauseCluster` |
| `CallInfo` | what a model call is: owner, user, model, kind of wait |
| `CallLane` | one lane: its slots, leases, timers and queues; what it promises whoever calls it |
| `CallLane_proofs` | the lane's invariant and that every operation keeps it |
| `ModelGate` | the cap on the models in flight of one provider; operations only |
| `CallScheduler`, `MCCallScheduler` | a call through gate and lane, reloads of both; properties and instances |
| `CallScheduler_proofs` | the theorems about `CallScheduler`, on top of `CallLane_proofs` |
| `LaneGate`, `MCLaneGate` | runs that lend their run slot while they wait for a lane; properties and instance |
| `LaneGate_proofs` | the theorems about `LaneGate`, on top of `CallLane_proofs` |
| `RunOwnership`, `MCRunOwnership` | replicas, run rows, sweepers, resume pass, shared user count; properties and symmetry |
| `RunOwnership_proofs` | the theorems about `RunOwnership` |
| `SessionTurns`, `MCSessionTurns` | the turns of one session: locks, loop, messages, cancels; properties and instances |
| `SessionTurns_proofs` | the theorems about `SessionTurns` |

`CallScheduler` and `LaneGate` extend `CallLane`: the lane's actions are conjoined
with what the caller does around them, so a step of the composition is one critical
section of the lane (or of the gate) and the code of its caller up to the next.

### 3.1 RunSemaphore

**State.** The variables carry the names of the fields of `Semaphore`. `buckets`
and `ring` are the two fields of `semQueue`; a key that is absent from a Go map
is the empty sequence, or 0. Each waiter's buffered channel is one bit: the set
`tokens`. What a goroutine keeps on its stack is in `pc` (where it is), `op` (which
entry point it called), `key` (its tenant and user) and `cap` (the per-user cap
it read). A *caller* is a member of `Runs`; after its release it is idle and may
call again, so a run of TLC covers any number of runs in sequence.

**Actions.** Each critical section of `s.mu` is one action; what happens between
two of them is not modelled because it touches nothing shared. The two loops that
run inside a critical section (`wakeNextLocked`, `wakeUserWaiter`) are stepped one
iteration at a time. `wakes` names the loops the holder of the mutex has yet to
finish; every other critical section requires `wakes = {}`, so the loops are
atomic with the section that started them, as in the code.

| Code | Action |
|---|---|
| first section of `Admit`, `AcquireForUser`, `ReserveUser`, `WaitForUser` | `ReadCap` |
| second section of each | `AdmitUserLocal`/`AdmitNew`, `AcquireForUser`, `ReserveUser`, `WaitForUser` |
| `Admit` after the wait on the user's cap | `AdmitWaited` |
| `admitGlobal` | `AdmitGlobal`, used by the previous three |
| `AdmitSlot`, `TryAcquire`, `Wait` | same names |
| the `select` arm that receives the token | `ReceiveSlot` |
| the `ctx.Done` arm | `CancelUserWaiter`, `CancelWaiter`, `ReclaimCancelled` |
| release closures, `endRun`, `RunSlot.end` | `EndRun`, `EndLent` then `EndRunLent`, `ReleaseReserve` |
| `RunSlot.Lend`, `TryReclaim`, `Reclaim` | same names (`Reclaim` that finds a free slot is `TryReclaim`) |
| `ReloadConcurrency` | `Reload`: `SetCaps`, `WithPerUserCap`, `WithQueuedPerUserCap`, separately |

**Left out.** The cluster quota path (`admitUserShared` and the `quotaStore`
branches; the shared count is in `RunOwnership`), the ticket index behind
`queued_runs.go`, metrics and callbacks whose only effect is a message. A failing `OnQueued` callback ends the wait like a
cancelled context and is that action.

**Properties.**

| Property | Statement | Hazard |
|---|---|---|
| `SlotAccounting` | `active`, `queued`, `lent` are the numbers of callers that hold a slot, have a place in the queue, have lent | a hand-over races a cancel, in `cancelWaiter` and in `Reclaim` |
| `NoStrandedWaiter` | every blocked caller is in exactly its queue, once, or has its token; the ring is the non-empty buckets | the panic of `cancelWaiter` and the receive under the mutex of `cancelUserWaiter` |
| `NoIdleSlot` | nobody waits for a slot beside a free one | lost wake-up after cancel or reload |
| `NoIdleUserPlace` | under a per-user cap that is not reloaded, nobody waits on a cap that is not reached (observation 1 is the reload) | lost wake-up on the per-user cap |
| `UserAccounting` | `perUser` is the number of counted runs | drift of counts over reloads |
| `AliveBounded` | refusable runs alive ≤ `maxConcurrent + maxQueue` | lending and reclaiming slip past the bound |
| `SlotsBounded`, `UserCapRespected` | slots and counted runs stay within the configured caps | off-by-one in a wake loop |
| `NoBarging` | a slot is taken on a fast path only when nobody waits | a `TryReclaim` overtakes the queue |
| `TurnKept` | a bucket never loses its turn in the ring | a cancel or an arrival reorders users |
| `PositionIsServeOrder` | the reported position is the place in the order of service | arithmetic over uneven buckets |
| `ImplementsSlotPool` | every step is a step of `SlotPool` | all of the above, seen from outside |
| `EveryoneServed` | who waits is served or withdraws | starvation |

### 3.2 PauseCluster

**State.** One function per field of `pause.Manager`, over replicas (`state`,
`shutdown`, `interrupted`, `cache`), one per field of a run's entry (`parked`,
`stopped`) and its row (`durable`), the shared `row`, and an `inbox` per replica for
the events the backplane has not delivered. `at` is where a run's goroutine is, from
the admission gate over the boundary of an iteration to its park and back;
`pauseCall`, `resumeCall` and `shutdownCall` are where the call in flight is. A Go
channel is modelled by what its holder can tell: `pauseClosed` for the current
`pauseCh`, and in `hears` whether the channel a run selects on is still the manager's
current one, was closed, or was replaced without being closed. `wanted` is a history
variable: what the last accepted call asked for. `Clustered = FALSE` is the mode
without row and backplane.

**Actions.** One per critical section of `Manager.mu`, per database statement and per
event. A cache invalidation that directly follows a critical section is part of it:
the two orders differ only in how long a stale cache is served, and a stale cache is
served in the model as well, by a refresh that finishes late.

| Code | Action |
|---|---|
| `State` | `Answers` (cached or in-process), `ExpireCache`, `RefreshRead`, `RefreshStore`, `RefreshCache` |
| `Pause` | `Pause`, `PauseSetRow`, `PausePublish`, `PauseBarrier`, then `finalizePause`, `FinalizeRow` |
| `Resume` | `ResumeCheck`, `ListPausedRuns`, `Resume`, `ResumeSetRow`, `ResumePublish`, `FlipRow` per row, `ResumeReturn` |
| `SubscribeBackplane` | `applyRemotePause`, `applyRemoteResume`; `LoseEvent` for what `subscribeOnce` drops |
| `PauseForShutdown` | `PauseForShutdown`, `InterruptFlag`, `interruptUnparkedTools`, `ShutdownDone` |
| `runtimePaused`, `RegisterRun` | `AdmitRun`, `RegisterRun` (the entry, then the flag) |
| the boundary and `pauseGate.Park` | `PauseRequested`, `BeginPark`, `PersistPaused`, `MarkParked`, `ParkEnds`, `EndPark`, `SetRunning` |
| `parkPause`, `PauseIdle` | `WaitEnds`, then the same park steps with `idle` set |

**Left out.** The pause records and clocks of runs, unpausable runs, the counts in
answers, the pass that resumes rows left paused by another process.

**Properties.**

| Property | Statement | Hazard |
|---|---|---|
| `SignalsMatchState` | state word, `pauseCh`, `resumeCh` and parked runs agree; no channel is closed twice or dropped unclosed | four places that close and replace channels |
| `LastCallWins` | once all is settled, the runtime is in the state the last accepted call asked for | `finalizePause` stores without a lock |
| `ShutdownSticks` | a shutdown pause is never lifted | a resume, event or refresh that began before it |
| `InterruptReachesAll` | a run registering during the shutdown's sweep is interrupted | two atomics, no common lock |
| `StateConverges` | every replica's state ends up at the row's | lost events, failing statements |
| `CleanPauseQuiesces`, `ParkedIsDurable`, `NobodyLeftParked` | what the comments promise of the barrier, the rows and the park | do not hold: observations 3 to 5 |

### 3.3 CallLane, ModelGate and CallScheduler

**State.** `CallLane` has the fields of `Lane`: `active`, `reserved`, `modelActive`,
the lease of each owner (`lease`, `leaseSlot`, `used`), the slot numbers `inUse`, the
two `laneQueue`s (`buckets`, `ring`, `ownerQueued`) and `bgCredit`. `due` and `fired`
stand for time: a reservation's deadline has passed; its timer has fired and its
goroutine has not yet run. `at`, `slot` and `onLease` are what the goroutine of a call
knows. `ModelGate` has the fields of its struct: `limit`, `inFlight`, `waiters`, with
`aged` for the waiters that have waited `maxWait`. `mu` and `gateMu` say that the holder
of the mutex is in its loop (`dispatch`, `admit`), which is stepped one grant at a time;
no other critical section begins before the loop is done.

**Actions.**

| Code | Action |
|---|---|
| `Lane.acquire` | `AcquireLeased` (back inside its hold), `AcquireYield` (its reservation goes first), `AcquireSlot` (slot, refusal or queue) |
| `dispatch`, `next`, `pop`, `grant` | `DispatchOne` with `NextWaiter`, `Pops`, `Grant`; `DispatchEnd` |
| the two arms of the wait | `Wake`; `Withdraw`, `Abandon` (the slot was handed over already) |
| release, `giveBack`, `finish`, `reserve` | `Release`, `GiveBack`, `Finish`, `KeepsLease` |
| `Done`, `yieldIdle`, `expire` | `Done`, `YieldIdle`, `HoldRunsOut` then `Expire` |
| `Reconfigure`, `retire` | same names |
| `ModelGate.enter`, `exit`, `admit`, `starving`, `SetLimit` | `PassGate`, `EnterAtOnce`, `RefusedAtGate`, `QueueAtGate`; `Exit`; `AdmitRound`, `AdmitEnd`; `Starving`; `SetLimit` |
| `CallScheduler.acquire` and its release | `Begin`, `EnterGate`, `Notify` (`OnQueued`), `GateAdmitted`, `EnterLane`, `LaneGranted`, the cancels, `EndCall`, `Leave` |
| `CallScheduler.Reload` | `Reload` then `ReloadGate`; `RemoveProvider` then `RemoveLane` |

`ModelInFlight` is the sum of the counts of the models that share a cap, written as
the size of a disjoint union; `Without` is the loop of `admit` that keeps the waiters
of other models in their order.

**Left out.** Statistics, positions and wait estimates; several lane kinds of one
provider (they share nothing but the gate); a lane that a later reload adds back.

**Properties.**

| Property | Statement | Hazard |
|---|---|---|
| `SlotsExclusive` | calls in flight and reservations have distinct slot numbers, `inUse` is exactly theirs, the counters count them | the abandoned hand-off, the stale timer and `Done` each return a slot |
| `CountersExact` | per-model counts of lane and gate are exact (and the types) | limits switched on or off under calls in flight |
| `ReservationsFit` | a reservation never keeps the lane over its cap or a slot it no longer has | a cap lowered under busy slots |
| `NoWaiterBesideFreeSlot` | a free slot has no eligible waiter | a lost dispatch |
| `NoSelfBlock` | a run's queued turn never waits beside a slot reserved for the run | a run that queues twice |
| `GrantsFit`, `ModelsFit` | grants respect the cap, the model caps, the slot numbers, the model limit | context sizes of one model counted apart |
| `HoldKept` | a late timer ends no reservation whose hold still runs | the timer of a former reservation |
| `EveryCallMade` | a waiting call is made in the end | the loaded model overtakes, foreground overtakes background |

### 3.4 LaneGate

**State.** A member of `Calls` is a run. `slots`, `lent`, `reclaimers` and `newcomers`
are the run semaphore as `SlotPool` describes it, with its order of service; `step` is
where the run is in `Provider.Call`; `second` marks the second, non-lending acquire.
The lane is `CallLane`, unchanged.

**Actions.** `StartRun`, `Started` (admission); `BeginCall`, `EnterLane`, `Lend`
(`onWait`), `LaneGranted`, `TryReclaim`, `GiveLaneBack`, `Reclaim`, `Reclaimed`, the
cancels `CancelInLane` and `CancelReclaim`, `EndCall` (`forward`), `RunDone`, `EndRun`.

**Left out.** The callers outside runs (gateway, off-run calls), which take both slots
at once; the exempt kinds; the provider's model cap.

**Properties.** `WorksHoldingSlot`: who computes holds a run slot, within
`maxConcurrent`, and nobody holds, lends and waits at once (the types included).
`ReclaimerHoldsNothing`: who waits for its run slot keeps neither a lane slot nor a
reservation from the others; this is the absence of the circular wait.
`EveryRunGoesOn`: nobody waits for ever.

### 3.5 RunOwnership

**State.** The database: `beat` (replicas table), `row` (a run's status, error, pause,
owner, recorded user slot, stale heartbeat) and `quota` (the user's row in
`user_quotas`; users do not interact, so there is one). The processes: `up`, `at[p][r]`
(where process p is with run r), `counted` (who took a count for it and owes it back),
`sweep` and `resumer` (the passes under their advisory locks). `crashes`, `faults`,
`parks`, `boots` are bounded counters; `lostParked`, `doubted`, `unstamped`, `quit` are
history.

**Actions.** Each SQL statement is an action, since none of these paths has a
transaction.

| Code | Action |
|---|---|
| `Admit` with the shared count, `admitUserShared` | `AdmitUser`, `QueueForUser`, `PollUser`, `QueueForSlot`, `StartRun` |
| the end of a run, `releaseInBackground` | `EndLoop`, `ReleaseUser` |
| `reapReplica` | `SweepList`, `SweepPick`, `SweepMark`, `SweepCount`, `SweepDecrement`, `SweepQueued`, `SweepDelete`; `SweepFail` for a statement that fails |
| heartbeat sweeper | `GoQuiet`, `HeartbeatSweep` |
| `resumePausedRun` | `Check`, `Claim`, `Unclaim`, `Refuse`, `Stamp`, `TakeSlot`, `GiveSlot`, `CountResumed`, `MarkSlot` |
| `FinishRunOwnerGone` | `CancelUnheld` |
| process life | `Stop`, `Crash`, `Boot` (with `RestartQueuedRuns`: `QueueAgain`), `Heartbeat`, `GoStale` |

`Stamp` may fail: `SetRunReplica`'s error is only logged, and the run goes on with its
old owner's id on the row (`unstamped`). `Unclaim` gives the row back as paused after a
failed read and, after the stamp, when the agent id is in use. `QueueAgain` lets every
queued run of a booting replica go on waiting, be failed, or be held: a held run stays
queued for a later restart, with nobody waiting for it. `Stop` is a stop whose drain
parked every loop; one that runs out of time is the second half of `Crash`: the loops
are lost and the heartbeat row is deleted all the same, so no sweep of dead
replicas sees them.

**Assumed.** The statements that end a row or give it back as paused, and those of
`releaseStoppedOwnersSlot`, succeed: a failed one leaves the row to the heartbeat sweeper, or
the count behind, as a crash does. A running process reaches the database within the
90 s cutoff and a running loop heartbeats within its 10 min: no live replica is suspected. A booting
replica writes its row before it serves. **Left out.** Sub-runs (they take no count),
snapshots restored by hand, the stats query.

**Properties.**

| Property | Statement | Hazard |
|---|---|---|
| `OneLoop` | no run has two loops, unless its owner stamp failed, or a sweep deleted the fresh row of a replica that booted during it (observations 12 and 13) | resume, restart and sweeps work on stale reads |
| `ReapTakesNoOthers` | no sweep takes back a count another run holds, where no id is used again, no replica with parked runs crashes and every resume is stamped | a pass that fails half-way is done again |
| `CleanHandoffExact` | without crashes, faults and outside cancels the shared count is exact | a count handed from a stopped owner to a resume |
| `EveryRunSettles` | every accepted run's row ends, but for one left queued by a replica that stopped (`LeftQueued`), one a boot held for a later restart (`HeldBack`) and one that polls for good because leaked counts fill its user's cap (`Starved`) | a run that no replica and no sweeper feels responsible for |
| `ReapCountsMarked` | what a comment promises of the reap; **violated**, see the finding | a replica id used again |

`TypeOK` of this module is proved (5.6) and in no cfg. A row's error column is one of
four labels, for what the code's comparisons tell apart: none, the sweeper's text for
a dead owner, its text for a queued row, and the heartbeat sweep's.

### 3.6 SessionTurns

**State.** One session and the calls that run in it. The in-process lock of each
replica: `current` (the entry in the map), `mutex`, `refs`, `held`. The advisory lock
`pg`. What others see of a run: `row`, `tracked`, `finishing` (`sessionRuns`),
`cancelled`. The run's steer queue (`open`, `closed`, `queue`), its loop (`iter`,
`closing`, `busyTurn`) and its turn token (`token`, `fired`, and in `aim` the token a
client took and has not fired). `owed` is a history variable: a turn cancel that was
reported and has not stopped anything yet. `clustered` says whether there is an advisory
lock; without it there is one replica.

`aged` are the calls whose row has passed the cutoff of a live run: queued since before
it, or running without a heartbeat since. `SessionHasLiveRun` does not count them, as its
SQL does not. `faults` bounds the statements that end no row and the rows that age;
`unended` are the calls that left a row behind. `overlooked` is a history variable: the
calls a live-run check passed over because it could not see them.

**Actions.**

| Code | Action |
|---|---|
| `takeSession`, `holdSession`, `SessionLockMap.TryLock`, `GC` | `Arrive`, `TryLock`, `TryCluster`, `Check`, `Busy`, `GC` |
| `sessionHold.release` | `ReleaseCluster`, `Unlock` and `Unref` (two critical sections), `Untrack` |
| `RunOnce` up to the loop | `Admit`, `LetGo`, `CreateSession`, `QueueRow`, `Dequeue`, `Retake`, `Recheck`, `StartRow` (`StartQueuedRun`), `Begin`, `Track`, `Ask` |
| `endQueuedRun`, `finishRunFailedReason` | `EndQueued`, `FailRun`, through `EndRow`, which may fail |
| the loop | `Top` (heartbeat, `drainSteer`), `TopLeaves`, `CapReached`, `Arm`, `Model`, `Backoff`, `Tools`, `Boundary`, `Answer` (`agentStop`) |
| `parkForInput`, `releaseSessionWhileParked` | `Park`, `Parked`, `IdleDeadline`, `Resume`, `EndIdle` |
| `settleSteerAtFinish`, `CloseIfEmpty` | `Settle`, `Close`, `MarkFinishing` |
| the end of `RunOnce` | `SeeCancel`, `Finish`, `Deregister` |
| `steer.Registry.Push`; `turncancel.Registry.CancelLocal`; `cancel.Registry.CancelLocal` | `Push`; `TakeToken` then `FireToken`; `CancelRun` |
| time, the heartbeat of a parked run, whoever ends a row from outside | `Age`, `Beat`, `EndElsewhere` |

Every exit between the first test and the first turn is there: a refused admission, a
row that cannot be written, a wait that ends without a slot, a lock that cannot be taken
back, a live run found after the wait, the token limit, a row that was ended meanwhile
or cannot be started, an agent id in use, the caller's last word.

**Left out.** Verdicts, compactions, review holds and background children in the loop;
the routing of a message or cancel to the owner replica; callers that ask for the
in-process lock only; the value of `takeSession`'s deadline (it may pass at any time).

**Properties.**

| Property | Statement | Hazard |
|---|---|---|
| `LocalLockExclusive` | one holder per replica | the collector between the two halves of a release |
| `OneLiveRun` | in a cluster two runs are live only if a check could not see one of them: the session's first run before its row or queued past the cutoff, or a run whose heartbeat is past it; on one replica the rule is among continuations | the advisory lock is let go while queued and while parked |
| `SessionReturned` | a call that is over, on whichever exit, has given back locks, tracking and queue, and its row, unless the statement that ends it failed | every failing path out of a wait |
| `AcceptedIsRead` | a closed queue is empty | a message pushed as the run decides to end |
| `CancelInTurnStops` | a cancel that fires in the model call or the tools stops the run before its next turn | the token is fired after the unlock |

## 4. The runs

| Run | Instance | Shows |
|---|---|---|
| `sem_queue` | 4 callers, one user and the anonymous key, all eight entry points, 1 slot, 2 places, 2 per user | accounting, bounds, nobody stranded, nobody barges, positions and turns |
| `sem_reload` | 3 callers, all four caps reloaded between two values | counts do not drift, no idle slot, a lowered cap drains |
| `sem_live` | 3 callers, cap 1 or 2, fair | refinement of `SlotPool`, no idle user place, liveness |
| `pause_single` | 1 replica, 2 runs, 4 calls, failing writes | signals, last call, interrupt |
| `pause_converge` | 2 replicas, 2 calls of any kind, lost events, failing statements, fair | a shutdown pause stays, states converge on the row |
| `call_sched` | 3 callers, 2 runs, 2 users, one model in two context sizes, lane 1 or 2 slots, 1 reload | all safety properties of the call scheduler |
| `call_live` | 3 callers, 1 slot, 1 model place, foreground and background, fair | every call is made |
| `lane_gate` | 3 runs, 2 run slots, 1 lane slot, lending and non-lending, fair | slots held while computing, no circular wait, progress |
| `run_ownership` | 2 replicas, 2 runs, cap 2, 1 crash, 1 fault, 2 parks, 1 boot | one loop per run, counts not taken from others, exact hand-over |
| `run_settles` | 2 replicas, 1 run, cap 1, the same faults and 1 park, fair | every row ends, but for the three cases the property names |
| `session_turns` | 2 calls on one replica or two, queue of 1, 2 iterations, on one replica 2 messages, or 1 message and a canceller, or a failing statement; with the advisory lock 1 message and a failing statement or aged row | locks, one live run, messages, cancels |
| `run_reaped` | 2 replicas, 2 runs, 2 crashes, 1 boot | **violated**: the finding |

**Bounds.** *Semaphore.* One slot and two or three waiters are enough for every race the
properties speak of: each needs one holder, one waiter that leaves and one that
must not lose by it. A user and the anonymous key make a ring where uneven buckets and
a wrap-around occur. Reloads go between two values of every
cap, including 0 (off) for the per-user caps, so raise, lower, on and off all
happen at every point of every call. No counter needs a bound of its own:
the number of callers bounds them all. Symmetry over callers is used only where no
liveness is checked.

*Pause.* `MaxCalls` bounds the operator's calls: four allow pause, resume,
pause with a resume or a shutdown that overlaps any of them. The two of
`pause_converge` do not reach a remote resume beside a shutdown; that case is in the
theorem `ShutdownNeverLifted`. One Pause, one Resume,
one shutdown and one refresh are in flight per replica at a time; different replicas
overlap freely. Two replicas are enough for one that acts and one that follows. The
checks of two replicas that look at the managers only have no agent runs: these
react to a manager and never change one. Deadlock is not checked there, because a
runtime on which no call is made any more may stop.

*Calls.* Two slots, two runs with leases and a third caller that is a side call of the
first run or a one-shot request make every race of a lease: owner back in time, owner
back late, side call beside its own reservation, timer against all of them. `MaxUsed`
bounds the count of consecutive calls at the quantum, past which the code does not tell
values apart. One reload (`MaxReloads`) goes from any configuration to any other or
removes the lane at any point. Background and foreground meet in `call_live`.

*Lane gate.* Two run slots and one lane slot with a lending run and two that do not lend
are the smallest instance in which a lender can find no run slot when the lane is its.

*Ownership.* `MaxCrashes`, `MaxFaults`, `MaxParks`, `MaxBoots` bound the faults, at any
point; two replicas are one that dies and one that sweeps. Two parks are needed for a
run that parks again after a failed stamp. `run_settles` has one run, because a run's row
depends on others only through the count, and cap 1, so that a leaked count does block
it.

*Session.* Two calls are needed for a conflict, `Starter` may begin the session,
`Interactive` parks; queue depth 1 makes a full queue, two iterations make the cap and
the closing turn. `MCSetups` keeps apart what does not meet: turn cancels touch neither rows
nor locks (a turn that could not take the session back parks on the same path, with the
advisory lock), a failing statement or an aged row touches no turn. The proofs cover all
other sizes and every combination.

**Fairness.** Every fair specification assumes that goroutines that can run do, that
timers and tickers fire, and that runs and calls end (both have deadlines); nothing is
assumed about cancels, new arrivals, faults or operators.

- `sem_live`: weak fairness of the wake loops, which run inside a
  critical section. Strong fairness of a caller's
  own next step: it may be disabled for as long as others hold the mutex, and
  `sync.Mutex` hands itself to a waiter after a millisecond (starvation mode). Strong
  fairness of `End`: a run's release is deferred by every handler that admits it.
  `Wait` is left out: its callers go ahead
  of every new run by design, so an endless stream of them starves new runs
  (`semaphore.go`, comment of `Wait`).
- `pause_converge`: weak fairness of the steps of an accepted call
  and of the event subscriber, which wait for nothing but bounded
  statements, of the cache's expiry (a time-to-live) and of the refresh: every
  request and every iteration calls `State`. Nothing is assumed of runs.
- `call_live`, `lane_gate`: strong fairness of each caller's steps and of the timer's
  goroutine, for the same mutex; weak fairness of the loops under a mutex and of
  the clock. In `lane_gate` a run also makes its last call at some point.
- `run_settles`: weak fairness of the steps of a live process and of the passes it
  has begun, of heartbeats and of time; strong fairness of beginning a
  pass, which needs the advisory lock that another replica may hold.

### 4.1 Finding

*A reused replica id is reaped twice* (`run_reaped`). The quota reap counts every row of
the replica id that ever was failed with `owner replica died`. The id is configured and
stable, so when a replica that was reaped boots again and dies again, the rows of its
first death are counted a second time and counts of other live runs of the user
are taken back: the user gets more runs at once than the cap. The comment at
`internal/coord/replicas_sweeper.go:40` says "we only decrement quotas for runs WE just
marked". `ReapTakesNoOthers` shows the reap is right as long as no id is used again.

### 4.2 Observations

Behaviours that the models show and that are worth a reader's attention. The first seven and
10 and 13 have a witness configuration, not part of the runs above, e.g.
`tlc -config PauseMissed.cfg MCPauseCluster`; TLC prints the behaviour.

1. *A stale cap* (`SemStaleCap.cfg`, `MCRunSemaphore`). `Admit` reads the per-user cap in
   one critical section and queues on it in another. A reload that raises the cap in
   between wakes the runs that wait then; the run that comes after waits under the
   new cap until another run of its user ends. The comment on `WithPerUserCap` says
   such runs move on at once.
2. *An uncounted run gives back a count* (`SemUncounted.cfg`, `MCRunSemaphore`).
   `AcquireForUser` counts a run only when the cap is on and gives back in any case. A run
   admitted with the cap off that ends after the cap was turned on lowers its
   user's count below the truth and lets one run too many in. `Admit` does not
   have this problem.
3. *A stale parked flag* (`PauseBarrier.cfg`, `MCPauseCluster`). A woken run's flag is
   cleared by its own goroutine. A Pause that follows a Resume at once sees the flag,
   counts the run as parked, returns without a warning, and the run goes on with its turn.
4. *A late row flip* (`PauseFlip.cfg`). Resume flips the rows it listed after it woke the
   runs. A run that parks again for the next pause in the meantime has its row set to
   `running` while it counts as parked.
5. *A park nobody ends* (`PauseMissed.cfg`). `State` stores the row's value in the state
   word and leaves the channels as they are. A refresh that read the row before a Resume
   and stores after it re-pauses the replica; a run parks, later refreshes restore the
   state, and nothing closes the channel the run waits on until the next
   pause is resumed. A lost resume event does the same.
6. *A pause that overwrites a resume* (`PauseOverwrite.cfg`). `finalizePause` makes the
   pause resumable before it writes the row. A Resume in between is accepted and its
   row overwritten, and the cluster stays paused.
7. *A turn cancel that stops nothing* (`TurnCancelLost.cfg`, `MCSessionTurns`,
   `CancelStopsTurn`). A cancel that fires in a retry's backoff (`loop.go:4049`), while
   an `agent_stop` hook sends the answer back, or between the test after the tools
   (`loop.go:4440`) and the disarm at the boundary (`loop.go:3622`) is reported as fired
   and forgotten at the next iteration. The comment at `loop.go:277` says the run parks.
8. *A busy answer for a free session.* `takeSession` tests the lock and then whether the
   session is ending; a run that ends between the two tests gives the continuation a
   refusal although the session is free (`run_start.go:521`).
9. *Messages that end with their run.* A run that ends at its iteration cap, in a
   closing turn that calls tools or with an error does not settle its queue; messages it
   had accepted go with it. `AcceptedIsRead` is about runs that close their queue.
10. *Two live runs* (`SessionTwoLive.cfg`, `MCSessionTurns`, `NeverTwoLive`). The run that
    begins a session holds no lock. In a cluster a continuation runs beside it when the
    check falls between the session's row and the run's, or when the run has queued for
    longer than the cutoff: `SessionHasLiveRun` asks `started_at >= cutoff` of a queued row,
    and the run does not ask again when it gets its slot (`run_start.go:354`). A run without a
    heartbeat for that long is passed over in the same way. On one replica without
    an advisory lock nothing keeps the two apart. `OneLiveRun` names these cases.
11. *Counts that stay.* `FinishRunOwnerGone` and the sweep of queued rows end rows whose
    user count nobody gives back. A resumed run that waits longer than the heartbeat
    cutoff for its slot is failed by the sweep and runs on.
12. *A sweep that does not look again.* A pass lists the stale replicas once; a replica
    that boots again under its id before its turn comes loses its fresh row
    (`doubted`). Queued rows of a replica that stopped cleanly wait until a process boots
    under the same id (`LeftQueued`); so does a run a boot held, under a live owner
    (`HeldBack`).
13. *A failed owner stamp* (`RunTwoLoops.cfg`, `MCRunOwnership`, `OneLoopUnstamped`). A
    resume whose `SetRunReplica` fails goes on under the dead owner's id ("Logged, not fatal
    — the run itself is fine", `resume.go:842`). When the run parks, another replica's
    resume pass finds its owner dead, claims the row and starts a second loop.

## 5. The proofs

### 5.1 The run semaphore

`RunSemaphore_proofs` proves for every set of callers, users, entry points and
caps (assumptions: callers finite, the model values distinct, caps natural
numbers) that the invariants, `NoBarging` and `TurnKept` hold and that the semaphore
implements `SlotPool`.

**Inductive invariant.** `IInv` is the conjunction of types, `CallerInv`,
`NoStrandedWaiter`, `SlotAccounting`, `NoIdleSlot` and `SlotsBounded`. None of
the parts is inductive alone. That `active` counts its holders after a cancel
needs the canceller to be in exactly one queue or to have a token
(`NoStrandedWaiter`); that a fast path does not barge needs
`NoIdleSlot`; that `WakeNext` finds a head in the bucket it takes needs the ring
to list the non-empty buckets. `CallerInv` ties a caller's `pc` to what it called:
only a run bound to a `RunSlot` lends, a run waiting on its user has that user
as key.

**Argument.** Every action moves one caller (`OnlyMoves`). The lemmas
`MoveStep`, `AccountingMove` and `UserMove` reduce each counter to that caller: a
set changes by one element exactly when its counter changes by one (`CountStep`).
The queue conjuncts rest on `FifoLemmas`: appending a newcomer, taking the head and
removing a member keep a FIFO duplicate-free and change its set of members by that
one. `AdmissionStep` covers the fast paths. `PoolEffect` says what each action does
to the holders and waiters of the abstract pool, from which `RefinesSlotPool`
follows.

`UserCountsAccurate` has a hypothesis, `CountsPaired`: `AcquireForUser` is not
used, or the per-user cap is never off. Observation 2 shows it is needed.

Four more theorems rest on `IInv`:

- `AliveWithinCaps` (`AliveBounded`), under `CapsStay`: the two global caps are not
  reloaded, since a lowered cap leaves more runs alive than it allows. The refusable
  runs in the queue or lent (`BoundedPlaces`) grow only past the test of `QueueFull`,
  with `queued + lent` below the bound (`PlaceTaken`); a run that reclaims turns a lent
  place into a queued one.
- `UserCapKept` (`UserCapRespected`), under `0 \notin MaxPerUsers`: with a cap that may
  be off there is no number to respect. A run is counted only below the cap it read,
  or below the current one in `wakeUserWaiter` (`CountedUnderCap`); the count is exact
  by `UserAccounting`. Reloads between positive caps are allowed.
- `NoUserPlaceIdle` (`NoIdleUserPlace`), under `PerUserCapStays`. Observation 1 shows
  that the hypothesis is needed.
- `TurnsKept` (`TurnKept`), with no hypothesis: `RingStep` lists the four things a step
  does to the ring; a bucket that joins was empty and hence not in it, and
  `FifoRemoveKeepsTurn` covers the cancels.

**Positions.** `PositionIsServeOrder` compares two computations: `PositionOf`, the loop
of `positionLocked` over the ring, and `ServeOrder`, what repeated calls of `nextWaiter`
would hand out. Both are recursive functions, so `PositionsServed` needs induction over
their steps. The library's induction theorems take an operator and cannot be used here;
`SetInduction` in `FifoLemmas` says the same of a set of numbers and follows from the
well-foundedness of `<` (`LeastNat`). The two computations meet in a set, `Ahead`: the
waiters to be served before a run, which are the reclaimers, the runs of its bucket
before it, and of every other bucket as many as the round robin comes to first
(`Sooner`).

- `PositionCounts`: the loop adds up the sizes of the disjoint pieces of `Ahead`
  (`DisjointCount`, `FifoPrefixCount`), by induction over the ring.
- `ServedStep`, from `ServedFirst` and `ServedBucket`: one call of `nextWaiter` serves
  the waiter with nobody ahead and takes exactly it out of everybody else's `Ahead`.
- `ServingOrder`: hence the k-th one served is the one with k - 1 ahead, by induction
  over the calls.

`Queues` is what this needs of a state; it follows from `IInv` (`QueuesSound`). Two
further theorems say how a position changes while a run waits.
`PositionsCountDown`: a hand-over by `wakeNextLocked` moves every new run that still waits
up by exactly one. `PositionsRiseByArrivalsOnly`: a position rises only in a step that
puts somebody in the queues, and then by one; cancels, releases, lends and reloads never
put a run back (`QueueMoves`, `AheadShrinks`, `AheadGrows`). That it may rise is a
consequence of round robin: a user with one run waiting is served before the second
run of a user who came earlier.

**Only model-checked.** Liveness under fairness, `EveryoneServed`.

### 5.2 The runtime pause

`PauseCluster_proofs` proves for every set of replicas and runs and every number of
calls (assumptions: at least one replica, exactly one when not clustered):

- `PauseTypeCorrect`: the types.
- `ShutdownNeverLifted`: `ShutdownSticks`, from `ShutdownInv`, which adds that a
  shutdown call in progress has set the flag; without it `ShutdownDone` could be
  taken before the flag. The argument is local to the eight actions that write the
  state word: each looks at the flag in the critical section that writes it, or writes
  a state other than running.
- `NoRunMissed`: `InterruptReachesAll`, from `FlagInv`: the flag is up from the moment
  the sweep may begin. Only `RegisterRun` takes a run out of registration, and it
  reads the flag as it does.
- `SingleSignals` and `SingleLastCall`, for a single replica: `SignalsMatchState` and
  `LastCallWins`. The invariant `SingleInv` adds `CallsInv`: a Pause call is in flight
  exactly while the state is `pausing`, and the state is `running` exactly when a
  resume was asked for last. It is what makes the unlocked store of
  `finalizePause` harmless here: nobody can resume in between. Observation 6
  shows that this does not extend to a cluster.

**Only model-checked.** `StateConverges` (liveness).

### 5.3 The session

`SessionTurns_proofs` proves for every set of calls, replicas, messages and cancellers,
every queue depth and iteration cap, with any number of failing statements and aged rows
(assumptions: calls finite, at most one call begins the session, both bounds positive)
the types and the five properties of `session_turns`:
`SessionTypeCorrect`, `SessionLockExclusive`, `SessionOneLiveRun`, `SessionGivenBack`,
`SessionMessagesRead`, `SessionCancelStops`.

**Inductive invariant.** `IInv` is the conjunction of:

- `HeldInv`: at which points a call may and must hold an entry of the lock map;
- `LockInv`: the entry a call refers to is the one in its replica's map, its mutex
  belongs to exactly its holder, and its reference count is the number of calls that
  refer to it. Without the first part two calls could hold two entries of one session;
- `PgInv`: at which points a call may and must have the advisory lock;
- `RowInv`: the row's status, the tracking and the queue at each point. A live run's row
  is running, or was ended past the cutoff; a row is left behind only by a call that is on
  its way out;
- `BeginInv`: a run without a lock is the one that began the session; in a cluster
  nobody else is past the tests beside it, because the session does not exist yet or
  the run's row is live, unless a test overlooked it or the row was ended while the
  run waited and `StartRow` will refuse it;
- `ClaimInv`: in a cluster, beside a call that has passed its tests under the advisory
  lock there is no live run, and no two are live, but for overlooked ones. This is what
  carries `OneLiveRun` over the windows in which the lock is let go;
- `PlaceInv`: without an advisory lock every call is on one replica;
- `OwedInv`: a turn cancel that is owed has ended the context of a turn in its model
  call or tools, or the run is about to park, or is being cancelled as a whole;
- `AcceptedIsRead` itself.

`IInv` was first checked with TLC on the instance of `session_turns`.

**Argument.** One lemma per conjunct, split by action; the actions of the loop leave
the locks alone and the actions of the locks leave the loop alone, so frame lemmas
dispose of most pairs. That a new entry can be had (`FreeEntry`) is a counting argument:
there is one more number than there are calls. `Collectable` is where `LockInv` meets
the collector: an entry somebody refers to has a positive count and stays in the map.

### 5.4 The call lane, the model gate and the call scheduler

`CallLane_proofs` and `CallScheduler_proofs` prove for every set of callers, runs, users
and models, every set of lane configurations and gate limits and every number of
reloads (assumptions: callers, owners and models finite, at least one user, the model
values distinct, configurations well formed) the eight properties of `call_sched`:
`SlotsExclusiveAlways`, `ReservationsFitAlways`, `NoWaiterBesideFreeSlotAlways`,
`NoSelfBlockAlways`, `CountersExactAlways` (types included), `GrantsFitAlways`,
`HoldKeptAlways`, `ModelsFitAlways`.

**Inductive invariant.** The lane's part, `LaneInv`, is stated over the lane's variables
only, so that `LaneGate` can use it too. Its conjuncts:

- `SlotInv`: types, `SlotsExclusive`, per-model counts, and that a call on a lease is in
  flight for a run;
- `QueueParts`: a waiting call is in exactly the bucket of its class and user, the ring
  lists the non-empty buckets, `ownerQueued` counts each run's waiting calls;
- `ReservationsFit`;
- `NoneCouldGo`: with the lock free and a slot free every waiter's model is at its cap.
  This is `NoWaiterBesideFreeSlot` in terms of waiting calls instead of queues; it
  survives a grant because more calls in flight leave no cap with more room
  (`TallyGrows`), and it is re-established by `DispatchEnd` after anything that frees;
- `OwnSlotGoes`: only a background call waits beside its run's reservation. `finish`
  keeps a lease only if `ownerQueued` is 0, which is where `QueueParts` is needed;
- `EnteringAlone`: an `acquire` that gave up its reservation and runs the loop first is
  alone, holds the lock, and its run holds no reservation.

`SchedInv` adds `GateInv` (the gate's queue and counts; every counted call has a model)
and `Places` (where a caller is in `acquire` says where it is in lane and gate).

**Argument.** For the larger operations an effect lemma says what they do to variables in
terms of `Waiting`, `InFlight` and `Idle` (`FinishEffect`, `GrantEffect`, ...); the
lemmas per conjunct use the effect and not the code. That a slot number below the cap is
free whenever `active + reserved` is below it is a pigeonhole argument on `inUse`
(`InUseBounded`). That the counts of the identities sharing a cap bound the calls in
flight under it is the bijection behind `RoomUnderCap`. For the gate, `Without` is shown
to keep a duplicate-free queue and to take exactly the model's waiters out of it.

**Who comes next.** Three theorems are about the order of the two queues. Their
statements are in the proof modules; TLC agreed on the instance of `call_sched` before
they were proved.

- `LaneTurnsKept`: in a step of the system no user's bucket falls back in the lane's ring
  or is overtaken by another (`RingKept`), unless one of its own calls was handed a slot,
  and two calls of a bucket keep their order (`BucketsKept`). A withdrawal, a timer or a
  reload costs nobody a turn. `LeftInOrder` and `SentToBack` say what removing a key and
  sending it to the back do to the indices of the others.
- `NoModelBesideFreePlaceAlways`: with the gate's lock free, the oldest waiter is kept out
  only because its model is not in flight and other models have every place
  (`HeadKeptOut`). `exit`, a cancelled wait and a reload can each make room, and each ends
  with `admit`; an exit that leaves the model in flight makes none (`ExitEffect`).
- `OldestFirstAlways`: the oldest waiter stays the oldest until it is let in or cancelled
  and, once it has waited `maxWait`, only its own model gains calls in flight. This is the
  safety half of the gate's promise against starvation; the other half, that the calls
  in flight end, is in `EveryCallMade`.

### 5.5 Runs between lane and run slots

`LaneGate_proofs` proves `WorksHoldingSlotAlways` and `ReclaimerHoldsNothingAlways`,
the two invariants of `lane_gate`, and `LaneSafeBetweenRuns`, the four promises of the
lane for this other caller, for every number of runs, slots and queue places. Besides
those of the lane there is one assumption, `RunCalls`: the calls of a run carry the
run's own id as owner, and only one-shot requests, which are not runs, bound their wait.

`RunsInv` is `LaneInv` with two parts per run: `PoolOf`, which ties the step a run is at
to the set it is in (holders, lenders, the two queues), and `RunOf`, which ties the step
to the state of its call in the lane and says that from the moment its call is queued
or granted until it runs or fails, the run has no reservation. The second part is what
`ReclaimerHoldsNothing` needs and the lane alone does not give: an idle lease of the
run would have to come from another call of the run, and the run has one at a time.

Two more theorems are about the run slots themselves. `NoRunBesideFreeSlotAlways`: no run
waits for a run slot, to start or to take its own back, while one is free.
`RunSlotsArePool`: slots and waiting runs are a `SlotPool`, as those of `RunSemaphore`
are, except that here a slot given up is handed on in the same step (`HandOver`), which
is a `GiveBack` and a `Grant` of the pool in one critical section. The two
models of the run slots, this one and `RunSemaphore`, thus implement the same abstract
pool. Both theorems rest on `RunSlotMoves`, the five things a step can do to holders and
waiters.

### 5.6 The ownership of runs

`RunOwnership_proofs` proves for all finite sets of replicas and runs and every number
of crashes, boots, parks and failed statements, the owner stamp's among them,
`TypeCorrect`, `OneLoopAlways`,
`ReapTakesNoOthersAlways` and `CleanHandoffExactAlways`. The conditions under which the
last three speak (no fresh row swept away, no failed stamp, no id used again, nothing
went wrong) are in the properties; the finding and the observations 11 to 13 show why.

**Inductive invariant**, in three layers:

- `LoopInv`, for `OneLoop`: a process that does not run holds nothing; a running replica
  is fresh; there is one resume pass and it is at one run; before its row runs a run is
  with the process that admits it, after it ended nobody starts it; a running row names
  its holder, but for a resume that has claimed and not yet stamped it and a run whose
  stamp failed; and one process at a time has anything to do with any other run
  (`OnePlace`). `OneLoop` alone is not inductive:
  a claim must find nobody between its check and its stamp.
- `RecordInv`, for the counts: which replicas a sweep may have listed, who owes a count,
  when a row records one, that the owner of a running row holds the run, is down or has
  given it back as paused, and that the rows a sweep failed are settled, together with
  all rows of their owner. It speaks of `Calm` histories (no boot, no crash with parked
  runs, no failed stamp) and `Clean` ones; `FaultSeen`, that a failed stamp shows in
  `faults`, links `Clean` to the condition of `CleanHandoffExact`.
- `CountInv`: `Covered`, the count is at least the number of `Units` (counts held,
  recorded, being given back, or about to be taken back by the sweep) and what the sweep
  has yet to subtract; `Exact`, equality when nothing went wrong.

**Argument.** Each action has an effect lemma; the actions that touch neither the rows
nor the processes are disposed of by frames. For the counts every step changes the set
`Units` by one run at most, except the sweep's, which swaps a whole set of units for
the number it has counted.

### 5.7 What is only model-checked

The five liveness properties `EveryoneServed`, `StateConverges`, `EveryCallMade`,
`EveryRunGoesOn` and `EveryRunSettles`: liveness under fairness is outside the prover.

## 6. Not modelled

- *Cancel routing and cascade.* The cancel of one run is an input of `SessionTurns` and
  `RunOwnership`. Its routing to the owner replica, the wait for the ack and the cascade
  over children are the next candidate.
- *Scheduler, audit chain, buses, one-shot waits.* Small state under one mutex, or in
  one row; candidates after it.
- *Limits.* Sliding windows over wall-clock time, better tested than model-checked.
- *Backplane and advisory locks.* External services; they enter as an unreliable
  channel, a shared row and an exclusive lock.
- *Hooks, providers, tools, configuration, stores, adapters, UI.* I/O, parsing and
  generated code, by far the largest part of the repository, with no interleavings of
  their own. What the stores promise per statement (compare-and-set, one row at a time)
  is in the actions that use them.
