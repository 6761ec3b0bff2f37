---------------------------- MODULE SessionTurns ----------------------------
(***************************************************************************)
(* The turns of one session.  A call is one request that runs in the       *)
(* session: it takes the session's lock (the in-process SessionLockMap     *)
(* and, in a cluster, a Postgres advisory lock), waits for a run slot,     *)
(* writes its row, registers its steer queue and drives the agent loop,    *)
(* which takes operator messages, arms a cancel token per turn, parks,     *)
(* settles its queue and ends.  Meanwhile clients push messages, cancel    *)
(* the turn or the run, and continue the session from any replica, and a   *)
(* collector prunes idle lock entries.                                     *)
(*                                                                         *)
(* One action is one critical section of the code, or the code of one      *)
(* goroutine between two points where another can act.  The operator's     *)
(* messages are plain turns; verdicts, compactions, review holds and       *)
(* background children are left out.                                       *)
(***************************************************************************)
EXTENDS Integers, Sequences, FiniteSets, SequencesExt

CONSTANTS
  Calls,        \* requests that run in the session
  Starter,      \* the call that may begin the session instead of continuing it
  Interactive,  \* the calls whose run parks when it has answered
  Replicas,     \* server processes
  Placements,   \* which replica may serve each call: a set of functions
  Messages,     \* operator messages
  QueueCap,     \* depth of a run's steer queue
  IterCap,      \* iterations a run may take (MaxIterations)
  Cancellers,   \* clients that cancel turns, any number of times
  Setups,       \* with the cluster lock or not, how many statements fail or
                \* rows pass the cutoff (a bound), which clients cancel,
                \* which messages are sent
  None          \* no call

ASSUME SessionAssumption ==
  /\ IsFiniteSet(Calls) /\ Calls # {}
  /\ Starter \subseteq Calls /\ \A c, d \in Starter : c = d
  /\ Interactive \subseteq Calls /\ None \notin Calls
  /\ Placements \subseteq [Calls -> Replicas] /\ Placements # {}
  /\ QueueCap \in Nat \ {0} /\ IterCap \in Nat \ {0}
  /\ Setups \subseteq
       [clustered : BOOLEAN, faults : Nat, cancellers : SUBSET Cancellers,
        messages : SUBSET Messages]

(* Identities of lock entries: the replica and a number.  An entry is      *)
(* collected once nobody refers to it, so one number per call and one to   *)
(* be created next are enough.                                             *)
Numbers == 1 .. (Cardinality(Calls) + 1)
Entries == Replicas \X Numbers

VARIABLES
  clustered,    \* sessionLockPG is set
  exists,       \* the session exists
  pc,           \* where each call is
  at,           \* replica that serves the call
  \* the session lock
  current,      \* current[x] = number of the session's entry in x's map, 0 for none
  mutex,        \* mutex[e] = call that has entry e's mutex
  refs,         \* refs[e] = refCount of entry e
  held,         \* held[c] = number of the entry whose mutex c took, 0 for none
  pg,           \* call that holds the advisory lock
  next,         \* next[c] = where c goes once it has let the session go
  \* what others see of a run
  row,          \* status of the run's row
  aged,         \* calls whose row has passed the cutoff of a live run
  faults,       \* how many more statements may fail or rows pass it
  unended,      \* calls that left a row behind: the statement that ends it failed
  overlooked,   \* ghost: calls that a live-run check could not see
  tracked,      \* calls in their replica's sessionRuns
  finishing,    \* tracked calls whose input is closed
  cancelled,    \* calls whose run was cancelled
  \* the steer queue and the turn token
  open,         \* calls with a registered steer queue
  closed,       \* calls whose queue is closed
  queue,        \* queue[c] = messages waiting
  unsent,       \* messages no client has sent yet
  iter,         \* iter[c] = iteration of the loop
  closing,      \* calls in their closing turn
  busyTurn,     \* calls whose next turn must not run (retakeFailed)
  token,        \* token[c] = iteration whose cancel token is armed, 0 for none
  fired,        \* fired[c] = the current turn's context was cancelled
  aim,          \* aim[k] = the token client k's cancel took out of the registry
  owed          \* ghost: what a successful turn cancel still owes its caller

lockVars  == <<current, mutex, refs, held, pg>>
ageVars   == <<aged, faults, unended, overlooked>>
rowVars   == <<row, tracked, finishing, exists, ageVars>>
steerVars == <<open, closed, queue, unsent>>
turnVars  == <<iter, closing, busyTurn, token, fired, owed>>
vars == <<clustered, exists, pc, at, current, mutex, refs, held,
          pg, next, row, aged, faults, unended, overlooked, tracked, finishing,
          cancelled, open, closed, queue, unsent, iter, closing, busyTurn, token, fired, aim, owed>>

(* The points of a call.  First taking the session, then starting, then    *)
(* the loop, then the end and the release.                                 *)
Taking   == {"take", "cluster", "check", "busy"}
Starting == {"admit", "letgo", "queue", "queued", "retake", "recheck", "row"}
Looping  == {"begin", "track", "ask", "top", "arm", "model", "backoff", "tools", "boundary",
             "answer", "parking", "parked", "resume", "idle", "settle", "close", "mark"}
Ending   == {"finish", "dereg"}
Release  == {"release", "unlock", "unref", "untrack"}
Over     == {"refused", "done"}
Points   == {"new"} \cup Taking \cup Starting \cup Looping \cup Ending \cup Release
                    \cup Over

Init ==
  /\ \E s \in Setups : /\ clustered = s.clustered /\ faults = s.faults
                       /\ aim = [k \in s.cancellers |-> <<None, 0>>]
                       /\ unsent = s.messages
  /\ exists \in BOOLEAN /\ (Starter = {} => exists)
  /\ pc = [c \in Calls |-> "new"]
  /\ at \in Placements
  /\ ~clustered => \A c, d \in Calls : at[c] = at[d]
  /\ current = [x \in Replicas |-> 0]
  /\ mutex = [e \in Entries |-> None]
  /\ refs = [e \in Entries |-> 0]
  /\ held = [c \in Calls |-> 0]
  /\ pg = None
  /\ next = [c \in Calls |-> "done"]
  /\ row = [c \in Calls |-> "none"]
  /\ aged = {} /\ unended = {} /\ overlooked = {}
  /\ tracked = {} /\ finishing = {} /\ cancelled = {}
  /\ open = {} /\ closed = {}
  /\ queue = [c \in Calls |-> <<>>]
  /\ iter = [c \in Calls |-> 0]
  /\ closing = {} /\ busyTurn = {}
  /\ token = [c \in Calls |-> 0]
  /\ fired = [c \in Calls |-> FALSE]
  /\ owed = [c \in Calls |-> "no"]

Goto(c, p) == pc' = [pc EXCEPT ![c] = p]

(***************************************************************************)
(* Taking the session: takeSession, holdSession, trySessionLock,           *)
(* SessionLockMap.TryLock and GC                                           *)
(***************************************************************************)

(* A call that continues the session takes its lock; the one that begins   *)
(* it (sessHold = nil) goes straight to admission.                         *)
Arrive(c) ==
  /\ pc[c] = "new"
  /\ \/ ~exists /\ c \in Starter /\ Goto(c, "admit")
     \/ exists /\ Goto(c, "take")
  /\ UNCHANGED <<clustered, at, next, cancelled, aim,
                 lockVars, rowVars, steerVars, turnVars>>

(* The entry a call refers to.                                             *)
EntryOf(c) == <<at[c], held[c]>>

(* Entries of x nobody refers to: the next one its map creates.            *)
FreeEntry(x) ==
  CHOOSE n \in Numbers : /\ mutex[<<x, n>>] = None /\ refs[<<x, n>>] = 0
                         /\ \A c \in Calls : EntryOf(c) # <<x, n>>

(* SessionLockMap.TryLock, one critical section of the map's mutex: finds  *)
(* or creates the entry and tries its mutex.                               *)
TryLock(c) ==
  LET x == at[c]
      n == IF current[x] = 0 THEN FreeEntry(x) ELSE current[x]
      e == <<x, n>>
  IN /\ pc[c] = "take"
     /\ current' = [current EXCEPT ![x] = n]
     /\ IF mutex[e] = None
        THEN /\ mutex' = [mutex EXCEPT ![e] = c]
             /\ refs' = [refs EXCEPT ![e] = @ + 1]
             /\ held' = [held EXCEPT ![c] = n]
             /\ Goto(c, IF clustered THEN "cluster" ELSE "admit")
        ELSE /\ Goto(c, "busy")
             /\ UNCHANGED <<mutex, refs, held>>
     /\ UNCHANGED <<clustered, at, pg, next, cancelled, aim,
                    rowVars, steerVars, turnVars>>

(* MUTANT: GC goes by the idle time alone and collects an entry that is    *)
(* locked.                                                                 *)
CollectLocked(e) == TRUE

(* GC's test: nobody holds the entry.  The idle time has passed or not.    *)
Collectable(e) == refs[e] = 0

(* SessionLockMap.GC                                                       *)
GC(x) ==
  /\ current[x] # 0
  /\ Collectable(<<x, current[x]>>)
  /\ current' = [current EXCEPT ![x] = 0]
  /\ UNCHANGED <<clustered, exists, pc, at, mutex, refs, held, pg,
                 next, row, ageVars, tracked, finishing, cancelled, aim,
                 steerVars, turnVars>>

(* MUTANT: without the advisory lock the local one is kept.                *)
TryClusterKeeps(c) ==
  /\ pc[c] = "cluster"
  /\ \/ pg = None /\ pg' = c /\ Goto(c, "check")
     \/ UNCHANGED pg /\ Goto(c, "busy")
  /\ UNCHANGED <<clustered, at, current, mutex, refs, held, next,
                 cancelled, aim, rowVars, steerVars, turnVars>>

(* reacquire: the advisory lock is tried, never waited for; a database     *)
(* error reads as a lock somebody else has.                                *)
TryCluster(c) ==
  /\ pc[c] = "cluster"
  /\ \/ pg = None /\ pg' = c /\ Goto(c, "check") /\ UNCHANGED next
     \/ UNCHANGED pg /\ Goto(c, "unlock") /\ next' = [next EXCEPT ![c] = "busy"]
  /\ UNCHANGED <<clustered, at, current, mutex, refs, held,
                 cancelled, aim, rowVars, steerVars, turnVars>>

(* MUTANT: a parked run no longer counts as live.                          *)
NoLiveRun(c) == FALSE

(* SessionHasLiveRun: another run of the session is queued, with a start   *)
(* after the cutoff, or running with a heartbeat after it.  Asked only     *)
(* where there is a cluster lock.                                          *)
SessionHasLiveRun(c) ==
  clustered /\ \E d \in Calls \ {c} : row[d] \in {"queued", "running"} /\ d \notin aged

(* What c's query cannot see: a run whose row is past the cutoff, or that  *)
(* the sweeper ended there, and the call that has made the session and not *)
(* yet its row.  A continuation that waits is not among them: it asks      *)
(* again before it starts.                                                 *)
Unseen(c) ==
  {d \in Calls \ {c} :
     \/ d \in aged /\ (row[d] = "queued" => held[d] = 0)
     \/ row[d] = "none" /\ held[d] = 0 /\ pc[d] \in {"queue", "row"}}

(* takeSession's query: the session has a live run, the query fails, or    *)
(* the call has the session.                                               *)
Check(c) ==
  /\ pc[c] = "check"
  /\ \/ /\ SessionHasLiveRun(c)
        /\ Goto(c, "release") /\ next' = [next EXCEPT ![c] = "busy"]
        /\ UNCHANGED overlooked
     \/ /\ Goto(c, "release") /\ next' = [next EXCEPT ![c] = "refused"]
        /\ UNCHANGED overlooked
     \/ /\ ~SessionHasLiveRun(c)
        /\ Goto(c, "admit") /\ UNCHANGED next
        /\ overlooked' = overlooked \cup Unseen(c)
  /\ UNCHANGED <<clustered, at, cancelled, aim, row, aged, faults, unended, exists,
                 tracked, finishing, lockVars, steerVars, turnVars>>

(* sessionRunSet.ending: the runs this replica tracks for the session are  *)
(* all being cancelled or finishing, and there is one.                     *)
SessionEnding(x) ==
  LET here == {d \in tracked : at[d] = x}
  IN here # {} /\ here \subseteq finishing \cup cancelled

(* takeSession goes round again while the session is ending, until its     *)
(* deadline or its caller's context ends; any other busy session is        *)
(* refused.                                                                *)
Busy(c) ==
  /\ pc[c] = "busy"
  /\ \/ SessionEnding(at[c]) /\ Goto(c, "take")
     \/ Goto(c, "refused")
  /\ UNCHANGED <<clustered, at, next, cancelled, aim,
                 lockVars, rowVars, steerVars, turnVars>>

(***************************************************************************)
(* Letting the session go: sessionHold.release, in its own order           *)
(***************************************************************************)

(* releaseCluster                                                          *)
ReleaseCluster(c) ==
  /\ pc[c] = "release"
  /\ pg' = IF pg = c THEN None ELSE pg
  /\ Goto(c, IF held[c] = 0 THEN "untrack" ELSE "unlock")
  /\ UNCHANGED <<clustered, at, current, mutex, refs, held, next,
                 cancelled, aim, rowVars, steerVars, turnVars>>

(* The release TryLock returned, first half: the entry's mutex.            *)
Unlock(c) ==
  /\ pc[c] = "unlock"
  /\ mutex' = [mutex EXCEPT ![EntryOf(c)] = None]
  /\ Goto(c, "unref")
  /\ UNCHANGED <<clustered, at, current, refs, held, pg, next,
                 cancelled, aim, rowVars, steerVars, turnVars>>

(* Second half, under the map's mutex.                                     *)
Unref(c) ==
  /\ pc[c] = "unref"
  /\ refs' = [refs EXCEPT ![EntryOf(c)] = IF @ > 0 THEN @ - 1 ELSE @]
  /\ held' = [held EXCEPT ![c] = 0]
  /\ Goto(c, "untrack")
  /\ UNCHANGED <<clustered, at, current, mutex, pg, next,
                 cancelled, aim, rowVars, steerVars, turnVars>>

(* onRelease: the run leaves sessionRuns once the session is let go.       *)
Untrack(c) ==
  /\ pc[c] = "untrack"
  /\ tracked' = tracked \ {c}
  /\ finishing' = finishing \ {c}
  /\ next' = [next EXCEPT ![c] = "done"]
  /\ Goto(c, next[c])
  /\ UNCHANGED <<clustered, at, row, ageVars, exists, cancelled, aim, lockVars,
                 steerVars, turnVars>>

(***************************************************************************)
(* Starting: RunOnce from admission to the loop                            *)
(***************************************************************************)

(* The call gets its slot at once, has to queue, or is refused.            *)
Admit(c) ==
  /\ pc[c] = "admit"
  /\ \/ Goto(c, "row") /\ UNCHANGED next
     \/ Goto(c, "letgo") /\ UNCHANGED next
     \/ Goto(c, "release") /\ next' = [next EXCEPT ![c] = "refused"]
  /\ UNCHANGED <<clustered, at, cancelled, aim, lockVars,
                 rowVars, steerVars, turnVars>>

(* createRow lets the advisory lock go, and then writes the queued row.    *)
LetGo(c) ==
  /\ pc[c] = "letgo"
  /\ pg' = IF pg = c THEN None ELSE pg
  /\ Goto(c, "queue")
  /\ UNCHANGED <<clustered, at, current, mutex, refs, held, next,
                 cancelled, aim, rowVars, steerVars, turnVars>>

(* The call that begins the session creates it, before its row.            *)
CreateSession(c) ==
  /\ pc[c] \in {"queue", "row"}
  /\ ~exists
  /\ exists' = TRUE
  /\ UNCHANGED <<clustered, pc, at, next, row, ageVars, tracked, finishing,
                 cancelled, aim, lockVars, steerVars, turnVars>>

(* The queued row is written, or the call is refused on the error.         *)
QueueRow(c) ==
  /\ pc[c] = "queue"
  /\ \/ exists /\ row' = [row EXCEPT ![c] = "queued"]
        /\ Goto(c, "queued") /\ UNCHANGED next
     \/ next' = [next EXCEPT ![c] = "refused"]
        /\ Goto(c, "release") /\ UNCHANGED row
  /\ UNCHANGED <<clustered, at, ageVars, exists, tracked, finishing, cancelled,
                 aim, lockVars, steerVars, turnVars>>

(* A failing statement leaves the row of a call that returns as it is.     *)
LeaveBehind(c) ==
  /\ faults > 0
  /\ faults' = faults - 1
  /\ unended' = unended \cup {c}

(* A statement that ends c's row while it is in one of the states: it      *)
(* leaves any other row alone, and when it fails that is only logged.      *)
EndRow(c, states) ==
  \/ row' = [row EXCEPT ![c] = IF @ \in states THEN "ended" ELSE @]
     /\ UNCHANGED <<faults, unended>>
  \/ row[c] \in states /\ LeaveBehind(c) /\ UNCHANGED row

(* endQueuedRun, if the call has a row, and the call's return.             *)
EndQueued(c) ==
  /\ EndRow(c, {"queued"})
  /\ next' = [next EXCEPT ![c] = "refused"]
  /\ Goto(c, "release")
  /\ UNCHANGED <<exists, aged, overlooked, tracked, finishing>>

(* A queued call gets its slot, or leaves the queue for good: it was       *)
(* cancelled, timed out, or could not be registered.                       *)
Dequeue(c) ==
  /\ pc[c] = "queued"
  /\ \/ /\ Goto(c, IF held[c] = 0 THEN "row" ELSE "retake")
        /\ UNCHANGED <<next, rowVars>>
     \/ EndQueued(c)
  /\ UNCHANGED <<clustered, at, cancelled, aim, lockVars,
                 steerVars, turnVars>>

(* A continuation that waited takes the advisory lock back, in one try.    *)
Retake(c) ==
  /\ pc[c] = "retake"
  /\ \/ /\ ~clustered \/ pg = None
        /\ pg' = IF clustered THEN c ELSE pg
        /\ Goto(c, "recheck")
        /\ UNCHANGED <<next, rowVars>>
     \/ clustered /\ EndQueued(c) /\ UNCHANGED pg
  /\ UNCHANGED <<clustered, at, current, mutex, refs, held,
                 cancelled, aim, steerVars, turnVars>>

(* sessionLiveAfterWait, and the session's history read again: a live run  *)
(* or an error ends the call.                                              *)
Recheck(c) ==
  /\ pc[c] = "recheck"
  /\ \/ EndQueued(c)
     \/ /\ ~SessionHasLiveRun(c)
        /\ overlooked' = overlooked \cup Unseen(c)
        /\ Goto(c, "row")
        /\ UNCHANGED <<next, row, aged, faults, unended, exists, tracked, finishing>>
  /\ UNCHANGED <<clustered, at, cancelled, aim, lockVars,
                 steerVars, turnVars>>

(* StartQueuedRun: the row is running from now on.  It is read back, and   *)
(* when only that fails endQueuedRun finds no queued row to end.           *)
StartQueuedRun(c) ==
  /\ row[c] = "queued"
  /\ row' = [row EXCEPT ![c] = "running"]
  /\ aged' = aged \ {c}
  /\ \/ Goto(c, "track") /\ UNCHANGED <<next, faults, unended>>
     \/ /\ LeaveBehind(c)
        /\ next' = [next EXCEPT ![c] = "refused"]
        /\ Goto(c, "release")

(* The row is running: created, or moved on from queued.  A call over its  *)
(* token limit, whose row was ended while it waited, or whose statement    *)
(* fails is refused.                                                       *)
StartRow(c) ==
  /\ pc[c] = "row"
  /\ \/ /\ row[c] = "none" /\ exists
        /\ row' = [row EXCEPT ![c] = "running"]
        /\ Goto(c, "begin")
        /\ UNCHANGED <<next, ageVars, exists, tracked, finishing>>
     \/ StartQueuedRun(c) /\ UNCHANGED <<overlooked, exists, tracked, finishing>>
     \/ EndQueued(c)
  /\ UNCHANGED <<clustered, at, cancelled, aim, lockVars, steerVars, turnVars>>

(* finishRunFailedReason, and the call's return.                           *)
FailRun(c) ==
  /\ EndRow(c, {"running"})
  /\ next' = [next EXCEPT ![c] = "refused"]
  /\ Goto(c, "release")
  /\ UNCHANGED <<exists, aged, overlooked, tracked, finishing>>

(* A call that did not queue enters the cancel registry here, unless its   *)
(* agent id is in use.                                                     *)
Begin(c) ==
  /\ pc[c] = "begin"
  /\ \/ Goto(c, "track") /\ UNCHANGED <<next, rowVars>>
     \/ FailRun(c)
  /\ UNCHANGED <<clustered, at, cancelled, aim, lockVars, steerVars, turnVars>>

(* sessionRuns.track                                                       *)
Track(c) ==
  /\ pc[c] = "track"
  /\ tracked' = tracked \cup {c}
  /\ Goto(c, "ask")
  /\ UNCHANGED <<clustered, at, next, row, ageVars, exists, finishing,
                 cancelled, aim, lockVars, steerVars, turnVars>>

(* The caller's last word (cb.Admit), then makeSteer and the first         *)
(* iteration.                                                              *)
Ask(c) ==
  /\ pc[c] = "ask"
  /\ \/ /\ open' = open \cup {c}
        /\ Goto(c, "top")
        /\ UNCHANGED <<next, rowVars>>
     \/ FailRun(c) /\ UNCHANGED open
  /\ UNCHANGED <<clustered, at, cancelled, aim, closed, queue, unsent, lockVars,
                 turnVars>>

(***************************************************************************)
(* The agent loop                                                          *)
(***************************************************************************)

(* parkLock.resume, called by OnSteer: a turn begins with the advisory     *)
(* lock, or must not run.  The lock is tried several times; the end of the *)
(* context, or a database error, counts as a lock somebody has.            *)
TakeBack(c) ==
  \/ /\ ~clustered \/ held[c] = 0 \/ pg = c
     /\ UNCHANGED <<pg, busyTurn>>
  \/ /\ clustered /\ held[c] # 0 /\ pg # c
     /\ \/ pg = None /\ pg' = c /\ UNCHANGED busyTurn
        \/ busyTurn' = busyTurn \cup {c} /\ UNCHANGED pg

(* The loop is left; the run-exit defer disarms the turn.                  *)
LeaveLoop(c) ==
  /\ token' = [token EXCEPT ![c] = 0]
  /\ owed' = [owed EXCEPT ![c] = "no"]
  /\ Goto(c, "finish")

NextIteration(c) == iter' = [iter EXCEPT ![c] = @ + 1] /\ Goto(c, "top")

(* What waits in the queue is read at the top of an iteration             *)
(* (drainSteer).                                                           *)
Drain(c) ==
  /\ queue' = [queue EXCEPT ![c] = <<>>]
  /\ IF queue[c] = <<>> THEN UNCHANGED <<pg, busyTurn>> ELSE TakeBack(c)

(* UpdateHeartbeat: only a running row is fresh again.                     *)
Fresh(c) == IF row[c] = "running" THEN aged \ {c} ELSE aged

(* Top of an iteration: the last turn's token is disarmed, the run's       *)
(* heartbeat is written and the queue is read.                             *)
Top(c) ==
  /\ pc[c] = "top"
  /\ iter[c] < IterCap \/ c \in closing
  /\ token' = [token EXCEPT ![c] = 0]
  /\ fired' = [fired EXCEPT ![c] = FALSE]
  /\ aged' = Fresh(c)
  /\ Drain(c)
  /\ Goto(c, "arm")
  /\ UNCHANGED <<clustered, at, current, mutex, refs, held, next,
                 cancelled, aim, row, faults, unended, overlooked, exists, tracked,
                 finishing, open, closed, unsent, iter, closing, owed>>

(* The run ends there: cancelled in a runtime pause or over its budget,    *)
(* before the queue is read, or by a context plugin, after it.             *)
TopLeaves(c) ==
  /\ pc[c] = "top"
  /\ iter[c] < IterCap \/ c \in closing
  /\ Drain(c) \/ UNCHANGED <<queue, pg, busyTurn>>
  /\ LeaveLoop(c)
  /\ UNCHANGED <<clustered, at, current, mutex, refs, held, next, cancelled, aim,
                 rowVars, open, closed, unsent, iter, closing, fired>>

(* No iteration is left.                                                   *)
CapReached(c) ==
  /\ pc[c] = "top"
  /\ iter[c] >= IterCap /\ c \notin closing
  /\ LeaveLoop(c)
  /\ UNCHANGED <<clustered, at, next, cancelled, aim, lockVars,
                 rowVars, steerVars, iter, closing, busyTurn, fired>>

(* armTurn.  A turn that could not take the session back is cancelled as   *)
(* it is armed.                                                            *)
Arm(c) ==
  /\ pc[c] = "arm"
  /\ token' = [token EXCEPT ![c] = IF c \in Interactive THEN iter[c] + 1 ELSE 0]
  /\ fired' = [fired EXCEPT ![c] = c \in busyTurn]
  /\ busyTurn' = busyTurn \ {c}
  /\ Goto(c, "model")
  /\ UNCHANGED <<clustered, at, next, cancelled, aim,
                 lockVars, rowVars, steerVars, iter, closing, owed>>

(* The turn was stopped by its cancel token, the run is alive.             *)
TurnStopped(c) == fired[c] /\ c \notin cancelled

(* finishTurnCancel: disarm and park.                                      *)
FinishTurnCancel(c) ==
  /\ token' = [token EXCEPT ![c] = 0]
  /\ Goto(c, "parking")
  /\ UNCHANGED <<iter, closing, busyTurn, fired, owed>>

(* endTurn: the model answered, or called tools; the tools a closing turn  *)
(* calls are never run, and the run ends at its cap.                       *)
Replied(c) ==
  \/ Goto(c, "answer") /\ UNCHANGED turnVars
  \/ c \notin closing /\ Goto(c, "tools") /\ UNCHANGED turnVars
  \/ c \in closing /\ LeaveLoop(c) /\ UNCHANGED <<iter, closing, busyTurn, fired>>

(* callFailed: an error the provider may recover from is retried after a   *)
(* backoff, or on another provider (bound: no retry past the closing turn, *)
(* where the code counts MaxSameProviderRetries); any other ends the run.  *)
CallFailed(c) ==
  \/ iter[c] <= IterCap /\ Goto(c, "backoff") /\ UNCHANGED turnVars
  \/ LeaveLoop(c) /\ UNCHANGED <<iter, closing, busyTurn, fired>>

(* The model call is stopped with its turn, answered, or fails.            *)
Model(c) ==
  /\ pc[c] = "model"
  /\ \/ TurnStopped(c) /\ FinishTurnCancel(c)
     \/ ~TurnStopped(c) /\ (Replied(c) \/ CallFailed(c))
  /\ UNCHANGED <<clustered, at, next, cancelled, aim, lockVars, rowVars, steerVars>>

(* The backoff of a same-provider retry has passed.                        *)
Backoff(c) ==
  /\ pc[c] = "backoff"
  /\ NextIteration(c)
  /\ UNCHANGED <<clustered, at, next, cancelled, aim,
                 lockVars, rowVars, steerVars, closing, busyTurn, token, fired,
                 owed>>

(* MUTANT: a turn stopped while its tools run goes on to the next one.     *)
NeverStopped(c) == FALSE

(* dispatchTools' own test of the turn's cancel.                           *)
StoppedInTools(c) == TurnStopped(c)

(* The tools have run.                                                     *)
Tools(c) ==
  /\ pc[c] = "tools"
  /\ \/ StoppedInTools(c) /\ FinishTurnCancel(c)
     \/ ~StoppedInTools(c) /\ Goto(c, "boundary") /\ UNCHANGED turnVars
     \/ LeaveLoop(c) /\ UNCHANGED <<iter, closing, busyTurn, fired>>
  /\ UNCHANGED <<clustered, at, next, cancelled, aim, lockVars,
                 rowVars, steerVars>>

(* The turn's end: its token is disarmed.  The last iteration's tools earn *)
(* a closing turn.                                                         *)
Boundary(c) ==
  /\ pc[c] = "boundary"
  /\ token' = [token EXCEPT ![c] = 0]
  /\ closing' = IF iter[c] + 1 = IterCap THEN closing \cup {c} ELSE closing
  /\ NextIteration(c)
  /\ UNCHANGED <<clustered, at, next, cancelled, aim, busyTurn, fired, owed,
                 lockVars, rowVars, steerVars>>

(* agentStop: a hook sends the answer back for another turn; the run fails *)
(* when no iteration is left or the hooks have sent too many back          *)
(* (MaxStopBlocks), and ends when it was cancelled in the hook.            *)
StopBlocked(c) ==
  \/ iter[c] + 1 < IterCap /\ NextIteration(c)
     /\ UNCHANGED <<closing, busyTurn, token, fired, owed>>
  \/ LeaveLoop(c) /\ UNCHANGED <<iter, closing, busyTurn, fired>>

(* finishAnswer: the answer is sent back, or it stands.                    *)
Answer(c) ==
  /\ pc[c] = "answer"
  /\ \/ StopBlocked(c)
     \/ /\ c \in Interactive /\ c \notin closing
        /\ token' = [token EXCEPT ![c] = 0]
        /\ Goto(c, "parking")
        /\ UNCHANGED <<iter, closing, busyTurn, fired, owed>>
     \/ /\ c \notin Interactive \/ c \in closing
        /\ Goto(c, "settle")
        /\ UNCHANGED turnVars
  /\ UNCHANGED <<clustered, at, next, cancelled, aim, lockVars, rowVars, steerVars>>

(* awaiting_input is emitted and parkLock.park lets the advisory lock go.  *)
Park(c) ==
  /\ pc[c] = "parking"
  /\ pg' = IF pg = c THEN None ELSE pg
  /\ owed' = [owed EXCEPT ![c] = "no"]
  /\ Goto(c, "parked")
  /\ UNCHANGED <<clustered, at, current, mutex, refs, held, next,
                 cancelled, aim, rowVars, steerVars, iter, closing,
                 busyTurn, token, fired>>

(* The oldest waiting message becomes the operator's turn.                 *)
TakeMessage(c) ==
  /\ queue[c] # <<>>
  /\ queue' = [queue EXCEPT ![c] = Tail(@)]
  /\ Goto(c, "resume")
  /\ UNCHANGED <<open, closed, unsent>>

(* parkForInput: a message arrives ...                                     *)
Parked(c) ==
  /\ pc[c] = "parked"
  /\ TakeMessage(c)
  /\ UNCHANGED <<clustered, at, next, cancelled, aim,
                 lockVars, rowVars, turnVars>>

(* ... or the idle deadline passes, if there is one.                       *)
IdleDeadline(c) ==
  /\ pc[c] = "parked"
  /\ queue[c] = <<>>
  /\ Goto(c, "idle")
  /\ UNCHANGED steerVars
  /\ UNCHANGED <<clustered, at, next, cancelled, aim,
                 lockVars, rowVars, turnVars>>

(* OnSteer takes the session back for the operator's turn.                 *)
Resume(c) ==
  /\ pc[c] = "resume"
  /\ TakeBack(c)
  /\ NextIteration(c)
  /\ UNCHANGED <<clustered, at, current, mutex, refs, held, next,
                 cancelled, aim, rowVars, steerVars, closing, token, fired,
                 owed>>

(* MUTANT: the queue is closed whether or not a message came in since it   *)
(* was last read.                                                          *)
CloseAnyway(c) == closed' = closed \cup {c}

(* Registry.CloseIfEmpty, under the registry's write lock.                 *)
CloseIfEmpty(c) == queue[c] = <<>> /\ closed' = closed \cup {c}

(* endIdlePark: a message that raced the deadline is taken instead.        *)
EndIdle(c) ==
  /\ pc[c] = "idle"
  /\ \/ /\ CloseIfEmpty(c)
        /\ Goto(c, "mark")
        /\ UNCHANGED <<open, queue, unsent>>
     \/ TakeMessage(c)
  /\ UNCHANGED <<clustered, at, next, cancelled, aim, lockVars,
                 rowVars, turnVars>>

(* settleSteerAtFinish, its drain: a waiting message is answered with one  *)
(* more turn, or named in an error when no iteration is left.  A run with  *)
(* an iteration left has not let the session go, and parkLock.resume has   *)
(* nothing to take back.                                                   *)
Settle(c) ==
  /\ pc[c] = "settle"
  /\ queue' = [queue EXCEPT ![c] = <<>>]
  /\ \/ queue[c] = <<>> /\ Goto(c, "close") /\ UNCHANGED turnVars
     \/ /\ queue[c] # <<>> /\ iter[c] + 1 < IterCap
        /\ token' = [token EXCEPT ![c] = 0]
        /\ NextIteration(c)
        /\ UNCHANGED <<closing, busyTurn, fired, owed>>
     \/ /\ queue[c] # <<>> /\ iter[c] + 1 >= IterCap
        /\ Goto(c, "close")
        /\ UNCHANGED turnVars
  /\ UNCHANGED <<clustered, at, next, cancelled, aim, lockVars, rowVars, open,
                 closed, unsent>>

(* Its close.                                                              *)
Close(c) ==
  /\ pc[c] = "close"
  /\ \/ /\ CloseIfEmpty(c)
        /\ Goto(c, "mark")
     \/ queue[c] # <<>> /\ Goto(c, "settle") /\ UNCHANGED closed
  /\ UNCHANGED <<clustered, at, next, cancelled, aim, lockVars,
                 rowVars, open, queue, unsent, turnVars>>

(* finishingWhenClosed                                                     *)
MarkFinishing(c) ==
  /\ pc[c] = "mark"
  /\ finishing' = IF c \in tracked THEN finishing \cup {c} ELSE finishing
  /\ token' = [token EXCEPT ![c] = 0]
  /\ owed' = [owed EXCEPT ![c] = "no"]
  /\ Goto(c, "finish")
  /\ UNCHANGED <<clustered, at, next, row, ageVars, exists, tracked,
                 cancelled, aim, lockVars, steerVars, iter, closing,
                 busyTurn, fired>>

(* The run's context ended while it waited: the loop returns cancelled.    *)
SeeCancel(c) ==
  /\ pc[c] \in {"model", "backoff", "parked"}
  /\ c \in cancelled
  /\ LeaveLoop(c)
  /\ UNCHANGED <<clustered, at, next, cancelled, aim, lockVars,
                 rowVars, steerVars, iter, closing, busyTurn, fired>>

(***************************************************************************)
(* The end of a run                                                        *)
(***************************************************************************)

(* finishRunWithCancel.  The loop has returned and its locals are gone.    *)
Finish(c) ==
  /\ pc[c] = "finish"
  /\ EndRow(c, {"running"})
  /\ iter' = [iter EXCEPT ![c] = 0]
  /\ fired' = [fired EXCEPT ![c] = FALSE]
  /\ closing' = closing \ {c}
  /\ busyTurn' = busyTurn \ {c}
  /\ Goto(c, "dereg")
  /\ UNCHANGED <<clustered, exists, at, next, aged, overlooked, tracked, finishing,
                 cancelled, aim, token, owed, lockVars, steerVars>>

(* The steer queue goes, and with it whatever is still in it.              *)
Deregister(c) ==
  /\ pc[c] = "dereg"
  /\ open' = open \ {c}
  /\ closed' = closed \ {c}
  /\ queue' = [queue EXCEPT ![c] = <<>>]
  /\ next' = [next EXCEPT ![c] = "done"]
  /\ Goto(c, "release")
  /\ UNCHANGED <<clustered, at, cancelled, aim, unsent, lockVars, rowVars,
                 turnVars>>

(***************************************************************************)
(* Clients                                                                 *)
(***************************************************************************)

(* Registry.Push                                                           *)
Push(m, c) ==
  /\ m \in unsent
  /\ unsent' = unsent \ {m}
  /\ c \in open
  /\ IF c \notin closed /\ Len(queue[c]) < QueueCap
     THEN queue' = [queue EXCEPT ![c] = Append(@, m)]
     ELSE UNCHANGED queue
  /\ UNCHANGED <<clustered, pc, at, next, cancelled, aim,
                 open, closed, lockVars, rowVars, turnVars>>

(* turncancel.Registry.CancelLocal takes the armed token out of the        *)
(* registry under its mutex ...                                            *)
TakeToken(k, c) ==
  /\ aim[k] = <<None, 0>>
  /\ token[c] # 0
  /\ aim' = [aim EXCEPT ![k] = <<c, token[c]>>]
  /\ token' = [token EXCEPT ![c] = 0]
  /\ UNCHANGED <<clustered, pc, at, next, cancelled, iter,
                 closing, busyTurn, fired, owed, lockVars, rowVars, steerVars>>

(* ... and fires it after the unlock, on the turn it belongs to.  From     *)
(* here the caller is told that the turn was stopped.                      *)
FireToken(k) ==
  LET c == aim[k][1]
      mine == aim[k][2] = iter[c] + 1
  IN /\ aim[k][1] # None
     /\ aim' = [aim EXCEPT ![k] = <<None, 0>>]
     /\ IF mine /\ pc[c] \in {"model", "tools", "boundary", "backoff", "answer"}
        THEN /\ fired' = [fired EXCEPT ![c] = TRUE]
             /\ owed' = [owed EXCEPT ![c] =
                           IF pc[c] \in {"model", "tools"} THEN "turn" ELSE "gap"]
        ELSE UNCHANGED <<fired, owed>>
     /\ UNCHANGED <<clustered, pc, at, next, cancelled, iter,
                    closing, busyTurn, token, lockVars, rowVars, steerVars>>

(* The run is cancelled: it leaves the cancel registry at once and its     *)
(* context ends.                                                           *)
CancelRun(c) ==
  /\ pc[c] \in Looping \ {"begin"}
  /\ c \notin cancelled
  /\ cancelled' = cancelled \cup {c}
  /\ UNCHANGED <<clustered, pc, at, next, aim, lockVars,
                 rowVars, steerVars, turnVars>>

(***************************************************************************)
(* Time, and the sweepers                                                  *)
(***************************************************************************)

(* c's row passes the cutoff: queued for that long since it was written,   *)
(* running with no heartbeat for that long, or left behind.  Only the      *)
(* queries of a cluster look at it.                                        *)
Age(c) ==
  /\ clustered
  /\ row[c] \in {"queued", "running"} /\ c \notin aged
  /\ pc[c] # "parked"
  /\ faults > 0 /\ faults' = faults - 1
  /\ aged' = aged \cup {c}
  /\ UNCHANGED <<clustered, exists, pc, at, next, row, unended, overlooked,
                 tracked, finishing, cancelled, aim, lockVars, steerVars, turnVars>>

(* A parked run writes its heartbeat on a ticker.                          *)
Beat(c) ==
  /\ pc[c] = "parked"
  /\ c \in aged
  /\ aged' = Fresh(c)
  /\ UNCHANGED <<clustered, exists, pc, at, next, row, faults, unended, overlooked,
                 tracked, finishing, cancelled, aim, lockVars, steerVars, turnVars>>

(* The row is ended by somebody else: queued, by whoever cancels the run   *)
(* through its row or by the sweeper of gone replicas; running without a   *)
(* heartbeat, by the heartbeat sweeper.                                    *)
EndElsewhere(c) ==
  /\ row[c] = "queued" \/ (row[c] = "running" /\ c \in aged)
  /\ row' = [row EXCEPT ![c] = "ended"]
  /\ UNCHANGED <<clustered, exists, pc, at, next, ageVars, tracked, finishing,
                 cancelled, aim, lockVars, steerVars, turnVars>>

(***************************************************************************)
(* Specification                                                           *)
(***************************************************************************)

Take(c)  == TryLock(c) \/ TryCluster(c) \/ Check(c) \/ Busy(c)
LetSessionGo(c) == ReleaseCluster(c) \/ Unlock(c) \/ Unref(c) \/ Untrack(c)
Start(c) == \/ Admit(c) \/ LetGo(c) \/ CreateSession(c) \/ QueueRow(c) \/ Dequeue(c)
            \/ Retake(c) \/ Recheck(c) \/ StartRow(c) \/ Begin(c) \/ Track(c)
            \/ Ask(c)
Loop(c)  == \/ Top(c) \/ TopLeaves(c) \/ CapReached(c) \/ Arm(c) \/ Model(c) \/ Backoff(c)
            \/ Tools(c) \/ Boundary(c) \/ Answer(c) \/ Park(c) \/ Parked(c) \/ Resume(c)
            \/ EndIdle(c) \/ Settle(c) \/ Close(c) \/ MarkFinishing(c)
            \/ SeeCancel(c) \/ Finish(c) \/ Deregister(c)
Step(c)  == Take(c) \/ LetSessionGo(c) \/ Start(c) \/ Loop(c)

Next ==
  \/ \E c \in Calls : Arrive(c) \/ Step(c) \/ IdleDeadline(c) \/ CancelRun(c)
  \/ \E c \in Calls : Age(c) \/ Beat(c) \/ EndElsewhere(c)
  \/ \E x \in Replicas : GC(x)
  \/ \E m \in Messages, c \in Calls : Push(m, c)
  \/ \E k \in DOMAIN aim, c \in Calls : TakeToken(k, c)
  \/ \E k \in DOMAIN aim : FireToken(k)

Spec == Init /\ [][Next]_vars

(***************************************************************************)
(* Properties                                                              *)
(***************************************************************************)

(* Every variable has its type.                                            *)
TypeOK ==
  /\ clustered \in BOOLEAN /\ exists \in BOOLEAN
  /\ pc \in [Calls -> Points]
  /\ at \in [Calls -> Replicas]
  /\ current \in [Replicas -> Numbers \cup {0}]
  /\ mutex \in [Entries -> Calls \cup {None}]
  /\ refs \in [Entries -> Nat]
  /\ held \in [Calls -> Numbers \cup {0}]
  /\ pg \in Calls \cup {None}
  /\ next \in [Calls -> {"busy", "refused", "done"}]
  /\ row \in [Calls -> {"none", "queued", "running", "ended"}]
  /\ faults \in Nat
  /\ aged \subseteq Calls /\ unended \subseteq Calls /\ overlooked \subseteq Calls
  /\ tracked \subseteq Calls /\ finishing \subseteq Calls /\ cancelled \subseteq Calls
  /\ open \subseteq Calls /\ closed \subseteq Calls
  /\ queue \in [Calls -> Seq(Messages)]
  /\ unsent \subseteq Messages
  /\ iter \in [Calls -> Nat]
  /\ closing \subseteq Calls /\ busyTurn \subseteq Calls
  /\ token \in [Calls -> Nat] /\ fired \in [Calls -> BOOLEAN]
  /\ DOMAIN aim \subseteq Cancellers
  /\ aim \in [DOMAIN aim -> (Calls \cup {None}) \X Nat]
  /\ owed \in [Calls -> {"no", "turn", "gap"}]

(* The call has the session's lock on its replica: it took the entry's     *)
(* mutex and has not given it back.                                        *)
HoldsLocal(c) == held[c] # 0 /\ pc[c] # "unref"

(* Two calls never have the session's in-process lock on one replica at    *)
(* the same time, however the collector and the two halves of a release    *)
(* interleave with them.                                                   *)
LocalLockExclusive ==
  \A c, d \in Calls : c # d /\ HoldsLocal(c) /\ HoldsLocal(d) => at[c] # at[d]

(* The run has started and its loop has not returned.                      *)
Live(c) == pc[c] \in {"finish"} \cup Looping

(* Two runs of a session are live at the same time only when a check could *)
(* not see one of them: it was the session's first run, which holds no     *)
(* lock, and had no row yet or a queued row past the cutoff; or its        *)
(* heartbeat was past it.  A queued continuation, or a parked one with a   *)
(* fresh heartbeat, is never joined, although it has let the advisory lock *)
(* go.  Without the cluster lock the rule is among continuations.          *)
OneLiveRun ==
  \A c, d \in Calls :
    c # d /\ Live(c) /\ Live(d) =>
      \/ c \in overlooked \/ d \in overlooked
      \/ ~clustered /\ (held[c] = 0 \/ held[d] = 0)

(* "The one-live-turn rule for a moment the session's cluster lock may be  *)
(* let go": with the cluster lock a session never has two live runs.  It   *)
(* does not hold.                                                          *)
NeverTwoLive ==
  \A c, d \in Calls : c # d /\ Live(c) /\ Live(d) => ~clustered

(* A call that is over has given back what it took of the session, on      *)
(* every path: refused at any step up to its first turn, on a failing      *)
(* statement, a taken agent id, its caller's or its budget's no, or after  *)
(* its run.  Only the row can stay behind, when the statement that ends it *)
(* failed, or StartQueuedRun did after its update.                         *)
SessionReturned ==
  \A c \in Calls :
    pc[c] \in Over =>
      /\ pg # c /\ held[c] = 0 /\ c \notin tracked /\ c \notin open
      /\ \A e \in Entries : mutex[e] # c
      /\ row[c] \in {"none", "ended"} \/ c \in unended

(* A run that closes its queue, on its answer or its idle deadline, has    *)
(* read every message it accepted, and accepts none after its last read:   *)
(* the queue stays empty until the run is deregistered.                    *)
AcceptedIsRead == \A c \in closed : queue[c] = <<>>

(* A turn cancel that fired while the model or the tools were running      *)
(* stops the run before it starts another turn, unless the whole run is    *)
(* being cancelled as well.                                                *)
CancelInTurnStops ==
  \A c \in Calls : pc[c] = "arm" => owed[c] # "turn" \/ c \in cancelled

(* "Firing the token ... stops the current turn's model call + tool        *)
(* dispatch and parks the run at awaiting_input": the run never starts     *)
(* another turn on a cancel that was reported fired, unless the whole run  *)
(* is being cancelled as well.  It does not hold.                          *)
CancelStopsTurn ==
  \A c \in Calls : pc[c] = "arm" => owed[c] = "no" \/ c \in cancelled
=============================================================================
