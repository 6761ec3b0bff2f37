---------------------------- MODULE PauseCluster ----------------------------
(***************************************************************************)
(* The runtime pause: one pause.Manager per replica (internal/pause), the  *)
(* pause gate of each run (internal/api/http/pause_gate.go, the boundary   *)
(* and the idle park of internal/loop), the shared runtime_state row and   *)
(* the notification backplane.  Clustered = FALSE is the single-replica    *)
(* mode: no row, no backplane.                                             *)
(*                                                                         *)
(* Every critical section of Manager.mu, every database statement and     *)
(* every notification is one action.  Channels are modelled by what their *)
(* holders can tell: pauseClosed says whether the manager's current       *)
(* pauseCh is closed, and hears[r] whether the channel run r selects on is *)
(* the manager's current one, one that was closed, or ("dead") one that   *)
(* was replaced without ever being closed.                                 *)
(***************************************************************************)
EXTENDS Naturals, Sequences, FiniteSets

CONSTANTS
    Replicas, Runs,
    Clustered,   \* TRUE: row and backplane are installed
    Ops,         \* the operator calls that happen: Pause, Resume, Shutdown
    Faults,      \* "lost": dropped notifications; "row": failing statements on
                 \* the row; "persist": failing statements on runs.pause_state
    MaxCalls     \* bound: operator calls in a behaviour

ASSUME SingleReplica == Clustered \/ \E m \in Replicas : Replicas = {m}
ASSUME ReplicasNonEmpty == Replicas # {}
ASSUME ClusteredIsBoolean == Clustered \in BOOLEAN
ASSUME MaxCallsIsNat == MaxCalls \in Nat

VARIABLES
    state,       \* Manager.state
    pauseClosed, \* the current pauseCh is closed
    shutdown,    \* Manager.shutdown
    interrupted, \* Manager.toolsInterrupted
    cache,       \* stateCacheValue, or "expired"
    refresh,     \* what a State() call in progress read from the row, or "none"
    stored,      \* ... once it is in the state word, not yet in the cache
    pauseCall,   \* where the Pause call in flight is
    resumeCall,  \* where the Resume call in flight is
    flips,       \* the rows that Resume call has yet to flip
    shutdownCall,\* where PauseForShutdown is
    clean,       \* the last Pause returned with every run parked
    inbox,       \* notifications on their way to each replica
    row,         \* runtime_state.state
    at, home,    \* where each run is, and on which replica
    idle,        \* the run parks where it waits (PauseIdle), not at a boundary
    next,        \* what it does once it has left its park
    parked,      \* runEntry.parked
    durable,     \* the run's row says pause_state = 'paused'
    hears,       \* the channel the run selects on
    stopped,     \* runEntry.interrupt is cancelled
    calls,       \* operator calls so far
    wanted,      \* history: what the last accepted Pause or Resume asked for
    panicked     \* a closed channel was closed again

manager == <<state, pauseClosed, shutdown, interrupted>>
caching == <<cache, refresh, stored>>
opcalls == <<pauseCall, resumeCall, flips, shutdownCall, clean, calls, wanted>>
wire == <<inbox, row>>
runVars == <<at, home, idle, next, parked, durable, hears, stopped>>
vars == <<manager, caching, opcalls, wire, runVars, panicked>>

States == {"running", "pausing", "paused"}

Phases == {"gone",
           "admitted",  \* passed the admission gate, not yet registered
           "stored",    \* in activeRuns, toolsInterrupted not yet read
           "boundary",  \* at the top of an iteration
           "begin",     \* about to call BeginPark
           "persist",   \* about to write pause_state = 'paused'
           "mark",      \* about to call MarkParked
           "parked",    \* selecting on the resume channel
           "leaving",   \* about to call EndPark
           "unset",     \* about to write pause_state = 'running'
           "busy",      \* inside a turn
           "waiting"}   \* waiting for a message, selecting on pauseCh

Registered(r) == at[r] \notin {"gone", "admitted"}

RunsAt(m) == {r \in Runs : Registered(r) /\ home[r] = m}

\* What State() may answer now, without a refresh.  A failed read serves the
\* in-process state.
Answers(m) ==
    IF shutdown[m] \/ ~Clustered THEN {state[m]}
    ELSE IF cache[m] # "expired" THEN {cache[m]}
    ELSE IF "row" \in Faults THEN {state[m]} ELSE {}

runsQuiesced(m) == \A r \in RunsAt(m) : parked[r]
-----------------------------------------------------------------------------
Init ==
    /\ state = [m \in Replicas |-> "running"]
    /\ pauseClosed = [m \in Replicas |-> FALSE]
    /\ shutdown = [m \in Replicas |-> FALSE]
    /\ interrupted = [m \in Replicas |-> FALSE]
    /\ cache = [m \in Replicas |-> "expired"]
    /\ refresh = [m \in Replicas |-> "none"]
    /\ stored = [m \in Replicas |-> "none"]
    /\ pauseCall = [m \in Replicas |-> "none"]
    /\ resumeCall = [m \in Replicas |-> "none"]
    /\ flips = [m \in Replicas |-> {}]
    /\ shutdownCall = [m \in Replicas |-> "none"]
    /\ clean = [m \in Replicas |-> FALSE]
    /\ inbox = [m \in Replicas |-> <<>>]
    /\ row = "running"
    /\ at = [r \in Runs |-> "gone"]
    /\ home = [r \in Runs |-> CHOOSE m \in Replicas : TRUE]
    /\ idle = [r \in Runs |-> FALSE]
    /\ next = [r \in Runs |-> "gone"]
    /\ parked = [r \in Runs |-> FALSE]
    /\ durable = [r \in Runs |-> FALSE]
    /\ hears = [r \in Runs |-> "none"]
    /\ stopped = [r \in Runs |-> FALSE]
    /\ calls = 0 /\ wanted = "running" /\ panicked = FALSE

SetState(m, s) == state' = [state EXCEPT ![m] = s]

Expired(m) == cache' = [cache EXCEPT ![m] = "expired"]

\* close(m.pauseCh): closing it twice panics.
ClosePauseCh(m) ==
    /\ pauseClosed' = [pauseClosed EXCEPT ![m] = TRUE]
    /\ panicked' = (panicked \/ pauseClosed[m])

\* A fresh pauseCh; resumeCh closed and replaced.  Shared by Resume and
\* applyRemoteResume.
NewChannels(m) ==
    /\ pauseClosed' = [pauseClosed EXCEPT ![m] = FALSE]
    /\ hears' = [r \in Runs |->
          IF home[r] = m /\ hears[r] = "current"
          THEN IF at[r] = "waiting" /\ ~pauseClosed[m] THEN "dead" ELSE "closed"
          ELSE hears[r]]

\* A notification to every other replica: the publisher's own is filtered.
Publish(m, e) ==
    inbox' = [n \in Replicas |-> IF n = m THEN inbox[n] ELSE Append(inbox[n], e)]

SetRow(s) == row' = s \/ ("row" \in Faults /\ row' = row)
-----------------------------------------------------------------------------
\* State() in cluster mode: the cache expires, a caller reads the row, stores
\* it in the state word under mu, and then in the cache.  (Bound: one refresh
\* in flight per replica.)
ExpireCache(m) ==
    /\ Clustered /\ cache[m] # "expired" /\ Expired(m)
    /\ UNCHANGED <<manager, refresh, stored, opcalls, wire, runVars, panicked>>

RefreshRead(m) ==
    /\ Clustered /\ ~shutdown[m] /\ cache[m] = "expired"
    /\ refresh[m] = "none" /\ stored[m] = "none"
    /\ refresh' = [refresh EXCEPT ![m] = row]
    /\ UNCHANGED <<manager, cache, stored, opcalls, wire, runVars, panicked>>

\* Mutant: the shutdown flag is not looked at again under mu.
RefreshStoreMutant(m) ==
    /\ refresh[m] # "none"
    /\ SetState(m, refresh[m])
    /\ stored' = [stored EXCEPT ![m] = refresh[m]]
    /\ refresh' = [refresh EXCEPT ![m] = "none"]
    /\ UNCHANGED <<pauseClosed, shutdown, interrupted, cache, opcalls, wire,
                   runVars, panicked>>

\* Mutant: only the cache is refreshed.
RefreshStoreCacheMutant(m) ==
    /\ refresh[m] # "none"
    /\ refresh' = [refresh EXCEPT ![m] = "none"]
    /\ stored' = [stored EXCEPT ![m] = refresh[m]]
    /\ UNCHANGED <<manager, cache, opcalls, wire, runVars, panicked>>

RefreshStore(m) ==
    /\ refresh[m] # "none"
    /\ refresh' = [refresh EXCEPT ![m] = "none"]
    /\ IF shutdown[m] THEN UNCHANGED <<state, stored>>
       ELSE /\ SetState(m, refresh[m])
            /\ stored' = [stored EXCEPT ![m] = refresh[m]]
    /\ UNCHANGED <<pauseClosed, shutdown, interrupted, cache, opcalls, wire,
                   runVars, panicked>>

RefreshCache(m) ==
    /\ stored[m] # "none"
    /\ cache' = [cache EXCEPT ![m] = stored[m]]
    /\ stored' = [stored EXCEPT ![m] = "none"]
    /\ UNCHANGED <<manager, refresh, opcalls, wire, runVars, panicked>>
-----------------------------------------------------------------------------
Call(o) == o \in Ops /\ calls < MaxCalls /\ calls' = calls + 1

\* Pause, the section that declares it.  Anything but running refuses it.
\* (Bound: one Pause and one Resume call in flight per replica.)
Pause(m) ==
    /\ Call("Pause") /\ pauseCall[m] = "none" /\ state[m] = "running"
    /\ SetState(m, "pausing") /\ ClosePauseCh(m)
    /\ pauseCall' = [pauseCall EXCEPT ![m] = IF Clustered THEN "declared" ELSE "barrier"]
    /\ wanted' = "paused"
    /\ UNCHANGED <<shutdown, interrupted, caching, resumeCall, flips, shutdownCall,
                   clean, wire, runVars>>

PauseSetRow(m) ==
    /\ pauseCall[m] = "declared" /\ SetRow("pausing")
    /\ pauseCall' = [pauseCall EXCEPT ![m] = "written"]
    /\ UNCHANGED <<manager, caching, resumeCall, flips, shutdownCall, clean, calls,
                   wanted, inbox, runVars, panicked>>

\* The publish and the invalidation of this replica's cache.
PausePublish(m) ==
    /\ pauseCall[m] = "written" /\ Publish(m, "pause") /\ Expired(m)
    /\ pauseCall' = [pauseCall EXCEPT ![m] = "barrier"]
    /\ UNCHANGED <<manager, refresh, stored, resumeCall, flips, shutdownCall, clean,
                   calls, wanted, row, runVars, panicked>>

\* The wait for the runs: all are parked, or the deadline or the caller ends it.
PauseBarrier(m) ==
    /\ pauseCall[m] = "barrier"
    /\ \/ runsQuiesced(m) /\ clean' = [clean EXCEPT ![m] = TRUE]
       \/ ~runsQuiesced(m) /\ clean' = [clean EXCEPT ![m] = FALSE]
    /\ pauseCall' = [pauseCall EXCEPT ![m] = "final"]
    /\ UNCHANGED <<manager, caching, resumeCall, flips, shutdownCall, calls, wanted,
                   wire, runVars, panicked>>

\* Mutant: the pause never becomes final.
finalizePauseMutant(m) ==
    /\ pauseCall[m] = "final" /\ Expired(m)
    /\ pauseCall' = [pauseCall EXCEPT ![m] = IF Clustered THEN "finalRow" ELSE "none"]
    /\ UNCHANGED <<manager, refresh, stored, resumeCall,
                   flips, shutdownCall, clean, calls, wanted, wire, runVars, panicked>>

\* finalizePause: the state word, whatever it holds by now.
finalizePause(m) ==
    /\ pauseCall[m] = "final" /\ SetState(m, "paused") /\ Expired(m)
    /\ pauseCall' = [pauseCall EXCEPT ![m] = IF Clustered THEN "finalRow" ELSE "none"]
    /\ UNCHANGED <<pauseClosed, shutdown, interrupted, refresh, stored, resumeCall,
                   flips, shutdownCall, clean, calls, wanted, wire, runVars, panicked>>

FinalizeRow(m) ==
    /\ pauseCall[m] = "finalRow" /\ SetRow("paused")
    /\ pauseCall' = [pauseCall EXCEPT ![m] = "none"]
    /\ UNCHANGED <<manager, caching, resumeCall, flips, shutdownCall, clean, calls,
                   wanted, inbox, runVars, panicked>>
-----------------------------------------------------------------------------
\* Resume: a first look at the state, the list of paused runs, then the section
\* that wakes them.
ResumeCheck(m) ==
    /\ Call("Resume") /\ resumeCall[m] = "none"
    /\ state[m] = "paused" /\ ~shutdown[m]
    /\ resumeCall' = [resumeCall EXCEPT ![m] = "checked"]
    /\ UNCHANGED <<manager, caching, pauseCall, flips, shutdownCall, clean, wanted,
                   wire, runVars, panicked>>

ListPausedRuns(m) ==
    /\ resumeCall[m] = "checked"
    /\ \/ flips' = [flips EXCEPT ![m] = {r \in Runs : durable[r]}]
       \/ "persist" \in Faults /\ UNCHANGED flips
    /\ resumeCall' = [resumeCall EXCEPT ![m] = "listed"]
    /\ UNCHANGED <<manager, caching, pauseCall, shutdownCall, clean, calls, wanted,
                   wire, runVars, panicked>>

Resume(m) ==
    /\ resumeCall[m] = "listed"
    /\ \/ /\ state[m] # "paused" \/ shutdown[m]
          /\ resumeCall' = [resumeCall EXCEPT ![m] = "none"]
          /\ flips' = [flips EXCEPT ![m] = {}]
          /\ UNCHANGED <<state, pauseClosed, hears, cache, wanted>>
       \/ /\ state[m] = "paused" /\ ~shutdown[m]
          /\ NewChannels(m) /\ SetState(m, "running") /\ Expired(m)
          /\ resumeCall' = [resumeCall EXCEPT ![m] = IF Clustered THEN "woken" ELSE "flipping"]
          /\ wanted' = "running"
          /\ UNCHANGED flips
    /\ UNCHANGED <<shutdown, interrupted, refresh, stored, pauseCall, shutdownCall,
                   clean, calls, wire, at, home, idle, next, parked, durable, stopped,
                   panicked>>

ResumeSetRow(m) ==
    /\ resumeCall[m] = "woken" /\ SetRow("running")
    /\ resumeCall' = [resumeCall EXCEPT ![m] = "written"]
    /\ UNCHANGED <<manager, caching, pauseCall, flips, shutdownCall, clean, calls,
                   wanted, inbox, runVars, panicked>>

ResumePublish(m) ==
    /\ resumeCall[m] = "written" /\ Publish(m, "resume")
    /\ resumeCall' = [resumeCall EXCEPT ![m] = "flipping"]
    /\ UNCHANGED <<manager, caching, pauseCall, flips, shutdownCall, clean, calls,
                   wanted, row, runVars, panicked>>

\* The rows of the listed runs go back to running, one by one; in a cluster only
\* the rows of runs this process holds.
FlipRow(m, r) ==
    /\ resumeCall[m] = "flipping" /\ r \in flips[m]
    /\ flips' = [flips EXCEPT ![m] = @ \ {r}]
    /\ \/ durable' = [durable EXCEPT ![r] = @ /\ Clustered /\ r \notin RunsAt(m)]
       \/ "persist" \in Faults /\ UNCHANGED durable
    /\ UNCHANGED <<manager, caching, pauseCall, resumeCall, shutdownCall, clean, calls,
                   wanted, wire, at, home, idle, next, parked, hears, stopped, panicked>>

ResumeReturn(m) ==
    /\ resumeCall[m] = "flipping" /\ flips[m] = {}
    /\ resumeCall' = [resumeCall EXCEPT ![m] = "none"]
    /\ UNCHANGED <<manager, caching, pauseCall, flips, shutdownCall, clean, calls,
                   wanted, wire, runVars, panicked>>
-----------------------------------------------------------------------------
\* The subscriber's goroutine: one notification at a time, or none arrives.
applyRemotePause(m) ==
    /\ inbox[m] # <<>> /\ Head(inbox[m]) = "pause"
    /\ inbox' = [inbox EXCEPT ![m] = Tail(@)]
    /\ IF state[m] = "running"
       THEN SetState(m, "paused") /\ ClosePauseCh(m) /\ Expired(m)
       ELSE UNCHANGED <<state, pauseClosed, panicked, cache>>
    /\ UNCHANGED <<shutdown, interrupted, refresh, stored, opcalls, row, runVars>>

applyRemoteResume(m) ==
    /\ inbox[m] # <<>> /\ Head(inbox[m]) = "resume"
    /\ inbox' = [inbox EXCEPT ![m] = Tail(@)]
    /\ IF state[m] # "running" /\ ~shutdown[m]
       THEN NewChannels(m) /\ SetState(m, "running") /\ Expired(m)
       ELSE UNCHANGED <<state, pauseClosed, hears, cache>>
    /\ UNCHANGED <<shutdown, interrupted, refresh, stored, opcalls, row, at, home, idle,
                   next, parked, durable, stopped, panicked>>

\* The subscriber's buffer is full, or its connection was down.
LoseEvent(m) ==
    /\ "lost" \in Faults /\ inbox[m] # <<>>
    /\ inbox' = [inbox EXCEPT ![m] = Tail(@)]
    /\ UNCHANGED <<manager, caching, opcalls, row, runVars, panicked>>
-----------------------------------------------------------------------------
\* PauseForShutdown: local, never lifted.
PauseForShutdown(m) ==
    /\ Call("Shutdown") /\ shutdownCall[m] = "none"
    /\ shutdown' = [shutdown EXCEPT ![m] = TRUE]
    /\ IF state[m] = "running" THEN SetState(m, "pausing") /\ ClosePauseCh(m)
       ELSE UNCHANGED <<state, pauseClosed, panicked>>
    /\ Expired(m)
    /\ shutdownCall' = [shutdownCall EXCEPT ![m] = "waiting"]
    /\ UNCHANGED <<interrupted, refresh, stored, pauseCall, resumeCall, flips, clean,
                   wanted, wire, runVars>>

\* Mutant: the flag for the runs that register later is not set.
InterruptFlagMutant(m) ==
    /\ shutdownCall[m] = "waiting" /\ ~runsQuiesced(m)
    /\ shutdownCall' = [shutdownCall EXCEPT ![m] = "interrupting"]
    /\ UNCHANGED <<manager, caching, pauseCall, resumeCall, flips, clean, calls, wanted,
                   wire, runVars, panicked>>

\* Three quarters of the bound have passed: interruptUnparkedTools sets the flag,
\* then goes over the registered runs.
InterruptFlag(m) ==
    /\ shutdownCall[m] = "waiting" /\ ~runsQuiesced(m)
    /\ interrupted' = [interrupted EXCEPT ![m] = TRUE]
    /\ shutdownCall' = [shutdownCall EXCEPT ![m] = "interrupting"]
    /\ UNCHANGED <<state, pauseClosed, shutdown, caching, pauseCall, resumeCall, flips,
                   clean, calls, wanted, wire, runVars, panicked>>

interruptUnparkedTools(m) ==
    /\ shutdownCall[m] = "interrupting"
    /\ stopped' = [r \in Runs |-> stopped[r] \/ (r \in RunsAt(m) /\ ~parked[r])]
    /\ shutdownCall' = [shutdownCall EXCEPT ![m] = "interrupted"]
    /\ UNCHANGED <<manager, caching, pauseCall, resumeCall, flips, clean, calls, wanted,
                   wire, at, home, idle, next, parked, durable, hears, panicked>>

ShutdownDone(m) ==
    /\ \/ shutdownCall[m] = "waiting" /\ runsQuiesced(m)
       \/ shutdownCall[m] = "interrupted"
    /\ SetState(m, "paused") /\ Expired(m)
    /\ shutdownCall' = [shutdownCall EXCEPT ![m] = "done"]
    /\ UNCHANGED <<pauseClosed, shutdown, interrupted, refresh, stored, pauseCall,
                   resumeCall, flips, clean, calls, wanted, wire, runVars, panicked>>
-----------------------------------------------------------------------------
Move(r, p) == at' = [at EXCEPT ![r] = p]

notRuns == <<manager, caching, opcalls, wire, panicked>>

\* runtimePaused, the admission gate.
AdmitRun(r, m) ==
    /\ at[r] = "gone" /\ ~durable[r] /\ "running" \in Answers(m)
    /\ Move(r, "admitted") /\ home' = [home EXCEPT ![r] = m]
    /\ UNCHANGED <<notRuns, idle, next, parked, durable, hears, stopped>>

\* RegisterRun: the entry is stored before the interrupt flag is read.
RegisterRun(r) ==
    /\ \/ /\ at[r] = "admitted" /\ Move(r, "stored")
          /\ stopped' = [stopped EXCEPT ![r] = FALSE]
       \/ /\ at[r] = "stored" /\ Move(r, "boundary")
          /\ stopped' = [stopped EXCEPT ![r] = @ \/ interrupted[home[r]]]
    /\ UNCHANGED <<notRuns, home, idle, next, parked, durable, hears>>

\* PauseRequested, at the top of an iteration.
PauseRequested(r) ==
    /\ at[r] = "boundary"
    /\ \E s \in Answers(home[r]) : Move(r, IF s = "running" THEN "busy" ELSE "begin")
    /\ idle' = [idle EXCEPT ![r] = FALSE]
    /\ UNCHANGED <<notRuns, home, next, parked, durable, hears, stopped>>

\* The turn ends: another iteration, a wait for the next message, or the end.
TurnEnds(r) ==
    /\ at[r] = "busy"
    /\ \/ Move(r, "boundary") /\ UNCHANGED hears
       \/ Move(r, "waiting") /\ hears' = [hears EXCEPT ![r] = "current"]
       \/ Move(r, "gone") /\ UNCHANGED hears
    /\ UNCHANGED <<notRuns, home, idle, next, parked, durable, stopped>>

HearsPause(r) ==
    hears[r] = "closed" \/ (hears[r] = "current" /\ pauseClosed[home[r]])

\* A waiting run: the pause channel fires, or its message (or end) comes.
WaitEnds(r) ==
    /\ at[r] = "waiting"
    /\ hears' = [hears EXCEPT ![r] = "none"]
    /\ \/ HearsPause(r) /\ Move(r, "begin") /\ idle' = [idle EXCEPT ![r] = TRUE]
       \/ Move(r, "boundary") /\ UNCHANGED idle
       \/ Move(r, "gone") /\ UNCHANGED idle
    /\ UNCHANGED <<notRuns, home, next, parked, durable, stopped>>

\* Mutant: the state is not looked at again under mu.
BeginParkMutant(r) ==
    /\ at[r] = "begin"
    /\ Move(r, "persist")
    /\ hears' = [hears EXCEPT ![r] = "current"]
    /\ UNCHANGED <<notRuns, home, idle, next, parked, durable, stopped>>

\* BeginPark re-checks the state under mu.  Lifted: the loop goes on with its
\* iteration, a waiting run selects on the pause channel again.
BeginPark(r) ==
    /\ at[r] = "begin"
    /\ LET running == state[home[r]] = "running"
       IN  /\ Move(r, IF ~running THEN "persist" ELSE IF idle[r] THEN "waiting" ELSE "busy")
           /\ hears' = [hears EXCEPT ![r] = IF running /\ ~idle[r] THEN "none" ELSE "current"]
           /\ idle' = [idle EXCEPT ![r] = @ /\ ~running]
    /\ UNCHANGED <<notRuns, home, next, parked, durable, stopped>>

\* pause_state = 'paused', durably, before the barrier is credited; a failed
\* write parks without credit.
PersistPaused(r) ==
    /\ at[r] = "persist"
    /\ \/ Move(r, "mark") /\ durable' = [durable EXCEPT ![r] = TRUE]
       \/ "persist" \in Faults /\ Move(r, "parked") /\ UNCHANGED durable
    /\ UNCHANGED <<notRuns, home, idle, next, parked, hears, stopped>>

MarkParked(r) ==
    /\ at[r] = "mark" /\ Move(r, "parked")
    /\ parked' = [parked EXCEPT ![r] = TRUE]
    /\ UNCHANGED <<notRuns, home, idle, next, durable, hears, stopped>>

\* The park ends: resumed, ended by its ctx, or (a waiting run) by its message.
ParkEnds(r) ==
    /\ at[r] = "parked" /\ Move(r, "leaving")
    /\ \/ /\ hears[r] = "closed"
          /\ next' = [next EXCEPT ![r] = IF idle[r] THEN "waiting" ELSE "busy"]
       \/ next' = [next EXCEPT ![r] = "gone"]
       \/ idle[r] /\ next' = [next EXCEPT ![r] = "boundary"]
    /\ UNCHANGED <<notRuns, home, idle, parked, durable, hears, stopped>>

EndPark(r) ==
    /\ at[r] = "leaving" /\ Move(r, "unset")
    /\ parked' = [parked EXCEPT ![r] = FALSE]
    /\ UNCHANGED <<notRuns, home, idle, next, durable, hears, stopped>>

SetRunning(r) ==
    /\ at[r] = "unset" /\ Move(r, next[r])
    /\ \/ durable' = [durable EXCEPT ![r] = FALSE]
       \/ "persist" \in Faults /\ UNCHANGED durable
    /\ hears' = [hears EXCEPT ![r] = IF next[r] = "waiting" THEN "current" ELSE "none"]
    /\ next' = [next EXCEPT ![r] = "gone"] /\ idle' = [idle EXCEPT ![r] = FALSE]
    /\ UNCHANGED <<notRuns, home, parked, stopped>>
-----------------------------------------------------------------------------
Refresh(m) == RefreshRead(m) \/ RefreshStore(m) \/ RefreshCache(m)

Deliver(m) == applyRemotePause(m) \/ applyRemoteResume(m)

\* The steps of a call once it was accepted.
CallStep(m) ==
    \/ PauseSetRow(m) \/ PausePublish(m) \/ PauseBarrier(m)
    \/ finalizePause(m) \/ FinalizeRow(m)
    \/ ListPausedRuns(m) \/ Resume(m) \/ ResumeSetRow(m) \/ ResumePublish(m)
    \/ (\E r \in Runs : FlipRow(m, r)) \/ ResumeReturn(m)
    \/ InterruptFlag(m) \/ interruptUnparkedTools(m) \/ ShutdownDone(m)

Operator(m) == Pause(m) \/ ResumeCheck(m) \/ PauseForShutdown(m)

\* A run's steps through registration and park, which nothing but the code
\* itself delays.
GateStep(r) ==
    \/ RegisterRun(r) \/ PauseRequested(r) \/ BeginPark(r) \/ PersistPaused(r)
    \/ MarkParked(r) \/ EndPark(r) \/ SetRunning(r)

Next ==
    \/ \E m \in Replicas : \/ ExpireCache(m) \/ Refresh(m) \/ Deliver(m) \/ LoseEvent(m)
                           \/ Operator(m) \/ CallStep(m)
    \/ \E r \in Runs : \/ \E m \in Replicas : AdmitRun(r, m)
                       \/ GateStep(r) \/ TurnEnds(r) \/ WaitEnds(r) \/ ParkEnds(r)

Spec == Init /\ [][Next]_vars
-----------------------------------------------------------------------------
Parking == {"persist", "mark", "parked"}

TypeOK ==
    /\ state \in [Replicas -> States]
    /\ pauseClosed \in [Replicas -> BOOLEAN]
    /\ shutdown \in [Replicas -> BOOLEAN]
    /\ interrupted \in [Replicas -> BOOLEAN]
    /\ cache \in [Replicas -> States \cup {"expired"}]
    /\ refresh \in [Replicas -> States \cup {"none"}]
    /\ stored \in [Replicas -> States \cup {"none"}]
    /\ pauseCall \in [Replicas -> {"none", "declared", "written", "barrier", "final",
                                   "finalRow"}]
    /\ resumeCall \in [Replicas -> {"none", "checked", "listed", "woken", "written",
                                    "flipping"}]
    /\ shutdownCall \in [Replicas -> {"none", "waiting", "interrupting", "interrupted",
                                      "done"}]
    /\ flips \in [Replicas -> SUBSET Runs]
    /\ clean \in [Replicas -> BOOLEAN]
    /\ inbox \in [Replicas -> Seq({"pause", "resume"})]
    /\ row \in States
    /\ at \in [Runs -> Phases] /\ home \in [Runs -> Replicas]
    /\ idle \in [Runs -> BOOLEAN] /\ next \in [Runs -> Phases]
    /\ parked \in [Runs -> BOOLEAN] /\ durable \in [Runs -> BOOLEAN]
    /\ hears \in [Runs -> {"none", "current", "closed", "dead"}]
    /\ stopped \in [Runs -> BOOLEAN]
    /\ calls \in 0..MaxCalls /\ wanted \in {"running", "paused"}
    /\ panicked \in BOOLEAN

\* The state word and the two channels agree, at every step of every overlap of
\* Pause, Resume and PauseForShutdown: the pause channel is closed exactly while
\* the runtime is not running, no run waits for a resume of a running
\* runtime, no waiting run listens to a channel that will never close, and no
\* channel is closed twice (Manager.pauseCh, resumeCh).  Single replica.
SignalsMatchState ==
    /\ \A m \in Replicas : pauseClosed[m] <=> state[m] # "running"
    /\ \A r \in Runs :
          at[r] \in Parking /\ hears[r] = "current" => state[home[r]] # "running"
    /\ \A r \in Runs : hears[r] # "dead"
    /\ ~panicked

\* A shutdown pause is never lifted: not by a resume that had begun before it,
\* not by another replica's, and not by a refresh that read the row before it
\* (PauseForShutdown "Once begun it is never lifted").
ShutdownSticks == \A m \in Replicas : shutdown[m] => state[m] # "running"

\* A run that registers while a shutdown interrupts the tool calls is not missed:
\* either the sweep finds its entry or it finds the flag ("an interrupt racing
\* this either sees the entry or is seen here", RegisterRun and
\* interruptUnparkedTools, which share no lock).
InterruptReachesAll ==
    [][\A r \in Runs :
          /\ at[r] = "stored" /\ at'[r] = "boundary"
          /\ shutdownCall[home[r]] = "interrupted"
          => stopped'[r]]_vars

\* No call, notification or refresh is under way.
Quiet ==
    \A m \in Replicas : /\ pauseCall[m] = "none" /\ resumeCall[m] = "none"
                        /\ inbox[m] = <<>> /\ refresh[m] = "none" /\ stored[m] = "none"

\* Once everything has settled, the runtime is in the state the last accepted
\* call asked for (Pause, finalizePause, Resume): "a resume (only possible once
\* the pause is final)".
LastCallWins ==
    Quiet => IF Clustered THEN row = wanted
             ELSE \A m \in Replicas : shutdown[m] \/ state[m] = wanted

\* The barrier's credit is backed by the store: a parked run that counts as
\* parked has its row durably 'paused', so a snapshot and the next boot see it
\* ("the barrier must never count a run as paused when its store row isn't
\* durably 'paused'", pause_gate.go).
ParkedIsDurable == \A r \in Runs : at[r] = "parked" /\ parked[r] => durable[r]

\* Once everything has settled and the cluster runs, no run is parked with
\* nothing under way that would wake it (Park "blocks until the runtime resumes",
\* pause_gate.go).
NobodyLeftParked ==
    Quiet /\ row = "running"
        => \A r \in Runs : ~(at[r] = "parked" /\ hears[r] = "current")

\* After a Pause that returned with every run parked nothing runs until the
\* resume ("Snapshot only at a quiescent boundary (a clean Pause with no
\* warning)", manager.go).
CleanPauseQuiesces ==
    \A r \in Runs :
        LET m == home[r]
        IN  clean[m] /\ pauseCall[m] = "none" /\ state[m] = "paused" => at[r] # "busy"
-----------------------------------------------------------------------------
\* Requests keep calling State(), so an expired cache is refreshed; the calls and
\* the subscriber run to their end.  Nothing is assumed of runs or operators.
Fairness ==
    \A m \in Replicas : /\ WF_vars(ExpireCache(m)) /\ WF_vars(RefreshRead(m))
                        /\ WF_vars(RefreshStore(m)) /\ WF_vars(RefreshCache(m))
                        /\ WF_vars(Deliver(m)) /\ WF_vars(CallStep(m))

FairSpec == Spec /\ Fairness

\* Every replica's state converges on the row, also when notifications are lost
\* and statements on the row fail ("A remote replica that misses the publish will
\* eventually converge via the next cache refresh", Pause).
StateConverges ==
    <>[](\A m \in Replicas : shutdown[m] \/ state[m] = row)
=============================================================================
