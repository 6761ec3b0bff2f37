------------------------- MODULE PauseCluster_proofs -------------------------
(***************************************************************************)
(* What holds of the runtime pause for every set of replicas and runs and  *)
(* every number of calls.                                                  *)
(***************************************************************************)
EXTENDS PauseCluster, TLAPS

USE ClusteredIsBoolean, MaxCallsIsNat

\* Every step keeps the types.
LEMMA TypeStep ==
    TypeOK /\ [Next]_vars => TypeOK'
<1> SUFFICES ASSUME TypeOK, [Next]_vars
             PROVE  TypeOK'
    OBVIOUS
<1>state. state \in [Replicas -> States]
    BY DEF TypeOK
<1>pauseClosed. pauseClosed \in [Replicas -> BOOLEAN]
    BY DEF TypeOK
<1>shutdown. shutdown \in [Replicas -> BOOLEAN]
    BY DEF TypeOK
<1>cache. cache \in [Replicas -> States \cup {"expired"}]
    BY DEF TypeOK
<1>refresh. refresh \in [Replicas -> States \cup {"none"}]
    BY DEF TypeOK
<1>stored. stored \in [Replicas -> States \cup {"none"}]
    BY DEF TypeOK
<1>flips. flips \in [Replicas -> SUBSET Runs]
    BY DEF TypeOK
<1>inbox. inbox \in [Replicas -> Seq({"pause", "resume"})]
    BY DEF TypeOK
<1>resumeCall. resumeCall \in [Replicas -> {"none", "checked", "listed", "woken",
          "written", "flipping"}]
    BY DEF TypeOK
<1>shutdownCall. shutdownCall \in [Replicas -> {"none", "waiting", "interrupting",
          "interrupted", "done"}]
    BY DEF TypeOK
<1>clean. clean \in [Replicas -> BOOLEAN]
    BY DEF TypeOK
<1>pauseCall. pauseCall \in [Replicas -> {"none", "declared", "written", "barrier",
          "final", "finalRow"}]
    BY DEF TypeOK
<1>wanted. wanted \in {"running", "paused"}
    BY DEF TypeOK
<1>at. at \in [Runs -> Phases]
    BY DEF TypeOK
<1>next. next \in [Runs -> Phases]
    BY DEF TypeOK
<1>hears. hears \in [Runs -> {"none", "current", "closed", "dead"}]
    BY DEF TypeOK
<1>idle. idle \in [Runs -> BOOLEAN]
    BY DEF TypeOK
<1>durable. durable \in [Runs -> BOOLEAN]
    BY DEF TypeOK
<1>stopped. stopped \in [Runs -> BOOLEAN]
    BY DEF TypeOK
<1>panicked. panicked \in BOOLEAN
    BY DEF TypeOK
<1>calls. calls \in 0..MaxCalls
    BY DEF TypeOK
<1>1. ASSUME NEW m \in Replicas, ExpireCache(m) PROVE TypeOK'
    BY <1>1 DEF TypeOK, States, Phases, ExpireCache, Expired, manager, caching,
        opcalls, wire, runVars
<1>2. ASSUME NEW m \in Replicas, RefreshRead(m) PROVE TypeOK'
    BY <1>2 DEF TypeOK, States, Phases, RefreshRead, manager, caching, opcalls, wire,
        runVars
<1>3. ASSUME NEW m \in Replicas, RefreshStore(m) PROVE TypeOK'
  <2>1. state' \in [Replicas -> States]
    BY <1>3, <1>state, <1>refresh DEF RefreshStore, SetState, States
  <2>2. refresh' \in [Replicas -> States \cup {"none"}]
    BY <1>3, <1>refresh DEF RefreshStore, States
  <2>3. stored' \in [Replicas -> States \cup {"none"}]
    BY <1>3, <1>stored, <1>refresh DEF RefreshStore, States
  <2> QED
    BY <1>3, <2>1, <2>2, <2>3 DEF TypeOK, RefreshStore, manager, caching, opcalls,
        wire, runVars
<1>4. ASSUME NEW m \in Replicas, RefreshCache(m) PROVE TypeOK'
    BY <1>4 DEF TypeOK, States, Phases, RefreshCache, manager, caching, opcalls, wire,
        runVars
<1>5. ASSUME NEW m \in Replicas, applyRemotePause(m) PROVE TypeOK'
  <2>1. state' \in [Replicas -> States]
    BY <1>5, <1>state DEF applyRemotePause, SetState, States
  <2>2. pauseClosed' \in [Replicas -> BOOLEAN]
    BY <1>5, <1>pauseClosed DEF applyRemotePause, ClosePauseCh
  <2>3. panicked' \in BOOLEAN
    BY <1>5, <1>panicked DEF applyRemotePause, ClosePauseCh
  <2>4. cache' \in [Replicas -> States \cup {"expired"}]
    BY <1>5, <1>cache DEF applyRemotePause, Expired, States
  <2>5. inbox' \in [Replicas -> Seq({"pause", "resume"})]
    BY <1>5, <1>inbox DEF applyRemotePause
  <2> QED
    BY <1>5, <2>1, <2>2, <2>3, <2>4, <2>5 DEF TypeOK, applyRemotePause, manager,
        caching, opcalls, wire, runVars
<1>6. ASSUME NEW m \in Replicas, applyRemoteResume(m) PROVE TypeOK'
  <2>1. state' \in [Replicas -> States]
    BY <1>6, <1>state DEF applyRemoteResume, SetState, States
  <2>2. pauseClosed' \in [Replicas -> BOOLEAN]
    BY <1>6, <1>pauseClosed DEF applyRemoteResume, NewChannels
  <2>3. hears' \in [Runs -> {"none", "current", "closed", "dead"}]
    BY <1>6, <1>hears DEF applyRemoteResume, NewChannels
  <2>4. cache' \in [Replicas -> States \cup {"expired"}]
    BY <1>6, <1>cache DEF applyRemoteResume, Expired, States
  <2>5. inbox' \in [Replicas -> Seq({"pause", "resume"})]
    BY <1>6, <1>inbox DEF applyRemoteResume
  <2> QED
    BY <1>6, <2>1, <2>2, <2>3, <2>4, <2>5 DEF TypeOK, applyRemoteResume, manager,
        caching, opcalls, wire, runVars
<1>7. ASSUME NEW m \in Replicas, LoseEvent(m) PROVE TypeOK'
    BY <1>7 DEF TypeOK, States, Phases, LoseEvent, manager, caching, opcalls, wire,
        runVars
<1>8. ASSUME NEW m \in Replicas, Pause(m) PROVE TypeOK'
    BY <1>8 DEF TypeOK, States, Phases, Pause, Call, SetState, ClosePauseCh, manager,
        caching, opcalls, wire, runVars
<1>9. ASSUME NEW m \in Replicas, ResumeCheck(m) PROVE TypeOK'
    BY <1>9 DEF TypeOK, States, Phases, ResumeCheck, Call, manager, caching, opcalls,
        wire, runVars
<1>10. ASSUME NEW m \in Replicas, PauseForShutdown(m) PROVE TypeOK'
  <2>1. state' \in [Replicas -> States]
    BY <1>10, <1>state DEF PauseForShutdown, SetState, States
  <2>2. pauseClosed' \in [Replicas -> BOOLEAN]
    BY <1>10, <1>pauseClosed DEF PauseForShutdown, ClosePauseCh
  <2>3. shutdown' \in [Replicas -> BOOLEAN]
    BY <1>10, <1>shutdown DEF PauseForShutdown
  <2>4. panicked' \in BOOLEAN
    BY <1>10, <1>panicked DEF PauseForShutdown, ClosePauseCh
  <2>5. cache' \in [Replicas -> States \cup {"expired"}]
    BY <1>10, <1>cache DEF PauseForShutdown, Expired, States
  <2>6. shutdownCall' \in [Replicas -> {"none", "waiting", "interrupting",
            "interrupted", "done"}]
    BY <1>10, <1>shutdownCall DEF PauseForShutdown
  <2>7. calls' \in 0..MaxCalls
    BY <1>10, <1>calls DEF PauseForShutdown, Call
  <2> QED
    BY <1>10, <2>1, <2>2, <2>3, <2>4, <2>5, <2>6, <2>7 DEF TypeOK, PauseForShutdown,
        manager, caching, opcalls, wire, runVars
<1>11. ASSUME NEW m \in Replicas, PauseSetRow(m) PROVE TypeOK'
    BY <1>11 DEF TypeOK, States, Phases, PauseSetRow, SetRow, manager, caching,
        opcalls, wire, runVars
<1>12. ASSUME NEW m \in Replicas, PausePublish(m) PROVE TypeOK'
    BY <1>12 DEF TypeOK, States, Phases, PausePublish, Publish, Expired, manager,
        caching, opcalls, wire, runVars
<1>13. ASSUME NEW m \in Replicas, PauseBarrier(m) PROVE TypeOK'
  <2>1. clean' \in [Replicas -> BOOLEAN]
    BY <1>13, <1>clean DEF PauseBarrier
  <2>2. pauseCall' \in [Replicas -> {"none", "declared", "written", "barrier", "final",
            "finalRow"}]
    BY <1>13, <1>pauseCall DEF PauseBarrier
  <2> QED
    BY <1>13, <2>1, <2>2 DEF TypeOK, PauseBarrier, manager, caching, opcalls, wire,
        runVars
<1>14. ASSUME NEW m \in Replicas, finalizePause(m) PROVE TypeOK'
    BY <1>14 DEF TypeOK, States, Phases, finalizePause, SetState, Expired, manager,
        caching, opcalls, wire, runVars
<1>15. ASSUME NEW m \in Replicas, FinalizeRow(m) PROVE TypeOK'
    BY <1>15 DEF TypeOK, States, Phases, FinalizeRow, SetRow, manager, caching,
        opcalls, wire, runVars
<1>16. ASSUME NEW m \in Replicas, ListPausedRuns(m) PROVE TypeOK'
  <2>1. flips' \in [Replicas -> SUBSET Runs]
    BY <1>16, <1>flips DEF ListPausedRuns
  <2>2. resumeCall' \in [Replicas -> {"none", "checked", "listed", "woken", "written",
            "flipping"}]
    BY <1>16, <1>resumeCall DEF ListPausedRuns
  <2> QED
    BY <1>16, <2>1, <2>2 DEF TypeOK, ListPausedRuns, manager, caching, opcalls, wire,
        runVars
<1>17. ASSUME NEW m \in Replicas, Resume(m) PROVE TypeOK'
  <2>1. state' \in [Replicas -> States]
    BY <1>17, <1>state DEF Resume, SetState, States
  <2>2. pauseClosed' \in [Replicas -> BOOLEAN]
    BY <1>17, <1>pauseClosed DEF Resume, NewChannels
  <2>3. hears' \in [Runs -> {"none", "current", "closed", "dead"}]
    BY <1>17, <1>hears DEF Resume, NewChannels
  <2>4. cache' \in [Replicas -> States \cup {"expired"}]
    BY <1>17, <1>cache DEF Resume, Expired, States
  <2>5. wanted' \in {"running", "paused"}
    BY <1>17, <1>wanted DEF Resume
  <2>6. resumeCall' \in [Replicas -> {"none", "checked", "listed", "woken", "written",
            "flipping"}]
    BY <1>17, <1>resumeCall DEF Resume
  <2>7. flips' \in [Replicas -> SUBSET Runs]
    BY <1>17, <1>flips DEF Resume
  <2> QED
    BY <1>17, <2>1, <2>2, <2>3, <2>4, <2>5, <2>6, <2>7 DEF TypeOK, Resume, manager,
        caching, opcalls, wire, runVars
<1>18. ASSUME NEW m \in Replicas, ResumeSetRow(m) PROVE TypeOK'
    BY <1>18 DEF TypeOK, States, Phases, ResumeSetRow, SetRow, manager, caching,
        opcalls, wire, runVars
<1>19. ASSUME NEW m \in Replicas, ResumePublish(m) PROVE TypeOK'
    BY <1>19 DEF TypeOK, States, Phases, ResumePublish, Publish, manager, caching,
        opcalls, wire, runVars
<1>20. ASSUME NEW m \in Replicas, NEW r \in Runs, FlipRow(m, r) PROVE TypeOK'
  <2>1. flips' \in [Replicas -> SUBSET Runs]
    BY <1>20, <1>flips DEF FlipRow
  <2>2. durable' \in [Runs -> BOOLEAN]
    <3>1. \E p \in BOOLEAN : durable' = [durable EXCEPT ![r] = p] \/ UNCHANGED durable
      BY <1>20, <1>durable DEF FlipRow
    <3> QED
      BY <3>1, <1>durable
  <2> QED
    BY <1>20, <2>1, <2>2 DEF TypeOK, FlipRow, manager, caching, opcalls, wire, runVars
<1>21. ASSUME NEW m \in Replicas, ResumeReturn(m) PROVE TypeOK'
    BY <1>21 DEF TypeOK, States, Phases, ResumeReturn, manager, caching, opcalls, wire,
        runVars
<1>22. ASSUME NEW m \in Replicas, InterruptFlag(m) PROVE TypeOK'
    BY <1>22 DEF TypeOK, States, Phases, InterruptFlag, runsQuiesced, manager, caching,
        opcalls, wire, runVars
<1>23. ASSUME NEW m \in Replicas, interruptUnparkedTools(m) PROVE TypeOK'
    BY <1>23 DEF TypeOK, States, Phases, interruptUnparkedTools, manager, caching,
        opcalls, wire, runVars
<1>24. ASSUME NEW m \in Replicas, ShutdownDone(m) PROVE TypeOK'
    BY <1>24 DEF TypeOK, States, Phases, ShutdownDone, SetState, Expired, runsQuiesced,
        manager, caching, opcalls, wire, runVars
<1>25. ASSUME NEW r \in Runs, NEW m \in Replicas, AdmitRun(r, m) PROVE TypeOK'
    BY <1>25 DEF TypeOK, States, Phases, AdmitRun, Move, notRuns, manager, caching,
        opcalls, wire, runVars
<1>26. ASSUME NEW r \in Runs, RegisterRun(r) PROVE TypeOK'
  <2>1. at' \in [Runs -> Phases]
    <3>1. \E p \in Phases : at' = [at EXCEPT ![r] = p] \/ UNCHANGED at
      BY <1>26, <1>at DEF RegisterRun, Move, Phases
    <3> QED
      BY <3>1, <1>at
  <2>2. stopped' \in [Runs -> BOOLEAN]
    <3>1. \E p \in BOOLEAN : stopped' = [stopped EXCEPT ![r] = p] \/ UNCHANGED stopped
      BY <1>26, <1>stopped DEF RegisterRun
    <3> QED
      BY <3>1, <1>stopped
  <2> QED
    BY <1>26, <2>1, <2>2 DEF TypeOK, RegisterRun, notRuns, manager, caching, opcalls,
        wire, runVars
<1>27. ASSUME NEW r \in Runs, PauseRequested(r) PROVE TypeOK'
    BY <1>27 DEF TypeOK, States, Phases, PauseRequested, Move, notRuns, manager,
        caching, opcalls, wire, runVars
<1>28. ASSUME NEW r \in Runs, TurnEnds(r) PROVE TypeOK'
  <2>1. at' \in [Runs -> Phases]
    <3>1. \E p \in Phases : at' = [at EXCEPT ![r] = p] \/ UNCHANGED at
      BY <1>28, <1>at DEF TurnEnds, Move, Phases
    <3> QED
      BY <3>1, <1>at
  <2>2. hears' \in [Runs -> {"none", "current", "closed", "dead"}]
    BY <1>28, <1>hears DEF TurnEnds
  <2> QED
    BY <1>28, <2>1, <2>2 DEF TypeOK, TurnEnds, notRuns, manager, caching, opcalls,
        wire, runVars
<1>29. ASSUME NEW r \in Runs, WaitEnds(r) PROVE TypeOK'
  <2>1. at' \in [Runs -> Phases]
    <3>1. \E p \in Phases : at' = [at EXCEPT ![r] = p] \/ UNCHANGED at
      BY <1>29, <1>at DEF WaitEnds, Move, Phases
    <3> QED
      BY <3>1, <1>at
  <2>2. hears' \in [Runs -> {"none", "current", "closed", "dead"}]
    BY <1>29, <1>hears DEF WaitEnds
  <2>3. idle' \in [Runs -> BOOLEAN]
    <3>1. \E p \in BOOLEAN : idle' = [idle EXCEPT ![r] = p] \/ UNCHANGED idle
      BY <1>29, <1>idle DEF WaitEnds
    <3> QED
      BY <3>1, <1>idle
  <2> QED
    BY <1>29, <2>1, <2>2, <2>3 DEF TypeOK, WaitEnds, notRuns, manager, caching,
        opcalls, wire, runVars
<1>30. ASSUME NEW r \in Runs, BeginPark(r) PROVE TypeOK'
    BY <1>30 DEF TypeOK, States, Phases, BeginPark, Move, notRuns, manager, caching,
        opcalls, wire, runVars
<1>31. ASSUME NEW r \in Runs, PersistPaused(r) PROVE TypeOK'
  <2>1. at' \in [Runs -> Phases]
    <3>1. \E p \in Phases : at' = [at EXCEPT ![r] = p] \/ UNCHANGED at
      BY <1>31, <1>at DEF PersistPaused, Move, Phases
    <3> QED
      BY <3>1, <1>at
  <2>2. durable' \in [Runs -> BOOLEAN]
    <3>1. \E p \in BOOLEAN : durable' = [durable EXCEPT ![r] = p] \/ UNCHANGED durable
      BY <1>31, <1>durable DEF PersistPaused
    <3> QED
      BY <3>1, <1>durable
  <2> QED
    BY <1>31, <2>1, <2>2 DEF TypeOK, PersistPaused, notRuns, manager, caching, opcalls,
        wire, runVars
<1>32. ASSUME NEW r \in Runs, MarkParked(r) PROVE TypeOK'
    BY <1>32 DEF TypeOK, States, Phases, MarkParked, Move, notRuns, manager, caching,
        opcalls, wire, runVars
<1>33. ASSUME NEW r \in Runs, ParkEnds(r) PROVE TypeOK'
  <2>1. at' \in [Runs -> Phases]
    <3>1. \E p \in Phases : at' = [at EXCEPT ![r] = p] \/ UNCHANGED at
      BY <1>33, <1>at DEF ParkEnds, Move, Phases
    <3> QED
      BY <3>1, <1>at
  <2>2. next' \in [Runs -> Phases]
    <3>1. \E p \in Phases : next' = [next EXCEPT ![r] = p] \/ UNCHANGED next
      BY <1>33, <1>next DEF ParkEnds, Phases
    <3> QED
      BY <3>1, <1>next
  <2> QED
    BY <1>33, <2>1, <2>2 DEF TypeOK, ParkEnds, notRuns, manager, caching, opcalls,
        wire, runVars
<1>34. ASSUME NEW r \in Runs, EndPark(r) PROVE TypeOK'
    BY <1>34 DEF TypeOK, States, Phases, EndPark, Move, notRuns, manager, caching,
        opcalls, wire, runVars
<1>35. ASSUME NEW r \in Runs, SetRunning(r) PROVE TypeOK'
  <2>1. at' \in [Runs -> Phases]
    <3>1. \E p \in Phases : at' = [at EXCEPT ![r] = p] \/ UNCHANGED at
      BY <1>35, <1>at, <1>next DEF SetRunning, Move, Phases
    <3> QED
      BY <3>1, <1>at, <1>next
  <2>2. durable' \in [Runs -> BOOLEAN]
    <3>1. \E p \in BOOLEAN : durable' = [durable EXCEPT ![r] = p] \/ UNCHANGED durable
      BY <1>35, <1>durable DEF SetRunning
    <3> QED
      BY <3>1, <1>durable
  <2>3. hears' \in [Runs -> {"none", "current", "closed", "dead"}]
    BY <1>35, <1>hears DEF SetRunning
  <2>4. next' \in [Runs -> Phases]
    <3>1. \E p \in Phases : next' = [next EXCEPT ![r] = p] \/ UNCHANGED next
      BY <1>35, <1>next DEF SetRunning, Phases
    <3> QED
      BY <3>1, <1>next
  <2>5. idle' \in [Runs -> BOOLEAN]
    BY <1>35, <1>idle DEF SetRunning
  <2> QED
    BY <1>35, <2>1, <2>2, <2>3, <2>4, <2>5 DEF TypeOK, SetRunning, notRuns, manager,
        caching, opcalls, wire, runVars
<1>36. CASE UNCHANGED vars
    BY <1>36 DEF TypeOK, States, Phases, vars, manager, caching, opcalls, wire, runVars
<1> QED
    BY <1>1, <1>2, <1>3, <1>4, <1>5, <1>6, <1>7, <1>8, <1>9, <1>10, <1>11, <1>12,
        <1>13, <1>14, <1>15, <1>16, <1>17, <1>18, <1>19, <1>20, <1>21, <1>22, <1>23,
                  <1>24, <1>25, <1>26, <1>27, <1>28, <1>29, <1>30, <1>31, <1>32, <1>33,
                            <1>34, <1>35, <1>36
    DEF Next, Refresh, Deliver, Operator, CallStep, GateStep

\* The pause managers and the runs are well typed (pause.Manager, pauseGate).
THEOREM PauseTypeCorrect == Spec => []TypeOK
<1>1. Init => TypeOK
  <2>1. (CHOOSE m \in Replicas : TRUE) \in Replicas
    BY ReplicasNonEmpty
  <2>2. SUFFICES ASSUME Init PROVE TypeOK
    OBVIOUS
  <2>3. /\ state \in [Replicas -> States]
        /\ cache \in [Replicas -> States \cup {"expired"}]
        /\ refresh \in [Replicas -> States \cup {"none"}]
        /\ stored \in [Replicas -> States \cup {"none"}]
        /\ row \in States
    BY <2>2 DEF Init, States
  <2>4. /\ pauseClosed \in [Replicas -> BOOLEAN] /\ shutdown \in [Replicas -> BOOLEAN]
        /\ interrupted \in [Replicas -> BOOLEAN] /\ clean \in [Replicas -> BOOLEAN]
        /\ flips \in [Replicas -> SUBSET Runs]
        /\ inbox \in [Replicas -> Seq({"pause", "resume"})]
    BY <2>2 DEF Init
  <2>5. /\ at \in [Runs -> Phases] /\ next \in [Runs -> Phases]
        /\ home \in [Runs -> Replicas]
    BY <2>1, <2>2 DEF Init, Phases
  <2>6. /\ idle \in [Runs -> BOOLEAN] /\ parked \in [Runs -> BOOLEAN]
        /\ durable \in [Runs -> BOOLEAN] /\ stopped \in [Runs -> BOOLEAN]
        /\ hears \in [Runs -> {"none", "current", "closed", "dead"}]
    BY <2>2 DEF Init
  <2>7. calls \in 0..MaxCalls
    BY <2>2, MaxCallsIsNat DEF Init
  <2>8. wanted \in {"running", "paused"} /\ panicked \in BOOLEAN
    BY <2>2 DEF Init
  <2>9. /\ pauseCall = [m \in Replicas |-> "none"]
        /\ resumeCall = [m \in Replicas |-> "none"]
        /\ shutdownCall = [m \in Replicas |-> "none"]
    BY <2>2 DEF Init
  <2> QED
    BY <2>3, <2>4, <2>5, <2>6, <2>7, <2>8, <2>9 DEF TypeOK
<1> QED BY <1>1, TypeStep, PTL DEF Spec

\* What a run does at its gate leaves the managers, the calls and the row alone.
LEMMA RunStepsFrame ==
    ASSUME NEW r \in Runs,
           \/ \E m \in Replicas : AdmitRun(r, m)
           \/ GateStep(r) \/ TurnEnds(r) \/ WaitEnds(r) \/ ParkEnds(r)
    PROVE  UNCHANGED notRuns
BY DEF AdmitRun, GateStep, TurnEnds, WaitEnds, ParkEnds, RegisterRun, PauseRequested,
       BeginPark, PersistPaused, MarkParked, EndPark, SetRunning

\* A shutdown pause: the call has set the flag, and the flag keeps the runtime
\* from running.
ShutdownInv ==
    \A m \in Replicas : /\ shutdownCall[m] # "none" => shutdown[m]
                        /\ shutdown[m] => state[m] # "running"

\* Every step keeps it.
LEMMA ShutdownStep == TypeOK /\ ShutdownInv /\ [Next]_vars => ShutdownInv'
<1> SUFFICES ASSUME TypeOK, ShutdownInv, [Next]_vars
             PROVE  ShutdownInv'
    OBVIOUS
<1>a. /\ state \in [Replicas -> States] /\ shutdown \in [Replicas -> BOOLEAN]
      /\ shutdownCall \in [Replicas -> {"none", "waiting", "interrupting",
                                        "interrupted", "done"}]
    BY DEF TypeOK
<1>1. ASSUME NEW m \in Replicas, RefreshStore(m) PROVE ShutdownInv'
    BY <1>1, <1>a DEF ShutdownInv, RefreshStore, SetState, opcalls
<1>2. ASSUME NEW m \in Replicas, Deliver(m) PROVE ShutdownInv'
    BY <1>2, <1>a DEF ShutdownInv, Deliver, applyRemotePause, applyRemoteResume,
                      SetState, opcalls
<1>3. ASSUME NEW m \in Replicas, Pause(m) PROVE ShutdownInv'
    BY <1>3, <1>a DEF ShutdownInv, Pause, SetState
<1>4. ASSUME NEW m \in Replicas, PauseForShutdown(m) PROVE ShutdownInv'
    BY <1>4, <1>a DEF ShutdownInv, PauseForShutdown, SetState
<1>5. ASSUME NEW m \in Replicas, finalizePause(m) PROVE ShutdownInv'
    BY <1>5, <1>a DEF ShutdownInv, finalizePause, SetState
<1>6. ASSUME NEW m \in Replicas, Resume(m) PROVE ShutdownInv'
    BY <1>6, <1>a DEF ShutdownInv, Resume, SetState
<1>7. ASSUME NEW m \in Replicas, InterruptFlag(m) \/ interruptUnparkedTools(m)
      PROVE  ShutdownInv'
    BY <1>7, <1>a DEF ShutdownInv, InterruptFlag, interruptUnparkedTools, manager
<1>8. ASSUME NEW m \in Replicas, ShutdownDone(m) PROVE ShutdownInv'
    BY <1>8, <1>a DEF ShutdownInv, ShutdownDone, SetState
<1>9. ASSUME NEW m \in Replicas,
             \/ ExpireCache(m) \/ RefreshRead(m) \/ RefreshCache(m) \/ LoseEvent(m)
             \/ ResumeCheck(m) \/ PauseSetRow(m) \/ PausePublish(m) \/ PauseBarrier(m)
             \/ FinalizeRow(m) \/ ListPausedRuns(m) \/ ResumeSetRow(m)
             \/ ResumePublish(m) \/ (\E r \in Runs : FlipRow(m, r)) \/ ResumeReturn(m)
      PROVE  UNCHANGED <<state, shutdown, shutdownCall>>
    BY <1>9 DEF ExpireCache, RefreshRead, RefreshCache, LoseEvent, ResumeCheck,
       PauseSetRow, PausePublish, PauseBarrier, FinalizeRow, ListPausedRuns,
       ResumeSetRow, ResumePublish, FlipRow, ResumeReturn, manager, opcalls
<1>10. ASSUME UNCHANGED <<state, shutdown, shutdownCall>> PROVE ShutdownInv'
    BY <1>10 DEF ShutdownInv
<1>11. UNCHANGED notRuns \/ UNCHANGED vars => UNCHANGED <<state, shutdown, shutdownCall>>
    BY DEF notRuns, vars, manager, opcalls
<1> QED
    BY <1>1, <1>2, <1>3, <1>4, <1>5, <1>6, <1>7, <1>8, <1>9, <1>10, <1>11, RunStepsFrame
    DEF Next, Refresh, Operator, CallStep

\* Once PauseForShutdown has begun, nothing lifts the pause: no resume, local or
\* remote, and no refresh of the state from the row, in a cluster of any size.
THEOREM ShutdownNeverLifted == Spec => []ShutdownSticks
<1>1. Init => ShutdownInv
    BY DEF Init, ShutdownInv
<1>2. ShutdownInv => ShutdownSticks
    BY DEF ShutdownInv, ShutdownSticks
<1> QED
    BY <1>1, <1>2, PauseTypeCorrect, ShutdownStep, PTL DEF Spec

\* A single replica's calls: no notification and no refresh, a Pause in flight
\* exactly while the state is "pausing", and the state, once the call is over, the
\* one that was last asked for.
CallsInv ==
    \A m \in Replicas :
        /\ refresh[m] = "none" /\ stored[m] = "none" /\ inbox[m] = <<>>
        /\ pauseCall[m] \in {"none", "barrier", "final"}
        /\ resumeCall[m] \in {"none", "checked", "listed", "flipping"}
        /\ ~shutdown[m] => /\ pauseCall[m] # "none" <=> state[m] = "pausing"
                           /\ state[m] = "running" <=> wanted = "running"

\* Every step of a single replica keeps it.
LEMMA CallsStep ==
    ASSUME ~Clustered
    PROVE  TypeOK /\ ShutdownInv /\ CallsInv /\ [Next]_vars => CallsInv'
<1> SUFFICES ASSUME TypeOK, ShutdownInv, CallsInv, [Next]_vars
             PROVE  CallsInv'
    OBVIOUS
<1>a. /\ state \in [Replicas -> States] /\ shutdown \in [Replicas -> BOOLEAN]
      /\ refresh \in [Replicas -> States \cup {"none"}]
      /\ stored \in [Replicas -> States \cup {"none"}]
      /\ pauseCall \in [Replicas -> {"none", "declared", "written", "barrier", "final",
                                     "finalRow"}]
      /\ resumeCall \in [Replicas -> {"none", "checked", "listed", "woken", "written",
                                      "flipping"}]
      /\ wanted \in {"running", "paused"}
    BY DEF TypeOK
<1>b. PICK one \in Replicas : Replicas = {one}
    BY SingleReplica
<1>1. ASSUME NEW m \in Replicas,
             \/ ExpireCache(m) \/ Refresh(m) \/ Deliver(m) \/ LoseEvent(m)
             \/ PauseSetRow(m) \/ PausePublish(m) \/ FinalizeRow(m)
             \/ ResumeSetRow(m) \/ ResumePublish(m)
      PROVE  FALSE
    BY <1>1 DEF CallsInv, ExpireCache, Refresh, RefreshRead, RefreshStore, RefreshCache,
       Deliver, applyRemotePause, applyRemoteResume, LoseEvent, PauseSetRow,
       PausePublish, FinalizeRow, ResumeSetRow, ResumePublish
<1>2. ASSUME NEW m \in Replicas, Pause(m) PROVE CallsInv'
    BY <1>2, <1>a, <1>b DEF CallsInv, ShutdownInv, Pause, SetState, caching, wire
<1>3. ASSUME NEW m \in Replicas, PauseForShutdown(m) PROVE CallsInv'
    BY <1>3, <1>a, <1>b DEF CallsInv, PauseForShutdown, SetState, wire
<1>4. ASSUME NEW m \in Replicas, ResumeCheck(m) PROVE CallsInv'
    BY <1>4, <1>a DEF CallsInv, ResumeCheck, manager, caching, wire
<1>5. ASSUME NEW m \in Replicas, PauseBarrier(m) PROVE CallsInv'
    BY <1>5, <1>a DEF CallsInv, PauseBarrier, manager, caching, wire
<1>6. ASSUME NEW m \in Replicas, finalizePause(m) PROVE CallsInv'
    BY <1>6, <1>a, <1>b DEF CallsInv, finalizePause, SetState, wire
<1>7. ASSUME NEW m \in Replicas, ListPausedRuns(m) PROVE CallsInv'
    BY <1>7, <1>a DEF CallsInv, ListPausedRuns, manager, caching, wire
<1>8. ASSUME NEW m \in Replicas, Resume(m) PROVE CallsInv'
    BY <1>8, <1>a, <1>b DEF CallsInv, Resume, SetState, wire
<1>9. ASSUME NEW m \in Replicas, (\E r \in Runs : FlipRow(m, r)) \/ ResumeReturn(m)
      PROVE  CallsInv'
    BY <1>9, <1>a DEF CallsInv, FlipRow, ResumeReturn, manager, caching, wire
<1>10. ASSUME NEW m \in Replicas, InterruptFlag(m) \/ interruptUnparkedTools(m)
       PROVE  CallsInv'
    BY <1>10 DEF CallsInv, InterruptFlag, interruptUnparkedTools, manager, caching, wire
<1>11. ASSUME NEW m \in Replicas, ShutdownDone(m) PROVE CallsInv'
    BY <1>11, <1>a, <1>b DEF CallsInv, ShutdownInv, ShutdownDone, SetState, wire
<1>12. ASSUME UNCHANGED notRuns \/ UNCHANGED vars PROVE CallsInv'
    BY <1>12 DEF CallsInv, notRuns, vars, manager, caching, opcalls, wire
<1> QED
    BY <1>1, <1>2, <1>3, <1>4, <1>5, <1>6, <1>7, <1>8, <1>9, <1>10, <1>11, <1>12,
       RunStepsFrame
    DEF Next, Operator, CallStep

\* The signals' own invariant: where a run goes after its park is never back into
\* a park.
SignalsInv == SignalsMatchState /\ \A r \in Runs : next[r] \notin Parking

\* Every step of a single replica keeps it.
LEMMA SignalsStep ==
    ASSUME ~Clustered
    PROVE  TypeOK /\ ShutdownInv /\ CallsInv /\ SignalsInv /\ [Next]_vars => SignalsInv'
<1> SUFFICES ASSUME TypeOK, ShutdownInv, CallsInv, SignalsInv, [Next]_vars
             PROVE  SignalsInv'
    OBVIOUS
<1> USE DEF SignalsInv, SignalsMatchState
<1>a. /\ state \in [Replicas -> States] /\ shutdown \in [Replicas -> BOOLEAN]
      /\ pauseClosed \in [Replicas -> BOOLEAN]
    BY DEF TypeOK
<1>b. /\ at \in [Runs -> Phases] /\ next \in [Runs -> Phases]
      /\ home \in [Runs -> Replicas]
      /\ hears \in [Runs -> {"none", "current", "closed", "dead"}]
    BY DEF TypeOK
<1>1. ASSUME NEW m \in Replicas,
             \/ ExpireCache(m) \/ Refresh(m) \/ Deliver(m) \/ LoseEvent(m)
             \/ PauseSetRow(m) \/ PausePublish(m) \/ FinalizeRow(m)
             \/ ResumeSetRow(m) \/ ResumePublish(m)
      PROVE  FALSE
    BY <1>1 DEF CallsInv, ExpireCache, Refresh, RefreshRead, RefreshStore, RefreshCache,
       Deliver, applyRemotePause, applyRemoteResume, LoseEvent, PauseSetRow,
       PausePublish, FinalizeRow, ResumeSetRow, ResumePublish
<1>2. ASSUME NEW m \in Replicas, Pause(m) PROVE SignalsInv'
    BY <1>2, <1>a, <1>b DEF Pause, SetState, ClosePauseCh, runVars
<1>3. ASSUME NEW m \in Replicas, PauseForShutdown(m) PROVE SignalsInv'
    BY <1>3, <1>a, <1>b DEF PauseForShutdown, SetState, ClosePauseCh, runVars
<1>4. ASSUME NEW m \in Replicas, finalizePause(m) PROVE SignalsInv'
    BY <1>4, <1>a, <1>b DEF CallsInv, ShutdownInv, finalizePause, SetState, runVars
<1>5. ASSUME NEW m \in Replicas, ShutdownDone(m) PROVE SignalsInv'
    BY <1>5, <1>a, <1>b DEF ShutdownInv, ShutdownDone, SetState, runVars
<1>6. ASSUME NEW m \in Replicas, Resume(m) PROVE SignalsInv'
  <2>1. CASE UNCHANGED <<state, pauseClosed, hears>>
    BY <1>6, <2>1 DEF Resume
  <2>2. CASE state[m] = "paused" /\ NewChannels(m) /\ SetState(m, "running")
    BY <1>6, <2>2, <1>a, <1>b DEF Resume, NewChannels, SetState
  <2> QED
    BY <1>6, <2>1, <2>2 DEF Resume
<1>7. ASSUME NEW m \in Replicas,
             \/ ResumeCheck(m) \/ PauseBarrier(m) \/ ListPausedRuns(m)
             \/ (\E r \in Runs : FlipRow(m, r)) \/ ResumeReturn(m)
             \/ InterruptFlag(m) \/ interruptUnparkedTools(m)
      PROVE  UNCHANGED <<state, pauseClosed, panicked, at, home, next, hears>>
    BY <1>7 DEF ResumeCheck, PauseBarrier, ListPausedRuns, FlipRow, ResumeReturn,
       InterruptFlag, interruptUnparkedTools, manager, runVars
<1>8. ASSUME UNCHANGED <<state, pauseClosed, panicked, at, home, next, hears>>
      PROVE  SignalsInv'
    BY <1>8
<1>9. ASSUME NEW r \in Runs, NEW m \in Replicas, AdmitRun(r, m) PROVE SignalsInv'
    BY <1>9, <1>b DEF AdmitRun, Move, notRuns, manager, Parking
<1>10. ASSUME NEW r \in Runs, RegisterRun(r) \/ PauseRequested(r) PROVE SignalsInv'
    BY <1>10, <1>b DEF RegisterRun, PauseRequested, Move, notRuns, manager, Parking
<1>11. ASSUME NEW r \in Runs, TurnEnds(r) \/ WaitEnds(r) PROVE SignalsInv'
    BY <1>11, <1>b DEF TurnEnds, WaitEnds, Move, notRuns, manager, Parking
<1>12. ASSUME NEW r \in Runs, BeginPark(r) PROVE SignalsInv'
    BY <1>12, <1>b DEF BeginPark, Move, notRuns, manager, Parking
<1>13. ASSUME NEW r \in Runs, PersistPaused(r) \/ MarkParked(r) PROVE SignalsInv'
    BY <1>13, <1>b DEF PersistPaused, MarkParked, Move, notRuns, manager, Parking
<1>14. ASSUME NEW r \in Runs, ParkEnds(r) PROVE SignalsInv'
    BY <1>14, <1>b DEF ParkEnds, Move, notRuns, manager, Parking
<1>15. ASSUME NEW r \in Runs, EndPark(r) \/ SetRunning(r) PROVE SignalsInv'
    BY <1>15, <1>b DEF EndPark, SetRunning, Move, notRuns, manager, Parking
<1>16. UNCHANGED vars => UNCHANGED <<state, pauseClosed, panicked, at, home, next, hears>>
    BY DEF vars, manager, runVars
<1> QED
    BY <1>1, <1>2, <1>3, <1>4, <1>5, <1>6, <1>7, <1>8, <1>9, <1>10, <1>11, <1>12,
       <1>13, <1>14, <1>15, <1>16
    DEF Next, Operator, CallStep, GateStep

\* The invariant both single-replica theorems rest on.
SingleInv == TypeOK /\ ShutdownInv /\ CallsInv /\ SignalsInv

\* It holds in every behaviour of a single replica.
LEMMA SingleInvariant ==
    ASSUME ~Clustered
    PROVE  Spec => []SingleInv
<1>1. Init => ShutdownInv /\ CallsInv /\ SignalsInv
    BY DEF Init, ShutdownInv, CallsInv, SignalsInv, SignalsMatchState, Parking
<1>2. TypeOK /\ TypeOK' /\ ShutdownInv /\ CallsInv /\ SignalsInv /\ [Next]_vars
        => ShutdownInv' /\ CallsInv' /\ SignalsInv'
    BY ShutdownStep, CallsStep, SignalsStep
<1> QED
    BY <1>1, <1>2, PauseTypeCorrect, PTL DEF Spec, SingleInv

\* On a single replica the state word, the pause channel, the resume channel and
\* the parked runs agree whatever Pause, Resume and PauseForShutdown do to each
\* other, for any number of runs and calls.
THEOREM SingleSignals ==
    ASSUME ~Clustered
    PROVE  Spec => []SignalsMatchState
<1>1. SingleInv => SignalsMatchState
    BY DEF SingleInv, SignalsInv
<1> QED
    BY <1>1, SingleInvariant, PTL

\* On a single replica the last accepted Pause or Resume decides the state the
\* runtime settles in, unless it is shutting down.
THEOREM SingleLastCall ==
    ASSUME ~Clustered
    PROVE  Spec => []LastCallWins
<1>1. SingleInv => LastCallWins
  <2> SUFFICES ASSUME SingleInv, Quiet, NEW m \in Replicas, ~shutdown[m]
               PROVE  state[m] = wanted
    BY DEF LastCallWins
  <2>1. /\ state[m] # "pausing" /\ (state[m] = "running" <=> wanted = "running")
        /\ state[m] \in States /\ wanted \in {"running", "paused"}
    BY DEF SingleInv, CallsInv, Quiet, TypeOK
  <2> QED
    BY <2>1 DEF States
<1> QED
    BY <1>1, SingleInvariant, PTL

\* Every step of a manager or of its calls leaves the runs where they are.
LEMMA ManagerStepsFrame ==
    ASSUME NEW m \in Replicas,
           \/ ExpireCache(m) \/ Refresh(m) \/ Deliver(m) \/ LoseEvent(m)
           \/ Operator(m) \/ CallStep(m)
    PROVE  UNCHANGED at
BY DEF ExpireCache, Refresh, RefreshRead, RefreshStore, RefreshCache, Deliver,
       applyRemotePause, applyRemoteResume, LoseEvent, Operator, Pause, ResumeCheck,
       PauseForShutdown, CallStep, PauseSetRow, PausePublish, PauseBarrier,
       finalizePause, FinalizeRow, ListPausedRuns, Resume, ResumeSetRow, ResumePublish,
       FlipRow, ResumeReturn, InterruptFlag, interruptUnparkedTools, ShutdownDone, runVars

\* The flag is up before the sweep over the registered runs begins, and stays up.
FlagInv ==
    \A m \in Replicas :
        shutdownCall[m] \in {"interrupting", "interrupted"} => interrupted[m]

\* Every step keeps it.
LEMMA FlagStep == TypeOK /\ FlagInv /\ [Next]_vars => FlagInv'
<1> SUFFICES ASSUME TypeOK, FlagInv, [Next]_vars
             PROVE  FlagInv'
    OBVIOUS
<1>a. /\ interrupted \in [Replicas -> BOOLEAN]
      /\ shutdownCall \in [Replicas -> {"none", "waiting", "interrupting",
                                        "interrupted", "done"}]
    BY DEF TypeOK
<1>1. ASSUME NEW m \in Replicas, PauseForShutdown(m) PROVE FlagInv'
    BY <1>1, <1>a DEF FlagInv, PauseForShutdown
<1>2. ASSUME NEW m \in Replicas, InterruptFlag(m) PROVE FlagInv'
    BY <1>2, <1>a DEF FlagInv, InterruptFlag
<1>3. ASSUME NEW m \in Replicas, interruptUnparkedTools(m) PROVE FlagInv'
    BY <1>3, <1>a DEF FlagInv, interruptUnparkedTools, manager
<1>4. ASSUME NEW m \in Replicas, ShutdownDone(m) PROVE FlagInv'
    BY <1>4, <1>a DEF FlagInv, ShutdownDone
<1>5. ASSUME NEW m \in Replicas,
             \/ ExpireCache(m) \/ Refresh(m) \/ Deliver(m) \/ LoseEvent(m)
             \/ Pause(m) \/ ResumeCheck(m) \/ PauseSetRow(m) \/ PausePublish(m)
             \/ PauseBarrier(m) \/ finalizePause(m) \/ FinalizeRow(m)
             \/ ListPausedRuns(m) \/ Resume(m) \/ ResumeSetRow(m) \/ ResumePublish(m)
             \/ (\E r \in Runs : FlipRow(m, r)) \/ ResumeReturn(m)
      PROVE  UNCHANGED <<interrupted, shutdownCall>>
    BY <1>5 DEF ExpireCache, Refresh, RefreshRead, RefreshStore, RefreshCache, Deliver,
       applyRemotePause, applyRemoteResume, LoseEvent, Pause, ResumeCheck, PauseSetRow,
       PausePublish, PauseBarrier, finalizePause, FinalizeRow, ListPausedRuns, Resume,
       ResumeSetRow, ResumePublish, FlipRow, ResumeReturn, manager, opcalls
<1>6. ASSUME UNCHANGED <<interrupted, shutdownCall>> PROVE FlagInv'
    BY <1>6 DEF FlagInv
<1>7. UNCHANGED notRuns \/ UNCHANGED vars => UNCHANGED <<interrupted, shutdownCall>>
    BY DEF notRuns, vars, manager, opcalls
<1> QED
    BY <1>1, <1>2, <1>3, <1>4, <1>5, <1>6, <1>7, RunStepsFrame
    DEF Next, Operator, CallStep

\* RegisterRun stores the entry and then reads the flag, interruptUnparkedTools
\* raises the flag and then reads the entries: whichever way the two cross, the
\* run's tool calls are interrupted.
THEOREM NoRunMissed == Spec => InterruptReachesAll
<1>1. Init => FlagInv
    BY DEF Init, FlagInv
<1>2. TypeOK /\ FlagInv /\ [Next]_vars
        => [\A r \in Runs :
              /\ at[r] = "stored" /\ at'[r] = "boundary"
              /\ shutdownCall[home[r]] = "interrupted"
              => stopped'[r]]_vars
  <2> SUFFICES ASSUME TypeOK, FlagInv, Next, NEW r \in Runs,
                      at[r] = "stored", at'[r] = "boundary",
                      shutdownCall[home[r]] = "interrupted"
               PROVE  stopped'[r]
    OBVIOUS
  <2>1. /\ at \in [Runs -> Phases] /\ home \in [Runs -> Replicas]
        /\ stopped \in [Runs -> BOOLEAN]
    BY DEF TypeOK
  <2>2. at' # at
    OBVIOUS
  <2>3. PICK s \in Runs : \/ \E m \in Replicas : AdmitRun(s, m)
                          \/ GateStep(s) \/ TurnEnds(s) \/ WaitEnds(s) \/ ParkEnds(s)
    BY <2>2, ManagerStepsFrame DEF Next
  <2>4. PICK p \in Phases : at' = [at EXCEPT ![s] = p]
    BY <2>3, <2>1 DEF AdmitRun, GateStep, TurnEnds, WaitEnds, ParkEnds, RegisterRun,
       PauseRequested, BeginPark, PersistPaused, MarkParked, EndPark, SetRunning, Move,
       Phases, TypeOK
  <2>5. s = r
    BY <2>4, <2>1
  <2>6. RegisterRun(r)
    BY <2>3, <2>5 DEF AdmitRun, GateStep, TurnEnds, WaitEnds, ParkEnds, PauseRequested,
       BeginPark, PersistPaused, MarkParked, EndPark, SetRunning
  <2> QED
    BY <2>6, <2>1 DEF RegisterRun, FlagInv
<1> QED
    BY <1>1, <1>2, PauseTypeCorrect, FlagStep, PTL DEF Spec, InterruptReachesAll

==============================================================================
