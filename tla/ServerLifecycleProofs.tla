----------------------- MODULE ServerLifecycleProofs -----------------------
(***************************************************************************)
(* Theorems about ServerLifecycle and its history, for every set of        *)
(* callers and every value of the bounds.                                  *)
(***************************************************************************)
EXTENDS LifecycleHistory, FiniteSetTheorems, TLAPS

\* What a move of one task, with the tasks of gone ending, does to the types.
LEMMA MoveType ==
  ASSUME TypeOK, NEW t \in Tasks, NEW next \in TaskState, NEW v \in SessionView,
         NEW h \in 0 .. launched, NEW gone, Move(t, next, v, h, gone)
  PROVE  /\ pc' \in [Tasks -> TaskState]
         /\ seen' \in [Tasks -> SessionView]
         /\ handle' \in [Tasks -> 0 .. launched]
  BY DEF TypeOK, Move, Update, TaskState, InStart, Launching, SessionView, None

LEMMA GotoType ==
  ASSUME TypeOK, NEW t \in Tasks, NEW next \in TaskState, Goto(t, next)
  PROVE  /\ pc' \in [Tasks -> TaskState]
         /\ seen' \in [Tasks -> SessionView]
         /\ handle' \in [Tasks -> 0 .. launched]
  BY DEF TypeOK, Goto

\* Resetting the crash state.
LEMMA ResetType ==
  ASSUME TypeOK, ResetCrashState
  PROVE  /\ status' \in Status /\ holder' \in Tasks \cup {None}
         /\ count' = 0 /\ current' = None /\ stability' = None
  BY DEF TypeOK, ResetCrashState, Cancelled, CancelledCommit, Flush, Status

LEMMA SignalType ==
  ASSUME TypeOK, NEW p, NEW s \in {"command", "term", "kill"}, Signal(p, s)
  PROVE  proc' \in [Launch -> ProcState]
  BY DEF TypeOK, Signal, ProcState

LEMMA NoneLaunched == ASSUME TypeOK PROVE None \in 0 .. launched
  BY LaunchAssumption DEF TypeOK, None

LEMMA InitType == Init => TypeOK
  BY LaunchAssumption
  DEF Init, TypeOK, None, Launch, Status, TaskState, InStart, Launching, SessionView,
      WatchState, ReadyState, ProcState

\* The states a task can be sent to, and the processes there are.
LEMMA StateNames ==
  /\ Launching \cup {"started", "idle", "sleep", "acquire", "viewRead", "viewRunning", "viewStopped",
                     "stopRead", "stopMark", "stopWait", "stopDone", "pause"} = TaskState
  /\ Launch \subseteq Tasks /\ Callers \subseteq Tasks
  /\ \A s : View(s) \in SessionView
  /\ "unloaded" \in SessionView
  /\ \A c : AfterStop(c) \in {"pause", "idle"}
  BY DEF TaskState, InStart, Launching, Tasks, View, SessionView, AfterStop

LEMMA NextType == TypeOK /\ Next => TypeOK'
<1> SUFFICES ASSUME TypeOK, Next PROVE TypeOK'
  OBVIOUS
<1> USE LaunchAssumption, StateNames, NoneLaunched
<1>1. ASSUME NEW c \in Callers, CallWebStart(c) PROVE TypeOK'
  <2>1. Move(c, "acquire", View("starting"), None, Cancelled) /\ ResetCrashState
    BY <1>1 DEF CallWebStart
  <2>2. pc' \in [Tasks -> TaskState] /\ seen' \in [Tasks -> SessionView]
        /\ handle' \in [Tasks -> 0 .. launched]
    BY <2>1, MoveType
  <2>3. QED
    BY <1>1, <2>1, <2>2, ResetType
    DEF TypeOK, rowVars, procVars, taskVars, watchVars, crashVars, CallWebStart, None
<1>2. ASSUME NEW c \in Callers, CallStart(c) PROVE TypeOK'
  BY <1>2, GotoType
  DEF TypeOK, rowVars, procVars, taskVars, watchVars, crashVars, CallStart, Launching
<1>3. ASSUME NEW c \in Callers, CallStop(c) PROVE TypeOK'
  BY <1>3, GotoType
  DEF TypeOK, rowVars, procVars, taskVars, watchVars, crashVars, CallStop, Launching
<1>4. ASSUME NEW c \in Callers, CallView(c) PROVE TypeOK'
  BY <1>4, GotoType
  DEF TypeOK, rowVars, procVars, taskVars, watchVars, crashVars, CallView, Launching
<1>5. ASSUME NEW c \in Callers, ViewRead(c) PROVE TypeOK'
  BY <1>5, GotoType
  DEF TypeOK, rowVars, procVars, taskVars, watchVars, crashVars, ViewRead, Launching, Correction
<1>6. ASSUME NEW c \in Callers, ViewCommit(c) PROVE TypeOK'
  BY <1>6, GotoType
  DEF TypeOK, rowVars, procVars, taskVars, watchVars, crashVars, ViewCommit, Launching, Status
<1>7. ASSUME NEW t \in Tasks, Acquire(t) PROVE TypeOK'
  BY <1>7, GotoType, MoveType
  DEF TypeOK, rowVars, procVars, taskVars, watchVars, crashVars, Acquire, Launching, Finish
<1>8. ASSUME NEW t \in Tasks, Load(t) PROVE TypeOK'
  BY <1>8, MoveType
  DEF TypeOK, rowVars, procVars, taskVars, watchVars, crashVars, Load, Launching
<1>9. ASSUME NEW t \in Tasks, Preflight(t) PROVE TypeOK'
  BY <1>9, MoveType
  DEF TypeOK, rowVars, procVars, taskVars, watchVars, crashVars, Preflight, Launching, Release, Finish
<1>10. ASSUME NEW t \in Tasks, MarkStarting(t) PROVE TypeOK'
  BY <1>10, MoveType
  DEF TypeOK, rowVars, procVars, taskVars, watchVars, crashVars, MarkStarting, Launching, Release, Finish, Flush, Status
<1>11. ASSUME NEW t \in Tasks, Spawn(t) PROVE TypeOK'
  BY <1>11
  DEF TypeOK, rowVars, procVars, taskVars, watchVars, crashVars, Spawn, Launching, Move, Update, Launch, ProcState, TaskState, InStart, SessionView
<1>12. ASSUME NEW t \in Tasks, SpawnFails(t) PROVE TypeOK'
  BY <1>12, GotoType
  DEF TypeOK, rowVars, procVars, taskVars, watchVars, crashVars, SpawnFails, Launching
<1>13. ASSUME NEW t \in Tasks, FailMark(t) PROVE TypeOK'
  BY <1>13, MoveType
  DEF TypeOK, rowVars, procVars, taskVars, watchVars, crashVars, FailMark, Launching, Release, Finish, Status
<1>14. ASSUME NEW t \in Tasks, Started(t) PROVE TypeOK'
  <2>1. handle[t] \in 0 .. launched
    BY DEF TypeOK
  <2>2. /\ watch' = [watch EXCEPT ![handle[t]] = "wait"]
        /\ ready' = [ready EXCEPT ![handle[t]] = "init"]
    BY <1>14 DEF Started
  <2>3. /\ watch \in [Launch -> WatchState] /\ ready \in [Launch -> ReadyState]
        /\ \A p \in Launch : p > launched => watch[p] = "idle" /\ ready[p] = "idle"
        /\ launched \in Nat
    BY DEF TypeOK
  <2>4. watch' \in [Launch -> WatchState] /\ ready' \in [Launch -> ReadyState]
    BY <2>2, <2>3 DEF WatchState, ReadyState
  <2>5. ASSUME NEW p \in Launch, p > launched PROVE watch'[p] = "idle" /\ ready'[p] = "idle"
    <3>1. p # handle[t]
      BY <2>1, <2>3, <2>5 DEF Launch
    <3>2. QED
      BY <2>2, <2>3, <2>5, <3>1
  <2>6. launched' = launched
    BY <1>14 DEF Started
  <2>7. QED
    BY <1>14, <2>1, <2>4, <2>5, <2>6, MoveType DEF TypeOK, rowVars, procVars, taskVars, watchVars, crashVars, Started, Release, Finish
<1>15. ASSUME NEW c \in Callers, StopRead(c) PROVE TypeOK'
  <2>1. ResetCrashState /\ UNCHANGED <<pidFile, procVars, watchVars, reboots>>
    BY <1>15 DEF StopRead
  <2>2. /\ pc' \in [Tasks -> TaskState] /\ seen' \in [Tasks -> SessionView]
        /\ handle' \in [Tasks -> 0 .. launched] /\ again' \in [Callers -> BOOLEAN]
    <3>1. CASE procs = None
      <4>1. Move(c, AfterStop(c), "unloaded", None, Cancelled)
        BY <1>15, <3>1 DEF StopRead
      <4>2. QED
        BY <1>15, <3>1, <4>1, MoveType DEF StopRead, TypeOK
    <3>2. CASE procs # None
      <4>1. Move(c, "stopMark", View("stopping"), procs, Cancelled)
        BY <1>15, <3>2 DEF StopRead
      <4>2. QED
        BY <1>15, <3>2, <4>1, MoveType DEF StopRead, TypeOK
    <3>3. QED
      BY <3>1, <3>2
  <2>3. QED
    BY <2>1, <2>2, ResetType DEF TypeOK, rowVars, procVars, taskVars, watchVars, crashVars, None
<1>16. ASSUME NEW c \in Callers, StopMark(c) PROVE TypeOK'
  BY <1>16, MoveType, SignalType
  DEF TypeOK, rowVars, procVars, taskVars, watchVars, crashVars, StopMark, Launching, StopSignal, Flush, Status
<1>17. ASSUME NEW c \in Callers, StopEscalate(c) PROVE TypeOK'
  BY <1>17, SignalType
  DEF TypeOK, rowVars, procVars, taskVars, watchVars, crashVars, StopEscalate, Launching
<1>18. ASSUME NEW c \in Callers, StopFinish(c) PROVE TypeOK'
  BY <1>18, GotoType
  DEF TypeOK, rowVars, procVars, taskVars, watchVars, crashVars, StopFinish, Launching
<1>19. ASSUME NEW c \in Callers, StopDone(c) PROVE TypeOK'
  BY <1>19, MoveType
  DEF TypeOK, rowVars, procVars, taskVars, watchVars, crashVars, StopDone, Launching, Status
<1>20. ASSUME NEW c \in Callers, RestartPause(c) PROVE TypeOK'
  BY <1>20, GotoType
  DEF TypeOK, rowVars, procVars, taskVars, watchVars, crashVars, RestartPause, Launching
<1>21. ASSUME NEW p \in Launch, Exit(p) PROVE TypeOK'
  BY <1>21
  DEF TypeOK, rowVars, procVars, taskVars, watchVars, crashVars, Exit, Launching, ProcState
<1>22. ASSUME NEW p \in Launch, WatchWake(p) PROVE TypeOK'
  BY <1>22
  DEF TypeOK, rowVars, procVars, taskVars, watchVars, crashVars, WatchWake, Launching, WatchWoken, WatchState
<1>23. ASSUME NEW p \in Launch, WatchRead(p) PROVE TypeOK'
  BY <1>23
  DEF TypeOK, rowVars, procVars, taskVars, watchVars, crashVars, WatchRead, Launching, View, WatchState
<1>24. ASSUME NEW p \in Launch, WatchCommit(p) PROVE TypeOK'
  <2>1. p \in 1 .. launched
    BY <1>24 DEF WatchCommit, TypeOK, Launch
  <2>2. status' \in Status
    BY <1>24 DEF WatchCommit, TypeOK, Flush, Status
  <2>3. /\ count' \in Nat /\ current' \in 0 .. launched /\ stability' \in 0 .. launched
        /\ pc' \in [Tasks -> TaskState]
    BY <1>24, <2>1 DEF WatchCommit, HandleCrash, TypeOK, crashVars, None
  <2>4. QED
    BY <1>24, <2>1, <2>2, <2>3 DEF TypeOK, rowVars, procVars, taskVars, watchVars, crashVars, WatchCommit, WatchState, Launch
<1>25. ASSUME NEW p \in Launch, RestartCheck(p) PROVE TypeOK'
  BY <1>25, GotoType
  DEF TypeOK, rowVars, procVars, taskVars, watchVars, crashVars, RestartCheck, Launching
<1>26. ASSUME NEW p \in Launch, ReadyImmediate(p) PROVE TypeOK'
  BY <1>26
  DEF TypeOK, rowVars, procVars, taskVars, watchVars, crashVars, ReadyImmediate, Launching, ReadyGoto, ReadyState, View
<1>27. ASSUME NEW p \in Launch, ReadyBegin(p) PROVE TypeOK'
  BY <1>27
  DEF TypeOK, rowVars, procVars, taskVars, watchVars, crashVars, ReadyBegin, Launching, ReadyGoto, ReadyState
<1>28. ASSUME NEW p \in Launch, ReadyPoll(p) PROVE TypeOK'
  BY <1>28
  DEF TypeOK, rowVars, procVars, taskVars, watchVars, crashVars, ReadyPoll, Launching, ReadyGoto, ReadyState
<1>29. ASSUME NEW p \in Launch, ReadyRead(p) PROVE TypeOK'
  <2>1. p \in 1 .. launched
    BY <1>29 DEF ReadyRead, TypeOK, Launch
  <2>2. stability' \in 0 .. launched
    BY <1>29, <2>1 DEF ReadyRead, TypeOK
  <2>3. ready' \in [Launch -> ReadyState] /\ \A q \in Launch : q > launched => ready'[q] = "idle"
    BY <1>29, <2>1 DEF ReadyRead, ReadyGoto, TypeOK, ReadyState, Launch
  <2>4. QED
    BY <1>29, <2>2, <2>3 DEF TypeOK, rowVars, procVars, taskVars, watchVars, crashVars, ReadyRead, ReadyGoto
<1>30. ASSUME NEW p \in Launch, ReadyCommit(p) PROVE TypeOK'
  <2>1. p \in 1 .. launched
    BY <1>30 DEF ReadyCommit, TypeOK, Launch
  <2>2. status' \in Status
    BY <1>30 DEF ReadyCommit, TypeOK, Flush, Status
  <2>3. QED
    BY <1>30, <2>1, <2>2 DEF TypeOK, rowVars, procVars, taskVars, watchVars, crashVars, ReadyCommit, ReadyState, Launch
<1>31. CASE StabilityFires
  BY <1>31 DEF TypeOK, rowVars, procVars, taskVars, watchVars, crashVars, StabilityFires
<1>32. CASE Reboot
  BY <1>32, SignalType DEF TypeOK, rowVars, procVars, taskVars, watchVars, crashVars, Reboot, Launching, Status, WatchState, ReadyState
<1>33. QED
  BY <1>1, <1>2, <1>3, <1>4, <1>5, <1>6, <1>7, <1>8, <1>9, <1>10, <1>11, <1>12, <1>13, <1>14, <1>15, <1>16, <1>17, <1>18, <1>19, <1>20, <1>21, <1>22, <1>23, <1>24, <1>25, <1>26, <1>27, <1>28, <1>29, <1>30, <1>31, <1>32
  DEF Next, Call, ViewStep, StartStep, StopStep, WatchStep, ReadyStep

\* Type correctness: see TypeOK.
THEOREM TypeCorrect == Spec => []TypeOK
<1>1. TypeOK /\ UNCHANGED vars => TypeOK'
  BY DEF TypeOK, vars, rowVars, procVars, taskVars, watchVars, crashVars
<1>2. QED
  BY <1>1, InitType, NextType, PTL DEF Spec

-----------------------------------------------------------------------------
\* No task is None.
LEMMA TasksAreTasks == None \notin Tasks /\ Callers \cap Launch = {}
  BY LaunchAssumption, CallerAssumption DEF None, Tasks, Launch

LEMMA InitSection == Init => StartSection
  BY DEF Init, StartSection, InStart, Launching

\* After a move of t, every other task is where it was, or has ended.
LEMMA MoveEffect ==
  ASSUME TypeOK, NEW t \in Tasks, NEW next, NEW v, NEW h, NEW gone, Move(t, next, v, h, gone)
  PROVE  /\ pc'[t] = next
         /\ \A u \in Tasks \ {t} : pc'[u] = IF u \in gone THEN "idle" ELSE pc[u]
  BY DEF TypeOK, Move, Update

LEMMA GotoEffect ==
  ASSUME TypeOK, NEW t \in Tasks, NEW next, Goto(t, next)
  PROVE  pc'[t] = next /\ \A u \in Tasks \ {t} : pc'[u] = pc[u]
  BY DEF TypeOK, Goto

\* A task outside the start section that stays outside disturbs nothing, if the
\* lock and the table are unchanged or the table is emptied.
LEMMA OutsideStep ==
  ASSUME TypeOK, StartSection, NEW t \in Tasks, pc'[t] \notin InStart,
         \A u \in Tasks \ {t} : pc'[u] = pc[u],
         holder' = holder, procs' = procs \/ procs' = None
  PROVE  StartSection'
  BY DEF StartSection, InStart, Launching

\* The holder of the lock may go on inside the section, or leave it.
LEMMA HolderStep ==
  ASSUME TypeOK, StartSection, NEW t \in Tasks, pc[t] \in InStart,
         \A u \in Tasks \ {t} : pc'[u] = pc[u], procs' = procs,
         \/ holder' = None /\ pc'[t] \notin InStart
         \/ holder' = holder /\ (pc'[t] \in Launching => pc[t] \in Launching)
  PROVE  StartSection'
  BY TasksAreTasks DEF StartSection, InStart, Launching

\* A caller that resets the crash state may evict the holder.
LEMMA ResetStep ==
  ASSUME TypeOK, StartSection, NEW c \in Callers, NEW next \in TaskState, NEW v, NEW h,
         next \notin InStart, ResetCrashState, Move(c, next, v, h, Cancelled), procs' = procs
  PROVE  StartSection'
<1>1. c \in Tasks /\ pc'[c] = next
  BY MoveEffect, StateNames
<1>2. \A u \in Tasks \ {c} : pc'[u] = IF u \in Cancelled THEN "idle" ELSE pc[u]
  BY <1>1, MoveEffect
<1>3. holder' = IF holder \in Cancelled THEN None ELSE holder
  BY DEF ResetCrashState
<1>4. QED
  BY <1>1, <1>2, <1>3 DEF StartSection, InStart, Launching

LEMMA NextSection == TypeOK /\ StartSection /\ Next => StartSection'
<1> SUFFICES ASSUME TypeOK, StartSection, Next PROVE StartSection'
  OBVIOUS
<1> USE StateNames
<1>1. ASSUME NEW c \in Callers, CallWebStart(c) PROVE StartSection'
  BY <1>1, ResetStep
  DEF CallWebStart, procVars, InStart, Launching, TaskState
<1>2. ASSUME NEW c \in Callers, CallStart(c) PROVE StartSection'
  BY <1>2, GotoEffect, OutsideStep
  DEF CallStart, procVars, InStart, Launching
<1>3. ASSUME NEW c \in Callers, CallStop(c) PROVE StartSection'
  BY <1>3, GotoEffect, OutsideStep
  DEF CallStop, procVars, InStart, Launching
<1>4. ASSUME NEW c \in Callers, CallView(c) PROVE StartSection'
  BY <1>4, GotoEffect, OutsideStep
  DEF CallView, procVars, InStart, Launching
<1>5. ASSUME NEW c \in Callers, ViewRead(c) PROVE StartSection'
  BY <1>5, GotoEffect, OutsideStep
  DEF ViewRead, procVars, Correction, InStart, Launching
<1>6. ASSUME NEW c \in Callers, ViewCommit(c) PROVE StartSection'
  BY <1>6, GotoEffect, OutsideStep
  DEF ViewCommit, procVars, InStart, Launching
<1>7. ASSUME NEW t \in Tasks, Acquire(t) PROVE StartSection'
  BY <1>7, MoveEffect, GotoEffect, OutsideStep, TasksAreTasks
  DEF Acquire, procVars, LockWoken, Finish, StartSection, InStart, Launching
<1>8. ASSUME NEW t \in Tasks, Load(t) PROVE StartSection'
  BY <1>8, MoveEffect, HolderStep
  DEF Load, procVars, InStart, Launching
<1>9. ASSUME NEW t \in Tasks, Preflight(t) PROVE StartSection'
  BY <1>9, MoveEffect, HolderStep
  DEF Preflight, procVars, Release, Finish, InStart, Launching
<1>10. ASSUME NEW t \in Tasks, MarkStarting(t) PROVE StartSection'
  BY <1>10, MoveEffect, HolderStep
  DEF MarkStarting, procVars, Release, Finish, InStart, Launching
<1>11. ASSUME NEW t \in Tasks, FailMark(t) PROVE StartSection'
  BY <1>11, MoveEffect, HolderStep
  DEF FailMark, procVars, Release, Finish, InStart, Launching
<1>12. ASSUME NEW t \in Tasks, SpawnFails(t) PROVE StartSection'
  BY <1>12, GotoEffect, HolderStep
  DEF SpawnFails, procVars, InStart, Launching
<1>13. ASSUME NEW t \in Tasks, Spawn(t) PROVE StartSection'
  BY <1>13, MoveEffect
  DEF Spawn, StartSection, InStart, Launching
<1>14. ASSUME NEW t \in Tasks, Started(t) PROVE StartSection'
  BY <1>14, MoveEffect, HolderStep
  DEF Started, Release, Finish, InStart, Launching
<1>15. ASSUME NEW c \in Callers, StopRead(c) PROVE StartSection'
  BY <1>15, ResetStep
  DEF StopRead, procVars, InStart, Launching, TaskState
<1>16. ASSUME NEW c \in Callers, StopMark(c) PROVE StartSection'
  BY <1>16, MoveEffect, OutsideStep
  DEF StopMark, InStart, Launching
<1>17. ASSUME NEW c \in Callers, StopEscalate(c) PROVE StartSection'
  BY <1>17, OutsideStep
  DEF StopEscalate, taskVars, InStart, Launching
<1>18. ASSUME NEW c \in Callers, StopFinish(c) PROVE StartSection'
  BY <1>18, GotoEffect, OutsideStep
  DEF StopFinish, InStart, Launching
<1>19. ASSUME NEW c \in Callers, StopDone(c) PROVE StartSection'
  BY <1>19, MoveEffect, OutsideStep
  DEF StopDone, procVars, InStart, Launching
<1>20. ASSUME NEW c \in Callers, RestartPause(c) PROVE StartSection'
  BY <1>20, GotoEffect, OutsideStep
  DEF RestartPause, procVars, InStart, Launching
<1>21. ASSUME NEW p \in Launch, Exit(p) PROVE StartSection'
  BY <1>21
  DEF Exit, taskVars, StartSection
<1>22. ASSUME NEW p \in Launch, WatchWake(p) PROVE StartSection'
  BY <1>22
  DEF WatchWake, taskVars, StartSection
<1>23. ASSUME NEW p \in Launch, WatchRead(p) PROVE StartSection'
  BY <1>23
  DEF WatchRead, taskVars, procVars, StartSection
<1>24. ASSUME NEW p \in Launch, WatchCommit(p) PROVE StartSection'
  BY <1>24, OutsideStep
  DEF WatchCommit, HandleCrash, procVars, StartSection, TypeOK, InStart, Launching
<1>25. ASSUME NEW p \in Launch, RestartCheck(p) PROVE StartSection'
  BY <1>25, GotoEffect, OutsideStep
  DEF RestartCheck, procVars, InStart, Launching
<1>26. ASSUME NEW p \in Launch, ReadyImmediate(p) PROVE StartSection'
  BY <1>26
  DEF ReadyImmediate, ReadyGoto, procVars, taskVars, StartSection
<1>27. ASSUME NEW p \in Launch, ReadyBegin(p) PROVE StartSection'
  BY <1>27
  DEF ReadyBegin, ReadyGoto, procVars, taskVars, StartSection
<1>28. ASSUME NEW p \in Launch, ReadyPoll(p) PROVE StartSection'
  BY <1>28
  DEF ReadyPoll, ReadyGoto, procVars, taskVars, StartSection
<1>29. ASSUME NEW p \in Launch, ReadyRead(p) PROVE StartSection'
  BY <1>29
  DEF ReadyRead, ReadyGoto, procVars, taskVars, StartSection
<1>30. ASSUME NEW p \in Launch, ReadyCommit(p) PROVE StartSection'
  BY <1>30
  DEF ReadyCommit, procVars, taskVars, StartSection
<1>31. CASE StabilityFires
  BY <1>31 DEF StabilityFires, procVars, taskVars, StartSection
<1>32. CASE Reboot
  BY <1>32 DEF Reboot, StartSection, InStart, Launching
<1>33. QED
  BY <1>1, <1>2, <1>3, <1>4, <1>5, <1>6, <1>7, <1>8, <1>9, <1>10, <1>11, <1>12, <1>13, <1>14, <1>15, <1>16, <1>17, <1>18, <1>19, <1>20, <1>21, <1>22, <1>23, <1>24, <1>25, <1>26, <1>27, <1>28, <1>29, <1>30, <1>31, <1>32
  DEF Next, Call, ViewStep, StartStep, StopStep, WatchStep, ReadyStep

\* The start section belongs to the lock's holder: see StartSection.
THEOREM SectionCorrect == Spec => [](TypeOK /\ StartSection)
<1>1. StartSection /\ UNCHANGED vars => StartSection'
  BY DEF StartSection, vars, procVars, taskVars
<1>2. TypeOK /\ UNCHANGED vars => TypeOK'
  BY DEF TypeOK, vars, rowVars, procVars, taskVars, watchVars, crashVars
<1>3. QED
  BY <1>1, <1>2, InitType, NextType, InitSection, NextSection, PTL DEF Spec
-----------------------------------------------------------------------------
(* ServerLifecycle implements LaunchGate: every step moves the gate as one *)
(* of its actions allows, or leaves it alone.                              *)

gate == <<procs, holder, launched>>

LEMMA GateStep == TypeOK /\ StartSection /\ Next => [Gate!Next]_gate
<1> SUFFICES ASSUME TypeOK, StartSection, Next PROVE Gate!Next \/ UNCHANGED gate
  OBVIOUS
<1> USE DEF gate
<1>1. ASSUME ResetCrashState, UNCHANGED procVars PROVE Gate!Leave \/ UNCHANGED gate
  BY <1>1 DEF ResetCrashState, procVars, Gate!Leave, None
<1>2. ASSUME NEW c \in Callers, Call(c) PROVE Gate!Next \/ UNCHANGED gate
  BY <1>1, <1>2 DEF Call, CallWebStart, CallStart, CallStop, CallView, procVars, Gate!Next
<1>3. ASSUME NEW c \in Callers, ViewStep(c) PROVE UNCHANGED gate
  BY <1>3 DEF ViewStep, ViewRead, ViewCommit, procVars
<1>4. ASSUME NEW t \in Tasks, Acquire(t) PROVE Gate!Enter(t) \/ UNCHANGED gate
  BY <1>4 DEF Acquire, LockWoken, procVars, Gate!Enter, None
<1>5. ASSUME NEW t \in Tasks, StartStep(t) PROVE Gate!Register \/ Gate!Leave \/ UNCHANGED gate
  <2>1. CASE Spawn(t)
    <3>1. procs = None /\ holder = t /\ t # None
      BY <2>1, TasksAreTasks DEF Spawn, StartSection, InStart, Launching
    <3>2. QED
      BY <2>1, <3>1 DEF Spawn, Gate!Register, None
  <2>2. CASE Load(t) \/ Preflight(t) \/ MarkStarting(t) \/ SpawnFails(t) \/ FailMark(t) \/ Started(t)
    BY <2>2 DEF Load, Preflight, MarkStarting, SpawnFails, FailMark, Started, Release, procVars,
                Gate!Leave, None
  <2>3. QED
    BY <1>5, <2>1, <2>2 DEF StartStep
<1>6. ASSUME NEW c \in Callers, StopStep(c) PROVE Gate!Leave \/ UNCHANGED gate
  <2>1. CASE StopRead(c)
    BY <1>1, <2>1 DEF StopRead
  <2>2. CASE StopMark(c) \/ StopEscalate(c) \/ StopDone(c) \/ RestartPause(c)
    BY <2>2 DEF StopMark, StopEscalate, StopDone, RestartPause, procVars, taskVars
  <2>3. QED
    BY <1>6, <2>1, <2>2 DEF StopStep
<1>7. ASSUME NEW c \in Callers, StopFinish(c) PROVE Gate!Drop
  BY <1>7 DEF StopFinish, Gate!Drop, None
<1>8. ASSUME NEW p \in Launch, WatchWake(p) PROVE Gate!Drop \/ UNCHANGED gate
  BY <1>8 DEF WatchWake, taskVars, Gate!Drop, None
<1>9. ASSUME NEW p \in Launch, Exit(p) \/ WatchStep(p) \/ ReadyStep(p) \/ RestartCheck(p)
      PROVE UNCHANGED gate
  BY <1>9 DEF Exit, WatchStep, WatchRead, WatchCommit, ReadyStep, ReadyImmediate, ReadyBegin,
              ReadyPoll, ReadyRead, ReadyCommit, ReadyGoto, RestartCheck, procVars, taskVars
<1>10. CASE StabilityFires
  BY <1>10 DEF StabilityFires, procVars, taskVars
<1>11. CASE Reboot
  BY <1>11 DEF Reboot, Gate!Next, Gate!Crash, None
<1>12. QED
  BY <1>2, <1>3, <1>4, <1>5, <1>6, <1>7, <1>8, <1>9, <1>10, <1>11 DEF Next, Gate!Next

\* The launch gate of VERSION.md is implemented: see LaunchGate.
THEOREM ImplementsGate == Spec => GateSpec
<1>1. Init => Gate!Init
  BY DEF Init, Gate!Init, None
<1>2. TypeOK /\ StartSection /\ [Next]_vars => [Gate!Next]_<<procs, holder, launched>>
  BY GateStep DEF gate, vars, procVars, taskVars
<1>3. QED
  BY <1>1, <1>2, SectionCorrect, PTL DEF Spec, GateSpec, Gate!Spec

\* No start registers a process over a tracked one: see NeverReplacesTracked.
\* The gate alone shows it: Register needs an empty slot.
THEOREM NeverReplaces == Spec => NeverReplacesTracked
<1>1. [Gate!Next]_gate => (procs # None /\ procs' # None => procs' = procs)
  BY DEF gate, Gate!Next, Gate!Enter, Gate!Register, Gate!Leave, Gate!Drop, Gate!Crash, None
<1>2. TypeOK /\ StartSection /\ [Next]_vars => [procs # None /\ procs' # None => procs' = procs]_vars
  BY <1>1, GateStep DEF gate, vars, procVars, taskVars
<1>3. QED
  BY <1>2, SectionCorrect, PTL DEF Spec, NeverReplacesTracked
-----------------------------------------------------------------------------
(* Who empties the process table.                                          *)

\* The steps that change the table.
LEMMA TableChange ==
  ASSUME Next, procs' # procs
  PROVE  \/ \E t \in Tasks : Spawn(t)
         \/ \E c \in Callers : StopFinish(c)
         \/ \E p \in Launch : WatchWake(p)
         \/ Reboot
<1>1. ASSUME NEW t \in Tasks, Acquire(t) \/ StartStep(t) PROVE Spawn(t)
  BY <1>1 DEF StartStep, Acquire, Load, Preflight, MarkStarting, SpawnFails, FailMark, Started, procVars
<1>2. ASSUME NEW c \in Callers, Call(c) \/ ViewStep(c) PROVE FALSE
  BY <1>2 DEF Call, CallWebStart, CallStart, CallStop, CallView, ViewStep, ViewRead, ViewCommit, procVars
<1>3. ASSUME NEW c \in Callers, StopStep(c) PROVE FALSE
  BY <1>3 DEF StopStep, StopRead, StopMark, StopEscalate, StopDone, RestartPause, procVars
<1>4. ASSUME NEW p \in Launch, Exit(p) \/ WatchStep(p) \/ ReadyStep(p) \/ RestartCheck(p) PROVE FALSE
  BY <1>4 DEF Exit, WatchStep, WatchRead, WatchCommit, ReadyStep, ReadyImmediate, ReadyBegin,
              ReadyPoll, ReadyRead, ReadyCommit, ReadyGoto, RestartCheck, procVars
<1>5. CASE StabilityFires
  BY <1>5 DEF StabilityFires, procVars
<1>6. QED
  BY <1>1, <1>2, <1>3, <1>4, <1>5 DEF Next

-----------------------------------------------------------------------------
(* Unattended operation: the manager does not crash and nobody asks for a  *)
(* stop, so every exit is the game server's own.                           *)

Unattended == MaxReboots = 0 /\ \A c \in Callers : Ops[c] \cap {"stop", "restart"} = {}

InStop == {"stopRead", "stopMark", "stopWait", "stopDone"}

\* The invariant: a process that runs is the tracked one, and no stop is under way.
OnlyTrackedLives ==
  /\ \A p \in Launch : Alive(p) => procs = p
  /\ \A c \in Callers : pc[c] \notin InStop

LEMMA NoStopBegins ==
  ASSUME TypeOK, Unattended, OnlyTrackedLives, Next
  PROVE  \A c \in Callers : pc'[c] \notin InStop
<1> USE StateNames DEF InStop
<1> DEFINE Safe == \A c \in Callers : pc'[c] \notin InStop
<1>0. \A c \in Callers : pc[c] \notin InStop
  BY DEF OnlyTrackedLives
<1>1. ASSUME NEW t \in Tasks, NEW next, next \notin InStop, NEW v, NEW h, NEW gone,
             Move(t, next, v, h, gone)
      PROVE Safe
  <2>1. \A c \in Callers : pc'[c] = next \/ pc'[c] = "idle" \/ pc'[c] = pc[c]
    BY <1>1, MoveEffect
  <2>2. QED
    BY <1>0, <1>1, <2>1
<1>2. ASSUME NEW t \in Tasks, NEW next, next \notin InStop, Goto(t, next) PROVE Safe
  BY <1>0, <1>2, GotoEffect
<1>3. ASSUME NEW t \in Tasks, Acquire(t) PROVE Safe
  <2>1. CASE Finish(t)
    BY <1>1, <2>1 DEF Finish
  <2>2. CASE Goto(t, IF seen[t] = "unloaded" THEN "load" ELSE "mark")
    BY <1>2, <2>2
  <2>3. QED
    BY <1>3, <2>1, <2>2 DEF Acquire
<1>4. ASSUME NEW t \in Tasks, Load(t) \/ Preflight(t) \/ MarkStarting(t) PROVE Safe
  BY <1>1, <1>4 DEF Load, Preflight, MarkStarting, Release, Finish
<1>5. ASSUME NEW t \in Tasks, Spawn(t) \/ SpawnFails(t) \/ FailMark(t) \/ Started(t) PROVE Safe
  BY <1>1, <1>2, <1>5 DEF Spawn, SpawnFails, FailMark, Started, Release, Finish
<1>6. ASSUME NEW c \in Callers, Call(c) PROVE Safe
  <2>1. ~CallStop(c)
    BY DEF Unattended, CallStop
  <2>2. QED
    BY <1>1, <1>2, <1>6, <2>1 DEF Call, CallWebStart, CallStart, CallView
<1>7. ASSUME NEW c \in Callers, ViewStep(c) PROVE Safe
  BY <1>2, <1>7 DEF ViewStep, ViewRead, ViewCommit, Correction
<1>8. ASSUME NEW c \in Callers, StopStep(c) \/ StopFinish(c) PROVE Safe
  <2>1. RestartPause(c)
    BY <1>0, <1>8 DEF StopStep, StopFinish, StopRead, StopMark, StopEscalate, StopDone, StopWoken
  <2>2. QED
    BY <1>2, <2>1 DEF RestartPause
<1>9. ASSUME NEW p \in Launch, WatchCommit(p) PROVE Safe
  <2>1. pc' = pc \/ pc' = [pc EXCEPT ![p] = "sleep"]
    BY <1>9 DEF WatchCommit, HandleCrash
  <2>2. QED
    BY <1>0, <2>1 DEF TypeOK
<1>10. ASSUME NEW p \in Launch, RestartCheck(p) PROVE Safe
  BY <1>2, <1>10 DEF RestartCheck
<1>11. ASSUME NEW p \in Launch, WatchWake(p) \/ Exit(p) \/ WatchRead(p) \/ ReadyStep(p) PROVE Safe
  <2>1. pc' = pc
    BY <1>11 DEF WatchWake, Exit, WatchRead, ReadyStep, ReadyImmediate, ReadyBegin, ReadyPoll,
                 ReadyRead, ReadyCommit, ReadyGoto, taskVars
  <2>2. QED
    BY <1>0, <2>1
<1>12. CASE StabilityFires
  BY <1>0, <1>12 DEF StabilityFires, taskVars
<1>13. CASE Reboot
  BY <1>13 DEF Reboot
<1>14. QED
  BY <1>3, <1>4, <1>5, <1>6, <1>7, <1>8, <1>9, <1>10, <1>11, <1>12, <1>13
  DEF Next, StartStep, WatchStep

\* The steps that change a process.
LEMMA ProcessChange ==
  ASSUME Next, proc' # proc
  PROVE  \/ \E t \in Tasks : Spawn(t)
         \/ \E c \in Callers : StopMark(c) \/ StopEscalate(c)
         \/ \E p \in Launch : Exit(p)
         \/ Reboot
<1>1. ASSUME NEW t \in Tasks, Acquire(t) \/ StartStep(t) PROVE Spawn(t)
  BY <1>1 DEF StartStep, Acquire, Load, Preflight, MarkStarting, SpawnFails, FailMark, Started, procVars
<1>2. ASSUME NEW c \in Callers, Call(c) \/ ViewStep(c) PROVE FALSE
  BY <1>2 DEF Call, CallWebStart, CallStart, CallStop, CallView, ViewStep, ViewRead, ViewCommit, procVars
<1>3. ASSUME NEW c \in Callers, StopStep(c) \/ StopFinish(c) PROVE StopMark(c) \/ StopEscalate(c)
  BY <1>3 DEF StopStep, StopFinish, StopRead, StopDone, RestartPause, procVars
<1>4. ASSUME NEW p \in Launch, WatchWake(p) \/ WatchStep(p) \/ ReadyStep(p) \/ RestartCheck(p) PROVE FALSE
  BY <1>4 DEF WatchWake, WatchStep, WatchRead, WatchCommit, ReadyStep, ReadyImmediate, ReadyBegin,
              ReadyPoll, ReadyRead, ReadyCommit, ReadyGoto, RestartCheck, procVars
<1>5. CASE StabilityFires
  BY <1>5 DEF StabilityFires, procVars
<1>6. QED
  BY <1>1, <1>2, <1>3, <1>4, <1>5 DEF Next

LEMMA TrackedStep ==
  ASSUME TypeOK, StartSection, Unattended, OnlyTrackedLives, Next
  PROVE  OnlyTrackedLives'
<1>1. \A p \in Launch : Alive(p) => procs = p
  BY DEF OnlyTrackedLives
<1>2. \A c \in Callers : ~StopFinish(c) /\ ~StopMark(c) /\ ~StopEscalate(c)
  BY DEF OnlyTrackedLives, InStop, StopFinish, StopWoken, StopMark, StopEscalate
<1>3. ~Reboot
  BY DEF Unattended, Reboot, TypeOK
<1>4. CASE \E t \in Tasks : Spawn(t)
  <2>1. PICK t \in Tasks : Spawn(t)
    BY <1>4
  <2>2. procs = None
    BY <2>1 DEF Spawn, StartSection, Launching
  <2>3. \A p \in Launch : ~Alive(p)
    BY <1>1, <2>2 DEF Launch, None
  <2>4. procs' = launched + 1 /\ proc' = [proc EXCEPT ![launched + 1] = "up"]
    BY <2>1 DEF Spawn
  <2>5. \A p \in Launch : Alive(p)' => procs' = p
    BY <2>3, <2>4 DEF Alive, TypeOK
  <2>6. QED
    BY <2>5, NoStopBegins DEF OnlyTrackedLives
<1>5. CASE \E p \in Launch : Exit(p)
  <2>1. PICK q \in Launch : Exit(q)
    BY <1>5
  <2>2. procs' = procs /\ proc' = [proc EXCEPT ![q] = "dead"]
    BY <2>1 DEF Exit
  <2>3. \A p \in Launch : Alive(p)' => procs' = p
    BY <1>1, <2>2 DEF Alive, TypeOK
  <2>4. QED
    BY <2>3, NoStopBegins DEF OnlyTrackedLives
<1>6. CASE \E p \in Launch : WatchWake(p)
  <2>1. PICK q \in Launch : WatchWake(q)
    BY <1>6
  <2>2. ~Alive(q) /\ proc' = proc /\ procs' = IF procs = q THEN None ELSE procs
    BY <2>1 DEF WatchWake, WatchWoken
  <2>3. \A p \in Launch : Alive(p)' => procs' = p
    BY <1>1, <2>2 DEF Alive
  <2>4. QED
    BY <2>3, NoStopBegins DEF OnlyTrackedLives
<1>7. CASE procs' = procs /\ proc' = proc
  BY <1>1, <1>7, NoStopBegins DEF OnlyTrackedLives, Alive
<1>8. QED
  BY <1>2, <1>3, <1>4, <1>5, <1>6, <1>7, TableChange, ProcessChange

\* Unattended, the server has one process at most: see AtMostOneAlive.
THEOREM UnattendedOneAlive ==
  ASSUME Unattended
  PROVE  Spec => []AtMostOneAlive
<1>1. Init => OnlyTrackedLives
  BY StateNames DEF Init, OnlyTrackedLives, Alive, InStop
<1>2. TypeOK /\ StartSection /\ OnlyTrackedLives /\ [Next]_vars => OnlyTrackedLives'
  BY TrackedStep DEF OnlyTrackedLives, Alive, vars, procVars, taskVars
<1>3. OnlyTrackedLives => AtMostOneAlive
  BY DEF OnlyTrackedLives, AtMostOneAlive
<1>4. QED
  BY <1>1, <1>2, <1>3, SectionCorrect, PTL DEF Spec

-----------------------------------------------------------------------------
(* Who takes a process from the table, and who removes gsm.pid.            *)

\* The tracked process is the one launched last, and a watcher that has been
\* woken is one of a dead process.
PidInv ==
  /\ procs \in {None, launched}
  /\ \A p \in Launch : watch[p] \in {"read", "same", "differs"} => ~Alive(p)

\* The steps that change the number of launches, gsm.pid, or what watchers await.
LEMMA LaunchChange == ASSUME Next, launched' # launched PROVE \E t \in Tasks : Spawn(t)
<1>1. ASSUME NEW t \in Tasks, Acquire(t) \/ StartStep(t) PROVE Spawn(t)
  BY <1>1 DEF StartStep, Acquire, Load, Preflight, MarkStarting, SpawnFails, FailMark, Started, procVars
<1>2. ASSUME NEW c \in Callers, Call(c) \/ ViewStep(c) PROVE FALSE
  BY <1>2 DEF Call, CallWebStart, CallStart, CallStop, CallView, ViewStep, ViewRead, ViewCommit, procVars
<1>3. ASSUME NEW c \in Callers, StopStep(c) \/ StopFinish(c) PROVE FALSE
  BY <1>3 DEF StopStep, StopFinish, StopRead, StopMark, StopEscalate, StopDone, RestartPause, procVars
<1>4. ASSUME NEW p \in Launch, WatchWake(p) \/ Exit(p) \/ WatchStep(p) \/ ReadyStep(p) \/ RestartCheck(p)
      PROVE FALSE
  BY <1>4 DEF WatchWake, Exit, WatchStep, WatchRead, WatchCommit, ReadyStep, ReadyImmediate, ReadyBegin,
              ReadyPoll, ReadyRead, ReadyCommit, ReadyGoto, RestartCheck, procVars
<1>5. CASE StabilityFires
  BY <1>5 DEF StabilityFires, procVars
<1>6. CASE Reboot
  BY <1>6 DEF Reboot
<1>7. QED
  BY <1>1, <1>2, <1>3, <1>4, <1>5, <1>6 DEF Next

LEMMA PidChange ==
  ASSUME Next, pidFile' # pidFile
  PROVE  \/ \E t \in Tasks : Spawn(t)
         \/ \E c \in Callers : StopFinish(c)
         \/ \E p \in Launch : WatchRead(p)
         \/ Reboot
<1>1. ASSUME NEW t \in Tasks, Acquire(t) \/ StartStep(t) PROVE Spawn(t)
  BY <1>1 DEF StartStep, Acquire, Load, Preflight, MarkStarting, SpawnFails, FailMark, Started, rowVars
<1>2. ASSUME NEW c \in Callers, Call(c) \/ ViewStep(c) PROVE FALSE
  BY <1>2 DEF Call, CallWebStart, CallStart, CallStop, CallView, ViewStep, ViewRead, ViewCommit, rowVars
<1>3. ASSUME NEW c \in Callers, StopStep(c) PROVE FALSE
  BY <1>3 DEF StopStep, StopRead, StopMark, StopEscalate, StopDone, RestartPause, rowVars
<1>4. ASSUME NEW p \in Launch, WatchWake(p) \/ Exit(p) \/ WatchStep(p) \/ ReadyStep(p) \/ RestartCheck(p)
      PROVE WatchRead(p)
  BY <1>4 DEF WatchWake, Exit, WatchStep, WatchCommit, ReadyStep, ReadyImmediate, ReadyBegin,
              ReadyPoll, ReadyRead, ReadyCommit, ReadyGoto, RestartCheck, rowVars
<1>5. CASE StabilityFires
  BY <1>5 DEF StabilityFires, rowVars
<1>6. QED
  BY <1>1, <1>2, <1>3, <1>4, <1>5 DEF Next

LEMMA WatchChange ==
  ASSUME Next, watch' # watch
  PROVE  \/ \E t \in Tasks : Started(t)
         \/ \E p \in Launch : WatchWake(p) \/ WatchStep(p)
         \/ Reboot
<1>1. ASSUME NEW t \in Tasks, Acquire(t) \/ StartStep(t) PROVE Started(t)
  BY <1>1 DEF StartStep, Acquire, Load, Preflight, MarkStarting, Spawn, SpawnFails, FailMark, watchVars
<1>2. ASSUME NEW c \in Callers, Call(c) \/ ViewStep(c) PROVE FALSE
  BY <1>2 DEF Call, CallWebStart, CallStart, CallStop, CallView, ViewStep, ViewRead, ViewCommit, watchVars
<1>3. ASSUME NEW c \in Callers, StopStep(c) \/ StopFinish(c) PROVE FALSE
  BY <1>3 DEF StopStep, StopFinish, StopRead, StopMark, StopEscalate, StopDone, RestartPause, watchVars
<1>4. ASSUME NEW p \in Launch, Exit(p) \/ ReadyStep(p) \/ RestartCheck(p) PROVE FALSE
  BY <1>4 DEF Exit, ReadyStep, ReadyImmediate, ReadyBegin, ReadyPoll, ReadyRead, ReadyCommit, ReadyGoto,
              RestartCheck, watchVars
<1>5. CASE StabilityFires
  BY <1>5 DEF StabilityFires, watchVars
<1>6. QED
  BY <1>1, <1>2, <1>3, <1>4, <1>5 DEF Next

\* Dead processes stay dead.
LEMMA DeadStays ==
  ASSUME TypeOK, Next, NEW p \in Launch, ~Alive(p), p <= launched PROVE ~Alive(p)'
<1>1. CASE proc' = proc
  BY <1>1 DEF Alive
<1>2. ASSUME NEW t \in Tasks, Spawn(t) PROVE ~Alive(p)'
  <2>1. proc' = [proc EXCEPT ![launched + 1] = "up"] /\ p # launched + 1
    BY <1>2 DEF Spawn, TypeOK, Launch
  <2>2. QED
    BY <2>1 DEF Alive, TypeOK
<1>3. ASSUME NEW q, NEW s \in {"command", "term", "kill"}, Signal(q, s) PROVE ~Alive(p)'
  BY <1>3 DEF Signal, Stronger, Alive, TypeOK
<1>4. ASSUME NEW c \in Callers, StopMark(c) \/ StopEscalate(c) PROVE ~Alive(p)'
  <2>1. \E s \in {"command", "term", "kill"} : Signal(handle[c], s)
    BY <1>4 DEF StopMark, StopEscalate, StopSignal
  <2>2. QED
    BY <1>3, <2>1
<1>5. ASSUME NEW q \in Launch, Exit(q) PROVE ~Alive(p)'
  BY <1>5 DEF Exit, Alive, TypeOK
<1>6. CASE Reboot
  BY <1>1, <1>3, <1>6 DEF Reboot
<1>7. QED
  BY <1>1, <1>2, <1>4, <1>5, <1>6, ProcessChange

LEMMA PidStep == ASSUME TypeOK, PidInv, Next PROVE PidInv'
<1>1. (procs \in {None, launched})'
  <2>1. CASE procs' = procs /\ launched' = launched
    BY <2>1 DEF PidInv
  <2>2. CASE launched' # launched
    BY <2>2, LaunchChange DEF Spawn
  <2>3. CASE procs' # procs
    BY <2>3, TableChange DEF Spawn, StopFinish, WatchWake, Reboot, None
  <2>4. QED
    BY <2>1, <2>2, <2>3
<1>2. ASSUME NEW p \in Launch, watch'[p] \in {"read", "same", "differs"} PROVE ~Alive(p)'
  <2>1. ~Alive(p) /\ p <= launched
    <3>1. CASE watch[p] \in {"read", "same", "differs"}
      BY <3>1 DEF PidInv, TypeOK, Launch
    <3>2. CASE watch[p] \notin {"read", "same", "differs"}
      <4>1. ASSUME NEW t \in Tasks, Started(t) PROVE FALSE
        BY <1>2, <3>2, <4>1 DEF Started, TypeOK
      <4>2. ASSUME NEW q \in Launch, WatchWake(q) PROVE q = p /\ watch[p] = "wait" /\ ~Alive(p)
        BY <1>2, <3>2, <4>2 DEF WatchWake, WatchWoken, TypeOK
      <4>3. ASSUME NEW q \in Launch, WatchStep(q) PROVE FALSE
        BY <1>2, <3>2, <4>3 DEF WatchStep, WatchRead, WatchCommit, TypeOK
      <4>4. ~Reboot
        BY <1>2 DEF Reboot
      <4>5. PICK q \in Launch : WatchWake(q) \/ WatchStep(q)
        BY <1>2, <3>2, <4>1, <4>4, WatchChange
      <4>6. watch[p] = "wait" /\ ~Alive(p)
        BY <4>2, <4>3, <4>5
      <4>7. QED
        BY <4>6 DEF TypeOK, Launch
    <3>3. QED
      BY <3>1, <3>2
  <2>2. QED
    BY <2>1, DeadStays
<1>3. QED
  BY <1>1, <1>2 DEF PidInv

LEMMA PidInit == Init => PidInv
  BY DEF Init, PidInv, None

\* What may happen to the entry and to the file of a tracked process p that runs.
Kept(p) ==
  /\ procs' # p => reboots' # reboots \/ StaleStop(p)
  /\ pidFile = p /\ pidFile' # p => reboots' # reboots \/ StaleStop(p) \/ StaleWatch(p)

LEMMA KeptStep ==
  ASSUME TypeOK, StartSection, PidInv, Next, NEW p \in Launch, procs = p, Alive(p) PROVE Kept(p)
<1>1. launched = p
  BY DEF PidInv, Launch, None
<1>2. ASSUME NEW t \in Tasks, Spawn(t) PROVE FALSE
  <2>1. procs = None
    BY <1>2 DEF Spawn, StartSection, Launching
  <2>2. QED
    BY <2>1 DEF Launch, None
<1>3. ASSUME NEW c \in Callers, StopFinish(c) PROVE StaleStop(p)
  <2>1. pc[c] = "stopWait" /\ ~Alive(handle[c]) /\ pc'[c] = "stopDone"
    BY <1>3, StateNames, GotoEffect DEF StopFinish, StopWoken
  <2>2. handle[c] \in 0 .. launched /\ handle[c] # p
    BY <2>1, StateNames DEF TypeOK
  <2>3. QED
    BY <1>1, <2>1, <2>2 DEF StaleStop, Launch
<1>4. ASSUME NEW q \in Launch, WatchRead(q) PROVE StaleWatch(p)
  <2>1. watch[q] = "read" /\ watch'[q] # "read"
    BY <1>4 DEF WatchRead, TypeOK, View
  <2>2. q <= launched /\ q # p
    BY <2>1 DEF PidInv, TypeOK, Launch
  <2>3. QED
    BY <1>1, <2>1, <2>2 DEF StaleWatch, Launch
<1>5. ASSUME NEW q \in Launch, WatchWake(q) PROVE procs' = procs
  BY <1>5 DEF WatchWake, WatchWoken
<1>6. CASE Reboot
  BY <1>6, LaunchAssumption DEF Reboot, TypeOK, Kept
<1>7. procs' # p => reboots' # reboots \/ StaleStop(p)
  BY <1>2, <1>3, <1>5, <1>6, TableChange DEF Kept
<1>8. pidFile = p /\ pidFile' # p => reboots' # reboots \/ StaleStop(p) \/ StaleWatch(p)
  BY <1>2, <1>3, <1>4, <1>6, PidChange DEF Kept
<1>9. QED
  BY <1>7, <1>8 DEF Kept

\* Only what is stale, or the manager's death, drops a live process from the table
\* or removes its gsm.pid: see OnlyStaleForgetsLive.
THEOREM OnlyStaleForgets == Spec => OnlyStaleForgetsLive
<1> DEFINE Step == \A p \in Launch : procs = p /\ Alive(p) =>
       /\ procs' # p => reboots' # reboots \/ StaleStop(p)
       /\ pidFile = p /\ pidFile' # p => reboots' # reboots \/ StaleStop(p) \/ StaleWatch(p)
<1>1. TypeOK /\ PidInv /\ [Next]_vars => PidInv'
  BY PidStep DEF PidInv, Alive, vars, procVars, watchVars
<1>2. TypeOK /\ StartSection /\ PidInv /\ [Next]_vars => [Step]_vars
  BY KeptStep DEF Kept
<1>3. QED
  BY <1>1, <1>2, PidInit, SectionCorrect, PTL DEF Spec, OnlyStaleForgetsLive

-----------------------------------------------------------------------------
(* The crash-restart budget.  A crash that is counted below the limit      *)
(* creates one restart task, and a restart task launches once at most: the *)
(* launches made and the tasks on their way to one are paid for by the     *)
(* crashes counted, in this epoch and the ones before it.                  *)

\* The restart tasks that may still launch.
OnTheWay == {"sleep", "acquire", "load", "mark", "spawn"}
Pending  == {r \in Launch : pc[r] \in OnTheWay}

Spent == IF count <= MaxRestarts THEN count ELSE MaxRestarts
Budget ==
  /\ auto \in Nat /\ epochs \in Nat
  /\ auto + Cardinality(Pending) <= MaxRestarts * epochs + Spent

LEMMA PendingFinite == IsFiniteSet(Pending) /\ Cardinality(Pending) \in Nat
<1>1. IsFiniteSet(Launch)
  BY FS_Interval, LaunchAssumption DEF Launch
<1>2. Pending \subseteq Launch
  BY DEF Pending
<1>3. QED
  BY <1>1, <1>2, FS_Subset, FS_CardinalityType

\* A step that puts no restart task on its way and launches nothing, and keeps
\* the counter or puts it back to 0.
LEMMA QuietBudget ==
  ASSUME TypeOK, Budget, Pending' \subseteq Pending, launched' = launched,
         count' = count \/ count' = 0, Record
  PROVE  Budget'
<1>1. Cardinality(Pending') <= Cardinality(Pending) /\ Cardinality(Pending') \in Nat
  BY PendingFinite, FS_Subset, FS_CardinalityType
<1>2. auto' = auto
  BY DEF Record, Launches
<1>3. count \in Nat /\ MaxRestarts \in Nat /\ auto \in Nat /\ epochs \in Nat
      /\ Cardinality(Pending) \in Nat
  BY PendingFinite, RestartAssumption DEF TypeOK, Budget
<1>4. auto + Cardinality(Pending) <= MaxRestarts * epochs + Spent
  BY DEF Budget
<1>5. CASE count' = count
  <2>1. epochs' = epochs /\ Spent' = Spent
    BY <1>5 DEF Record, Spent
  <2>2. MaxRestarts * epochs \in Nat /\ Spent \in Nat
    BY <1>3 DEF Spent
  <2>3. QED
    BY <1>1, <1>2, <1>3, <1>4, <2>1, <2>2 DEF Budget
<1>6. CASE count # 0 /\ count' = 0
  <2>1. epochs' = epochs + 1 /\ Spent' = 0
    BY <1>3, <1>6 DEF Record, Spent
  <2>2. MaxRestarts * (epochs + 1) = MaxRestarts * epochs + MaxRestarts
    BY <1>3
  <2>3. Spent <= MaxRestarts /\ MaxRestarts * epochs \in Nat /\ Spent \in Nat
    BY <1>3 DEF Spent
  <2>4. auto + Cardinality(Pending') <= MaxRestarts * epochs + MaxRestarts
    BY <1>1, <1>3, <1>4, <2>3
  <2>5. QED
    BY <1>1, <1>2, <1>3, <2>1, <2>2, <2>4 DEF Budget
<1>7. QED
  BY <1>5, <1>6

\* A launch by a restart task turns a pending one into a made one.
LEMMA SpawnBudget ==
  ASSUME TypeOK, StartSection, Budget, NEW t \in Tasks, Spawn(t), Record
  PROVE  Budget'
<1>1. pc[t] = "spawn" /\ holder = t /\ pc'[t] = "started" /\ \A u \in Tasks \ {t} : pc'[u] = pc[u]
  BY MoveEffect DEF Spawn, StartSection, InStart, Launching
<1>2. Pending' = Pending \ {t}
  BY <1>1, StateNames DEF Pending, OnTheWay
<1>3. launched' # launched
  BY DEF Spawn, TypeOK
<1>4. count' = count
  BY DEF Spawn, crashVars
<1>5. epochs' = epochs /\ Spent' = Spent
  BY <1>4 DEF Record, Spent
<1>6. Cardinality(Pending) \in Nat /\ IsFiniteSet(Pending)
  BY PendingFinite
<1>7. CASE t \in Launch
  <2>1. auto' = auto + 1
    BY <1>1, <1>3, <1>7 DEF Record, Launches
  <2>2. t \in Pending
    BY <1>1, <1>7 DEF Pending, OnTheWay
  <2>3. Cardinality(Pending') = Cardinality(Pending) - 1
    BY <1>2, <1>6, <2>2, FS_RemoveElement
  <2>4. QED
    BY <1>5, <1>6, <2>1, <2>3 DEF Budget
<1>8. CASE t \in Callers
  <2>1. auto' = auto
    BY <1>1, <1>8, TasksAreTasks DEF Record
  <2>2. Pending' = Pending
    BY <1>2, <1>8, TasksAreTasks DEF Pending
  <2>3. QED
    BY <1>5, <2>1, <2>2 DEF Budget
<1>9. QED
  BY <1>7, <1>8 DEF Tasks

\* A crash that is counted pays for the restart task it creates.
LEMMA CrashBudget ==
  ASSUME TypeOK, Budget, NEW p \in Launch, WatchCommit(p), Record
  PROVE  Budget'
<1>1. launched' = launched
  BY DEF WatchCommit, procVars
<1>2. CASE pc' = pc /\ count' = count
  BY <1>1, <1>2, QuietBudget DEF Pending
<1>3. CASE HandleCrash(p)
  <2>1. count' = count + 1 /\ count \in Nat /\ MaxRestarts \in Nat \ {0}
    BY <1>3, RestartAssumption DEF HandleCrash, TypeOK
  <2>2. auto' = auto /\ epochs' = epochs
    BY <1>1, <2>1 DEF Record, Launches
  <2>3. IsFiniteSet(Pending) /\ Cardinality(Pending) \in Nat
    BY PendingFinite
  <2>4. MaxRestarts * epochs \in Nat
    BY <2>1 DEF Budget
  <2>5. CASE count + 1 > MaxRestarts
    <3>1. Pending' = Pending
      BY <1>3, <2>5 DEF HandleCrash, Pending
    <3>2. Spent' = Spent
      BY <2>1, <2>5 DEF Spent
    <3>3. QED
      BY <2>2, <3>1, <3>2 DEF Budget
  <2>6. CASE count + 1 <= MaxRestarts
    <3>1. pc' = [pc EXCEPT ![p] = "sleep"]
      BY <1>3, <2>1, <2>6 DEF HandleCrash
    <3>2. Pending' = Pending \cup {p}
      BY <3>1, StateNames DEF Pending, OnTheWay, TypeOK
    <3>3. Cardinality(Pending') \in Nat /\ Cardinality(Pending') <= Cardinality(Pending) + 1
      BY <2>3, <3>2, FS_AddElement
    <3>4. Spent' = Spent + 1 /\ Spent \in Nat
      BY <2>1, <2>6 DEF Spent
    <3>5. QED
      BY <2>2, <2>3, <2>4, <3>3, <3>4 DEF Budget
  <2>7. QED
    BY <2>1, <2>5, <2>6
<1>4. QED
  BY <1>2, <1>3 DEF WatchCommit, crashVars

\* Every other step only goes on along a restart task's way, or ends it.
LEMMA OtherSteps ==
  ASSUME TypeOK, Next, \A t \in Tasks : ~Spawn(t), \A p \in Launch : ~WatchCommit(p)
  PROVE  Pending' \subseteq Pending /\ launched' = launched /\ (count' = count \/ count' = 0)
<1> USE StateNames
<1> DEFINE Onward == Pending' \subseteq Pending
           Rest   == launched' = launched /\ (count' = count \/ count' = 0)
<1>1. ASSUME NEW t \in Tasks, NEW next, NEW v, NEW h, NEW gone, Move(t, next, v, h, gone),
             \/ next \notin OnTheWay
             \/ t \in Callers
             \/ pc[t] \in OnTheWay
      PROVE Onward
  <2>1. pc'[t] = next /\ \A u \in Tasks \ {t} : pc'[u] = "idle" \/ pc'[u] = pc[u]
    BY <1>1, MoveEffect
  <2>2. QED
    BY <1>1, <2>1, TasksAreTasks DEF Pending, OnTheWay
<1>2. ASSUME NEW t \in Tasks, NEW next, Goto(t, next),
             \/ next \notin OnTheWay
             \/ t \in Callers
             \/ pc[t] \in OnTheWay
      PROVE Onward
  <2>1. pc'[t] = next /\ \A u \in Tasks \ {t} : pc'[u] = pc[u]
    BY <1>2, GotoEffect
  <2>2. QED
    BY <1>2, <2>1, TasksAreTasks DEF Pending
<1>3. ASSUME NEW t \in Tasks, Acquire(t) PROVE Onward /\ Rest
  <2>1. pc[t] \in OnTheWay /\ Rest
    BY <1>3 DEF Acquire, LockWoken, procVars, crashVars, OnTheWay
  <2>2. \/ Finish(t)
        \/ Goto(t, IF seen[t] = "unloaded" THEN "load" ELSE "mark")
    BY <1>3 DEF Acquire
  <2>3. QED
    BY <1>1, <1>2, <2>1, <2>2 DEF Finish
<1>4. ASSUME NEW t \in Tasks, StartStep(t) PROVE Onward /\ Rest
  <2>1. CASE Load(t)
    BY <1>1, <2>1 DEF Load, procVars, crashVars, OnTheWay
  <2>2. CASE MarkStarting(t)
    BY <1>1, <2>2 DEF MarkStarting, Release, Finish, procVars, crashVars, OnTheWay
  <2>3. CASE Preflight(t) \/ SpawnFails(t) \/ FailMark(t) \/ Started(t)
    BY <1>1, <1>2, <2>3 DEF Preflight, SpawnFails, FailMark, Started, Release, Finish,
                            procVars, crashVars, OnTheWay
  <2>4. QED
    BY <1>4, <2>1, <2>2, <2>3 DEF StartStep
<1>5. ASSUME NEW c \in Callers, Call(c) \/ ViewStep(c) PROVE Onward /\ Rest
  BY <1>1, <1>2, <1>5 DEF Call, CallWebStart, CallStart, CallStop, CallView, ViewStep, ViewRead,
                          ViewCommit, ResetCrashState, procVars, crashVars
<1>6. ASSUME NEW c \in Callers, StopStep(c) \/ StopFinish(c) PROVE Onward /\ Rest
  <2>1. CASE StopRead(c)
    BY <1>1, <2>1 DEF StopRead, ResetCrashState, procVars
  <2>2. CASE StopMark(c) \/ StopDone(c) \/ RestartPause(c) \/ StopFinish(c)
    BY <1>1, <1>2, <2>2 DEF StopMark, StopDone, RestartPause, StopFinish, procVars, crashVars
  <2>3. CASE StopEscalate(c)
    BY <2>3 DEF StopEscalate, taskVars, crashVars, Pending
  <2>4. QED
    BY <1>6, <2>1, <2>2, <2>3 DEF StopStep
<1>7. ASSUME NEW r \in Launch, RestartCheck(r) PROVE Onward /\ Rest
  BY <1>2, <1>7 DEF RestartCheck, procVars, crashVars, OnTheWay
<1>8. ASSUME NEW p \in Launch, WatchWake(p) \/ Exit(p) \/ WatchRead(p) \/ ReadyStep(p)
      PROVE Onward /\ Rest
  <2>1. pc' = pc /\ launched' = launched /\ count' = count
    BY <1>8 DEF WatchWake, Exit, WatchRead, ReadyStep, ReadyImmediate, ReadyBegin, ReadyPoll,
                ReadyRead, ReadyCommit, ReadyGoto, taskVars, procVars, crashVars
  <2>2. QED
    BY <2>1 DEF Pending
<1>9. CASE StabilityFires
  BY <1>9 DEF StabilityFires, taskVars, procVars, Pending
<1>10. CASE Reboot
  BY <1>10 DEF Reboot, Pending, OnTheWay
<1>11. QED
  BY <1>3, <1>4, <1>5, <1>6, <1>7, <1>8, <1>9, <1>10 DEF Next, WatchStep

LEMMA BudgetStep ==
  ASSUME TypeOK, StartSection, Budget, [HNext]_hvars
  PROVE  Budget'
<1>1. CASE Next /\ Record
  <2>1. CASE \E t \in Tasks : Spawn(t)
    BY <1>1, <2>1, SpawnBudget
  <2>2. CASE \E p \in Launch : WatchCommit(p)
    BY <1>1, <2>2, CrashBudget
  <2>3. CASE (\A t \in Tasks : ~Spawn(t)) /\ (\A p \in Launch : ~WatchCommit(p))
    BY <1>1, <2>3, OtherSteps, QuietBudget
  <2>4. QED
    BY <2>1, <2>2, <2>3
<1>2. CASE UNCHANGED hvars
  BY <1>2 DEF Budget, Pending, Spent, hvars, vars, historyVars, taskVars, crashVars
<1>3. QED
  BY <1>1, <1>2 DEF HNext

LEMMA InitBudget == HInit => Budget
<1> SUFFICES ASSUME HInit PROVE Budget
  OBVIOUS
<1>1. Pending = {}
  BY StateNames DEF HInit, Init, Pending, OnTheWay
<1>2. Cardinality(Pending) = 0
  BY <1>1, FS_EmptySet
<1>3. QED
  BY <1>2, RestartAssumption DEF HInit, Init, Budget, Spent

LEMMA BudgetBounds == TypeOK /\ Budget => CrashLoopBounded
<1> SUFFICES ASSUME TypeOK, Budget PROVE CrashLoopBounded
  OBVIOUS
<1>1. /\ MaxRestarts \in Nat /\ auto \in Nat /\ epochs \in Nat /\ count \in Nat
      /\ Cardinality(Pending) \in Nat
  BY PendingFinite, RestartAssumption DEF TypeOK, Budget
<1>2. MaxRestarts * (epochs + 1) = MaxRestarts * epochs + MaxRestarts /\ MaxRestarts * epochs \in Nat
  BY <1>1
<1>3. auto <= MaxRestarts * epochs + Spent /\ Spent \in Nat /\ Spent <= MaxRestarts
  <2>1. Spent \in Nat /\ Spent <= MaxRestarts
    BY <1>1 DEF Spent
  <2>2. QED
    BY <1>1, <1>2, <2>1 DEF Budget
<1>4. QED
  BY <1>1, <1>2, <1>3 DEF CrashLoopBounded

\* Unattended launches are bounded: see CrashLoopBounded.
THEOREM CrashLoopIsBounded == HSpec => []CrashLoopBounded
<1>1. HInit => Init
  BY DEF HInit
<1>2. [HNext]_hvars => [Next]_vars
  BY DEF HNext, hvars
<1>3. HSpec => Spec
  BY <1>1, <1>2, PTL DEF HSpec, Spec
<1>4. QED
  BY <1>3, InitBudget, BudgetStep, BudgetBounds, SectionCorrect, PTL DEF HSpec
=============================================================================
