------------------------ MODULE TaskSchedulerProofs ------------------------
(***************************************************************************)
(* What outlives an orderly shutdown, the jobs and the rows they run, and  *)
(* the schedule of the uptime restart, for any number of tasks, requests,  *)
(* executions and starts of the manager.                                   *)
(***************************************************************************)
EXTENDS TaskScheduler, SequenceTheorems, WellFoundedInduction, TLAPS

\* An execution is a record, and one that is under way has a job or a user behind it.
RunShape ==
  /\ run = [x \in Runs |-> [task |-> run[x].task, by |-> run[x].by, at |-> run[x].at, does |-> run[x].does]]
  /\ \A x \in Runs : run[x].at \notin {"idle", "ended"} => run[x].by \in {"job", "user"}

\* From stop_all_servers on, nothing that a user asked for is under way.
UsersAwaited == phase \in {"stopping", "draining"} => \A x \in Runs : ~Spawned(x)

\* A manager that is down executes nothing and starts nothing.
NothingRunsDown ==
  phase = "down" => stray = "none" /\ \A x \in Runs : run[x].at \in {"idle", "ended"}

\* What runs, from stop_all_servers on, will be waited for or was started late.
AwaitedOrLate ==
  /\ orderly => phase = "down"
  /\ phase = "stopping" /\ up => ~nowatch \/ late
  /\ phase = "draining" /\ up => watched \/ late
  /\ orderly /\ up => late

ShutdownInv == RunShape /\ UsersAwaited /\ NothingRunsDown /\ AwaitedOrLate

-----------------------------------------------------------------------------
LEMMA ShutdownInit == Init => ShutdownInv
BY DEF Init, ShutdownInv, RunShape, UsersAwaited, NothingRunsDown, AwaitedOrLate, NoRun, Spawned

\* What touches neither the lifespan, nor the server, nor an execution.
LEMMA Aside ==
  ASSUME ShutdownInv, UNCHANGED <<phase, orderly, procVars, run>>
  PROVE  ShutdownInv'
BY DEF ShutdownInv, RunShape, UsersAwaited, NothingRunsDown, AwaitedOrLate, Spawned, procVars

\* A start that nobody awaits is late once stop_all_servers has looked.
LEMMA LaunchIsLate ==
  ASSUME AwaitedOrLate, UNCHANGED <<phase, orderly>>, phase # "down",
         NEW awaited \in BOOLEAN, Launch(awaited),
         phase \in {"stopping", "draining"} => ~awaited
  PROVE  AwaitedOrLate'
<1>1. late' = (~awaited /\ phase \in {"stopping", "draining"})
  BY DEF Launch
<1>2. phase \in {"stopping", "draining"} => late'
  BY <1>1
<1>3. QED
  BY <1>2 DEF AwaitedOrLate

\* The lifespan, step by step: a shutdown first awaits the users' executions,
\* then stops the server that it finds, then awaits what it could not stop.
LEMMA ShutdownLifespan == ShutdownInv /\ (Lifespan \/ Crash) => ShutdownInv'
<1> SUFFICES ASSUME ShutdownInv, Lifespan \/ Crash PROVE ShutdownInv'
  OBVIOUS
<1> USE DEF ShutdownInv, UsersAwaited, NothingRunsDown, AwaitedOrLate, Spawned
<1>0. ASSUME run' = [x \in Runs |-> Over(run[x])] PROVE RunShape' /\ \A x \in Runs : run'[x].at \in {"idle", "ended"}
  BY <1>0 DEF RunShape, Over, NoRun
<1>1. CASE Boot
  BY <1>1 DEF Boot, RunShape
<1>2. CASE LoadTasks
  BY <1>2 DEF LoadTasks, RunShape, procVars
<1>3. CASE Shutdown
  BY <1>3 DEF Shutdown, RunShape
<1>4. CASE StopAll
  <2>1. RunShape' /\ UsersAwaited' /\ NothingRunsDown'
    BY <1>4 DEF StopAll, FlushEnds, RunShape
  <2>2. phase' = "stopping" /\ ~orderly' /\ late' = (up /\ nowatch) /\ UNCHANGED <<up, nowatch>>
    BY <1>4 DEF StopAll
  <2>3. up' => ~nowatch' \/ late'
    BY <2>2
  <2>4. QED
    BY <2>1, <2>2, <2>3
<1>5. CASE Stopped
  <2>1. RunShape' /\ UsersAwaited' /\ NothingRunsDown'
    BY <1>5 DEF Stopped, RunShape
  <2>2. phase = "stopping" /\ phase' = "draining" /\ ~orderly'
    BY <1>5 DEF Stopped
  <2>3. CASE Gone
    BY <2>1, <2>2, <2>3 DEF Gone
  <2>4. CASE FlushStarts /\ late' = (late /\ nowatch) /\ UNCHANGED <<up, nowatch>>
    <3>1. watched' = (up /\ ~nowatch) /\ late' = (late /\ nowatch) /\ up' = up
      BY <2>4 DEF FlushStarts
    <3>2. up => watched' \/ late'
      BY <2>2, <3>1
    <3>3. QED
      BY <2>1, <2>2, <3>1, <3>2
  <2>5. QED
    BY <1>5, <2>3, <2>4 DEF Stopped
<1>6. CASE SchedulerDown
  BY <1>0, <1>6 DEF SchedulerDown, FlushEnds
<1>7. CASE Crash
  BY <1>0, <1>7 DEF Crash
<1>8. QED
  BY <1>1, <1>2, <1>3, <1>4, <1>5, <1>6, <1>7 DEF Lifespan

\* The server comes up by an awaited start only while requests are served.
LEMMA ShutdownServer == ShutdownInv /\ Server => ShutdownInv'
<1> SUFFICES ASSUME ShutdownInv, Server PROVE ShutdownInv'
  OBVIOUS
<1>1. RunShape' /\ UsersAwaited' /\ UNCHANGED <<phase, orderly, run>>
  BY DEF Server, UserStarts, ServerExits, StrayStarts, WatcherSpawned, lifeVars,
         ShutdownInv, RunShape, UsersAwaited, Spawned
<1>2. NothingRunsDown'
  BY <1>1 DEF Server, UserStarts, ServerExits, StrayStarts, WatcherSpawned, Gone, ShutdownInv, NothingRunsDown
<1>3. CASE UserStarts
  <2>1. phase = "serving" /\ Launch(TRUE)
    BY <1>3 DEF UserStarts
  <2>2. QED
    BY <1>1, <1>2, <2>1, LaunchIsLate DEF ShutdownInv
<1>4. CASE ServerExits
  BY <1>1, <1>2, <1>4 DEF ServerExits, Gone, ShutdownInv, AwaitedOrLate
<1>5. CASE StrayStarts
  <2>1. phase # "down"
    BY <1>5 DEF StrayStarts, ShutdownInv, NothingRunsDown
  <2>2. CASE Launch(FALSE)
    BY <1>1, <1>2, <2>1, <2>2, LaunchIsLate DEF ShutdownInv
  <2>3. CASE UNCHANGED <<up, nowatch, watched, late>>
    BY <1>1, <1>2, <2>3 DEF ShutdownInv, AwaitedOrLate
  <2>4. QED
    BY <1>5, <2>2, <2>3 DEF StrayStarts
<1>6. CASE WatcherSpawned
  BY <1>1, <1>2, <1>6 DEF WatcherSpawned, ShutdownInv, AwaitedOrLate
<1>7. QED
  BY <1>3, <1>4, <1>5, <1>6 DEF Server

\* Requests only change tasks.
LEMMA ShutdownRequest ==
  ASSUME ShutdownInv, NEW r \in Reqs, Request(r)
  PROVE  ShutdownInv'
<1>1. UNCHANGED <<phase, orderly, procVars, run>>
  BY DEF Request, AskCreate, Insert, Refresh, AskToggle, Flip, Apply, AskRemove, Delete, DeleteNext,
         AskSync, SaveSchedule, SyncRead, SyncList, lifeVars
<1>2. QED
  BY <1>1, Aside

\* An execution is a record of these four fields.
IsRun(e) == e = [task |-> e.task, by |-> e.by, at |-> e.at, does |-> e.does]

LEMMA Started ==
  ASSUME NEW t, NEW b, NEW e, e = [NoRun EXCEPT !.task = t, !.by = b, !.at = "read"]
  PROVE  IsRun(e) /\ e.by = b
BY DEF NoRun, IsRun

LEMMA Ended ==
  ASSUME NEW e, e.at # "idle"
  PROVE  Over(e) = [task |-> None, by |-> "nobody", at |-> "ended", does |-> "other"]
BY DEF Over, NoRun

\* Execution x becomes e.
LEMMA RunSet ==
  ASSUME RunShape, NEW x \in Runs, NEW e, run' = [run EXCEPT ![x] = e],
         IsRun(e),
         e.at \notin {"idle", "ended"} => e.by \in {"job", "user"}
  PROVE  RunShape' /\ run'[x] = e /\ \A y \in Runs \ {x} : run'[y] = run[y]
BY DEF RunShape, IsRun

LEMMA RunStarted ==
  ASSUME RunShape, NEW x \in Runs, NEW t, NEW b \in {"job", "user"},
         run' = [run EXCEPT ![x] = [NoRun EXCEPT !.task = t, !.by = b, !.at = "read"]]
  PROVE  RunShape' /\ run'[x].by = b /\ \A y \in Runs \ {x} : run'[y] = run[y]
<1>1. PICK e : e = [NoRun EXCEPT !.task = t, !.by = b, !.at = "read"]
  OBVIOUS
<1>2. run' = [run EXCEPT ![x] = e]
  BY <1>1
<1>3. IsRun(e) /\ e.by = b
  BY <1>1, Started
<1>4. RunShape' /\ run'[x] = e /\ \A y \in Runs \ {x} : run'[y] = run[y]
  BY <1>2, <1>3, RunSet
<1>5. QED
  BY <1>3, <1>4

\* An execution that starts the server once the shutdown has looked is a job's, hence late.
LEMMA ShutdownExecution ==
  ASSUME ShutdownInv, NEW x \in Runs, Execution(x)
  PROVE  ShutdownInv'
<1> USE DEF ShutdownInv, UsersAwaited, NothingRunsDown, AwaitedOrLate, Spawned, procVars
<1>1. CASE Fire(x)
  <2>1. PICK t \in jobs : run' = [run EXCEPT ![x] = [NoRun EXCEPT !.task = t, !.by = "job", !.at = "read"]]
    BY <1>1 DEF Fire
  <2>2. SchedulerAlive /\ UNCHANGED <<phase, orderly, procVars>>
    BY <1>1 DEF Fire, lifeVars
  <2>3. RunShape' /\ run'[x].by = "job" /\ \A y \in Runs \ {x} : run'[y] = run[y]
    BY <2>1, RunStarted
  <2>4. UsersAwaited'
    BY <2>2, <2>3
  <2>5. NothingRunsDown' /\ AwaitedOrLate'
    BY <2>2 DEF SchedulerAlive
  <2>6. QED
    BY <2>3, <2>4, <2>5
<1>2. CASE RunNow(x)
  <2>1. PICK t \in rows : run' = [run EXCEPT ![x] = [NoRun EXCEPT !.task = t, !.by = "user", !.at = "read"]]
    BY <1>2 DEF RunNow
  <2>2. phase = "serving" /\ UNCHANGED <<phase, orderly, procVars>>
    BY <1>2 DEF RunNow, lifeVars
  <2>3. RunShape'
    BY <2>1, RunStarted
  <2>4. QED
    BY <2>2, <2>3
<1>3. CASE Begin(x)
  <2>1. PICK y : run' = [run EXCEPT ![x] = y]
                 /\ y \in {[run[x] EXCEPT !.at = "acting", !.does = ActionOf(name[run[x].task])], Over(run[x])}
    BY <1>3 DEF Begin
  <2>2. run[x].at = "read" /\ UNCHANGED <<phase, orderly, procVars>>
    BY <1>3 DEF Begin, lifeVars
  <2>3. /\ IsRun(y)
        /\ y.at # "ended" => y.by = run[x].by
    BY <2>1, <2>2 DEF RunShape, Over, NoRun, IsRun
  <2>b. y.at \notin {"idle", "ended"} => y.by \in {"job", "user"}
    BY <2>2, <2>3 DEF RunShape
  <2>4. RunShape' /\ run'[x] = y /\ \A z \in Runs \ {x} : run'[z] = run[z]
    BY <2>1, <2>3, <2>b, RunSet
  <2>5. QED
    BY <2>2, <2>3, <2>4
<1>4. CASE Act(x)
  <2>1. run[x].at = "acting" /\ UNCHANGED <<phase, orderly>>
    BY <1>4 DEF Act
  <2>2. phase # "down" /\ run[x].by \in {"job", "user"} /\ (phase \in {"stopping", "draining"} => run[x].by = "job")
    BY <2>1 DEF RunShape
  <2>3. PICK e : run' = [run EXCEPT ![x] = e] /\ IsRun(e) /\ (e.at # "ended" => e.by = run[x].by)
    <3>1. CASE run' = [run EXCEPT ![x] = Over(run[x])]
      <4>1. PICK e : e = Over(run[x])
        OBVIOUS
      <4>2. e = [task |-> None, by |-> "nobody", at |-> "ended", does |-> "other"]
        BY <2>1, <4>1, Ended
      <4>3. IsRun(e) /\ e.at = "ended"
        BY <4>2 DEF IsRun
      <4>4. QED
        BY <3>1, <4>1, <4>3
    <3>2. CASE run' = [run EXCEPT ![x].does = "start"]
      <4>1. PICK e : e = [run[x] EXCEPT !.does = "start"]
        OBVIOUS
      <4>2. run' = [run EXCEPT ![x] = e]
        BY <3>2, <4>1
      <4>3. IsRun(e) /\ e.by = run[x].by
        BY <4>1 DEF RunShape, IsRun
      <4>4. QED
        BY <4>2, <4>3
    <3>3. QED
      BY <1>4, <3>1, <3>2 DEF Act
  <2>4. e.at \notin {"idle", "ended"} => e.by \in {"job", "user"}
    BY <2>2, <2>3
  <2>5. RunShape' /\ run'[x] = e /\ \A y \in Runs \ {x} : run'[y] = run[y]
    BY <2>3, <2>4, RunSet
  <2>6. UsersAwaited' /\ NothingRunsDown'
    BY <2>1, <2>2, <2>3, <2>5
  <2>7. AwaitedOrLate'
    <3>1. CASE UNCHANGED <<up, nowatch, watched, late>>
      BY <2>1, <3>1
    <3>2. CASE Gone
      BY <2>1, <3>2 DEF Gone
    <3>3. CASE Launch(run[x].by = "user")
      <4>1. PICK awaited \in BOOLEAN : awaited = (run[x].by = "user")
        OBVIOUS
      <4>2. Launch(awaited) /\ (phase \in {"stopping", "draining"} => ~awaited)
        BY <2>2, <3>3, <4>1
      <4>3. QED
        BY <2>1, <2>2, <4>2, LaunchIsLate
    <3>4. QED
      BY <1>4, <3>1, <3>2, <3>3 DEF Act, StopServer
  <2>8. QED
    BY <2>5, <2>6, <2>7
<1>5. QED
  BY <1>1, <1>2, <1>3, <1>4 DEF Execution

LEMMA ShutdownNext == ShutdownInv /\ [Next]_vars => ShutdownInv'
<1> SUFFICES ASSUME ShutdownInv, [Next]_vars PROVE ShutdownInv'
  OBVIOUS
<1>1. CASE Lifespan \/ Crash
  BY <1>1, ShutdownLifespan
<1>2. CASE Server
  BY <1>2, ShutdownServer
<1>3. CASE DeleteServer
  BY <1>3, Aside DEF DeleteServer, lifeVars
<1>4. ASSUME NEW r \in Reqs, Request(r) PROVE ShutdownInv'
  BY <1>4, ShutdownRequest
<1>5. ASSUME NEW x \in Runs, Execution(x) PROVE ShutdownInv'
  BY <1>5, ShutdownExecution
<1>6. CASE UNCHANGED vars
  BY <1>6, Aside DEF vars, lifeVars
<1>7. QED
  BY <1>1, <1>2, <1>3, <1>4, <1>5, <1>6 DEF Next

\* After an orderly shutdown (main.py, lifespan) the server runs only if a start
\* that nobody awaited was under way when stop_all_servers looked, or began later:
\* see OnlyLateStartsOutliveShutdown.
THEOREM ShutdownStops == Spec => []OnlyLateStartsOutliveShutdown
<1>1. ShutdownInv => OnlyLateStartsOutliveShutdown
  BY DEF ShutdownInv, AwaitedOrLate, OnlyLateStartsOutliveShutdown
<1>2. QED
  BY <1>1, ShutdownInit, ShutdownNext, PTL DEF Spec
-----------------------------------------------------------------------------
(* Jobs and rows.                                                          *)

\* The types that the proofs need: what names a task names one that was made.
Types ==
  /\ made \in 0 .. MaxTasks
  /\ rows \subseteq 1 .. made /\ enabled \subseteq 1 .. made
  /\ jobs \subseteq 1 .. made /\ contended \subseteq 1 .. made
  /\ name \in [Tasks -> Names] /\ maker \in [Tasks -> 0 .. NumReqs]
  /\ pc \in [Reqs -> Awaits] /\ kind \in [Reqs -> AllKinds \cup {"none"}]
  /\ task \in [Reqs -> 0 .. made] /\ want \in [Reqs -> BOOLEAN]
  /\ todo \in [Reqs -> SUBSET (1 .. made)] /\ adding \in [Reqs -> Seq(Names)]
  /\ plan \in [Reqs -> Schedules] /\ schedule \in Schedules
  /\ \A r \in Reqs : pc[r] = "insert" => adding[r] # <<>>

\* What a request of each kind awaits, and where it works on a task.
AtTask == {"refresh", "flip", "apply", "delete"}
Served ==
  \A r \in Reqs :
    /\ InFlight(r) => phase = "serving"
    /\ kind[r] # "none" => InFlight(r)
    /\ task[r] # None <=> pc[r] \in AtTask

\* Task t, unless two requests have changed it at once: no request works on it and
\* its job matches its row, or one does and the two differ as its await allows.
Matches(t) == t \in jobs <=> t \in rows \cap enabled
InWork(t, r) ==
  /\ pc[r] \in {"refresh", "delete"} => t \notin jobs
  /\ pc[r] = "flip"  => Matches(t)
  /\ pc[r] = "apply" => t \in rows /\ (t \in enabled <=> want[r])
JobFits(t) ==
  t \notin contended =>
    /\ (\A r \in Reqs : task[r] # t) => Matches(t)
    /\ \A r \in Reqs : task[r] = t => InWork(t, r) /\ \A q \in Reqs : task[q] = t => q = r

JobsFit == SchedulerAlive /\ present => \A t \in 1 .. made : JobFits(t)

-----------------------------------------------------------------------------
LEMMA PlansAreSequences == \A s \in Schedules : PlanOf[s] \in Seq(Names)
<1>1. {"upStart", "upWarn", "upStop"} \subseteq Names
  BY DEF Names, UptimeNames, SyncNames
<1>2. /\ <<>> \in Seq(Names)
      /\ <<"upStart", "upStop">> \in Seq(Names)
      /\ <<"upStart", "upWarn", "upStop">> \in Seq(Names)
  BY <1>1
<1>3. QED
  BY <1>2 DEF PlanOf, Schedules

LEMMA InitTypes == Init => Types
<1> SUFFICES ASSUME Init PROVE Types
  OBVIOUS
<1>1. "other" \in Names /\ "idle" \in Awaits /\ "none" \in Schedules /\ <<>> \in Seq(Names)
  BY DEF Names, Actions, Awaits, Schedules
<1>2. QED
  BY <1>1, BoundAssumption DEF Init, Types, None

\* The parts of Types that requests change: their own variables, and the rows.
RequestTypes ==
  /\ pc \in [Reqs -> Awaits] /\ kind \in [Reqs -> AllKinds \cup {"none"}]
  /\ task \in [Reqs -> 0 .. made] /\ want \in [Reqs -> BOOLEAN]
  /\ todo \in [Reqs -> SUBSET (1 .. made)] /\ adding \in [Reqs -> Seq(Names)]
  /\ plan \in [Reqs -> Schedules]
  /\ \A r \in Reqs : pc[r] = "insert" => adding[r] # <<>>
RowTypes ==
  /\ made \in 0 .. MaxTasks
  /\ rows \subseteq 1 .. made /\ enabled \subseteq 1 .. made
  /\ jobs \subseteq 1 .. made /\ contended \subseteq 1 .. made
  /\ name \in [Tasks -> Names] /\ maker \in [Tasks -> 0 .. NumReqs]
  /\ schedule \in Schedules

LEMMA TypesSplit == (Types <=> RequestTypes /\ RowTypes) /\ (Types' <=> RequestTypes' /\ RowTypes')
BY DEF Types, RequestTypes, RowTypes

LEMMA GotoTypes ==
  ASSUME RequestTypes, NEW r \in Reqs, NEW next \in Awaits, Goto(r, next)
  PROVE  /\ pc' \in [Reqs -> Awaits]
         /\ next # "insert" /\ UNCHANGED adding => \A q \in Reqs : pc'[q] = "insert" => adding'[q] # <<>>
BY DEF RequestTypes, Goto

LEMMA EndingTypes ==
  ASSUME RequestTypes, made \in Nat, made' = made, NEW r \in Reqs, Ending(r)
  PROVE  RequestTypes'
<1>1. pc' \in [Reqs -> Awaits]
  BY GotoTypes DEF Ending, Awaits
<1>2. kind' \in [Reqs -> AllKinds \cup {"none"}] /\ task' \in [Reqs -> 0 .. made]
  BY DEF RequestTypes, Ending, None
<1>3. want' \in [Reqs -> BOOLEAN] /\ todo' \in [Reqs -> SUBSET (1 .. made)]
  BY DEF RequestTypes, Ending
<1>4. adding' \in [Reqs -> Seq(Names)]
  <2>1. adding' = [adding EXCEPT ![r] = <<>>] /\ <<>> \in Seq(Names)
    BY DEF Ending
  <2>2. QED
    BY <2>1 DEF RequestTypes
<1>5. plan' \in [Reqs -> Schedules]
  BY DEF RequestTypes, Ending, Schedules
<1>6. \A q \in Reqs : pc'[q] = "insert" => adding'[q] # <<>>
  BY DEF RequestTypes, Ending, Goto
<1>7. QED
  BY <1>1, <1>2, <1>3, <1>4, <1>5, <1>6 DEF RequestTypes

LEMMA AskedTypes ==
  ASSUME RequestTypes, NEW r \in Reqs, NEW k \in AllKinds, Asked(r, k)
  PROVE  kind' \in [Reqs -> AllKinds \cup {"none"}]
BY DEF RequestTypes, Asked

LEMMA DeletedTypes ==
  ASSUME RowTypes, NEW gone, RowsDeleted(gone)
  PROVE  /\ rows' \subseteq 1 .. made /\ enabled' \subseteq 1 .. made
         /\ name' \in [Tasks -> Names] /\ maker' \in [Tasks -> 0 .. NumReqs]
<1>1. "other" \in Names /\ 0 \in 0 .. NumReqs
  BY BoundAssumption DEF Names, Actions
<1>2. QED
  BY <1>1 DEF RowTypes, RowsDeleted, None

LEMMA TouchTypes ==
  ASSUME RowTypes, NEW r, NEW t \in 1 .. made, Touches(r, t)
  PROVE  contended' \subseteq 1 .. made
BY DEF RowTypes, Touches

\* A set of naturals has a least element: the next task of a sync exists.
LEMMA LeastOf ==
  ASSUME NEW S, S \subseteq Nat, S # {}
  PROVE  \E x \in S : \A y \in S : x <= y
<1>1. PICK x \in S : \A y \in S : ~(<<y, x>> \in OpToRel(<, Nat))
  BY WFMin, NatLessThanWellFounded
<1>2. \A y \in S : ~(y < x)
  BY <1>1 DEF OpToRel
<1>3. QED
  BY <1>2

\* The least task of todo[r] is in it.
LEMMA NextTodo ==
  ASSUME RequestTypes, NEW r \in Reqs, DeleteNext(r), todo[r] # {}
  PROVE  \E t \in todo[r] : Doom(r, t) /\ UNCHANGED <<kind, want, todo, adding, plan>>
<1>1. PICK t : t = CHOOSE x \in todo[r] : \A u \in todo[r] : x <= u
  OBVIOUS
<1>2. Doom(r, t) /\ UNCHANGED <<kind, want, todo, adding, plan>>
  BY <1>1 DEF DeleteNext
<1>3. todo[r] \subseteq Nat
  BY DEF RequestTypes
<1>4. \E x \in todo[r] : \A u \in todo[r] : x <= u
  BY <1>3, LeastOf
<1>5. t \in todo[r]
  BY <1>1, <1>4
<1>6. QED
  BY <1>2, <1>5

LEMMA TypesRequest ==
  ASSUME Types, Served, NEW r \in Reqs, Request(r)
  PROVE  Types'
<1>0. RequestTypes /\ RowTypes /\ made \in Nat
  BY TypesSplit, BoundAssumption DEF RowTypes
<1> USE DEF lifeVars, histVars
<1>1. CASE AskCreate(r)
  <2>1. UNCHANGED <<made, rows, enabled, jobs, contended, name, maker, schedule, task, want, todo, plan>>
    BY <1>1 DEF AskCreate, dbVars
  <2>2. PICK n \in Created : adding' = [adding EXCEPT ![r] = <<n>>]
    BY <1>1 DEF AskCreate
  <2>3. n \in Names
    BY ChoiceAssumption DEF Names
  <2>4. <<n>> \in Seq(Names) /\ <<n>> # <<>>
    BY <2>3
  <2>5. adding' \in [Reqs -> Seq(Names)]
    BY <1>0, <2>2, <2>4 DEF RequestTypes
  <2>6. kind' \in [Reqs -> AllKinds \cup {"none"}] /\ pc' \in [Reqs -> Awaits]
    BY <1>0, <1>1, AskedTypes, GotoTypes DEF AskCreate, AllKinds, Awaits
  <2>7. \A q \in Reqs : pc'[q] = "insert" => adding'[q] # <<>>
    BY <1>0, <1>1, <2>2, <2>4 DEF AskCreate, Goto, RequestTypes
  <2>8. QED
    BY <1>0, <2>1, <2>5, <2>6, <2>7, TypesSplit DEF RequestTypes, RowTypes
<1>2. CASE Insert(r)
  <2>1. UNCHANGED <<jobs, contended, schedule>> /\ pc[r] = "insert" /\ made < MaxTasks
    BY <1>2 DEF Insert
  <2>2. CASE present
    <3>1. /\ made' = made + 1 /\ rows' = rows \cup {made + 1} /\ enabled' = enabled \cup {made + 1}
          /\ name' = [name EXCEPT ![made + 1] = Head(adding[r])]
          /\ maker' = [maker EXCEPT ![made + 1] = IF kind[r] = "sync" THEN r ELSE None]
          /\ task' = [task EXCEPT ![r] = made + 1]
          /\ Goto(r, "refresh") /\ UNCHANGED <<kind, want, todo, adding, plan>>
      BY <1>2, <2>2 DEF Insert
    <3>2. made + 1 \in Tasks /\ made' \in 0 .. MaxTasks /\ 1 .. made \subseteq 1 .. made'
          /\ 0 .. made \subseteq 0 .. made' /\ made' \in 1 .. made'
      BY <1>0, <2>1, <3>1, BoundAssumption DEF RowTypes, Tasks
    <3>3. name' \in [Tasks -> Names]
      <4>1. adding[r] \in Seq(Names) /\ adding[r] # <<>>
        BY <1>0, <2>1 DEF RequestTypes
      <4>2. Head(adding[r]) \in Names
        BY <4>1
      <4>3. QED
        BY <1>0, <3>1, <4>2 DEF RowTypes
    <3>4. maker' \in [Tasks -> 0 .. NumReqs]
      <4>1. (IF kind[r] = "sync" THEN r ELSE None) \in 0 .. NumReqs
        BY BoundAssumption DEF Reqs, None
      <4>2. QED
        BY <1>0, <3>1, <4>1 DEF RowTypes
    <3>5. RowTypes'
      BY <1>0, <2>1, <3>1, <3>2, <3>3, <3>4 DEF RowTypes
    <3>6. pc' \in [Reqs -> Awaits] /\ \A q \in Reqs : pc'[q] = "insert" => adding'[q] # <<>>
      BY <1>0, <3>1, GotoTypes DEF Awaits
    <3>7. task' \in [Reqs -> 0 .. made'] /\ todo' \in [Reqs -> SUBSET (1 .. made')]
      <4>1. task' \in [Reqs -> 0 .. made']
        BY <1>0, <3>1, <3>2 DEF RequestTypes
      <4>2. \A q \in Reqs : todo[q] \subseteq 1 .. made'
        BY <1>0, <3>2 DEF RequestTypes
      <4>3. todo' = [q \in Reqs |-> todo[q]]
        BY <1>0, <3>1 DEF RequestTypes
      <4>4. QED
        BY <4>1, <4>2, <4>3
    <3>8. QED
      BY <1>0, <3>1, <3>5, <3>6, <3>7, TypesSplit DEF RequestTypes
  <2>3. CASE ~present
    <3>1. Ending(r) /\ UNCHANGED <<made, rows, enabled, name, maker>>
      BY <1>2, <2>3 DEF Insert
    <3>2. QED
      BY <1>0, <2>1, <3>1, EndingTypes, TypesSplit DEF RowTypes
  <2>4. QED
    BY <2>2, <2>3
<1>3. CASE Refresh(r)
  <2>1. UNCHANGED <<made, rows, enabled, contended, name, maker, schedule>> /\ jobs' \subseteq jobs \cup rows
    BY <1>3 DEF Refresh, dbVars
  <2>2. RowTypes'
    BY <1>0, <2>1 DEF RowTypes
  <2>3. CASE Ending(r)
    BY <1>0, <2>1, <2>2, <2>3, EndingTypes, TypesSplit
  <2>4. CASE ~Ending(r)
    <3>1. /\ Len(adding[r]) > 1
          /\ Goto(r, "insert") /\ task' = [task EXCEPT ![r] = None]
          /\ adding' = [adding EXCEPT ![r] = Tail(adding[r])]
          /\ UNCHANGED <<kind, want, todo, plan>>
      BY <1>3, <2>4 DEF Refresh
    <3>2. adding[r] \in Seq(Names)
      BY <1>0 DEF RequestTypes
    <3>3. Tail(adding[r]) \in Seq(Names) /\ Tail(adding[r]) # <<>>
      <4>1. adding[r] # <<>> /\ Len(adding[r]) \in Nat
        BY <3>1, <3>2
      <4>2. Tail(adding[r]) \in Seq(Names) /\ Len(Tail(adding[r])) = Len(adding[r]) - 1
        BY <3>2, <4>1, HeadTailProperties
      <4>3. Len(Tail(adding[r])) # 0
        <5>1. \A k, n \in Nat : n > 1 /\ k = n - 1 => k # 0
          OBVIOUS
        <5>2. Len(Tail(adding[r])) \in Nat
          BY <4>2, LenProperties
        <5>3. QED
          BY <3>1, <4>1, <4>2, <5>1, <5>2, Zenon
      <4>4. QED
        BY <4>2, <4>3, EmptySeq
    <3>4. adding' \in [Reqs -> Seq(Names)]
      BY <1>0, <3>1, <3>3 DEF RequestTypes
    <3>5. \A q \in Reqs : pc'[q] = "insert" => adding'[q] # <<>>
      BY <1>0, <3>1, <3>3 DEF RequestTypes, Goto
    <3>6. pc' \in [Reqs -> Awaits] /\ task' \in [Reqs -> 0 .. made]
      BY <1>0, <3>1, GotoTypes DEF RequestTypes, Awaits, None
    <3>7. QED
      BY <1>0, <2>1, <2>2, <3>1, <3>4, <3>5, <3>6, TypesSplit DEF RequestTypes
  <2>5. QED
    BY <2>3, <2>4
<1>4. CASE AskToggle(r)
  <2>1. PICK t \in rows : /\ task' = [task EXCEPT ![r] = t]
                          /\ want' = [want EXCEPT ![r] = t \notin enabled]
                          /\ Touches(r, t)
    BY <1>4 DEF AskToggle
  <2>2. UNCHANGED <<made, rows, enabled, jobs, name, maker, schedule, todo, adding, plan>>
    BY <1>4 DEF AskToggle, dbVars
  <2>3. t \in 1 .. made
    BY <1>0 DEF RowTypes
  <2>4. RowTypes'
    BY <1>0, <2>1, <2>2, <2>3, TouchTypes DEF RowTypes
  <2>5. task' \in [Reqs -> 0 .. made] /\ want' \in [Reqs -> BOOLEAN]
    BY <1>0, <2>1, <2>3 DEF RequestTypes
  <2>6. kind' \in [Reqs -> AllKinds \cup {"none"}]
    BY <1>0, <1>4, AskedTypes DEF AskToggle, AllKinds
  <2>7. pc' \in [Reqs -> Awaits] /\ \A q \in Reqs : pc'[q] = "insert" => adding'[q] # <<>>
    BY <1>0, <1>4, <2>2, GotoTypes DEF AskToggle, Awaits
  <2>8. QED
    BY <1>0, <2>2, <2>4, <2>5, <2>6, <2>7, TypesSplit DEF RequestTypes
<1>5. CASE Flip(r)
  <2>1. UNCHANGED <<made, rows, jobs, contended, name, maker, schedule>> /\ enabled' \subseteq enabled \cup rows
    BY <1>5 DEF Flip
  <2>2. RowTypes'
    BY <1>0, <2>1 DEF RowTypes
  <2>3. CASE Ending(r)
    BY <1>0, <2>1, <2>2, <2>3, EndingTypes, TypesSplit
  <2>4. CASE ~Ending(r)
    <3>1. Goto(r, "apply") /\ UNCHANGED <<kind, task, want, todo, adding, plan>>
      BY <1>5, <2>4 DEF Flip
    <3>2. pc' \in [Reqs -> Awaits] /\ \A q \in Reqs : pc'[q] = "insert" => adding'[q] # <<>>
      BY <1>0, <3>1, GotoTypes DEF Awaits
    <3>3. QED
      BY <1>0, <2>1, <2>2, <3>1, <3>2, TypesSplit DEF RequestTypes
  <2>5. QED
    BY <2>3, <2>4
<1>6. CASE Apply(r)
  <2>1. task[r] \in 1 .. made
    BY <1>0, <1>6 DEF Apply, Served, AtTask, RequestTypes, None
  <2>2. UNCHANGED <<made, rows, enabled, contended, name, maker, schedule>> /\ jobs' \subseteq jobs \cup {task[r]}
    BY <1>6 DEF Apply, dbVars
  <2>3. Ending(r) /\ RowTypes'
    BY <1>0, <1>6, <2>1, <2>2 DEF Apply, RowTypes
  <2>4. QED
    BY <1>0, <2>2, <2>3, EndingTypes, TypesSplit
<1>7. CASE AskRemove(r)
  <2>1. PICK t \in 1 .. made : Doom(r, t) /\ todo' = [todo EXCEPT ![r] = {t}]
    BY <1>7 DEF AskRemove
  <2>2. UNCHANGED <<made, rows, enabled, name, maker, schedule, want, adding, plan>>
    BY <1>7 DEF AskRemove, dbVars
  <2>3. RowTypes'
    BY <1>0, <2>1, <2>2, TouchTypes DEF RowTypes, Doom
  <2>4. task' \in [Reqs -> 0 .. made] /\ todo' \in [Reqs -> SUBSET (1 .. made)]
    BY <1>0, <2>1 DEF RequestTypes, Doom
  <2>5. kind' \in [Reqs -> AllKinds \cup {"none"}]
    BY <1>0, <1>7, AskedTypes DEF AskRemove, AllKinds
  <2>6. pc' \in [Reqs -> Awaits] /\ \A q \in Reqs : pc'[q] = "insert" => adding'[q] # <<>>
    BY <1>0, <2>1, <2>2, GotoTypes DEF Doom, Awaits
  <2>7. QED
    BY <1>0, <2>2, <2>3, <2>4, <2>5, <2>6, TypesSplit DEF RequestTypes
<1>8. CASE Delete(r)
  <2>1. RowsDeleted({task[r]}) /\ UNCHANGED <<schedule, made, jobs, contended, kind, want, adding, plan>>
    BY <1>8 DEF Delete
  <2>2. RowTypes'
    BY <1>0, <2>1, DeletedTypes DEF RowTypes
  <2>3. task' \in [Reqs -> 0 .. made] /\ todo' \in [Reqs -> SUBSET (1 .. made)]
    BY <1>0, <1>8 DEF Delete, RequestTypes, None
  <2>4. pc' \in [Reqs -> Awaits] /\ \A q \in Reqs : pc'[q] = "insert" => adding'[q] # <<>>
    BY <1>0, <1>8, <2>1, GotoTypes DEF Delete, Awaits
  <2>5. QED
    BY <1>0, <2>1, <2>2, <2>3, <2>4, TypesSplit DEF RequestTypes
<1>9. CASE DeleteNext(r)
  <2>1. UNCHANGED <<made, rows, enabled, name, maker, schedule>>
    BY <1>9 DEF DeleteNext, dbVars
  <2>2. CASE todo[r] # {}
    <3>1. PICK t \in todo[r] : Doom(r, t) /\ UNCHANGED <<kind, want, todo, adding, plan>>
      BY <1>0, <1>9, <2>2, NextTodo
    <3>2. t \in 1 .. made
      BY <1>0, <3>1 DEF RequestTypes
    <3>3. RowTypes'
      BY <1>0, <2>1, <3>1, <3>2, TouchTypes DEF RowTypes, Doom
    <3>4. task' \in [Reqs -> 0 .. made]
      BY <1>0, <3>1, <3>2 DEF RequestTypes, Doom
    <3>5. pc' \in [Reqs -> Awaits] /\ \A q \in Reqs : pc'[q] = "insert" => adding'[q] # <<>>
      BY <1>0, <3>1, GotoTypes DEF Doom, Awaits
    <3>6. QED
      BY <1>0, <2>1, <3>1, <3>3, <3>4, <3>5, TypesSplit DEF RequestTypes
  <2>3. CASE todo[r] = {} /\ adding[r] # <<>>
    <3>1. Goto(r, "insert") /\ UNCHANGED <<jobs, contended, kind, task, want, todo, adding, plan>>
      BY <1>9, <2>3 DEF DeleteNext
    <3>2. pc' \in [Reqs -> Awaits] /\ \A q \in Reqs : pc'[q] = "insert" => adding'[q] # <<>>
      BY <1>0, <2>3, <3>1 DEF Goto, RequestTypes, Awaits
    <3>3. QED
      BY <1>0, <2>1, <3>1, <3>2, TypesSplit DEF RequestTypes, RowTypes
  <2>4. CASE todo[r] = {} /\ adding[r] = <<>>
    <3>1. Ending(r) /\ UNCHANGED <<jobs, contended>>
      BY <1>9, <2>4 DEF DeleteNext
    <3>2. QED
      BY <1>0, <2>1, <3>1, EndingTypes, TypesSplit DEF RowTypes
  <2>5. QED
    BY <2>2, <2>3, <2>4
<1>10. CASE AskSync(r)
  <2>1. PICK s \in Chosen : plan' = [plan EXCEPT ![r] = s]
    BY <1>10 DEF AskSync
  <2>2. UNCHANGED <<made, rows, enabled, jobs, contended, name, maker, schedule, task, want, todo, adding>>
    BY <1>10 DEF AskSync, dbVars
  <2>3. plan' \in [Reqs -> Schedules]
    BY <1>0, <2>1, ScheduleAssumption DEF RequestTypes
  <2>4. kind' \in [Reqs -> AllKinds \cup {"none"}]
    BY <1>0, <1>10, AskedTypes DEF AskSync, AllKinds
  <2>5. pc' \in [Reqs -> Awaits] /\ \A q \in Reqs : pc'[q] = "insert" => adding'[q] # <<>>
    BY <1>0, <1>10, <2>2, GotoTypes DEF AskSync, Awaits
  <2>6. QED
    BY <1>0, <2>2, <2>3, <2>4, <2>5, TypesSplit DEF RequestTypes, RowTypes
<1>11. CASE SaveSchedule(r)
  <2>1. UNCHANGED <<made, rows, enabled, jobs, contended, name, maker>>
    BY <1>11 DEF SaveSchedule
  <2>2. CASE Ending(r) /\ UNCHANGED schedule
    BY <1>0, <2>1, <2>2, EndingTypes, TypesSplit DEF RowTypes
  <2>3. CASE ~(Ending(r) /\ UNCHANGED schedule)
    <3>1. /\ schedule' = plan[r] /\ plan' = [plan EXCEPT ![r] = "none"] /\ Goto(r, "sync")
          /\ UNCHANGED <<kind, task, want, todo, adding>>
      BY <1>11, <2>3 DEF SaveSchedule
    <3>2. schedule' \in Schedules /\ plan' \in [Reqs -> Schedules]
      BY <1>0, <3>1 DEF RequestTypes, Schedules
    <3>3. pc' \in [Reqs -> Awaits] /\ \A q \in Reqs : pc'[q] = "insert" => adding'[q] # <<>>
      BY <1>0, <3>1, GotoTypes DEF Awaits
    <3>4. QED
      BY <1>0, <2>1, <3>1, <3>2, <3>3, TypesSplit DEF RequestTypes, RowTypes
  <2>4. QED
    BY <2>2, <2>3
<1>12. CASE SyncRead(r)
  <2>1. UNCHANGED <<made, rows, enabled, jobs, contended, name, maker, schedule>>
    BY <1>12 DEF SyncRead, dbVars
  <2>2. CASE Ending(r)
    BY <1>0, <2>1, <2>2, EndingTypes, TypesSplit DEF RowTypes
  <2>3. CASE ~Ending(r)
    <3>1. /\ adding' = [adding EXCEPT ![r] = PlanOf[schedule]]
          /\ Goto(r, "list") /\ UNCHANGED <<kind, task, want, todo, plan>>
      BY <1>12, <2>3 DEF SyncRead
    <3>2. PlanOf[schedule] \in Seq(Names)
      BY <1>0, PlansAreSequences DEF RowTypes
    <3>3. adding' \in [Reqs -> Seq(Names)]
      BY <1>0, <3>1, <3>2 DEF RequestTypes
    <3>4. pc' \in [Reqs -> Awaits] /\ \A q \in Reqs : pc'[q] = "insert" => adding'[q] # <<>>
      BY <1>0, <3>1 DEF RequestTypes, Goto, Awaits
    <3>5. QED
      BY <1>0, <2>1, <3>1, <3>3, <3>4, TypesSplit DEF RequestTypes, RowTypes
  <2>4. QED
    BY <2>2, <2>3
<1>13. CASE SyncList(r)
  <2>1. UNCHANGED <<made, rows, enabled, jobs, contended, name, maker, schedule, kind, task, want, adding, plan>>
    BY <1>13 DEF SyncList, dbVars
  <2>2. todo' \in [Reqs -> SUBSET (1 .. made)]
    BY <1>0, <1>13 DEF SyncList, RequestTypes, RowTypes
  <2>3. pc' \in [Reqs -> Awaits] /\ \A q \in Reqs : pc'[q] = "insert" => adding'[q] # <<>>
    BY <1>0, <1>13, <2>1, GotoTypes DEF SyncList, Awaits
  <2>4. QED
    BY <1>0, <2>1, <2>2, <2>3, TypesSplit DEF RequestTypes, RowTypes
<1> QED
  BY <1>1, <1>2, <1>3, <1>4, <1>5, <1>6, <1>7, <1>8, <1>9, <1>10, <1>11, <1>12, <1>13 DEF Request

\* What leaves the tasks and the requests alone, except for the lifespan.
LEMMA TypesElsewhere ==
  ASSUME Types, Lifespan \/ Crash \/ Server \/ DeleteServer \/ \E x \in Runs : Execution(x)
  PROVE  Types'
<1>0. RequestTypes /\ RowTypes
  BY TypesSplit
<1> USE DEF dbVars, reqVars, histVars
<1>1. ASSUME UNCHANGED <<made, rows, enabled, name, maker, schedule, reqVars>>,
             jobs' \subseteq jobs \cup rows, contended' \subseteq contended
      PROVE Types'
  BY <1>0, <1>1, TypesSplit DEF RequestTypes, RowTypes
<1>2. CASE Lifespan
  <2>1. UNCHANGED <<made, rows, enabled, name, maker, schedule, reqVars>>
    BY <1>2 DEF Lifespan, Boot, LoadTasks, Shutdown, StopAll, Stopped, SchedulerDown
  <2>2. jobs' \subseteq jobs \cup rows /\ contended' \subseteq contended
    BY <1>2 DEF Lifespan, Boot, LoadTasks, Shutdown, StopAll, Stopped, SchedulerDown
  <2>3. QED
    BY <1>1, <2>1, <2>2
<1>3. CASE Crash
  <2>1. UNCHANGED <<made, rows, enabled, name, maker, schedule, contended>> /\ jobs' = {}
    BY <1>3 DEF Crash
  <2>2. pc' \in [Reqs -> Awaits] /\ \A q \in Reqs : pc'[q] # "insert"
    BY <1>0, <1>3 DEF Crash, RequestTypes, InFlight, Awaits
  <2>3. kind' \in [Reqs -> AllKinds \cup {"none"}] /\ task' \in [Reqs -> 0 .. made]
    BY <1>0, <1>3, BoundAssumption DEF Crash, RowTypes, None
  <2>4. want' \in [Reqs -> BOOLEAN] /\ todo' \in [Reqs -> SUBSET (1 .. made)]
    BY <1>3 DEF Crash
  <2>5. adding' \in [Reqs -> Seq(Names)] /\ plan' \in [Reqs -> Schedules]
    <3>1. <<>> \in Seq(Names) /\ "none" \in Schedules
      BY DEF Schedules
    <3>2. QED
      BY <1>3, <3>1 DEF Crash
  <2>6. QED
    BY <1>0, <2>1, <2>2, <2>3, <2>4, <2>5, TypesSplit DEF RequestTypes, RowTypes
<1>4. CASE Server \/ \E x \in Runs : Execution(x)
  BY <1>1, <1>4 DEF Server, UserStarts, ServerExits, StrayStarts, WatcherSpawned, Execution, Fire, RunNow, Begin, Act
<1>5. CASE DeleteServer
  <2>1. RowsDeleted(rows) /\ UNCHANGED <<schedule, made, jobs, reqVars, histVars>>
    BY <1>5 DEF DeleteServer
  <2>2. RowTypes'
    BY <1>0, <2>1, DeletedTypes DEF RowTypes
  <2>3. QED
    BY <1>0, <2>1, <2>2, TypesSplit DEF RequestTypes
<1>6. QED
  BY <1>2, <1>3, <1>4, <1>5

\* A request changes its own variables only, and serves nothing else.
LEMMA OthersKept ==
  ASSUME Types, NEW r \in Reqs, Request(r)
  PROVE  /\ phase' = phase /\ present' = present
         /\ \A q \in Reqs \ {r} : /\ pc'[q] = pc[q] /\ kind'[q] = kind[q] /\ task'[q] = task[q]
                                  /\ want'[q] = want[q] /\ todo'[q] = todo[q] /\ adding'[q] = adding[q]
<1>1. CASE AskCreate(r) \/ Insert(r) \/ Refresh(r)
  BY <1>1 DEF AskCreate, Insert, Refresh, Asked, Goto, Ending, Types, lifeVars, dbVars
<1>2. CASE AskToggle(r) \/ Flip(r) \/ Apply(r)
  <2>1. CASE AskToggle(r)
    BY <2>1 DEF AskToggle, Asked, Goto, Types, lifeVars, dbVars
  <2>2. CASE Flip(r)
    BY <2>2 DEF Flip, Goto, Ending, Types, lifeVars
  <2>3. CASE Apply(r)
    BY <2>3 DEF Apply, Goto, Ending, Types, lifeVars, dbVars
  <2>4. QED
    BY <1>2, <2>1, <2>2, <2>3
<1>3. CASE AskRemove(r) \/ Delete(r) \/ DeleteNext(r)
  <2>1. CASE AskRemove(r)
    BY <2>1 DEF AskRemove, Asked, Doom, Goto, Types, lifeVars, dbVars
  <2>2. CASE Delete(r)
    BY <2>2 DEF Delete, Doom, Goto, Ending, Types, lifeVars, dbVars
  <2>3. CASE DeleteNext(r)
    BY <2>3 DEF DeleteNext, Doom, Goto, Ending, Types, lifeVars, dbVars
  <2>4. QED
    BY <1>3, <2>1, <2>2, <2>3
<1>4. CASE AskSync(r) \/ SaveSchedule(r)
  <2>1. CASE AskSync(r)
    BY <2>1 DEF AskSync, Asked, Goto, Types, lifeVars, dbVars
  <2>2. CASE SaveSchedule(r)
    BY <2>2 DEF SaveSchedule, Goto, Ending, Types, lifeVars
  <2>3. QED
    BY <1>4, <2>1, <2>2
<1>5. CASE SyncRead(r) \/ SyncList(r)
  BY <1>5 DEF SyncRead, SyncList, Doom, Goto, Ending, Types, lifeVars, dbVars
<1>6. QED
  BY <1>1, <1>2, <1>3, <1>4, <1>5 DEF Request

LEMMA ServedRequest ==
  ASSUME Types, Served, NEW r \in Reqs, Request(r)
  PROVE  Served'
<1> DEFINE Fit == /\ InFlight(r)' => phase = "serving"
                  /\ kind'[r] # "none" => InFlight(r)'
                  /\ task'[r] # None <=> pc'[r] \in AtTask
<1> SUFFICES Fit
  BY OthersKept DEF Served, InFlight, AtTask
<1> USE DEF InFlight, AtTask, Goto
<1>0. r \in DOMAIN pc /\ r \in DOMAIN kind /\ r \in DOMAIN task
  BY DEF Types
<1>1. ASSUME Ending(r) PROVE Fit
  BY <1>0, <1>1 DEF Ending, Types
<1>2. CASE AskCreate(r) \/ AskSync(r)
  BY <1>2 DEF AskCreate, AskSync, Asked, Types, Served
<1>3. CASE Insert(r)
  <2>1. CASE present
    <3>1. pc'[r] = "refresh" /\ task'[r] = made + 1 /\ pc[r] = "insert"
      BY <1>3, <2>1 DEF Insert, Types
    <3>2. made + 1 # None
      BY BoundAssumption DEF Types, None
    <3>3. QED
      BY <3>1, <3>2 DEF Served
  <2>2. QED
    BY <1>1, <1>3, <2>1 DEF Insert
<1>4. CASE Refresh(r)
  BY <1>1, <1>4 DEF Refresh, Types, Served
<1>5. CASE AskToggle(r)
  <2>1. PICK t \in rows : task' = [task EXCEPT ![r] = t]
    BY <1>5 DEF AskToggle
  <2>2. t # None
    BY <2>1 DEF Types, None
  <2>3. QED
    BY <1>5, <2>1, <2>2 DEF AskToggle, Asked, Types
<1>6. CASE Flip(r)
  BY <1>1, <1>6 DEF Flip, Types, Served
<1>7. CASE Apply(r)
  BY <1>1, <1>7 DEF Apply
<1>8. CASE AskRemove(r)
  <2>1. PICK t \in 1 .. made : Doom(r, t)
    BY <1>8 DEF AskRemove
  <2>2. t # None
    BY <2>1 DEF Types, None
  <2>3. QED
    BY <1>8, <2>1, <2>2 DEF AskRemove, Asked, Doom, Types
<1>9. CASE Delete(r)
  BY <1>9 DEF Delete, Types, Served
<1>10. CASE DeleteNext(r)
  <2>1. CASE todo[r] # {}
    <3>1. PICK t \in todo[r] : Doom(r, t) /\ UNCHANGED kind
      BY <1>10, <2>1, NextTodo, TypesSplit
    <3>2. t # None
      BY <3>1 DEF Types, None
    <3>3. QED
      BY <1>10, <3>1, <3>2 DEF DeleteNext, Doom, Types, Served
  <2>2. CASE todo[r] = {}
    BY <1>1, <1>10, <2>2 DEF DeleteNext, Types, Served
  <2>3. QED
    BY <2>1, <2>2
<1>11. CASE SaveSchedule(r)
  BY <1>1, <1>11 DEF SaveSchedule, Types, Served
<1>12. CASE SyncRead(r)
  BY <1>1, <1>12 DEF SyncRead, Types, Served
<1>13. CASE SyncList(r)
  BY <1>13 DEF SyncList, Types, Served
<1>14. QED
  BY <1>2, <1>3, <1>4, <1>5, <1>6, <1>7, <1>8, <1>9, <1>10, <1>11, <1>12, <1>13 DEF Request

-----------------------------------------------------------------------------
\* A task that request r does not touch.
LEMMA Untouched ==
  ASSUME Types, NEW r \in Reqs, Request(r), NEW t, JobFits(t),
         task[r] # t, task'[r] # t, contended \subseteq contended',
         t \in jobs' <=> t \in jobs, t \in rows' <=> t \in rows, t \in enabled' <=> t \in enabled
  PROVE  JobFits(t)'
<1>1. \A q \in Reqs : task'[q] = t <=> task[q] = t
  BY OthersKept
<1>2. ASSUME NEW q \in Reqs, task[q] = t, InWork(t, q) PROVE InWork(t, q)'
  <2>1. q # r
    BY <1>2
  <2>2. pc'[q] = pc[q] /\ want'[q] = want[q]
    BY <2>1, OthersKept
  <2>3. QED
    BY <1>2, <2>2 DEF InWork, Matches
<1>3. QED
  BY <1>1, <1>2 DEF JobFits, Matches

\* A task that r works on, before or after its step, and no other request does.
LEMMA Touched ==
  ASSUME Types, NEW r \in Reqs, Request(r), NEW t,
         t \notin contended' => \A q \in Reqs \ {r} : task[q] # t,
         task'[r] # t => Matches(t)', task'[r] = t => InWork(t, r)'
  PROVE  JobFits(t)'
BY OthersKept DEF JobFits

\* A task that r works on and that is not contended is r's alone.
LEMMA OnlyMine ==
  ASSUME NEW r \in Reqs, NEW t, JobFits(t), task[r] = t, t \notin contended
  PROVE  InWork(t, r) /\ \A q \in Reqs \ {r} : task[q] # t
BY DEF JobFits

LEMMA TouchesMeans ==
  ASSUME NEW r \in Reqs, NEW t, Touches(r, t)
  PROVE  /\ contended \subseteq contended'
         /\ t \notin contended' => t \notin contended /\ \A q \in Reqs \ {r} : task[q] # t
BY DEF Touches

LEMMA JobsRequest ==
  ASSUME Types, Served, NEW r \in Reqs, Request(r), \A t \in 1 .. made : JobFits(t)
  PROVE  \A t \in 1 .. made' : JobFits(t)'
<1> USE DEF Goto, dbVars, histVars
<1>0. r \in DOMAIN pc /\ r \in DOMAIN task /\ r \in DOMAIN want /\ made \in Nat
  BY BoundAssumption DEF Types
<1>a. task[r] # None <=> pc[r] \in AtTask
  BY DEF Served
\* A step of r by which no task gains or loses a job, a row or the work of r.
<1>b. ASSUME UNCHANGED <<made, jobs, rows, enabled, contended>>, task'[r] \in {task[r], None},
             task[r] = None
      PROVE \A t \in 1 .. made' : JobFits(t)'
  BY <1>b, Untouched DEF None
\* A step of r that works on task u, before or after.
<1>c. ASSUME NEW u, made' = made, contended \subseteq contended',
             {task[r], task'[r]} \subseteq {u, None},
             \A t : t # u => /\ t \in jobs' <=> t \in jobs
                             /\ t \in rows' <=> t \in rows
                             /\ t \in enabled' <=> t \in enabled,
             u \in 1 .. made => JobFits(u)'
      PROVE \A t \in 1 .. made' : JobFits(t)'
  <2>1. ASSUME NEW t \in 1 .. made, t # u PROVE JobFits(t)'
    <3>1. task[r] # t /\ task'[r] # t
      BY <1>c, <2>1 DEF None
    <3>2. QED
      BY <1>c, <2>1, <3>1, Untouched
  <2>2. QED
    BY <1>c, <2>1
<1>1. CASE AskCreate(r)
  <2>1. pc[r] = "idle" /\ UNCHANGED <<made, jobs, rows, enabled, contended, task>>
    BY <1>1 DEF AskCreate, Asked
  <2>2. QED
    BY <1>a, <1>b, <2>1 DEF AtTask
<1>2. CASE Insert(r)
  <2>1. pc[r] = "insert" /\ UNCHANGED <<jobs, contended>> /\ task[r] = None
    BY <1>a, <1>2 DEF Insert, AtTask
  <2>2. CASE present
    <3>1. /\ made' = made + 1 /\ rows' = rows \cup {made + 1} /\ enabled' = enabled \cup {made + 1}
          /\ task'[r] = made + 1 /\ pc'[r] = "refresh"
      BY <1>0, <1>2, <2>2 DEF Insert
    <3>2. ASSUME NEW t \in 1 .. made PROVE JobFits(t)'
      <4>1. t # made + 1 /\ t # None
        BY <1>0 DEF None
      <4>2. QED
        BY <2>1, <3>1, <4>1, Untouched
    <3>3. PICK n : n = made + 1
      OBVIOUS
    <3>4. n \notin jobs /\ \A q \in Reqs : task[q] # n
      BY <1>0, <3>3 DEF Types
    <3>5. InWork(n, r)'
      BY <2>1, <3>1, <3>4 DEF InWork
    <3>6. JobFits(n)'
      BY <3>1, <3>3, <3>4, <3>5, Touched
    <3>7. QED
      BY <1>0, <3>1, <3>2, <3>3, <3>6
  <2>3. CASE ~present
    <3>1. Ending(r) /\ UNCHANGED <<made, rows, enabled>>
      BY <1>2, <2>3 DEF Insert
    <3>2. task'[r] = None
      BY <1>0, <3>1 DEF Ending
    <3>3. QED
      BY <1>b, <2>1, <3>1, <3>2
  <2>4. QED
    BY <2>2, <2>3
<1>3. CASE Refresh(r)
  <2>1. /\ pc[r] = "refresh" /\ task[r] # None /\ task'[r] = None
        /\ UNCHANGED <<made, rows, enabled, contended>>
        /\ jobs' = IF task[r] \in rows \cap enabled THEN jobs \cup {task[r]} ELSE jobs
    BY <1>0, <1>a, <1>3 DEF Refresh, Ending, AtTask
  <2>2. ASSUME task[r] \in 1 .. made PROVE JobFits(task[r])
    BY <2>2
  <2>3. PICK u : u = task[r]
    OBVIOUS
  <2>4. ASSUME u \in 1 .. made PROVE JobFits(u)'
    <3>1. ASSUME u \notin contended PROVE u \notin jobs /\ \A q \in Reqs \ {r} : task[q] # u
      BY <2>1, <2>3, <2>4, <3>1, OnlyMine DEF InWork
    <3>2. CASE u \in contended
      BY <2>1, <3>2 DEF JobFits
    <3>3. CASE u \notin contended
      <4>1. Matches(u)'
        BY <2>1, <2>3, <3>1, <3>3 DEF Matches
      <4>2. QED
        BY <2>1, <2>3, <3>1, <3>3, <4>1, Touched
    <3>4. QED
      BY <3>2, <3>3
  <2>5. \A t : t # u => (t \in jobs' <=> t \in jobs)
    BY <2>1, <2>3
  <2>6. QED
    BY <1>c, <2>1, <2>3, <2>4, <2>5
<1>4. CASE AskToggle(r)
  <2>1. PICK t \in rows : task' = [task EXCEPT ![r] = t] /\ Touches(r, t)
    BY <1>4 DEF AskToggle
  <2>2. pc[r] = "idle" /\ pc'[r] = "flip" /\ UNCHANGED <<made, jobs, rows, enabled>>
    BY <1>0, <1>4 DEF AskToggle, Asked
  <2>3. task[r] = None /\ task'[r] = t /\ contended \subseteq contended' /\ t \in 1 .. made
    BY <1>0, <1>a, <2>1, <2>2, TouchesMeans DEF AtTask, Types
  <2>4. JobFits(t)'
    <3>1. CASE t \in contended'
      BY <3>1 DEF JobFits
    <3>2. CASE t \notin contended'
      <4>1. t \notin contended /\ \A q \in Reqs : task[q] # t
        BY <2>1, <2>3, <3>2, TouchesMeans DEF None
      <4>2. Matches(t)
        BY <2>3, <4>1 DEF JobFits
      <4>3. InWork(t, r)'
        BY <2>2, <4>2 DEF InWork, Matches
      <4>4. QED
        BY <2>3, <4>1, <4>3, Touched
    <3>3. QED
      BY <3>1, <3>2
  <2>5. QED
    BY <1>c, <2>2, <2>3, <2>4
<1>5. CASE Flip(r)
  <2>1. pc[r] = "flip" /\ task[r] # None /\ UNCHANGED <<made, rows, jobs, contended>>
    BY <1>a, <1>5 DEF Flip, AtTask
  <2>2. PICK u : u = task[r]
    OBVIOUS
  <2>3. CASE task[r] \notin rows
    <3>1. Ending(r) /\ enabled' = enabled
      BY <1>5, <2>3 DEF Flip
    <3>2. task'[r] = None
      BY <1>0, <3>1 DEF Ending
    <3>3. ASSUME u \in 1 .. made PROVE JobFits(u)'
      <4>1. CASE u \in contended
        BY <2>1, <4>1 DEF JobFits
      <4>2. CASE u \notin contended
        <5>1. InWork(u, r) /\ \A q \in Reqs \ {r} : task[q] # u
          BY <2>2, <3>3, <4>2, OnlyMine
        <5>2. Matches(u)'
          BY <2>1, <3>1, <5>1 DEF InWork, Matches
        <5>3. QED
          BY <2>1, <2>2, <3>2, <5>1, <5>2, Touched
      <4>3. QED
        BY <4>1, <4>2
    <3>4. QED
      BY <1>c, <2>1, <2>2, <3>1, <3>2, <3>3
  <2>4. CASE task[r] \in rows
    <3>1. /\ enabled' = IF want[r] THEN enabled \cup {task[r]} ELSE enabled \ {task[r]}
          /\ pc'[r] = "apply" /\ UNCHANGED <<task, want>>
      BY <1>0, <1>5, <2>4 DEF Flip
    <3>2. ASSUME u \in 1 .. made PROVE JobFits(u)'
      <4>1. CASE u \in contended
        BY <2>1, <4>1 DEF JobFits
      <4>2. CASE u \notin contended
        <5>1. \A q \in Reqs \ {r} : task[q] # u
          BY <2>2, <3>2, <4>2, OnlyMine
        <5>2. u \in rows' /\ (u \in enabled' <=> want'[r])
          BY <2>1, <2>2, <2>4, <3>1
        <5>3. InWork(u, r)'
          BY <3>1, <5>2 DEF InWork
        <5>4. QED
          BY <2>1, <2>2, <3>1, <5>1, <5>3, Touched
      <4>3. QED
        BY <4>1, <4>2
    <3>3. \A t : t # u => (t \in enabled' <=> t \in enabled)
      BY <2>2, <3>1
    <3>4. QED
      BY <1>c, <2>1, <2>2, <3>1, <3>2, <3>3
  <2>5. QED
    BY <2>3, <2>4
<1>6. CASE Apply(r)
  <2>1. /\ pc[r] = "apply" /\ task[r] # None /\ task'[r] = None
        /\ UNCHANGED <<made, rows, enabled, contended>>
        /\ jobs' = IF want[r] THEN jobs \cup {task[r]} ELSE jobs \ {task[r]}
    BY <1>0, <1>a, <1>6 DEF Apply, Ending, AtTask
  <2>2. PICK u : u = task[r]
    OBVIOUS
  <2>3. ASSUME u \in 1 .. made PROVE JobFits(u)'
    <3>1. CASE u \in contended
      BY <2>1, <3>1 DEF JobFits
    <3>2. CASE u \notin contended
      <4>1. InWork(u, r) /\ \A q \in Reqs \ {r} : task[q] # u
        BY <2>2, <2>3, <3>2, OnlyMine
      <4>2. u \in rows /\ (u \in enabled <=> want[r])
        BY <2>1, <4>1 DEF InWork
      <4>3. Matches(u)'
        BY <2>1, <2>2, <4>2 DEF Matches
      <4>4. QED
        BY <2>1, <2>2, <4>1, <4>3, Touched
    <3>3. QED
      BY <3>1, <3>2
  <2>4. \A t : t # u => (t \in jobs' <=> t \in jobs)
    BY <2>1, <2>2
  <2>5. QED
    BY <1>c, <2>1, <2>2, <2>3, <2>4
\* The job of t goes, and its row is about to.
<1>d. ASSUME NEW t \in 1 .. made, Doom(r, t), task[r] = None, UNCHANGED <<made, rows, enabled>>
      PROVE \A u \in 1 .. made' : JobFits(u)'
  <2>1. /\ jobs' = jobs \ {t} /\ task'[r] = t /\ pc'[r] = "delete" /\ Touches(r, t)
    BY <1>0, <1>d DEF Doom
  <2>2. JobFits(t)'
    <3>1. InWork(t, r)'
      BY <2>1 DEF InWork
    <3>2. QED
      BY <2>1, <3>1, TouchesMeans, Touched
  <2>3. \A u : u # t => (u \in jobs' <=> u \in jobs)
    BY <2>1
  <2>4. QED
    BY <1>c, <1>d, <2>1, <2>2, <2>3, TouchesMeans
<1>7. CASE AskRemove(r)
  <2>1. PICK t \in 1 .. made : Doom(r, t)
    BY <1>7 DEF AskRemove
  <2>2. pc[r] = "idle" /\ UNCHANGED <<made, rows, enabled>>
    BY <1>7 DEF AskRemove, Asked
  <2>3. QED
    BY <1>a, <1>d, <2>1, <2>2 DEF AtTask
<1>8. CASE Delete(r)
  <2>1. /\ pc[r] = "delete" /\ task[r] # None /\ task'[r] = None
        /\ UNCHANGED <<made, jobs, contended>>
        /\ rows' = rows \ {task[r]} /\ enabled' = enabled \ {task[r]}
    BY <1>0, <1>a, <1>8 DEF Delete, RowsDeleted, AtTask
  <2>2. PICK u : u = task[r]
    OBVIOUS
  <2>3. ASSUME u \in 1 .. made PROVE JobFits(u)'
    <3>1. CASE u \in contended
      BY <2>1, <3>1 DEF JobFits
    <3>2. CASE u \notin contended
      <4>1. u \notin jobs /\ \A q \in Reqs \ {r} : task[q] # u
        BY <2>1, <2>2, <2>3, <3>2, OnlyMine DEF InWork
      <4>2. Matches(u)'
        BY <2>1, <2>2, <4>1 DEF Matches
      <4>3. QED
        BY <2>1, <2>2, <4>1, <4>2, Touched
    <3>3. QED
      BY <3>1, <3>2
  <2>4. \A t : t # u => (t \in rows' <=> t \in rows) /\ (t \in enabled' <=> t \in enabled)
    BY <2>1, <2>2
  <2>5. QED
    BY <1>c, <2>1, <2>2, <2>3, <2>4
<1>9. CASE DeleteNext(r)
  <2>1. task[r] = None /\ UNCHANGED <<made, rows, enabled>>
    BY <1>a, <1>9 DEF DeleteNext, AtTask
  <2>2. CASE todo[r] # {}
    <3>1. PICK t \in todo[r] : Doom(r, t)
      BY <1>9, <2>2, NextTodo, TypesSplit
    <3>2. t \in 1 .. made
      BY <3>1 DEF Types
    <3>3. QED
      BY <1>d, <2>1, <3>1, <3>2
  <2>3. CASE todo[r] = {}
    <3>1. UNCHANGED <<jobs, contended>> /\ task'[r] = None
      BY <1>0, <1>9, <2>1, <2>3 DEF DeleteNext, Ending
    <3>2. QED
      BY <1>b, <2>1, <3>1
  <2>4. QED
    BY <2>2, <2>3
<1>10. CASE AskSync(r)
  <2>1. pc[r] = "idle" /\ UNCHANGED <<made, jobs, rows, enabled, contended, task>>
    BY <1>10 DEF AskSync, Asked
  <2>2. QED
    BY <1>a, <1>b, <2>1 DEF AtTask
<1>11. CASE SaveSchedule(r) \/ SyncRead(r) \/ SyncList(r)
  <2>1. pc[r] \in {"save", "sync", "list"} /\ UNCHANGED <<made, jobs, rows, enabled, contended>>
    BY <1>11 DEF SaveSchedule, SyncRead, SyncList
  <2>2. task'[r] \in {task[r], None}
    BY <1>0, <1>11 DEF SaveSchedule, SyncRead, SyncList, Ending
  <2>3. QED
    BY <1>a, <1>b, <2>1, <2>2 DEF AtTask
<1> QED
  BY <1>1, <1>2, <1>3, <1>4, <1>5, <1>6, <1>7, <1>8, <1>9, <1>10, <1>11 DEF Request

-----------------------------------------------------------------------------
\* What is no request: the lifespan, the server, and the executions.
Elsewhere == Lifespan \/ Crash \/ Server \/ DeleteServer \/ \E x \in Runs : Execution(x)

LEMMA ServedElsewhere ==
  ASSUME Types, Served, Elsewhere
  PROVE  Served'
<1> USE DEF Served, InFlight, AtTask
<1>1. CASE Lifespan
  BY <1>1 DEF Lifespan, Boot, LoadTasks, Shutdown, StopAll, Stopped, SchedulerDown, reqVars
<1>2. CASE Crash
  BY <1>2 DEF Crash, Types
<1>3. CASE Server \/ DeleteServer \/ \E x \in Runs : Execution(x)
  BY <1>3 DEF Server, UserStarts, ServerExits, StrayStarts, WatcherSpawned, DeleteServer, Execution, Fire, RunNow, Begin, Act, reqVars, lifeVars
<1>4. QED
  BY <1>1, <1>2, <1>3 DEF Elsewhere

\* The lifespan empties the jobs, or makes them all anew when no request is served.
LEMMA JobsElsewhere ==
  ASSUME Types, Served, JobsFit, Elsewhere
  PROVE  JobsFit'
<1>1. ASSUME UNCHANGED <<made, jobs, rows, enabled, contended, reqVars>>,
             SchedulerAlive' /\ present' => SchedulerAlive /\ present
      PROVE JobsFit'
  BY <1>1 DEF JobsFit, JobFits, InWork, Matches, reqVars
<1>2. CASE LoadTasks
  <2>1. \A r \in Reqs : task[r] = None
    BY <1>2 DEF LoadTasks, Served, InFlight, AtTask
  <2>2. jobs' = rows \cap enabled /\ UNCHANGED <<made, rows, enabled, task>>
    BY <1>2 DEF LoadTasks, dbVars, reqVars
  <2>3. ASSUME NEW t \in 1 .. made PROVE JobFits(t)'
    BY <2>1, <2>2, <2>3 DEF JobFits, Matches, None
  <2>4. QED
    BY <2>2, <2>3 DEF JobsFit
<1>3. CASE Shutdown \/ StopAll \/ Stopped
  BY <1>1, <1>3 DEF Shutdown, StopAll, Stopped, SchedulerAlive, dbVars, histVars
<1>4. CASE Boot \/ SchedulerDown \/ Crash
  BY <1>4 DEF Boot, SchedulerDown, Crash, JobsFit, SchedulerAlive
<1>5. CASE DeleteServer
  BY <1>5 DEF DeleteServer, JobsFit
<1>6. CASE Server \/ \E x \in Runs : Execution(x)
  BY <1>1, <1>6 DEF Server, UserStarts, ServerExits, StrayStarts, WatcherSpawned, Execution, Fire, RunNow, Begin, Act, SchedulerAlive, dbVars,
                    lifeVars, histVars
<1>7. QED
  BY <1>2, <1>3, <1>4, <1>5, <1>6 DEF Elsewhere, Lifespan

JobsInv == Types /\ Served /\ JobsFit

LEMMA JobsInit == Init => JobsInv
<1> SUFFICES ASSUME Init PROVE JobsInv
  OBVIOUS
<1>1. Served /\ JobsFit
  BY DEF Init, Served, InFlight, AtTask, JobsFit, SchedulerAlive
<1>2. QED
  BY <1>1, InitTypes DEF JobsInv

LEMMA JobsNext == JobsInv /\ [Next]_vars => JobsInv'
<1> SUFFICES ASSUME Types, Served, JobsFit, [Next]_vars PROVE Types' /\ Served' /\ JobsFit'
  BY DEF JobsInv
<1>1. ASSUME NEW r \in Reqs, Request(r) PROVE Types' /\ Served' /\ JobsFit'
  <2>1. SchedulerAlive' = SchedulerAlive /\ present' = present
    BY <1>1, OthersKept DEF SchedulerAlive
  <2>2. QED
    BY <1>1, <2>1, TypesRequest, ServedRequest, JobsRequest DEF JobsFit
<1>2. CASE Elsewhere
  BY <1>2, TypesElsewhere, ServedElsewhere, JobsElsewhere DEF Elsewhere
<1>3. CASE UNCHANGED vars
  BY <1>3 DEF vars, dbVars, reqVars, lifeVars, histVars, Types, Served, InFlight, JobsFit,
              SchedulerAlive, JobFits, InWork, Matches
<1>4. QED
  BY <1>1, <1>2, <1>3 DEF Next, Elsewhere

\* A task at rest has a job if and only if it has an enabled row: see JobsMatchRows.
THEOREM JobsAgree == Spec => []JobsMatchRows
<1>1. JobsInv => JobsMatchRows
  BY DEF JobsInv, JobsFit, JobFits, Matches, JobsMatchRows, AtRest
<1>2. QED
  BY <1>1, JobsInit, JobsNext, PTL DEF Spec

-----------------------------------------------------------------------------
(* The uptime schedule.                                                   *)

\* The schedule s asks for a task named n.
AsksFor(s, n) == \E i \in DOMAIN PlanOf[s] : PlanOf[s][i] = n

\* What each await says of the kind of its request and of the names that it adds.
SyncAwaits == {"save", "sync", "list", "next", "delete", "insert", "refresh"}
NamesFit ==
  \A r \in Reqs :
    /\ kind[r] = "sync" => pc[r] \in SyncAwaits
    /\ pc[r] \in {"save", "sync", "list"} => kind[r] = "sync"

\* Row t is one that the sync r leaves behind: it did not stand when r listed the
\* rows, and r has made it, or a user.
MadeBy(t, r) == /\ t \notin listed
                /\ maker[t] # None => maker[t] = r /\ AsksFor(schedule, name[t])
UptimeRows   == {t \in rows : name[t] \in UptimeNames}

\* The sync r, alone, has listed the old uptime tasks: those it has not removed
\* yet are in todo[r], and all others are its own or a user's.
Listed(r) ==
  /\ lastSync = r
  /\ \A i \in DOMAIN adding[r] : AsksFor(schedule, adding[r][i])
  /\ \A t \in UptimeRows : t \in todo[r] \/ MadeBy(t, r)
  /\ pc[r] \in {"insert", "refresh"} => todo[r] = {}

Alone(r) ==
  /\ \A q \in Reqs : kind[q] = "sync" => q = r
  /\ pc[r] = "list" => adding[r] = PlanOf[schedule]
  /\ pc[r] \in {"next", "delete", "insert", "refresh"} => Listed(r)

\* Unless syncs overlapped or were lost: with no sync in progress, all uptime rows
\* are the last one's or a user's later ones; otherwise there is one in progress.
LatestFits ==
  ~disturbed =>
    /\ (\A r \in Reqs : kind[r] # "sync") => \A t \in UptimeRows : MadeBy(t, lastSync)
    /\ \A r \in Reqs : kind[r] = "sync" => Alone(r)

RowsNeedServer == ~present => rows = {}
ListedWasMade  == listed \subseteq 1 .. made

UptimeInv == RowsNeedServer /\ ListedWasMade /\ NamesFit /\ LatestFits

-----------------------------------------------------------------------------
\* The elements of a tail are elements of the sequence.
LEMMA TailElements ==
  ASSUME NEW S, NEW s \in Seq(S), Len(s) > 1
  PROVE  \A i \in DOMAIN Tail(s) : \E j \in DOMAIN s : Tail(s)[i] = s[j]
<1>1. s # <<>>
  BY EmptySeq
<1>2. /\ Tail(s) \in Seq(S) /\ Len(Tail(s)) = Len(s) - 1 /\ Len(s) \in Nat
      /\ \A i \in 1 .. Len(Tail(s)) : Tail(s)[i] = s[i + 1]
  BY <1>1, HeadTailProperties, LenProperties
<1>3. DOMAIN Tail(s) = 1 .. Len(Tail(s)) /\ DOMAIN s = 1 .. Len(s)
  BY <1>2, LenProperties
<1>4. ASSUME NEW i \in DOMAIN Tail(s) PROVE i + 1 \in DOMAIN s /\ Tail(s)[i] = s[i + 1]
  BY <1>2, <1>3, <1>4
<1>5. QED
  BY <1>4

LEMMA NamesFitRequest ==
  ASSUME Types, NamesFit, NEW r \in Reqs, Request(r)
  PROVE  NamesFit'
<1> DEFINE Fit == /\ kind'[r] = "sync" => pc'[r] \in SyncAwaits
                  /\ pc'[r] \in {"save", "sync", "list"} => kind'[r] = "sync"
<1> SUFFICES Fit
  BY OthersKept DEF NamesFit
<1> USE DEF SyncAwaits, Goto
<1>0. /\ r \in DOMAIN pc /\ r \in DOMAIN kind
      /\ kind[r] = "sync" => pc[r] \in SyncAwaits
      /\ pc[r] \in {"save", "sync", "list"} => kind[r] = "sync"
  BY DEF Types, NamesFit
<1>1. ASSUME Ending(r) PROVE Fit
  BY <1>0, <1>1 DEF Ending
<1>2. CASE AskCreate(r)
  BY <1>0, <1>2 DEF AskCreate, Asked
<1>3. CASE Insert(r)
  <2>1. CASE present
    BY <1>0, <1>3, <2>1 DEF Insert
  <2>2. QED
    BY <1>1, <1>3, <2>1 DEF Insert
<1>4. CASE Refresh(r)
  <2>1. CASE Ending(r)
    BY <1>1, <2>1
  <2>2. CASE ~Ending(r)
    BY <1>0, <1>4, <2>2 DEF Refresh
  <2>3. QED
    BY <2>1, <2>2
<1>5. CASE AskToggle(r) \/ AskRemove(r)
  BY <1>0, <1>5 DEF AskToggle, AskRemove, Asked, Doom
<1>6. CASE Flip(r)
  <2>1. CASE Ending(r)
    BY <1>1, <2>1
  <2>2. CASE ~Ending(r)
    BY <1>0, <1>6, <2>2 DEF Flip
  <2>3. QED
    BY <2>1, <2>2
<1>7. CASE Apply(r)
  BY <1>1, <1>7 DEF Apply
<1>8. CASE Delete(r)
  BY <1>0, <1>8 DEF Delete
<1>9. CASE DeleteNext(r)
  <2>1. CASE Ending(r)
    BY <1>1, <2>1
  <2>2. CASE ~Ending(r)
    <3>1. pc'[r] \in {"delete", "insert"} /\ UNCHANGED kind
      BY <1>0, <1>9, <2>2 DEF DeleteNext, Doom
    <3>2. QED
      BY <1>0, <3>1
  <2>3. QED
    BY <2>1, <2>2
<1>10. CASE AskSync(r)
  BY <1>0, <1>10 DEF AskSync, Asked
<1>11. CASE SaveSchedule(r) \/ SyncRead(r) \/ SyncList(r)
  <2>1. CASE Ending(r)
    BY <1>1, <2>1
  <2>2. CASE ~Ending(r)
    <3>1. pc[r] \in {"save", "sync", "list"} /\ pc'[r] \in {"sync", "list", "next"} /\ kind' = kind
      BY <1>0, <1>11, <2>2 DEF SaveSchedule, SyncRead, SyncList
    <3>2. QED
      BY <1>0, <3>1
  <2>3. QED
    BY <2>1, <2>2
<1> QED
  BY <1>2, <1>3, <1>4, <1>5, <1>6, <1>7, <1>8, <1>9, <1>10, <1>11 DEF Request

\* The uptime rows after the step are among those before it, unchanged, or a user's new ones.
Shrinks ==
  \A t \in UptimeRows' : \/ t \in UptimeRows /\ name'[t] = name[t] /\ maker'[t] = maker[t]
                         \/ t \notin listed' /\ maker'[t] = None

LEMMA NoRowShrinks == UNCHANGED <<rows, name, maker>> => Shrinks
<1> SUFFICES ASSUME UNCHANGED <<rows, name, maker>> PROVE Shrinks
  OBVIOUS
<1>1. UptimeRows' = UptimeRows
  BY DEF UptimeRows
<1>2. QED
  BY <1>1 DEF Shrinks

LEMMA DeletedShrinks ==
  ASSUME Types, NEW gone, RowsDeleted(gone)
  PROVE  Shrinks /\ \A t \in UptimeRows' : t \notin gone
<1>1. rows \subseteq Tasks
  BY BoundAssumption DEF Types, Tasks
<1>2. \A t \in UptimeRows' : t \in rows \ gone /\ name'[t] = name[t] /\ maker'[t] = maker[t]
  BY <1>1 DEF RowsDeleted, UptimeRows
<1>3. \A t \in UptimeRows' : t \in UptimeRows
  BY <1>2 DEF UptimeRows
<1>4. QED
  BY <1>2, <1>3 DEF Shrinks

\* A step of a request that is no sync, before or after.
LEMMA Bystander ==
  ASSUME Types, LatestFits, NEW r \in Reqs, Request(r), Shrinks,
         kind[r] # "sync", kind'[r] # "sync", UNCHANGED <<schedule, lastSync, listed, disturbed>>
  PROVE  LatestFits'
<1> SUFFICES ASSUME ~disturbed
             PROVE  /\ (\A q \in Reqs : kind'[q] # "sync") => \A t \in UptimeRows' : MadeBy(t, lastSync)'
                    /\ \A q \in Reqs : kind'[q] = "sync" => Alone(q)'
  BY DEF LatestFits
<1>1. \A q \in Reqs : kind'[q] = "sync" <=> kind[q] = "sync"
  BY OthersKept
<1>2. \A q : \A t \in UptimeRows' : (t \in UptimeRows => MadeBy(t, q)) => MadeBy(t, q)'
  BY DEF Shrinks, MadeBy
<1>3. CASE \A q \in Reqs : kind[q] # "sync"
  <2>1. \A t \in UptimeRows : MadeBy(t, lastSync)
    BY <1>3 DEF LatestFits
  <2>2. \A t \in UptimeRows' : MadeBy(t, lastSync)'
    BY <2>1 DEF Shrinks, MadeBy
  <2>3. QED
    BY <1>1, <1>3, <2>2
<1>4. ASSUME NEW q \in Reqs, kind[q] = "sync" PROVE Alone(q)'
  <2>1. Alone(q) /\ q # r
    BY <1>4 DEF LatestFits
  <2>2. pc'[q] = pc[q] /\ todo'[q] = todo[q] /\ adding'[q] = adding[q]
    BY <2>1, OthersKept
  <2>3. ASSUME Listed(q) PROVE Listed(q)'
    <3>1. \A t \in UptimeRows' : t \in todo'[q] \/ MadeBy(t, q)'
      BY <1>2, <2>2, <2>3 DEF Listed
    <3>2. QED
      BY <2>2, <2>3, <3>1 DEF Listed
  <2>4. QED
    BY <1>1, <2>1, <2>2, <2>3 DEF Alone
<1>5. QED
  BY <1>1, <1>3, <1>4

\* The one sync in progress ends: it has nothing left to remove, or no row is left.
LEMMA SyncEnds ==
  ASSUME Types, LatestFits, NEW r \in Reqs, Request(r), Ending(r), kind[r] = "sync",
         UNCHANGED disturbed,
         ~disturbed => \A t \in UptimeRows' : MadeBy(t, lastSync)'
  PROVE  LatestFits'
<1>1. kind'[r] # "sync"
  BY DEF Ending, Types
<1>2. ~disturbed => \A q \in Reqs : kind'[q] # "sync"
  BY <1>1, OthersKept DEF LatestFits, Alone
<1>3. QED
  BY <1>2 DEF LatestFits

\* The one sync in progress goes on.
LEMMA SyncGoesOn ==
  ASSUME Types, LatestFits, NEW r \in Reqs, Request(r), kind[r] = "sync", kind'[r] = "sync",
         UNCHANGED disturbed,
         ~disturbed /\ pc'[r] = "list" => adding'[r] = PlanOf[schedule'],
         ~disturbed /\ pc'[r] \in {"next", "delete", "insert", "refresh"} => Listed(r)'
  PROVE  LatestFits'
<1>1. ~disturbed => \A q \in Reqs : kind'[q] = "sync" => q = r
  BY OthersKept DEF LatestFits, Alone
<1>2. ~disturbed => Alone(r)'
  BY <1>1 DEF Alone
<1>3. QED
  BY <1>1, <1>2 DEF LatestFits

\* With its server, the rows are gone: a sync that finds no server leaves none behind.
LEMMA NoServerEnds ==
  ASSUME Types, RowsNeedServer, LatestFits, NEW r \in Reqs, Request(r), Ending(r), kind[r] = "sync",
         UNCHANGED <<disturbed, rows>>, ~present
  PROVE  LatestFits'
<1>1. UptimeRows' = {}
  BY DEF RowsNeedServer, UptimeRows
<1>2. QED
  BY <1>1, SyncEnds

LEMMA LatestRequest ==
  ASSUME Types, Served, UptimeInv, NEW r \in Reqs, Request(r)
  PROVE  LatestFits'
<1> USE DEF Goto, dbVars, histVars
<1>0. /\ r \in DOMAIN pc /\ r \in DOMAIN kind /\ r \in DOMAIN adding /\ r \in DOMAIN todo
      /\ RowsNeedServer /\ ListedWasMade /\ NamesFit /\ LatestFits
  BY DEF Types, UptimeInv
\* What the invariant says of the sync r while it removes and adds rows.
<1>a. ASSUME kind[r] = "sync", pc[r] \in {"next", "delete", "insert", "refresh"}, ~disturbed PROVE Listed(r)
  BY <1>0, <1>a DEF LatestFits, Alone
\* A step of the sync r that leaves the rows, its lists and the schedule alone.
<1>b. ASSUME kind[r] = "sync", kind'[r] = "sync", Shrinks, UNCHANGED <<schedule, lastSync, listed, disturbed>>,
             pc[r] \in {"next", "delete", "insert", "refresh"},
             pc'[r] \in {"next", "delete", "insert", "refresh"},
             \A i \in DOMAIN adding'[r] : \E j \in DOMAIN adding[r] : adding'[r][i] = adding[r][j],
             \A t \in UptimeRows' : t \in todo[r] => t \in todo'[r],
             pc'[r] \in {"insert", "refresh"} => todo'[r] = {}
      PROVE LatestFits'
  <2>1. ASSUME ~disturbed PROVE Listed(r)'
    <3>1. Listed(r)
      BY <1>a, <1>b, <2>1
    <3>2. \A i \in DOMAIN adding'[r] : AsksFor(schedule', adding'[r][i])
      BY <1>b, <3>1 DEF Listed
    <3>3. \A t \in UptimeRows' : t \in todo'[r] \/ MadeBy(t, r)'
      BY <1>b, <3>1 DEF Listed, Shrinks, MadeBy
    <3>4. QED
      BY <1>b, <3>1, <3>2, <3>3 DEF Listed
  <2>2. QED
    BY <1>0, <1>b, <2>1, SyncGoesOn
<1>1. CASE AskCreate(r) \/ AskToggle(r) \/ AskRemove(r)
  <2>1. pc[r] = "idle" /\ kind'[r] # "sync" /\ UNCHANGED <<rows, name, maker, schedule, lastSync, listed, disturbed>>
    BY <1>0, <1>1 DEF AskCreate, AskToggle, AskRemove, Asked
  <2>2. kind[r] # "sync"
    BY <1>0, <2>1 DEF NamesFit, SyncAwaits
  <2>3. QED
    BY <1>0, <2>1, <2>2, NoRowShrinks, Bystander
<1>2. CASE Flip(r) \/ Apply(r)
  <2>1. pc[r] \in {"flip", "apply"} /\ kind'[r] \in {kind[r], "none"}
        /\ UNCHANGED <<rows, name, maker, schedule, lastSync, listed, disturbed>>
    BY <1>0, <1>2 DEF Flip, Apply, Ending
  <2>2. kind[r] # "sync"
    BY <1>0, <2>1 DEF NamesFit, SyncAwaits
  <2>3. QED
    BY <1>0, <2>1, <2>2, NoRowShrinks, Bystander
<1>3. CASE Insert(r)
  <2>1. pc[r] = "insert" /\ UNCHANGED <<schedule, lastSync, listed, disturbed>>
    BY <1>3 DEF Insert
  <2>2. CASE ~present
    <3>1. Ending(r) /\ UNCHANGED <<rows, name, maker>>
      BY <1>3, <2>2 DEF Insert
    <3>2. kind'[r] # "sync"
      BY <1>0, <3>1 DEF Ending
    <3>3. QED
      BY <1>0, <2>1, <2>2, <3>1, <3>2, NoServerEnds, NoRowShrinks, Bystander
  <2>3. CASE present
    <3>1. /\ rows' = rows \cup {made + 1} /\ pc'[r] = "refresh" /\ UNCHANGED <<kind, todo, adding>>
          /\ name' = [name EXCEPT ![made + 1] = Head(adding[r])]
          /\ maker' = [maker EXCEPT ![made + 1] = IF kind[r] = "sync" THEN r ELSE None]
      BY <1>0, <1>3, <2>3 DEF Insert
    <3>2. made + 1 \in Tasks /\ made + 1 \notin rows /\ name \in [Tasks -> Names]
          /\ maker \in [Tasks -> 0 .. NumReqs]
      <4>1. made < MaxTasks
        BY <1>3 DEF Insert
      <4>2. QED
        BY <4>1, BoundAssumption DEF Types, Tasks
    <3>3. PICK n : n = made + 1
      OBVIOUS
    <3>4. /\ name'[n] = Head(adding[r]) /\ maker'[n] = (IF kind[r] = "sync" THEN r ELSE None)
          /\ \A t \in rows : name'[t] = name[t] /\ maker'[t] = maker[t]
      BY <3>1, <3>2, <3>3
    <3>5. adding[r] \in Seq(Names) /\ adding[r] # <<>>
      BY <2>1 DEF Types
    <3>6. 1 \in DOMAIN adding[r] /\ Head(adding[r]) = adding[r][1]
      BY <3>5
    <3>7. CASE kind[r] # "sync"
      <4>1. n \notin listed /\ maker'[n] = None
        BY <1>0, <3>3, <3>4, <3>7, BoundAssumption DEF Types, ListedWasMade
      <4>2. Shrinks
        <5>1. ASSUME NEW t \in UptimeRows', t # n
              PROVE t \in UptimeRows /\ name'[t] = name[t] /\ maker'[t] = maker[t]
          BY <3>1, <3>3, <3>4, <5>1 DEF UptimeRows
        <5>2. QED
          BY <2>1, <4>1, <5>1 DEF Shrinks
      <4>3. QED
        BY <1>0, <2>1, <3>1, <3>7, <4>2, Bystander
    <3>8. CASE kind[r] = "sync"
      <4>1. ASSUME ~disturbed PROVE Listed(r)'
        <5>1. Listed(r) /\ todo[r] = {}
          BY <1>a, <2>1, <3>8, <4>1 DEF Listed
        <5>2. AsksFor(schedule, name'[n]) /\ maker'[n] = r
          BY <3>4, <3>6, <3>8, <5>1 DEF Listed
        <5>3. ASSUME NEW t \in UptimeRows' PROVE MadeBy(t, r)'
          <6>1. CASE t = n
            <7>1. n \notin listed
              BY <1>0, <3>3, BoundAssumption DEF Types, ListedWasMade
            <7>2. QED
              BY <2>1, <5>2, <6>1, <7>1 DEF MadeBy
          <6>2. CASE t # n
            <7>1. t \in rows
              BY <3>1, <3>3, <6>2 DEF UptimeRows
            <7>2. t \in UptimeRows
              BY <3>4, <7>1 DEF UptimeRows
            <7>3. MadeBy(t, r)
              BY <5>1, <7>2 DEF Listed
            <7>4. QED
              BY <2>1, <3>4, <7>1, <7>3 DEF MadeBy
          <6>3. QED
            BY <6>1, <6>2
        <5>4. QED
          BY <2>1, <3>1, <5>1, <5>3 DEF Listed
      <4>2. QED
        BY <1>0, <2>1, <3>1, <3>8, <4>1, SyncGoesOn
    <3>9. QED
      BY <3>7, <3>8
  <2>4. QED
    BY <2>2, <2>3
<1>4. CASE Refresh(r)
  <2>1. pc[r] = "refresh" /\ UNCHANGED <<rows, name, maker, schedule, lastSync, listed, disturbed>>
    BY <1>4 DEF Refresh
  <2>2. Shrinks
    BY <2>1, NoRowShrinks
  <2>3. CASE kind[r] # "sync"
    <3>1. kind'[r] # "sync"
      BY <1>0, <1>4, <2>3 DEF Refresh, Ending
    <3>2. QED
      BY <1>0, <2>1, <2>2, <2>3, <3>1, Bystander
  <2>4. CASE kind[r] = "sync" /\ Ending(r)
    <3>1. ASSUME ~disturbed PROVE \A t \in UptimeRows' : MadeBy(t, lastSync)'
      <4>1. Listed(r) /\ todo[r] = {}
        BY <1>a, <2>1, <2>4, <3>1 DEF Listed
      <4>2. QED
        BY <2>1, <4>1 DEF Listed, UptimeRows, MadeBy
    <3>2. QED
      BY <1>0, <2>1, <2>4, <3>1, SyncEnds
  <2>5. CASE kind[r] = "sync" /\ ~Ending(r)
    <3>1. /\ Len(adding[r]) > 1 /\ adding'[r] = Tail(adding[r]) /\ pc'[r] = "insert"
          /\ UNCHANGED <<kind, todo>>
      BY <1>0, <1>4, <2>5 DEF Refresh
    <3>2. adding[r] \in Seq(Names)
      BY DEF Types
    <3>3. \A i \in DOMAIN adding'[r] : \E j \in DOMAIN adding[r] : adding'[r][i] = adding[r][j]
      BY <3>1, <3>2, TailElements
    <3>4. ASSUME ~disturbed PROVE Listed(r)'
      <4>1. Listed(r) /\ todo[r] = {}
        BY <1>a, <2>1, <2>5, <3>4 DEF Listed
      <4>2. \A i \in DOMAIN adding'[r] : AsksFor(schedule', adding'[r][i])
        BY <2>1, <3>3, <4>1 DEF Listed
      <4>3. \A t \in UptimeRows' : MadeBy(t, r)'
        BY <2>1, <4>1 DEF Listed, UptimeRows, MadeBy
      <4>4. QED
        BY <2>1, <3>1, <4>1, <4>2, <4>3 DEF Listed
    <3>5. QED
      BY <1>0, <2>1, <2>5, <3>1, <3>4, SyncGoesOn
  <2>6. QED
    BY <2>3, <2>4, <2>5
<1>5. CASE Delete(r)
  <2>1. /\ pc[r] = "delete" /\ pc'[r] = "next" /\ RowsDeleted({task[r]})
        /\ UNCHANGED <<schedule, lastSync, listed, disturbed, kind, adding>>
        /\ todo'[r] = todo[r] \ {task[r]}
    BY <1>0, <1>5 DEF Delete
  <2>2. Shrinks /\ \A t \in UptimeRows' : t # task[r]
    BY <2>1, DeletedShrinks
  <2>3. CASE kind[r] # "sync"
    BY <1>0, <2>1, <2>2, <2>3, Bystander
  <2>4. CASE kind[r] = "sync"
    BY <1>b, <2>1, <2>2, <2>4
  <2>5. QED
    BY <2>3, <2>4
<1>6. CASE DeleteNext(r)
  <2>1. pc[r] = "next" /\ UNCHANGED <<rows, name, maker, schedule, lastSync, listed, disturbed>>
    BY <1>6 DEF DeleteNext
  <2>2. Shrinks
    BY <2>1, NoRowShrinks
  <2>3. CASE kind[r] # "sync"
    <3>1. kind'[r] # "sync"
      BY <1>0, <1>6, <2>3 DEF DeleteNext, Ending
    <3>2. QED
      BY <1>0, <2>1, <2>2, <2>3, <3>1, Bystander
  <2>4. CASE kind[r] = "sync" /\ Ending(r) /\ todo[r] = {}
    <3>1. ASSUME ~disturbed PROVE \A t \in UptimeRows' : MadeBy(t, lastSync)'
      <4>1. Listed(r)
        BY <1>a, <2>1, <2>4, <3>1
      <4>2. QED
        BY <2>1, <2>4, <4>1 DEF Listed, UptimeRows, MadeBy
    <3>2. QED
      BY <1>0, <2>1, <2>4, <3>1, SyncEnds
  <2>5. CASE kind[r] = "sync" /\ ~(Ending(r) /\ todo[r] = {})
    <3>1. /\ pc'[r] \in {"delete", "insert"} /\ (pc'[r] = "insert" => todo[r] = {})
          /\ UNCHANGED <<kind, todo, adding>>
      BY <1>0, <1>6, <2>5 DEF DeleteNext, Doom
    <3>2. QED
      BY <1>b, <2>1, <2>2, <2>5, <3>1
  <2>6. QED
    BY <2>3, <2>4, <2>5
<1>7. CASE AskSync(r)
  <2>1. pc[r] = "idle" /\ pc'[r] = "save" /\ (disturbed' = \E q \in Reqs : Syncing(q))
    BY <1>0, <1>7 DEF AskSync, Asked
  <2>2. kind'[r] = "sync"
    BY <1>0, <1>7 DEF AskSync, Asked
  <2>3. ~disturbed' => \A q \in Reqs : kind[q] # "sync"
    BY <2>1 DEF Syncing, Served
  <2>4. ~disturbed' => \A q \in Reqs : kind'[q] = "sync" => q = r
    BY <2>3, OthersKept
  <2>5. QED
    BY <2>1, <2>2, <2>4 DEF LatestFits, Alone
<1>8. CASE SaveSchedule(r) \/ SyncRead(r)
  <2>1. pc[r] \in {"save", "sync"} /\ kind[r] = "sync" /\ UNCHANGED <<rows, disturbed>>
    BY <1>0, <1>8 DEF SaveSchedule, SyncRead, NamesFit
  <2>2. CASE ~present
    <3>1. Ending(r)
      BY <1>8, <2>2 DEF SaveSchedule, SyncRead
    <3>2. QED
      BY <1>0, <2>1, <2>2, <3>1, NoServerEnds
  <2>3. CASE present
    <3>1. /\ kind' = kind
          /\ \/ pc'[r] = "sync"
             \/ pc'[r] = "list" /\ adding'[r] = PlanOf[schedule] /\ schedule' = schedule
      BY <1>0, <1>8, <2>3 DEF SaveSchedule, SyncRead
    <3>2. QED
      BY <1>0, <2>1, <3>1, SyncGoesOn
  <2>4. QED
    BY <2>2, <2>3
<1>9. CASE SyncList(r)
  <2>1. /\ pc[r] = "list" /\ kind[r] = "sync" /\ pc'[r] = "next" /\ lastSync' = r
        /\ UNCHANGED <<rows, name, maker, schedule, disturbed, kind, adding>>
        /\ todo'[r] = UptimeRows
    BY <1>0, <1>9 DEF SyncList, NamesFit, UptimeRows
  <2>2. ASSUME ~disturbed PROVE Listed(r)'
    <3>1. adding'[r] = PlanOf[schedule']
      BY <1>0, <2>1, <2>2 DEF LatestFits, Alone
    <3>2. \A i \in DOMAIN adding'[r] : AsksFor(schedule', adding'[r][i])
      BY <3>1 DEF AsksFor
    <3>3. \A t \in UptimeRows' : t \in todo'[r]
      BY <2>1 DEF UptimeRows
    <3>4. QED
      BY <2>1, <3>2, <3>3 DEF Listed
  <2>3. QED
    BY <1>0, <2>1, <2>2, SyncGoesOn
<1> QED
  BY <1>1, <1>2, <1>3, <1>4, <1>5, <1>6, <1>7, <1>8, <1>9 DEF Request

LEMMA UptimeElsewhere ==
  ASSUME Types, Served, UptimeInv, Elsewhere
  PROVE  UptimeInv'
<1> USE DEF dbVars, reqVars, histVars
<1>1. ASSUME UNCHANGED <<present, rows, name, maker, made, schedule, pc, kind, todo, adding, disturbed, lastSync, listed>>
      PROVE UptimeInv'
  BY <1>1 DEF UptimeInv, RowsNeedServer, ListedWasMade, NamesFit, LatestFits, UptimeRows, Alone, Listed, MadeBy
<1>2. CASE Lifespan
  BY <1>1, <1>2 DEF Lifespan, Boot, LoadTasks, Shutdown, StopAll, Stopped, SchedulerDown
<1>3. CASE Server \/ \E x \in Runs : Execution(x)
  BY <1>1, <1>3 DEF Server, UserStarts, ServerExits, StrayStarts, WatcherSpawned, Execution, Fire, RunNow, Begin, Act
\* The death of the manager loses a sync, or finds none.
<1>4. CASE Crash
  <2>1. /\ UNCHANGED <<present, rows, name, maker, made, schedule, lastSync, listed>>
        /\ \A r \in Reqs : kind'[r] = "none" /\ adding'[r] = <<>>
        /\ (disturbed' = (disturbed \/ \E r \in Reqs : kind[r] = "sync"))
    BY <1>4 DEF Crash
  <2>2. \A r \in Reqs : pc'[r] \in {"idle", "ended"}
    BY <1>4 DEF Crash, InFlight
  <2>3. NamesFit'
    BY <2>1, <2>2 DEF NamesFit
  <2>4. RowsNeedServer' /\ ListedWasMade'
    BY <2>1 DEF UptimeInv, RowsNeedServer, ListedWasMade
  <2>5. LatestFits'
    BY <2>1 DEF UptimeInv, LatestFits, UptimeRows, MadeBy
  <2>6. QED
    BY <2>3, <2>4, <2>5 DEF UptimeInv
<1>5. CASE DeleteServer
  <2>1. /\ UNCHANGED <<pc, kind, todo, adding, made, schedule, disturbed, lastSync, listed>>
        /\ RowsDeleted(rows)
    BY <1>5 DEF DeleteServer
  <2>2. rows' = {}
    BY <2>1 DEF RowsDeleted
  <2>3. NamesFit' /\ RowsNeedServer' /\ ListedWasMade'
    BY <2>1, <2>2 DEF UptimeInv, NamesFit, RowsNeedServer, ListedWasMade
  <2>4. LatestFits'
    BY <2>1, <2>2 DEF UptimeInv, LatestFits, UptimeRows, Alone, Listed
  <2>5. QED
    BY <2>3, <2>4 DEF UptimeInv
<1>6. QED
  BY <1>2, <1>3, <1>4, <1>5 DEF Elsewhere

LEMMA UptimeInit == Init => UptimeInv
<1> SUFFICES ASSUME Init PROVE UptimeInv
  OBVIOUS
<1>1. NamesFit
  BY DEF Init, NamesFit
<1>2. QED
  BY <1>1 DEF Init, UptimeInv, RowsNeedServer, ListedWasMade, LatestFits, UptimeRows

LEMMA UptimeNext == JobsInv /\ UptimeInv /\ [Next]_vars => UptimeInv'
<1> SUFFICES ASSUME Types, Served, UptimeInv, [Next]_vars PROVE UptimeInv'
  BY DEF JobsInv
<1>1. ASSUME NEW r \in Reqs, Request(r) PROVE UptimeInv'
  <2>1. NamesFit'
    BY <1>1, NamesFitRequest DEF UptimeInv
  <2>2. ~present => rows' = {}
    <3>1. ~present => rows' \subseteq rows
      BY <1>1 DEF Request, AskCreate, Insert, Refresh, AskToggle, Flip, Apply, AskRemove, Delete,
                  DeleteNext, AskSync, SaveSchedule, SyncRead, SyncList, RowsDeleted, dbVars
    <3>2. QED
      BY <3>1 DEF UptimeInv, RowsNeedServer
  <2>3. RowsNeedServer'
    BY <1>1, <2>2, OthersKept DEF RowsNeedServer
  <2>4. ListedWasMade'
    <3>1. listed' \subseteq listed \cup rows
      <4>1. CASE SyncList(r)
        <5>1. todo'[r] = {t \in rows : name[t] \in UptimeNames}
          BY <4>1 DEF SyncList, Types
        <5>2. QED
          BY <4>1, <5>1 DEF SyncList
      <4>2. CASE ~SyncList(r)
        BY <1>1, <4>2 DEF Request, AskCreate, Insert, Refresh, AskToggle, Flip, Apply, AskRemove,
                          Delete, DeleteNext, AskSync, SaveSchedule, SyncRead, histVars
      <4>3. QED
        BY <4>1, <4>2
    <3>2. made' \in {made, made + 1}
      BY <1>1 DEF Request, AskCreate, Insert, Refresh, AskToggle, Flip, Apply, AskRemove, Delete,
                  DeleteNext, AskSync, SaveSchedule, SyncRead, SyncList, dbVars
    <3>3. made \in Nat /\ rows \subseteq 1 .. made /\ listed \subseteq 1 .. made
      BY BoundAssumption DEF Types, UptimeInv, ListedWasMade
    <3>4. QED
      BY <3>1, <3>2, <3>3 DEF ListedWasMade
  <2>5. QED
    BY <1>1, <2>1, <2>3, <2>4, LatestRequest DEF UptimeInv
<1>2. CASE Elsewhere
  BY <1>2, UptimeElsewhere
<1>3. CASE UNCHANGED vars
  BY <1>3 DEF vars, dbVars, reqVars, histVars, UptimeInv, RowsNeedServer, ListedWasMade, NamesFit, LatestFits,
              UptimeRows, Alone, Listed, MadeBy
<1>4. QED
  BY <1>1, <1>2, <1>3 DEF Next, Elsewhere

\* With no sync in progress, the tasks named "Uptime:..." are the last sync's, or
\* users' later ones: see UptimeFromLatestSync.
THEOREM UptimeIsLatest == Spec => []UptimeFromLatestSync
<1>1. JobsInv /\ UptimeInv => UptimeFromLatestSync
  <2> SUFFICES ASSUME JobsInv, UptimeInv, ~disturbed, \A r \in Reqs : ~Syncing(r),
                      NEW t \in rows, name[t] \in UptimeNames
               PROVE  /\ t \notin listed
                      /\ maker[t] # None =>
                           maker[t] = lastSync /\ \E i \in DOMAIN PlanOf[schedule] : PlanOf[schedule][i] = name[t]
    BY DEF UptimeFromLatestSync
  <2>1. \A r \in Reqs : kind[r] # "sync"
    BY DEF Syncing, JobsInv, Served
  <2>2. t \in UptimeRows
    BY DEF UptimeRows
  <2>3. QED
    BY <2>1, <2>2 DEF UptimeInv, LatestFits, MadeBy, AsksFor
<1>2. QED
  BY <1>1, JobsInit, JobsNext, UptimeInit, UptimeNext, PTL DEF Spec
=============================================================================
