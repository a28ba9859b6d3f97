--------------------------- MODULE TaskScheduler ---------------------------
(***************************************************************************)
(* The scheduled tasks of ONE server (src/gsm/app/services/                *)
(* task_scheduler.py and the routes that call it) in the life of the       *)
(* manager (src/gsm/app/main.py, services/task_registry.py).  A task is    *)
(* kept twice: its row in the database and, while it is enabled, a job of  *)
(* APScheduler in memory.  Every request changes the two at two moments.   *)
(*                                                                         *)
(* A step is the code between two awaits; a commit takes effect in a step  *)
(* of its own, before the step that resumes its caller, so that requests   *)
(* on one task may resume in another order than they committed.            *)
(***************************************************************************)
EXTENDS Integers, Sequences

CONSTANTS
  MaxTasks,   \* bound: rows inserted in a behaviour
  NumReqs,    \* bound: requests in a behaviour
  NumRuns,    \* bound: executions in a behaviour
  MaxBoots,   \* bound: starts of the manager
  Kinds,      \* Kinds[r]: the kinds of request that the r-th may be
  Created,    \* the names of the tasks that users create
  Chosen,     \* the uptime schedules that users save
  Runnable    \* whether a start of the server may succeed

ASSUME BoundAssumption ==
  MaxTasks \in Nat \ {0} /\ NumReqs \in Nat \ {0} /\ NumRuns \in Nat /\ MaxBoots \in Nat \ {0}

Tasks    == 1 .. MaxTasks
Reqs     == 1 .. NumReqs
Runs     == 1 .. NumRuns
AllKinds == {"create", "toggle", "remove", "sync"}
ASSUME KindAssumption == Kinds \in [Reqs -> SUBSET AllKinds]

None == 0

\* What a task does to the server: start it, stop it, stop and start it (RESTART,
\* STEAM_UPDATE), or something else (back up, send a command, validate).
Actions == {"start", "stop", "restart", "other"}

\* The names that sync_uptime_schedule gives ("Uptime: Start", ": Shutdown Warning",
\* ": Stop"), and all that match its LIKE 'Uptime:%': a user may name a task so, too.
SyncNames   == {"upStart", "upWarn", "upStop"}
UptimeNames == SyncNames \cup {"upOther"}
Names       == Actions \cup UptimeNames
ASSUME ChoiceAssumption == Created \subseteq Names /\ Runnable \in BOOLEAN

\* The type that sync_uptime_schedule gives to each of its tasks.
ActionOf(n) == IF n = "upStart" THEN "start" ELSE IF n = "upStop" THEN "stop"
               ELSE IF n \in {"upWarn", "upOther"} THEN "other" ELSE n

\* The condition of a task, looked up when it runs.
MayRun(n, isRunning) ==
  /\ n = "upStart" => ~isRunning
  /\ n \in {"upWarn", "upStop"} => isRunning

\* Server.uptime_schedule: none, or one with or without a warning; the tasks that it asks for.
Schedules == {"none", "plain", "warned"}
ASSUME ScheduleAssumption == Chosen \subseteq Schedules

PlanOf    == [s \in Schedules |->
               IF s = "none" THEN <<>> ELSE IF s = "plain" THEN <<"upStart", "upStop">>
               ELSE <<"upStart", "upWarn", "upStop">>]

\* What a request awaits.
Awaits == {"idle", "insert", "refresh", "flip", "apply", "delete", "next", "save", "sync", "list", "ended"}

\* The lifespan: serving; flushing, stopping, draining: the three awaits of an
\* orderly shutdown; down: shut down, or dead.
Phases == {"starting", "serving", "flushing", "stopping", "draining", "down"}

VARIABLES
  phase,     \* where the lifespan of the manager is
  boots,     \* starts of the manager so far
  orderly,   \* the manager is down after a shutdown that ran to its end
  present,   \* the row of the server exists
  targets,   \* stop_all_servers is stopping the process that runs
  up,        \* a process of the server runs
  nowatch,   \* its start, which nobody awaits, has not spawned its watcher yet
  watched,   \* the flush in progress waits for its watcher, that is for its end
  stray,     \* a start that nobody awaits: a crash restart, or the updater's
  late,      \* history: its start was under way when, or began after, stop_all_servers looked
  schedule,  \* Server.uptime_schedule
  rows,      \* the tasks that have a row
  enabled,   \* those whose column says so
  jobs,      \* the tasks that have a job in APScheduler
  name,      \* name[t]: the name of task t
  maker,     \* maker[t]: the sync that made t; 0: a user
  made,      \* ids given so far
  pc,        \* pc[r]: what request r awaits
  kind,      \* kind[r]: what request r is
  task,      \* task[r]: the task that r works on
  want,      \* want[r]: the value of enabled that a toggle decided on
  todo,      \* todo[r]: the uptime tasks that a sync has still to remove
  adding,    \* adding[r]: the names of the tasks that r has still to add
  plan,      \* plan[r]: the schedule that a sync saves
  run,       \* run[x]: the task that execution x is for, and what it awaits
  contended, \* history: tasks that two requests have changed at once
  disturbed, \* history: since the last sync that began alone, another one overlapped or one was lost
  lastSync,  \* history: the sync that read the rows last
  listed     \* history: the rows that it then took for uptime tasks

dbVars   == <<schedule, rows, enabled, name, maker, made, present>>
reqVars  == <<pc, kind, task, want, todo, adding, plan>>
lifeVars == <<phase, boots, orderly, targets>>
procVars == <<up, nowatch, watched, stray, late>>
histVars == <<contended, disturbed, lastSync, listed>>
vars     == <<lifeVars, procVars, dbVars, jobs, reqVars, run, histVars>>

NoRun == [task |-> None, by |-> "nobody", at |-> "idle", does |-> "other"]

Init ==
  /\ phase = "starting" /\ boots = 1 /\ orderly = FALSE /\ targets = FALSE
  /\ present = TRUE /\ up \in {FALSE, Runnable} /\ schedule = "none"
  /\ nowatch = FALSE /\ watched = FALSE /\ stray = "none" /\ late = FALSE
  /\ rows = {} /\ enabled = {} /\ jobs = {}
  /\ name = [t \in Tasks |-> "other"] /\ maker = [t \in Tasks |-> None] /\ made = 0
  /\ pc = [r \in Reqs |-> "idle"] /\ kind = [r \in Reqs |-> "none"]
  /\ task = [r \in Reqs |-> None] /\ want = [r \in Reqs |-> FALSE]
  /\ todo = [r \in Reqs |-> {}] /\ adding = [r \in Reqs |-> <<>>]
  /\ plan = [r \in Reqs |-> "none"]
  /\ run = [x \in Runs |-> NoRun]
  /\ contended = {} /\ disturbed = FALSE /\ lastSync = None /\ listed = {}

Goto(r, next) == pc' = [pc EXCEPT ![r] = next]

\* The request returns: its local variables are gone.
Ending(r) ==
  /\ Goto(r, "ended")
  /\ kind' = [kind EXCEPT ![r] = "none"] /\ task' = [task EXCEPT ![r] = None]
  /\ want' = [want EXCEPT ![r] = FALSE]  /\ todo' = [todo EXCEPT ![r] = {}]
  /\ adding' = [adding EXCEPT ![r] = <<>>] /\ plan' = [plan EXCEPT ![r] = "none"]

\* The rows of the tasks in gone are deleted; an id is not given again.
RowsDeleted(gone) ==
  /\ rows' = rows \ gone /\ enabled' = enabled \ gone
  /\ name' = [t \in Tasks |-> IF t \in gone THEN "other" ELSE name[t]]
  /\ maker' = [t \in Tasks |-> IF t \in gone THEN None ELSE maker[t]]

\* The scheduler runs from load_tasks to the end of the shutdown.
SchedulerAlive == phase \in {"serving", "flushing", "stopping", "draining"}

-----------------------------------------------------------------------------
(* The server                                                              *)

\* A start of the server.  The watcher of its process is spawned at once when
\* somebody awaits the start, and in a later step otherwise.
Launch(awaited) ==
  /\ Runnable /\ present /\ ~up
  /\ up' = TRUE /\ watched' = FALSE /\ nowatch' = ~awaited
  /\ late' = (~awaited /\ phase \in {"stopping", "draining"})
  /\ UNCHANGED targets

\* The process ends.  Its watcher, or whoever stops it to start it again, may
\* leave a start behind that nobody awaits.
Gone ==
  /\ up' = FALSE /\ watched' = FALSE /\ nowatch' = FALSE /\ late' = FALSE
  /\ targets' = FALSE
  /\ stray' \in IF phase = "down" THEN {"none"} ELSE {"none", "pending"}

\* stop_server: nothing runs, and a crash restart is cancelled; or the process
\* ends; or the stop fails.
StopServer ==
  \/ ~up /\ stray' \in {"none", stray} /\ UNCHANGED <<targets, up, nowatch, watched, late>>
  \/ up /\ Gone
  \/ UNCHANGED <<targets, procVars>>

\* A user starts the server, or it stops or dies by itself or at a user's request.
UserStarts ==
  /\ phase = "serving" /\ Launch(TRUE) /\ stray' \in {"none", stray}
  /\ UNCHANGED <<phase, boots, orderly, dbVars, jobs, reqVars, run, histVars>>

ServerExits ==
  /\ up /\ Gone
  /\ UNCHANGED <<phase, boots, orderly, dbVars, jobs, reqVars, run, histVars>>

\* The start that nobody awaits is made, or refused, fails or is cancelled.
StrayStarts ==
  /\ stray = "pending" /\ stray' = "none"
  /\ Launch(FALSE) \/ UNCHANGED <<targets, up, nowatch, watched, late>>
  /\ UNCHANGED <<phase, boots, orderly, dbVars, jobs, reqVars, run, histVars>>

WatcherSpawned ==
  /\ nowatch /\ nowatch' = FALSE
  /\ UNCHANGED <<lifeVars, up, watched, stray, late, dbVars, jobs, reqVars, run, histVars>>

-----------------------------------------------------------------------------
(* The lifespan                                                            *)

\* recover_on_startup stops what an earlier manager left running, and
\* _auto_start_servers starts the server if its row asks for it.
Boot ==
  /\ phase = "down" /\ boots < MaxBoots
  /\ phase' = "starting" /\ boots' = boots + 1 /\ orderly' = FALSE
  /\ up' \in {FALSE, Runnable} /\ late' = FALSE
  /\ UNCHANGED <<targets, nowatch, watched, stray, dbVars, jobs, reqVars, run, histVars>>

\* scheduler.start and load_tasks; then requests are served.
LoadTasks ==
  /\ phase = "starting"
  /\ phase' = "serving"
  /\ jobs' = rows \cap enabled
  /\ contended' = {}
  /\ UNCHANGED <<boots, orderly, targets, procVars, dbVars, reqVars, run, disturbed, lastSync, listed>>

Over(x)     == IF x.at = "idle" THEN x ELSE [NoRun EXCEPT !.at = "ended"]
InFlight(r) == pc[r] \notin {"idle", "ended"}
Spawned(x)  == run[x].by = "user" /\ run[x].at # "ended"

\* What task_registry.flush waits for: the executions that users asked for, and
\* the watcher of a process that runs.
FlushStarts == watched' = (up /\ ~nowatch)
FlushEnds   == ~watched /\ \A x \in Runs : ~Spawned(x)

\* The web server has answered every request before the lifespan resumes, in
\* audit_service.flush, which flushes the task registry.
Shutdown ==
  /\ phase = "serving" /\ \A r \in Reqs : ~InFlight(r)
  /\ phase' = "flushing" /\ FlushStarts
  /\ UNCHANGED <<boots, orderly, targets, up, nowatch, stray, late, dbVars, jobs, reqVars, run, histVars>>

\* Mutant: audit_service.flush is not awaited.
StopAllAtOnce ==
  /\ phase = "flushing"
  /\ phase' = "stopping" /\ targets' = up /\ watched' = FALSE
  /\ late' = (up /\ nowatch)
  /\ UNCHANGED <<boots, orderly, up, nowatch, stray, dbVars, jobs, reqVars, run, histVars>>

\* stop_all_servers looks at the process table.
StopAll ==
  /\ phase = "flushing" /\ FlushEnds
  /\ phase' = "stopping" /\ targets' = up
  /\ late' = (up /\ nowatch)
  /\ UNCHANGED <<boots, orderly, up, nowatch, watched, stray, dbVars, jobs, reqVars, run, histVars>>

\* The stop has ended the process that it found, or has failed, which gather
\* hides, or another process runs by now; then the registry is flushed again.
Stopped ==
  /\ phase = "stopping" /\ phase' = "draining"
  /\ \/ targets /\ Gone
     \/ FlushStarts /\ late' = (late /\ nowatch) /\ targets' = FALSE /\ UNCHANGED <<up, nowatch, stray>>
  /\ UNCHANGED <<boots, orderly, dbVars, jobs, reqVars, run, histVars>>

\* scheduler.shutdown cancels what still runs, and the event loop what nobody awaits.
SchedulerDown ==
  /\ phase = "draining" /\ FlushEnds
  /\ phase' = "down" /\ orderly' = TRUE
  /\ jobs' = {} /\ nowatch' = FALSE /\ stray' = "none"
  /\ run' = [x \in Runs |-> Over(run[x])]
  /\ UNCHANGED <<boots, targets, up, watched, late, dbVars, reqVars, histVars>>

\* The manager dies with its jobs, requests and executions; the server lives on.
Crash ==
  /\ phase # "down"
  /\ phase' = "down" /\ orderly' = FALSE /\ targets' = FALSE
  /\ jobs' = {} /\ nowatch' = FALSE /\ watched' = FALSE /\ stray' = "none"
  /\ run' = [x \in Runs |-> Over(run[x])]
  /\ pc' = [r \in Reqs |-> IF InFlight(r) THEN "ended" ELSE pc[r]]
  /\ kind' = [r \in Reqs |-> "none"] /\ task' = [r \in Reqs |-> None]
  /\ want' = [r \in Reqs |-> FALSE] /\ todo' = [r \in Reqs |-> {}]
  /\ adding' = [r \in Reqs |-> <<>>] /\ plan' = [r \in Reqs |-> "none"]
  /\ disturbed' = (disturbed \/ \E r \in Reqs : kind[r] = "sync")
  /\ UNCHANGED <<boots, up, late, dbVars, contended, lastSync, listed>>

\* delete_server deletes the rows of the tasks with that of the server.
DeleteServer ==
  /\ phase = "serving" /\ present
  /\ present' = FALSE /\ RowsDeleted(rows)
  /\ UNCHANGED <<lifeVars, procVars, schedule, made, jobs, reqVars, run, histVars>>

-----------------------------------------------------------------------------
(* Requests                                                                *)

Asked(r, k) ==
  /\ phase = "serving" /\ pc[r] = "idle" /\ k \in Kinds[r]
  /\ \A q \in 1 .. (r - 1) : pc[q] # "idle"
  /\ kind' = [kind EXCEPT ![r] = k]

\* History: r begins to work on t.
Touches(r, t) ==
  contended' = IF \E q \in Reqs \ {r} : task[q] = t THEN contended \cup {t} ELSE contended

AskCreate(r) ==
  /\ Asked(r, "create")
  /\ \E n \in Created : adding' = [adding EXCEPT ![r] = <<n>>]
  /\ Goto(r, "insert")
  /\ UNCHANGED <<lifeVars, procVars, dbVars, jobs, task, want, todo, plan, run, histVars>>

\* The row is inserted, unless its server is gone.
Insert(r) ==
  LET t == made + 1 IN
  /\ pc[r] = "insert" /\ made < MaxTasks
  /\ IF present
       THEN /\ made' = t
            /\ rows' = rows \cup {t} /\ enabled' = enabled \cup {t}
            /\ name' = [name EXCEPT ![t] = Head(adding[r])]
            /\ maker' = [maker EXCEPT ![t] = IF kind[r] = "sync" THEN r ELSE None]
            /\ task' = [task EXCEPT ![r] = t]
            /\ Goto(r, "refresh") /\ UNCHANGED <<kind, want, todo, adding, plan>>
       ELSE Ending(r) /\ UNCHANGED <<made, rows, enabled, name, maker>>
  /\ UNCHANGED <<lifeVars, procVars, schedule, present, jobs, run, histVars>>

\* The row is read again, which raises when it is gone, and registered when it is enabled.
Refresh(r) ==
  /\ pc[r] = "refresh"
  /\ jobs' = IF task[r] \in rows \cap enabled THEN jobs \cup {task[r]} ELSE jobs
  /\ IF task[r] \in rows /\ Len(adding[r]) > 1
       THEN /\ Goto(r, "insert") /\ task' = [task EXCEPT ![r] = None]
            /\ adding' = [adding EXCEPT ![r] = Tail(@)]
            /\ UNCHANGED <<kind, want, todo, plan>>
       ELSE Ending(r)
  /\ UNCHANGED <<lifeVars, procVars, dbVars, run, histVars>>

AskToggle(r) ==
  /\ Asked(r, "toggle")
  /\ \E t \in rows :
       /\ task' = [task EXCEPT ![r] = t]
       /\ want' = [want EXCEPT ![r] = t \notin enabled]
       /\ Touches(r, t)
  /\ Goto(r, "flip")
  /\ UNCHANGED <<lifeVars, procVars, dbVars, jobs, todo, adding, plan, run, disturbed, lastSync, listed>>

\* The UPDATE is committed; it raises when the row is gone.
Flip(r) ==
  /\ pc[r] = "flip"
  /\ IF task[r] \in rows
       THEN /\ enabled' = IF want[r] THEN enabled \cup {task[r]} ELSE enabled \ {task[r]}
            /\ Goto(r, "apply") /\ UNCHANGED <<kind, task, want, todo, adding, plan>>
       ELSE Ending(r) /\ UNCHANGED enabled
  /\ UNCHANGED <<lifeVars, procVars, schedule, rows, name, maker, made, present, jobs, run, histVars>>

\* Mutant: a disabled task keeps its job.
ApplyOn(r) ==
  /\ pc[r] = "apply"
  /\ jobs' = IF want[r] THEN jobs \cup {task[r]} ELSE jobs
  /\ Ending(r)
  /\ UNCHANGED <<lifeVars, procVars, dbVars, run, histVars>>

Apply(r) ==
  /\ pc[r] = "apply"
  /\ jobs' = IF want[r] THEN jobs \cup {task[r]} ELSE jobs \ {task[r]}
  /\ Ending(r)
  /\ UNCHANGED <<lifeVars, procVars, dbVars, run, histVars>>

\* remove_task: the job goes at once, the row later.
Doom(r, t) ==
  /\ jobs' = jobs \ {t}
  /\ task' = [task EXCEPT ![r] = t]
  /\ Touches(r, t)
  /\ Goto(r, "delete")

AskRemove(r) ==
  /\ Asked(r, "remove")
  /\ \E t \in 1 .. made : Doom(r, t) /\ todo' = [todo EXCEPT ![r] = {t}]
  /\ UNCHANGED <<lifeVars, procVars, dbVars, want, adding, plan, run, disturbed, lastSync, listed>>

Delete(r) ==
  /\ pc[r] = "delete"
  /\ RowsDeleted({task[r]})
  /\ todo' = [todo EXCEPT ![r] = @ \ {task[r]}]
  /\ task' = [task EXCEPT ![r] = None]
  /\ Goto(r, "next")
  /\ UNCHANGED <<lifeVars, procVars, schedule, made, present, jobs, kind, want, adding, plan, run, histVars>>

\* The loop over the old uptime tasks, and what follows it.
DeleteNext(r) ==
  /\ pc[r] = "next"
  /\ \/ /\ todo[r] # {}
        /\ Doom(r, CHOOSE t \in todo[r] : \A u \in todo[r] : t <= u)
        /\ UNCHANGED <<kind, want, todo, adding, plan>>
     \/ /\ todo[r] = {} /\ adding[r] # <<>>
        /\ Goto(r, "insert") /\ UNCHANGED <<jobs, kind, task, want, todo, adding, plan, contended>>
     \/ /\ todo[r] = {} /\ adding[r] = <<>>
        /\ Ending(r) /\ UNCHANGED <<jobs, contended>>
  /\ UNCHANGED <<lifeVars, procVars, dbVars, run, disturbed, lastSync, listed>>

Syncing(r) == kind[r] = "sync" /\ InFlight(r)

\* save_uptime_schedule
AskSync(r) ==
  /\ Asked(r, "sync") /\ present
  /\ \E s \in Chosen : plan' = [plan EXCEPT ![r] = s]
  /\ disturbed' = \E q \in Reqs : Syncing(q)
  /\ Goto(r, "save")
  /\ UNCHANGED <<lifeVars, procVars, dbVars, jobs, task, want, todo, adding, run, contended, lastSync, listed>>

SaveSchedule(r) ==
  /\ pc[r] = "save"
  /\ IF present
       THEN /\ schedule' = plan[r] /\ plan' = [plan EXCEPT ![r] = "none"] /\ Goto(r, "sync")
            /\ UNCHANGED <<kind, task, want, todo, adding>>
       ELSE Ending(r) /\ UNCHANGED schedule
  /\ UNCHANGED <<lifeVars, procVars, rows, enabled, name, maker, made, present, jobs, run, histVars>>

\* sync_uptime_schedule reads the server, ...
SyncRead(r) ==
  /\ pc[r] = "sync"
  /\ IF present
       THEN /\ adding' = [adding EXCEPT ![r] = PlanOf[schedule]]
            /\ Goto(r, "list") /\ UNCHANGED <<kind, task, want, todo, plan>>
       ELSE Ending(r)
  /\ UNCHANGED <<lifeVars, procVars, dbVars, jobs, run, histVars>>

\* Mutant: only the enabled ones are removed.
SyncListEnabled(r) ==
  /\ pc[r] = "list"
  /\ todo' = [todo EXCEPT ![r] = {t \in rows \cap enabled : name[t] \in UptimeNames}]
  /\ lastSync' = r /\ listed' = {t \in rows : name[t] \in UptimeNames}
  /\ Goto(r, "next")
  /\ UNCHANGED <<lifeVars, procVars, dbVars, jobs, kind, task, want, adding, plan, run, contended, disturbed>>

\* ... then the tasks whose name begins with "Uptime:", as those of earlier syncs do.
SyncList(r) ==
  /\ pc[r] = "list"
  /\ todo' = [todo EXCEPT ![r] = {t \in rows : name[t] \in UptimeNames}]
  /\ lastSync' = r /\ listed' = todo'[r]
  /\ Goto(r, "next")
  /\ UNCHANGED <<lifeVars, procVars, dbVars, jobs, kind, task, want, adding, plan, run, contended, disturbed>>

-----------------------------------------------------------------------------
(* Executions                                                              *)

Fresh(x) == run[x].at = "idle" /\ \A y \in 1 .. (x - 1) : run[y].at # "idle"

\* A job runs as one instance at a time.
Fire(x) ==
  /\ SchedulerAlive /\ Fresh(x)
  /\ \E t \in jobs :
       /\ \A y \in Runs : run[y].task = t /\ run[y].by = "job" => run[y].at = "ended"
       /\ run' = [run EXCEPT ![x] = [NoRun EXCEPT !.task = t, !.by = "job", !.at = "read"]]
  /\ UNCHANGED <<lifeVars, procVars, dbVars, jobs, reqVars, histVars>>

\* The route spawns the execution in the task registry.
RunNow(x) ==
  /\ phase = "serving" /\ Fresh(x)
  /\ \E t \in rows :
       run' = [run EXCEPT ![x] = [NoRun EXCEPT !.task = t, !.by = "user", !.at = "read"]]
  /\ UNCHANGED <<lifeVars, procVars, dbVars, jobs, reqVars, histVars>>

\* _execute_task reads the row, checks its condition and calls the service.
Begin(x) ==
  LET t == run[x].task IN
  /\ run[x].at = "read"
  /\ run' = [run EXCEPT ![x] =
       IF t \in rows \cap enabled /\ MayRun(name[t], up)
         THEN [run[x] EXCEPT !.at = "acting", !.does = ActionOf(name[t])] ELSE Over(run[x])]
  /\ UNCHANGED <<lifeVars, procVars, dbVars, jobs, reqVars, histVars>>

\* A start may be refused or fail; a stop and start becomes a start once the
\* stop is made, or ends there.  The result is recorded.
Act(x) ==
  /\ run[x].at = "acting"
  /\ \/ /\ run[x].does = "start" /\ run' = [run EXCEPT ![x] = Over(run[x])]
        /\ \/ Launch(run[x].by = "user") /\ UNCHANGED stray
           \/ UNCHANGED <<targets, procVars>>
     \/ /\ run[x].does \in {"stop", "restart"} /\ StopServer
        /\ \/ run' = [run EXCEPT ![x] = Over(run[x])]
           \/ run[x].does = "restart" /\ run' = [run EXCEPT ![x].does = "start"]
     \/ /\ run[x].does = "other" /\ run' = [run EXCEPT ![x] = Over(run[x])]
        /\ UNCHANGED <<targets, procVars>>
  /\ UNCHANGED <<phase, boots, orderly, dbVars, jobs, reqVars, histVars>>

-----------------------------------------------------------------------------
Server   == UserStarts \/ ServerExits \/ StrayStarts \/ WatcherSpawned
Lifespan == Boot \/ LoadTasks \/ Shutdown \/ StopAll \/ Stopped \/ SchedulerDown

Request(r) ==
  \/ AskCreate(r) \/ Insert(r) \/ Refresh(r)
  \/ AskToggle(r) \/ Flip(r) \/ Apply(r)
  \/ AskRemove(r) \/ Delete(r) \/ DeleteNext(r)
  \/ AskSync(r) \/ SaveSchedule(r) \/ SyncRead(r) \/ SyncList(r)

Execution(x) == Fire(x) \/ RunNow(x) \/ Begin(x) \/ Act(x)

Next ==
  \/ Lifespan \/ Crash \/ Server \/ DeleteServer
  \/ \E r \in Reqs : Request(r)
  \/ \E x \in Runs : Execution(x)

Spec == Init /\ [][Next]_vars

-----------------------------------------------------------------------------
(* Properties                                                              *)

AtRest(t) == t \notin contended /\ \A r \in Reqs : task[r] # t

\* While the scheduler runs, a task at rest has a job if and only if it has an
\* enabled row: after toggles, removals, syncs, crashes and restarts in any
\* order.  Only a task that two requests changed at once may differ, until the
\* next restart, and the tasks of a deleted server, whose jobs do nothing.
JobsMatchRows ==
  SchedulerAlive /\ present =>
    \A t \in 1 .. made : AtRest(t) => (t \in jobs <=> t \in rows \cap enabled)

\* When no sync is in progress, no task named "Uptime:..." is left of those that
\* stood when the last sync read them: neither an earlier sync's nor a user's.
\* Those that syncs have made are the last one's, and ones that the saved schedule
\* asks for.  This holds also after users have toggled and removed such tasks or
\* added some, and whatever overlapping or lost syncs had left behind before the
\* last one began alone.
UptimeFromLatestSync ==
  ~disturbed /\ (\A r \in Reqs : ~Syncing(r)) =>
    \A t \in rows : name[t] \in UptimeNames =>
      /\ t \notin listed
      /\ maker[t] # None =>
           maker[t] = lastSync /\ \E i \in DOMAIN PlanOf[schedule] : PlanOf[schedule][i] = name[t]

\* After an orderly shutdown the server runs only if a start that nobody awaited,
\* of a job, a crash restart or the updater, was under way when stop_all_servers
\* looked at the process table, or began after that.  What a user started before
\* is stopped, and a process whose stop failed is waited for.
OnlyLateStartsOutliveShutdown == orderly /\ up => late

=============================================================================
