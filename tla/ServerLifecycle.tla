--------------------------- MODULE ServerLifecycle ---------------------------
(***************************************************************************)
(* The life of ONE game server under ServerManager                         *)
(* (src/gsm/app/services/server_manager.py), in native (non-Docker) mode:  *)
(* start, stop and restart requests, the process table _processes, the     *)
(* start lock, the gsm.pid file, the per-process watcher, the readiness    *)
(* watcher, the crash-restart task, the stability timer, and a crash of    *)
(* the manager itself followed by recover_on_startup.                      *)
(*                                                                         *)
(* The manager is an asyncio program: code runs atomically between two     *)
(* awaits.  A step here is one such stretch.  A database read and the code *)
(* that runs on its result are one step; a commit takes effect in the step *)
(* that resumes its caller.  Launched processes are numbered 1, 2, ... in  *)
(* the order they are spawned; the watcher, the readiness watcher and the  *)
(* crash-restart task of a launch carry its number.                        *)
(***************************************************************************)
EXTENDS Integers

CONSTANTS
  Callers,      \* requests: HTTP routes, scheduled tasks, the updater
  Ops,          \* what each caller does: a subset of AllOps
  MaxLaunch,    \* bound: processes spawned in a behaviour
  MaxReboots,   \* bound: crashes of the manager itself
  MaxRestarts,  \* Server.max_crash_restarts
  AutoRestart,  \* Server.auto_restart_on_crash
  Readiness,    \* how a launch gets ready: a subset of ReadyModes
  ConsoleStop   \* TRUE: stopped by the console command "stop"; FALSE: by SIGTERM

ASSUME LaunchAssumption  == MaxLaunch \in Nat /\ MaxReboots \in Nat
ASSUME RestartAssumption == MaxRestarts \in Nat \ {0}
ASSUME FlagAssumption    == {AutoRestart, ConsoleStop} \subseteq BOOLEAN
ASSUME CallerAssumption  == Callers \cap (0 .. MaxLaunch) = {}
AllOps == {"webStart", "start", "stop", "restart", "view"}
ASSUME OpsAssumption     == Ops \in [Callers -> SUBSET AllOps]
ReadyModes == {"pattern", "immediate"}
ASSUME ReadyAssumption   == Readiness \subseteq ReadyModes

None   == 0                    \* no process, no task
Launch == 1 .. MaxLaunch
Tasks  == Callers \cup Launch  \* a launch stands here for its crash-restart task

Status == {"stopped", "starting", "running", "stopping", "crashed"}

\* What a task awaits, and in particular where it holds the start lock.
Launching   == {"load", "mark", "spawn", "failmark"}  \* before a process is registered
InStart     == Launching \cup {"started"}
TaskState   == InStart \cup {"idle", "sleep", "acquire", "viewRead", "viewRunning", "viewStopped",
                             "stopRead", "stopMark", "stopWait", "stopDone", "pause"}
SessionView == {"unloaded", "same", "differs"}
WatchState  == {"idle", "wait", "read", "same", "differs"}
ReadyState  == {"idle", "init", "poll", "match", "late", "same", "differs"}
ProcState   == {"new", "up", "command", "term", "kill", "dead"}

VARIABLES
  status,     \* the column Server.status
  procs,      \* _processes[server_id]: the tracked launch, or None
  pidFile,    \* gsm.pid: the launch it names, or None
  launched,   \* number of processes spawned so far
  proc,       \* proc[p]: "new", "up", "dead", or up with the strongest stop signal sent
  gen,        \* _readiness_generations: the launch that bumped it last
  holder,     \* the task that holds _start_locks[server_id]
  pc,         \* pc[t]: what task t awaits
  seen,       \* seen[t]: how t's session sees the row, see SessionView
  handle,     \* handle[t]: the process t works on
  again,      \* again[c]: the stop of c is followed by a start (a restart)
  watch,      \* watch[p]: what _watch_process(p) awaits
  ready,      \* ready[p]: what _watch_readiness of p awaits
  count,      \* _CrashState.count
  current,    \* _CrashState.restart_task: the launch whose crash created it
  stability,  \* _CrashState.stability_task: the launch that armed it
  reboots     \* crashes of the manager so far

rowVars   == <<status, pidFile>>
procVars  == <<procs, launched, proc, gen>>
taskVars  == <<holder, pc, seen, handle, again>>
watchVars == <<watch, ready>>
crashVars == <<count, current, stability>>
vars == <<rowVars, procVars, taskVars, watchVars, crashVars, reboots>>

Init ==
  /\ status = "stopped" /\ pidFile = None
  /\ procs = None /\ launched = 0 /\ gen = None
  /\ proc = [p \in Launch |-> "new"]
  /\ holder = None
  /\ pc = [t \in Tasks |-> "idle"]
  /\ seen = [t \in Tasks |-> "unloaded"] /\ handle = [t \in Tasks |-> None]
  /\ again = [c \in Callers |-> FALSE]
  /\ watch = [p \in Launch |-> "idle"] /\ ready = [p \in Launch |-> "idle"]
  /\ count = 0 /\ current = None /\ stability = None /\ reboots = 0

Alive(p) == proc[p] \in {"up", "command", "term", "kill"}

\* Of the row that a session has loaded, only one thing matters later: does it
\* hold the status the session is about to write?  SQLAlchemy emits no UPDATE
\* for a value that did not change, whatever the row holds by then.
View(s)        == IF status = s THEN "same" ELSE "differs"
Flush(view, s) == IF view = "same" THEN status ELSE s

\* Tasks that the event loop resumes before any later I/O completion: those
\* awaiting the exit of a process that has exited, and those awaiting a free lock.
\* Every other step waits until there are none (Quiet).
WatchWoken(p) == watch[p] = "wait" /\ ~Alive(p)
StopWoken(c)  == pc[c] = "stopWait" /\ ~Alive(handle[c])
LockWoken(t)  == pc[t] = "acquire" /\ holder = None
Woken == \/ \E p \in Launch : WatchWoken(p)
         \/ \E c \in Callers : StopWoken(c)
         \/ \E t \in Tasks : LockWoken(t)
Quiet == ~Woken

-----------------------------------------------------------------------------
(* _reset_crash_state.  The pending restart task is cancelled at the await *)
(* it is in: it frees the lock, and a commit in flight takes effect or not.*)

Cancelled == IF current # None /\ pc[current] # "idle" THEN {current} ELSE {}

CancelledCommit(r) ==
  CASE pc[r] = "mark"     -> {status, Flush(seen[r], "starting")}
    [] pc[r] = "failmark" -> {status, "crashed"}
    [] OTHER              -> {status}

\* Mutant: a cancelled restart task keeps the start lock.
ResetCrashStateKeepsLock ==
  /\ count' = 0 /\ current' = None /\ stability' = None
  /\ UNCHANGED holder
  /\ status' \in (IF Cancelled = {} THEN {status} ELSE CancelledCommit(current))

ResetCrashState ==
  /\ count' = 0 /\ current' = None /\ stability' = None
  /\ holder' = IF holder \in Cancelled THEN None ELSE holder
  /\ status' \in (IF Cancelled = {} THEN {status} ELSE CancelledCommit(current))

\* Task t goes on to the await next, with its session's view v and process h;
\* the tasks of gone end.
Update(f, t, x, gone, x0) == [u \in Tasks |-> IF u = t THEN x ELSE IF u \in gone THEN x0 ELSE f[u]]
Move(t, next, v, h, gone) ==
  /\ pc' = Update(pc, t, next, gone, "idle")
  /\ seen' = Update(seen, t, v, gone, "unloaded")
  /\ handle' = Update(handle, t, h, gone, None)

Goto(t, next) == pc' = [pc EXCEPT ![t] = next] /\ UNCHANGED <<seen, handle>>
Finish(t)     == Move(t, "idle", "unloaded", None, {})
Release(t)    == holder' = None /\ Finish(t)

-----------------------------------------------------------------------------
(* Requests                                                                *)

\* The web route loads the row, resets the crash state and then starts
\* the server with the session that holds the loaded row.
CallWebStart(c) ==
  /\ Quiet /\ pc[c] = "idle" /\ "webStart" \in Ops[c]
  /\ ResetCrashState
  /\ Move(c, "acquire", View("starting"), None, Cancelled)
  /\ UNCHANGED <<pidFile, procVars, again, watchVars, reboots>>

\* The API, the scheduler, the updater and the bulk action do not reset it.
CallStart(c) ==
  /\ Quiet /\ pc[c] = "idle" /\ "start" \in Ops[c]
  /\ Goto(c, "acquire")
  /\ UNCHANGED <<rowVars, procVars, holder, again, watchVars, crashVars, reboots>>

CallStop(c) ==
  /\ Quiet /\ pc[c] = "idle"
  /\ \/ "stop" \in Ops[c] /\ UNCHANGED again
     \/ "restart" \in Ops[c] /\ again' = [again EXCEPT ![c] = TRUE]
  /\ Goto(c, "stopRead")
  /\ UNCHANGED <<rowVars, procVars, holder, watchVars, crashVars, reboots>>

\* The dashboard and the server list read the rows of all servers and then
\* correct those that disagree with the process table.
CallView(c) ==
  /\ Quiet /\ pc[c] = "idle" /\ "view" \in Ops[c]
  /\ Goto(c, "viewRead")
  /\ UNCHANGED <<rowVars, procVars, holder, again, watchVars, crashVars, reboots>>

Correction ==
  CASE procs # None /\ status \notin {"running", "starting"} -> "viewRunning"
    [] procs = None /\ status \in {"running", "starting"}    -> "viewStopped"
    [] OTHER                                                 -> "idle"

ViewRead(c) ==
  /\ Quiet /\ pc[c] = "viewRead"
  /\ Goto(c, Correction)
  /\ UNCHANGED <<rowVars, procVars, holder, again, watchVars, crashVars, reboots>>

ViewCommit(c) ==
  /\ Quiet /\ pc[c] \in {"viewRunning", "viewStopped"}
  /\ status' = IF pc[c] = "viewRunning" THEN "running" ELSE "stopped"
  /\ Goto(c, "idle")
  /\ UNCHANGED <<pidFile, procVars, holder, again, watchVars, crashVars, reboots>>

-----------------------------------------------------------------------------
(* _start_server_impl, by a caller or by a crash-restart task              *)

\* Mutant: the start does not look at the process table.
AcquireNoCheck(t) ==
  /\ LockWoken(t)
  /\ holder' = t
  /\ Goto(t, IF seen[t] = "unloaded" THEN "load" ELSE "mark")
  /\ UNCHANGED <<rowVars, procVars, again, watchVars, crashVars, reboots>>

\* The lock is taken; an already tracked process ends the start.
Acquire(t) ==
  /\ LockWoken(t)
  /\ \/ procs # None /\ Finish(t) /\ UNCHANGED holder
     \/ /\ procs = None
        /\ holder' = t
        /\ Goto(t, IF seen[t] = "unloaded" THEN "load" ELSE "mark")
  /\ UNCHANGED <<rowVars, procVars, again, watchVars, crashVars, reboots>>

Load(t) ==
  /\ Quiet /\ pc[t] = "load"
  /\ Move(t, "mark", View("starting"), None, {})
  /\ UNCHANGED <<rowVars, procVars, holder, again, watchVars, crashVars, reboots>>

\* A pre-flight check (Java version, SteamCMD update) refuses the start.
Preflight(t) ==
  /\ Quiet /\ pc[t] = "mark"
  /\ Release(t)
  /\ UNCHANGED <<rowVars, procVars, again, watchVars, crashVars, reboots>>

\* Mutant: the lock covers the check but not the launch.
MarkStartingUnlocks(t) ==
  /\ Quiet /\ pc[t] = "mark"
  /\ status' = Flush(seen[t], "starting")
  /\ \/ Move(t, "spawn", "unloaded", None, {}) /\ holder' = None
     \/ Move(t, "failmark", "unloaded", None, {}) /\ UNCHANGED holder
     \/ Release(t)
  /\ UNCHANGED <<pidFile, procVars, again, watchVars, crashVars, reboots>>

\* STARTING is committed; then the command is built and the executable
\* looked up: the start goes on, fails, or returns early when the
\* executable is missing.
MarkStarting(t) ==
  /\ Quiet /\ pc[t] = "mark"
  /\ status' = Flush(seen[t], "starting")
  /\ \/ Move(t, "spawn", "unloaded", None, {}) /\ UNCHANGED holder
     \/ Move(t, "failmark", "unloaded", None, {}) /\ UNCHANGED holder
     \/ Release(t)
  /\ UNCHANGED <<pidFile, procVars, again, watchVars, crashVars, reboots>>

\* create_subprocess_exec returns: the process is registered and gsm.pid written.
Spawn(t) ==
  /\ Quiet /\ pc[t] = "spawn"
  /\ launched < MaxLaunch
  /\ LET p == launched + 1 IN
       /\ launched' = p /\ procs' = p /\ pidFile' = p
       /\ proc' = [proc EXCEPT ![p] = "up"]
       /\ Move(t, "started", "unloaded", p, {})
  /\ UNCHANGED <<status, gen, holder, again, watchVars, crashVars, reboots>>

SpawnFails(t) ==
  /\ Quiet /\ pc[t] = "spawn"
  /\ Goto(t, "failmark")
  /\ UNCHANGED <<rowVars, procVars, holder, again, watchVars, crashVars, reboots>>

FailMark(t) ==
  /\ Quiet /\ pc[t] = "failmark"
  /\ status' = "crashed"
  /\ Release(t)
  /\ UNCHANGED <<pidFile, procVars, again, watchVars, crashVars, reboots>>

\* started_at is committed; both watchers are spawned.
Started(t) ==
  /\ Quiet /\ pc[t] = "started"
  /\ gen' = handle[t]
  /\ watch' = [watch EXCEPT ![handle[t]] = "wait"]
  /\ ready' = [ready EXCEPT ![handle[t]] = "init"]
  /\ Release(t)
  /\ UNCHANGED <<rowVars, procs, launched, proc, again, crashVars, reboots>>

-----------------------------------------------------------------------------
(* _stop_server_impl and the restart that follows it                       *)

AfterStop(c) == IF again[c] THEN "pause" ELSE "idle"

\* The row is read, the crash state reset and the tracked process captured.
StopRead(c) ==
  /\ Quiet /\ pc[c] = "stopRead"
  /\ ResetCrashState
  /\ IF procs = None
     THEN /\ Move(c, AfterStop(c), "unloaded", None, Cancelled)
          /\ again' = [again EXCEPT ![c] = FALSE]
     ELSE Move(c, "stopMark", View("stopping"), procs, Cancelled) /\ UNCHANGED again
  /\ UNCHANGED <<pidFile, procVars, watchVars, reboots>>

\* STOPPING is committed; then the process is asked to stop: by SIGTERM, or by
\* the console command, and by SIGKILL when the console cannot be written.
StopSignal == IF ConsoleStop THEN {"command", "kill"} ELSE {"term"}
Stronger(s) == CASE s = "command" -> {"up"}
                 [] s = "term"    -> {"up", "command"}
                 [] s = "kill"    -> {"up", "command", "term"}
Signal(p, s) == proc' = IF proc[p] \in Stronger(s) THEN [proc EXCEPT ![p] = s] ELSE proc

\* Mutant: gsm.pid goes when the stop is asked for, not when the process is dead.
StopMarkUnlinks(c) ==
  /\ Quiet /\ pc[c] = "stopMark"
  /\ status' = Flush(seen[c], "stopping") /\ pidFile' = None
  /\ \E s \in StopSignal : Signal(handle[c], s)
  /\ Move(c, "stopWait", "unloaded", handle[c], {})
  /\ UNCHANGED <<procs, launched, gen, holder, again, watchVars, crashVars, reboots>>

StopMark(c) ==
  /\ Quiet /\ pc[c] = "stopMark"
  /\ status' = Flush(seen[c], "stopping")
  /\ \E s \in StopSignal : Signal(handle[c], s)
  /\ Move(c, "stopWait", "unloaded", handle[c], {})
  /\ UNCHANGED <<pidFile, procs, launched, gen, holder, again, watchVars, crashVars, reboots>>

\* Mutant: SIGTERM is repeated, SIGKILL never sent.
StopEscalateTermOnly(c) ==
  /\ Quiet /\ pc[c] = "stopWait" /\ proc[handle[c]] \in {"command", "term"}
  /\ Signal(handle[c], "term")
  /\ UNCHANGED <<rowVars, procs, launched, gen, taskVars, watchVars, crashVars, reboots>>

\* wait_for times out: SIGTERM after the command, SIGKILL after SIGTERM.  Of two
\* stops of one process either may be the one that escalates.
StopEscalate(c) ==
  /\ Quiet /\ pc[c] = "stopWait" /\ proc[handle[c]] \in {"command", "term"}
  /\ Signal(handle[c], IF proc[handle[c]] = "command" THEN "term" ELSE "kill")
  /\ UNCHANGED <<rowVars, procs, launched, gen, taskVars, watchVars, crashVars, reboots>>

\* The captured process is dead.  The table entry and gsm.pid go, whichever
\* process they name.
StopFinish(c) ==
  /\ StopWoken(c)
  /\ procs' = None /\ pidFile' = None
  /\ Goto(c, "stopDone")
  /\ UNCHANGED <<status, launched, proc, gen, holder, again, watchVars, crashVars, reboots>>

StopDone(c) ==
  /\ Quiet /\ pc[c] = "stopDone"
  /\ status' = "stopped"
  /\ Move(c, AfterStop(c), "unloaded", None, {})
  /\ again' = [again EXCEPT ![c] = FALSE]
  /\ UNCHANGED <<pidFile, procVars, holder, watchVars, crashVars, reboots>>

\* The two seconds between the stop and the start of a restart.
RestartPause(c) ==
  /\ Quiet /\ pc[c] = "pause"
  /\ Goto(c, "acquire")
  /\ UNCHANGED <<rowVars, procVars, holder, again, watchVars, crashVars, reboots>>

-----------------------------------------------------------------------------
(* The game server process, and _watch_process                             *)

Exit(p) ==
  /\ Quiet /\ Alive(p)
  /\ proc' = [proc EXCEPT ![p] = "dead"]
  /\ UNCHANGED <<rowVars, procs, launched, gen, taskVars, watchVars, crashVars, reboots>>

\* The watcher drops the table entry only if it is its own process.
WatchWake(p) ==
  /\ WatchWoken(p)
  /\ procs' = IF procs = p THEN None ELSE procs
  /\ watch' = [watch EXCEPT ![p] = "read"]
  /\ UNCHANGED <<rowVars, launched, proc, gen, taskVars, ready, crashVars, reboots>>

\* gsm.pid goes; unless the server is STOPPED, CRASHED is committed.
WatchRead(p) ==
  /\ Quiet /\ watch[p] = "read"
  /\ pidFile' = None
  /\ watch' = [watch EXCEPT ![p] = IF status = "stopped" THEN "idle" ELSE View("crashed")]
  /\ UNCHANGED <<status, procVars, taskVars, ready, crashVars, reboots>>

\* Mutant: one restart too many.
HandleCrashOffByOne(p) ==
  /\ count' = count + 1
  /\ stability' = None
  /\ IF count > MaxRestarts
     THEN UNCHANGED <<current, pc>>
     ELSE current' = p /\ pc' = [pc EXCEPT ![p] = "sleep"]

\* _handle_crash_restart: count the crash, disarm the stability timer, and
\* create a restart task unless the budget is spent.  A pending restart task
\* of an earlier crash is forgotten, not cancelled.
HandleCrash(p) ==
  /\ count' = count + 1
  /\ stability' = None
  /\ IF count + 1 > MaxRestarts
     THEN UNCHANGED <<current, pc>>
     ELSE current' = p /\ pc' = [pc EXCEPT ![p] = "sleep"]

WatchCommit(p) ==
  /\ Quiet /\ watch[p] \in {"same", "differs"}
  /\ status' = Flush(watch[p], "crashed")
  /\ watch' = [watch EXCEPT ![p] = "idle"]
  /\ IF AutoRestart THEN HandleCrash(p) ELSE UNCHANGED <<crashVars, pc>>
  /\ UNCHANGED <<pidFile, procVars, holder, seen, handle, again, ready, reboots>>

\* _delayed_crash_restart: after the delay the row is read once.
RestartCheck(r) ==
  /\ Quiet /\ pc[r] = "sleep"
  /\ Goto(r, IF status \in {"stopped", "running"} THEN "idle" ELSE "acquire")
  /\ UNCHANGED <<rowVars, procVars, holder, again, watchVars, crashVars, reboots>>

\* Mutant: the counter is decremented, not reset.
StabilityDecrements ==
  /\ Quiet /\ stability # None
  /\ stability' = None /\ count' = count - 1
  /\ UNCHANGED <<rowVars, procVars, taskVars, watchVars, current, reboots>>

StabilityFires ==
  /\ Quiet /\ stability # None
  /\ stability' = None /\ count' = 0
  /\ UNCHANGED <<rowVars, procVars, taskVars, watchVars, current, reboots>>

-----------------------------------------------------------------------------
(* _watch_readiness of launch p                                            *)

Stale(p) == gen # p

ReadyGoto(p, next) ==
  /\ ready' = [ready EXCEPT ![p] = next]
  /\ UNCHANGED <<rowVars, procVars, taskVars, watch, count, current, reboots>>

\* Without a pattern, RUNNING is committed whatever the status is.
ReadyImmediate(p) ==
  /\ Quiet /\ ready[p] = "init" /\ "immediate" \in Readiness
  /\ ReadyGoto(p, IF Stale(p) THEN "idle" ELSE View("running"))
  /\ UNCHANGED stability

\* With one, the tracked process is captured; without a process the code
\* takes its Docker path.
ReadyBegin(p) ==
  /\ Quiet /\ ready[p] = "init" /\ "pattern" \in Readiness
  /\ ReadyGoto(p, IF procs # None THEN "poll" ELSE IF Stale(p) THEN "idle" ELSE "late")
  /\ UNCHANGED stability

\* One turn of the polling loop: stale, or the line is there, or 300s are over.
ReadyPoll(p) ==
  /\ Quiet /\ ready[p] = "poll"
  /\ \/ Stale(p) /\ ReadyGoto(p, "idle")
     \/ ~Stale(p) /\ \E next \in {"match", "late"} : ReadyGoto(p, next)
  /\ UNCHANGED stability

\* The row is read: a STARTING server is to be marked, but after a match
\* staleness is checked again.  Otherwise only the stability window opens.
ReadyRead(p) ==
  /\ Quiet /\ ready[p] \in {"match", "late"}
  /\ IF status = "starting"
     THEN /\ ReadyGoto(p, IF ready[p] = "match" /\ Stale(p) THEN "idle" ELSE "differs")
          /\ UNCHANGED stability
     ELSE ReadyGoto(p, "idle") /\ stability' = p

ReadyCommit(p) ==
  /\ Quiet /\ ready[p] \in {"same", "differs"}
  /\ status' = Flush(ready[p], "running")
  /\ ready' = [ready EXCEPT ![p] = "idle"]
  /\ stability' = p
  /\ UNCHANGED <<pidFile, procVars, taskVars, watch, count, current, reboots>>

-----------------------------------------------------------------------------
(* The manager dies and comes back: every task and table of it is gone, the *)
(* game servers (in sessions of their own) live on, and recover_on_startup  *)
(* resets an unfinished row and terminates the process gsm.pid names.       *)

Reboot ==
  /\ reboots < MaxReboots
  /\ reboots' = reboots + 1
  /\ procs' = None /\ gen' = None /\ holder' = None
  /\ pc' = [t \in Tasks |-> "idle"]
  /\ seen' = [t \in Tasks |-> "unloaded"] /\ handle' = [t \in Tasks |-> None]
  /\ again' = [c \in Callers |-> FALSE]
  /\ watch' = [p \in Launch |-> "idle"] /\ ready' = [p \in Launch |-> "idle"]
  /\ count' = 0 /\ current' = None /\ stability' = None
  /\ IF status \in {"running", "starting", "stopping"}
     THEN /\ status' = "stopped" /\ pidFile' = None
          /\ IF pidFile # None THEN Signal(pidFile, "term") ELSE UNCHANGED proc
     ELSE UNCHANGED <<rowVars, proc>>
  /\ UNCHANGED launched

-----------------------------------------------------------------------------
Call(c) == CallWebStart(c) \/ CallStart(c) \/ CallStop(c) \/ CallView(c)
ViewStep(c) == ViewRead(c) \/ ViewCommit(c)

StartStep(t) == \/ Load(t) \/ Preflight(t) \/ MarkStarting(t)
                \/ Spawn(t) \/ SpawnFails(t) \/ FailMark(t) \/ Started(t)
StopStep(c)  == StopRead(c) \/ StopMark(c) \/ StopEscalate(c) \/ StopDone(c) \/ RestartPause(c)
WatchStep(p) == WatchRead(p) \/ WatchCommit(p)
ReadyStep(p) == \/ ReadyImmediate(p) \/ ReadyBegin(p) \/ ReadyPoll(p)
                \/ ReadyRead(p) \/ ReadyCommit(p)

Next ==
  \/ \E t \in Tasks : Acquire(t) \/ StartStep(t)
  \/ \E c \in Callers : Call(c) \/ ViewStep(c) \/ StopStep(c) \/ StopFinish(c)
  \/ \E p \in Launch : WatchWake(p) \/ Exit(p) \/ WatchStep(p) \/ ReadyStep(p) \/ RestartCheck(p)
  \/ StabilityFires
  \/ Reboot

Spec == Init /\ [][Next]_vars

-----------------------------------------------------------------------------
(* Properties                                                              *)

\* Every variable has its type; the table, gsm.pid, the timer and every task
\* name processes that were really launched.
TypeOK ==
  /\ status \in Status
  /\ launched \in 0 .. MaxLaunch
  /\ procs \in 0 .. launched /\ pidFile \in 0 .. launched /\ gen \in 0 .. launched
  /\ current \in 0 .. launched /\ stability \in 0 .. launched
  /\ proc \in [Launch -> ProcState]
  /\ holder \in Tasks \cup {None}
  /\ pc \in [Tasks -> TaskState]
  /\ seen \in [Tasks -> SessionView]
  /\ handle \in [Tasks -> 0 .. launched]
  /\ again \in [Callers -> BOOLEAN]
  /\ watch \in [Launch -> WatchState]
  /\ ready \in [Launch -> ReadyState]
  /\ \A p \in Launch : p > launched => watch[p] = "idle" /\ ready[p] = "idle"
  /\ count \in Nat
  /\ reboots \in 0 .. MaxReboots

\* The start section of _start_server_impl, from the check of the process table
\* to the end of the launch, belongs to the one task that holds the start lock;
\* until that task has registered its process, no process is tracked.  This is
\* so although stops, watchers and cancellations never take the lock.
StartSection ==
  /\ \A t \in Tasks : pc[t] \in InStart => holder = t
  /\ \A t \in Tasks : pc[t] \in Launching => procs = None

\* _start_server_impl never registers a process over another one: the table
\* entry of a process is dropped before a new process can be registered, so no
\* two starts race, whoever issues them (a request or a crash restart).
NeverReplacesTracked == [][procs # None /\ procs' # None => procs' = procs]_vars

\* The end of a stop that was holding a launch older than p, and the watcher of one.
StaleStop(p)  == \E c \in Callers : pc[c] = "stopWait" /\ pc'[c] = "stopDone" /\ handle[c] < p
StaleWatch(p) == \E q \in Launch : q < p /\ watch[q] = "read" /\ watch'[q] # "read"

\* The manager reaches a process by the table, and after its own death by gsm.pid
\* alone.  While a tracked process runs, only the end of a stop of an older launch
\* takes it from the table, and only that or the watcher of an older launch
\* removes the gsm.pid that names it, but for the death of the manager: never its
\* own watcher or stop before it has died, nor a start that fails or is cancelled.
OnlyStaleForgetsLive ==
  [][\A p \in Launch : procs = p /\ Alive(p) =>
       /\ procs' # p => reboots' # reboots \/ StaleStop(p)
       /\ pidFile = p /\ pidFile' # p => reboots' # reboots \/ StaleStop(p) \/ StaleWatch(p)]_vars

\* The server has one process at most.
AtMostOneAlive == \A p, q \in Launch : Alive(p) /\ Alive(q) => p = q

-----------------------------------------------------------------------------
\* The start gate that ServerLifecycle implements.
Gate == INSTANCE LaunchGate
          WITH Starters <- Tasks, slot <- procs, starter <- holder, spawned <- launched
GateSpec == Gate!Spec

=============================================================================
