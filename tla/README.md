# GameServer Manager: a verification project

TLA+ models of the core of GameServer Manager (`src/gsm/app`), model-checked with TLC
on small instances, and theorems about them proved with TLAPS for every value of the
constants. Paths below are relative to `src/gsm/app/` unless they say otherwise.

GameServer Manager is one asyncio process (FastAPI, SQLAlchemy, APScheduler). Everything
it does for a server is done by tasks that interleave at `await`, by worker threads
(`asyncio.to_thread`), and by the game server processes themselves, which live in
sessions of their own and outlive the manager. Most of its state is kept twice: in memory
(process table, locks, snapshots, jobs) and in the database or on disk (rows, `gsm.pid`,
archives). What goes wrong in such a program is that the two copies disagree, that a value
is used after an `await` that made it stale, or that a step of two actors falls between
two steps of another. The models are about that.

## 1. Inventory

| Component | State | Operations | Meets | Hard because |
|---|---|---|---|---|
| **server lifecycle** (`services/server_manager.py`, `routers/servers/server_control.py`, `server_core.py`) | `Server.status`, `_processes`, `_start_locks`, `gsm.pid`, `_CrashState`, readiness generations | start, stop, restart, crash watcher, readiness watcher, crash restart, stability timer, dashboard repair, recovery at startup | everything below calls start and stop | stop never takes the start lock; watchers and stops race for one exit; tasks are cancelled in the middle; the manager dies |
| **SteamCMD operations** (`services/steamcmd.py`, `routers/servers/_shared.py`, `server_steam.py`) | one lock and one progress snapshot per server, Steam Guard waiters | queue, run, challenge, submit code, time out, record a failure | runs inside the start lock, stops and starts servers | two locks taken in different orders, one snapshot for many writers, a code against a timeout |
| **backups** (`services/backup_manager.py`, `world_manager.py`) | rows, archives, manifest, game files | create (full, config, incremental), trim, expire, restore, delete, reset a world | checks the process table; called by the updater, scheduler and routes | files and rows change one after the other; threads copy while everything goes on |
| **task scheduler** (`services/task_scheduler.py`, `routers/scheduler.py`) | rows, APScheduler jobs | load, add, remove, toggle, run, sync an uptime schedule | starts, stops, updates, backs up | a job and a row are changed at two moments |
| **server updater and downloads** (`services/server_updater.py`, `jar_downloader.py`) | executable, `.tmp` file, `latest_known_version` | check, stop-replace-start, scheduled update | lifecycle, SteamCMD, backups | fails between the stop and the start; downloads share a file |
| **mod updater** (`services/mod_updater.py`, `modpack_importer.py`) | rows, files, profile, cached conflicts, `max_compatible_version` | install with dependencies, check, update, remove, apply a profile, resolve, import | Modrinth | a file and its row change at two moments; nothing serialises operations |
| **server creation and deletion**, **ports** (`routers/servers/server_crud.py`, `_shared.py`, `services/port_manager.py`) | rows, directories, ports | create, import, upload, clone, edit, delete, suggest ports | lifecycle, downloads | check before insert, no unique column; end of the range |
| **accounts, login, invitations** (`routers/auth.py`, `users.py`, `invites.py`, `services/invite_service.py`, `auth.py`) | users, counters, grants, an invitation, sessions | set up, log in, log out, create, change and delete users, invite, redeem, revoke | audit log | read-modify-write over awaits |
| **lifespan and task registry** (`main.py`, `services/task_registry.py`) | tasks, scheduler | start up, shut down, flush | all | order of shutdown |
| **console, logs, players** (`services/log_manager.py`, `routers/ws.py`) | 500-line buffer, log files | append, rotate, read | lifecycle readers | parallel writer threads |
| **Docker isolation**, **node manager** | containers; remote nodes | the lifecycle by other means | lifecycle, HTTP | remote failures |
| settings, notifications, middleware, file editor, pages | rows, files | forms and I/O | | little shared state |

`PROJECT.json` lists every component with its files and status, and 40 hazards with the
line where each bites.

What makes the components correct:

* *Lifecycle*: one process per server; a start never replaces a tracked process; a stop is
  honoured; a crash is restarted at most so often; no task waits for ever; the table, the
  row and `gsm.pid` never name a process that was not launched.
* *SteamCMD*: one SteamCMD per server; a challenge does not outlive its operation; every
  operation ends; the snapshot tells the truth, because the start route refuses by it.
* *Backups*: a row has its archive and an archive its row; the maximum holds; an
  incremental backup skips nothing that was never archived; files are replaced only while
  the server is stopped.
* *Scheduler*: a job exists exactly for an enabled row; an uptime schedule is one set of
  tasks. *Lifespan*: a shutdown ends; what users asked for is over before the servers are stopped, and they
  stay stopped.
* *Updater*: the executable is whole or absent; what was stopped for an update is started
  again; a running server does not lose its executable; a build is installed once, and only one that is newer.
* *Mods*: a row has its file and a file its row; a mod has what it requires; what is shown of
  conflicts and versions is true of the mods that are there.
* *Registry of servers*: no two share a port, a name or a directory that was compared; a row
  has its directory, a process its row; a failed creation is visible.
* *Accounts*: redemptions are counted and limited; a manager that was set up keeps a user; a
  lockout is earned.

Hazards of this code that are on no list because no property would be true or tellable: a task
checks its condition once and acts later (`task_scheduler.py`:71); a manual run beside a job's run
of one task (:169); a warning before a stop shortly after midnight that keeps the weekdays of the
stop (:277); an incremental backup that relies on an archive trimmed since (`backup_manager.py`:267);
aware against naive times on SQLite (:431); a world that is deleted although its backup failed
(`world_manager.py`:117, intended); an update that cannot get credentials and leaves the server
stopped (`server_updater.py`:131, modelled by `CredsRefused`, but nothing promises the start); a process registered without watchers
when the commit after it is cancelled (`server_manager.py`:364); two log rotations at once
(`log_manager.py`:36).

## 2. Modules

| Module | Models | Extends |
|---|---|---|
| `ServerLifecycle` | the life of one native server: requests, start lock, watchers, crash restart, reboot of the manager | |
| `LaunchGate` | abstract: one starter at a time, registering only in an empty slot | |
| `LifecycleHistory` | history variables: what was wanted, which processes were asked to stop, automatic launches | `ServerLifecycle` |
| `LifecycleLiveness` | a bounded number of requests, and fairness | `ServerLifecycle` |
| `ServerLifecycleProofs` | types, start section, refinement of `LaunchGate`, who empties the process table and removes `gsm.pid`, unattended operation, the crash-restart budget | `LifecycleHistory`, `TLAPS` |
| `SteamOperations` | operations, locks, snapshot and challenges of one Steam server | |
| `SteamOperationsProofs` | types, the operation lock, the update inside a start, the owner of an active snapshot, who hides a running operation | `SteamOperations`, `TLAPS` |
| `Backups` | archives, rows, manifest and game files of one server | |
| `ArchiveStore` | abstract: a store that lists only what it holds, and removes what it listed before the row | |
| `BackupsProofs` | types, the number of rows, rows and archives, what incremental backups skip, refinement of `ArchiveStore` | `Backups`, `TLAPS` |
| `TaskScheduler` | the tasks of one server as rows and jobs, and the life of the manager around them | |
| `TaskSchedulerProofs` | what outlives an orderly shutdown, jobs and rows, the uptime schedule | `TaskScheduler`, `TLAPS` |
| `ServerUpdater` | checks, updates and downloads of one Minecraft server | |
| `ServerUpdaterProofs` | types, the executable, the start after an update, one update for each build | `ServerUpdater`, `TLAPS` |
| `ServerRegistry` | rows, ports and directories of all servers | |
| `ServerRegistryProofs` | types, no process without a row, ports, names and directories, failed creations | `ServerRegistry`, `TLAPS` |
| `ModUpdater` | mods, files and profile of one server | |
| `ModUpdaterProofs` | files and rows, the cached conflicts, the newest version, the order of dependencies | `ModUpdater`, `TLAPS` |
| `Accounts` | users, one invitation, logins | |
| `AccountsProofs` | types, the last user, the ledger of the invitation, lockouts | `Accounts`, `TLAPS` |
| `MC...` | values of the constants for TLC | each of the above |

A server's components share little with another server's, so each module models one server;
`ServerRegistry` is about what they do share, ports, names and directories, and `Accounts` about
what no server has.

### 2.1 ServerLifecycle

A step is the code between two awaits. A database read and the code that runs on its result
are one step; a commit takes effect in the step that resumes its caller. Tasks that the loop
resumes without any I/O (a process has died, a lock was freed) run before every I/O
completion (`Woken`, `Quiet`). No other timing is assumed: delays, the stability window and
timeouts end at any moment.

* A **launch** is a number. `proc[p]` is the process with the strongest signal it got;
  `watch[p]` and `ready[p]` are where `_watch_process` and `_watch_readiness` of it are; the
  crash-restart task of launch *p* is the task named *p*.
* A **caller** is a request: `CallWebStart` (the route, which keeps a loaded row), `CallStart`,
  `CallStop`, `CallView` (the dashboard, which repairs the status of a server without a process).
* `pc[t]` is what a task awaits. `Acquire`, `Load`, `Preflight`, `MarkStarting`, `Spawn`,
  `SpawnFails`, `FailMark`, `Started` are `_start_server_impl`, step by step; `StopRead`,
  `StopMark`, `StopEscalate`, `StopFinish`, `StopDone`, `RestartPause` are a stop or restart.
* `seen[t]` is what a SQLAlchemy session knows of the row. An UPDATE is emitted only for a
  value that changed in the session, whatever the row holds by then (`View`, `Flush`); several
  races exist only because of this.
* `_reset_crash_state` cancels the pending restart task where it is: the lock is freed, and a
  commit in flight takes effect or not (`CancelledCommit`).
* `Reboot` loses every task and table; game servers live on; `recover_on_startup` resets the
  row and signals the process that `gsm.pid` names.

Over-approximated: the order in which waiters get the lock (FIFO in the code); a launch
chooses whether it has a readiness pattern. Two stops of one process share its escalation.
Not modelled: deletion of the row, the proxy to remote nodes, the Docker path, errors of
commits, reuse of PIDs, graceful shutdown, the status written by an installation.

`LaunchGate` is the promise of `VERSION.md`:350 ("`start_server` protected by per-server async
lock to prevent duplicate-start race condition"). `GateSpec` is that specification under the
mapping slot = `procs`, starter = `holder`, spawned = `launched`.

### 2.2 SteamOperations

Operations are numbered in the order in which they are asked for, and the number is the
operation id; ids that no user ever sees are `Fresh`. The kinds are: `update_start` (the start
route of a server with update-on-start), `manual` (install, validate, workshop; interactive),
`update` and `autoUpdate` (the updater, by a user or by a job), `autoValidate` (the scheduler)
and `start` (any start that updates first, inside the start lock). An updater that stopped the
server restarts it through a nested `start`.

`Begins` takes the operation lock, `RunEnds`, `RunRaises`, `Challenged` and
`ChallengedUnattended` are the ends of a SteamCMD run, `Submit`, `Resume` and `GuardTimeout` the
challenge; `StartBegins` and `Launched` are the start lock. Whether a server has update-on-start,
and whether SteamCMD is available, is chosen at each start. Freeing the lock and publishing the
terminal event are one step (no await lies between). A code that arrives in the same turn of
the loop as the timeout is accepted and lost, as `asyncio.wait_for` loses it.

Five kinds of step end an operation without a terminal event, so that its snapshot stays as it was last:
`Gone` (the server or the workshop item is no longer there: `_shared.py`:157, :234 and the updater return),
`RaisesEarly` (the password cannot be decrypted, the directory cannot be made, the stop of an updater fails, all
before the lock), `RunRaises` (an exception of the subprocess leaves `_run_guarded_operation`), `RaisesLate` (a
launch or the commit before it raises) and `ChallengedUnattended`. Any queued kind may meet them.
`CredsRefused` returns from the updater without starting the server it has stopped.

Not modelled: the queues of the progress web sockets, the status column written by the
installation of a new server (`ServerRegistry` has it), a reboot of the manager.

### 2.3 Backups

A request is a number, and so are its row and its archive. `entry` maps file names to archives
as a directory maps names to inodes: an archive that a thread holds open outlives its name.
A name is a second and a suffix, so two backups of one type in one second share it.
`Load`, `ReadManifest`, `Hash`, `Open`, `Copy`, `Close`, `SaveManifest` are the worker thread,
one file a step; `Measure`, `Commit`, `Trim`, `Trimmed`, `Expire`, `Expired` the rest of
`_create_backup_impl`; `Finish` includes the deletion of a world, which `reset_world` does in the
turn in which its backup ends, even if it failed. `Check`, `Unzip`, `Extract`, `Extracted` are a
restore, `AskDelete` and `Deleted` a deletion. `copy[o]` is what the thread of backup *o* has put
into its archive so far; a death of the manager breaks the archive and forgets it.

`Trim` and `Expire` remove archives in the turn that read the rows, and commit the deletion of
the rows afterwards; `Reboot` may fall between. Which rows have expired is chosen freely. Any
row may have `retention_days`. The content of a file is the number of the write that made it, so
a file gets an old content back only by a restore. Times are aware, as PostgreSQL returns them.

`ArchiveStore` is what all this promises of archives and rows: a backup is listed once, after its archive is
whole; an archive that was listed is removed only because its row goes, and before it; a row that has gone
never comes back. Under the mapping of `StoreSpec` an archive is `whole` (`Whole`) when it is closed, intact
and the entry of its own name, from the end of the thread on; `listed` are the rows, `past` those ever inserted,
`removing` the rows whose archive a trim, expiry or deletion has unlinked without having committed it (`Reboot`
may leave one so for ever), and `shared` the backups that a twin of the same second keeps from any promise.

Not modelled: the copy to external storage, size estimates, exclude patterns (a file of `Files` is
not excluded), the order of files inside an archive.

### 2.4 TaskScheduler

A task is a number; `rows`, `enabled` and `jobs` are the sets of those with a row, an enabled row
and a job of APScheduler. Requests are numbered; `pc[r]` is what a request awaits. `Insert` and
`Refresh` are `add_task`, `Flip` and `Apply` `toggle_task` (the value is decided at the read, `want`),
`Doom` and `Delete` `remove_task` (the job goes first), `SaveSchedule`, `SyncRead`, `SyncList`,
`DeleteNext` and the insertions `sync_uptime_schedule`. A commit takes effect in a step of its own,
before the step that resumes its caller, so that two requests may resume in another order than they
committed. `Fire` is a job (one instance at a time), `RunNow` the route, `Begin` and `Act` are
`_execute_task`. Users name their tasks as they like, also `Uptime: ...` (`upOther` and the names that a sync gives):
a sync removes those too.

The server is a process (`up`) with a watcher. `Launch` is any start of it, `Gone` any end, which may leave a
start behind that nobody awaits (`stray`: the crash restart, a bare `asyncio.create_task`, or the start after an
update). A start that somebody awaits spawns its watcher in the same step; any other may be cut between (`nowatch`,
`WatcherSpawned`). `task_registry.flush` waits for the tasks that it finds: the executions that users asked for
(`Spawned`) and the watcher of a running process (`watched`), not for jobs and not for crash restarts. A `restart`
(RESTART, STEAM_UPDATE) stops the server, then starts it.

The lifespan goes through `starting`, `serving`, `flushing` (`audit_service.flush`), `stopping`
(`stop_all_servers`), `draining` (`task_registry.flush`) and `down`; the scheduler lives until the last.
Requests are answered before the lifespan resumes, as the web server does. `Crash` may come anywhere
and `LoadTasks` repairs what it left. After `Shutdown` starts that nobody awaits go on until `SchedulerDown`, with
which the event loop ends. Not modelled: how the lifecycle decides on a crash restart (`ServerLifecycle` has it), cron expressions, `last_run` and `last_result`.

### 2.5 ServerUpdater

Files are inodes: `Open` truncates the one `.tmp` file of a server, so overlapping downloads write to one inode, also
after the first has renamed it. `Begin` looks at the process table; `Stop`, the backup, `Unlink`, `Open`, `Streamed`
or `Installed`, `Failure`, `Save` and `Start` are the rest of an update; `Note` is the commit of
`latest_known_version` that precedes a scheduled one. The user or the crash restart may start the server at any time.

`loader` says how the server gets its executable. `installer` is Forge and NeoForge: the download is the installer,
which writes a JAR (`InstallerWrites`) and may end with it complete or not (`Installed`), because nobody reads
its exit status; whatever JAR of an installer lies in the directory, this one's or an earlier one's (`loose`), gets the
name `server.jar` (`Renamed`), and to find none counts as a success. `bedrock` is checked against Bedrock's version, with
a fallback when it cannot be had (`Answers`), but updated like a vanilla Java server: `Latest` is the Java release (`Java`),
which is no version of Bedrock.

### 2.6 ServerRegistry

The row that a request inserts has its number. A request compares what it would insert with the rows
(`Used`, `NoConflict`, `NextFree`, with the end of the range), awaits, and inserts. `saw[i]` collects the
rows that row *i* was compared with; an edit compares ports only, so nothing is said of its directory, which it
does not change. `padded` marks a name
compared before it is stripped, so that the comparison finds nothing.
After the row of a creation is committed (`Marked` is its status), the executable arrives in the request
itself (`Download`: Java, Bedrock) or in a background task that outlives the request (`Install`: SteamCMD);
`Results` is how either ends: it succeeds, with an executable or without (an installer may have made
none), it answers that it failed, which is marked, or it raises or returns without a trace (`Unanswered`), which leaves
the row STOPPED. `Start` needs the executable; `StartFails` is the attempt without it, which commits STARTING for a Bedrock
or Steam server (`server_manager.py`:282) or CRASHED where the launch raises, and `List` is the repair of the status by the list of
servers, which makes STARTING of what does not run STOPPED. A deletion looks at the process table once (`Delete`), stops what it found
(`DeleteStop`) and erases row and directory later; `late` holds the servers started in between, which is
what the code does not exclude.
The three port ranges of each type are scaled to three ports, so that they overlap and run out.

### 2.7 ModUpdater

A file is a project and a version; the dependencies are those of a version (`Requires[p][v]`). `Install` follows
them as `_resolve_dependencies` lists them, in the versions that it looks up one after the other (`LookedUp`, `Needs`), `Place` and
`Commit` do one of them each, in the version that is the newest by then; an update removes the old file, downloads and
stores, and looks for no dependency; a removal unlinks and erases the row. `unlooked` holds the rows of a version whose
dependencies nobody has looked up. `CommitFails`, `StoreFails` and `EraseFails` roll back with the file already placed or
removed. An import writes entry after entry, a failed write leaves a part (`Entry`), then the overrides, of which a JAR
gets no row (`Override`); its rows come with one commit (`Register`), and an exception before it leaves all files
(`Override`, `ImportFails`). `left` holds the files that stay so. Whether a file is complete is not modelled. `work[r]` is what operation *r* has read, including rows that may
be gone by now. `Resolve` is the recursion of `_resolve_dependencies` as a recursive function, down to its
depth of ten. `FindNewest` walks over the mods as `find_max_compatible_version` does.

### 2.8 Accounts

A user has the number of the request that made it, besides two founders. Each request reads the rows it needs
(`work[r]`), then commits only the columns it changed (as the sessions of SQLAlchemy do). The database refuses
duplicates and references to a user that is gone; deletion is refused for a user that the audit log or the invitation
refers to, or that was granted access meanwhile. Time passes freely: a lock or the invitation may expire at any
moment.

## 3. Runs

| Run | Question | Bounds |
|---|---|---|
| `lifecycle_gate` | Is the start section exclusive, does a running process keep its entry in the table and its `gsm.pid`, and is `LaunchGate` implemented, with every kind of request, crashes and a reboot? | 1 caller of every kind beside the crash-restart tasks and watchers, 2 launches, 1 reboot, 1 automatic restart |
| `lifecycle_unattended` | Without a stop or reboot, is there one process at most, and are automatic launches bounded? | 1 web caller, 3 launches, readiness without pattern |
| `lifecycle_live` | Does every task end, and does STOPPING pass? | 2 callers, 2 launches, 2 requests, fairness |
| `steam_ops` | Is SteamCMD exclusive, does the snapshot name a live operation, does every operation end? | 3 operations (two of any kind, one that starts the server), 2 codes, fairness |
| `backups` | Do rows and archives stay together, does the maximum hold, is nothing skipped unarchived, and is `ArchiveStore` implemented? | 3 requests, 1 file with 2 contents (the installed one and a later write), 2 seconds, 1 crash, at most 1 backup |
| `scheduler` | Do jobs and enabled rows agree, are the uptime tasks those of the last sync, and what outlives a shutdown? | 3 requests (a creation or sync, a creation, toggle or sync, a toggle, removal or sync), 4 tasks, names of a user's like the uptime tasks'; or 2 requests about tasks that start, stop or restart the server, 2 executions, crash restarts; 2 starts of the manager |
| `updater` | Is the JAR whole, is a stopped server started again, is a build installed once, does only a late start lose its JAR? | 3 requests (two scheduled checks, a user's update or check), 2 builds, 1 crash, servers with a downloaded JAR, with an installer, and Bedrock |
| `registry` | Is nothing repeated that was compared, do rows keep directories and processes rows, is a failed creation seen? | 3 requests (two of them may be deletions of one server), 2 names, 2 types, 3 ports and the one beyond, 1 crash; 2 servers of one name that somebody tries to start without an executable |
| `mods` | Do files and rows match, are requirements there, are conflicts and the newest version true? | 3 operations, 3 projects in a chain of dependencies, of which one requires more in its second version, 2 versions, an override, 1 crash |
| `accounts` | Is the ledger of an invitation right, does somebody remain, are locks earned? | any 3 requests, 2 founders or none, at most 2 uses, locks after 2 failures |

The hazards these bounds must show need two tasks in one section, one process that dies while
another is launched, two backups and a third request, or two operations and a start between
them. Two launches are enough for a stale watcher, a stale generation and a stale stop; a third
launch is needed for an untracked process beside a tracked one (`find_two_alive`) and for a second
automatic restart. Two contents of one file are what an incremental backup that hashes one content and
copies another needs; files do not influence one another in any property of `Backups`. In the later
modules every race is between two requests over one row or file, and the third request is what looks at
the result or disturbs it once more; the second start of the manager is what repairs a crash. Four tasks
are two uptime schedules of two. Two runs explore
less than the product of their bounds, by a state constraint that their MC module names `OneConcern`. A shutdown needs no
sync and a sync no execution: `scheduler` follows either three requests about tasks while the server stands still
(`TasksOnly`), or two requests, without a sync, about tasks of any action, with executions, starts and stops of the server
(`ServerTasks`). Names matter only to comparisons and the status of a row only to installations and starts: `registry` follows
a start without an executable only where all names are one. Three ports are one more than a server of either type can take, so
that the range runs out at the second.

`find_...` runs check one property each that a comment, message or release note states, and TLC
finds a behaviour of the code that violates it:

| Run | Says | The code |
|---|---|---|
| `find_stop_not_honoured` | `server_manager.py`:789 "Server ... was stopped during restart delay. Aborting auto-restart." | the watcher decides on STOPPING and commits CRASHED after the stop has committed STOPPED and reset the crash state; the stopped server is launched again |
| `find_two_alive` | `VERSION.md`:350 "to prevent duplicate-start race condition" | the slower of two overlapping stops pops the process of a later start from the table; the next start launches beside it |

Further behaviour that TLC showed while the models were written, against what the repository says or
might be taken to say; no run is kept for it:

* `VERSION.md`:512 "Crash Auto-Restart": the dashboard repairs the status between the watcher's pop and
  its read of the row (`server_core.py`:75); the crash is taken for a stop.
* `server_control.py`:54 "Steam update and start is already in progress": an operation that ended without
  a terminal event keeps its snapshot active; every start is refused.
* `backup_manager.py`:349 "Server must be stopped before restoring a backup": the check is made once; the
  server starts while the thread replaces its files.
* `services/task_registry.py`:4 "All registered tasks are awaited during application shutdown so the lifespan context can
  clean up gracefully": the flush before `stop_all_servers` (`main.py`:234) awaits the watcher of every running server,
  which ends with the server. The shutdown stays in phase `flushing` until the servers end by themselves.
* `services/server_updater.py`:29 "Check if a server update is available": the update of a Bedrock server stores the Java
  release (:196), with which the next check compares Bedrock's version (:37), so every turn of the scheduled check
  updates it again; `EachBuildOnce` excepts Bedrock.
* `services/jar_downloader.py`:421 "Download the appropriate server JAR ... Returns True if successful": the exit status of
  the Forge installer is not read (:228); a JAR that it left incomplete becomes `server.jar` as a success. `JarIsWhole`
  excepts an installer that ended early.
* `main.py`:240 "All servers stopped gracefully": a job or a crash restart that starts the server after
  `stop_all_servers` has looked at the process table leaves a server that stays.
* `README.md`:38 "dependency resolution": it is part of an installation (`TODO.md`:69), so an update may install a version that
  requires what is not there; `RequiredModsAreThere` excepts it.
* `_shared.py`:61-108 and `jar_downloader.py`:251: an installation that raises, or succeeds without an executable, leaves a
  row that says STOPPED, as a good one does; `FailedCreationIsMarked` excepts it.
* `mod_updater.py`:772 says that all resolved mods support the version found: when a mod has none, the
  intersection begins again, and the versions {1}, {2}, {3} of three others give 3.

Every property of a passing run has a mutant in `PROJECT.json`: a plausible bug of the mapped
definition under which TLC finds the property violated.

Fairness. `LifecycleLiveness` and `SteamOperations` assume one weak fairness condition each, on
everything the manager itself does: the event loop resumes a task whose wait is over, and all
waits are limited (SteamCMD by 30 minutes, a challenge by 5, a stop by its escalation to SIGKILL).
Nothing is assumed of users, of game servers before SIGKILL, or of reboots. `MaxCalls` bounds the
requests, since a user who asks for ever can delay any task for ever.

## 4. Proofs

| Theorem | Property | Idea |
|---|---|---|
| `ServerLifecycleProofs!TypeCorrect` | `TypeOK` | inductive with the bound of every launch number by `launched` |
| `ServerLifecycleProofs!SectionCorrect` | `StartSection` | inductive together with `TypeOK`: a task enters the section only with the lock free and the table empty; stops, watchers and cancellations only ever empty the table or free the lock of a task that leaves |
| `ServerLifecycleProofs!ImplementsGate` | `GateSpec` | from the two invariants: each action is a step of `LaunchGate` or a stutter |
| `ServerLifecycleProofs!NeverReplaces` | (a corollary) | `NeverReplacesTracked`, which `GateSpec` implies: a step of the gate fills the slot only when it is empty |
| `ServerLifecycleProofs!OnlyStaleForgets` | `OnlyStaleForgetsLive` | inductive invariant `PidInv`: the tracked process is the one launched last, and a watcher past its wait is one of a dead process; so what drops a live process, or its file, is of an older one |
| `ServerLifecycleProofs!UnattendedOneAlive` | `AtMostOneAlive` | unattended; inductive with `OnlyTrackedLives` |
| `ServerLifecycleProofs!CrashLoopIsBounded` | `CrashLoopBounded` | inductive invariant `Budget` |
| `SteamOperationsProofs!TypeCorrect` | `TypeOK` | inductive |
| `SteamOperationsProofs!SectionCorrect` | `SteamSection` | the lock is taken only when free and freed only by the step in which its holder leaves |
| `SteamOperationsProofs!StartsUpdateOffline` | `StartUpdatesOfflineServer` | strengthened by: who is inside a start holds the start lock, and an operation's kind fits what it awaits; so the step that registers a process is made by the one holder, which has ended its update |
| `SteamOperationsProofs!SnapshotHasOwner` | `ActiveSnapshotHasOwner` | inductive invariant `SnapshotOwned`, which counts the silent ends |
| `SteamOperationsProofs!OnlyOutsidersHide` | `OnlyOutsidersHideTheRunning` | from `TypeOK`, `SteamSection` and `LockIsUsed`, action by action |
| `BackupsProofs!TypeCorrect` | `TypeOK` | inductive with `Progress`: what each await has already set |
| `BackupsProofs!NeverTooManyRows` | `RowsBounded` | inductive with `Births` and `Bounded` |
| `BackupsProofs!RowsKeepArchives` | `RowsHaveArchives` | inductive invariant `ArchivesInv` |
| `BackupsProofs!ArchivesAreOwned` | `ArchivesHaveOwners` | from `Entries` |
| `BackupsProofs!NothingSkippedIsLost` | `SkippedIsArchived` | inductive invariant `SkipInv` |
| `BackupsProofs!ImplementsStore` | `StoreSpec` | from `ArchivesInv`: each action is a step of `ArchiveStore` or a stutter |
| `TaskSchedulerProofs!ShutdownStops` | `OnlyLateStartsOutliveShutdown` | inductive invariant `ShutdownInv` |
| `TaskSchedulerProofs!JobsAgree` | `JobsMatchRows` | inductive invariant `JobsInv` |
| `TaskSchedulerProofs!UptimeIsLatest` | `UptimeFromLatestSync` | inductive with `UptimeInv` |
| `ServerUpdaterProofs!TypeCorrect` | `TypeOK` | inductive with `Turns`: the scheduled checks come one by one, and the r-th request begins at most the r-th update |
| `ServerUpdaterProofs!StoppedIsBroughtBack` | `BroughtBack` | inductive with `Owed`: who stopped the server goes on to its start |
| `ServerUpdaterProofs!ExecutableIsWhole` | `JarIsWhole` | inductive invariant `OneWriter` |
| `ServerUpdaterProofs!RunningKeepTheirJar` | `OnlyLateStartsLoseTheirJar` | from `LateIfRunning`: an update that has yet to touch the executable saw the server stopped |
| `ServerUpdaterProofs!BuildsInstalledOnce` | `EachBuildOnce` | inductive with `Abreast`: no more updates than the build in the row |
| `ServerRegistryProofs!NoOrphanProcess` | `ProcessesHaveRows` | inductive invariant `DeletionInv` |
| `ServerRegistryProofs!TypeCorrect` | `TypeOK` | inductive with `Fits` |
| `ServerRegistryProofs!NothingSeenIsRepeated` | `SeenIsNotRepeated` | inductive with `Fits`, of which `AllApart` is the property with the requests in flight |
| `ServerRegistryProofs!DirectoriesStay` | `RowsHaveDirectories` | inductive with `Fits`, by `DirsHeld` |
| `ServerRegistryProofs!FailuresAreMarked` | `FailedCreationIsMarked` | inductive with `Fits` |
| `ModUpdaterProofs!FilesFollowRows` | `FilesMatchRows` | inductive invariant `ModsInv` |
| `ModUpdaterProofs!ConflictsAreOfMods` | `ConflictsOfPresentMods` | inductive with `Computing`: the rows that conflicts are computed of are there |
| `ModUpdaterProofs!NewestIsOfAll` | `NewestIsSupported` | inductive invariant `NewestInv`: what a search noted and found |
| `ModUpdaterProofs!RequiredModsComeFirst` | `RequiredModsAreThere` | inductive invariant `RequiredInv`: what is left to install is ordered |
| `AccountsProofs!UsersRemain` | `SomebodyRemains` | inductive with `SafeUser`: one user whom no deletion in flight is about |
| `AccountsProofs!LedgerIsRight` | `InviteLedger` | inductive invariant `Ledger` |
| `AccountsProofs!LocksAreEarned` | `LockIsEarned` | inductive invariant `Lockout` |

They hold for any sets of callers and requests, any number of launches, operations, tasks, files and codes, from
the named assumptions on the constants, which TLC evaluates in every run. Two theorems have a hypothesis of their own.
`UnattendedOneAlive` is about a manager that does not die and whom nobody asks for a stop or a restart, because
otherwise the code does launch beside a live process (`find_two_alive`); run `lifecycle_unattended` is such an instance.
`RequiredModsComeFirst` assumes `Shallow(depth)`: some numbering of the projects from 0 to `MaxDepth` gives every dependency
that any version of a project requires a smaller number, so there is no cycle and no chain longer than the ten that `_resolve_dependencies`
follows (`mod_updater.py`:179, `depth > 10`). Beyond that the code installs a mod without what it requires, and of two
mods that require each other one comes first. The chain of run `mods` is `Shallow`.

*Lifecycle.* `StartSection` is inductive only with `TypeOK`, because a cancelled restart task is identified by a
launch number. A live process loses its entry or its `gsm.pid` to a stale stop or watcher, but only to
one of an *older* launch, because only the last launch is ever tracked (`PidInv`). Unattended, the only process alive is the
tracked one (`OnlyTrackedLives`), which survives a launch because a start registers only in an empty table. For the
limit of crash restarts a counter is not enough: a restart that is counted may be on its way when the count is reset.
`Budget` therefore adds the restart tasks that are still pending to the launches made, and lets the crashes counted
pay for both, in this epoch and in those before it.

*SteamCMD.* `SteamSection` alone does not imply `StartUpdatesOfflineServer`, because the start lock is another lock
than the one SteamCMD runs under. `OnlyOutsidersHide` needs that the holder of the operation lock is running or at a
challenge (`LockIsUsed`): then the snapshot is overwritten only by one that begins, or fails, outside the lock.

*Scheduler.* `ShutdownInv` says, phase by phase, why nothing else survives a shutdown: from
`stop_all_servers` on no execution that a user asked for is under way (`UsersAwaited`), a server that runs while
the servers are stopped has its watcher or was started late, one that runs while the registry is flushed again is
waited for by its watcher or was started late (`AwaitedOrLate`), and a manager that is down executes and starts
nothing (`NothingRunsDown`); the property alone is not inductive, because it is silent before the end. A start that nobody
awaits is `late` exactly from `stop_all_servers` on (`LaunchIsLate`).

*Jobs and rows.* The property compares jobs with enabled rows when no request is at a task; `JobsFit` says at each
await of `add_task`, `toggle_task` and `remove_task` how the two may differ meanwhile, and that one request at most is
at a task that is not contended. `LatestFits` does the same for the uptime schedule: while a sync that is alone has yet
to delete the tasks it has listed, every other one that a sync made is its own; a user's that came
later is no listed one (`ListedWasMade`: ids are never given twice).

*Updater.* `OneWriter` relates the `.tmp` file to the executables: without overlapping downloads the one that writes
has the inode of `.tmp`, which is none of them, although a `.tmp` that a dead manager left is written again under the
inode of an older request. Inodes of downloads that have not begun are nowhere, so that a new `.tmp` is new. What an
installer has made is complete once it has ended, or the installer is one that ended early (`Sound`). `Abreast` counts the
updates of the scheduled check against the build in the row, which for Bedrock is no build: `JavaAbreast` leaves it out.

*Backups.* `RowsBounded` counts the rows of now, but two backups that trim at once have both chosen what to remove:
`Bounded` says it of the rows that would be left by *every set* of the removals in flight, and needs that rows are
born one after the other (`Births`). Rows and archives: the archive in the directory was opened and no request is
removing it (`Entries`), only threads that copy have archives open (`Writers`), and from the moment a backup has
opened an archive whose name is its own, the entry is its archive, whole once closed (`Kept`). Incremental backups: a
content that a game file still has and that a manifest, an archive or a thread holds was put into an archive that was
closed (`Archived`); it rests on `Contained`, that contents are numbered by their writes, so that a later write is
never mistaken for what was hashed. The refinement needs nothing new: `Entries` and `Kept` say that a backup about to
be listed has its archive, and a row keeps it until it is being removed (`WholeIs`), so the archives that are whole
are known from where each request is; only the naming of a backup can make twins (`Clash`), and it has no archive
then.

*Registry.* `Fits` says of requests in flight what the properties say of rows: a row about to be inserted has its
directory (`DirsHeld`) and repeats nothing it was compared with (`AllApart`); an upload has an empty directory of its own
(`Extracting`), an edit a row with the ports it has checked (`Editing`), and a process its executable (`Runnable`), so that a
server without one was never started, and only `StartFails`, which notes it in `tried`, takes its CRASHED away.

*Mods.* `FilesMatchRows` leaves out projects that operations met on, so the invariant must say who meets: two
operations touch one project only if it is tangled (`AllApart`). Of every other project one operation at most can say:
the row that I have read is as I read it, and while I am between removal and download, or between file and row, this
is the file that is there or missing (`Working`, `Placed`, `Erasing`). Ids of rows are never given twice (`Aimed`,
`Following`), so a commit never lands on the row of another project. The sequence of a finite set holds each of its
members once (`Listing`). The two properties about what the code *computes* rest on inductions that are carried out
first-order. No induction theorem can be instantiated, but a set of naturals has a least member (`LeastOf`), and with
it least counterexamples are refuted (`Counting`): so the walk over the mods is an intersection as long as it has not
been emptied (`NewestInv`: the versions found are of all the mods noted, `Noted` and `Found`), and the recursion of
`_resolve_dependencies` returns, level by level, a sequence in which each project comes after what it requires, or
that is settled already (`Right`, `AfterSound`). `RequiredInv` carries this order through the installation: `Listed`
says that what an operation has still to install is ordered, by the needs of the versions it has looked up, behind what
is there, until its session breaks, and a removal or a failure settles what depends on it by leaving it out of the
property. A mod of which another version is fetched than the one looked up is `unlooked` and nothing is said of it; for those
after it in the list it counts as there.

*Snapshots, deletions, accounts.* `SnapshotOwned` names the owner of an active snapshot: the operation whose id it
carries, which still owes an event (`Owes`: queued operations from the request on, the others while they run
SteamCMD), or one that has ended silently, in one of the five ways of section 2.2; every step that ends what an operation owes publishes its end or is a
silent one. `DeletionInv` says that what a deletion has found stopped, or has stopped, runs again before the row is
gone only if it was started late (`DeletedAreLate`); the property does not mention the requests in between and is not
inductive. The invariants of `Accounts` are about what a request in flight has read: nothing is redeemed before it is
issued (`IssuedFirst`), and unless redemptions overlap, the one in flight has read the uses as they are (`OneByOne`);
nobody is made twice (`MadeOnce`), and unless logins to an account overlap, the one in flight has read its count and
lock as they are (`CountIsRight`). Somebody remains because an administrator cannot delete itself: the one that asked
for the latest deletion is a user whom no deletion in flight is about, until deletions cross.

Only model-checked: liveness (`EveryTaskEnds`, `StoppingIsTransient`, `EveryOperationEnds`), which needs fairness and
`ENABLED`, out of reach of the provers installed; and the two violations of section 3, which are counterexamples. Every
safety invariant, action property and refinement of the passing runs is a theorem.

## 5. Plan

What is left, in this order:

1. More abstract specifications, and their refinement: the registry as a set of servers that were compared, the
   installed mods as a set closed under what it requires.
2. The container path of start and stop.
3. What the exceptions of the properties leave open (late starts, twins, projects on which operations met), with the
   history that tells which request is to blame.

## 6. Not modelled

Components whose state is one request or one file (pages, middleware, notifications, settings forms,
SFTP, RCON and query protocols, the file and configuration editors) have no interleaving a model could
add to their tests. The console is a buffer that nothing reads back. Docker and remote nodes are calls of
systems that are not in this repository. `PROJECT.json` says for each component that is partly modelled
which of its operations are left out. The database is assumed to apply a commit as a whole, and the file
system a rename or removal. Nothing is said about performance, resource limits of game servers, or the
contents of configuration files.
