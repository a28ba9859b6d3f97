-------------------------- MODULE SteamOperations --------------------------
(***************************************************************************)
(* SteamCMD operations on ONE Steam server (src/gsm/app/services/          *)
(* steamcmd.py and the routes, jobs and updater that call it): the         *)
(* per-server operation lock, the one progress snapshot that every         *)
(* operation of the server publishes to, the Steam Guard waiters, and the  *)
(* ways in which an operation meets the lifecycle of the server: it stops  *)
(* it, runs inside its start, or starts it afterwards.                     *)
(*                                                                         *)
(* A step is the code between two awaits.  An operation is a task; its     *)
(* number stands for its operation id.  Ids that no user ever sees in a    *)
(* Steam Guard challenge (made by record_operation_failure, or by          *)
(* install_server for unattended callers) are all Fresh.                   *)
(***************************************************************************)
EXTENDS Integers

CONSTANTS
  NumOps,    \* bound: operations in a behaviour
  MaxCodes,  \* bound: Steam Guard codes submitted in a behaviour
  Kinds      \* Kinds[o]: the kinds of operation that the o-th request may be

\* update_start: the start route of a server with update-on-start;
\* manual: install, validate and workshop downloads asked for by a user;
\* update, autoUpdate: server_updater.update_server, by a user or by a job;
\* autoValidate: the scheduler's validation;
\* start: any other start of the server, which updates it first when it
\* has update-on-start.
AllKinds   == {"update_start", "manual", "update", "autoUpdate", "autoValidate", "start"}
ASSUME BoundAssumption == NumOps \in Nat \ {0} /\ MaxCodes \in Nat

Ops         == 1 .. NumOps
ASSUME KindAssumption  == Kinds \in [Ops -> SUBSET AllKinds]

Nobody      == 0
Fresh       == 0
Interactive == {"manual", "update"}
Updaters    == {"update", "autoUpdate"}
Active      == {"queued", "running", "waiting"}
SnapStatus  == Active \cup {"idle", "completed", "failed"}

\* What an operation awaits, and what its last run of SteamCMD returned.
Awaits  == {"idle", "begin", "stopping", "creds", "lock", "run", "guard",
            "save", "relaunch", "launch", "ended"}
Results == {"none", "ok", "failed", "guard", "raised", "lost"}
\* Ends that publish no event: a challenge that nobody can answer, an exception,
\* and whatever ends an operation before it reaches the operation lock.
Silent  == {"guard", "raised", "lost"}

VARIABLES
  snap,       \* _operation_state[server_id]: whose, of which kind, in which status
  opLock,     \* holder of _server_locks[server_id]
  waiter,     \* _guard_waiters: "none", "pending", or "set" to the submitted code
  pc,         \* pc[o]: what operation o awaits
  mode,       \* mode[o]: the kind of o; an updater that restarts the server becomes a "start"
  result,     \* result[o]: the result of its last SteamCMD run
  wasRunning, \* wasRunning[o]: the server was running when the updater o looked
  running,    \* server_manager.is_running(server_id)
  startLock,  \* holder of server_manager's start lock
  codes       \* codes submitted so far

opVars == <<pc, mode, result, wasRunning>>
vars   == <<snap, opLock, waiter, opVars, running, startLock, codes>>

Init ==
  /\ snap = [op |-> Nobody, kind |-> "none", status |-> "idle"]
  /\ opLock = Nobody /\ startLock = Nobody
  /\ waiter = [o \in Ops |-> "none"]
  /\ pc = [o \in Ops |-> "idle"] /\ mode = [o \in Ops |-> "none"]
  /\ result = [o \in Ops |-> "none"] /\ wasRunning = [o \in Ops |-> FALSE]
  /\ running \in BOOLEAN
  /\ codes = 0

Goto(o, next) == pc' = [pc EXCEPT ![o] = next]

\* _publish_event: the snapshot is overwritten, whoever owned it.
Publish(id, kind, status) == snap' = [op |-> id, kind |-> kind, status |-> status]

\* The id under which o publishes: queued operations have one of their own.
Id(o) == IF mode[o] \in {"manual", "update", "update_start"} THEN o ELSE Fresh
PublishFor(o, status) == Publish(Id(o), mode[o], status)

-----------------------------------------------------------------------------
(* Requests                                                                *)

\* Operations are numbered in the order in which they are asked for.
Ask(o, kind, next) ==
  /\ pc[o] = "idle" /\ kind \in Kinds[o]
  /\ \A p \in 1 .. (o - 1) : pc[p] # "idle"
  /\ mode' = [mode EXCEPT ![o] = kind]
  /\ Goto(o, next)
  /\ UNCHANGED <<opLock, waiter, result, wasRunning, running, startLock, codes>>

\* The start route queues an update-and-start unless the snapshot shows one.
AskUpdateStart(o) ==
  /\ ~(snap.kind = "update_start" /\ snap.status \in Active)
  /\ ~running
  /\ Ask(o, "update_start", "creds")
  /\ Publish(o, "update_start", "queued")

\* queue_operation by a route or by the API, then the background task.
AskQueued(o) ==
  \/ Ask(o, "manual", "creds") /\ Publish(o, "manual", "queued")
  \/ Ask(o, "update", "begin") /\ Publish(o, "update", "queued")

\* Scheduled jobs, the update route and starts queue nothing.
AskUnattended(o) ==
  /\ \/ Ask(o, "autoUpdate", "begin")
     \/ Ask(o, "autoValidate", "creds")
     \/ Ask(o, "start", "relaunch")
  /\ UNCHANGED snap

-----------------------------------------------------------------------------
(* Up to the operation lock                                                *)

\* update_server looks at the process table and stops a running server.
UpdateBegins(o) ==
  /\ pc[o] = "begin"
  /\ wasRunning' = [wasRunning EXCEPT ![o] = running]
  /\ Goto(o, IF running THEN "stopping" ELSE "creds")
  /\ UNCHANGED <<snap, opLock, waiter, mode, result, running, startLock, codes>>

UpdateStopped(o) ==
  /\ pc[o] = "stopping"
  /\ running' = FALSE
  /\ Goto(o, "creds")
  /\ UNCHANGED <<snap, opLock, waiter, mode, result, wasRunning, startLock, codes>>

\* What o does after its SteamCMD run, or after the refusal of it.
Onward(o, ok) ==
  CASE mode[o] = "start"                           -> IF ok THEN "launch" ELSE "ended"
    [] mode[o] = "update_start"                    -> IF ok THEN "save" ELSE "ended"
    [] mode[o] \in Updaters /\ wasRunning[o]       -> "relaunch"
    [] OTHER                                       -> "ended"

\* An updater starts the server with start_server, like everybody else.
After(o, res) ==
  /\ result' = [result EXCEPT ![o] = res]
  /\ Goto(o, Onward(o, res = "ok"))
  /\ mode' = IF mode[o] \in Updaters /\ wasRunning[o] THEN [mode EXCEPT ![o] = "start"] ELSE mode
  /\ startLock' = IF mode[o] = "start" /\ res # "ok" THEN Nobody ELSE startLock

\* o ends where it is, and frees what it holds.
EndHere(o, res) ==
  /\ result' = [result EXCEPT ![o] = res]
  /\ Goto(o, "ended")
  /\ startLock' = IF startLock = o THEN Nobody ELSE startLock
  /\ UNCHANGED <<mode, wasRunning>>

\* get_server_install_kwargs returns the credentials.
CredsFound(o) ==
  /\ pc[o] = "creds"
  /\ Goto(o, "lock")
  /\ UNCHANGED <<snap, opLock, waiter, mode, result, wasRunning, running, startLock, codes>>

\* Mutant: the refusal of an update-and-start is not published.
CredsRefusedQuietly(o) ==
  /\ pc[o] = "creds"
  /\ EndHere(o, result[o])
  /\ IF mode[o] \in Interactive THEN Publish(Fresh, mode[o], "failed") ELSE UNCHANGED snap
  /\ UNCHANGED <<opLock, waiter, running, codes>>

\* It returns an error: an unattended account needs Steam Guard, or no account
\* can be loaded.  Even an updater that stopped the server returns here.
CredsRefused(o) ==
  /\ pc[o] = "creds"
  /\ EndHere(o, result[o])
  /\ CASE mode[o] = "update_start"   -> PublishFor(o, "failed")
       [] mode[o] \in Interactive    -> Publish(Fresh, mode[o], "failed")
       [] OTHER                      -> UNCHANGED snap
  /\ UNCHANGED <<opLock, waiter, running, codes>>

\* SteamCMD is not installed: record_operation_failure, under a fresh id.
Unavailable(o) ==
  /\ pc[o] = "creds"
  /\ After(o, "failed")
  /\ Publish(Fresh, mode[o], "failed")
  /\ UNCHANGED <<opLock, waiter, wasRunning, running, codes>>

\* The server, or the workshop item, was removed before the task ran: it returns
\* and says nothing, whatever it was queued for.
Gone(o) ==
  /\ \/ pc[o] = "begin"
     \/ pc[o] = "creds" /\ mode[o] \in {"manual", "update_start", "autoValidate"}
  /\ EndHere(o, "lost")
  /\ UNCHANGED <<snap, opLock, waiter, running, codes>>

\* An exception before the operation lock: the stop of an updater fails, the
\* password cannot be decrypted, or the directory cannot be made.
RaisesEarly(o) ==
  /\ pc[o] \in {"stopping", "creds"}
  /\ EndHere(o, "lost")
  /\ UNCHANGED <<snap, opLock, waiter, running, codes>>

-----------------------------------------------------------------------------
(* install_server and install_workshop_item, inside the operation lock     *)

\* Mutant: an operation does not wait for the one before it.
BeginsAtOnce(o) ==
  /\ pc[o] = "lock"
  /\ opLock' = o
  /\ Goto(o, "run")
  /\ PublishFor(o, "running")
  /\ UNCHANGED <<waiter, mode, result, wasRunning, running, startLock, codes>>

Begins(o) ==
  /\ pc[o] = "lock" /\ opLock = Nobody
  /\ opLock' = o
  /\ Goto(o, "run")
  /\ PublishFor(o, "running")
  /\ UNCHANGED <<waiter, mode, result, wasRunning, running, startLock, codes>>

\* A progress line of SteamCMD.
Progress(o) ==
  /\ pc[o] = "run"
  /\ PublishFor(o, "running")
  /\ UNCHANGED <<opLock, waiter, opVars, running, startLock, codes>>

\* SteamCMD exits or is killed after 30 minutes: the lock is released and the
\* terminal event published before anybody else runs.
RunEnds(o) ==
  /\ pc[o] = "run"
  /\ opLock' = Nobody
  /\ \/ After(o, "ok") /\ PublishFor(o, "completed")
     \/ After(o, "failed") /\ PublishFor(o, "failed")
  /\ UNCHANGED <<waiter, wasRunning, running, codes>>

\* SteamCMD cannot be launched or its output cannot be read: the exception
\* leaves the operation, the updater and the start with their locks free.
RunRaises(o) ==
  /\ pc[o] = "run"
  /\ opLock' = Nobody
  /\ EndHere(o, "raised")
  /\ UNCHANGED <<snap, waiter, running, codes>>

\* Mutant: the event is published without its status, which is then its type.
ChallengedNoStatus(o) ==
  /\ pc[o] = "run" /\ mode[o] \in Interactive
  /\ waiter' = [waiter EXCEPT ![o] = "pending"]
  /\ PublishFor(o, "steam_guard_required")
  /\ Goto(o, "guard")
  /\ UNCHANGED <<opLock, mode, result, wasRunning, running, startLock, codes>>

\* Steam asks for a Steam Guard code, or rejects the one it got.
Challenged(o) ==
  /\ pc[o] = "run" /\ mode[o] \in Interactive
  /\ waiter' = [waiter EXCEPT ![o] = "pending"]
  /\ PublishFor(o, "waiting")
  /\ Goto(o, "guard")
  /\ UNCHANGED <<opLock, mode, result, wasRunning, running, startLock, codes>>

\* Mutant: the operation lock is kept when nobody can be asked.
ChallengedUnattendedKeepsLock(o) ==
  /\ pc[o] = "run" /\ mode[o] \notin Interactive
  /\ After(o, "guard")
  /\ UNCHANGED <<snap, opLock, waiter, wasRunning, running, codes>>

\* Nobody can be asked: the operation fails, and publishes no terminal event.
ChallengedUnattended(o) ==
  /\ pc[o] = "run" /\ mode[o] \notin Interactive
  /\ opLock' = Nobody
  /\ After(o, "guard")
  /\ UNCHANGED <<snap, waiter, wasRunning, running, codes>>

\* submit_steam_guard_code, for the operation that the snapshot shows.
Submit(o) ==
  /\ codes < MaxCodes /\ codes' = codes + 1
  /\ snap.op = o /\ waiter[o] = "pending"
  /\ waiter' = [waiter EXCEPT ![o] = "set"]
  /\ Publish(o, snap.kind, "running")
  /\ UNCHANGED <<opLock, opVars, running, startLock>>

\* The task takes the code and runs SteamCMD again.
Resume(o) ==
  /\ pc[o] = "guard" /\ waiter[o] = "set"
  /\ waiter' = [waiter EXCEPT ![o] = "none"]
  /\ Goto(o, "run")
  /\ UNCHANGED <<snap, opLock, mode, result, wasRunning, running, startLock, codes>>

\* Mutant: the waiter of an operation that timed out stays behind.
GuardTimeoutLeavesWaiter(o) ==
  /\ pc[o] = "guard"
  /\ opLock' = Nobody
  /\ After(o, "failed") /\ PublishFor(o, "failed")
  /\ UNCHANGED <<waiter, wasRunning, running, codes>>

\* Five minutes pass; a code set in the same turn of the event loop is lost.
GuardTimeout(o) ==
  /\ pc[o] = "guard"
  /\ opLock' = Nobody
  /\ waiter' = [waiter EXCEPT ![o] = "none"]
  /\ After(o, "failed") /\ PublishFor(o, "failed")
  /\ UNCHANGED <<wasRunning, running, codes>>

-----------------------------------------------------------------------------
(* Starting the server, inside the start lock                              *)

\* The new build id is committed; update-and-start is "running" again.
Saved(o) ==
  /\ pc[o] = "save"
  /\ PublishFor(o, "running")
  /\ Goto(o, "relaunch")
  /\ UNCHANGED <<opLock, waiter, mode, result, wasRunning, running, startLock, codes>>

\* The server is running already: the start ends.
StartRefused(o) ==
  /\ pc[o] = "relaunch" /\ startLock = Nobody /\ running
  /\ Goto(o, "ended")
  /\ IF mode[o] = "update_start" THEN PublishFor(o, "failed") ELSE UNCHANGED snap
  /\ UNCHANGED <<opLock, waiter, mode, result, wasRunning, running, startLock, codes>>

\* Mutant: a start runs its update before it takes the start lock.
StartBeginsUnlocked(o) ==
  /\ pc[o] = "relaunch" /\ ~running
  /\ UNCHANGED startLock
  /\ \E next \in {"creds", "launch"} : Goto(o, next) /\ (next = "creds" => mode[o] = "start")
  /\ UNCHANGED <<snap, opLock, waiter, mode, result, wasRunning, running, codes>>

\* A start with update-on-start runs SteamCMD while it holds the start lock;
\* update-and-start has done so already (skip_steam_update).
StartBegins(o) ==
  /\ pc[o] = "relaunch" /\ startLock = Nobody /\ ~running
  /\ startLock' = o
  /\ \E next \in {"creds", "launch"} : Goto(o, next) /\ (next = "creds" => mode[o] = "start")
  /\ UNCHANGED <<snap, opLock, waiter, mode, result, wasRunning, running, codes>>

\* The process is launched and registered, or the launch fails, also with the
\* process registered (the commit after it fails).
Launched(o) ==
  /\ pc[o] = "launch"
  /\ startLock' = Nobody
  /\ running' \in BOOLEAN
  /\ Goto(o, "ended")
  /\ IF mode[o] = "update_start" THEN \E status \in {"completed", "failed"} : PublishFor(o, status)
                                 ELSE UNCHANGED snap
  /\ UNCHANGED <<opLock, waiter, mode, result, wasRunning, codes>>

\* An exception after the SteamCMD run: the row of the build is gone or cannot be
\* committed, or that of the server's status, before or after the launch.
RaisesLate(o) ==
  /\ pc[o] \in {"save", "relaunch", "launch"}
  /\ EndHere(o, "raised")
  /\ running' \in IF pc[o] = "launch" THEN BOOLEAN ELSE {running}
  /\ UNCHANGED <<snap, opLock, waiter, codes>>

\* The game server exits or a user stops it.
ServerStops ==
  /\ running /\ running' = FALSE
  /\ UNCHANGED <<snap, opLock, waiter, opVars, startLock, codes>>

-----------------------------------------------------------------------------
Request(o) == AskUpdateStart(o) \/ AskQueued(o) \/ AskUnattended(o)

OpStep(o) ==
  \/ UpdateBegins(o) \/ UpdateStopped(o)
  \/ CredsFound(o) \/ CredsRefused(o) \/ Unavailable(o)
  \/ Gone(o) \/ RaisesEarly(o)
  \/ Begins(o) \/ RunEnds(o) \/ RunRaises(o)
  \/ Challenged(o) \/ ChallengedUnattended(o) \/ Resume(o) \/ GuardTimeout(o)
  \/ Saved(o) \/ StartRefused(o) \/ StartBegins(o) \/ Launched(o) \/ RaisesLate(o)

Next == (\E o \in Ops : Request(o) \/ OpStep(o) \/ Progress(o) \/ Submit(o)) \/ ServerStops

Spec == Init /\ [][Next]_vars

\* The event loop resumes what can go on, and every wait of an operation is
\* limited: SteamCMD by 30 minutes, a challenge by 5, a lock by the ends of the
\* operations before.  Users owe neither a request nor a code.
FairSpec == Spec /\ WF_vars(\E o \in Ops : OpStep(o))

-----------------------------------------------------------------------------
(* Properties                                                              *)

\* Every variable has its type.
TypeOK ==
  /\ snap \in [op : 0 .. NumOps, kind : AllKinds \cup {"none"}, status : SnapStatus]
  /\ opLock \in 0 .. NumOps /\ startLock \in 0 .. NumOps
  /\ waiter \in [Ops -> {"none", "pending", "set"}]
  /\ pc \in [Ops -> Awaits]
  /\ mode \in [Ops -> AllKinds \cup {"none"}]
  /\ result \in [Ops -> Results]
  /\ wasRunning \in [Ops -> BOOLEAN]
  /\ running \in BOOLEAN
  /\ codes \in 0 .. MaxCodes

\* SteamCMD runs, and a Steam Guard challenge is open, only for the operation that
\* holds the server's operation lock: two operations never write the server's
\* files together, and a challenge never outlives the operation that made it.
SteamSection ==
  \A o \in Ops : /\ pc[o] \in {"run", "guard"} => opLock = o
                 /\ waiter[o] # "none" => pc[o] = "guard"

\* The update that a start runs writes the files of a server that does not run:
\* nobody registers a process while the start lock is held, neither another start
\* nor an update-and-start that has just ended its own SteamCMD run.
StartUpdatesOfflineServer ==
  \A o \in Ops : mode[o] = "start" /\ pc[o] \in {"creds", "lock", "run"} => ~running

\* What the snapshot claims is so.  "queued": the operation it names has not reached
\* SteamCMD, or was lost on its way there.  "running": an operation is active, or one
\* has ended without an event.  "waiting": the operation it names waits for a code and
\* the code will reach it.  Events of other operations and late events never bring a
\* finished operation back to life, nor leave a challenge that takes no answer.
ActiveSnapshotHasOwner ==
  snap.status \in Active => \E o \in Ops :
    \/ /\ snap.status = "queued" /\ snap.op = o
       /\ pc[o] \in {"begin", "stopping", "creds", "lock"} \/ result[o] = "lost"
    \/ /\ snap.status = "running" /\ snap.op \in {Fresh, o}
       /\ pc[o] \notin {"idle", "ended"} \/ result[o] \in Silent
    \/ /\ snap.status = "waiting" /\ snap.op = o
       /\ pc[o] = "guard" /\ waiter[o] = "pending"

\* While an operation holds the operation lock, its snapshot is replaced only by a
\* new request, by a refusal or failure before the lock, or by the launch that ends
\* an update-and-start: never by another run of SteamCMD or by a code.
OnlyOutsidersHideTheRunning ==
  [][\A o \in Ops : opLock = o /\ opLock' = o /\ snap.op = Id(o) /\ snap'.op # Id(o) =>
       \E p \in Ops \ {o} : /\ pc[p] \in {"idle", "creds", "save", "relaunch", "launch"}
                            /\ pc'[p] # pc[p]]_vars

\* Whatever is asked for at the same time, every operation ends: challenges and
\* SteamCMD runs time out, and the start lock and the operation lock are never
\* awaited in a circle.
EveryOperationEnds == <>[](\A o \in Ops : pc[o] \in {"idle", "ended"})

=============================================================================
