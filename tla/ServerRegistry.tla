--------------------------- MODULE ServerRegistry --------------------------
(***************************************************************************)
(* The rows of the servers (src/gsm/app/routers/servers/server_crud.py):   *)
(* creation, import, upload, clone, import of a configuration, deletion    *)
(* and the edit of a query port, with the directories they make, the ports *)
(* that services/port_manager.py checks and suggests, and the installation *)
(* that follows a creation (routers/servers/_shared.py).  No column is     *)
(* unique: a request reads the rows, awaits, and inserts.  The lifecycle   *)
(* of a server (module ServerLifecycle) is reduced to start and stop.      *)
(***************************************************************************)
EXTENDS Integers, FiniteSets, FiniteSetsExt

CONSTANTS
  NumReqs,     \* bound: requests in a behaviour
  Kinds,       \* Kinds[r]: the kinds of request that the r-th may be
  Names,       \* names of servers
  Types,       \* the server types considered
  MaxPort,     \* the largest port
  MaxCrashes,  \* bound: deaths of the manager
  MaxTries     \* bound: servers that are started without their executable

Reqs     == 1 .. NumReqs
AllKinds == {"create", "import", "upload", "clone", "config", "edit", "delete"}
AllTypes == {"java", "bedrock", "steam"}

ASSUME BoundAssumption ==
  NumReqs \in Nat \ {0} /\ MaxPort \in Nat \ {0, 1, 2} /\ MaxCrashes \in Nat /\ MaxTries \in Nat
  /\ Names # {}
ASSUME KindAssumption ==
  Kinds \in [Reqs -> SUBSET AllKinds] /\ Types \subseteq AllTypes /\ Types # {}

\* The row a request inserts has its number; row 0 is there at the start.
Ids    == 0 .. NumReqs
NoPort == 0
Ports  == 0 .. MaxPort + 1

\* DEFAULT_RANGES, scaled: where the search for each port begins; 0: no such port.
First == [t \in AllTypes |->
           IF t = "java" THEN [game |-> 1, rcon |-> 2, query |-> NoPort]
           ELSE IF t = "bedrock" THEN [game |-> 1, rcon |-> NoPort, query |-> 2]
           ELSE [game |-> 2, rcon |-> 2, query |-> 3]]

NoRow == [name |-> "none", padded |-> FALSE, type |-> "java", game |-> NoPort, rcon |-> NoPort,
          query |-> NoPort, dir |-> 0, by |-> "nobody", status |-> "stopped"]

VARIABLES
  rows,    \* the servers that have a row
  row,     \* row[i]: its columns, or those of the row that request i is about to insert
  dirs,    \* the directories that exist, named after the request that made them
  files,   \* the directories that hold an executable
  procs,   \* the servers that the process table has
  pc,      \* pc[r]: what request r awaits
  kind,    \* kind[r]: what request r is
  target,  \* target[r]: the server that r clones, edits or deletes
  crashes, \* deaths of the manager
  saw,     \* history: saw[i]: the rows that row i, or request i, was compared with, as they are now
  lost,    \* history: directories whose installation reported no failure: a success, a death
           \* of the manager, an exception or an early return, or it was never asked for
  shared,  \* history: directories imported while the request that made them was in flight
  tried,   \* history: servers that somebody tried to start without their executable
  late     \* history: servers whose process was started after a deletion looked for one

reqVars  == <<pc, kind, target>>
diskVars == <<dirs, files>>
histVars == <<saw, lost, shared, tried, late>>
vars     == <<rows, row, diskVars, procs, reqVars, crashes, histVars>>

PortsOf(s) == {s.game, s.rcon, s.query} \ {NoPort}

-----------------------------------------------------------------------------
(* services/port_manager.py                                                *)

\* Mutant: query ports are not counted.
UsedNoQuery(but) == UNION {{row[i].game, row[i].rcon} \ {NoPort} : i \in rows \ but}

\* get_used_ports
Used(but) == UNION {PortsOf(row[i]) : i \in rows \ but}

\* Mutant: the search goes on beyond the range.
NextFreeNoEnd(start, taken) == Min({p \in start .. MaxPort + 9 : p \notin taken})

\* _next_free_port gives up at the first port beyond the range.
NextFree(start, taken) == Min({p \in start .. MaxPort + 1 : p \notin taken \/ p = MaxPort + 1})

\* suggest_ports
Suggested(t) ==
  LET u == Used({})
      g == NextFree(First[t].game, u)
      c == IF First[t].rcon = NoPort THEN NoPort ELSE NextFree(First[t].rcon, u \cup {g})
      q == IF First[t].query = NoPort THEN NoPort ELSE NextFree(First[t].query, u \cup {g, c})
  IN [game |-> g, rcon |-> c, query |-> q]

\* check_conflicts returns no conflict.
NoConflict(s, but) ==
  /\ PortsOf(s) \cap Used(but) = {}
  /\ s.rcon # NoPort  => s.rcon # s.game
  /\ s.query # NoPort => s.query \notin {s.game, s.rcon}

-----------------------------------------------------------------------------
Init ==
  /\ rows = {0} /\ crashes = 0
  /\ \E t \in Types, n \in Names :
       row = [i \in Ids |-> IF i # 0 THEN NoRow
               ELSE [NoRow EXCEPT !.name = n, !.type = t, !.game = First[t].game, !.by = "create"]]
  /\ dirs = {0} /\ files = {0} /\ procs = {}
  /\ pc = [r \in Reqs |-> "idle"] /\ kind = [r \in Reqs |-> "none"]
  /\ target = [r \in Reqs |-> 0]
  /\ saw = [i \in Ids |-> {}] /\ lost = {} /\ shared = {} /\ tried = {} /\ late = {}

Goto(r, next) == pc' = [pc EXCEPT ![r] = next]
InFlight(r)   == pc[r] \notin {"idle", "ended"}

Asked(r, k) ==
  /\ pc[r] = "idle" /\ k \in Kinds[r] /\ \A q \in 1 .. (r - 1) : pc[q] # "idle"
  /\ kind' = [kind EXCEPT ![r] = k]

\* The name as it was typed is compared with the stripped names of the rows.
NameFree(s) == s.padded \/ \A i \in rows : row[i].name # s.name

\* Request r has compared s with every row, and goes on with it.
Compared(r, s) == row' = [row EXCEPT ![r] = s] /\ saw' = [saw EXCEPT ![r] = rows]

\* The ports and the name are checked, the directory is made.
Create(r) ==
  /\ Asked(r, "create")
  /\ \E t \in Types, n \in Names, p \in BOOLEAN, g \in 1 .. MaxPort, c \in {NoPort, First["java"].rcon} :
       LET s == [NoRow EXCEPT !.name = n, !.padded = p, !.type = t, !.game = g, !.rcon = c,
                   !.query = IF t = "steam" THEN g + 1 ELSE NoPort, !.dir = r, !.by = "create"]
       IN NoConflict(s, {}) /\ NameFree(s) /\ Compared(r, s)
  /\ dirs' = dirs \cup {r} /\ Goto(r, "insert")
  /\ UNCHANGED <<rows, files, procs, target, crashes, lost, shared, tried, late>>

\* A directory that no row names becomes a server; its ports are
\* not checked (nor are those of an upload: one port of each type stands for all).
Import(r) ==
  /\ Asked(r, "import")
  /\ \E t \in Types, n \in Names, p \in BOOLEAN, d \in dirs :
       LET s == [NoRow EXCEPT !.name = n, !.padded = p, !.type = t, !.game = First[t].game,
                   !.query = IF t = "steam" THEN First[t].game + 1 ELSE NoPort, !.dir = d, !.by = "import"]
       IN /\ NameFree(s) /\ Compared(r, s)
          /\ \A i \in rows : row[i].dir # d
          /\ shared' = IF \E q \in Reqs : InFlight(q) /\ row[q].dir = d THEN shared \cup {d} ELSE shared
  /\ Goto(r, "insert")
  /\ UNCHANGED <<rows, diskVars, procs, target, crashes, lost, tried, late>>

\* The archive is received and extracted to a directory of its own.
Upload(r) ==
  /\ Asked(r, "upload")
  /\ \E t \in Types, n \in Names, p \in BOOLEAN :
       LET s == [NoRow EXCEPT !.name = n, !.padded = p, !.type = t, !.game = First[t].game,
                   !.dir = r, !.by = "upload"]
       IN NameFree(s) /\ Compared(r, s)
  /\ dirs' = dirs \cup {r} /\ Goto(r, "extract")
  /\ UNCHANGED <<rows, files, procs, target, crashes, lost, shared, tried, late>>

\* Mutant: the directory is removed, and the row inserted all the same.
ExtractNoReturn(r) ==
  /\ pc[r] = "extract"
  /\ \/ files' = files \cup {r} /\ UNCHANGED dirs
     \/ dirs' = dirs \ {r} /\ UNCHANGED files
  /\ Goto(r, "insert")
  /\ UNCHANGED <<rows, row, procs, kind, target, crashes, histVars>>

\* After an error the directory is removed.
Extract(r) ==
  /\ pc[r] = "extract"
  /\ \/ files' = files \cup {r} /\ Goto(r, "insert") /\ UNCHANGED dirs
     \/ dirs' = dirs \ {r} /\ files' = files \ {r} /\ Goto(r, "ended")
  /\ UNCHANGED <<rows, row, procs, kind, target, crashes, histVars>>

\* The ports are suggested before the files are copied.
Clone(r) ==
  /\ Asked(r, "clone")
  /\ \E i \in rows, n \in Names, c \in BOOLEAN :
       LET t == row[i].type
           g == Suggested(t)
           s == [NoRow EXCEPT !.name = n, !.type = t, !.game = g.game, !.dir = r, !.by = "clone",
                   !.rcon = IF c THEN g.rcon ELSE NoPort, !.query = IF t = "steam" THEN g.query ELSE row[i].query]
       IN (c <=> row[i].rcon # NoPort) /\ NameFree(s) /\ Compared(r, s) /\ target' = [target EXCEPT ![r] = i]
  /\ Goto(r, "copy")
  /\ UNCHANGED <<rows, diskVars, procs, crashes, lost, shared, tried, late>>

\* What a failed copy has left stays.
Copy(r) ==
  LET from == row[target[r]].dir IN
  /\ pc[r] = "copy"
  /\ dirs' = dirs \cup {r}
  /\ \/ files' = (IF from \in files THEN files \cup {r} ELSE files) /\ Goto(r, "insert")
     \/ Goto(r, "ended") /\ UNCHANGED files
  /\ lost' = IF from \in files THEN lost ELSE lost \cup {r}
  /\ UNCHANGED <<rows, row, procs, kind, target, crashes, saw, shared, tried, late>>

\* import_config takes the name and the ports of the file; nothing is compared.
Config(r) ==
  /\ Asked(r, "config")
  /\ \E t \in Types, n \in Names, c \in {NoPort, First["java"].rcon} :
       row' = [row EXCEPT ![r] = [NoRow EXCEPT !.name = n, !.type = t, !.game = First[t].game, !.rcon = c,
                                    !.dir = r, !.by = "config"]]
  /\ dirs' = dirs \cup {r} /\ lost' = lost \cup {r} /\ Goto(r, "insert")
  /\ UNCHANGED <<rows, files, procs, target, crashes, saw, shared, tried, late>>

\* The row is committed; a creation goes on with the download or the
\* installation, unless no version or application was given.
Insert(r) ==
  /\ pc[r] = "insert"
  /\ rows' = rows \cup {r}
  /\ \/ kind[r] = "create" /\ Goto(r, "install") /\ UNCHANGED lost
     \/ kind[r] = "create" /\ row[r].type \in {"java", "steam"} /\ Goto(r, "ended") /\ lost' = lost \cup {row[r].dir}
     \/ kind[r] # "create" /\ Goto(r, "ended")
        /\ lost' = IF row[r].dir \in files THEN lost ELSE lost \cup {row[r].dir}
  /\ UNCHANGED <<row, diskVars, procs, kind, target, crashes, saw, shared, tried, late>>

\* How an installation ends: it answers, or it raises or returns without a trace.
\* Success is no promise of an executable: an installer may have made none.
Results == {"done", "failed", "silent"}

Fetched(r, arrived)   == files' = IF arrived THEN files \cup {row[r].dir} ELSE files
Unanswered(r, result) == lost' = IF result = "failed" THEN lost ELSE lost \cup {row[r].dir}

\* Mutant: a failure is written nowhere.
NeverMarked(r, result) == UNCHANGED row

\* A failure is written to the row, if it is still there.
Marked(r, result) ==
  row' = IF result = "failed" /\ r \in rows THEN [row EXCEPT ![r].status = "crashed"] ELSE row

\* The request awaits download_server_jar or download_bedrock_server.
Download(r) ==
  /\ pc[r] = "install" /\ row[r].type # "steam"
  /\ \E arrived \in BOOLEAN, result \in Results :
       Fetched(r, arrived) /\ Unanswered(r, result) /\ Marked(r, result)
  /\ Goto(r, "ended")
  /\ UNCHANGED <<rows, dirs, procs, kind, target, crashes, saw, shared, tried, late>>

\* SteamCMD installs in the background, unless the row is gone.  Its success is
\* written as STOPPED where the row said otherwise when it was read.
Install(r) ==
  /\ pc[r] = "install" /\ row[r].type = "steam"
  /\ \E arrived \in BOOLEAN, result \in Results :
       /\ Fetched(r, arrived) /\ Unanswered(r, result)
       /\ \/ Marked(r, result)
          \/ result = "done" /\ r \in rows /\ row' = [row EXCEPT ![r].status = "stopped"]
  /\ Goto(r, "ended")
  /\ UNCHANGED <<rows, dirs, procs, kind, target, crashes, saw, shared, tried, late>>

\* update_steam_settings checks the ports of the server when its query port changes.
Edit(r) ==
  /\ Asked(r, "edit")
  /\ \E i \in rows, q \in 1 .. MaxPort :
       LET s == [row[i] EXCEPT !.query = q] IN
       /\ row[i].type = "steam" /\ q # row[i].query /\ NoConflict(s, {i})
       /\ row' = [row EXCEPT ![r] = [s EXCEPT !.by = "edit"]]
       /\ saw' = [saw EXCEPT ![r] = rows \ {i}]
       /\ target' = [target EXCEPT ![r] = i]
  /\ Goto(r, "commit")
  /\ UNCHANGED <<rows, diskVars, procs, crashes, lost, shared, tried, late>>

\* Whoever was compared with the row was compared with what it no longer is.
EditCommit(r) ==
  LET i == target[r] IN
  /\ pc[r] = "commit"
  /\ IF i \in rows
       THEN /\ row' = [row EXCEPT ![i].query = row[r].query, ![i].by = "edit", ![r] = NoRow]
            /\ saw' = [j \in Ids |-> IF j = i THEN saw[r] ELSE IF j = r THEN {} ELSE saw[j] \ {i}]
       ELSE row' = [row EXCEPT ![r] = NoRow] /\ saw' = [saw EXCEPT ![r] = {}]
  /\ Goto(r, "ended") /\ target' = [target EXCEPT ![r] = 0]
  /\ UNCHANGED <<rows, diskVars, procs, kind, crashes, lost, shared, tried, late>>

-----------------------------------------------------------------------------
(* Deletion, and the servers                                               *)

Delete(r) ==
  /\ Asked(r, "delete")
  /\ \E i \in rows :
       /\ target' = [target EXCEPT ![r] = i]
       /\ Goto(r, IF i \in procs THEN "stop" ELSE "erase")
  /\ UNCHANGED <<rows, row, diskVars, procs, crashes, histVars>>

\* Mutant: a running server is not stopped.
DeleteStopNone(r) ==
  /\ pc[r] = "stop"
  /\ Goto(r, "erase")
  /\ UNCHANGED <<rows, row, diskVars, procs, kind, target, crashes, histVars>>

DeleteStop(r) ==
  /\ pc[r] = "stop"
  /\ procs' = procs \ {target[r]} /\ late' = late \ {target[r]}
  /\ Goto(r, "erase")
  /\ UNCHANGED <<rows, row, diskVars, kind, target, crashes, saw, lost, shared, tried>>

\* The row goes with its mods, backups, tasks, metrics and grants; its directory stays.
Erase(r) ==
  /\ pc[r] = "erase"
  /\ rows' = rows \ {target[r]}
  /\ Goto(r, "ended") /\ target' = [target EXCEPT ![r] = 0]
  /\ UNCHANGED <<row, diskVars, procs, kind, crashes, histVars>>

Start(i) ==
  /\ i \in rows \ procs /\ row[i].dir \in files
  /\ procs' = procs \cup {i} /\ row' = [row EXCEPT ![i].status = "running"]
  /\ late' = IF \E r \in Reqs : kind[r] = "delete" /\ InFlight(r) /\ target[r] = i THEN late \cup {i} ELSE late
  /\ UNCHANGED <<rows, diskVars, reqVars, crashes, saw, lost, shared, tried>>

\* Without its executable a Java server is refused at once; of the others the row
\* says STARTING, and CRASHED where the launch itself raises.
StartFails(i) ==
  /\ i \in rows \ procs /\ row[i].dir \notin files /\ row[i].type # "java"
  /\ \E st \in {"starting", "crashed"} : row' = [row EXCEPT ![i].status = st]
  /\ tried' = tried \cup {i} /\ Cardinality(tried') <= MaxTries
  /\ UNCHANGED <<rows, diskVars, procs, reqVars, crashes, saw, lost, shared, late>>

\* The list of servers repairs the status of those that run and of those that
\* do not.
List ==
  /\ row' = [i \in Ids |->
       IF i \in rows \cap procs /\ row[i].status \notin {"running", "starting"} THEN [row[i] EXCEPT !.status = "running"]
       ELSE IF i \in rows \ procs /\ row[i].status \in {"running", "starting"} THEN [row[i] EXCEPT !.status = "stopped"]
       ELSE row[i]]
  /\ UNCHANGED <<rows, diskVars, procs, reqVars, crashes, histVars>>

Stop(i) ==
  /\ i \in procs
  /\ procs' = procs \ {i} /\ row' = [row EXCEPT ![i].status = "stopped"] /\ late' = late \ {i}
  /\ UNCHANGED <<rows, diskVars, reqVars, crashes, saw, lost, shared, tried>>

\* The manager dies and stops, when it is back, what it had left running.
Crash ==
  /\ crashes < MaxCrashes /\ crashes' = crashes + 1
  /\ procs' = {} /\ late' = {}
  /\ pc' = [r \in Reqs |-> IF InFlight(r) THEN "ended" ELSE pc[r]]
  /\ lost' = lost \cup {row[r].dir : r \in {q \in Reqs : InFlight(q) /\ kind[q] \notin {"edit", "delete"}}}
  /\ row' = [i \in Ids |-> IF i \in procs \/ row[i].status \in {"running", "starting"}
                            THEN [row[i] EXCEPT !.status = "stopped"] ELSE row[i]]
  /\ UNCHANGED <<rows, diskVars, kind, target, saw, shared, tried>>

Request(r) ==
  \/ Create(r) \/ Import(r) \/ Upload(r) \/ Extract(r) \/ Clone(r) \/ Copy(r) \/ Config(r)
  \/ Insert(r) \/ Download(r) \/ Install(r) \/ Edit(r) \/ EditCommit(r)
  \/ Delete(r) \/ DeleteStop(r) \/ Erase(r)

Next ==
  \/ \E r \in Reqs : Request(r)
  \/ \E i \in Ids : Start(i) \/ StartFails(i) \/ Stop(i)
  \/ List \/ Crash

Spec == Init /\ [][Next]_vars

-----------------------------------------------------------------------------
(* Properties                                                              *)

Columns == [name : Names \cup {"none"}, padded : BOOLEAN, type : AllTypes, game : Ports, rcon : Ports,
            query : Ports, dir : Ids, by : AllKinds \cup {"nobody"}, status : {"stopped", "starting", "running", "crashed"}]

\* Every variable has its type; a port may be the one beyond the range.
TypeOK ==
  /\ rows \subseteq Ids /\ row \in [Ids -> Columns] /\ dirs \subseteq Ids /\ files \subseteq dirs
  /\ procs \subseteq Ids /\ kind \in [Reqs -> AllKinds \cup {"none"}] /\ target \in [Reqs -> Ids]
  /\ pc \in [Reqs -> {"idle", "extract", "copy", "insert", "install", "commit", "stop", "erase", "ended"}]
  /\ crashes \in 0 .. MaxCrashes /\ saw \in [Ids -> SUBSET Ids]
  /\ lost \subseteq Ids /\ shared \subseteq Ids /\ tried \subseteq Ids /\ late \subseteq Ids

\* A server has no port of another that its creation, clone or edit was
\* compared with, no name and no directory of another that its insertion was
\* compared with, whatever was inserted, edited or deleted since.  Two servers
\* share one only when a request did not compare it (an import or an upload
\* the ports, a configuration anything, an edit the name or the directory, a
\* padded name), when neither saw the other, or when the ports are exhausted.
SeenIsNotRepeated ==
  \A a \in rows : \A b \in rows \cap saw[a] :
    /\ row[a].by \in {"create", "clone", "edit"} => PortsOf(row[a]) \cap PortsOf(row[b]) \subseteq {MaxPort + 1}
    /\ row[a].by \in {"create", "import", "upload", "clone"} /\ ~row[a].padded => row[a].name # row[b].name
    /\ row[a].by # "edit" => row[a].dir # row[b].dir

\* A server has its directory: failed uploads and copies leave no row behind.
\* Only one that was imported while its maker was at work may lose it.
RowsHaveDirectories == \A i \in rows : row[i].dir \in dirs \cup shared

\* A running server has a row, unless it was started after a deletion of it had
\* looked at the process table: whatever other deletions of the same server,
\* stops and crashes come between.
ProcessesHaveRows == procs \subseteq rows \cup late

\* A server without its executable is shown as crashed once its creation has
\* ended, whatever lists, stops, edits and other requests come between: unless its
\* installation reported no failure, or somebody has tried to start it since, whose
\* STARTING the list turns to STOPPED.
FailedCreationIsMarked ==
  \A i \in rows \ tried :
    row[i].dir \notin files \cup lost /\ (i \in Reqs => ~InFlight(i)) => row[i].status = "crashed"

=============================================================================
