------------------------------ MODULE Backups ------------------------------
(***************************************************************************)
(* The backups of ONE game server (src/gsm/app/services/backup_manager.py  *)
(* and world_manager.reset_world): archives in a directory, rows in a      *)
(* table, and the manifest that tells an incremental backup which files to *)
(* skip.  Requests overlap: a step is the code between two awaits, or a    *)
(* step of a worker thread (asyncio.to_thread), which runs in parallel     *)
(* with everything else and handles the game files one by one.             *)
(*                                                                         *)
(* A request is a number.  The row and the archive that it makes carry its *)
(* number; a directory entry maps a file name to an archive, so an archive *)
(* that a thread holds open outlives its entry.                            *)
(***************************************************************************)
EXTENDS Integers, FiniteSets

CONSTANTS
  Files,        \* the files of the game server that no pattern excludes
  ConfigFiles,  \* those with a suffix of CONFIG_EXTENSIONS
  WorldFiles,   \* those of the world that a reset deletes
  MaxBackups,   \* server.max_backups or settings.max_backups_per_server
  NumOps,       \* bound: requests in a behaviour
  MaxWrites,    \* bound: changes of game files by players and users
  MaxSeconds,   \* bound: seconds of the clock that names archives
  MaxReboots,   \* bound: crashes of the manager
  Kinds         \* Kinds[o]: the kinds of request that the o-th may be

\* full, config, incremental: the backup types; reset: reset_world, which makes
\* a full backup first.
Backing  == {"full", "config", "incremental", "reset"}
AllKinds == Backing \cup {"restore", "delete"}

ASSUME BoundAssumption ==
  /\ NumOps \in Nat \ {0} /\ MaxBackups \in Nat
  /\ MaxWrites \in Nat \ {0} /\ MaxSeconds \in Nat /\ MaxReboots \in Nat

ASSUME FileAssumption == Files # {} /\ ConfigFiles \subseteq Files /\ WorldFiles \subseteq Files

Ops == 1 .. NumOps
ASSUME KindAssumption == Kinds \in [Ops -> SUBSET AllKinds]

\* A content of a file is the number of the write that made it, 1 when the server
\* was installed; 0: no such file.
None     == 0
Contents == 0 .. MaxWrites
Nothing  == [f \in Files |-> None]

\* Mutant: the backup before a reset gets a suffix of its own.
SuffixOfReset(k) == IF k = "full" THEN "" ELSE k

\* file_name: the second and the suffix; a full backup has no suffix.
Suffix(k) == IF k \in {"full", "reset"} THEN "" ELSE k
Names        == (0 .. MaxSeconds) \X {"", "config", "incremental"}
Unnamed      == <<0, "unnamed">>

\* What a request waits for.
Awaits == {"idle", "load", "manifest", "hash", "open", "copy", "save", "zipped", "commit",
           "trim", "trimming", "expire", "expiring", "raised",
           "check", "unzip", "extract", "deleting", "ended", "lost"}

VARIABLES
  running,   \* server_manager.is_running(server_id)
  disk,      \* disk[f]: the content of a game file
  writes,    \* contents written so far
  now,       \* the second of datetime.now
  entry,     \* entry[n]: the archive that the directory holds under name n
  archive,   \* archive[o]: its files, who writes it, and whether it is broken
  rows,      \* the rows of the server, committed and not deleted
  born,      \* born[o]: position of row o in the order of created_at; 0: not inserted
  manifest,  \* the content that .manifest_<id>.json remembers of each file
  pc,        \* pc[o]: what request o awaits
  kind,      \* kind[o]: what request o is
  name,      \* name[o]: the name of its archive
  left,      \* left[o]: the game files its thread has still to handle
  seen,      \* seen[o]: the hashes that an incremental backup has taken
  old,       \* old[o]: the manifest that it read
  copy,      \* copy[o]: what its thread has put into the archive
  doomed,    \* doomed[o]: the rows whose archives it has removed
  source,    \* source[o]: the row that a restore reads; then the archive
  reboots    \* crashes so far

dirVars  == <<entry, archive>>
rowVars  == <<rows, born>>
taskVars == <<kind, name, seen, old, source>>
vars     == <<running, disk, writes, now, dirVars, rowVars, manifest, pc, left, copy,
              doomed, taskVars, reboots>>

Init ==
  /\ running \in BOOLEAN
  /\ disk = [f \in Files |-> 1] /\ writes = 1 /\ now = 0
  /\ entry = [n \in Names |-> None]
  /\ archive = [o \in Ops |-> [files |-> Nothing, open |-> {}, broken |-> FALSE]]
  /\ rows = {} /\ born = [o \in Ops |-> 0]
  /\ manifest = Nothing
  /\ pc = [o \in Ops |-> "idle"] /\ kind = [o \in Ops |-> "none"]
  /\ name = [o \in Ops |-> Unnamed]
  /\ left = [o \in Ops |-> {}] /\ seen = [o \in Ops |-> Nothing]
  /\ old = [o \in Ops |-> Nothing] /\ copy = [o \in Ops |-> Nothing]
  /\ doomed = [o \in Ops |-> {}] /\ source = [o \in Ops |-> None]
  /\ reboots = 0

Goto(o, next) == pc' = [pc EXCEPT ![o] = next]

-----------------------------------------------------------------------------
(* Players, users and the clock                                            *)

\* Every write makes a content that the file never had.
Write(f) ==
  /\ writes < MaxWrites
  /\ writes' = writes + 1
  /\ disk' = [disk EXCEPT ![f] = writes + 1]
  /\ UNCHANGED <<running, now, dirVars, rowVars, manifest, pc, left, copy, doomed, taskVars, reboots>>

Tick ==
  /\ now < MaxSeconds
  /\ now' = now + 1
  /\ UNCHANGED <<running, disk, writes, dirVars, rowVars, manifest, pc, left, copy, doomed, taskVars, reboots>>

\* The lifecycle of the server takes no notice of its backups.
ServerTurns ==
  /\ running' = ~running
  /\ UNCHANGED <<disk, writes, now, dirVars, rowVars, manifest, pc, left, copy, doomed, taskVars, reboots>>

-----------------------------------------------------------------------------
(* Making a backup                                                         *)

Asked(o, k) ==
  /\ pc[o] = "idle" /\ k \in Kinds[o]
  /\ \A p \in 1 .. (o - 1) : pc[p] # "idle"
  /\ kind' = [kind EXCEPT ![o] = k]

\* create_backup and reset_world look at the process table in the same turn.
AskBackup(o) ==
  /\ \E k \in Backing : Asked(o, k)
  /\ ~running
  /\ Goto(o, "load")
  /\ UNCHANGED <<running, disk, writes, now, dirVars, rowVars, manifest, left, copy, doomed,
                 name, seen, old, source, reboots>>

\* The row of the server is read; the clock names the archive; a thread starts.
Load(o) ==
  /\ pc[o] = "load"
  /\ name' = [name EXCEPT ![o] = <<now, Suffix(kind[o])>>]
  /\ Goto(o, IF kind[o] = "incremental" THEN "manifest" ELSE "open")
  /\ left' = [left EXCEPT ![o] = IF kind[o] = "config" THEN ConfigFiles ELSE Files]
  /\ UNCHANGED <<running, disk, writes, now, dirVars, rowVars, manifest, copy, doomed,
                 kind, seen, old, source, reboots>>

ReadManifest(o) ==
  /\ pc[o] = "manifest"
  /\ old' = [old EXCEPT ![o] = manifest]
  /\ Goto(o, "hash")
  /\ UNCHANGED <<running, disk, writes, now, dirVars, rowVars, manifest, left, copy, doomed,
                 kind, name, seen, source, reboots>>

\* os.walk visits the files in an order of its own.
Walked(o) == CHOOSE f \in left[o] : TRUE

\* Mutant: the new manifest is saved before the archive is written.
HashSaves(o) ==
  LET f == Walked(o) IN
  /\ pc[o] = "hash"
  /\ \E h \in {disk[f], None} : seen' = [seen EXCEPT ![o][f] = h]
  /\ IF left[o] = {f}
       THEN /\ left' = [left EXCEPT ![o] = {g \in Files : seen'[o][g] \notin {None, old[o][g]}}]
            /\ manifest' = seen'[o]
            /\ Goto(o, "open")
       ELSE left' = [left EXCEPT ![o] = @ \ {f}] /\ UNCHANGED <<pc, manifest>>
  /\ UNCHANGED <<running, disk, writes, now, dirVars, rowVars, copy, doomed,
                 kind, name, old, source, reboots>>

\* A file that cannot be read is left out of the new manifest.  After the last
\* file, left is changed_files.
Hash(o) ==
  LET f == Walked(o) IN
  /\ pc[o] = "hash"
  /\ \E h \in {disk[f], None} : seen' = [seen EXCEPT ![o][f] = h]
  /\ IF left[o] = {f}
       THEN /\ left' = [left EXCEPT ![o] = {g \in Files : seen'[o][g] \notin {None, old[o][g]}}]
            /\ Goto(o, "open")
       ELSE left' = [left EXCEPT ![o] = @ \ {f}] /\ UNCHANGED pc
  /\ UNCHANGED <<running, disk, writes, now, dirVars, rowVars, manifest, copy, doomed,
                 kind, name, old, source, reboots>>

\* ZipFile(target, "w") truncates what the name holds, even what is being written.
Open(o) ==
  LET a == IF entry[name[o]] = None THEN o ELSE entry[name[o]] IN
  /\ pc[o] = "open"
  /\ entry' = [entry EXCEPT ![name[o]] = a]
  /\ archive' = [archive EXCEPT ![a] = [files |-> Nothing, open |-> @.open \cup {o},
                                       broken |-> @.open # {}]]
  /\ Goto(o, "copy")
  /\ UNCHANGED <<running, disk, writes, now, rowVars, manifest, left, copy, doomed, taskVars, reboots>>

\* A file that does not exist is not walked, or skipped.
Copy(o) ==
  /\ pc[o] = "copy" /\ left[o] # {}
  /\ copy' = [copy EXCEPT ![o][Walked(o)] = disk[Walked(o)]]
  /\ left' = [left EXCEPT ![o] = @ \ {Walked(o)}]
  /\ UNCHANGED <<running, disk, writes, now, dirVars, rowVars, manifest, pc, doomed, taskVars, reboots>>

\* What o wrote is in the archive, unless another thread writes it as well.
Closed(o) ==
  archive' = [a \in Ops |->
    IF o \in archive[a].open
      THEN [archive[a] EXCEPT !.files = copy[o], !.open = @ \ {o}]
      ELSE archive[a]]

Close(o) ==
  /\ pc[o] = "copy" /\ left[o] = {}
  /\ Closed(o)
  /\ Goto(o, IF kind[o] = "incremental" THEN "save" ELSE "zipped")
  /\ UNCHANGED <<running, disk, writes, now, entry, rowVars, manifest, left, copy, doomed,
                 taskVars, reboots>>

\* An error of the disk or a file that vanishes ends the thread; the archive
\* stays as it is.
ThreadRaises(o) ==
  /\ pc[o] \in {"open", "copy"}
  /\ Closed(o)
  /\ Goto(o, "raised")
  /\ left' = [left EXCEPT ![o] = {}]
  /\ seen' = [seen EXCEPT ![o] = Nothing] /\ old' = [old EXCEPT ![o] = Nothing]
  /\ UNCHANGED <<running, disk, writes, now, entry, rowVars, manifest, copy, doomed,
                 kind, name, source, reboots>>

\* The new manifest replaces the old one, or cannot be written.
SaveManifest(o) ==
  /\ pc[o] = "save"
  /\ manifest' \in {seen[o], manifest}
  /\ seen' = [seen EXCEPT ![o] = Nothing] /\ old' = [old EXCEPT ![o] = Nothing]
  /\ Goto(o, "zipped")
  /\ UNCHANGED <<running, disk, writes, now, dirVars, rowVars, left, copy, doomed,
                 kind, name, source, reboots>>

\* getsize raises when the name is gone.
Measure(o) ==
  /\ pc[o] = "zipped"
  /\ Goto(o, IF entry[name[o]] = None THEN "raised" ELSE "commit")
  /\ UNCHANGED <<running, disk, writes, now, dirVars, rowVars, manifest, left, copy, doomed,
                 taskVars, reboots>>

Commit(o) ==
  /\ pc[o] = "commit"
  /\ rows' = rows \cup {o}
  /\ born' = [born EXCEPT ![o] = 1 + Cardinality({p \in Ops : born[p] # 0})]
  /\ Goto(o, "trim")
  /\ UNCHANGED <<running, disk, writes, now, dirVars, manifest, left, copy, doomed,
                 taskVars, reboots>>

-----------------------------------------------------------------------------
(* Removing archives and rows                                              *)

\* Mutant: the rows go, their archives stay.
RemoveNoArchives(o, gone) ==
  /\ doomed' = [doomed EXCEPT ![o] = gone]
  /\ UNCHANGED entry

\* os.remove of the archives of some rows, in one turn, before their rows go.
RemoveArchives(o, gone) ==
  /\ doomed' = [doomed EXCEPT ![o] = gone]
  /\ entry' = [n \in Names |-> IF \E r \in gone : name[r] = n THEN None ELSE entry[n]]

\* Mutant: one row too many is spared.
ExcessOffByOne == {r \in rows : Cardinality({p \in rows : born[p] > born[r]}) > MaxBackups}

\* backups[max_count:] of the rows, newest first.
Excess == {r \in rows : Cardinality({p \in rows : born[p] > born[r]}) >= MaxBackups}

\* Mutant: the deletion of the rows is committed before their archives are removed.
TrimRowsFirst(o) ==
  /\ pc[o] = "trim"
  /\ rows' = rows \ Excess
  /\ doomed' = [doomed EXCEPT ![o] = Excess]
  /\ Goto(o, IF Excess = {} THEN "expire" ELSE "trimming")
  /\ UNCHANGED <<running, disk, writes, now, dirVars, born, manifest, left, copy, taskVars, reboots>>

\* _enforce_max_backups
Trim(o) ==
  /\ pc[o] = "trim"
  /\ RemoveArchives(o, Excess)
  /\ Goto(o, IF Excess = {} THEN "expire" ELSE "trimming")
  /\ UNCHANGED <<running, disk, writes, now, archive, rowVars, manifest, left, copy, taskVars, reboots>>

\* Mutant: the deletion of the rows is not committed.
TrimmedUncommitted(o) ==
  /\ pc[o] = "trimming"
  /\ doomed' = [doomed EXCEPT ![o] = {}]
  /\ Goto(o, "expire")
  /\ UNCHANGED <<running, disk, writes, now, dirVars, rowVars, manifest, left, copy, taskVars, reboots>>

Trimmed(o) ==
  /\ pc[o] = "trimming"
  /\ rows' = rows \ doomed[o]
  /\ doomed' = [doomed EXCEPT ![o] = {}]
  /\ Goto(o, "expire")
  /\ UNCHANGED <<running, disk, writes, now, dirVars, born, manifest, left, copy, taskVars, reboots>>

\* create_backup is over; reset_world deletes the world in the same turn,
\* whether or not the backup succeeded.
Finish(o) ==
  /\ Goto(o, "ended")
  /\ disk' = [f \in Files |-> IF kind[o] = "reset" /\ f \in WorldFiles THEN None ELSE disk[f]]

\* _enforce_retention finds rows older than their retention_days; the row of this
\* backup is new, any other may have expired.
Expire(o) ==
  /\ pc[o] = "expire"
  /\ \E gone \in SUBSET (rows \ {o}) :
       /\ RemoveArchives(o, gone)
       /\ IF gone = {} THEN Finish(o) ELSE Goto(o, "expiring") /\ UNCHANGED disk
  /\ UNCHANGED <<running, writes, now, archive, rowVars, manifest, left, copy, taskVars, reboots>>

Expired(o) ==
  /\ pc[o] = "expiring"
  /\ rows' = rows \ doomed[o]
  /\ doomed' = [doomed EXCEPT ![o] = {}]
  /\ Finish(o)
  /\ UNCHANGED <<running, writes, now, dirVars, born, manifest, left, copy, taskVars, reboots>>

\* The exception reaches the route, or reset_world, which only logs it.
Raised(o) ==
  /\ pc[o] = "raised"
  /\ Finish(o)
  /\ UNCHANGED <<running, writes, now, dirVars, rowVars, manifest, left, copy, doomed, taskVars, reboots>>

\* delete_backup
AskDelete(o) ==
  /\ Asked(o, "delete")
  /\ \E r \in rows : RemoveArchives(o, {r})
  /\ Goto(o, "deleting")
  /\ UNCHANGED <<running, disk, writes, now, archive, rowVars, manifest, left, copy,
                 name, seen, old, source, reboots>>

Deleted(o) ==
  /\ pc[o] = "deleting"
  /\ rows' = rows \ doomed[o]
  /\ doomed' = [doomed EXCEPT ![o] = {}]
  /\ Goto(o, "ended")
  /\ UNCHANGED <<running, disk, writes, now, dirVars, born, manifest, left, copy, taskVars, reboots>>

-----------------------------------------------------------------------------
(* Restoring a backup                                                      *)

\* The row is read first and used until the end, even when it is deleted.
AskRestore(o) ==
  /\ Asked(o, "restore")
  /\ \E r \in rows : source' = [source EXCEPT ![o] = r]
  /\ Goto(o, "check")
  /\ UNCHANGED <<running, disk, writes, now, dirVars, rowVars, manifest, left, copy, doomed,
                 name, seen, old, reboots>>

RestoreEnds(o) ==
  /\ Goto(o, "ended")
  /\ left' = [left EXCEPT ![o] = {}] /\ source' = [source EXCEPT ![o] = None]

Check(o) ==
  /\ pc[o] = "check"
  /\ IF running \/ entry[name[source[o]]] = None
       THEN RestoreEnds(o)
       ELSE Goto(o, "unzip") /\ UNCHANGED <<left, source>>
  /\ UNCHANGED <<running, disk, writes, now, dirVars, rowVars, manifest, copy, doomed,
                 kind, name, seen, old, reboots>>

\* A broken archive, or one that is being written, has no list of its files.
Unzip(o) ==
  LET a == entry[name[source[o]]] IN
  /\ pc[o] = "unzip"
  /\ IF a = None \/ (a # None /\ (archive[a].broken \/ archive[a].open # {}))
       THEN RestoreEnds(o)
       ELSE /\ Goto(o, "extract")
            /\ source' = [source EXCEPT ![o] = a]
            /\ left' = [left EXCEPT ![o] = {f \in Files : archive[a].files[f] # None}]
  /\ UNCHANGED <<running, disk, writes, now, dirVars, rowVars, manifest, copy, doomed,
                 kind, name, seen, old, reboots>>

\* A thread that truncates the archive meanwhile ends the extraction.
Extract(o) ==
  LET a == archive[source[o]]
      f == Walked(o) IN
  /\ pc[o] = "extract" /\ left[o] # {}
  /\ IF a.broken \/ a.files[f] = None
       THEN RestoreEnds(o) /\ UNCHANGED disk
       ELSE /\ disk' = [disk EXCEPT ![f] = a.files[f]]
            /\ left' = [left EXCEPT ![o] = @ \ {f}]
            /\ UNCHANGED <<pc, source>>
  /\ UNCHANGED <<running, writes, now, dirVars, rowVars, manifest, copy, doomed,
                 kind, name, seen, old, reboots>>

Extracted(o) ==
  /\ pc[o] = "extract" /\ left[o] = {}
  /\ RestoreEnds(o)
  /\ UNCHANGED <<running, disk, writes, now, dirVars, rowVars, manifest, copy, doomed,
                 kind, name, seen, old, reboots>>

-----------------------------------------------------------------------------
\* The manager dies: requests are lost, archives that were being written have no
\* list of their files, so what was put into them is lost too, a manifest that was
\* being written may be cut off, which the next reader takes for no manifest.
Reboot ==
  /\ reboots < MaxReboots
  /\ reboots' = reboots + 1
  /\ pc' = [o \in Ops |-> IF pc[o] \in {"idle", "ended"} THEN pc[o] ELSE "lost"]
  /\ archive' = [a \in Ops |-> [archive[a] EXCEPT !.open = {}, !.broken = @ \/ archive[a].open # {}]]
  /\ manifest' \in {manifest} \cup (IF \E o \in Ops : pc[o] = "save" THEN {Nothing} ELSE {})
  /\ running' \in {running, FALSE}
  /\ left' = [o \in Ops |-> {}] /\ source' = [o \in Ops |-> None]
  /\ seen' = [o \in Ops |-> Nothing] /\ old' = [o \in Ops |-> Nothing]
  /\ copy' = [o \in Ops |-> IF pc[o] = "copy" THEN Nothing ELSE copy[o]]
  /\ UNCHANGED <<disk, writes, now, entry, rowVars, doomed, kind, name>>

Request(o) == AskBackup(o) \/ AskDelete(o) \/ AskRestore(o)

TaskStep(o) ==
  \/ Load(o) \/ ReadManifest(o) \/ Hash(o)
  \/ Open(o) \/ Copy(o) \/ Close(o) \/ ThreadRaises(o) \/ SaveManifest(o)
  \/ Measure(o) \/ Commit(o) \/ Trim(o) \/ Trimmed(o)
  \/ Expire(o) \/ Expired(o) \/ Raised(o) \/ Deleted(o)
  \/ Check(o) \/ Unzip(o) \/ Extract(o) \/ Extracted(o)

Next ==
  \/ \E o \in Ops : Request(o) \/ TaskStep(o)
  \/ \E f \in Files : Write(f)
  \/ Tick \/ ServerTurns \/ Reboot

Spec == Init /\ [][Next]_vars

-----------------------------------------------------------------------------
(* Properties                                                              *)

\* Every variable has its type.
TypeOK ==
  /\ running \in BOOLEAN
  /\ disk \in [Files -> Contents] /\ writes \in 0 .. MaxWrites /\ now \in 0 .. MaxSeconds
  /\ entry \in [Names -> 0 .. NumOps]
  /\ archive \in [Ops -> [files : [Files -> Contents], open : SUBSET Ops, broken : BOOLEAN]]
  /\ rows \subseteq Ops /\ born \in [Ops -> Nat]
  /\ manifest \in [Files -> Contents]
  /\ pc \in [Ops -> Awaits] /\ kind \in [Ops -> AllKinds \cup {"none"}]
  /\ name \in [Ops -> Names \cup {Unnamed}]
  /\ left \in [Ops -> SUBSET Files] /\ doomed \in [Ops -> SUBSET Ops]
  /\ seen \in [Ops -> [Files -> Contents]] /\ old \in [Ops -> [Files -> Contents]]
  /\ copy \in [Ops -> [Files -> Contents]]
  /\ source \in [Ops -> 0 .. NumOps] /\ reboots \in 0 .. MaxReboots

BeingRemoved(r) == \E o \in Ops : r \in doomed[o]
Twin(r)         == \E o \in Ops \ {r} : name[o] = name[r]
Intact(r)       == LET a == archive[r] IN ~a.broken /\ a.open = {} /\ a.files = copy[r]

\* Every row has its own, complete archive under its name, unless a request that
\* removes the row is between the two removals, or died there, or another backup
\* of the same type was named in the same second.  Trimming, retention, deletion,
\* failed backups and crashes never take the archive of a row that stays.
RowsHaveArchives ==
  \A r \in rows : (entry[name[r]] = r /\ Intact(r)) \/ BeingRemoved(r) \/ Twin(r)

\* Every archive in the directory belongs to a row, or to a backup that has not
\* inserted its row yet, failed, or was lost in a crash before it did: no row is
\* removed without the archive of its name.
ArchivesHaveOwners ==
  \A n \in Names : entry[n] # None =>
    \E o \in Ops : name[o] = n /\ (o \in rows \/ born[o] = 0)

\* However backups overlap, there are never more rows than the maximum and those
\* of the backups that have not trimmed yet.
RowsBounded ==
  Cardinality(rows) <= MaxBackups +
    Cardinality({o \in Ops : born[o] # 0 /\ pc[o] \in {"trim", "trimming", "lost"}})

\* A file that the next incremental backup skips has been put into an archive
\* with its present content, by a backup whose archive was closed, also after
\* overlapping backups, unreadable files, failures and crashes.
SkippedIsArchived ==
  \A f \in Files : disk[f] # None /\ manifest[f] = disk[f] =>
    \E o \in Ops : copy[o][f] = disk[f] /\ \A a \in Ops : o \notin archive[a].open

-----------------------------------------------------------------------------
(* The store of archives that Backups implements                           *)

\* Backups whose name is not their own.
Shared == {o \in Ops : name[o] # Unnamed /\ Twin(o)}

\* The archive of a backup that is about to be listed, or was listed.
Whole ==
  {o \in Ops : /\ born[o] # 0 \/ pc[o] \in {"save", "zipped", "commit"}
               /\ ~Twin(o) /\ entry[name[o]] = o /\ Intact(o)}

Store == INSTANCE ArchiveStore
           WITH whole <- Whole, listed <- rows, past <- {o \in Ops : born[o] # 0},
                removing <- {r \in rows : BeingRemoved(r)}, shared <- Shared
StoreSpec == Store!Spec

=============================================================================
