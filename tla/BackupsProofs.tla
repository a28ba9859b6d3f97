--------------------------- MODULE BackupsProofs ---------------------------
(***************************************************************************)
(* Archives, rows, retention and the manifest of incremental backups, for  *)
(* any files, any number of overlapping requests of any kinds, any maximum *)
(* of backups, any writes, seconds and deaths of the manager.              *)
(***************************************************************************)
EXTENDS Backups, FiniteSetTheorems, WellFoundedInduction, TLAPS

Step(o) == Request(o) \/ TaskStep(o)

-----------------------------------------------------------------------------
(* The inductive invariant                                                 *)

\* What a backup that has not opened its archive awaits.
Fresh(o) == pc[o] \in {"idle", "load", "manifest", "hash", "open"}

Making    == {"manifest", "hash", "open", "copy", "save", "zipped", "commit"}
Enforcing == {"trim", "trimming", "expire", "expiring"}
Inserted  == {o \in Ops : born[o] # 0}

\* How far the requests are: a backup that is being made, or was inserted, has a
\* name; a restore has a row that has one; only those that remove rows doom them.
Advance(o) ==
  /\ pc[o] \in Making \cup Enforcing \/ born[o] # 0 => name[o] \in Names
  /\ pc[o] \in {"idle", "load"} \cup Making => born[o] = 0
  /\ pc[o] \in {"check", "unzip"} => source[o] \in Ops /\ name[source[o]] \in Names
  /\ pc[o] = "extract" => source[o] \in Ops
  /\ pc[o] \in {"manifest", "hash"} => left[o] # {}
  /\ pc[o] = "load" => kind[o] \in Backing
  /\ pc[o] \in {"idle", "load"} => name[o] = Unnamed
  /\ pc[o] \in {"trimming", "expiring", "deleting", "lost"} \/ doomed[o] = {}
  /\ doomed[o] \subseteq Inserted

Progress == rows \subseteq Inserted /\ \A o \in Ops : Advance(o)

\* Rows are born one after the other.
Births ==
  /\ \A o \in Ops : born[o] <= Cardinality(Inserted)
  /\ \A o, p \in Inserted : born[o] = born[p] => o = p

\* Only threads that copy have an archive open, that of their name.
Writers ==
  /\ \A a, o \in Ops : o \in archive[a].open => pc[o] = "copy" /\ name[o] = name[a]
  /\ \A o \in Ops : pc[o] = "copy" => \E a \in Ops : o \in archive[a].open
  /\ \A o \in Ops : Fresh(o) => /\ copy[o] = Nothing
                                /\ archive[o] = [files |-> Nothing, open |-> {}, broken |-> FALSE]

\* The archive in the directory was opened, and its row, once there, stays.
Belongs(a, n) ==
  name[a] = n /\ ~Fresh(a) /\ ~BeingRemoved(a) /\ (born[a] # 0 => a \in rows)

EntryFits(n) == entry[n] # None => Belongs(entry[n], n)

Entries == \A n \in Names : EntryFits(n)

\* What a backup whose name is its own has made: the archive of its row is
\* complete until a request dooms the row.
Made(r) ==
  /\ pc[r] = "copy" => entry[name[r]] = r /\ archive[r].open = {r} /\ ~archive[r].broken
  /\ pc[r] \in {"save", "zipped", "commit"} => entry[name[r]] = r /\ Intact(r)
  /\ r \in rows => (entry[name[r]] = r /\ Intact(r)) \/ BeingRemoved(r)

Kept == \A r \in Ops : Twin(r) \/ Made(r)

\* No content is newer than the last write.
Contained ==
  /\ \A f \in Files : disk[f] <= writes /\ manifest[f] <= writes
  /\ \A o \in Ops, f \in Files : /\ seen[o][f] <= writes /\ old[o][f] <= writes /\ copy[o][f] <= writes
                                 /\ archive[o].files[f] <= writes

\* A content that a backup has put into an archive that it has closed.
Saved(f, c) == \E o \in Ops : copy[o][f] = c /\ \A a \in Ops : o \notin archive[a].open

\* A content that is saved if the game file has it: contents come back only from
\* archives.
Safe(f, c) == c # None /\ c = disk[f] => Saved(f, c)

\* Manifests hold safe contents; a thread that makes one has yet to copy the rest.
SafeSeen(o, f) ==
  /\ pc[o] \in {"idle", "load"} => seen[o] = Nothing
  /\ pc[o] = "save" => Safe(f, seen[o][f])
  /\ pc[o] \in {"open", "copy"} /\ f \notin left[o] /\ copy[o][f] # seen[o][f] => Safe(f, seen[o][f])

SafeHeld(o, f) ==
  /\ Safe(f, old[o][f])
  /\ archive[o].files[f] # None => Saved(f, archive[o].files[f])

Archived ==
  /\ \A f \in Files : Safe(f, manifest[f])
  /\ \A o \in Ops, f \in Files : SafeSeen(o, f) /\ SafeHeld(o, f)

\* Backups that may not have trimmed, and those that are about to remove rows:
\* whatever of the latter is done, no row is too many.
Active   == {o \in Ops : born[o] # 0 /\ pc[o] \in {"trim", "trimming", "lost"}}
Trimming == {o \in Ops : pc[o] = "trimming"}

Spared(T) == rows \ UNION {doomed[t] : t \in T}

Bounded == \A T \in SUBSET Trimming : Cardinality(Spared(T)) <= MaxBackups + Cardinality(Active \ T)

-----------------------------------------------------------------------------
(* Types                                                                   *)

LEMMA Basics ==
  /\ Nothing \in [Files -> Contents] /\ None \in Contents /\ None \notin Ops /\ Ops \subseteq Nat
  /\ Ops \subseteq 0 .. NumOps /\ None \in 0 .. NumOps /\ Unnamed \notin Names /\ IsFiniteSet(Ops)
<1>1. IsFiniteSet(Ops)
  BY BoundAssumption, FS_Interval DEF Ops
<1>2. Unnamed \notin Names
  BY DEF Unnamed, Names
<1>3. QED
  BY <1>1, <1>2, BoundAssumption DEF Nothing, None, Contents, Ops

LEMMA TypesInit == Init => TypeOK
BY Basics, BoundAssumption DEF Init, TypeOK, Contents, Awaits, None, AllKinds

\* The next file that a thread handles is one of those it has left.
LEMMA WalkedLeft ==
  ASSUME NEW o, left[o] # {}
  PROVE  Walked(o) \in left[o]
BY DEF Walked

\* The clock and the type name an archive.
LEMMA NewName ==
  ASSUME TypeOK, NEW o \in Ops, kind[o] \in Backing
  PROVE  <<now, Suffix(kind[o])>> \in Names
BY DEF TypeOK, Names, Suffix, Backing

Archives == [files : [Files -> Contents], open : SUBSET Ops, broken : BOOLEAN]

LEMMA ClosedTyped ==
  ASSUME TypeOK, NEW o \in Ops, Closed(o)
  PROVE  archive' \in [Ops -> Archives]
<1>1. ASSUME NEW a \in Ops PROVE archive'[a] \in Archives
  <2>1. archive[a] \in Archives /\ copy[o] \in [Files -> Contents]
    BY DEF TypeOK, Archives
  <2>2. [archive[a] EXCEPT !.files = copy[o], !.open = @ \ {o}] \in Archives
    BY <2>1 DEF Archives
  <2>3. QED
    BY <2>1, <2>2 DEF Closed
<1>2. QED
  BY <1>1 DEF Closed

LEMMA BornTyped ==
  ASSUME TypeOK, NEW o \in Ops, Commit(o)
  PROVE  Cardinality(Inserted) \in Nat /\ born' = [born EXCEPT ![o] = 1 + Cardinality(Inserted)]
<1>1. IsFiniteSet(Inserted)
  BY Basics, FS_Subset DEF Inserted
<1>2. QED
  BY <1>1, FS_CardinalityType DEF Commit, Inserted

LEMMA RemovedTyped ==
  ASSUME TypeOK, NEW o \in Ops, NEW gone \in SUBSET Ops, RemoveArchives(o, gone)
  PROVE  doomed' \in [Ops -> SUBSET Ops] /\ entry' \in [Names -> 0 .. NumOps]
BY Basics DEF TypeOK, RemoveArchives

LEMMA TypesStep ==
  ASSUME TypeOK, Progress, NEW o \in Ops, Step(o)
  PROVE  TypeOK'
<1>0. Advance(o) /\ rows \subseteq Ops
  BY DEF Progress, TypeOK
<1> USE DEF TypeOK, Goto, dirVars, rowVars, taskVars, Awaits, Closed, RemoveArchives, Finish,
            RestoreEnds
<1>1. CASE AskBackup(o)
  BY <1>0, <1>1, Basics DEF AskBackup, Asked, AllKinds, Backing
<1>2. CASE AskDelete(o)
  BY <1>0, <1>2, Basics DEF AskDelete, Asked, AllKinds, Backing
<1>3. CASE AskRestore(o)
  BY <1>0, <1>3, Basics DEF AskRestore, Asked, AllKinds, Backing
<1>4. CASE Load(o)
  <2>1. <<now, Suffix(kind[o])>> \in Names
    BY <1>0, <1>4, NewName DEF Load, Advance
  <2>2. QED
    BY <1>0, <1>4, <2>1, Basics, FileAssumption DEF Load
<1>5. CASE ReadManifest(o)
  BY <1>0, <1>5, Basics DEF ReadManifest
<1>6. CASE Hash(o)
  <2>1. Walked(o) \in Files
    BY <1>0, <1>6, WalkedLeft DEF Hash, Advance
  <2>2. PICK h \in Contents : seen' = [seen EXCEPT ![o][Walked(o)] = h]
    BY <1>6, <2>1, Basics DEF Hash
  <2>3. seen' \in [Ops -> [Files -> Contents]]
    BY <2>1, <2>2
  <2>4. left' \in [Ops -> SUBSET Files] /\ pc' \in [Ops -> Awaits]
    <3>1. CASE left[o] = {Walked(o)}
      <4>1. PICK changed \in SUBSET Files : left' = [left EXCEPT ![o] = changed]
        BY <1>6, <3>1 DEF Hash
      <4>2. pc' = [pc EXCEPT ![o] = "open"]
        BY <1>6, <3>1 DEF Hash
      <4>3. QED
        BY <4>1, <4>2
    <3>2. CASE left[o] # {Walked(o)}
      <4>1. left' = [left EXCEPT ![o] = @ \ {Walked(o)}] /\ pc' = pc
        BY <1>6, <3>2 DEF Hash
      <4>2. QED
        BY <4>1
    <3>3. QED
      BY <3>1, <3>2
  <2>5. UNCHANGED <<running, disk, writes, now, entry, archive, rows, born, manifest, copy, doomed,
                    kind, name, old, source, reboots>>
    BY <1>6 DEF Hash
  <2>6. QED
    BY <2>3, <2>4, <2>5
<1>7. CASE Open(o)
  <2> DEFINE a == IF entry[name[o]] = None THEN o ELSE entry[name[o]]
  <2>1. /\ pc[o] = "open" /\ entry' = [entry EXCEPT ![name[o]] = a] /\ pc' = [pc EXCEPT ![o] = "copy"]
        /\ archive' = [archive EXCEPT ![a] = [files |-> Nothing, open |-> @.open \cup {o},
                                             broken |-> @.open # {}]]
    BY <1>7, Zenon DEF Open
  <2>2. a \in Ops /\ name[o] \in Names
    <3>1. name[o] \in Names
      BY <1>0, <2>1 DEF Advance, Making
    <3>2. entry[name[o]] \in Ops \cup {None}
      BY <3>1 DEF Ops, None
    <3>3. QED
      BY <3>1, <3>2
  <2> HIDE DEF a
  <2>3. entry' \in [Names -> 0 .. NumOps]
    BY <2>1, <2>2, Basics
  <2>4. archive' \in [Ops -> Archives]
    BY <2>1, <2>2, Basics DEF Archives
  <2>5. pc' \in [Ops -> Awaits]
    BY <2>1
  <2>6. UNCHANGED <<running, disk, writes, now, rows, born, manifest, left, copy, doomed,
                    kind, name, seen, old, source, reboots>>
    BY <1>7 DEF Open
  <2>7. QED
    BY <2>3, <2>4, <2>5, <2>6 DEF Archives
<1>8. CASE Copy(o)
  BY <1>0, <1>8, Basics DEF Copy
<1>9. CASE Close(o)
  <2>1. archive' \in [Ops -> Archives]
    BY <1>9, ClosedTyped DEF Close
  <2>2. QED
    BY <1>9, <2>1 DEF Close, Archives
<1>10. CASE ThreadRaises(o)
  <2>1. archive' \in [Ops -> Archives]
    BY <1>10, ClosedTyped DEF ThreadRaises
  <2>2. QED
    BY <1>10, <2>1, Basics DEF ThreadRaises, Archives
<1>11. CASE SaveManifest(o)
  BY <1>0, <1>11, Basics DEF SaveManifest
<1>12. CASE Measure(o)
  BY <1>0, <1>12, Basics DEF Measure
<1>13. CASE Commit(o)
  <2>1. Cardinality(Inserted) \in Nat /\ born' = [born EXCEPT ![o] = 1 + Cardinality(Inserted)]
    BY <1>13, BornTyped
  <2>2. born' \in [Ops -> Nat]
    BY <2>1
  <2>3. QED
    BY <1>13, <2>2 DEF Commit
<1>14. CASE Trim(o)
  <2>1. doomed' \in [Ops -> SUBSET Ops] /\ entry' \in [Names -> 0 .. NumOps]
    <3>1. Excess \subseteq Ops
      BY DEF Excess
    <3>2. QED
      BY <1>14, <3>1, RemovedTyped DEF Trim
  <2>2. QED
    BY <1>14, <2>1 DEF Trim
<1>15. CASE Trimmed(o)
  BY <1>0, <1>15, Basics DEF Trimmed
<1>16. CASE Expire(o)
  BY <1>0, <1>16, Basics DEF Expire
<1>17. CASE Expired(o)
  BY <1>0, <1>17, Basics DEF Expired
<1>18. CASE Raised(o)
  BY <1>0, <1>18, Basics DEF Raised
<1>19. CASE Deleted(o)
  BY <1>0, <1>19, Basics DEF Deleted
<1>20. CASE Check(o)
  BY <1>0, <1>20, Basics DEF Check
<1>21. CASE Unzip(o)
  <2>1. entry[name[source[o]]] \in 0 .. NumOps
    BY <1>0, <1>21 DEF Unzip, Advance
  <2>2. left' \in [Ops -> SUBSET Files] /\ pc' \in [Ops -> Awaits] /\ source' \in [Ops -> 0 .. NumOps]
    <3>1. pc' \in [Ops -> Awaits]
      <4>1. pc' = [pc EXCEPT ![o] = "ended"] \/ pc' = [pc EXCEPT ![o] = "extract"]
        BY <1>21, Zenon DEF Unzip
      <4>2. QED
        BY <4>1
    <3>2. left' \in [Ops -> SUBSET Files]
      <4>1. PICK left0 \in SUBSET Files : left' = [left EXCEPT ![o] = left0]
        <5>1. {f \in Files : archive[entry[name[source[o]]]].files[f] # None} \in SUBSET Files
          OBVIOUS
        <5>2. \/ left' = [left EXCEPT ![o] = {}]
              \/ left' = [left EXCEPT ![o] = {f \in Files : archive[entry[name[source[o]]]].files[f] # None}]
          BY <1>21, Zenon DEF Unzip
        <5>3. QED
          BY <5>1, <5>2
      <4>2. QED
        BY <4>1
    <3>3. source' \in [Ops -> 0 .. NumOps]
      <4>1. source' = [source EXCEPT ![o] = None] \/ source' = [source EXCEPT ![o] = entry[name[source[o]]]]
        BY <1>21, Zenon DEF Unzip
      <4>2. QED
        BY <2>1, <4>1, Basics
    <3>4. QED
      BY <3>1, <3>2, <3>3
  <2>3. UNCHANGED <<running, disk, writes, now, entry, archive, rows, born, manifest, copy, doomed,
                    kind, name, seen, old, reboots>>
    BY <1>21 DEF Unzip
  <2>4. QED
    BY <2>2, <2>3
<1>22. CASE Extract(o)
  <2>1. Walked(o) \in Files /\ source[o] \in Ops
    BY <1>0, <1>22, WalkedLeft DEF Extract, Advance
  <2>2. archive[source[o]].files[Walked(o)] \in Contents
    BY <2>1
  <2>3. disk' \in [Files -> Contents]
    BY <1>22, <2>1, <2>2 DEF Extract
  <2>4. left' \in [Ops -> SUBSET Files] /\ pc' \in [Ops -> Awaits] /\ source' \in [Ops -> 0 .. NumOps]
    BY <1>22, Basics DEF Extract
  <2>5. UNCHANGED <<running, writes, now, entry, archive, rows, born, manifest, copy, doomed,
                    kind, name, seen, old, reboots>>
    BY <1>22 DEF Extract
  <2>6. QED
    BY <2>3, <2>4, <2>5
<1>23. CASE Extracted(o)
  BY <1>0, <1>23, Basics DEF Extracted
<1>24. QED
  BY <1>1, <1>2, <1>3, <1>4, <1>5, <1>6, <1>7, <1>8, <1>9, <1>10, <1>11, <1>12, <1>13, <1>14, <1>15,
     <1>16, <1>17, <1>18, <1>19, <1>20, <1>21, <1>22, <1>23 DEF Step, Request, TaskStep

LEMMA TypesNext == TypeOK /\ Progress /\ [Next]_vars => TypeOK'
<1> SUFFICES ASSUME TypeOK, Progress, [Next]_vars PROVE TypeOK'
  OBVIOUS
<1>1. ASSUME NEW o \in Ops, Step(o) PROVE TypeOK'
  BY <1>1, TypesStep
<1>2. ASSUME NEW f \in Files, Write(f) PROVE TypeOK'
  BY <1>2, BoundAssumption DEF Write, TypeOK, Contents, dirVars, rowVars, taskVars
<1>3. CASE Tick
  BY <1>3, BoundAssumption DEF Tick, TypeOK, dirVars, rowVars, taskVars
<1>4. CASE ServerTurns
  BY <1>4 DEF ServerTurns, TypeOK, dirVars, rowVars, taskVars
<1>5. CASE Reboot
  <2>1. archive' \in [Ops -> Archives]
    <3>1. ASSUME NEW a \in Ops
          PROVE  [archive[a] EXCEPT !.open = {}, !.broken = @ \/ archive[a].open # {}] \in Archives
      <4> DEFINE b == archive[a].broken \/ archive[a].open # {}
      <4>1. b \in BOOLEAN /\ archive[a] \in Archives
        BY DEF TypeOK, Archives
      <4>2. [archive[a] EXCEPT !.open = {}, !.broken = @ \/ archive[a].open # {}]
            = [archive[a] EXCEPT !.open = {}, !.broken = b]
        BY <4>1 DEF Archives
      <4> HIDE DEF b
      <4>3. [archive[a] EXCEPT !.open = {}, !.broken = b] \in Archives
        BY <4>1 DEF Archives
      <4>4. QED
        BY <4>2, <4>3
    <3>2. QED
      BY <1>5, <3>1 DEF Reboot
  <2>2. manifest' \in [Files -> Contents] /\ pc' \in [Ops -> Awaits] /\ copy' \in [Ops -> [Files -> Contents]]
    BY <1>5, Basics DEF Reboot, TypeOK, Awaits
  <2>3. reboots' \in 0 .. MaxReboots
    <3>1. reboots' = reboots + 1 /\ reboots < MaxReboots
      BY <1>5 DEF Reboot
    <3>2. QED
      BY <3>1, BoundAssumption DEF TypeOK
  <2>4. running' \in BOOLEAN
    BY <1>5 DEF Reboot, TypeOK
  <2>5. QED
    BY <1>5, <2>1, <2>2, <2>3, <2>4, Basics DEF Reboot, TypeOK, Archives, rowVars
<1>6. CASE UNCHANGED vars
  BY <1>6 DEF vars, TypeOK, dirVars, rowVars, taskVars
<1>7. QED
  BY <1>1, <1>2, <1>3, <1>4, <1>5, <1>6 DEF Next, Step

-----------------------------------------------------------------------------
(* Progress                                                                *)

\* A step of request o leaves what the others have.
LEMMA StepFrame ==
  ASSUME TypeOK, NEW o \in Ops, Step(o), NEW q \in Ops \ {o}
  PROVE  /\ pc'[q] = pc[q] /\ kind'[q] = kind[q] /\ name'[q] = name[q] /\ left'[q] = left[q]
         /\ seen'[q] = seen[q] /\ old'[q] = old[q] /\ copy'[q] = copy[q] /\ doomed'[q] = doomed[q]
         /\ source'[q] = source[q] /\ born'[q] = born[q]
<1> USE DEF TypeOK, Goto, dirVars, rowVars, taskVars, RemoveArchives, Finish, RestoreEnds, Asked
<1>1. CASE AskBackup(o)
  BY <1>1 DEF AskBackup
<1>2. CASE AskDelete(o)
  BY <1>2 DEF AskDelete
<1>3. CASE AskRestore(o)
  BY <1>3 DEF AskRestore
<1>4. CASE Load(o)
  BY <1>4 DEF Load
<1>5. CASE ReadManifest(o)
  BY <1>5 DEF ReadManifest
<1>6. CASE Hash(o)
  BY <1>6 DEF Hash
<1>7. CASE Open(o)
  BY <1>7 DEF Open
<1>8. CASE Copy(o)
  BY <1>8 DEF Copy
<1>9. CASE Close(o)
  BY <1>9 DEF Close
<1>10. CASE ThreadRaises(o)
  BY <1>10 DEF ThreadRaises
<1>11. CASE SaveManifest(o)
  BY <1>11 DEF SaveManifest
<1>12. CASE Measure(o)
  BY <1>12 DEF Measure
<1>13. CASE Commit(o)
  BY <1>13 DEF Commit
<1>14. CASE Trim(o)
  BY <1>14 DEF Trim
<1>15. CASE Trimmed(o)
  BY <1>15 DEF Trimmed
<1>16. CASE Expire(o)
  BY <1>16 DEF Expire
<1>17. CASE Expired(o)
  BY <1>17 DEF Expired
<1>18. CASE Raised(o)
  BY <1>18 DEF Raised
<1>19. CASE Deleted(o)
  BY <1>19 DEF Deleted
<1>20. CASE Check(o)
  BY <1>20 DEF Check
<1>21. CASE Unzip(o)
  BY <1>21 DEF Unzip
<1>22. CASE Extract(o)
  BY <1>22 DEF Extract
<1>23. CASE Extracted(o)
  BY <1>23 DEF Extracted
<1>24. QED
  BY <1>1, <1>2, <1>3, <1>4, <1>5, <1>6, <1>7, <1>8, <1>9, <1>10, <1>11, <1>12,
     <1>13, <1>14, <1>15, <1>16, <1>17, <1>18, <1>19, <1>20, <1>21, <1>22, <1>23
     DEF Step, Request, TaskStep

\* The rows that a request removes are gone, those that it inserts are born.
LEMMA StepRows ==
  ASSUME TypeOK, Progress, NEW o \in Ops, Step(o)
  PROVE  rows' \subseteq Inserted' /\ Inserted \subseteq Inserted'
<1>1. CASE Commit(o)
  <2>1. Cardinality(Inserted) \in Nat /\ born' = [born EXCEPT ![o] = 1 + Cardinality(Inserted)]
    BY <1>1, BornTyped
  <2>2. born'[o] # 0 /\ \A q \in Ops \ {o} : born'[q] = born[q]
    BY <2>1 DEF TypeOK
  <2>3. rows' = rows \cup {o}
    BY <1>1 DEF Commit
  <2>4. QED
    BY <2>2, <2>3 DEF Progress, Inserted
<1>2. CASE ~Commit(o)
  <2>1. UNCHANGED born /\ rows' \subseteq rows
    BY <1>2 DEF Step, Request, TaskStep, rowVars, AskBackup, AskDelete, AskRestore, Load,
                ReadManifest, Hash, Open, Copy, Close, ThreadRaises, SaveManifest, Measure, Trim,
                Trimmed, Expire, Expired, Raised, Deleted, Check, Unzip, Extract, Extracted
  <2>2. QED
    BY <2>1 DEF Progress, Inserted
<1>3. QED
  BY <1>1, <1>2

LEMMA StepNames ==
  ASSUME TypeOK, Progress, NEW o \in Ops, Step(o), NEW q \in Ops, name[q] \in Names
  PROVE  name'[q] \in Names
<1>1. CASE Load(o)
  <2>1. <<now, Suffix(kind[o])>> \in Names
    BY <1>1, NewName DEF Load, Progress, Advance
  <2>2. QED
    BY <1>1, <2>1 DEF Load, TypeOK
<1>2. CASE ~Load(o)
  <2>1. UNCHANGED name
    BY <1>2 DEF Step, Request, TaskStep, taskVars, AskBackup, AskDelete, AskRestore, ReadManifest,
                Hash, Open, Copy, Close, ThreadRaises, SaveManifest, Measure, Commit, Trim, Trimmed,
                Expire, Expired, Raised, Deleted, Check, Unzip, Extract, Extracted
  <2>2. QED
    BY <2>1
<1>3. QED
  BY <1>1, <1>2

LEMMA AdvanceStep ==
  ASSUME TypeOK, Progress, NEW o \in Ops, Step(o)
  PROVE  Advance(o)'
<1>a. Inserted \subseteq Inserted' /\ rows \subseteq Inserted
  BY StepRows DEF Progress
<1>0. Advance(o) /\ rows \subseteq Ops /\ \A r \in rows : name[r] \in Names
  BY DEF Progress, TypeOK, Advance, Inserted
<1> USE DEF Goto, dirVars, rowVars, taskVars, RemoveArchives, Finish, RestoreEnds, Asked, Advance,
            Making, Enforcing
<1>1. CASE AskBackup(o)
  BY <1>0, <1>a, <1>1 DEF AskBackup, TypeOK
<1>2. CASE AskDelete(o)
  BY <1>0, <1>a, <1>2 DEF AskDelete, TypeOK
<1>3. CASE AskRestore(o)
  BY <1>0, <1>a, <1>3 DEF AskRestore, TypeOK
<1>4. CASE Load(o)
  <2>1. name'[o] \in Names
    <3>1. <<now, Suffix(kind[o])>> \in Names
      BY <1>0, <1>a, <1>4, NewName DEF Load
    <3>2. QED
      BY <1>4, <3>1 DEF Load, TypeOK
  <2>2. pc'[o] \in {"manifest", "open"} /\ (pc'[o] = "manifest" => left'[o] # {})
    BY <1>4, FileAssumption DEF Load, TypeOK
  <2>3. born'[o] = 0 /\ doomed'[o] = {} /\ pc'[o] # "load"
    BY <1>0, <1>a, <1>4 DEF Load, TypeOK
  <2>4. QED
    BY <2>1, <2>2, <2>3
<1>5. CASE ReadManifest(o)
  BY <1>0, <1>a, <1>5 DEF ReadManifest, TypeOK
<1>6. CASE Hash(o)
  BY <1>0, <1>a, <1>6 DEF Hash, TypeOK
<1>7. CASE Open(o)
  BY <1>0, <1>a, <1>7 DEF Open, TypeOK
<1>8. CASE Copy(o)
  BY <1>0, <1>a, <1>8 DEF Copy, TypeOK
<1>9. CASE Close(o)
  BY <1>0, <1>a, <1>9 DEF Close, TypeOK
<1>10. CASE ThreadRaises(o)
  BY <1>0, <1>a, <1>10 DEF ThreadRaises, TypeOK
<1>11. CASE SaveManifest(o)
  BY <1>0, <1>a, <1>11 DEF SaveManifest, TypeOK
<1>12. CASE Measure(o)
  BY <1>0, <1>a, <1>12 DEF Measure, TypeOK
<1>13. CASE Commit(o)
  BY <1>0, <1>a, <1>13 DEF Commit, TypeOK
<1>14. CASE Trim(o)
  <2>1. Excess \subseteq rows
    BY DEF Excess
  <2>2. QED
    BY <1>0, <1>a, <1>14, <2>1 DEF Trim, TypeOK
<1>15. CASE Trimmed(o)
  BY <1>0, <1>a, <1>15 DEF Trimmed, TypeOK
<1>16. CASE Expire(o)
  BY <1>0, <1>a, <1>16 DEF Expire, TypeOK
<1>17. CASE Expired(o)
  BY <1>0, <1>a, <1>17 DEF Expired, TypeOK
<1>18. CASE Raised(o)
  BY <1>0, <1>a, <1>18 DEF Raised, TypeOK
<1>19. CASE Deleted(o)
  BY <1>0, <1>a, <1>19 DEF Deleted, TypeOK
<1>20. CASE Check(o)
  BY <1>0, <1>a, <1>20 DEF Check, TypeOK
<1>21. CASE Unzip(o)
  <2>1. entry[name[source[o]]] \in 0 .. NumOps
    BY <1>0, <1>a, <1>21 DEF Unzip, TypeOK
  <2>2. pc'[o] \in {"ended", "extract"} /\ (pc'[o] = "extract" => source'[o] \in Ops)
    <3> DEFINE a == entry[name[source[o]]]
    <3>1. \/ pc' = [pc EXCEPT ![o] = "ended"]
          \/ pc' = [pc EXCEPT ![o] = "extract"] /\ source' = [source EXCEPT ![o] = a] /\ a # None
      BY <1>21 DEF Unzip
    <3>2. a # None => a \in Ops
      BY <2>1 DEF Ops, None
    <3> HIDE DEF a
    <3>3. QED
      BY <3>1, <3>2 DEF TypeOK
  <2>3. born'[o] = born[o] /\ name'[o] = name[o] /\ doomed'[o] = doomed[o]
    BY <1>21 DEF Unzip
  <2>4. QED
    BY <1>0, <1>a, <1>21, <2>2, <2>3 DEF Unzip
<1>22. CASE Extract(o)
  BY <1>0, <1>a, <1>22 DEF Extract, TypeOK
<1>23. CASE Extracted(o)
  BY <1>0, <1>a, <1>23 DEF Extracted, TypeOK
<1>24. QED
  BY <1>1, <1>2, <1>3, <1>4, <1>5, <1>6, <1>7, <1>8, <1>9, <1>10, <1>11, <1>12,
     <1>13, <1>14, <1>15, <1>16, <1>17, <1>18, <1>19, <1>20, <1>21, <1>22, <1>23
     DEF Step, Request, TaskStep

LEMMA ProgressStep ==
  ASSUME TypeOK, Progress, NEW o \in Ops, Step(o)
  PROVE  Progress'
<1>1. rows' \subseteq Inserted' /\ Advance(o)'
  BY StepRows, AdvanceStep
<1>2. ASSUME NEW q \in Ops \ {o} PROVE Advance(q)'
  <2>1. /\ pc'[q] = pc[q] /\ kind'[q] = kind[q] /\ name'[q] = name[q] /\ left'[q] = left[q]
        /\ doomed'[q] = doomed[q] /\ source'[q] = source[q] /\ born'[q] = born[q]
    BY StepFrame
  <2>4. Inserted \subseteq Inserted'
    BY StepRows
  <2>2. source[q] \in Ops /\ name[source[q]] \in Names => name'[source[q]] \in Names
    BY StepNames
  <2>3. QED
    BY <2>1, <2>2, <2>4 DEF Progress, Advance
<1>3. QED
  BY <1>1, <1>2 DEF Progress

LEMMA ProgressInit == Init => Progress
BY DEF Init, Progress, Advance, Inserted, Making, Enforcing

LEMMA ProgressNext == TypeOK /\ Progress /\ [Next]_vars => Progress'
<1> SUFFICES ASSUME TypeOK, Progress, [Next]_vars PROVE Progress'
  OBVIOUS
<1>1. ASSUME NEW o \in Ops, Step(o) PROVE Progress'
  BY <1>1, ProgressStep
<1>2. CASE Reboot
  <2>1. /\ \A o \in Ops : pc'[o] = pc[o] \/ pc'[o] = "lost"
        /\ \A o \in Ops : pc[o] \in {"check", "unzip", "extract", "load", "manifest", "hash"} => pc'[o] = "lost"
        /\ UNCHANGED <<rows, born, doomed, kind, name>>
    BY <1>2 DEF Reboot, rowVars
  <2>2. QED
    BY <2>1 DEF Progress, Advance, Inserted, Making, Enforcing
<1>3. CASE (\E f \in Files : Write(f)) \/ Tick \/ ServerTurns \/ UNCHANGED vars
  <2>1. UNCHANGED <<rows, born, pc, doomed, left, source, kind, name>>
    BY <1>3 DEF Write, Tick, ServerTurns, vars, rowVars, taskVars
  <2>2. QED
    BY <2>1 DEF Progress, Advance, Inserted
<1>4. QED
  BY <1>1, <1>2, <1>3 DEF Next, Step

-----------------------------------------------------------------------------
\* Every variable has its type; this needs how far the requests are: a thread that
\* hashes has a file to hash, a backup with a row has a name.
THEOREM TypeCorrect == Spec => []TypeOK
BY TypesInit, TypesNext, ProgressInit, ProgressNext, PTL DEF Spec

-----------------------------------------------------------------------------
(* The number of rows                                                      *)

LEMMA Sizes ==
  ASSUME NEW S \in SUBSET Ops
  PROVE  IsFiniteSet(S) /\ Cardinality(S) \in Nat
BY Basics, FS_Subset, FS_CardinalityType

LEMMA SizesGrow ==
  ASSUME NEW S \in SUBSET Ops, NEW T \in SUBSET S
  PROVE  Cardinality(T) <= Cardinality(S)
BY Sizes, FS_Subset

LEMMA OneMore ==
  ASSUME NEW S \in SUBSET Ops, NEW o \in Ops \ S
  PROVE  Cardinality(S \cup {o}) = Cardinality(S) + 1
BY Sizes, FS_AddElement

LEMMA BirthsInit == Init => Births
<1> SUFFICES ASSUME Init PROVE Births
  OBVIOUS
<1>1. Inserted = {} /\ \A o \in Ops : born[o] = 0
  BY DEF Init, Inserted
<1>2. Cardinality(Inserted) \in Nat
  BY <1>1, Sizes
<1>3. QED
  BY <1>1, <1>2 DEF Births

LEMMA BirthsNext == TypeOK /\ Progress /\ Births /\ [Next]_vars => Births'
<1> SUFFICES ASSUME TypeOK, Progress, Births, [Next]_vars PROVE Births'
  OBVIOUS
<1>1. ASSUME NEW o \in Ops, Commit(o) PROVE Births'
  <2>1. Cardinality(Inserted) \in Nat /\ born' = [born EXCEPT ![o] = 1 + Cardinality(Inserted)]
    BY <1>1, BornTyped
  <2>2. o \notin Inserted
    BY <1>1 DEF Commit, Progress, Advance, Making, Inserted
  <2>3. /\ born'[o] = 1 + Cardinality(Inserted) /\ \A q \in Ops \ {o} : born'[q] = born[q]
        /\ \A q \in Ops : born[q] \in Nat
    BY <2>1 DEF TypeOK
  <2>4. Inserted' = Inserted \cup {o}
    <3>1. born'[o] # 0
      BY <2>1, <2>3
    <3>2. QED
      BY <2>3, <3>1 DEF Inserted
  <2>5. Cardinality(Inserted') = Cardinality(Inserted) + 1
    BY <2>2, <2>4, OneMore DEF Inserted
  <2>6. \A q \in Ops : born'[q] <= Cardinality(Inserted')
    BY <2>1, <2>3, <2>5 DEF Births
  <2>7. ASSUME NEW q \in Inserted', NEW p \in Inserted', born'[q] = born'[p] PROVE q = p
    <3>1. \A x \in Inserted : x # o /\ born'[x] < born'[o]
      BY <2>1, <2>2, <2>3 DEF Births, Inserted
    <3>2. CASE q \in Inserted /\ p \in Inserted
      BY <2>3, <2>7, <3>1, <3>2 DEF Births, Inserted
    <3>3. CASE q = o \/ p = o
      <4>1. \A x \in Inserted : born'[x] # born'[o]
        BY <2>1, <2>3, <3>1 DEF Inserted
      <4>2. QED
        BY <2>4, <2>7, <3>3, <4>1
    <3>4. QED
      BY <2>4, <3>2, <3>3
  <2>8. QED
    BY <2>6, <2>7 DEF Births
<1>2. CASE ~\E o \in Ops : Commit(o)
  <2>1. UNCHANGED born
    <3>1. ASSUME NEW o \in Ops, Request(o) PROVE UNCHANGED born
      BY <3>1 DEF Request, rowVars, AskBackup, AskDelete, AskRestore
    <3>2. ASSUME NEW o \in Ops, TaskStep(o), ~Commit(o) PROVE UNCHANGED born
      BY <3>2 DEF TaskStep, rowVars, Load, ReadManifest, Hash, Open, Copy, Close, ThreadRaises,
                  SaveManifest, Measure, Trim, Trimmed, Expire, Expired, Raised, Deleted, Check, Unzip,
                  Extract, Extracted
    <3>3. CASE (\E f \in Files : Write(f)) \/ Tick \/ ServerTurns \/ Reboot \/ UNCHANGED vars
      BY <3>3 DEF Write, Tick, ServerTurns, Reboot, vars, rowVars
    <3>4. QED
      BY <1>2, <3>1, <3>2, <3>3 DEF Next
  <2>2. QED
    BY <2>1 DEF Births, Inserted
<1>3. QED
  BY <1>1, <1>2

\* A set of naturals has a least element: of some rows, one is the oldest.
LEMMA Oldest ==
  ASSUME TypeOK, NEW S \in SUBSET Ops, S # {}
  PROVE  \E m \in S : \A r \in S : born[m] <= born[r]
<1> DEFINE B == {born[r] : r \in S}
<1>1. B \subseteq Nat /\ B # {}
  BY DEF TypeOK
<1>2. PICK x \in B : \A y \in B : ~(<<y, x>> \in OpToRel(<, Nat))
  BY <1>1, WFMin, NatLessThanWellFounded
<1>3. \A y \in B : ~(y < x)
  BY <1>1, <1>2 DEF OpToRel
<1>4. PICK m \in S : x = born[m]
  OBVIOUS
<1>5. \A r \in S : born[m] <= born[r]
  <2>1. ASSUME NEW r \in S PROVE born[m] <= born[r]
    <3>1. born[r] \in B /\ born[r] \in Nat /\ born[m] \in Nat
      BY DEF TypeOK
    <3> HIDE DEF B
    <3>2. ~(born[r] < born[m])
      BY <1>3, <1>4, <3>1
    <3>3. QED
      BY <3>1, <3>2
  <2>2. QED
    BY <2>1
<1>6. QED
  BY <1>5

\* _enforce_max_backups spares no more rows than the maximum.
LEMMA ExcessSpares ==
  ASSUME TypeOK, Progress, Births
  PROVE  Cardinality(rows \ Excess) <= MaxBackups
<1> DEFINE S == rows \ Excess
           Newer(r) == {p \in rows : born[p] > born[r]}
<1>0. rows \in SUBSET Ops /\ rows \subseteq Inserted /\ MaxBackups \in Nat
  BY BoundAssumption DEF TypeOK, Progress
<1>1. CASE S = {}
  BY <1>0, <1>1, FS_EmptySet
<1>2. CASE S # {}
  <2>1. PICK m \in S : \A r \in S : born[m] <= born[r]
    BY <1>0, <1>2, Oldest
  <2>2. Newer(m) \in SUBSET Ops /\ Cardinality(Newer(m)) < MaxBackups
    <3>1. Newer(m) \in SUBSET Ops
      BY <1>0
    <3>2. ~(Cardinality(Newer(m)) >= MaxBackups)
      BY <2>1 DEF Excess
    <3>3. QED
      BY <1>0, <3>1, <3>2, Sizes
  <2>3. S \ {m} \subseteq Newer(m)
    <3>1. ASSUME NEW r \in S, r # m PROVE born[r] > born[m]
      <4>1. r \in Inserted /\ m \in Inserted /\ born[r] \in Nat /\ born[m] \in Nat
        BY <1>0 DEF TypeOK
      <4>2. born[r] # born[m]
        BY <3>1, <4>1 DEF Births
      <4>3. QED
        BY <2>1, <3>1, <4>1, <4>2
    <3>2. QED
      BY <3>1
  <2>4. Cardinality(S \ {m}) <= Cardinality(Newer(m))
    BY <2>2, <2>3, SizesGrow
  <2>5. Cardinality(S) = Cardinality(S \ {m}) + 1
    <3>1. (S \ {m}) \cup {m} = S /\ S \ {m} \in SUBSET Ops /\ m \in Ops
      BY <1>0
    <3>2. QED
      BY <3>1, OneMore
  <2>6. Cardinality(S \ {m}) \in Nat /\ Cardinality(Newer(m)) \in Nat
    BY <1>0, <2>2, Sizes
  <2>7. QED
    BY <1>0, <2>2, <2>4, <2>5, <2>6
<1>3. QED
  BY <1>1, <1>2

LEMMA BoundedInit == Init => Bounded
<1> SUFFICES ASSUME Init, NEW T \in SUBSET Trimming
             PROVE  Cardinality(Spared(T)) <= MaxBackups + Cardinality(Active \ T)
  BY DEF Bounded
<1>1. Spared(T) = {} /\ Active \ T = {}
  BY DEF Init, Spared, Active
<1>2. QED
  BY <1>1, FS_EmptySet, BoundAssumption

\* Steps that neither commit nor trim.
LEMMA BoundedQuiet ==
  ASSUME TypeOK, Bounded, rows' \subseteq rows, Trimming' \subseteq Trimming,
         Active \subseteq Active',
         \A t \in Trimming' : doomed'[t] = doomed[t]
  PROVE  Bounded'
<1>1. ASSUME NEW T \in SUBSET Trimming'
      PROVE  Cardinality(rows' \ UNION {doomed'[t] : t \in T}) <= MaxBackups + Cardinality(Active' \ T)
  <2>1. rows' \ UNION {doomed'[t] : t \in T} \in SUBSET Spared(T)
    BY DEF Spared
  <2>2. Active \ T \in SUBSET (Active' \ T)
    OBVIOUS
  <2>3. Spared(T) \in SUBSET Ops /\ Active' \ T \in SUBSET Ops /\ MaxBackups \in Nat
    BY BoundAssumption DEF TypeOK, Spared, Active
  <2>4. Cardinality(Spared(T)) <= MaxBackups + Cardinality(Active \ T)
    BY DEF Bounded
  <2>5. Cardinality(rows' \ UNION {doomed'[t] : t \in T}) <= Cardinality(Spared(T))
        /\ Cardinality(Active \ T) <= Cardinality(Active' \ T)
    BY <2>1, <2>2, <2>3, SizesGrow
  <2>6. /\ Cardinality(Spared(T)) \in Nat /\ Cardinality(Active' \ T) \in Nat
        /\ Cardinality(Active \ T) \in Nat
        /\ Cardinality(rows' \ UNION {doomed'[t] : t \in T}) \in Nat
    BY <2>1, <2>2, <2>3, Sizes
  <2>7. QED
    BY <2>3, <2>4, <2>5, <2>6
<1>2. QED
  BY <1>1 DEF Bounded, Spared

\* A backup that is committed adds one row and one that has not trimmed.
LEMMA BoundedCommit ==
  ASSUME TypeOK, Progress, Bounded, NEW o \in Ops, Commit(o)
  PROVE  Bounded'
<1>1. rows' = rows \cup {o} /\ pc[o] = "commit" /\ pc' = [pc EXCEPT ![o] = "trim"] /\ doomed' = doomed
  BY DEF Commit, Goto
<1>2. Inserted' = Inserted \cup {o} /\ o \notin Inserted /\ \A q \in Ops \ {o} : born'[q] = born[q]
  <2>1. Cardinality(Inserted) \in Nat /\ born' = [born EXCEPT ![o] = 1 + Cardinality(Inserted)]
    BY BornTyped
  <2>2. born'[o] # 0 /\ \A q \in Ops \ {o} : born'[q] = born[q]
    BY <2>1 DEF TypeOK
  <2>3. QED
    BY <1>1, <2>2 DEF Inserted, Progress, Advance, Making
<1>3. pc'[o] = "trim" /\ \A q \in Ops \ {o} : pc'[q] = pc[q]
  BY <1>1 DEF TypeOK
<1>4. Trimming' = Trimming /\ Active' = Active \cup {o} /\ o \notin Active /\ o \notin Trimming
  BY <1>1, <1>2, <1>3 DEF Trimming, Active, Inserted
<1>5. ASSUME NEW T \in SUBSET Trimming
      PROVE  Cardinality(rows' \ UNION {doomed[t] : t \in T}) <= MaxBackups + Cardinality(Active' \ T)
  <2>1. rows' \ UNION {doomed[t] : t \in T} \in SUBSET (Spared(T) \cup {o})
    BY <1>1 DEF Spared
  <2>2. Spared(T) \in SUBSET Ops /\ Active \ T \in SUBSET Ops /\ MaxBackups \in Nat
    BY BoundAssumption DEF TypeOK, Spared, Active
  <2>3. o \notin Spared(T)
    BY <1>2 DEF Spared, Progress
  <2>4. Active' \ T = (Active \ T) \cup {o} /\ o \notin Active \ T
    BY <1>4
  <2>5. Cardinality(Active' \ T) = Cardinality(Active \ T) + 1
    BY <2>2, <2>4, OneMore
  <2>6. Cardinality(Spared(T) \cup {o}) = Cardinality(Spared(T)) + 1
    BY <2>2, <2>3, OneMore
  <2>7. Cardinality(rows' \ UNION {doomed[t] : t \in T}) <= Cardinality(Spared(T) \cup {o})
    BY <2>1, <2>2, SizesGrow
  <2>8. Cardinality(Spared(T)) <= MaxBackups + Cardinality(Active \ T)
    BY DEF Bounded
  <2>9. /\ Cardinality(Spared(T)) \in Nat /\ Cardinality(Active \ T) \in Nat
        /\ Cardinality(rows' \ UNION {doomed[t] : t \in T}) \in Nat
    BY <2>1, <2>2, Sizes
  <2>10. QED
    BY <2>2, <2>5, <2>6, <2>7, <2>8, <2>9
<1>6. QED
  BY <1>1, <1>4, <1>5 DEF Bounded, Spared

\* A backup that dooms the excess spares no more than the maximum.
LEMMA BoundedTrim ==
  ASSUME TypeOK, Progress, Births, Bounded, NEW o \in Ops, Trim(o)
  PROVE  Bounded'
<1>1. /\ pc[o] = "trim" /\ rows' = rows /\ born' = born /\ doomed' = [doomed EXCEPT ![o] = Excess]
      /\ pc' = [pc EXCEPT ![o] = IF Excess = {} THEN "expire" ELSE "trimming"]
  BY DEF Trim, RemoveArchives, Goto, rowVars
<1>2. /\ doomed'[o] = Excess /\ \A q \in Ops \ {o} : doomed'[q] = doomed[q] /\ pc'[q] = pc[q]
      /\ pc'[o] = IF Excess = {} THEN "expire" ELSE "trimming"
  BY <1>1 DEF TypeOK
<1>3. Cardinality(rows \ Excess) <= MaxBackups
  BY ExcessSpares
<1>4. ASSUME NEW T \in SUBSET Trimming'
      PROVE  Cardinality(rows \ UNION {doomed'[t] : t \in T}) <= MaxBackups + Cardinality(Active' \ T)
  <2>1. Active' \ T \in SUBSET Ops /\ rows \ Excess \in SUBSET Ops /\ MaxBackups \in Nat
    BY BoundAssumption DEF TypeOK, Active
  <2>2. CASE Excess = {} \/ o \in T
    <3>1. rows \ UNION {doomed'[t] : t \in T} \in SUBSET (rows \ Excess)
      BY <1>2, <2>2
    <3>2. Cardinality(rows \ UNION {doomed'[t] : t \in T}) <= Cardinality(rows \ Excess)
      BY <2>1, <3>1, SizesGrow
    <3>3. /\ Cardinality(Active' \ T) \in Nat /\ Cardinality(rows \ Excess) \in Nat
          /\ Cardinality(rows \ UNION {doomed'[t] : t \in T}) \in Nat
      BY <2>1, <3>1, Sizes
    <3>4. QED
      BY <1>3, <2>1, <3>2, <3>3
  <2>3. CASE Excess # {} /\ o \notin T
    <3>1. T \in SUBSET Trimming /\ Active' = Active
      BY <1>1, <1>2, <2>3 DEF Trimming, Active
    <3>2. rows \ UNION {doomed'[t] : t \in T} = Spared(T)
      BY <1>2, <2>3, <3>1 DEF Spared, Trimming
    <3>3. QED
      BY <3>1, <3>2 DEF Bounded
  <2>4. QED
    BY <2>2, <2>3
<1>5. QED
  BY <1>1, <1>4 DEF Bounded, Spared

LEMMA BoundedTrimmed ==
  ASSUME TypeOK, Bounded, NEW o \in Ops, Trimmed(o)
  PROVE  Bounded'
<1>1. /\ pc[o] = "trimming" /\ rows' = rows \ doomed[o] /\ born' = born
      /\ doomed' = [doomed EXCEPT ![o] = {}] /\ pc' = [pc EXCEPT ![o] = "expire"]
  BY DEF Trimmed, Goto
<1>2. pc'[o] = "expire" /\ \A q \in Ops \ {o} : doomed'[q] = doomed[q] /\ pc'[q] = pc[q]
  BY <1>1 DEF TypeOK
<1>3. Trimming' = Trimming \ {o} /\ Active' = Active \ {o} /\ o \in Trimming
  BY <1>1, <1>2 DEF Trimming, Active
<1>4. ASSUME NEW T \in SUBSET Trimming'
      PROVE  Cardinality(rows' \ UNION {doomed'[t] : t \in T}) <= MaxBackups + Cardinality(Active' \ T)
  <2>1. T \cup {o} \in SUBSET Trimming
    BY <1>3
  <2>2. rows' \ UNION {doomed'[t] : t \in T} = Spared(T \cup {o})
    <3>1. \A t \in T : doomed'[t] = doomed[t]
      BY <1>2, <1>3 DEF Trimming
    <3>2. QED
      BY <1>1, <3>1 DEF Spared
  <2>3. Active' \ T = Active \ (T \cup {o})
    BY <1>3
  <2>4. QED
    BY <2>1, <2>2, <2>3 DEF Bounded
<1>5. QED
  BY <1>4 DEF Bounded, Spared

LEMMA BoundedNext == TypeOK /\ Progress /\ Births /\ Bounded /\ [Next]_vars => Bounded'
<1> SUFFICES ASSUME TypeOK, Progress, Births, Bounded, [Next]_vars PROVE Bounded'
  OBVIOUS
<1>1. ASSUME NEW o \in Ops, Commit(o) \/ Trim(o) \/ Trimmed(o) PROVE Bounded'
  BY <1>1, BoundedCommit, BoundedTrim, BoundedTrimmed
<1>2. ASSUME NEW o \in Ops, Step(o), ~(Commit(o) \/ Trim(o) \/ Trimmed(o)) PROVE Bounded'
  <2>1. rows' \subseteq rows /\ born' = born
    BY <1>2 DEF Step, Request, TaskStep, rowVars,
       AskBackup, AskDelete, AskRestore, Load, ReadManifest, Hash, Open, Copy, Close, ThreadRaises,
       SaveManifest, Measure, Expire, Expired, Raised, Deleted, Check, Unzip, Extract, Extracted
  <2>2. pc[o] \notin {"trim", "trimming", "lost"} /\ pc'[o] \notin {"trim", "trimming", "lost"}
    <3>0. pc = [q \in Ops |-> pc[q]]
      BY DEF TypeOK
    <3>1. CASE AskBackup(o) \/ AskDelete(o) \/ AskRestore(o) \/ Load(o) \/ ReadManifest(o)
      BY <3>0, <3>1 DEF Goto, Asked, Finish, AskBackup, AskDelete, AskRestore, Load, ReadManifest
    <3>2. CASE Hash(o) \/ Open(o) \/ Copy(o) \/ Close(o) \/ ThreadRaises(o) \/ SaveManifest(o)
      BY <3>0, <3>2 DEF Goto, Hash, Open, Copy, Close, ThreadRaises, SaveManifest
    <3>3. CASE Measure(o) \/ Expire(o)
      BY <3>0, <3>3 DEF Goto, Finish, Measure, Expire
    <3>4. CASE Expired(o) \/ Raised(o) \/ Deleted(o)
      BY <3>0, <3>4 DEF Goto, Finish, Expired, Raised, Deleted
    <3>5. CASE Check(o) \/ Unzip(o)
      BY <3>0, <3>5 DEF Goto, RestoreEnds, Check, Unzip
    <3>6. CASE Extract(o) \/ Extracted(o)
      BY <3>0, <3>6 DEF Goto, Finish, RestoreEnds, Extract, Extracted
    <3>7. QED
      BY <1>2, <3>1, <3>2, <3>3, <3>4, <3>5, <3>6 DEF Step, Request, TaskStep
  <2>3. \A q \in Ops \ {o} : pc'[q] = pc[q] /\ doomed'[q] = doomed[q]
    BY <1>2, StepFrame
  <2>4. Trimming' = Trimming /\ Active' = Active /\ o \notin Trimming
    BY <2>1, <2>2, <2>3 DEF Trimming, Active
  <2>5. \A t \in Trimming' : doomed'[t] = doomed[t]
    BY <2>3, <2>4 DEF Trimming
  <2>6. QED
    BY <2>1, <2>4, <2>5, BoundedQuiet
<1>3. CASE Reboot
  <2>1. \A o \in Ops : pc'[o] = IF pc[o] \in {"idle", "ended"} THEN pc[o] ELSE "lost"
    BY <1>3 DEF Reboot
  <2>2. UNCHANGED <<rows, born, doomed>>
    BY <1>3 DEF Reboot, rowVars
  <2>3. Trimming' = {} /\ Active \subseteq Active'
    BY <2>1, <2>2 DEF Trimming, Active
  <2>4. QED
    BY <2>2, <2>3, BoundedQuiet
<1>4. CASE (\E f \in Files : Write(f)) \/ Tick \/ ServerTurns \/ UNCHANGED vars
  <2>1. UNCHANGED <<rows, born, pc, doomed>>
    BY <1>4 DEF Write, Tick, ServerTurns, vars, rowVars
  <2>2. QED
    BY <2>1, BoundedQuiet DEF Trimming, Active
<1>5. QED
  BY <1>1, <1>2, <1>3, <1>4 DEF Next, Step

\* _enforce_max_backups keeps the rows of a server within the maximum, but for
\* the backups that have not trimmed yet, however create_backup overlaps itself,
\* deletions, retention and deaths of the manager.
THEOREM NeverTooManyRows == Spec => []RowsBounded
<1>1. Bounded => RowsBounded
  <2>1. {} \in SUBSET Trimming /\ Spared({}) = rows /\ Active \ {} = Active
    BY DEF Spared
  <2>2. QED
    BY <2>1 DEF Bounded, RowsBounded, Active
<1>2. QED
  BY <1>1, TypesInit, TypesNext, ProgressInit, ProgressNext, BirthsInit, BirthsNext, BoundedInit,
     BoundedNext,
     PTL DEF Spec

-----------------------------------------------------------------------------
(* Archives and their rows                                                 *)

\* How a request goes on, as far as archives are concerned.
LEMMA StepTurn ==
  ASSUME TypeOK, Progress, NEW o \in Ops, Step(o)
  PROVE  /\ Fresh(o)' => Fresh(o)
         /\ pc'[o] = "copy" => pc[o] = "copy" \/ Open(o)
         /\ pc[o] = "copy" => pc'[o] = "copy" \/ Close(o) \/ ThreadRaises(o)
         /\ pc'[o] \in {"save", "zipped", "commit"} => pc[o] \in {"save", "zipped", "commit"} \/ Close(o)
         /\ pc[o] = "commit" <=> Commit(o)
<1>0. pc = [q \in Ops |-> pc[q]] /\ kind = [q \in Ops |-> kind[q]]
  BY DEF TypeOK
<1> USE <1>0 DEF Goto, Finish, RestoreEnds, Asked, Fresh
<1>1. CASE AskBackup(o)
  BY <1>1 DEF AskBackup, Commit
<1>2. CASE AskDelete(o)
  BY <1>2 DEF AskDelete, Commit
<1>3. CASE AskRestore(o)
  BY <1>3 DEF AskRestore, Commit
<1>4. CASE Load(o)
  BY <1>4 DEF Load, Commit
<1>5. CASE ReadManifest(o)
  BY <1>5 DEF ReadManifest, Commit
<1>6. CASE Hash(o)
  BY <1>6 DEF Hash, Commit
<1>7. CASE Open(o)
  <2>1. pc[o] = "open" /\ pc'[o] = "copy"
    BY <1>7 DEF Open
  <2>2. QED
    BY <1>7, <2>1 DEF Commit
<1>8. CASE Copy(o)
  BY <1>8 DEF Copy, Commit
<1>9. CASE Close(o)
  <2>1. pc[o] \in {"copy"} /\ pc'[o] \in {"save", "zipped"}
    BY <1>9 DEF Close
  <2>2. QED
    BY <1>9, <2>1 DEF Commit
<1>10. CASE ThreadRaises(o)
  <2>1. pc[o] \in {"open", "copy"} /\ pc'[o] \in {"raised"}
    BY <1>10 DEF ThreadRaises
  <2>2. QED
    BY <1>10, <2>1 DEF Commit
<1>11. CASE SaveManifest(o)
  BY <1>11 DEF SaveManifest, Commit
<1>12. CASE Measure(o)
  BY <1>12 DEF Measure, Commit
<1>13. CASE Commit(o)
  <2>1. pc[o] = "commit" /\ pc'[o] = "trim"
    BY <1>13 DEF Commit
  <2>2. QED
    BY <1>13, <2>1
<1>14. CASE Trim(o)
  BY <1>14 DEF Trim, Commit
<1>15. CASE Trimmed(o)
  BY <1>15 DEF Trimmed, Commit
<1>16. CASE Expire(o)
  BY <1>16 DEF Expire, Commit
<1>17. CASE Expired(o)
  BY <1>17 DEF Expired, Commit
<1>18. CASE Raised(o)
  BY <1>18 DEF Raised, Commit
<1>19. CASE Deleted(o)
  BY <1>19 DEF Deleted, Commit
<1>20. CASE Check(o)
  BY <1>20 DEF Check, Commit
<1>21. CASE Unzip(o)
  BY <1>21 DEF Unzip, Commit
<1>22. CASE Extract(o)
  BY <1>22 DEF Extract, Commit
<1>23. CASE Extracted(o)
  BY <1>23 DEF Extracted, Commit
<1>24. QED
  BY <1>1, <1>2, <1>3, <1>4, <1>5, <1>6, <1>7, <1>8, <1>9, <1>10, <1>11, <1>12,
     <1>13, <1>14, <1>15, <1>16, <1>17, <1>18, <1>19, <1>20, <1>21, <1>22, <1>23
     DEF Step, Request, TaskStep

LEMMA ArchivesStay ==
  ASSUME NEW o \in Ops, Step(o), ~Open(o), ~Close(o), ~ThreadRaises(o)
  PROVE  archive' = archive
BY DEF Step, Request, TaskStep, dirVars,
   AskBackup, AskDelete, AskRestore, Load, ReadManifest, Hash, Copy, SaveManifest, Measure, Commit,
   Trim, Trimmed, Expire, Expired, Raised, Deleted, Check, Unzip, Extract, Extracted

LEMMA EntriesStay ==
  ASSUME NEW o \in Ops, Step(o), ~Open(o), ~AskDelete(o), ~Trim(o), ~Expire(o)
  PROVE  entry' = entry
BY DEF Step, Request, TaskStep, dirVars,
   AskBackup, AskRestore, Load, ReadManifest, Hash, Copy, Close, ThreadRaises, SaveManifest,
   Measure, Commit, Trimmed, Expired, Raised, Deleted, Check, Unzip, Extract, Extracted

LEMMA CopiesStay ==
  ASSUME TypeOK, NEW o \in Ops, Step(o), NEW q \in Ops, pc[q] # "copy"
  PROVE  copy'[q] = copy[q]
<1>1. CASE Copy(o)
  BY <1>1 DEF Copy, TypeOK
<1>2. CASE ~Copy(o)
  <2>1. copy' = copy
    BY <1>2 DEF Step, Request, TaskStep,
       AskBackup, AskDelete, AskRestore, Load, ReadManifest, Hash, Open, Close, ThreadRaises,
       SaveManifest, Measure, Commit, Trim, Trimmed, Expire, Expired, Raised, Deleted, Check, Unzip,
       Extract, Extracted
  <2>2. QED
    BY <2>1
<1>3. QED
  BY <1>1, <1>2

\* A name is given once, before the archive is opened.
LEMMA NamesStay ==
  ASSUME TypeOK, Progress, NEW o \in Ops, Step(o), NEW q \in Ops, ~Fresh(q) \/ name[q] \in Names
  PROVE  name'[q] = name[q]
<1>1. CASE Load(o)
  <2>1. pc[o] = "load" /\ name[o] = Unnamed
    BY <1>1 DEF Load, Progress, Advance
  <2>2. q # o
    BY <2>1, Basics DEF Fresh
  <2>3. QED
    BY <2>2, StepFrame
<1>2. CASE ~Load(o)
  <2>1. UNCHANGED name
    BY <1>2 DEF Step, Request, TaskStep, taskVars, AskBackup, AskDelete, AskRestore, ReadManifest,
                Hash, Open, Copy, Close, ThreadRaises, SaveManifest, Measure, Commit, Trim, Trimmed,
                Expire, Expired, Raised, Deleted, Check, Unzip, Extract, Extracted
  <2>2. QED
    BY <2>1
<1>3. QED
  BY <1>1, <1>2

\* Removing archives: a deletion, a trim and a retention.
LEMMA Removal ==
  ASSUME TypeOK, Progress, NEW o \in Ops, AskDelete(o) \/ Trim(o) \/ Expire(o)
  PROVE  \E gone \in SUBSET rows :
           /\ RemoveArchives(o, gone) /\ doomed[o] = {} /\ doomed'[o] = gone
           /\ UNCHANGED <<rows, born, name, copy, archive>>
           /\ pc'[o] \in {"deleting", "expire", "trimming", "expiring", "ended"}
<1>1. doomed[o] = {}
  BY DEF AskDelete, Trim, Expire, Asked, Progress, Advance
<1>2. PICK gone \in SUBSET rows : RemoveArchives(o, gone)
  <2>1. CASE AskDelete(o)
    BY <2>1 DEF AskDelete
  <2>2. CASE Trim(o)
    BY <2>2 DEF Trim, Excess
  <2>3. CASE Expire(o)
    BY <2>3 DEF Expire
  <2>4. QED
    BY <2>1, <2>2, <2>3
<1>3. doomed'[o] = gone
  BY <1>2 DEF RemoveArchives, TypeOK
<1>4. UNCHANGED <<rows, born, name, copy, archive>>
  BY DEF AskDelete, Trim, Expire, rowVars, taskVars
<1>5. pc'[o] \in {"deleting", "expire", "trimming", "expiring", "ended"}
  <2>1. CASE AskDelete(o)
    BY <2>1 DEF AskDelete, Goto, TypeOK
  <2>2. CASE Trim(o)
    BY <2>2 DEF Trim, Goto, TypeOK
  <2>3. CASE Expire(o)
    BY <2>3 DEF Expire, Finish, Goto, TypeOK
  <2>4. QED
    BY <2>1, <2>2, <2>3
<1>6. QED
  BY <1>1, <1>2, <1>3, <1>4, <1>5

\* Rows go when they were doomed.
LEMMA RowsStay ==
  ASSUME TypeOK, Progress, NEW o \in Ops, Step(o), ~AskDelete(o), ~Trim(o), ~Expire(o)
  PROVE  \/ /\ rows \subseteq rows' /\ doomed'[o] = doomed[o]
            /\ \A r \in rows' : r \in rows \/ (r = o /\ Commit(o))
         \/ rows' = rows \ doomed[o] /\ doomed'[o] = {}
<1> USE DEF rowVars, TypeOK
<1>1. CASE AskBackup(o)
  BY <1>1 DEF AskBackup
<1>2. CASE AskRestore(o)
  BY <1>2 DEF AskRestore
<1>3. CASE Load(o)
  BY <1>3 DEF Load
<1>4. CASE ReadManifest(o)
  BY <1>4 DEF ReadManifest
<1>5. CASE Hash(o)
  BY <1>5 DEF Hash
<1>6. CASE Open(o)
  BY <1>6 DEF Open
<1>7. CASE Copy(o)
  BY <1>7 DEF Copy
<1>8. CASE Close(o)
  BY <1>8 DEF Close
<1>9. CASE ThreadRaises(o)
  BY <1>9 DEF ThreadRaises
<1>10. CASE SaveManifest(o)
  BY <1>10 DEF SaveManifest
<1>11. CASE Measure(o)
  BY <1>11 DEF Measure
<1>12. CASE Commit(o)
  BY <1>12 DEF Commit
<1>13. CASE Trimmed(o)
  BY <1>13 DEF Trimmed
<1>14. CASE Expired(o)
  BY <1>14 DEF Expired
<1>15. CASE Raised(o)
  BY <1>15 DEF Raised
<1>16. CASE Deleted(o)
  BY <1>16 DEF Deleted
<1>17. CASE Check(o)
  BY <1>17 DEF Check
<1>18. CASE Unzip(o)
  BY <1>18 DEF Unzip
<1>19. CASE Extract(o)
  BY <1>19 DEF Extract
<1>20. CASE Extracted(o)
  BY <1>20 DEF Extracted
<1>21. QED
  BY <1>1, <1>2, <1>3, <1>4, <1>5, <1>6, <1>7, <1>8, <1>9, <1>10, <1>11, <1>12,
     <1>13, <1>14, <1>15, <1>16, <1>17, <1>18, <1>19, <1>20
     DEF Step, Request, TaskStep

\* The archive that an opening truncates is that of its name.
LEMMA Opening ==
  ASSUME TypeOK, Progress, Entries, NEW o \in Ops, Open(o)
  PROVE  \E a \in Ops :
           /\ pc[o] = "open" /\ pc'[o] = "copy" /\ name[o] \in Names
           /\ a = IF entry[name[o]] = None THEN o ELSE entry[name[o]]
           /\ name[a] = name[o] /\ (entry[name[o]] # None => a # o)
           /\ archive'[a].files = Nothing /\ archive'[a].open = archive[a].open \cup {o}
           /\ archive'[a].broken = (archive[a].open # {})
           /\ \A b \in Ops \ {a} : archive'[b] = archive[b]
           /\ entry'[name[o]] = a /\ \A n \in Names \ {name[o]} : entry'[n] = entry[n]
           /\ UNCHANGED <<name, copy, rows, born, doomed>>
<1> DEFINE a == IF entry[name[o]] = None THEN o ELSE entry[name[o]]
<1>1. pc[o] = "open" /\ pc'[o] = "copy" /\ UNCHANGED <<name, copy, rows, born, doomed>>
  BY DEF Open, Goto, TypeOK, rowVars, taskVars
<1>2. name[o] \in Names
  BY <1>1 DEF Progress, Advance, Making
<1>3. a \in Ops /\ name[a] = name[o] /\ (entry[name[o]] # None => a # o)
  <2>1. CASE entry[name[o]] = None
    BY <2>1
  <2>2. CASE entry[name[o]] # None
    <3>1. a = entry[name[o]] /\ a \in Ops
      BY <1>2, <2>2 DEF TypeOK, Ops, None
    <3>2. name[a] = name[o] /\ ~Fresh(a)
      BY <1>2, <2>2, <3>1 DEF Entries, EntryFits, Belongs
    <3>3. a # o
      BY <1>1, <3>2 DEF Fresh
    <3>4. QED
      BY <3>1, <3>2, <3>3
  <2>3. QED
    BY <2>1, <2>2
<1>4. /\ entry' = [entry EXCEPT ![name[o]] = a]
      /\ archive' = [archive EXCEPT ![a] = [files |-> Nothing, open |-> @.open \cup {o}, broken |-> @.open # {}]]
  BY DEF Open
<1> HIDE DEF a
<1>5. archive'[a] = [files |-> Nothing, open |-> archive[a].open \cup {o}, broken |-> archive[a].open # {}]
      /\ \A b \in Ops \ {a} : archive'[b] = archive[b]
  BY <1>3, <1>4 DEF TypeOK
<1>6. entry'[name[o]] = a /\ \A n \in Names \ {name[o]} : entry'[n] = entry[n]
  BY <1>2, <1>4 DEF TypeOK
<1>7. QED
  BY <1>1, <1>2, <1>3, <1>5, <1>6 DEF a

LEMMA Closing ==
  ASSUME TypeOK, NEW o \in Ops, Closed(o), NEW a \in Ops
  PROVE  /\ o \in archive[a].open => /\ archive'[a].files = copy[o]
                                     /\ archive'[a].open = archive[a].open \ {o}
                                     /\ archive'[a].broken = archive[a].broken
         /\ o \notin archive[a].open => archive'[a] = archive[a]
         /\ archive'[a].open = archive[a].open \ {o}
<1>1. CASE o \in archive[a].open
  <2>1. archive'[a] = [archive[a] EXCEPT !.files = copy[o], !.open = @ \ {o}]
    BY <1>1 DEF Closed
  <2>2. archive[a] \in Archives
    BY DEF TypeOK, Archives
  <2>3. QED
    BY <1>1, <2>1, <2>2 DEF Archives
<1>2. CASE o \notin archive[a].open
  BY <1>2 DEF Closed
<1>3. QED
  BY <1>1, <1>2

LEMMA Rebooting ==
  ASSUME TypeOK, Reboot, NEW o \in Ops
  PROVE  /\ pc'[o] = IF pc[o] \in {"idle", "ended"} THEN pc[o] ELSE "lost"
         /\ archive'[o].files = archive[o].files /\ archive'[o].open = {}
         /\ archive[o].open = {} => archive'[o] = archive[o]
         /\ copy'[o] = IF pc[o] = "copy" THEN Nothing ELSE copy[o]
         /\ UNCHANGED <<entry, rows, born, doomed, kind, name, disk, writes>>
<1>1. archive'[o] = [archive[o] EXCEPT !.open = {}, !.broken = @ \/ archive[o].open # {}]
  BY DEF Reboot
<1>2. archive[o] \in Archives
  BY DEF TypeOK, Archives
<1>3. archive'[o].files = archive[o].files /\ archive'[o].open = {}
  BY <1>1, <1>2 DEF Archives
<1>4. ASSUME archive[o].open = {} PROVE archive'[o] = archive[o]
  <2>1. (archive[o].broken \/ archive[o].open # {}) = archive[o].broken
    BY <1>2, <1>4 DEF Archives
  <2>2. archive'[o] = [archive[o] EXCEPT !.open = {}, !.broken = archive[o].broken]
    BY <1>1, <2>1
  <2>3. QED
    BY <1>2, <1>4, <2>2 DEF Archives
<1>5. QED
  BY <1>3, <1>4 DEF Reboot, rowVars

-----------------------------------------------------------------------------
LEMMA WritersStep ==
  ASSUME TypeOK, Progress, Writers, Entries, NEW o \in Ops, Step(o)
  PROVE  Writers'
<1>1. CASE Open(o)
  <2>a. PICK a \in Ops :
           /\ pc[o] = "open" /\ pc'[o] = "copy" /\ name[o] \in Names
           /\ a = IF entry[name[o]] = None THEN o ELSE entry[name[o]]
           /\ name[a] = name[o] /\ (entry[name[o]] # None => a # o)
           /\ archive'[a].files = Nothing /\ archive'[a].open = archive[a].open \cup {o}
           /\ archive'[a].broken = (archive[a].open # {})
           /\ \A b \in Ops \ {a} : archive'[b] = archive[b]
           /\ entry'[name[o]] = a /\ \A n \in Names \ {name[o]} : entry'[n] = entry[n]
           /\ UNCHANGED <<name, copy, rows, born, doomed>>
    BY <1>1, Opening
  <2>1. /\ pc[o] = "open" /\ pc'[o] = "copy" /\ name[a] = name[o]
        /\ archive'[a].open = archive[a].open \cup {o} /\ (a = o \/ a = entry[name[o]])
        /\ a # o => entry[name[o]] # None /\ name[o] \in Names
        /\ \A b \in Ops \ {a} : archive'[b] = archive[b]
        /\ UNCHANGED <<name, copy>>
    BY <2>a
  <2>2. \A q \in Ops \ {o} : pc'[q] = pc[q]
    BY StepFrame
  <2>3. ~Fresh(o)' /\ ~Fresh(a)'
    <3>1. ~Fresh(o)'
      BY <2>1 DEF Fresh
    <3>2. CASE a # o
      <4>1. ~Fresh(a)
        BY <2>1, <3>2 DEF Entries, EntryFits, Belongs
      <4>2. QED
        BY <2>2, <3>1, <3>2, <4>1 DEF Fresh
    <3>3. CASE a = o
      BY <3>1, <3>3 DEF Fresh
    <3>4. QED
      BY <3>1, <3>2, <3>3 DEF Fresh
  <2>4. \A b, q \in Ops : q \in archive'[b].open => pc'[q] = "copy" /\ name[q] = name[b]
    BY <2>1, <2>2 DEF Writers
  <2>5. \A q \in Ops : pc'[q] = "copy" => \E b \in Ops : q \in archive'[b].open
    <3>1. \A b \in Ops : archive[b].open \subseteq archive'[b].open
      BY <2>1
    <3>2. QED
      BY <2>1, <2>2, <3>1 DEF Writers
  <2>6. ASSUME NEW q \in Ops, Fresh(q)'
        PROVE  copy[q] = Nothing /\ archive'[q] = [files |-> Nothing, open |-> {}, broken |-> FALSE]
    <3>1. q # o /\ q # a /\ Fresh(q)
      BY <2>2, <2>3, <2>6 DEF Fresh
    <3>2. QED
      BY <2>1, <3>1 DEF Writers
  <2>7. QED
    BY <2>1, <2>4, <2>5, <2>6 DEF Writers
<1>2. CASE Close(o) \/ ThreadRaises(o)
  <2>1. Closed(o) /\ UNCHANGED <<name, copy>> /\ pc'[o] \notin {"copy"} /\ ~Fresh(o)'
    BY <1>2 DEF Close, ThreadRaises, Goto, TypeOK, taskVars, Fresh
  <2>2. \A q \in Ops \ {o} : pc'[q] = pc[q]
    BY StepFrame
  <2>3. \A a \in Ops : archive'[a].open = archive[a].open \ {o}
    BY <2>1, Closing
  <2>4. \A b, q \in Ops : q \in archive'[b].open => pc'[q] = "copy" /\ name[q] = name[b]
    BY <2>2, <2>3 DEF Writers
  <2>5. \A q \in Ops : pc'[q] = "copy" => \E b \in Ops : q \in archive'[b].open
    BY <2>1, <2>2, <2>3 DEF Writers
  <2>6. ASSUME NEW q \in Ops, Fresh(q)'
        PROVE  copy[q] = Nothing /\ archive'[q] = [files |-> Nothing, open |-> {}, broken |-> FALSE]
    <3>1. q # o /\ Fresh(q)
      BY <2>1, <2>2, <2>6 DEF Fresh
    <3>2. archive[q] = [files |-> Nothing, open |-> {}, broken |-> FALSE] /\ copy[q] = Nothing
      BY <3>1 DEF Writers
    <3>3. o \notin archive[q].open
      BY <3>2
    <3>4. QED
      BY <2>1, <3>2, <3>3, Closing
  <2>7. QED
    BY <2>1, <2>4, <2>5, <2>6 DEF Writers
<1>3. CASE ~Open(o) /\ ~Close(o) /\ ~ThreadRaises(o)
  <2>1. archive' = archive
    BY <1>3, ArchivesStay
  <2>2. \A q \in Ops \ {o} : pc'[q] = pc[q]
    BY StepFrame
  <2>3. (pc'[o] = "copy" <=> pc[o] = "copy") /\ (Fresh(o)' => Fresh(o))
    BY <1>3, StepTurn
  <2>4. \A q \in Ops : (Fresh(q)' => Fresh(q)) /\ (pc'[q] = "copy" <=> pc[q] = "copy")
    BY <2>2, <2>3 DEF Fresh
  <2>5. ASSUME NEW b \in Ops, NEW q \in Ops, q \in archive[b].open
        PROVE  pc'[q] = "copy" /\ name'[q] = name'[b]
    <3>1. pc[q] = "copy" /\ name[q] = name[b]
      BY <2>5 DEF Writers
    <3>2. ~Fresh(q) /\ ~Fresh(b)
      BY <2>5, <3>1 DEF Writers, Fresh
    <3>3. QED
      BY <2>4, <3>1, <3>2, NamesStay
  <2>6. ASSUME NEW q \in Ops, Fresh(q) PROVE copy'[q] = copy[q]
    BY <2>6, CopiesStay DEF Fresh
  <2>7. \A q \in Ops : Fresh(q)' => copy'[q] = Nothing
    BY <2>4, <2>6 DEF Writers
  <2>8. QED
    BY <2>1, <2>4, <2>5, <2>7 DEF Writers
<1>4. QED
  BY <1>1, <1>2, <1>3

LEMMA EntriesStep ==
  ASSUME TypeOK, Progress, Writers, Entries, NEW o \in Ops, Step(o), NEW n \in Names,
         NEW a, a = entry'[n], a # None
  PROVE  Belongs(a, n)'
<1>0. \A q \in Ops \ {o} : pc'[q] = pc[q] /\ doomed'[q] = doomed[q] /\ born'[q] = born[q]
  BY StepFrame
<1>1. ASSUME a = entry[n], a \notin doomed'[o] \ doomed[o], a \in rows => a \in rows'
      PROVE  Belongs(a, n)'
  <2>1. a \in Ops /\ Belongs(a, n)
    BY <1>1 DEF Entries, EntryFits, TypeOK, Ops, None
  <2>2. name'[a] = n
    BY <2>1, NamesStay DEF Belongs
  <2>3. ~Fresh(a)'
    <3>1. CASE a = o
      BY <2>1, <3>1, StepTurn DEF Belongs
    <3>2. CASE a # o
      BY <1>0, <2>1, <3>2 DEF Belongs, Fresh
    <3>3. QED
      BY <3>1, <3>2
  <2>4. ~BeingRemoved(a)'
    <3>1. \A q \in Ops : a \notin doomed[q]
      BY <2>1 DEF Belongs, BeingRemoved
    <3>2. \A q \in Ops : a \notin doomed'[q]
      BY <1>0, <1>1, <3>1
    <3>3. QED
      BY <3>2 DEF BeingRemoved
  <2>5. born'[a] # 0 => a \in rows'
    <3>1. CASE Commit(o) /\ a = o
      BY <3>1 DEF Commit
    <3>2. CASE ~(Commit(o) /\ a = o)
      <4>1. born'[a] = born[a]
        <5>1. CASE Commit(o)
          BY <1>0, <2>1, <3>2, <5>1
        <5>2. CASE ~Commit(o)
          BY <5>2 DEF Step, Request, TaskStep, rowVars, AskBackup, AskDelete, AskRestore, Load,
                      ReadManifest,
                      Hash, Open, Copy, Close, ThreadRaises, SaveManifest, Measure, Trim, Trimmed,
                      Expire,
                      Expired, Raised, Deleted, Check, Unzip, Extract, Extracted
        <5>3. QED
          BY <5>1, <5>2
      <4>2. QED
        BY <1>1, <2>1, <4>1 DEF Belongs
    <3>3. QED
      BY <3>1, <3>2
  <2>6. QED
    BY <2>2, <2>3, <2>4, <2>5 DEF Belongs
<1>2. CASE Open(o)
  <2>1. PICK b \in Ops :
          /\ pc[o] = "open" /\ pc'[o] = "copy" /\ name[o] \in Names /\ name[b] = name[o]
          /\ b = IF entry[name[o]] = None THEN o ELSE entry[name[o]]
          /\ entry'[name[o]] = b /\ \A m \in Names \ {name[o]} : entry'[m] = entry[m]
          /\ UNCHANGED <<name, copy, rows, born, doomed>>
    BY <1>2, Opening
  <2>2. CASE n # name[o] \/ entry[n] # None
    <3>1. a = entry[n]
      BY <2>1, <2>2
    <3>2. a \notin doomed'[o] \ doomed[o] /\ (a \in rows => a \in rows')
      BY <2>1
    <3>3. QED
      BY <1>1, <3>1, <3>2
  <2>3. CASE n = name[o] /\ entry[n] = None
    <3>1. a = o /\ name'[o] = n /\ ~Fresh(o)'
      BY <2>1, <2>3 DEF Fresh
    <3>2. born[o] = 0 /\ o \notin Inserted
      BY <2>1 DEF Progress, Advance, Making, Inserted
    <3>3. ~BeingRemoved(o)'
      BY <2>1, <3>2 DEF BeingRemoved, Progress, Advance
    <3>4. born'[o] = 0
      BY <2>1, <3>2
    <3>5. QED
      BY <3>1, <3>3, <3>4 DEF Belongs
  <2>4. QED
    BY <2>2, <2>3
<1>3. CASE AskDelete(o) \/ Trim(o) \/ Expire(o)
  <2>1. PICK gone \in SUBSET rows :
          /\ RemoveArchives(o, gone) /\ doomed[o] = {} /\ doomed'[o] = gone
          /\ UNCHANGED <<rows, born, name, copy, archive>>
    BY <1>3, Removal
  <2>2. a = entry[n] /\ \A q \in gone : name[q] # n
    BY <2>1 DEF RemoveArchives
  <2>3. name[a] = n
    BY <2>2 DEF Entries, EntryFits, Belongs
  <2>4. a \notin doomed'[o] \ doomed[o] /\ (a \in rows => a \in rows')
    BY <2>1, <2>2, <2>3
  <2>5. QED
    BY <1>1, <2>2, <2>4
<1>4. CASE ~Open(o) /\ ~AskDelete(o) /\ ~Trim(o) /\ ~Expire(o)
  <2>1. a = entry[n]
    BY <1>4, EntriesStay
  <2>2. \/ rows \subseteq rows' /\ doomed'[o] = doomed[o]
        \/ rows' = rows \ doomed[o] /\ doomed'[o] = {}
    BY <1>4, RowsStay
  <2>3. a \notin doomed[o]
    BY <2>1 DEF Entries, EntryFits, Belongs, BeingRemoved
  <2>4. a \notin doomed'[o] \ doomed[o] /\ (a \in rows => a \in rows')
    BY <2>2, <2>3
  <2>5. QED
    BY <1>1, <2>1, <2>4
<1>5. QED
  BY <1>2, <1>3, <1>4

LEMMA WritersInit == Init => Writers
BY DEF Init, Writers, Fresh

LEMMA WritersNext == TypeOK /\ Progress /\ Writers /\ Entries /\ [Next]_vars => Writers'
<1> SUFFICES ASSUME TypeOK, Progress, Writers, Entries, [Next]_vars PROVE Writers'
  OBVIOUS
<1>1. ASSUME NEW o \in Ops, Step(o) PROVE Writers'
  BY <1>1, WritersStep
<1>2. CASE Reboot
  <2>1. \A o \in Ops : pc'[o] # "copy" /\ archive'[o].open = {}
    BY <1>2, Rebooting
  <2>2. ASSUME NEW o \in Ops, Fresh(o)'
        PROVE  copy'[o] = Nothing /\ archive'[o] = [files |-> Nothing, open |-> {}, broken |-> FALSE]
    <3>1. Fresh(o)
      BY <1>2, <2>2, Rebooting DEF Fresh
    <3>2. copy[o] = Nothing /\ archive[o] = [files |-> Nothing, open |-> {}, broken |-> FALSE]
      BY <3>1 DEF Writers
    <3>3. archive'[o] = archive[o] /\ copy'[o] = Nothing
      BY <1>2, <3>2, Rebooting
    <3>4. QED
      BY <3>2, <3>3
  <2>3. QED
    BY <2>1, <2>2 DEF Writers
<1>3. CASE (\E f \in Files : Write(f)) \/ Tick \/ ServerTurns \/ UNCHANGED vars
  <2>1. UNCHANGED <<archive, pc, copy, name>>
    BY <1>3 DEF Write, Tick, ServerTurns, vars, dirVars, taskVars
  <2>2. QED
    BY <2>1 DEF Writers, Fresh
<1>4. QED
  BY <1>1, <1>2, <1>3 DEF Next, Step

LEMMA EntriesInit == Init => Entries
BY DEF Init, Entries, EntryFits

LEMMA EntriesNext == TypeOK /\ Progress /\ Writers /\ Entries /\ [Next]_vars => Entries'
<1> SUFFICES ASSUME TypeOK, Progress, Writers, Entries, [Next]_vars, NEW n \in Names,
                    NEW a, a = entry'[n], a # None
             PROVE  Belongs(a, n)'
  BY DEF Entries, EntryFits, Belongs, Fresh, BeingRemoved
<1>1. ASSUME NEW o \in Ops, Step(o) PROVE Belongs(a, n)'
  BY <1>1, EntriesStep
<1>2. ASSUME entry' = entry PROVE a \in Ops /\ Belongs(a, n)
  BY <1>2 DEF Entries, EntryFits, TypeOK, Ops, None
<1>3. CASE Reboot
  <2>1. UNCHANGED <<entry, rows, born, doomed, name>>
    BY <1>3 DEF Reboot, rowVars
  <2>2. a \in Ops /\ Belongs(a, n)
    BY <1>2, <2>1
  <2>3. ~Fresh(a)'
    BY <1>3, <2>2, Rebooting DEF Fresh, Belongs
  <2>4. QED
    BY <2>1, <2>2, <2>3 DEF Belongs, BeingRemoved
<1>4. CASE (\E f \in Files : Write(f)) \/ Tick \/ ServerTurns \/ UNCHANGED vars
  <2>1. UNCHANGED <<entry, rows, born, doomed, name, pc>>
    BY <1>4 DEF Write, Tick, ServerTurns, vars, dirVars, rowVars, taskVars
  <2>2. QED
    BY <1>2, <2>1 DEF Belongs, BeingRemoved, Fresh
<1>5. QED
  BY <1>1, <1>3, <1>4 DEF Next, Step

-----------------------------------------------------------------------------
\* Nobody else opens the archive of a backup whose name is its own.
LEMMA Single ==
  ASSUME TypeOK, Writers, Entries, NEW r \in Ops, name[r] \in Names, ~Twin(r)
  PROVE  /\ entry[name[r]] \in {None, r}
         /\ Fresh(r) => entry[name[r]] = None
         /\ archive[r].open \subseteq {r} /\ (pc[r] # "copy" => archive[r].open = {})
         /\ \A q \in Ops \ {r} : name[q] # name[r] /\ r \notin archive[q].open
<1>1. \A q \in Ops \ {r} : name[q] # name[r]
  BY DEF Twin
<1>2. archive[r].open \subseteq Ops
  BY DEF TypeOK
<1>3. archive[r].open \subseteq {r} /\ (pc[r] # "copy" => archive[r].open = {})
  BY <1>1, <1>2 DEF Writers
<1>4. \A q \in Ops \ {r} : r \notin archive[q].open
  BY <1>1 DEF Writers
<1>5. ASSUME entry[name[r]] # None PROVE entry[name[r]] = r /\ ~Fresh(r)
  <2>1. entry[name[r]] \in Ops /\ Belongs(entry[name[r]], name[r])
    BY <1>5 DEF Entries, EntryFits, TypeOK, Ops, None
  <2>2. QED
    BY <1>1, <2>1 DEF Belongs
<1>6. QED
  BY <1>1, <1>3, <1>4, <1>5

LEMMA MadeOpen ==
  ASSUME TypeOK, Progress, Writers, Entries, NEW o \in Ops, Open(o),
         NEW r \in Ops, name[r] \in Names, ~Twin(r), Made(r)
  PROVE  Made(r)'
<1>0. Step(o)
  BY DEF Step, TaskStep
<1>1. PICK a \in Ops :
        /\ pc[o] = "open" /\ pc'[o] = "copy" /\ name[o] \in Names
        /\ a = IF entry[name[o]] = None THEN o ELSE entry[name[o]]
        /\ name[a] = name[o]
        /\ archive'[a].files = Nothing /\ archive'[a].open = archive[a].open \cup {o}
        /\ archive'[a].broken = (archive[a].open # {})
        /\ \A b \in Ops \ {a} : archive'[b] = archive[b]
        /\ entry'[name[o]] = a /\ \A n \in Names \ {name[o]} : entry'[n] = entry[n]
        /\ UNCHANGED <<name, copy, rows, born, doomed>>
  BY Opening
<1>2. CASE o = r
  <2>1. a = r /\ archive[r].open = {}
    BY <1>1, <1>2, Single DEF Fresh
  <2>2. entry'[name'[r]] = r /\ archive'[r].open = {r} /\ ~archive'[r].broken /\ pc'[r] = "copy"
    BY <1>1, <1>2, <2>1
  <2>3. r \notin rows'
    BY <1>1, <1>2 DEF Progress, Advance, Making, Inserted
  <2>4. QED
    BY <2>2, <2>3 DEF Made
<1>3. CASE o # r
  <2>1. name[o] # name[r] /\ a # r
    BY <1>1, <1>3, Single
  <2>2. archive'[r] = archive[r] /\ entry'[name'[r]] = entry[name[r]]
    BY <1>1, <2>1
  <2>3. pc'[r] = pc[r]
    BY <1>0, <1>3, StepFrame
  <2>4. QED
    BY <1>1, <2>2, <2>3 DEF Made, Intact, BeingRemoved
<1>4. QED
  BY <1>2, <1>3

LEMMA MadeClose ==
  ASSUME TypeOK, Progress, Writers, Entries, NEW o \in Ops, Close(o) \/ ThreadRaises(o),
         NEW r \in Ops, name[r] \in Names, ~Twin(r), Made(r)
  PROVE  Made(r)'
<1>0. Step(o)
  BY DEF Step, TaskStep
<1>1. Closed(o) /\ UNCHANGED <<name, copy, rows, born, doomed, entry>>
  BY DEF Close, ThreadRaises, taskVars, rowVars
<1>2. CASE o = r
  <2>1. r \notin rows'
    BY <1>1, <1>2 DEF Close, ThreadRaises, Progress, Advance, Making, Inserted
  <2>2. CASE Close(o)
    <3>1. pc[r] = "copy" /\ pc'[r] \in {"save", "zipped"}
      BY <1>2, <2>2 DEF Close, Goto, TypeOK
    <3>2. entry[name[r]] = r /\ archive[r].open = {r} /\ ~archive[r].broken
      BY <3>1 DEF Made
    <3>3. archive'[r].files = copy[r] /\ archive'[r].open = {} /\ ~archive'[r].broken
      BY <1>1, <1>2, <3>2, Closing
    <3>4. QED
      BY <1>1, <2>1, <3>1, <3>2, <3>3 DEF Made, Intact
  <2>3. CASE ThreadRaises(o)
    <3>1. pc'[r] = "raised"
      BY <1>2, <2>3 DEF ThreadRaises, Goto, TypeOK
    <3>2. QED
      BY <2>1, <3>1 DEF Made
  <2>4. QED
    BY <2>2, <2>3
<1>3. CASE o # r
  <2>1. o \notin archive[r].open
    BY <1>3, Single
  <2>2. archive'[r] = archive[r]
    BY <1>1, <2>1, Closing
  <2>3. pc'[r] = pc[r]
    BY <1>0, <1>3, StepFrame
  <2>4. QED
    BY <1>1, <2>2, <2>3 DEF Made, Intact, BeingRemoved
<1>4. QED
  BY <1>2, <1>3

LEMMA MadeRemoval ==
  ASSUME TypeOK, Progress, Writers, Entries, NEW o \in Ops, AskDelete(o) \/ Trim(o) \/ Expire(o),
         NEW r \in Ops, name[r] \in Names, ~Twin(r), Made(r)
  PROVE  Made(r)'
<1>0. Step(o)
  BY DEF Step, TaskStep, Request
<1>1. PICK gone \in SUBSET rows :
        /\ RemoveArchives(o, gone) /\ doomed[o] = {} /\ doomed'[o] = gone
        /\ UNCHANGED <<rows, born, name, copy, archive>>
        /\ pc'[o] \in {"deleting", "expire", "trimming", "expiring", "ended"}
  BY Removal
<1>2. \A q \in Ops \ {o} : pc'[q] = pc[q] /\ doomed'[q] = doomed[q]
  BY <1>0, StepFrame
<1>3. \A q \in gone : q # r => name[q] # name[r]
  BY <1>1, Single DEF TypeOK
<1>4. CASE r \in gone
  <2>1. born[r] # 0
    BY <1>1, <1>4 DEF Progress, Inserted
  <2>2. pc'[r] \notin {"copy", "save", "zipped", "commit"}
    BY <1>1, <1>2, <2>1 DEF Progress, Advance, Making
  <2>3. BeingRemoved(r)'
    BY <1>1, <1>4 DEF BeingRemoved
  <2>4. QED
    BY <2>2, <2>3 DEF Made
<1>5. CASE r \notin gone
  <2>1. entry'[name'[r]] = entry[name[r]]
    BY <1>1, <1>3, <1>5 DEF RemoveArchives
  <2>2. BeingRemoved(r) => BeingRemoved(r)'
    BY <1>1, <1>2 DEF BeingRemoved
  <2>3. pc'[r] = pc[r] \/ pc'[r] \notin {"copy", "save", "zipped", "commit"}
    BY <1>1, <1>2
  <2>4. QED
    BY <1>1, <2>1, <2>2, <2>3 DEF Made, Intact
<1>6. QED
  BY <1>4, <1>5

LEMMA MadeQuiet ==
  ASSUME TypeOK, Progress, Writers, Entries, NEW o \in Ops, Step(o),
         ~Open(o), ~Close(o), ~ThreadRaises(o), ~AskDelete(o), ~Trim(o), ~Expire(o),
         NEW r \in Ops, name[r] \in Names, name'[r] = name[r], ~Twin(r), Made(r)
  PROVE  Made(r)'
<1>1. archive' = archive /\ entry' = entry
  BY ArchivesStay, EntriesStay
<1>2. \A q \in Ops \ {o} : pc'[q] = pc[q] /\ doomed'[q] = doomed[q]
  BY StepFrame
<1>3. /\ pc'[r] = "copy" => pc[r] = "copy"
      /\ pc'[r] \in {"save", "zipped", "commit"} => pc[r] \in {"save", "zipped", "commit"}
  BY <1>2, StepTurn
<1>4. /\ rows' \subseteq rows \cup {o} /\ (r \in rows' => r \in rows \/ pc[r] = "commit")
      /\ r \in rows' /\ BeingRemoved(r) => BeingRemoved(r)'
  <2>1. \/ /\ rows \subseteq rows' /\ doomed'[o] = doomed[o]
           /\ \A q \in rows' : q \in rows \/ (q = o /\ Commit(o))
        \/ rows' = rows \ doomed[o] /\ doomed'[o] = {}
    BY RowsStay
  <2>2. Commit(o) => pc[o] = "commit"
    BY DEF Commit
  <2>3. QED
    BY <1>2, <2>1, <2>2 DEF BeingRemoved
<1>5. r \in rows => pc[r] # "copy"
  BY DEF Progress, Advance, Making, Inserted
<1>6. Intact(r) /\ pc[r] # "copy" => Intact(r)'
  BY <1>1, CopiesStay DEF Intact
<1>7. CASE r \in rows'
  <2>1. (entry[name[r]] = r /\ Intact(r)) \/ BeingRemoved(r)
    BY <1>4, <1>7 DEF Made
  <2>2. pc[r] # "copy"
    BY <1>4, <1>5, <1>7
  <2>3. (entry'[name'[r]] = r /\ Intact(r)') \/ BeingRemoved(r)'
    BY <1>1, <1>4, <1>6, <1>7, <2>1, <2>2
  <2>4. pc'[r] \in {"save", "zipped", "commit"} => entry'[name'[r]] = r /\ Intact(r)'
    BY <1>1, <1>3, <1>6 DEF Made
  <2>5. pc'[r] = "copy" => FALSE
    BY <1>3, <2>2
  <2>6. QED
    BY <2>3, <2>4, <2>5 DEF Made
<1>8. CASE r \notin rows'
  <2>1. pc'[r] = "copy" => entry'[name'[r]] = r /\ archive'[r].open = {r} /\ ~archive'[r].broken
    BY <1>1, <1>3 DEF Made
  <2>2. pc'[r] \in {"save", "zipped", "commit"} => entry'[name'[r]] = r /\ Intact(r)'
    BY <1>1, <1>3, <1>6 DEF Made
  <2>3. QED
    BY <1>8, <2>1, <2>2 DEF Made
<1>9. QED
  BY <1>7, <1>8

LEMMA KeptStep ==
  ASSUME TypeOK, Progress, Progress', Writers, Entries, Kept, NEW o \in Ops, Step(o), NEW r \in Ops
  PROVE  Twin(r)' \/ Made(r)'
<1>1. CASE pc'[r] \notin {"copy", "save", "zipped", "commit"} /\ r \notin rows'
  BY <1>1 DEF Made
<1>2. CASE pc'[r] \in {"copy", "save", "zipped", "commit"} \/ r \in rows'
  <2>1. pc[r] \in {"open", "copy", "save", "zipped", "commit"} \/ r \in rows
    <3>1. CASE r # o
      <4>1. pc'[r] = pc[r] /\ born'[r] = born[r]
        BY <3>1, StepFrame
      <4>2. r \in rows' => r \in rows
        BY <3>1, RowsStay, Removal
      <4>3. QED
        BY <1>2, <4>1, <4>2
    <3>2. CASE r = o
      <4>1. Open(r) => pc[r] = "open"
        BY DEF Open
      <4>2. Close(r) => pc[r] = "copy"
        BY DEF Close
      <4>3. r \in rows' => r \in rows \/ pc[r] = "commit"
        BY <3>2, RowsStay, Removal, StepTurn
      <4>4. QED
        BY <1>2, <3>2, <4>1, <4>2, <4>3, StepTurn
    <3>3. QED
      BY <3>1, <3>2
  <2>2. name[r] \in Names
    BY <2>1 DEF Progress, Advance, Making, Inserted
  <2>3. \A q \in Ops : name[q] = name[r] => name'[q] = name[q]
    BY <2>2, NamesStay
  <2>4. CASE Twin(r)
    BY <2>3, <2>4 DEF Twin
  <2>5. CASE ~Twin(r)
    <3>1. Made(r) /\ name'[r] = name[r]
      BY <2>3, <2>5 DEF Kept
    <3>2. Made(r)'
      BY <2>2, <2>5, <3>1, MadeOpen, MadeClose, MadeRemoval, MadeQuiet
    <3>3. QED
      BY <3>2
  <2>6. QED
    BY <2>4, <2>5
<1>3. QED
  BY <1>1, <1>2

LEMMA KeptInit == Init => Kept
BY DEF Init, Kept, Made

LEMMA KeptNext ==
  TypeOK /\ Progress /\ Progress' /\ Writers /\ Entries /\ Kept /\ [Next]_vars => Kept'
<1> SUFFICES ASSUME TypeOK, Progress, Progress', Writers, Entries, Kept, [Next]_vars, NEW r \in Ops
             PROVE  Twin(r)' \/ Made(r)'
  BY DEF Kept
<1>1. ASSUME NEW o \in Ops, Step(o) PROVE Twin(r)' \/ Made(r)'
  BY <1>1, KeptStep
<1>2. CASE Reboot
  <2>1. pc'[r] \notin {"copy", "save", "zipped", "commit"} /\ UNCHANGED <<entry, rows, born, doomed, name>>
    BY <1>2, Rebooting
  <2>2. Twin(r) => Twin(r)'
    BY <2>1 DEF Twin
  <2>3. r \in rows => pc[r] # "copy"
    BY DEF Progress, Advance, Making, Inserted
  <2>4. r \in rows /\ Intact(r) => Intact(r)'
    <3>1. archive[r].open = {} => archive'[r] = archive[r]
      BY <1>2, Rebooting
    <3>2. pc[r] # "copy" => copy'[r] = copy[r]
      BY <1>2, Rebooting
    <3>3. QED
      BY <2>3, <3>1, <3>2 DEF Intact
  <2>5. Made(r) => Made(r)'
    BY <2>1, <2>4 DEF Made, BeingRemoved
  <2>6. QED
    BY <2>2, <2>5 DEF Kept
<1>3. CASE (\E f \in Files : Write(f)) \/ Tick \/ ServerTurns \/ UNCHANGED vars
  <2>1. UNCHANGED <<entry, archive, rows, born, doomed, name, pc, copy>>
    BY <1>3 DEF Write, Tick, ServerTurns, vars, dirVars, rowVars, taskVars
  <2>2. QED
    BY <2>1 DEF Kept, Twin, Made, Intact, BeingRemoved
<1>4. QED
  BY <1>1, <1>2, <1>3 DEF Next, Step

ArchivesInv == TypeOK /\ Progress /\ Writers /\ Entries /\ Kept

LEMMA ArchivesStable == Spec => []ArchivesInv
<1>1. Init => ArchivesInv
  BY TypesInit, ProgressInit, WritersInit, EntriesInit, KeptInit DEF ArchivesInv
<1>2. ArchivesInv /\ [Next]_vars => ArchivesInv'
  BY TypesNext, ProgressNext, WritersNext, EntriesNext, KeptNext DEF ArchivesInv
<1>3. QED
  BY <1>1, <1>2, PTL DEF Spec

\* Trimming, retention, deletions, failed backups and deaths of the manager never
\* take the archive of a row that stays, and no thread ever writes into it again:
\* every row has its own, complete archive, but for those that a request is
\* removing and those named in the same second.
THEOREM RowsKeepArchives == Spec => []RowsHaveArchives
<1>1. ArchivesInv => RowsHaveArchives
  BY DEF ArchivesInv, Kept, Made, RowsHaveArchives, TypeOK
<1>2. QED
  BY <1>1, ArchivesStable, PTL

\* No row is removed without its archive: what the directory holds belongs to a
\* row, or to a backup whose row was not inserted.
THEOREM ArchivesAreOwned == Spec => []ArchivesHaveOwners
<1>1. ASSUME ArchivesInv, NEW n \in Names, entry[n] # None
      PROVE  \E o \in Ops : name[o] = n /\ (o \in rows \/ born[o] = 0)
  <2>1. entry[n] \in Ops /\ Belongs(entry[n], n)
    BY <1>1 DEF ArchivesInv, Entries, EntryFits, TypeOK, Ops, None
  <2>2. QED
    BY <2>1 DEF Belongs
<1>2. ArchivesInv => ArchivesHaveOwners
  BY <1>1 DEF ArchivesHaveOwners
<1>3. QED
  BY <1>2, ArchivesStable, PTL

-----------------------------------------------------------------------------
(* What incremental backups skip                                           *)

\* What a request that makes an archive has just done, and what becomes of the
\* hashes that it has taken.
LEMMA StepMakes ==
  ASSUME TypeOK, NEW o \in Ops, Step(o)
  PROVE  /\ pc'[o] = "save" => Close(o)
         /\ pc'[o] = "open" => Load(o) \/ Hash(o)
         /\ pc'[o] = "copy" => Open(o) \/ Copy(o)
         /\ pc'[o] \in {"idle", "load"} => pc[o] \in {"idle", "load"} /\ seen'[o] = seen[o]
         /\ seen'[o] \in {seen[o], Nothing} \/ Hash(o)
<1>0. pc = [q \in Ops |-> pc[q]] /\ seen = [q \in Ops |-> seen[q]]
  BY DEF TypeOK
<1> USE <1>0 DEF Goto, Finish, RestoreEnds, Asked, taskVars
<1>1. CASE AskBackup(o)
  BY <1>1 DEF AskBackup
<1>2. CASE AskDelete(o)
  BY <1>2 DEF AskDelete
<1>3. CASE AskRestore(o)
  BY <1>3 DEF AskRestore
<1>4. CASE Load(o)
  <2>1. pc'[o] \in {"manifest", "open"} /\ seen' = seen
    BY <1>4 DEF Load
  <2>2. QED
    BY <1>4, <2>1
<1>5. CASE ReadManifest(o)
  BY <1>5 DEF ReadManifest
<1>6. CASE Hash(o)
  <2>1. pc'[o] \in {"hash", "open"}
    BY <1>6 DEF Hash
  <2>2. QED
    BY <1>6, <2>1
<1>7. CASE Open(o)
  <2>1. pc'[o] = "copy" /\ seen' = seen
    BY <1>7 DEF Open
  <2>2. QED
    BY <1>7, <2>1
<1>8. CASE Copy(o)
  <2>1. pc'[o] = "copy" /\ seen' = seen
    BY <1>8 DEF Copy
  <2>2. QED
    BY <1>8, <2>1
<1>9. CASE Close(o)
  <2>1. pc'[o] \in {"save", "zipped"} /\ seen' = seen
    BY <1>9 DEF Close
  <2>2. QED
    BY <1>9, <2>1
<1>10. CASE ThreadRaises(o)
  BY <1>10 DEF ThreadRaises
<1>11. CASE SaveManifest(o)
  BY <1>11 DEF SaveManifest
<1>12. CASE Measure(o)
  BY <1>12 DEF Measure
<1>13. CASE Commit(o)
  BY <1>13 DEF Commit
<1>14. CASE Trim(o)
  BY <1>14 DEF Trim
<1>15. CASE Trimmed(o)
  BY <1>15 DEF Trimmed
<1>16. CASE Expire(o)
  BY <1>16 DEF Expire
<1>17. CASE Expired(o)
  BY <1>17 DEF Expired
<1>18. CASE Raised(o)
  BY <1>18 DEF Raised
<1>19. CASE Deleted(o)
  BY <1>19 DEF Deleted
<1>20. CASE Check(o)
  BY <1>20 DEF Check
<1>21. CASE Unzip(o)
  BY <1>21 DEF Unzip
<1>22. CASE Extract(o)
  BY <1>22 DEF Extract
<1>23. CASE Extracted(o)
  BY <1>23 DEF Extracted
<1>24. QED
  BY <1>1, <1>2, <1>3, <1>4, <1>5, <1>6, <1>7, <1>8, <1>9, <1>10, <1>11, <1>12, <1>13, <1>14, <1>15,
     <1>16, <1>17, <1>18, <1>19, <1>20, <1>21, <1>22, <1>23
     DEF Step, Request, TaskStep

LEMMA CopiesGrow ==
  ASSUME TypeOK, NEW o \in Ops, Step(o), NEW q \in Ops, NEW f \in Files
  PROVE  copy'[q][f] \in {copy[q][f], disk[f]}
<1>1. CASE Copy(o)
  <2>1. copy' = [copy EXCEPT ![o][Walked(o)] = disk[Walked(o)]] /\ Walked(o) \in Files
    BY <1>1, WalkedLeft DEF Copy, TypeOK
  <2>2. QED
    BY <2>1 DEF TypeOK
<1>2. CASE ~Copy(o)
  BY <1>2 DEF Step, Request, TaskStep,
     AskBackup, AskDelete, AskRestore, Load, ReadManifest, Hash, Open, Close, ThreadRaises,
     SaveManifest, Measure, Commit, Trim, Trimmed, Expire, Expired, Raised, Deleted, Check, Unzip,
     Extract, Extracted
<1>3. QED
  BY <1>1, <1>2

LEMMA Hashing ==
  ASSUME TypeOK, Progress, NEW o \in Ops, Hash(o)
  PROVE  /\ \A f \in Files : seen'[o][f] \in {seen[o][f], disk[f], None}
         /\ pc'[o] = "open" => left'[o] = {g \in Files : seen'[o][g] \notin {None, old[o][g]}}
         /\ pc[o] = "hash" /\ UNCHANGED <<old, copy>>
<1>1. pc[o] = "hash" /\ UNCHANGED <<old, copy>>
  BY DEF Hash
<1>2. Walked(o) \in Files
  BY <1>1, WalkedLeft DEF Progress, Advance, TypeOK
<1>3. PICK h \in {disk[Walked(o)], None} : seen' = [seen EXCEPT ![o][Walked(o)] = h]
  BY DEF Hash
<1>4. \A f \in Files : seen'[o][f] \in {seen[o][f], disk[f], None}
  BY <1>2, <1>3 DEF TypeOK
<1>5. pc'[o] = "open" => left'[o] = {g \in Files : seen'[o][g] \notin {None, old[o][g]}}
  BY <1>1 DEF Hash, Goto, TypeOK
<1>6. QED
  BY <1>1, <1>4, <1>5

LEMMA ManifestsMove ==
  ASSUME TypeOK, NEW o \in Ops, Step(o)
  PROVE  /\ manifest' = manifest \/ (pc[o] = "save" /\ manifest' = seen[o])
         /\ writes' = writes
         /\ \A q \in Ops : old'[q] \in {old[q], manifest, Nothing}
<1>1. manifest' = manifest \/ (pc[o] = "save" /\ manifest' = seen[o])
  BY DEF Step, Request, TaskStep,
     AskBackup, AskDelete, AskRestore, Load, ReadManifest, Hash, Open, Copy, Close, ThreadRaises,
     SaveManifest, Measure, Commit, Trim, Trimmed, Expire, Expired, Raised, Deleted, Check, Unzip,
     Extract, Extracted
<1>2. writes' = writes
  BY DEF Step, Request, TaskStep,
     AskBackup, AskDelete, AskRestore, Load, ReadManifest, Hash, Open, Copy, Close, ThreadRaises,
     SaveManifest, Measure, Commit, Trim, Trimmed, Expire, Expired, Raised, Deleted, Check, Unzip,
     Extract, Extracted
<1>3. CASE ReadManifest(o)
  BY <1>1, <1>2, <1>3 DEF ReadManifest, TypeOK
<1>4. CASE ThreadRaises(o) \/ SaveManifest(o)
  BY <1>1, <1>2, <1>4 DEF ThreadRaises, SaveManifest, TypeOK
<1>5. CASE ~ReadManifest(o) /\ ~ThreadRaises(o) /\ ~SaveManifest(o)
  <2>1. old' = old
    BY <1>5 DEF Step, Request, TaskStep, taskVars,
       AskBackup, AskDelete, AskRestore, Load, Hash, Open, Copy, Close, Measure, Commit, Trim,
       Trimmed, Expire, Expired, Raised, Deleted, Check, Unzip, Extract, Extracted
  <2>2. QED
    BY <1>1, <1>2, <2>1
<1>6. QED
  BY <1>3, <1>4, <1>5

\* Files of the game change when a restore extracts them or a reset deletes them.
LEMMA FilesMove ==
  ASSUME TypeOK, Progress, NEW o \in Ops, Step(o), NEW f \in Files
  PROVE  \/ disk'[f] \in {disk[f], None}
         \/ \E a \in Ops : disk'[f] = archive[a].files[f] /\ archive[a].files[f] # None
<1>1. CASE Extract(o)
  <2>1. source[o] \in Ops /\ left[o] # {}
    BY <1>1 DEF Extract, Progress, Advance
  <2>2. Walked(o) \in Files
    BY <2>1, WalkedLeft DEF TypeOK
  <2>3. \/ disk' = disk
        \/ /\ disk' = [disk EXCEPT ![Walked(o)] = archive[source[o]].files[Walked(o)]]
           /\ archive[source[o]].files[Walked(o)] # None
    BY <1>1 DEF Extract
  <2>4. QED
    BY <2>1, <2>2, <2>3 DEF TypeOK
<1>2. CASE Expire(o) \/ Expired(o) \/ Raised(o)
  BY <1>2 DEF Expire, Expired, Raised, Finish, TypeOK
<1>3. CASE ~Extract(o) /\ ~Expire(o) /\ ~Expired(o) /\ ~Raised(o)
  <2>1. disk' = disk
    BY <1>3 DEF Step, Request, TaskStep,
       AskBackup, AskDelete, AskRestore, Load, ReadManifest, Hash, Open, Copy, Close, ThreadRaises,
       SaveManifest, Measure, Commit, Trim, Trimmed, Deleted, Check, Unzip, Extracted
  <2>2. QED
    BY <2>1
<1>4. QED
  BY <1>1, <1>2, <1>3

\* What an archive holds: what it held, nothing, or what the one who closes it has
\* put into it.
LEMMA ArchivesMove ==
  ASSUME TypeOK, Progress, Entries, NEW o \in Ops, Step(o), NEW a \in Ops, NEW f \in Files
  PROVE  \/ archive'[a].files[f] \in {archive[a].files[f], None}
         \/ /\ Close(o) \/ ThreadRaises(o)
            /\ archive'[a].files[f] = copy[o][f]
<1>1. CASE Open(o)
  <2>1. archive'[a].files \in {archive[a].files, Nothing}
    <3>1. PICK b \in Ops : archive'[b].files = Nothing /\ \A c \in Ops \ {b} : archive'[c] = archive[c]
      BY <1>1, Opening
    <3>2. QED
      BY <3>1
  <2>2. QED
    BY <2>1 DEF Nothing
<1>2. CASE Close(o) \/ ThreadRaises(o)
  <2>1. Closed(o)
    BY <1>2 DEF Close, ThreadRaises
  <2>2. QED
    BY <1>2, <2>1, Closing
<1>3. CASE ~Open(o) /\ ~Close(o) /\ ~ThreadRaises(o)
  BY <1>3, ArchivesStay
<1>4. QED
  BY <1>1, <1>2, <1>3

LEMMA ContainedInit == Init => Contained
BY DEF Init, Contained, Nothing, None

LEMMA ContainedNext ==
  TypeOK /\ Progress /\ Entries /\ Contained /\ [Next]_vars => Contained'
<1> SUFFICES ASSUME TypeOK, Progress, Entries, Contained, [Next]_vars PROVE Contained'
  OBVIOUS
<1>1. ASSUME NEW o \in Ops, Step(o) PROVE Contained'
  <2>0. writes' = writes /\ writes \in Nat
    BY <1>1, ManifestsMove DEF TypeOK
  <2>1. \A f \in Files : disk'[f] <= writes
    BY <1>1, <2>0, FilesMove DEF Contained, None
  <2>2. \A f \in Files : manifest'[f] <= writes
    <3>1. manifest' = manifest \/ manifest' = seen[o]
      BY <1>1, ManifestsMove
    <3>2. QED
      BY <3>1 DEF Contained
  <2>3. ASSUME NEW q \in Ops, NEW f \in Files
        PROVE  /\ seen'[q][f] <= writes /\ old'[q][f] <= writes /\ copy'[q][f] <= writes
               /\ archive'[q].files[f] <= writes
    <3>1. seen'[q][f] \in {seen[q][f], disk[f], None}
      <4>1. CASE q # o
        BY <1>1, <4>1, StepFrame
      <4>2. CASE q = o
        BY <1>1, <4>2, StepMakes, Hashing DEF Nothing
      <4>3. QED
        BY <4>1, <4>2
    <3>2. old'[q][f] \in {old[q][f], manifest[f], None}
      <4>1. old'[q] \in {old[q], manifest, Nothing}
        BY <1>1, ManifestsMove
      <4>2. QED
        BY <4>1 DEF Nothing
    <3>3. copy'[q][f] \in {copy[q][f], disk[f]}
      BY <1>1, CopiesGrow
    <3>4. archive'[q].files[f] \in {archive[q].files[f], None, copy[o][f]}
      BY <1>1, ArchivesMove
    <3>5. disk[f] <= writes /\ manifest[f] <= writes /\ None <= writes
      BY <2>0 DEF Contained, None
    <3>6. /\ seen[q][f] <= writes /\ old[q][f] <= writes /\ copy[q][f] <= writes
          /\ archive[q].files[f] <= writes /\ copy[o][f] <= writes
      BY <1>1 DEF Contained
    <3>7. QED
      BY <3>1, <3>2, <3>3, <3>4, <3>5, <3>6
  <2>4. QED
    BY <2>0, <2>1, <2>2, <2>3 DEF Contained
<1>2. CASE Reboot
  <2>0. manifest' \in {manifest, Nothing}
    <3>1. manifest' \in {manifest} \cup (IF \E o \in Ops : pc[o] = "save" THEN {Nothing} ELSE {})
      BY <1>2 DEF Reboot
    <3>2. QED
      BY <3>1
  <2>1. UNCHANGED <<disk, writes>> /\ manifest' \in {manifest, Nothing} /\ writes \in Nat
    <3>1. disk' = disk /\ writes' = writes
      BY <1>2 DEF Reboot
    <3>2. writes \in Nat
      BY DEF TypeOK
    <3>3. QED
      BY <2>0, <3>1, <3>2
  <2>2. \A q \in Ops : /\ seen'[q] = Nothing /\ old'[q] = Nothing /\ copy'[q] \in {copy[q], Nothing}
                       /\ archive'[q].files = archive[q].files
    BY <1>2, Rebooting DEF Reboot
  <2>3. \A f \in Files : Nothing[f] <= writes
    BY <2>1 DEF Nothing, None
  <2>4. QED
    BY <2>1, <2>2, <2>3 DEF Contained
<1>3. CASE \E f \in Files : Write(f)
  <2>1. PICK f \in Files : disk' = [disk EXCEPT ![f] = writes + 1]
    BY <1>3 DEF Write
  <2>2. writes' = writes + 1 /\ UNCHANGED <<archive, manifest, copy, seen, old>> /\ writes \in Nat
    BY <1>3 DEF Write, dirVars, taskVars, TypeOK
  <2>3. \A g \in Files : disk'[g] <= writes'
    BY <2>1, <2>2 DEF Contained, TypeOK, Contents
  <2>4. \A g \in Files : manifest'[g] <= writes'
    BY <2>2 DEF Contained, TypeOK, Contents
  <2>5. ASSUME NEW q \in Ops, NEW g \in Files
        PROVE  /\ seen'[q][g] <= writes' /\ old'[q][g] <= writes' /\ copy'[q][g] <= writes'
               /\ archive'[q].files[g] <= writes'
    <3>1. seen[q][g] \in Nat /\ old[q][g] \in Nat /\ copy[q][g] \in Nat /\ archive[q].files[g] \in Nat
      BY DEF TypeOK, Contents
    <3>2. /\ seen[q][g] <= writes /\ old[q][g] <= writes /\ copy[q][g] <= writes
          /\ archive[q].files[g] <= writes
      BY DEF Contained
    <3>3. QED
      BY <2>2, <3>1, <3>2
  <2>6. QED
    BY <2>3, <2>4, <2>5 DEF Contained
<1>4. CASE Tick \/ ServerTurns \/ UNCHANGED vars
  <2>1. UNCHANGED <<archive, manifest, disk, writes, copy, seen, old>>
    BY <1>4 DEF Tick, ServerTurns, vars, dirVars, taskVars
  <2>2. QED
    BY <2>1 DEF Contained
<1>5. QED
  BY <1>1, <1>2, <1>3, <1>4 DEF Next, Step

\* What was put into an archive that was closed stays so.
LEMMA SavedStays ==
  ASSUME TypeOK, Progress, Writers, Entries, [Next]_vars, NEW f \in Files, NEW c, c # None, Saved(f,
         c)
  PROVE  Saved(f, c)'
<1>1. PICK w \in Ops : copy[w][f] = c /\ \A a \in Ops : w \notin archive[a].open
  BY DEF Saved
<1>2. pc[w] # "copy"
  BY <1>1 DEF Writers
<1>3. ~Fresh(w)
  BY <1>1 DEF Writers, Nothing
<1>4. ASSUME copy'[w][f] = c, \A a \in Ops : w \notin archive'[a].open
      PROVE  Saved(f, c)'
  BY <1>4 DEF Saved
<1>5. ASSUME NEW o \in Ops, Step(o) PROVE Saved(f, c)'
  <2>1. copy'[w] = copy[w]
    BY <1>2, <1>5, CopiesStay
  <2>2. ASSUME NEW a \in Ops PROVE w \notin archive'[a].open
    <3>1. CASE Open(o)
      <4>1. w # o
        BY <1>3, <3>1 DEF Open, Fresh
      <4>2. archive'[a].open \subseteq archive[a].open \cup {o}
        BY <3>1, Opening
      <4>3. QED
        BY <1>1, <4>1, <4>2
    <3>2. CASE Close(o) \/ ThreadRaises(o)
      <4>1. Closed(o)
        BY <3>2 DEF Close, ThreadRaises
      <4>2. QED
        BY <1>1, <4>1, Closing
    <3>3. CASE ~Open(o) /\ ~Close(o) /\ ~ThreadRaises(o)
      BY <1>1, <1>5, <3>3, ArchivesStay
    <3>4. QED
      BY <3>1, <3>2, <3>3
  <2>3. QED
    BY <1>1, <1>4, <2>1, <2>2
<1>6. CASE Reboot
  BY <1>1, <1>2, <1>4, <1>6, Rebooting
<1>7. CASE (\E g \in Files : Write(g)) \/ Tick \/ ServerTurns \/ UNCHANGED vars
  <2>1. UNCHANGED <<archive, copy>>
    BY <1>7 DEF Write, Tick, ServerTurns, vars, dirVars
  <2>2. QED
    BY <1>1, <1>4, <2>1
<1>8. QED
  BY <1>5, <1>6, <1>7 DEF Next, Step

\* A write makes a new content, and any other content that comes back to the game
\* comes from an archive: a content that was safe stays so.
LEMMA SafeStays ==
  ASSUME TypeOK, Progress, Writers, Entries, Contained, Archived, [Next]_vars,
         NEW f \in Files, NEW c \in Nat, c <= writes, Safe(f, c)
  PROVE  Safe(f, c)'
<1> SUFFICES ASSUME c # None, c = disk'[f] PROVE Saved(f, c)'
  BY DEF Safe
<1>1. CASE c = disk[f]
  BY <1>1, SavedStays DEF Safe
<1>2. ASSUME NEW o \in Ops, Step(o), c # disk[f] PROVE Saved(f, c)'
  <2>1. PICK a \in Ops : c = archive[a].files[f]
    BY <1>2, FilesMove
  <2>2. Saved(f, c)
    BY <2>1 DEF Archived, SafeHeld
  <2>3. QED
    BY <2>2, SavedStays
<1>3. ASSUME NEW g \in Files, Write(g), c # disk[f] PROVE FALSE
  <2>1. disk' = [disk EXCEPT ![g] = writes + 1] /\ writes \in Nat
    BY <1>3 DEF Write, TypeOK
  <2>2. c = writes + 1
    BY <1>3, <2>1 DEF TypeOK
  <2>3. QED
    BY <2>1, <2>2
<1>4. CASE Reboot \/ Tick \/ ServerTurns \/ UNCHANGED vars
  <2>1. disk' = disk
    BY <1>4 DEF Reboot, Tick, ServerTurns, vars
  <2>2. QED
    BY <1>1, <2>1
<1>5. QED
  BY <1>1, <1>2, <1>3, <1>4 DEF Next, Step

LEMMA NothingIsSafe == ASSUME NEW f PROVE Safe(f, None) /\ Safe(f, None)'
BY DEF Safe

\* A thread that ends has closed its archive.
LEMMA SavedByCloser ==
  ASSUME TypeOK, NEW o \in Ops, Close(o) \/ ThreadRaises(o), NEW f \in Files
  PROVE  Saved(f, copy[o][f])'
<1>1. Closed(o) /\ copy' = copy
  BY DEF Close, ThreadRaises
<1>2. \A a \in Ops : o \notin archive'[a].open
  BY <1>1, Closing
<1>3. QED
  BY <1>1, <1>2 DEF Saved

LEMMA HeldNext ==
  ASSUME TypeOK, Progress, Writers, Entries, Contained, Archived, [Next]_vars, NEW q \in Ops,
         NEW f \in Files
  PROVE  SafeHeld(q, f)'
<1>1. ASSUME NEW c, c = archive'[q].files[f], c # None PROVE Saved(f, c)'
  <2>1. CASE c = archive[q].files[f]
    BY <1>1, <2>1, SavedStays DEF Archived, SafeHeld
  <2>2. ASSUME NEW o \in Ops, Step(o), c # archive[q].files[f] PROVE Saved(f, c)'
    <3>1. (Close(o) \/ ThreadRaises(o)) /\ c = copy[o][f]
      BY <1>1, <2>2, ArchivesMove
    <3>2. copy' = copy
      BY <3>1 DEF Close, ThreadRaises
    <3>3. QED
      BY <3>1, <3>2, SavedByCloser
  <2>3. CASE Reboot
    BY <1>1, <2>1, <2>3, Rebooting
  <2>4. CASE (\E g \in Files : Write(g)) \/ Tick \/ ServerTurns \/ UNCHANGED vars
    <3>1. archive' = archive
      BY <2>4 DEF Write, Tick, ServerTurns, vars, dirVars
    <3>2. QED
      BY <1>1, <2>1, <3>1
  <2>5. QED
    BY <2>1, <2>2, <2>3, <2>4 DEF Next, Step
<1>2. ASSUME NEW c, c = old'[q][f] PROVE Safe(f, c)'
  <2>0. /\ old[q][f] \in Nat /\ old[q][f] <= writes /\ Safe(f, old[q][f])
        /\ manifest[f] \in Nat /\ manifest[f] <= writes /\ Safe(f, manifest[f])
    BY DEF TypeOK, Contents, Contained, Archived, SafeHeld
  <2>1. CASE c \in {old[q][f], manifest[f]}
    BY <2>0, <2>1, SafeStays
  <2>2. CASE c = None
    BY <2>2, NothingIsSafe
  <2>3. c \in {old[q][f], manifest[f], None}
    <3>1. ASSUME NEW o \in Ops, Step(o) PROVE old'[q] \in {old[q], manifest, Nothing}
      BY <3>1, ManifestsMove
    <3>2. CASE Reboot
      BY <1>2, <3>2 DEF Reboot, Nothing
    <3>3. CASE (\E g \in Files : Write(g)) \/ Tick \/ ServerTurns \/ UNCHANGED vars
      BY <1>2, <3>3 DEF Write, Tick, ServerTurns, vars, taskVars
    <3>4. QED
      BY <1>2, <3>1, <3>2, <3>3 DEF Next, Step, Nothing
  <2>4. QED
    BY <2>1, <2>2, <2>3
<1>3. QED
  BY <1>1, <1>2 DEF SafeHeld

LEMMA ManifestNext ==
  ASSUME TypeOK, Progress, Writers, Entries, Contained, Archived, [Next]_vars, NEW f \in Files
  PROVE  Safe(f, manifest[f])'
<1>1. \/ manifest' = manifest \/ manifest' = Nothing
      \/ \E o \in Ops : pc[o] = "save" /\ manifest' = seen[o]
  <2>1. ASSUME NEW o \in Ops, Step(o) PROVE manifest' = manifest \/ (pc[o] = "save" /\ manifest' = seen[o])
    BY <2>1, ManifestsMove
  <2>2. CASE Reboot
    <3>1. manifest' \in {manifest} \cup (IF \E o \in Ops : pc[o] = "save" THEN {Nothing} ELSE {})
      BY <2>2 DEF Reboot
    <3>2. QED
      BY <3>1
  <2>3. CASE (\E g \in Files : Write(g)) \/ Tick \/ ServerTurns \/ UNCHANGED vars
    BY <2>3 DEF Write, Tick, ServerTurns, vars
  <2>4. QED
    BY <2>1, <2>2, <2>3 DEF Next, Step
<1>2. ASSUME NEW c, c = manifest'[f] PROVE Safe(f, c)'
  <2>1. CASE manifest' = manifest
    <3>1. c \in Nat /\ c <= writes /\ Safe(f, c)
      BY <1>2, <2>1 DEF TypeOK, Contents, Contained, Archived
    <3>2. QED
      BY <3>1, SafeStays
  <2>2. CASE manifest' = Nothing
    BY <1>2, <2>2, NothingIsSafe DEF Nothing
  <2>3. ASSUME NEW o \in Ops, pc[o] = "save", manifest' = seen[o] PROVE Safe(f, c)'
    <3>1. c \in Nat /\ c <= writes /\ Safe(f, c)
      BY <1>2, <2>3 DEF TypeOK, Contents, Contained, Archived, SafeSeen
    <3>2. QED
      BY <3>1, SafeStays
  <2>4. QED
    BY <1>1, <2>1, <2>2, <2>3
<1>3. QED
  BY <1>2

\* What a request has hashed is in its archive, or was when it read the manifest.
LEMMA SeenStep ==
  ASSUME TypeOK, Progress, Writers, Entries, Contained, Archived, NEW o \in Ops, Step(o),
         NEW f \in Files
  PROVE  SafeSeen(o, f)'
<1>0. [Next]_vars
  BY DEF Next, Step
<1>1. pc'[o] \in {"idle", "load"} => seen'[o] = Nothing
  BY StepMakes DEF Archived, SafeSeen
<1>2. ASSUME NEW c, c \in {seen[o][f], old[o][f]}, Safe(f, c) PROVE Safe(f, c)'
  <2>1. c \in Nat /\ c <= writes
    BY <1>2 DEF TypeOK, Contents, Contained
  <2>2. QED
    BY <1>0, <1>2, <2>1, SafeStays
<1>3. ASSUME NEW c, c = seen'[o][f], pc'[o] = "save" PROVE Safe(f, c)'
  <2>1. Close(o)
    BY <1>3, StepMakes
  <2>2. pc[o] = "copy" /\ left[o] = {} /\ seen' = seen /\ copy' = copy
    BY <2>1 DEF Close, taskVars
  <2>3. CASE copy[o][f] # c
    <3>1. Safe(f, c)
      BY <1>3, <2>2, <2>3 DEF Archived, SafeSeen
    <3>2. QED
      BY <1>2, <1>3, <2>2, <3>1
  <2>4. CASE copy[o][f] = c
    <3>1. Saved(f, c)'
      BY <2>1, <2>2, <2>4, SavedByCloser
    <3>2. QED
      BY <3>1 DEF Safe
  <2>5. QED
    BY <2>3, <2>4
<1>4. ASSUME NEW c, c = seen'[o][f], pc'[o] = "open", f \notin left'[o] PROVE Safe(f, c)'
  <2>1. CASE Load(o)
    <3>1. seen[o] = Nothing /\ seen' = seen
      BY <2>1 DEF Load, Archived, SafeSeen
    <3>2. QED
      BY <1>4, <3>1, NothingIsSafe DEF Nothing
  <2>2. CASE Hash(o)
    <3>1. c = None \/ c = old[o][f]
      BY <1>4, <2>2, Hashing
    <3>2. Safe(f, old[o][f])
      BY DEF Archived, SafeHeld
    <3>3. QED
      BY <1>2, <3>1, <3>2, NothingIsSafe
  <2>3. QED
    BY <1>4, <2>1, <2>2, StepMakes
<1>5. ASSUME NEW c, c = seen'[o][f], pc'[o] = "copy", f \notin left'[o], copy'[o][f] # c PROVE Safe(f, c)'
  <2>1. CASE Open(o)
    <3>1. pc[o] = "open" /\ UNCHANGED <<left, copy, seen>>
      BY <2>1 DEF Open, taskVars
    <3>2. Safe(f, c)
      BY <1>5, <3>1 DEF Archived, SafeSeen
    <3>3. QED
      BY <1>2, <1>5, <3>1, <3>2
  <2>2. CASE Copy(o)
    <3>1. /\ pc[o] = "copy" /\ left[o] # {} /\ UNCHANGED <<seen, disk>>
          /\ copy' = [copy EXCEPT ![o][Walked(o)] = disk[Walked(o)]]
          /\ left' = [left EXCEPT ![o] = @ \ {Walked(o)}]
      BY <2>2 DEF Copy, taskVars
    <3>2. Walked(o) \in Files
      BY <3>1, WalkedLeft DEF TypeOK
    <3>3. CASE f = Walked(o)
      <4>1. copy'[o][f] = disk[f]
        BY <3>1, <3>2, <3>3 DEF TypeOK
      <4>2. c # disk'[f]
        BY <1>5, <3>1, <4>1
      <4>3. QED
        BY <4>2 DEF Safe
    <3>4. CASE f # Walked(o)
      <4>1. f \notin left[o] /\ copy'[o][f] = copy[o][f]
        BY <1>5, <3>1, <3>2, <3>4 DEF TypeOK
      <4>2. Safe(f, c)
        BY <1>5, <3>1, <4>1 DEF Archived, SafeSeen
      <4>3. QED
        BY <1>2, <1>5, <3>1, <4>2
    <3>5. QED
      BY <3>3, <3>4
  <2>3. QED
    BY <1>5, <2>1, <2>2, StepMakes
<1>6. QED
  BY <1>1, <1>3, <1>4, <1>5 DEF SafeSeen

LEMMA SeenNext ==
  ASSUME TypeOK, Progress, Writers, Entries, Contained, Archived, [Next]_vars, NEW q \in Ops,
         NEW f \in Files
  PROVE  SafeSeen(q, f)'
<1>1. ASSUME NEW c, c = seen[q][f], Safe(f, c) PROVE Safe(f, c)'
  <2>1. c \in Nat /\ c <= writes
    BY <1>1 DEF TypeOK, Contents, Contained
  <2>2. QED
    BY <1>1, <2>1, SafeStays
<1>2. ASSUME pc'[q] = pc[q], seen'[q] = seen[q], copy'[q] = copy[q], left'[q] = left[q]
      PROVE  SafeSeen(q, f)'
  <2>1. SafeSeen(q, f)
    BY DEF Archived
  <2>2. QED
    BY <1>1, <1>2, <2>1 DEF SafeSeen
<1>3. ASSUME NEW o \in Ops, Step(o) PROVE SafeSeen(q, f)'
  <2>1. CASE q = o
    BY <1>3, <2>1, SeenStep
  <2>2. CASE q # o
    BY <1>2, <1>3, <2>2, StepFrame
  <2>3. QED
    BY <2>1, <2>2
<1>4. CASE Reboot
  <2>1. pc'[q] \notin {"load", "open", "copy", "save"} /\ seen'[q] = Nothing
    BY <1>4, Rebooting DEF Reboot
  <2>2. QED
    BY <2>1 DEF SafeSeen
<1>5. CASE (\E g \in Files : Write(g)) \/ Tick \/ ServerTurns \/ UNCHANGED vars
  <2>1. UNCHANGED <<pc, seen, copy, left>>
    BY <1>5 DEF Write, Tick, ServerTurns, vars, taskVars
  <2>2. QED
    BY <1>2, <2>1
<1>6. QED
  BY <1>3, <1>4, <1>5 DEF Next, Step

LEMMA ArchivedInit == Init => Archived
BY NothingIsSafe DEF Init, Archived, SafeSeen, SafeHeld, Nothing

SkipInv == TypeOK /\ Progress /\ Writers /\ Entries /\ Contained /\ Archived

\* An incremental backup skips a file only when its present content was put into
\* an archive that was closed: the new manifest is saved after the archive, what
\* changes while a thread copies it has another hash, and contents come back to the
\* game only from archives.
THEOREM NothingSkippedIsLost == Spec => []SkippedIsArchived
<1>1. Init => SkipInv
  BY TypesInit, ProgressInit, WritersInit, EntriesInit, ContainedInit, ArchivedInit DEF SkipInv
<1>2. SkipInv /\ [Next]_vars => SkipInv'
  <2>1. TypeOK /\ Progress /\ Writers /\ Entries /\ Contained /\ Archived /\ [Next]_vars => Archived'
    BY HeldNext, SeenNext, ManifestNext DEF Archived
  <2>2. QED
    BY <2>1, TypesNext, ProgressNext, WritersNext, EntriesNext, ContainedNext DEF SkipInv
<1>3. SkipInv => SkippedIsArchived
  BY DEF SkipInv, Archived, Safe, Saved, SkippedIsArchived
<1>4. QED
  BY <1>1, <1>2, <1>3, PTL DEF Spec

-----------------------------------------------------------------------------
(* Backups implements ArchiveStore                                         *)

Past     == {o \in Ops : born[o] # 0}
Removing == {r \in rows : BeingRemoved(r)}
store    == <<Whole, rows, Past, Removing, Shared>>
Done     == {"save", "zipped", "commit"}

\* Of the backups whose name is their own, archives are whole from their end to
\* the request that removes them.
LEMMA WholeIs ==
  ArchivesInv => Whole = {r \in Ops : ~Twin(r) /\ (pc[r] \in Done \/ r \in rows \ Removing)}
<1> SUFFICES ASSUME ArchivesInv, NEW r \in Ops, ~Twin(r)
             PROVE  ((born[r] # 0 \/ pc[r] \in Done) /\ entry[name[r]] = r /\ Intact(r))
                      <=> (pc[r] \in Done \/ r \in rows \ Removing)
  BY DEF Whole, Done
<1>0. Made(r) /\ Entries /\ Progress /\ TypeOK
  BY DEF ArchivesInv, Kept
<1>1. ASSUME pc[r] \in Done PROVE entry[name[r]] = r /\ Intact(r)
  BY <1>0, <1>1 DEF Made, Done
<1>2. ASSUME r \in rows \ Removing PROVE born[r] # 0 /\ entry[name[r]] = r /\ Intact(r)
  BY <1>0, <1>2 DEF Made, Removing, Progress, Inserted
<1>3. ASSUME born[r] # 0, entry[name[r]] = r PROVE r \in rows \ Removing
  <2>1. name[r] \in Names
    BY <1>0, <1>3 DEF Progress, Advance
  <2>2. Belongs(r, name[r])
    BY <1>0, <1>3, <2>1, Basics DEF Entries, EntryFits
  <2>3. QED
    BY <1>3, <2>2 DEF Belongs, Removing
<1>4. QED
  BY <1>1, <1>2, <1>3

LEMMA WholeRemains ==
  ArchivesInv' => Whole' = {r \in Ops : ~Twin(r)' /\ (pc'[r] \in Done \/ r \in rows' \ Removing')}
<1>1. (ArchivesInv => Whole = {r \in Ops : ~Twin(r) /\ (pc[r] \in Done \/ r \in rows \ Removing)})'
  BY WholeIs, PTL
<1>2. QED
  BY <1>1 DEF Done

\* A backup whose thread is done has no row yet.
LEMMA DoneIsNew ==
  ASSUME ArchivesInv, NEW r \in Ops, pc[r] \in Done \cup {"copy", "load"}
  PROVE  born[r] = 0 /\ r \notin rows
BY DEF ArchivesInv, Progress, Advance, Making, Inserted, Done

LEMMA BornStays ==
  ASSUME NEW o \in Ops, Step(o)
  PROVE  /\ ~Commit(o) => born' = born
         /\ ~Load(o) => name' = name
<1>1. ASSUME ~Commit(o) PROVE born' = born
  BY <1>1 DEF Step, Request, TaskStep, rowVars, AskBackup, AskDelete, AskRestore, Load, ReadManifest,
       Hash, Open, Copy, Close, ThreadRaises, SaveManifest, Measure, Trim, Trimmed, Expire,
       Expired, Raised, Deleted, Check, Unzip, Extract, Extracted
<1>2. ASSUME ~Load(o) PROVE name' = name
  BY <1>2 DEF Step, Request, TaskStep, taskVars, AskBackup, AskDelete, AskRestore, ReadManifest,
       Hash, Open, Copy, Close, ThreadRaises, SaveManifest, Measure, Commit, Trim, Trimmed, Expire,
       Expired, Raised, Deleted, Check, Unzip, Extract, Extracted
<1>3. QED
  BY <1>1, <1>2

\* The clock may give a name that other backups have.
LEMMA StoreLoad ==
  ASSUME ArchivesInv, ArchivesInv', NEW o \in Ops, Load(o)
  PROVE  [Store!Next]_store
<1>0. TypeOK /\ Progress /\ Step(o) /\ pc[o] = "load" /\ name[o] = Unnamed /\ kind[o] \in Backing
  BY DEF ArchivesInv, Step, TaskStep, Load, Progress, Advance
<1>1. UNCHANGED <<rows, born, doomed, entry, archive, copy>> /\ pc'[o] \in {"manifest", "open"}
  BY <1>0 DEF Load, Goto, dirVars, rowVars, TypeOK
<1>2. UNCHANGED <<Past, Removing>>
  BY <1>1 DEF Past, Removing, BeingRemoved
<1>3. name'[o] \in Names /\ name'[o] # Unnamed
  BY <1>0, NewName, Basics DEF Load, TypeOK
<1>4. \A q \in Ops \ {o} : name'[q] = name[q] /\ pc'[q] = pc[q]
  BY <1>0, StepFrame
<1>5. ASSUME NEW r \in Ops \ {o}, name[r] # Unnamed
      PROVE  Twin(r)' <=> Twin(r) \/ name[r] = name'[o]
  BY <1>0, <1>4, <1>5 DEF Twin
<1>6. Shared \subseteq Shared' /\ o \notin Shared
  BY <1>0, <1>4, <1>5 DEF Shared
<1>7. Whole' = Whole \ Shared' /\ Whole \cap Shared = {} /\ o \notin Whole \cup Past
  <2>1. Whole = {r \in Ops : ~Twin(r) /\ (pc[r] \in Done \/ r \in rows \ Removing)}
        /\ Whole' = {r \in Ops : ~Twin(r)' /\ (pc'[r] \in Done \/ r \in rows' \ Removing')}
    BY WholeIs, WholeRemains
  <2>2. o \notin Whole \cup Past /\ o \notin Whole'
    BY <1>0, <1>1, <2>1, DoneIsNew DEF Done, Past
  <2>3. ASSUME NEW r \in Ops \ {o}, pc[r] \in Done \/ r \in rows PROVE name[r] # Unnamed
    BY <1>0, <2>3, Basics DEF Progress, Advance, Making, Inserted, Done
  <2>4. ASSUME NEW r \in Ops \ {o} PROVE r \in Whole' <=> r \in Whole \ Shared'
    BY <1>1, <1>2, <1>4, <1>5, <2>1, <2>3, <2>4 DEF Shared
  <2>5. Whole \cap Shared = {}
    BY <2>1 DEF Shared
  <2>6. QED
    BY <2>1, <2>2, <2>4, <2>5
<1>8. CASE Shared' = Shared
  BY <1>1, <1>2, <1>7, <1>8 DEF store
<1>9. CASE Shared' # Shared
  <2>1. PICK r \in Shared' : r \notin Shared
    BY <1>6, <1>9
  <2>2. o \in Shared'
    <3>1. CASE r # o
      <4>1. r \in Ops \ {o} /\ name[r] # Unnamed /\ ~Twin(r) /\ Twin(r)'
        BY <1>4, <2>1, <3>1 DEF Shared
      <4>2. name[r] = name'[o]
        BY <1>5, <4>1
      <4>3. QED
        BY <1>3, <1>4, <4>1, <4>2 DEF Shared, Twin
    <3>2. QED
      BY <2>1, <3>1
  <2>3. Store!Clash
    BY <1>1, <1>2, <1>6, <1>7, <2>2 DEF Store!Clash, Past, Removing
  <2>4. QED
    BY <2>3 DEF Store!Next
<1>10. QED
  BY <1>8, <1>9

LEMMA StoreRemoval ==
  ASSUME ArchivesInv, ArchivesInv', NEW o \in Ops, AskDelete(o) \/ Trim(o) \/ Expire(o)
  PROVE  Store!Remove
<1>0. TypeOK /\ Progress /\ Step(o)
  BY DEF ArchivesInv, Step, TaskStep, Request
<1>1. PICK gone \in SUBSET rows :
        /\ doomed[o] = {} /\ doomed'[o] = gone /\ UNCHANGED <<rows, born, name>>
        /\ pc'[o] \in {"deleting", "expire", "trimming", "expiring", "ended"}
  BY <1>0, Removal
<1>2. pc[o] \notin Done
  BY DEF AskDelete, Asked, Trim, Expire, Done
<1>3. \A q \in Ops \ {o} : pc'[q] = pc[q] /\ doomed'[q] = doomed[q]
  BY <1>0, StepFrame
<1>4. Removing' = Removing \cup gone
  BY <1>1, <1>3 DEF Removing, BeingRemoved
<1>5. UNCHANGED <<Past, Shared>> /\ \A r \in Ops : Twin(r)' <=> Twin(r)
  BY <1>1 DEF Past, Shared, Twin
<1>6. \A r \in Ops : pc'[r] \in Done <=> pc[r] \in Done
  BY <1>1, <1>2, <1>3 DEF Done
<1>7. \A r \in Ops : pc[r] \in Done => r \notin rows
  BY DoneIsNew
<1>8. Whole' = Whole \ Removing'
  <2>1. Whole = {r \in Ops : ~Twin(r) /\ (pc[r] \in Done \/ r \in rows \ Removing)}
        /\ Whole' = {r \in Ops : ~Twin(r)' /\ (pc'[r] \in Done \/ r \in rows' \ Removing')}
    BY WholeIs, WholeRemains
  <2>2. Removing' \subseteq rows
    BY <1>1 DEF Removing
  <2>3. ASSUME NEW r \in Ops PROVE r \in Whole' <=> r \in Whole \ Removing'
    BY <1>1, <1>4, <1>5, <1>6, <1>7, <2>1, <2>2
  <2>4. QED
    BY <2>1, <2>3
<1>9. QED
  BY <1>1, <1>4, <1>5, <1>8 DEF Store!Remove, Past, Removing

\* A commit of a deletion.
LEMMA StoreUnlist ==
  ASSUME ArchivesInv, ArchivesInv', NEW o \in Ops, Step(o), ~Load(o), ~Commit(o),
         rows' = rows \ doomed[o], doomed'[o] = {}, pc[o] \notin Done, pc'[o] \notin Done
  PROVE  Store!Unlist
<1>0. TypeOK /\ Progress
  BY DEF ArchivesInv
<1>1. UNCHANGED <<born, name>> /\ \A q \in Ops \ {o} : pc'[q] = pc[q] /\ doomed'[q] = doomed[q]
  BY <1>0, BornStays, StepFrame
<1>2. UNCHANGED <<Past, Shared>> /\ \A r \in Ops : Twin(r)' <=> Twin(r)
  BY <1>1 DEF Past, Shared, Twin
<1>3. rows \ rows' \subseteq Removing
  BY DEF Removing, BeingRemoved
<1>4. Removing' = Removing \cap rows'
  BY <1>1 DEF Removing, BeingRemoved
<1>5. \A r \in Ops : pc[r] \in Done => r \notin rows
  BY DoneIsNew
<1>6. Whole' = Whole /\ Whole \cap Removing = {}
  <2>1. Whole = {r \in Ops : ~Twin(r) /\ (pc[r] \in Done \/ r \in rows \ Removing)}
        /\ Whole' = {r \in Ops : ~Twin(r)' /\ (pc'[r] \in Done \/ r \in rows' \ Removing')}
    BY WholeIs, WholeRemains
  <2>2. \A r \in Ops : r \in rows \ Removing <=> r \in rows' \ Removing'
    BY <1>3, <1>4
  <2>3. \A r \in Ops : pc'[r] \in Done <=> pc[r] \in Done
    BY <1>1
  <2>4. Whole \cap Removing = {}
    BY <1>5, <2>1 DEF Removing
  <2>5. QED
    BY <1>2, <2>1, <2>2, <2>3, <2>4
<1>7. QED
  BY <1>2, <1>3, <1>4, <1>6 DEF Store!Unlist, Past, Removing

LEMMA StoreCommit ==
  ASSUME ArchivesInv, ArchivesInv', NEW o \in Ops, Commit(o)
  PROVE  Store!List
<1>0. TypeOK /\ Progress /\ Step(o) /\ pc[o] = "commit" /\ ~Load(o)
  BY DEF ArchivesInv, Step, TaskStep, Commit, Load
<1>1. /\ rows' = rows \cup {o} /\ UNCHANGED <<doomed, name>> /\ pc'[o] = "trim"
      /\ born'[o] # 0 /\ \A q \in Ops \ {o} : pc'[q] = pc[q] /\ born'[q] = born[q]
  <2>1. Cardinality(Inserted) \in Nat /\ born' = [born EXCEPT ![o] = 1 + Cardinality(Inserted)]
    BY <1>0, BornTyped
  <2>2. born'[o] # 0 /\ \A q \in Ops \ {o} : born'[q] = born[q]
    BY <1>0, <2>1 DEF TypeOK
  <2>3. \A q \in Ops \ {o} : pc'[q] = pc[q]
    BY <1>0, StepFrame
  <2>4. rows' = rows \cup {o} /\ UNCHANGED <<doomed, name>> /\ pc'[o] = "trim"
    BY <1>0 DEF Commit, Goto, TypeOK, taskVars
  <2>5. QED
    BY <2>2, <2>3, <2>4
<1>2. born[o] = 0 /\ o \notin rows /\ name[o] # Unnamed
  BY <1>0, DoneIsNew, Basics DEF Done, Progress, Advance, Making
<1>3. ~BeingRemoved(o)
  BY <1>0, <1>2 DEF BeingRemoved, Progress, Advance, Inserted
<1>4. Past' = Past \cup {o} /\ o \notin Past
  BY <1>1, <1>2 DEF Past
<1>5. Removing' = Removing
  BY <1>1, <1>3 DEF Removing, BeingRemoved
<1>6. UNCHANGED Shared /\ \A r \in Ops : Twin(r)' <=> Twin(r)
  BY <1>1 DEF Shared, Twin
<1>7. Whole' = Whole /\ o \in Whole \cup Shared
  <2>1. Whole = {r \in Ops : ~Twin(r) /\ (pc[r] \in Done \/ r \in rows \ Removing)}
        /\ Whole' = {r \in Ops : ~Twin(r)' /\ (pc'[r] \in Done \/ r \in rows' \ Removing')}
    BY WholeIs, WholeRemains
  <2>2. o \notin Removing
    BY <1>2 DEF Removing
  <2>3. ASSUME NEW r \in Ops PROVE r \in Whole' <=> r \in Whole
    BY <1>0, <1>1, <1>5, <1>6, <2>1, <2>2 DEF Done
  <2>4. o \in Whole \cup Shared
    BY <1>0, <1>2, <2>1 DEF Shared, Done
  <2>5. QED
    BY <2>1, <2>3, <2>4
<1>8. QED
  BY <1>1, <1>4, <1>5, <1>6, <1>7 DEF Store!List, Past, Removing

\* Any other step may end an archive, or a backup that has one.
LEMMA StoreEnds ==
  ASSUME ArchivesInv, ArchivesInv', UNCHANGED <<rows, born, doomed, name>>,
         \/ \A r \in Ops : pc'[r] \in Done => pc[r] \in Done
         \/ \A r \in Ops : pc[r] \in Done => pc'[r] \in Done
  PROVE  Store!Lose \/ Store!Keep
<1>1. UNCHANGED <<Past, Removing, Shared>> /\ \A r \in Ops : Twin(r)' <=> Twin(r)
  BY DEF Past, Removing, BeingRemoved, Shared, Twin
<1>2. Whole = {r \in Ops : ~Twin(r) /\ (pc[r] \in Done \/ r \in rows \ Removing)}
      /\ Whole' = {r \in Ops : ~Twin(r)' /\ (pc'[r] \in Done \/ r \in rows' \ Removing')}
  BY WholeIs, WholeRemains
<1>3. \A r \in Past : pc[r] \notin Done
  BY DoneIsNew DEF Past
<1>4. \A r \in Past : pc'[r] \notin Done
  BY <1>1 DEF ArchivesInv, Progress, Advance, Making, Done, Past
<1>5. CASE \A r \in Ops : pc'[r] \in Done => pc[r] \in Done
  <2>1. Whole' \subseteq Whole /\ Whole \cap Past \subseteq Whole'
    BY <1>1, <1>2, <1>3, <1>5
  <2>2. QED
    BY <1>1, <2>1 DEF Store!Lose, Past, Removing
<1>6. CASE \A r \in Ops : pc[r] \in Done => pc'[r] \in Done
  <2>1. Whole \subseteq Whole' /\ Whole' \cap Past \subseteq Whole
    BY <1>1, <1>2, <1>4, <1>6
  <2>2. QED
    BY <1>1, <2>1 DEF Store!Keep, Past, Removing
<1>7. QED
  BY <1>5, <1>6

LEMMA StoreStep ==
  ASSUME ArchivesInv, ArchivesInv', NEW o \in Ops, Step(o)
  PROVE  [Store!Next]_store
<1>0. TypeOK /\ Progress
  BY DEF ArchivesInv
<1>1. CASE Load(o)
  BY <1>1, StoreLoad
<1>2. CASE AskDelete(o) \/ Trim(o) \/ Expire(o)
  BY <1>2, StoreRemoval DEF Store!Next
<1>3. CASE Commit(o)
  BY <1>3, StoreCommit DEF Store!Next
<1>4. CASE Trimmed(o) \/ Expired(o) \/ Deleted(o)
  <2>1. rows' = rows \ doomed[o] /\ doomed'[o] = {} /\ pc[o] \notin Done /\ pc'[o] \notin Done /\ ~Load(o) /\ ~Commit(o)
    BY <1>0, <1>4 DEF Trimmed, Expired, Deleted, Goto, Finish, TypeOK, Done, Load, Commit
  <2>2. Store!Unlist
    BY <2>1, StoreUnlist
  <2>3. QED
    BY <2>2 DEF Store!Next
<1>5. CASE /\ ~Load(o) /\ ~AskDelete(o) /\ ~Trim(o) /\ ~Expire(o) /\ ~Commit(o)
           /\ ~Trimmed(o) /\ ~Expired(o) /\ ~Deleted(o)
  <2>1. UNCHANGED <<rows, born, doomed, name>>
    BY <1>5 DEF Step, Request, TaskStep, rowVars, taskVars, AskBackup, AskRestore, ReadManifest, Hash, Open,
           Copy, Close, ThreadRaises, SaveManifest, Measure, Raised, Check, Unzip, Extract, Extracted
  <2>2. \A q \in Ops \ {o} : pc'[q] = pc[q]
    BY <1>0, StepFrame
  <2>3. pc'[o] \in Done => pc[o] \in Done \/ Close(o)
    BY <1>0, StepTurn DEF Done
  <2>4. Close(o) => pc[o] \notin Done
    BY DEF Close, Done
  <2>5. \/ \A r \in Ops : pc'[r] \in Done => pc[r] \in Done
        \/ \A r \in Ops : pc[r] \in Done => pc'[r] \in Done
    BY <2>2, <2>3, <2>4
  <2>6. QED
    BY <2>1, <2>5, StoreEnds DEF Store!Next
<1>6. QED
  BY <1>1, <1>2, <1>3, <1>4, <1>5

\* BackupManager implements ArchiveStore, however backups of all types, trims, the
\* retention, deletions and restores overlap, fail and die with the manager.
THEOREM ImplementsStore == Spec => StoreSpec
<1>1. Init => Store!Init
  BY DEF Init, Store!Init, Whole, Shared
<1>2. ArchivesInv /\ ArchivesInv' /\ [Next]_vars => [Store!Next]_store
  <2> SUFFICES ASSUME ArchivesInv, ArchivesInv', [Next]_vars PROVE [Store!Next]_store
    OBVIOUS
  <2>1. ASSUME NEW o \in Ops, Step(o) PROVE [Store!Next]_store
    BY <2>1, StoreStep
  <2>2. CASE Reboot
    <3>1. UNCHANGED <<rows, born, doomed, name>> /\ \A r \in Ops : pc'[r] \in Done => pc[r] \in Done
      BY <2>2 DEF Reboot, rowVars, Done
    <3>2. QED
      BY <3>1, StoreEnds DEF Store!Next
  <2>3. CASE (\E f \in Files : Write(f)) \/ Tick \/ ServerTurns \/ UNCHANGED vars
    <3>1. UNCHANGED <<entry, archive, rows, born, doomed, name, pc, copy>>
      BY <2>3 DEF Write, Tick, ServerTurns, vars, dirVars, rowVars, taskVars
    <3>2. QED
      BY <3>1, StoreEnds DEF Store!Next
  <2>4. QED
    BY <2>1, <2>2, <2>3 DEF Next, Step
<1>3. QED
  BY <1>1, <1>2, ArchivesStable, PTL DEF Spec, StoreSpec, Store!Spec, store, Past, Removing
=============================================================================
