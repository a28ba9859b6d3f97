----------------------------- MODULE ModUpdater -----------------------------
(***************************************************************************)
(* The mods of ONE server with a Minecraft version and a loader            *)
(* (src/gsm/app/services/mod_updater.py): installation with dependencies,  *)
(* the check for updates, updates, removal, profiles, the cached list of   *)
(* conflicts, the newest Minecraft version that all mods support, and the  *)
(* import of a modpack (services/modpack_importer.py) whose mods are       *)
(* resolved later.  Nothing serialises these operations: a row is read, a  *)
(* file is removed or replaced, and the row is committed, with other       *)
(* operations at every await.                                              *)
(*                                                                         *)
(* A file is a project and a version of it: the names that Modrinth gives  *)
(* differ between versions, and so do their dependencies.  Whether a file  *)
(* is complete is not modelled.                                            *)
(***************************************************************************)
EXTENDS Integers, FiniteSets, Sequences, FiniteSetsExt, SequencesExt

CONSTANTS
  Projects,    \* projects on Modrinth
  Supports,    \* Supports[p]: the Minecraft versions that p has versions for
  Requires,    \* Requires[p][v]: the required dependencies of version v of p, in their order
  Moving,      \* the projects that publish new versions
  MaxVersion,  \* bound: the newest version
  Pack,        \* the projects of the modpack, each in its first version
  Overrides,   \* the projects of which its overrides hold the JAR of the first version
  AtStart,     \* the projects installed at the start
  NumOps,      \* bound: operations in a behaviour
  Kinds,       \* Kinds[r]: the kinds of operation that the r-th may be
  MaxCrashes   \* bound: deaths of the manager

Ops      == 1 .. NumOps
AllKinds == {"install", "apply", "save", "update", "all", "check", "remove", "conflicts", "resolve", "import", "newest"}

Versions == 1 .. MaxVersion
Unknown  == 0             \* the version of a mod whose project is "imported", or whose lookup failed
None     == 0             \* no Minecraft version
MaxDepth == 10            \* of the dependencies that are followed

ASSUME BoundAssumption == NumOps \in Nat \ {0} /\ MaxVersion \in Nat \ {0} /\ MaxCrashes \in Nat
ASSUME ProjectAssumption ==
  /\ Requires \in [Projects -> [Versions -> Seq(Projects)]] /\ Moving \subseteq Projects
  /\ Supports \in [Projects -> SUBSET (Nat \ {0})]
  /\ IsFiniteSet(Projects) /\ Pack \cup Overrides \subseteq Projects /\ AtStart \subseteq Projects
ASSUME KindAssumption == Kinds \in [Ops -> SUBSET AllKinds]

VARIABLES
  published,  \* published[p]: the newest version of p
  row,        \* the rows of the mods: a function from their ids
  nextId,     \* the id of the next row
  files,      \* the files in the directory of the mods
  profile,    \* the projects of the saved profile, in the order of its rows
  cached,     \* the rows that the cached conflicts were computed from; {}: nothing cached, or no conflict
  pc,         \* pc[r]: what operation r awaits
  kind,       \* kind[r]: what operation r is
  work,       \* work[r]: what r has read, and has still to do
  newest,     \* the Minecraft version stored as the newest that all mods support
  crashes,    \* deaths of the manager
  twin,       \* history: projects that had two rows
  tangled,    \* history: projects that two operations worked on at once, or whose operation died
  left,       \* history: files that a failing commit or import left without their row, or that
              \* a failing removal took from their row
  excused,    \* history: dependencies that were removed or not found
  unlooked,   \* history: the rows of a version whose dependencies were never looked up
  stale,      \* history: the mods changed while the conflicts were computed
  basis       \* history: the projects that newest was computed for; {}: not computed, or a lookup failed

dbVars   == <<row, nextId>>
opVars   == <<pc, kind, work>>
histVars == <<twin, tangled, left, excused, unlooked, stale, basis>>
vars     == <<published, dbVars, files, profile, cached, opVars, newest, crashes, histVars>>

Rows    == DOMAIN row
File(m) == <<m.proj, m.fv>>
Known   == {row[i].proj : i \in {j \in Rows : row[j].known}}

\* snap: rows as they were read; todo: what is left to install; targets: the
\* projects asked for; broken: the session was rolled back; ids: rows left to update, or
\* projects that have their file; at: the versions whose dependencies are looked up.
NoWork == [snap |-> <<>>, todo |-> <<>>, targets |-> <<>>, broken |-> FALSE, ids |-> {}, v |-> 0, at |-> <<>>]

Goto(r, next)  == pc' = [pc EXCEPT ![r] = next]
Work(r, w)     == work' = [work EXCEPT ![r] = w]
End(r)         == Goto(r, "ended") /\ Work(r, NoWork)
Snap(r)        == CHOOSE i \in DOMAIN work[r].snap : TRUE  \* the row that an update or a removal has read

Asked(r, k) ==
  /\ pc[r] = "idle" /\ k \in Kinds[r] /\ \A q \in 1 .. (r - 1) : pc[q] # "idle"
  /\ kind' = [kind EXCEPT ![r] = k]

\* The projects whose file or row operation r is at.
Touched(r) ==
  IF pc[r] \in {"place", "commit"} THEN {Head(work[r].todo)}
  ELSE IF pc[r] \in {"versions", "download", "store", "unlink", "erase"}
    THEN {work[r].snap[i].proj : i \in DOMAIN work[r].snap}
  ELSE IF pc[r] \in {"entries", "register"} THEN Pack \cup Overrides ELSE {}

\* Operation r begins to work on the projects ps.
Meets(r, ps) ==
  tangled' = tangled \cup {p \in ps : \E q \in Ops \ {r} : p \in Touched(q)}

Init ==
  /\ published \in [Projects -> Versions] /\ \A p \in Projects \ Moving : published[p] = 1
  /\ row = [i \in 1 .. Cardinality(AtStart) |->
              LET p == SetToSeq(AtStart)[i] IN
              [proj |-> p, known |-> TRUE, version |-> 1, fv |-> 1, avail |-> published[p] > 1, top |-> None]]
  /\ nextId = Cardinality(AtStart) + 1 /\ files = {<<p, 1>> : p \in AtStart}
  /\ profile = <<>> /\ cached = {} /\ crashes = 0 /\ newest = None /\ basis = {}
  /\ pc = [r \in Ops |-> "idle"] /\ kind = [r \in Ops |-> "none"] /\ work = [r \in Ops |-> NoWork]
  /\ twin = {} /\ tangled = {} /\ left = {} /\ unlooked = {} /\ stale = FALSE
  /\ excused = {q \in Projects : \E p \in AtStart : q \in Range(Requires[p][1])} \ AtStart

Publish(p) ==
  /\ p \in Moving /\ published[p] < MaxVersion
  /\ published' = [published EXCEPT ![p] = @ + 1]
  /\ UNCHANGED <<dbVars, files, profile, cached, opVars, newest, crashes, histVars>>

-----------------------------------------------------------------------------
(* Installation                                                            *)

\* What _resolve_dependencies has seen, and what it will install.
Lists == [seen : SUBSET Projects, list : Seq(Projects)]

\* The projects qs are followed one after the other.
InTurn(deeper, st, qs) == FoldLeft(LAMBDA acc, q : deeper[<<q, acc>>], st, qs)

\* What the projects require in the versions at.
Needs(at) == [p \in Projects |-> IF at[p] = Unknown THEN <<>> ELSE Requires[p][at[p]]]

\* What is already resolved or installed is left out, dependencies come before
\* what requires them: theirs are followed by deeper.  bad = <<p, how>>: the lookup
\* of the versions of p fails or finds none ("early"), or that of its title ("late").
After(p, st, deeper, inst, bad, needs) ==
  IF p \in st.seen \cup inst THEN st
  ELSE LET seen == [st EXCEPT !.seen = @ \cup {p}]
           subs == InTurn(deeper, seen, needs[p])
       IN IF bad = <<p, "early">> THEN seen
          ELSE IF bad = <<p, "late">> THEN subs
          ELSE [subs EXCEPT !.list = Append(@, p)]

\* Nothing is followed beyond the depth.
Resolve(inst, bad, needs) ==
  LET Level[n \in 0 .. MaxDepth + 1] ==
        [x \in Projects \X Lists |-> IF n = 0 THEN x[2] ELSE After(x[1], x[2], Level[n - 1], inst, bad, needs)]
  IN Level[MaxDepth + 1]

\* What is installed: the list without its last member, then the target.
Resolved(p, inst, bad, needs) ==
  LET st == Resolve(inst, bad, needs)[<<p, [seen |-> {}, list |-> <<>>]>>] IN
  IF st.list = <<>> THEN <<p>> ELSE Append(Front(st.list), p)

Install(r) ==
  /\ Asked(r, "install")
  /\ \E p \in Projects : Work(r, [NoWork EXCEPT !.targets = <<p>>, !.at = published])
  /\ Goto(r, "resolve")
  /\ UNCHANGED <<published, dbVars, files, profile, cached, newest, crashes, histVars>>

\* apply_profile installs the projects of the profile one by one.
Apply(r) ==
  /\ Asked(r, "apply") /\ profile # <<>>
  /\ Work(r, [NoWork EXCEPT !.targets = profile, !.at = published])
  /\ Goto(r, "resolve")
  /\ UNCHANGED <<published, dbVars, files, profile, cached, newest, crashes, histVars>>

\* The versions that r has looked up, one after the other since it began.
LookedUp(r) == {at \in [Projects -> Versions] : \A p \in Projects : at[p] \in work[r].at[p] .. published[p]}

\* The installed projects are read and the dependencies of the next target resolved.
\* Nobody knows what it requires itself when it is installed already, or its lookup fails.
ResolveTarget(r) ==
  LET p == Head(work[r].targets)
      Seen(at, blind) == IF blind \/ p \in Known THEN [at EXCEPT ![p] = Unknown] ELSE at
  IN
  /\ pc[r] = "resolve"
  /\ \E at \in LookedUp(r) :
       \/ /\ Work(r, [work[r] EXCEPT !.todo = Resolved(p, Known, <<>>, Needs(at)), !.broken = FALSE,
                                     !.at = Seen(at, FALSE)])
          /\ UNCHANGED excused
       \/ \E q \in Projects, how \in {"early", "late"} :
            /\ Work(r, [work[r] EXCEPT !.todo = Resolved(p, Known, <<q, how>>, Needs(at)), !.broken = FALSE,
                                       !.at = Seen(at, q = p)])
            /\ excused' = excused \cup ({q} \ {p})
  /\ Goto(r, "fetch")
  /\ UNCHANGED <<published, dbVars, files, profile, cached, kind, newest, crashes, twin, tangled, left, unlooked,
                 stale, basis>>

\* On to what is left to install, or to the next target.
Advance(r, broken) ==
  LET w == work[r] IN
  IF Len(w.todo) > 1
    THEN Goto(r, "fetch") /\ Work(r, [w EXCEPT !.todo = Tail(@), !.broken = broken])
  ELSE IF Len(w.targets) > 1
    THEN Goto(r, "resolve") /\ Work(r, [w EXCEPT !.targets = Tail(@), !.todo = <<>>, !.at = published])
  ELSE End(r)

\* Mutant: what follows a failed dependency is installed.
FailedGoesOn(r) == Advance(r, FALSE)

\* An exception is logged and the session rolled back.  The rollback expires
\* the row of the server: reading its version raises, and fails what follows.
Failed(r) == Advance(r, TRUE)

Fetch(r) ==
  LET p == Head(work[r].todo) IN
  /\ pc[r] = "fetch"
  /\ \/ Failed(r) /\ UNCHANGED <<excused, tangled>>
     \/ ~work[r].broken /\ Advance(r, FALSE) /\ excused' = excused \cup {p}   \* no version, or no file
        /\ UNCHANGED tangled
     \/ /\ ~work[r].broken
        /\ Work(r, [work[r] EXCEPT !.v = published[p]]) /\ Goto(r, "place")
        /\ Meets(r, {p}) /\ UNCHANGED excused
  /\ UNCHANGED <<published, dbVars, files, profile, cached, kind, newest, crashes, twin, left, unlooked, stale, basis>>

\* _download_file: the file is complete and verified when it gets its name.
Place(r) ==
  /\ pc[r] = "place"
  /\ \/ Failed(r) /\ UNCHANGED files
     \/ /\ files' = files \cup {<<Head(work[r].todo), work[r].v>>}
        /\ Goto(r, "commit") /\ UNCHANGED work
  /\ UNCHANGED <<published, dbVars, profile, cached, kind, newest, crashes, histVars>>

\* Conflicts that are being computed are not those of the mods any more.
Disturbed == stale' = (stale \/ \E q \in Ops : pc[q] = "metadata")

Added(ps) == twin' = twin \cup {p \in ps : \E i \in Rows : row[i].proj = p}

\* The version is the newest, not the one whose dependencies were looked up.
Commit(r) ==
  LET p == Head(work[r].todo) IN
  /\ pc[r] = "commit"
  /\ row' = [i \in Rows \cup {nextId} |-> IF i \in Rows THEN row[i]
               ELSE [proj |-> p, known |-> TRUE, version |-> work[r].v, fv |-> work[r].v, avail |-> FALSE,
                     top |-> None]]
  /\ unlooked' = IF work[r].v = work[r].at[p] THEN unlooked ELSE unlooked \cup {nextId}
  /\ nextId' = nextId + 1 /\ cached' = {} /\ Added({p}) /\ Disturbed
  /\ Advance(r, FALSE)
  /\ UNCHANGED <<published, files, profile, kind, newest, crashes, tangled, left, excused, basis>>

\* The file stays.
CommitFails(r) ==
  /\ pc[r] = "commit"
  /\ left' = left \cup {<<Head(work[r].todo), work[r].v>>}
  /\ Failed(r)
  /\ UNCHANGED <<published, dbVars, files, profile, cached, kind, newest, crashes, twin, tangled, excused, unlooked,
                 stale, basis>>

-----------------------------------------------------------------------------
(* Updates                                                                 *)

\* A user's update of one mod, or of every mod that has one.
Update(r) ==
  LET due == {i \in Rows : row[i].avail} IN
  /\ \/ Asked(r, "update") /\ \E i \in due : Work(r, [NoWork EXCEPT !.ids = {i}])
     \/ Asked(r, "all") /\ due # {} /\ Work(r, [NoWork EXCEPT !.ids = due])
  /\ Goto(r, "versions")
  /\ UNCHANGED <<published, dbVars, files, profile, cached, newest, crashes, histVars>>

\* On to the next mod.
NextUpdate(r) ==
  IF work[r].ids = {} THEN End(r)
  ELSE Goto(r, "versions") /\ Work(r, [NoWork EXCEPT !.ids = work[r].ids])

\* The row is read, with others in between: the mod may be gone or up to date.
Read(r) ==
  /\ pc[r] = "versions" /\ work[r].snap = <<>>
  /\ \E i \in work[r].ids :
       LET w == [work[r] EXCEPT !.ids = @ \ {i}] IN
       IF i \in Rows /\ row[i].avail
         THEN Work(r, [w EXCEPT !.snap = [j \in {i} |-> row[j]]]) /\ Meets(r, {row[i].proj}) /\ UNCHANGED pc
         ELSE /\ IF w.ids = {} THEN End(r) ELSE Work(r, w) /\ UNCHANGED pc
              /\ UNCHANGED tangled
  /\ UNCHANGED <<published, dbVars, files, profile, cached, kind, newest, crashes, twin, left, excused, unlooked,
                 stale, basis>>

\* The versions are there, or the update ends; the old file goes before the new one comes.
UnlinkOld(r) ==
  /\ pc[r] = "versions" /\ work[r].snap # <<>>
  /\ \/ NextUpdate(r) /\ UNCHANGED files
     \/ /\ files' = files \ {File(work[r].snap[Snap(r)])}
        /\ Work(r, [work[r] EXCEPT !.v = published[work[r].snap[Snap(r)].proj]])
        /\ Goto(r, "download")
  /\ UNCHANGED <<published, dbVars, profile, cached, kind, newest, crashes, histVars>>

\* Mutant: a failed download is not noticed.
DownloadQuietly(r) ==
  /\ pc[r] = "download"
  /\ files' \in {files, files \cup {<<work[r].snap[Snap(r)].proj, work[r].v>>}}
  /\ Goto(r, "store") /\ UNCHANGED work
  /\ UNCHANGED <<published, dbVars, profile, cached, kind, newest, crashes, histVars>>

Download(r) ==
  /\ pc[r] = "download"
  /\ \/ NextUpdate(r) /\ UNCHANGED files
     \/ /\ files' = files \cup {<<work[r].snap[Snap(r)].proj, work[r].v>>}
        /\ Goto(r, "store") /\ UNCHANGED work
  /\ UNCHANGED <<published, dbVars, profile, cached, kind, newest, crashes, histVars>>

\* Only the columns that differ from what was read are written.  Nobody looks for
\* the dependencies of the version.
Store(r) ==
  LET i == Snap(r)
      m == work[r].snap[i]
      v == work[r].v
  IN /\ pc[r] = "store" /\ i \in Rows
     /\ row' = [row EXCEPT ![i].version = IF v = m.version THEN @ ELSE v,
                           ![i].fv = IF v = m.fv THEN @ ELSE v, ![i].avail = FALSE]
     /\ unlooked' = IF v = m.version THEN unlooked ELSE unlooked \cup {i}
     /\ NextUpdate(r)
     /\ UNCHANGED <<published, nextId, files, profile, cached, kind, newest, crashes, twin, tangled, left, excused,
                    stale, basis>>

\* The commit fails, as it does for a row that is gone; the new file stays.
StoreFails(r) ==
  /\ pc[r] = "store"
  /\ left' = left \cup {<<work[r].snap[Snap(r)].proj, work[r].v>>}
  /\ NextUpdate(r)
  /\ UNCHANGED <<published, dbVars, files, profile, cached, kind, newest, crashes, twin, tangled, excused, unlooked,
                 stale, basis>>

-----------------------------------------------------------------------------
(* The check for updates                                                   *)

\* check_updates reads the rows of the mods with auto_update, the known ones.
Check(r) ==
  /\ Asked(r, "check")
  /\ Work(r, [NoWork EXCEPT !.snap = [i \in {j \in Rows : row[j].known} |-> row[i]]])
  /\ Goto(r, "answers")
  /\ UNCHANGED <<published, dbVars, files, profile, cached, newest, crashes, histVars>>

\* The versions of every mod, of which those of one may be missing; snap keeps the rows to write.
Answers(r) ==
  /\ pc[r] = "answers"
  /\ \E lost \in {{}} \cup {{i} : i \in DOMAIN work[r].snap} :
       Work(r, [work[r] EXCEPT !.snap =
                  [i \in DOMAIN work[r].snap \ lost |->
                     LET m == work[r].snap[i] IN [m EXCEPT !.avail = (published[m.proj] # m.version /\ ~m.avail)]]])
  /\ Goto(r, "flags")
  /\ UNCHANGED <<published, dbVars, files, profile, cached, kind, newest, crashes, histVars>>

\* One commit for all: it fails if one of the rows is gone.  It raises flags, never lowers one.
Flags(r) ==
  LET snap == work[r].snap IN
  /\ pc[r] = "flags"
  /\ row' = IF DOMAIN snap \subseteq Rows
              THEN [i \in Rows |-> IF i \in DOMAIN snap /\ snap[i].avail THEN [row[i] EXCEPT !.avail = TRUE]
                                   ELSE row[i]]
              ELSE row
  /\ End(r)
  /\ UNCHANGED <<published, nextId, files, profile, cached, kind, newest, crashes, histVars>>

-----------------------------------------------------------------------------
(* Removal, conflicts and profiles                                         *)

RemoveMod(r) ==
  /\ Asked(r, "remove")
  /\ \E i \in Rows : Work(r, [NoWork EXCEPT !.snap = [j \in {i} |-> row[j]]]) /\ Meets(r, {row[i].proj})
  /\ Goto(r, "unlink")
  /\ UNCHANGED <<published, dbVars, files, profile, cached, newest, crashes, twin, left, excused, unlooked,
                 stale, basis>>

Unlink(r) ==
  /\ pc[r] = "unlink"
  /\ files' = files \ {File(work[r].snap[Snap(r)])}
  /\ Goto(r, "erase")
  /\ UNCHANGED <<published, dbVars, profile, cached, kind, work, newest, crashes, histVars>>

\* Mutant: the cached conflicts stay.
EraseKeepsCache(r) ==
  /\ pc[r] = "erase"
  /\ row' = [i \in Rows \ {Snap(r)} |-> row[i]]
  /\ excused' = excused \cup {work[r].snap[Snap(r)].proj} /\ Disturbed
  /\ End(r)
  /\ UNCHANGED <<published, nextId, files, profile, cached, kind, newest, crashes, twin, tangled, left, unlooked,
                 basis>>

Erase(r) ==
  /\ pc[r] = "erase"
  /\ row' = [i \in Rows \ {Snap(r)} |-> row[i]]
  /\ cached' = {}
  /\ excused' = excused \cup {work[r].snap[Snap(r)].proj} /\ Disturbed
  /\ End(r)
  /\ UNCHANGED <<published, nextId, files, profile, kind, newest, crashes, twin, tangled, left, unlooked, basis>>

\* The row stays, without its file.
EraseFails(r) ==
  /\ pc[r] = "erase"
  /\ left' = left \cup {File(work[r].snap[Snap(r)])}
  /\ End(r)
  /\ UNCHANGED <<published, dbVars, files, profile, cached, kind, newest, crashes, twin, tangled, excused, unlooked,
                 stale, basis>>

\* check_conflicts, when nothing is cached: the known mods are read.
Conflicts(r) ==
  /\ Asked(r, "conflicts") /\ cached = {}
  /\ Work(r, [NoWork EXCEPT !.ids = {i \in Rows : row[i].known}]) /\ Goto(r, "metadata")
  /\ stale' = IF \A q \in Ops : pc[q] # "metadata" THEN FALSE ELSE stale
  /\ UNCHANGED <<published, dbVars, files, profile, cached, newest, crashes, twin, tangled, left, excused, unlooked,
                 basis>>

\* Their conflicts are cached for an hour: none when the metadata cannot be had.
Metadata(r) ==
  /\ pc[r] = "metadata"
  /\ cached' \in {{}, work[r].ids}
  /\ End(r)
  /\ UNCHANGED <<published, dbVars, files, profile, kind, newest, crashes, histVars>>

\* The hour is over.
Expire ==
  /\ cached # {} /\ cached' = {}
  /\ UNCHANGED <<published, dbVars, files, profile, opVars, newest, crashes, histVars>>

\* Rows as a query lists them, by their ids.
InOrder(ids) == [n \in 1 .. Cardinality(ids) |-> CHOOSE i \in ids : Cardinality({j \in ids : j <= i}) = n]

\* save_profile; a mod whose project is not known could not be installed from it.
Save(r) ==
  /\ Asked(r, "save")
  /\ profile' = LET ids == InOrder({i \in Rows : row[i].known}) IN
                [n \in DOMAIN ids |-> row[ids[n]].proj]
  /\ Goto(r, "ended")
  /\ UNCHANGED <<published, dbVars, files, cached, work, newest, crashes, histVars>>

-----------------------------------------------------------------------------
(* The newest version that all mods support                                *)

\* The mods that are known are read.
FindNewest(r) ==
  /\ Asked(r, "newest")
  /\ Work(r, [NoWork EXCEPT !.snap = [i \in {j \in Rows : row[j].known} |-> row[i]]])
  /\ Goto(r, "supported")
  /\ UNCHANGED <<published, dbVars, files, profile, cached, newest, crashes, histVars>>

Newest(vs) == IF vs = {} THEN None ELSE Max(vs)

\* The sets of a sequence are intersected, beginning again after an empty one.
Restarted(sets) == FoldLeft(LAMBDA acc, s : IF s = {} THEN acc ELSE IF acc = {} THEN s ELSE acc \cap s, {}, sets)

\* Mutant: the intersection begins again in any case.
CommonRestarted(sets) == Restarted(sets)

\* What is in every set of a sequence.
Shared(sets) == FoldLeft(LAMBDA acc, s : acc \cap s, Head(sets), sets)

\* What the mods have in common: when one has no version the others count.
Common(sets) == IF sets = <<>> \/ {} \in Range(sets) THEN Restarted(sets) ELSE Shared(sets)

\* The versions of every mod, none for one whose lookup fails: what each
\* supports at most (its top), and the newest that they have in common.
Supported(r) ==
  LET snap == work[r].snap
      ids  == InOrder(DOMAIN snap)
  IN /\ pc[r] = "supported"
     /\ \E lost \in {{}} \cup {{i} : i \in DOMAIN snap} :
          LET Of(i) == IF i \in lost THEN {} ELSE Supports[snap[i].proj] IN
          Work(r, [work[r] EXCEPT
            !.snap = [i \in DOMAIN snap |-> [snap[i] EXCEPT !.top = Newest(Of(i))]],
            !.v    = Newest(Common([n \in DOMAIN ids |-> Of(ids[n])])),
            !.broken = \E i \in DOMAIN snap : Of(i) = {}])
     /\ Goto(r, "newest")
     /\ UNCHANGED <<published, dbVars, files, profile, cached, kind, newest, crashes, histVars>>

\* update_max_compatible_version: the rows that there are now are matched by name.
StoreNewest(r) ==
  LET snap == work[r].snap
      Same(i) == {j \in DOMAIN snap : snap[j].proj = row[i].proj}
  IN /\ pc[r] = "newest"
     /\ newest' = work[r].v
     /\ row' = [i \in Rows |-> IF Same(i) = {} THEN row[i] ELSE [row[i] EXCEPT !.top = snap[Max(Same(i))].top]]
     /\ basis' = IF work[r].broken THEN {} ELSE {snap[i].proj : i \in DOMAIN snap}
     /\ End(r)
     /\ UNCHANGED <<published, nextId, files, profile, cached, kind, crashes, twin, tangled, left, excused, unlooked,
                    stale>>

-----------------------------------------------------------------------------
(* Modpacks                                                                *)

Jars(ps) == {<<p, 1>> : p \in ps}

Import(r) ==
  /\ Asked(r, "import")
  /\ Work(r, [NoWork EXCEPT !.todo = SetToSeq(Pack)]) /\ Goto(r, "entries") /\ Meets(r, Pack \cup Overrides)
  /\ UNCHANGED <<published, dbVars, files, profile, cached, newest, crashes, twin, left, excused, unlooked,
                 stale, basis>>

\* import_mrpack: an entry gets its file, to be committed with its row at the end, or
\* is left out; a write that fails leaves a part.
Entry(r) ==
  LET p == Head(work[r].todo)
      w == [work[r] EXCEPT !.todo = Tail(@)]
  IN /\ pc[r] = "entries" /\ work[r].todo # <<>>
     /\ \/ files' = files \cup Jars({p}) /\ Work(r, [w EXCEPT !.ids = @ \cup {p}]) /\ UNCHANGED left
        \/ Work(r, w) /\ UNCHANGED <<files, left>>
        \/ Work(r, w) /\ files' = files \cup Jars({p}) /\ left' = left \cup Jars({p})
     /\ UNCHANGED <<published, dbVars, profile, cached, pc, kind, newest, crashes, twin, tangled, excused, unlooked,
                    stale, basis>>

\* Overrides are written as they are, also those that are JARs: they get no row.
\* When one cannot be written nothing is committed.
Override(r) ==
  /\ pc[r] = "entries" /\ work[r].todo = <<>>
  /\ \E ps \in SUBSET Overrides :
       /\ files' = files \cup Jars(ps)
       /\ \/ ps = Overrides /\ Goto(r, "register") /\ UNCHANGED work /\ left' = left \cup Jars(ps)
          \/ End(r) /\ left' = left \cup Jars(ps \cup work[r].ids)
  /\ UNCHANGED <<published, dbVars, profile, cached, kind, newest, crashes, twin, tangled, excused, unlooked, stale,
                 basis>>

\* The rows come with one commit.
Register(r) ==
  LET new == SetToSeq(work[r].ids) IN
  /\ pc[r] = "register"
  /\ row' = [i \in Rows \cup nextId .. (nextId + Len(new) - 1) |-> IF i \in Rows THEN row[i]
               ELSE [proj |-> new[i - nextId + 1], known |-> FALSE, version |-> Unknown, fv |-> 1, avail |-> FALSE,
                     top |-> None]]
  /\ nextId' = nextId + Len(new) /\ Added(Range(new)) /\ Disturbed
  /\ End(r)
  /\ UNCHANGED <<published, files, profile, cached, kind, newest, crashes, tangled, left, excused, unlooked, basis>>

\* Another exception, or a commit that fails: no row comes, the files stay.
ImportFails(r) ==
  /\ pc[r] \in {"entries", "register"}
  /\ left' = left \cup Jars(work[r].ids)
  /\ End(r)
  /\ UNCHANGED <<published, dbVars, files, profile, cached, kind, newest, crashes, twin, tangled, excused, unlooked,
                 stale, basis>>

\* resolve_imported_mods: the files of the mods that are not known are hashed.
Hash(r) ==
  /\ Asked(r, "resolve")
  /\ Work(r, [NoWork EXCEPT !.snap = [i \in {j \in Rows : ~row[j].known /\ File(row[j]) \in files} |-> row[i]]])
  /\ Goto(r, "hashes")
  /\ UNCHANGED <<published, dbVars, files, profile, cached, newest, crashes, histVars>>

\* Those that Modrinth knows get their project and version, with one commit,
\* and are then checked for updates.  Nobody looks for their dependencies.
Hashes(r) ==
  /\ pc[r] = "hashes"
  /\ \E found \in SUBSET DOMAIN work[r].snap :
       IF found # {} /\ found \subseteq Rows
         THEN /\ row' = [i \in Rows |-> IF i \in found THEN [row[i] EXCEPT !.known = TRUE, !.version = row[i].fv]
                                        ELSE row[i]]
              /\ unlooked' = unlooked \cup found
              /\ Work(r, [NoWork EXCEPT !.snap = [i \in {j \in Rows : row'[j].known} |-> row'[i]]])
              /\ Goto(r, "answers")
         ELSE UNCHANGED <<row, unlooked>> /\ End(r)
  /\ UNCHANGED <<published, nextId, files, profile, cached, kind, newest, crashes, twin, tangled, left, excused,
                 stale, basis>>

-----------------------------------------------------------------------------
\* The manager dies: its cache and its operations are lost.
Crash ==
  /\ crashes < MaxCrashes /\ crashes' = crashes + 1
  /\ cached' = {}
  /\ tangled' = tangled \cup
       UNION {Touched(r) : r \in {q \in Ops : pc[q] \in {"commit", "store", "erase", "entries", "register"}}}
  /\ pc' = [r \in Ops |-> IF pc[r] = "idle" THEN "idle" ELSE "ended"]
  /\ work' = [r \in Ops |-> NoWork]
  /\ UNCHANGED <<published, dbVars, files, profile, kind, newest, twin, left, excused, unlooked, stale, basis>>

Operation(r) ==
  \/ Install(r) \/ Apply(r) \/ ResolveTarget(r) \/ Fetch(r) \/ Place(r) \/ Commit(r) \/ CommitFails(r)
  \/ Update(r) \/ Read(r) \/ UnlinkOld(r) \/ Download(r) \/ Store(r) \/ StoreFails(r)
  \/ Check(r) \/ Answers(r) \/ Flags(r) \/ RemoveMod(r) \/ Unlink(r) \/ Erase(r) \/ EraseFails(r)
  \/ Conflicts(r) \/ Metadata(r) \/ Save(r)
  \/ FindNewest(r) \/ Supported(r) \/ StoreNewest(r)
  \/ Import(r) \/ Entry(r) \/ Override(r) \/ Register(r) \/ ImportFails(r) \/ Hash(r) \/ Hashes(r)

Next ==
  \/ \E r \in Ops : Operation(r)
  \/ \E p \in Projects : Publish(p)
  \/ Expire
  \/ Crash

Spec == Init /\ [][Next]_vars

-----------------------------------------------------------------------------
(* Properties                                                              *)

\* Once the operations on a project have ended, its mod has its file, unless an
\* update of it failed and is still offered, and there is no other file of it:
\* lookups and downloads that fail leave nothing behind.  Left out are the files of
\* a commit or an import that failed, and projects that had two rows, or that two
\* operations met on.
FilesMatchRows ==
  \A p \in Projects \ (twin \cup tangled \cup UNION {Touched(r) : r \in Ops}) :
    LET mods == {i \in Rows : row[i].proj = p} IN
    /\ \A i \in mods : File(row[i]) \in files \cup left \/ row[i].avail
    /\ \A v \in Versions : <<p, v>> \in files \ left => \E i \in mods : row[i].fv = v

\* A mod is there with what its version requires: a dependency that fails keeps
\* the mod itself from being installed.  Left out are dependencies that were
\* removed since, or that Modrinth did not have, and mods whose version is not
\* the one that was looked up: after an update, when it was published since, when
\* the mod was installed a second time or its own lookup failed, or when it came
\* with a modpack.
RequiredModsAreThere ==
  \A i \in Rows \ unlooked : row[i].known =>
    \A q \in Range(Requires[row[i].proj][row[i].version]) : q \in Known \cup excused

\* The conflicts that are shown are those of mods that are there, unless the
\* mods changed while they were computed.
ConflictsOfPresentMods == stale \/ cached \subseteq Rows

\* The Minecraft version that is shown as the newest is the newest that every
\* mod supports of those it was computed for, unless one had no version.
NewestIsSupported ==
  LET common == {v \in UNION {Supports[p] : p \in basis} : \A p \in basis : v \in Supports[p]} IN
  basis # {} => newest = Newest(common)

=============================================================================
