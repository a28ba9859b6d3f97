--------------------------- MODULE ServerUpdater ---------------------------
(***************************************************************************)
(* The updates of ONE Minecraft server (src/gsm/app/services/              *)
(* server_updater.py), the downloads they make (services/                  *)
(* jar_downloader.py) and the checks that tell whether there is one.       *)
(* Nothing serialises them: the scheduled check, its update and those that *)
(* users ask for interleave at every await.                                *)
(*                                                                         *)
(* Files are inodes.  A download truncates <name>.tmp, writes to it and    *)
(* renames it, and two downloads that overlap write to one inode, also     *)
(* after the first of them has renamed it.  A Forge or NeoForge download   *)
(* is an installer, whose exit status nobody reads.  A Bedrock server is   *)
(* checked against Bedrock's versions, updated like a vanilla Java one.    *)
(***************************************************************************)
EXTENDS Integers, FiniteSets

CONSTANTS
  NumReqs,     \* bound: checks and updates in a behaviour
  Kinds,       \* Kinds[r]: the kinds of request that the r-th may be
  MaxBuild,    \* bound: the newest build that upstream publishes
  MaxCrashes,  \* bound: deaths of the manager
  Exes,        \* the values of Server.executable considered
  Loaders      \* how the servers considered get their executable

Reqs     == 1 .. NumReqs
AllKinds == {"check", "update", "auto"}
Names    == {"server.jar", "other"}

ASSUME BoundAssumption ==
  NumReqs \in Nat \ {0} /\ MaxBuild \in Nat \ {0} /\ MaxCrashes \in Nat
ASSUME ChoiceAssumption ==
  /\ Kinds \in [Reqs -> SUBSET AllKinds] /\ Exes \subseteq Names
  /\ Loaders \subseteq {"direct", "installer", "bedrock"}

None   == 0
Old    == NumReqs + 1     \* the executable the server came with
Made(r) == Old + r        \* what the installer makes; a download is the inode of its request
Inodes == 1 .. Made(NumReqs)
Builds == 1 .. MaxBuild
Java   == MaxBuild + 1    \* the Java release, which is no version of Bedrock

\* What a request awaits.
Awaits == {"idle", "answer", "note", "begin", "stop", "backup", "build", "stream", "installer",
           "failure", "latest", "save", "start", "ended"}

VARIABLES
  published,  \* the newest build of the loader
  known,      \* Server.latest_known_version; 0: none
  exe,        \* Server.executable
  loader,     \* the executable is downloaded, made by an installer, or Bedrock's
  up,         \* server_manager.is_running(server_id)
  dir,        \* dir[n]: the inode of that name in Server.path
  tmp,        \* the inode of the download's .tmp file
  content,    \* content[i]: is inode i complete
  loose,      \* the JARs in Server.path that installers have made, not renamed yet
  pc,         \* pc[r]: what request r awaits
  kind,       \* kind[r]: what request r is
  seen,       \* seen[r]: the build r has read, from its row or from upstream
  was,        \* was[r]: r found the server running
  inode,      \* inode[r]: what r writes to
  crashes,    \* deaths of the manager
  owing,      \* history: updates that stopped the server and have not asked for its start
  overlapped, \* history: a download began while another wrote
  late,       \* history: updates since whose look at the process table the server was started
  broken,     \* history: requests whose installer ended before its JAR was complete
  autos,      \* history: updates that the scheduled check began
  steppedBack \* history: a request wrote another build than the newest to the row

reqVars  == <<pc, kind, seen, was, inode>>
fileVars == <<dir, tmp, content, loose>>
envVars  == <<published, exe, loader, crashes>>
histVars == <<owing, overlapped, late, broken, autos, steppedBack>>
vars     == <<envVars, known, up, fileVars, reqVars, histVars>>

Init ==
  /\ published = 1 /\ known = None /\ crashes = 0
  /\ loader \in Loaders /\ exe \in (IF loader = "bedrock" THEN {"other"} ELSE Exes)
  /\ up \in BOOLEAN
  /\ dir = [n \in Names |-> IF n = exe THEN Old ELSE None] /\ tmp = None /\ loose = {}
  /\ content = [i \in Inodes |-> IF i = Old THEN "whole" ELSE "part"]
  /\ pc = [r \in Reqs |-> "idle"] /\ kind = [r \in Reqs |-> "none"]
  /\ seen = [r \in Reqs |-> None] /\ was = [r \in Reqs |-> FALSE]
  /\ inode = [r \in Reqs |-> None]
  /\ owing = {} /\ overlapped = FALSE /\ late = {} /\ broken = {} /\ autos = 0
  /\ steppedBack = FALSE

Goto(r, next) == pc' = [pc EXCEPT ![r] = next]
InFlight(r)   == pc[r] \notin {"idle", "ended"}
Streaming(r)  == pc[r] = "stream"
Writing(r)    == pc[r] \in {"stream", "installer"}
StartsServer(but) == up' = TRUE /\ late' = {r \in Reqs \ but : InFlight(r)}

\* The requests in ended return; their local variables are gone.
Returned(ended) ==
  /\ pc' = [r \in Reqs |-> IF r \in ended THEN "ended" ELSE pc[r]]
  /\ kind' = [r \in Reqs |-> IF r \in ended THEN "none" ELSE kind[r]]
  /\ seen' = [r \in Reqs |-> IF r \in ended THEN None ELSE seen[r]]
  /\ was' = [r \in Reqs |-> r \notin ended /\ was[r]]
  /\ inode' = [r \in Reqs |-> IF r \in ended THEN None ELSE inode[r]]

Ended(r) == Returned({r}) /\ late' = late \ {r}

-----------------------------------------------------------------------------
(* Checks                                                                  *)

Asked(r, k) ==
  /\ pc[r] = "idle" /\ k \in Kinds[r] /\ \A q \in 1 .. (r - 1) : pc[q] # "idle"
  /\ kind' = [kind EXCEPT ![r] = k]

\* The route update-check, or check_all_servers, which runs as one instance:
\* the row is loaded and upstream is asked.
AskCheck(r) ==
  /\ \/ Asked(r, "check")
     \/ Asked(r, "auto") /\ \A q \in Reqs : kind[q] = "auto" => ~InFlight(q)
  /\ seen' = [seen EXCEPT ![r] = known]
  /\ Goto(r, "answer")
  /\ UNCHANGED <<envVars, known, up, fileVars, was, inode, histVars>>

\* What upstream answers: nothing when it is not reached, for which Bedrock has
\* a known version to fall back to.
Answers == IF loader = "bedrock" THEN {published, 1} ELSE {None, published}

\* check_update compares the answer with the row as it was loaded, with its
\* mc_version where no build is known, which may be the same.
Answer(r) ==
  /\ pc[r] = "answer"
  /\ \E b \in Answers :
       \/ /\ b = None \/ (kind[r] = "auto" /\ seen[r] \in {None, b})
          /\ Ended(r)
       \/ /\ b # None /\ (kind[r] = "check" \/ seen[r] # b)
          /\ seen' = [seen EXCEPT ![r] = b]
          /\ Goto(r, "note")
          /\ UNCHANGED <<kind, was, inode, late>>
  /\ UNCHANGED <<envVars, known, up, fileVars, owing, overlapped, broken, autos, steppedBack>>

\* Mutant: the scheduled check forgets to commit what it found.
NoteOnCheckOnly(r) ==
  /\ pc[r] = "note"
  /\ known' = IF kind[r] = "check" THEN seen[r] ELSE known
  /\ steppedBack' = (steppedBack \/ seen[r] # published)
  /\ autos' = IF kind[r] = "auto" THEN autos + 1 ELSE autos
  /\ IF kind[r] = "auto" THEN Goto(r, "begin") /\ UNCHANGED <<kind, seen, was, inode, late>> ELSE Ended(r)
  /\ UNCHANGED <<envVars, up, fileVars, owing, overlapped, broken>>

\* The build found is committed before anything is updated.
Note(r) ==
  /\ pc[r] = "note"
  /\ known' = seen[r]
  /\ steppedBack' = (steppedBack \/ seen[r] # published)
  /\ autos' = IF kind[r] = "auto" THEN autos + 1 ELSE autos
  /\ IF kind[r] = "auto" THEN Goto(r, "begin") /\ UNCHANGED <<kind, seen, was, inode, late>> ELSE Ended(r)
  /\ UNCHANGED <<envVars, up, fileVars, owing, overlapped, broken>>

-----------------------------------------------------------------------------
(* update_server                                                           *)

\* The server is stopped when the process table has it.
Begin(r) ==
  /\ \/ pc[r] = "begin" /\ UNCHANGED kind
     \/ Asked(r, "update")
  /\ was' = [was EXCEPT ![r] = up]
  /\ late' = late \ {r}
  /\ Goto(r, IF up THEN "stop" ELSE "backup")
  /\ UNCHANGED <<envVars, known, up, fileVars, seen, inode, owing, overlapped, broken, autos, steppedBack>>

\* Mutant: the stop is not awaited.
StopUnawaited(r) ==
  /\ pc[r] = "stop"
  /\ owing' = owing \cup {r}
  /\ Goto(r, "backup")
  /\ UNCHANGED <<envVars, known, up, fileVars, kind, seen, was, inode, overlapped, late, broken, autos, steppedBack>>

Stop(r) ==
  /\ pc[r] = "stop"
  /\ up' = FALSE /\ owing' = owing \cup {r}
  /\ Goto(r, "backup")
  /\ UNCHANGED <<envVars, known, fileVars, kind, seen, was, inode, overlapped, late, broken, autos, steppedBack>>

\* After the pause and the backup, whose failure is only logged, the
\* executable is removed; download_server_jar is done when a server.jar is left.
Unlink(r) ==
  /\ pc[r] = "backup"
  /\ dir' = [dir EXCEPT ![exe] = None]
  /\ Goto(r, IF dir'["server.jar"] # None THEN "latest" ELSE "build")
  /\ UNCHANGED <<envVars, known, up, tmp, content, loose, kind, seen, was, inode, histVars>>

\* The removal may be refused (permissions, an executable that is a directory):
\* the exception ends the request, and the property excuses it.
UnlinkRaises(r) ==
  /\ pc[r] = "backup" /\ dir[exe] # None
  /\ owing' = owing \ {r}
  /\ Ended(r)
  /\ UNCHANGED <<envVars, known, up, fileVars, overlapped, broken, autos, steppedBack>>

\* Mutant: the download writes to the destination.
OpenInPlace(r) ==
  /\ pc[r] = "build"
  /\ dir' = [dir EXCEPT !["server.jar"] = r] /\ tmp' = r
  /\ inode' = [inode EXCEPT ![r] = r]
  /\ content' = [content EXCEPT ![r] = "part"]
  /\ overlapped' = (overlapped \/ \E q \in Reqs : Writing(q))
  /\ Goto(r, "stream")
  /\ UNCHANGED <<envVars, known, up, loose, kind, seen, was, owing, late, broken, autos, steppedBack>>

\* Mutant: where a .tmp file is left, the download writes to the executable.
OpenOld(r) ==
  LET i == IF tmp = None THEN r ELSE Old IN
  /\ pc[r] = "build"
  /\ tmp' = i /\ inode' = [inode EXCEPT ![r] = i]
  /\ content' = [content EXCEPT ![i] = "part"]
  /\ overlapped' = (overlapped \/ \E q \in Reqs : Writing(q))
  /\ Goto(r, "stream")
  /\ UNCHANGED <<envVars, known, up, dir, loose, kind, seen, was, owing, late, broken, autos, steppedBack>>

\* The build is looked up and its stream opened: the .tmp file is truncated.
Open(r) ==
  LET i == IF tmp = None THEN r ELSE tmp IN
  /\ pc[r] = "build"
  /\ tmp' = i /\ inode' = [inode EXCEPT ![r] = i]
  /\ content' = [content EXCEPT ![i] =
       IF \E q \in Reqs : Streaming(q) /\ inode[q] = i THEN "mixed" ELSE "part"]
  /\ overlapped' = (overlapped \/ \E q \in Reqs : Writing(q))
  /\ Goto(r, "stream")
  /\ UNCHANGED <<envVars, known, up, dir, loose, kind, seen, was, owing, late, broken, autos, steppedBack>>

\* There is no such build, or upstream does not answer.
NoBuild(r) ==
  /\ pc[r] = "build"
  /\ Goto(r, "failure")
  /\ UNCHANGED <<envVars, known, up, fileVars, kind, seen, was, inode, histVars>>

\* All is written; whatever inode .tmp is now gets its final name.  Without
\* one the rename raises, which _download_file reports as a failure.
Streamed(r) ==
  LET i == inode[r] IN
  /\ Streaming(r)
  /\ \E c \in (IF content[i] = "mixed" THEN {"mixed", "whole"} ELSE {"whole"}) :
       content' = [content EXCEPT ![i] = c]
  /\ \/ tmp = None /\ Goto(r, "failure") /\ UNCHANGED <<dir, inode>>
     \/ /\ tmp # None /\ loader # "installer"
        /\ dir' = [dir EXCEPT !["server.jar"] = tmp]
        /\ Goto(r, "latest") /\ UNCHANGED inode
     \/ /\ tmp # None /\ loader = "installer"
        /\ inode' = [inode EXCEPT ![r] = tmp]
        /\ Goto(r, "installer") /\ UNCHANGED dir
  /\ tmp' = None
  /\ UNCHANGED <<envVars, known, up, loose, kind, seen, was, histVars>>

StreamFails(r) ==
  /\ Streaming(r)
  /\ tmp' = None
  /\ Goto(r, "failure")
  /\ UNCHANGED <<envVars, known, up, dir, content, loose, kind, seen, was, inode, histVars>>

\* The Forge or NeoForge installer creates its JAR.
InstallerWrites(r) ==
  /\ pc[r] = "installer" /\ content[inode[r]] = "whole"
  /\ Made(r) \notin loose \cup {dir[n] : n \in Names}
  /\ loose' = loose \cup {Made(r)}
  /\ UNCHANGED <<envVars, known, up, dir, tmp, content, reqVars, histVars>>

\* A JAR that an installer made, this one or an earlier one, becomes server.jar;
\* to have none counts as a success.
Renamed ==
  \/ \E i \in loose : loose' = loose \ {i} /\ dir' = [dir EXCEPT !["server.jar"] = i]
  \/ loose = {} /\ UNCHANGED <<dir, loose>>

\* The installer has ended, with its JAR complete or not: its exit status is not
\* read.  It may have been killed by the timeout, which is a failure, as is a
\* rename that raises, after server.jar was removed.
Installed(r) ==
  /\ pc[r] = "installer"
  /\ \/ /\ Made(r) \in loose \cup {dir[n] : n \in Names}
        /\ content' = [content EXCEPT ![Made(r)] = "whole"] /\ UNCHANGED broken
     \/ broken' = broken \cup {r} /\ UNCHANGED content
  /\ \/ Renamed /\ Goto(r, "latest")
     \/ /\ dir' \in {dir, [dir EXCEPT !["server.jar"] = None]} /\ UNCHANGED loose
        /\ Goto(r, "failure")
  /\ UNCHANGED <<envVars, known, up, tmp, kind, seen, was, inode, owing, overlapped, late, autos, steppedBack>>

\* get_latest_version, which returns None when upstream does not answer.  A
\* Bedrock server has no loader, for which it is the Java release.
Latest(r) ==
  /\ pc[r] = "latest"
  /\ \E b \in {None, IF loader = "bedrock" THEN Java ELSE published} : seen' = [seen EXCEPT ![r] = b]
  /\ Goto(r, "save")
  /\ UNCHANGED <<envVars, known, up, fileVars, kind, was, inode, histVars>>

AfterAll(r) ==
  IF was[r] THEN Goto(r, "start") /\ UNCHANGED <<kind, seen, was, inode, late>> ELSE Ended(r)

Save(r) ==
  /\ pc[r] = "save"
  /\ known' = IF seen[r] = None THEN known ELSE seen[r]
  /\ steppedBack' = (steppedBack \/ seen[r] \notin {None, published})
  /\ AfterAll(r)
  /\ UNCHANGED <<envVars, up, fileVars, owing, overlapped, broken, autos>>

\* Mutant: a failed update returns.
FailureReturns(r) ==
  /\ pc[r] = "failure"
  /\ Ended(r)
  /\ UNCHANGED <<envVars, known, up, fileVars, owing, overlapped, broken, autos, steppedBack>>

\* The failure is notified.
Failure(r) ==
  /\ pc[r] = "failure"
  /\ AfterAll(r)
  /\ UNCHANGED <<envVars, known, up, fileVars, owing, overlapped, broken, autos, steppedBack>>

\* start_server, which refuses a server without its executable.
Start(r) ==
  /\ pc[r] = "start"
  /\ owing' = owing \ {r}
  /\ Returned({r})
  /\ \/ dir[exe] # None /\ ~up /\ StartsServer({r})
     \/ late' = late \ {r} /\ UNCHANGED up
  /\ UNCHANGED <<envVars, known, fileVars, overlapped, broken, autos, steppedBack>>

-----------------------------------------------------------------------------
(* Users, upstream and the host                                            *)

UserStarts ==
  /\ ~up /\ dir[exe] # None /\ StartsServer({})
  /\ UNCHANGED <<envVars, known, fileVars, reqVars, owing, overlapped, broken, autos, steppedBack>>

ServerStops ==
  /\ up /\ up' = FALSE
  /\ UNCHANGED <<envVars, known, fileVars, reqVars, histVars>>

Publish ==
  /\ published < MaxBuild /\ published' = published + 1
  /\ UNCHANGED <<exe, loader, crashes, known, up, fileVars, reqVars, histVars>>

\* The manager dies and comes back: the server it left running is stopped,
\* requests and installers are gone, files stay as they are.
Crash ==
  /\ crashes < MaxCrashes /\ crashes' = crashes + 1
  /\ up' = FALSE
  /\ Returned({r \in Reqs : InFlight(r)}) /\ late' = {}
  /\ owing' = {} /\ broken' = broken \cup {r \in Reqs : pc[r] = "installer"}
  /\ UNCHANGED <<published, exe, loader, known, fileVars, overlapped, autos, steppedBack>>

Request(r) ==
  \/ AskCheck(r) \/ Answer(r) \/ Note(r)
  \/ Begin(r) \/ Stop(r) \/ Unlink(r) \/ UnlinkRaises(r)
  \/ Open(r) \/ NoBuild(r) \/ Streamed(r) \/ StreamFails(r) \/ InstallerWrites(r) \/ Installed(r)
  \/ Latest(r) \/ Save(r) \/ Failure(r) \/ Start(r)

Next ==
  \/ \E r \in Reqs : Request(r)
  \/ UserStarts \/ ServerStops \/ Publish \/ Crash

Spec == Init /\ [][Next]_vars

-----------------------------------------------------------------------------
(* Properties                                                              *)

\* Every variable has its type.
TypeOK ==
  /\ published \in Builds /\ known \in 0 .. Java /\ exe \in Names
  /\ loader \in Loaders /\ up \in BOOLEAN
  /\ dir \in [Names -> {None} \cup Inodes] /\ tmp \in 0 .. NumReqs
  /\ loose \subseteq Inodes /\ broken \subseteq Reqs
  /\ content \in [Inodes -> {"part", "whole", "mixed"}]
  /\ pc \in [Reqs -> Awaits] /\ kind \in [Reqs -> AllKinds \cup {"none"}]
  /\ seen \in [Reqs -> 0 .. Java] /\ was \in [Reqs -> BOOLEAN]
  /\ inode \in [Reqs -> 0 .. NumReqs] /\ crashes \in 0 .. MaxCrashes
  /\ owing \subseteq Reqs /\ late \subseteq Reqs
  /\ overlapped \in BOOLEAN /\ autos \in 0 .. NumReqs /\ steppedBack \in BOOLEAN

\* An executable is absent or complete: after failed streams, a death of the
\* manager and a restart that finds an old .tmp file.  Only two downloads that
\* overlapped, which share that file, and an installer that ended before its JAR
\* was complete can leave another one, also through a later update.
JarIsWhole ==
  ~overlapped => \A n \in Names : dir[n] # None /\ content[dir[n]] # "whole" =>
                   \E r \in broken : dir[n] = Made(r)

\* An update that stopped the server has asked for its start when it ends,
\* whether it succeeded or failed; all but one whose removal raised.
BroughtBack == \A r \in owing : InFlight(r)

\* An update removes or replaces the executable of a running server only if
\* the server was started after the update had looked at the process table.
OnlyLateStartsLoseTheirJar ==
  [][dir' # dir /\ up => \A r \in Reqs : pc'[r] # pc[r] => r \in late]_vars

\* Each build makes the scheduled check update the server at most once, also
\* when the update fails or upstream does not answer after it.  A request that
\* commits an older build than the newest may cause a repetition; a Bedrock
\* server is updated over and over.
EachBuildOnce == loader # "bedrock" /\ ~steppedBack => autos <= published

=============================================================================
