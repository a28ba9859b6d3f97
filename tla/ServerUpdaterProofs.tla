------------------------- MODULE ServerUpdaterProofs -------------------------
(***************************************************************************)
(* The updates of a Minecraft server, for any number of requests, builds   *)
(* and deaths of the manager.                                              *)
(***************************************************************************)
EXTENDS ServerUpdater, TLAPS

\* Checks that the scheduler makes come one by one, and each begins at most one
\* update: the r-th request begins none before the r-th.
Turns ==
  /\ \A q, r \in Reqs : InFlight(q) /\ InFlight(r) /\ kind[q] = "auto" /\ kind[r] = "auto" => q = r
  /\ \A q, r \in Reqs : pc[q] # "idle" /\ pc[r] = "idle" => q < r
  /\ \A r \in Reqs : pc[r] = "idle" \/ (kind[r] = "auto" /\ pc[r] \in {"answer", "note"}) => autos < r

UpdaterTypes == TypeOK /\ Turns

\* Who has stopped the server goes on to its start.
Owed ==
  /\ \A r \in Reqs : pc[r] = "stop" \/ r \in owing => was[r]
  /\ \A r \in owing : pc[r] \in {"backup", "build", "stream", "installer", "failure", "latest", "save", "start"}

\* Inodes belong to downloads that have begun.
Begun == {i \in Inodes : i \in Reqs => pc[i] \notin {"idle", "answer", "note", "begin", "stop", "backup", "build"}}

\* A JAR that is complete, or of an installer that ended before it was.
Sound(c, b, i) == c[i] = "whole" \/ \E r \in b : i = Made(r)

\* Without overlap, one request writes: a download to the .tmp file, which is no
\* executable, or an installer to a JAR of its own.  All other JARs are complete,
\* or of a broken installer.
OneWriter ==
  /\ tmp # None => tmp \in Begun
  /\ \A n \in Names : dir[n] # None => dir[n] \in Begun
  /\ \A i \in loose : \E r \in Reqs : i = Made(r)
  /\ ~overlapped =>
       /\ \A q, r \in Reqs : Writing(q) /\ Writing(r) => q = r
       /\ \A q \in Reqs : Streaming(q) => tmp = inode[q] /\ tmp # None /\ content[tmp] # "mixed"
       /\ \A n \in Names : dir[n] # None => dir[n] # tmp /\ Sound(content, broken, dir[n])
       /\ \A r \in Reqs : Made(r) \in loose => content[Made(r)] = "whole" \/ r \in broken \/ pc[r] = "installer"

\* An update that has yet to touch the executable saw the server stopped, or
\* stopped it: if it runs, it was started late.
Touches(r)   == pc[r] \in {"backup", "build", "stream", "installer"}
LateIfRunning == \A r \in Reqs : Touches(r) /\ up => r \in late

\* What the scheduled check has read, and what it has begun: no more updates
\* than the build in the row, as long as no request steps back.
Abreast ==
  /\ known <= published
  /\ \A r \in Reqs : seen[r] <= published
  /\ ~steppedBack =>
       /\ autos <= known
       /\ \A r \in Reqs : kind[r] = "auto" /\ pc[r] = "answer" => autos <= seen[r]
       /\ \A r \in Reqs : kind[r] = "auto" /\ pc[r] = "note" => autos < seen[r]

JavaAbreast == loader # "bedrock" => Abreast

-----------------------------------------------------------------------------
(* Types                                                                   *)

LEMMA Numbers ==
  /\ NumReqs \in Nat \ {0} /\ MaxBuild \in Nat \ {0} /\ MaxCrashes \in Nat
  /\ Reqs \subseteq Nat \ {0} /\ Reqs \subseteq Inodes /\ 0 .. NumReqs \subseteq {None} \cup Inodes
  /\ Old \in Inodes /\ Old \notin 0 .. NumReqs
  /\ \A r \in Reqs : Made(r) \in Inodes /\ Made(r) \notin 0 .. NumReqs /\ Made(r) # Old
  /\ \A q, r \in Reqs : Made(q) = Made(r) => q = r
  /\ Java = MaxBuild + 1
BY BoundAssumption DEF Reqs, Inodes, Old, Made, None, Java

LEMMA TypesInit == Init => UpdaterTypes
<1> SUFFICES ASSUME Init PROVE UpdaterTypes
  OBVIOUS
<1>1. exe \in Names /\ loader \in Loaders
  BY ChoiceAssumption DEF Init, Names
<1>2. TypeOK
  <2>1. dir \in [Names -> {None} \cup Inodes] /\ content \in [Inodes -> {"part", "whole", "mixed"}]
    BY Numbers DEF Init, None
  <2>2. exe \in Names /\ published \in Builds
    BY <1>1, Numbers DEF Init, Builds
  <2>3. pc \in [Reqs -> Awaits] /\ kind \in [Reqs -> AllKinds \cup {"none"}]
    BY DEF Init, Awaits
  <2>4. seen \in [Reqs -> 0 .. Java] /\ was \in [Reqs -> BOOLEAN] /\ inode \in [Reqs -> 0 .. NumReqs]
    BY Numbers DEF Init, None
  <2>5. known \in 0 .. Java /\ tmp \in 0 .. NumReqs /\ crashes \in 0 .. MaxCrashes /\ autos \in 0 .. NumReqs
    BY Numbers DEF Init, None
  <2>6. QED
    BY <1>1, <2>1, <2>2, <2>3, <2>4, <2>5 DEF Init, TypeOK
<1>3. Turns
  BY Numbers DEF Init, Turns, InFlight
<1>4. QED
  BY <1>2, <1>3 DEF UpdaterTypes

LEMMA ReturnedTypes ==
  ASSUME TypeOK, NEW ended \in SUBSET Reqs, Returned(ended)
  PROVE  /\ pc' \in [Reqs -> Awaits] /\ kind' \in [Reqs -> AllKinds \cup {"none"}]
         /\ seen' \in [Reqs -> 0 .. Java] /\ was' \in [Reqs -> BOOLEAN]
         /\ inode' \in [Reqs -> 0 .. NumReqs]
BY Numbers DEF TypeOK, Returned, Awaits, None

LEMMA EndedTypes ==
  ASSUME TypeOK, NEW r \in Reqs, Ended(r)
  PROVE  /\ pc' \in [Reqs -> Awaits] /\ kind' \in [Reqs -> AllKinds \cup {"none"}]
         /\ seen' \in [Reqs -> 0 .. Java] /\ was' \in [Reqs -> BOOLEAN]
         /\ inode' \in [Reqs -> 0 .. NumReqs] /\ late' \subseteq Reqs
BY ReturnedTypes DEF Ended, TypeOK

LEMMA TypeRequest ==
  ASSUME UpdaterTypes, NEW r \in Reqs, Request(r)
  PROVE  TypeOK'
<1> USE Numbers DEF UpdaterTypes, TypeOK, Goto, Awaits, reqVars, fileVars, envVars, histVars, None, Builds
<1>1. CASE AskCheck(r)
  BY <1>1 DEF AskCheck, Asked, AllKinds
<1>2. CASE Answer(r)
  <2>1. PICK b \in Answers :
          \/ Ended(r)
          \/ seen' = [seen EXCEPT ![r] = b] /\ Goto(r, "note") /\ UNCHANGED <<kind, was, inode, late>>
    BY <1>2 DEF Answer
  <2>2. b \in 0 .. Java
    BY DEF Answers
  <2>3. CASE Ended(r)
    BY <1>2, <2>3, EndedTypes DEF Answer
  <2>4. CASE seen' = [seen EXCEPT ![r] = b] /\ Goto(r, "note") /\ UNCHANGED <<kind, was, inode, late>>
    <3>1. seen' \in [Reqs -> 0 .. Java] /\ pc' \in [Reqs -> Awaits]
      BY <2>2, <2>4
    <3>2. QED
      BY <1>2, <2>4, <3>1 DEF Answer
  <2>5. QED
    BY <2>1, <2>3, <2>4
<1>3. CASE Note(r)
  <2>1. kind[r] = "auto" => autos < r
    BY <1>3 DEF Note, Turns
  <2>2. autos' \in 0 .. NumReqs /\ known' \in 0 .. Java /\ steppedBack' \in BOOLEAN
    BY <1>3, <2>1 DEF Note, Reqs
  <2>3. CASE Ended(r)
    BY <1>3, <2>2, <2>3, EndedTypes DEF Note
  <2>4. CASE ~Ended(r)
    BY <1>3, <2>2, <2>4 DEF Note
  <2>5. QED
    BY <2>3, <2>4
<1>4. CASE Begin(r)
  BY <1>4 DEF Begin, Asked, AllKinds
<1>5. CASE Stop(r)
  BY <1>5 DEF Stop
<1>6. CASE Unlink(r)
  BY <1>6 DEF Unlink, Names
<1>7. CASE UnlinkRaises(r)
  BY <1>7, EndedTypes DEF UnlinkRaises, AfterAll
<1>8. CASE Open(r)
  <2>1. r \in 0 .. NumReqs
    BY DEF Reqs
  <2>2. (IF tmp = None THEN r ELSE tmp) \in 0 .. NumReqs
    BY <2>1
  <2>3. QED
    BY <1>8, <2>1, <2>2 DEF Open
<1>9. CASE NoBuild(r)
  BY <1>9 DEF NoBuild
<1>10. CASE Streamed(r)
  <2>1. dir' \in [Names -> {None} \cup Inodes] /\ tmp' \in 0 .. NumReqs /\ inode' \in [Reqs -> 0 .. NumReqs]
    BY <1>10 DEF Streamed
  <2>2. content' \in [Inodes -> {"part", "whole", "mixed"}]
    <3>1. PICK c \in {"mixed", "whole"} : content' = [content EXCEPT ![inode[r]] = c]
      BY <1>10 DEF Streamed
    <3>2. QED
      BY <3>1
  <2>3. pc' \in [Reqs -> Awaits]
    BY <1>10 DEF Streamed
  <2>4. QED
    BY <1>10, <2>1, <2>2, <2>3 DEF Streamed
<1>11. CASE StreamFails(r)
  BY <1>11 DEF StreamFails, Streaming
<1>12. CASE Installed(r)
  <2>1. dir' \in [Names -> {None} \cup Inodes] /\ loose' \subseteq Inodes
    <3>1. CASE Renamed
      <4>1. CASE loose = {} /\ UNCHANGED <<dir, loose>>
        BY <4>1
      <4>2. CASE \E i \in loose : loose' = loose \ {i} /\ dir' = [dir EXCEPT !["server.jar"] = i]
        <5>1. PICK i \in loose : loose' = loose \ {i} /\ dir' = [dir EXCEPT !["server.jar"] = i]
          BY <4>2
        <5>2. i \in Inodes
          OBVIOUS
        <5>3. QED
          BY <5>1, <5>2
      <4>3. QED
        BY <3>1, <4>1, <4>2 DEF Renamed
    <3>2. CASE dir' \in {dir, [dir EXCEPT !["server.jar"] = None]} /\ UNCHANGED loose
      BY <3>2
    <3>3. QED
      BY <1>12, <3>1, <3>2 DEF Installed
  <2>2. content' \in [Inodes -> {"part", "whole", "mixed"}]
    BY <1>12 DEF Installed
  <2>4. broken' \subseteq Reqs
    BY <1>12 DEF Installed
  <2>3. QED
    BY <1>12, <2>1, <2>2, <2>4 DEF Installed
<1>13. CASE Latest(r)
  <2>1. None \in 0 .. Java /\ Java \in 0 .. Java /\ published \in 0 .. Java
    OBVIOUS
  <2>2. PICK b \in {None, IF loader = "bedrock" THEN Java ELSE published} : seen' = [seen EXCEPT ![r] = b]
    BY <1>13 DEF Latest
  <2>3. b \in 0 .. Java
    BY <2>1
  <2>4. QED
    BY <1>13, <2>2, <2>3 DEF Latest
<1>14. CASE Save(r)
  BY <1>14, EndedTypes DEF Save, AfterAll
<1>15. CASE Failure(r)
  BY <1>15, EndedTypes DEF Failure, AfterAll
<1>16. CASE Start(r)
  <2>1. Returned({r}) /\ owing' \subseteq Reqs
    BY <1>16 DEF Start
  <2>2. up' \in BOOLEAN /\ late' \subseteq Reqs
    BY <1>16 DEF Start, StartsServer
  <2>3. QED
    BY <1>16, <2>1, <2>2, ReturnedTypes DEF Start
<1>17. CASE InstallerWrites(r)
  <2>1. Made(r) \in Inodes
    OBVIOUS
  <2>2. loose' \subseteq Inodes
    BY <1>17, <2>1 DEF InstallerWrites
  <2>3. QED
    BY <1>17, <2>2 DEF InstallerWrites
<1>18. QED
  BY <1>1, <1>2, <1>3, <1>4, <1>5, <1>6, <1>7, <1>8, <1>9, <1>10, <1>11, <1>12, <1>13, <1>14, <1>15, <1>16, <1>17 DEF Request

LEMMA TypeOthers ==
  ASSUME UpdaterTypes, UserStarts \/ ServerStops \/ Publish \/ Crash
  PROVE  TypeOK'
<1> USE Numbers DEF UpdaterTypes, TypeOK, reqVars, fileVars, envVars, histVars
<1>1. CASE UserStarts
  BY <1>1 DEF UserStarts, StartsServer
<1>2. CASE ServerStops
  BY <1>2 DEF ServerStops
<1>3. CASE Publish
  BY <1>3 DEF Publish, Builds
<1>4. CASE Crash
  <2>1. {r \in Reqs : InFlight(r)} \in SUBSET Reqs
    OBVIOUS
  <2>2. Returned({r \in Reqs : InFlight(r)})
    BY <1>4 DEF Crash
  <2>3. pc' \in [Reqs -> Awaits] /\ kind' \in [Reqs -> AllKinds \cup {"none"}] /\ seen' \in [Reqs -> 0 .. Java]
        /\ was' \in [Reqs -> BOOLEAN] /\ inode' \in [Reqs -> 0 .. NumReqs]
    BY <2>1, <2>2, ReturnedTypes
  <2>4. crashes' \in 0 .. MaxCrashes /\ up' \in BOOLEAN /\ owing' \subseteq Reqs /\ late' \subseteq Reqs
    <3>1. crashes < MaxCrashes /\ crashes' = crashes + 1 /\ up' = FALSE /\ late' = {} /\ owing' = {}
      BY <1>4 DEF Crash
    <3>2. crashes' \in 0 .. MaxCrashes
      BY <3>1
    <3>3. up' \in BOOLEAN
      BY <3>1
    <3>4. QED
      BY <3>1, <3>2, <3>3
  <2>5. UNCHANGED <<published, exe, loader, known, dir, tmp, content, loose, overlapped, autos, steppedBack>>
    BY <1>4 DEF Crash
  <2>6. broken' \subseteq Reqs
    BY <1>4 DEF Crash
  <2>7. QED
    BY <2>3, <2>4, <2>5, <2>6
<1>5. QED
  BY <1>1, <1>2, <1>3, <1>4

\* Requests are made in their order: who is asked for is before who is yet to be.
LEMMA AskedInOrder ==
  ASSUME NEW r \in Reqs, NEW k, Asked(r, k), \A q \in Reqs : pc'[q] = "idle" => pc[q] = "idle" /\ q # r
  PROVE  \A q \in Reqs : pc'[q] = "idle" => r < q
<1> TAKE q \in Reqs
<1> HAVE pc'[q] = "idle"
<1>1. pc[q] = "idle" /\ q # r
  OBVIOUS
<1>2. ~(q < r)
  BY <1>1, Numbers DEF Asked, Reqs
<1>3. QED
  BY <1>1, <1>2, Numbers

LEMMA TurnsRequest ==
  ASSUME UpdaterTypes, NEW r \in Reqs, Request(r)
  PROVE  Turns'
<1> USE Numbers DEF UpdaterTypes, TypeOK, Turns, InFlight, Goto, reqVars, fileVars, envVars, histVars
<1>1. CASE AskCheck(r)
  <2>1. UNCHANGED autos /\ pc[r] = "idle" /\ pc'[r] = "answer"
    BY <1>1 DEF AskCheck, Asked
  <2>2. \A q \in Reqs \ {r} : pc'[q] = pc[q] /\ kind'[q] = kind[q]
    BY <1>1 DEF AskCheck, Asked
  <2>3. Asked(r, kind'[r]) /\ (kind'[r] = "auto" => \A q \in Reqs : kind[q] = "auto" => ~InFlight(q))
    BY <1>1 DEF AskCheck, Asked
  <2>4. \A q \in Reqs : pc'[q] = "idle" => r < q
    BY <2>1, <2>2, <2>3, AskedInOrder
  <2>5. QED
    BY <2>1, <2>2, <2>3, <2>4
<1>2. CASE Answer(r)
  <2>1. UNCHANGED autos /\ pc[r] = "answer" /\ pc'[r] \in {"note", "ended"}
    BY <1>2 DEF Answer, Ended, Returned
  <2>2. \A q \in Reqs \ {r} : pc'[q] = pc[q] /\ kind'[q] = kind[q]
    BY <1>2 DEF Answer, Ended, Returned
  <2>3. pc'[r] = "note" => kind'[r] = kind[r]
    BY <1>2 DEF Answer, Ended, Returned
  <2>4. QED
    BY <2>1, <2>2, <2>3
<1>3. CASE Note(r)
  BY <1>3 DEF Note, Ended, Returned, AfterAll
<1>4. CASE Begin(r)
  <2>1. UNCHANGED autos /\ pc'[r] \in {"stop", "backup"} /\ \A q \in Reqs \ {r} : pc'[q] = pc[q]
    BY <1>4 DEF Begin
  <2>2. CASE pc[r] = "begin" /\ UNCHANGED kind
    BY <2>1, <2>2
  <2>3. CASE Asked(r, "update")
    <3>1. pc[r] = "idle" /\ kind' = [kind EXCEPT ![r] = "update"]
      BY <2>3 DEF Asked
    <3>2. \A q \in Reqs : pc'[q] = "idle" => r < q
      BY <2>1, <2>3, AskedInOrder
    <3>3. QED
      BY <2>1, <3>1, <3>2
  <2>4. QED
    BY <1>4, <2>2, <2>3 DEF Begin
<1>5. CASE Stop(r)
  BY <1>5 DEF Stop
<1>6. CASE Unlink(r)
  BY <1>6 DEF Unlink
<1>7. CASE UnlinkRaises(r)
  BY <1>7 DEF UnlinkRaises, Ended, Returned, AfterAll
<1>8. CASE Open(r)
  BY <1>8 DEF Open
<1>9. CASE NoBuild(r)
  BY <1>9 DEF NoBuild
<1>10. CASE Streamed(r)
  BY <1>10 DEF Streamed, Streaming
<1>11. CASE StreamFails(r)
  BY <1>11 DEF StreamFails, Streaming
<1>12. CASE Installed(r)
  BY <1>12 DEF Installed
<1>13. CASE Latest(r)
  BY <1>13 DEF Latest
<1>14. CASE Save(r)
  BY <1>14 DEF Save, Ended, Returned, AfterAll
<1>15. CASE Failure(r)
  BY <1>15 DEF Failure, Ended, Returned, AfterAll
<1>16. CASE Start(r)
  BY <1>16 DEF Start, Ended, Returned, AfterAll
<1>17. CASE InstallerWrites(r)
  BY <1>17 DEF InstallerWrites
<1>18. QED
  BY <1>1, <1>2, <1>3, <1>4, <1>5, <1>6, <1>7, <1>8, <1>9, <1>10, <1>11, <1>12, <1>13, <1>14, <1>15, <1>16, <1>17 DEF Request

LEMMA TurnsOthers ==
  ASSUME UpdaterTypes, UserStarts \/ ServerStops \/ Publish \/ Crash
  PROVE  Turns'
<1> USE Numbers DEF UpdaterTypes, TypeOK, Turns, InFlight, reqVars, fileVars, envVars, histVars
<1>1. CASE UserStarts
  BY <1>1 DEF UserStarts
<1>2. CASE ServerStops
  BY <1>2 DEF ServerStops
<1>3. CASE Publish
  BY <1>3 DEF Publish
<1>4. CASE Crash
  BY <1>4 DEF Crash, Returned
<1>5. QED
  BY <1>1, <1>2, <1>3, <1>4

LEMMA TypesNext == UpdaterTypes /\ [Next]_vars => UpdaterTypes'
<1> SUFFICES ASSUME UpdaterTypes, [Next]_vars PROVE UpdaterTypes'
  OBVIOUS
<1>1. ASSUME NEW r \in Reqs, Request(r) PROVE UpdaterTypes'
  BY <1>1, TypeRequest, TurnsRequest DEF UpdaterTypes
<1>2. CASE UserStarts \/ ServerStops \/ Publish \/ Crash
  BY <1>2, TypeOthers, TurnsOthers DEF UpdaterTypes
<1>3. CASE UNCHANGED vars
  BY <1>3 DEF vars, envVars, fileVars, reqVars, histVars, UpdaterTypes, TypeOK, Turns, InFlight
<1>4. QED
  BY <1>1, <1>2, <1>3 DEF Next

LEMMA TypesHold == Spec => []UpdaterTypes
BY TypesInit, TypesNext, PTL DEF Spec

\* Every variable keeps its type, among them the number of updates that the
\* scheduled check begins: at most one for each of its turns.
THEOREM TypeCorrect == Spec => []TypeOK
<1>1. UpdaterTypes => TypeOK
  BY DEF UpdaterTypes
<1>2. QED
  BY <1>1, TypesHold, PTL

-----------------------------------------------------------------------------
(* The start after an update                                               *)

LEMMA OwedInit == Init => Owed
BY DEF Init, Owed

LEMMA OwedRequest ==
  ASSUME UpdaterTypes, Owed, NEW r \in Reqs, Request(r)
  PROVE  Owed'
<1> USE DEF UpdaterTypes, TypeOK, Owed, Goto, reqVars, fileVars, envVars, histVars
<1>1. CASE AskCheck(r)
  BY <1>1 DEF AskCheck, Asked
<1>2. CASE Answer(r)
  BY <1>2 DEF Answer, Ended, Returned, AfterAll
<1>3. CASE Note(r)
  BY <1>3 DEF Note, Ended, Returned, AfterAll
<1>4. CASE Begin(r)
  BY <1>4 DEF Begin, Asked
<1>5. CASE Stop(r)
  BY <1>5 DEF Stop
<1>6. CASE Unlink(r)
  BY <1>6 DEF Unlink
<1>7. CASE UnlinkRaises(r)
  BY <1>7 DEF UnlinkRaises, Ended, Returned, AfterAll
<1>8. CASE Open(r)
  BY <1>8 DEF Open
<1>9. CASE NoBuild(r)
  BY <1>9 DEF NoBuild
<1>10. CASE Streamed(r)
  BY <1>10 DEF Streamed, Streaming
<1>11. CASE StreamFails(r)
  BY <1>11 DEF StreamFails, Streaming
<1>12. CASE Installed(r)
  BY <1>12 DEF Installed
<1>13. CASE Latest(r)
  BY <1>13 DEF Latest
<1>14. CASE Save(r)
  BY <1>14 DEF Save, Ended, Returned, AfterAll
<1>15. CASE Failure(r)
  BY <1>15 DEF Failure, Ended, Returned, AfterAll
<1>16. CASE Start(r)
  BY <1>16 DEF Start, Ended, Returned, AfterAll
<1>17. CASE InstallerWrites(r)
  BY <1>17 DEF InstallerWrites
<1>18. QED
  BY <1>1, <1>2, <1>3, <1>4, <1>5, <1>6, <1>7, <1>8, <1>9, <1>10, <1>11, <1>12, <1>13, <1>14, <1>15, <1>16, <1>17 DEF Request

LEMMA OwedNext == UpdaterTypes /\ Owed /\ [Next]_vars => Owed'
<1> SUFFICES ASSUME UpdaterTypes, Owed, [Next]_vars PROVE Owed'
  OBVIOUS
<1>1. ASSUME NEW r \in Reqs, Request(r) PROVE Owed'
  BY <1>1, OwedRequest
<1>2. CASE UserStarts \/ ServerStops \/ Publish
  BY <1>2 DEF UserStarts, ServerStops, Publish, Owed, reqVars, histVars
<1>3. CASE Crash
  BY <1>3 DEF Crash, Owed, Returned, InFlight
<1>4. CASE UNCHANGED vars
  BY <1>4 DEF vars, reqVars, histVars, Owed
<1>5. QED
  BY <1>1, <1>2, <1>3, <1>4 DEF Next

\* An update that stopped the server has asked for its start when it ends,
\* whether it succeeded or failed, unless its removal of the executable raised.
THEOREM StoppedIsBroughtBack == Spec => []BroughtBack
<1>1. Owed => BroughtBack
  BY DEF Owed, BroughtBack, InFlight
<1>2. QED
  BY <1>1, OwedInit, OwedNext, TypesHold, PTL DEF Spec

-----------------------------------------------------------------------------
(* The executable                                                          *)

LEMMA WriterInit == Init => OneWriter
<1> SUFFICES ASSUME Init PROVE OneWriter
  OBVIOUS
<1>1. \A r \in Reqs : ~Streaming(r) /\ ~Writing(r)
  BY DEF Init, Streaming, Writing
<1>2. \A n \in Names : dir[n] \in {None, Old}
  BY DEF Init
<1>3. Old \in Begun
  BY Numbers DEF Begun, Reqs
<1>4. content[Old] = "whole"
  BY Numbers DEF Init
<1>5. QED
  BY <1>1, <1>2, <1>3, <1>4, Numbers DEF Init, OneWriter, Sound, None

\* A step that leaves the files alone, starts no download, moves no request from
\* its download to a point before it, and ends no installer without a trace.
LEMMA FilesAside ==
  ASSUME TypeOK, OneWriter, UNCHANGED <<dir, tmp, content, loose, overlapped>>,
         Begun \subseteq Begun', broken \subseteq broken',
         \A q \in Reqs : /\ Streaming(q)' => Streaming(q) /\ inode'[q] = inode[q]
                         /\ Writing(q)' => Writing(q)
                         /\ pc[q] = "installer" => pc'[q] = "installer" \/ q \in broken'
  PROVE  OneWriter'
<1>1. \A i \in Inodes : Sound(content, broken, i) => Sound(content', broken', i)
  BY DEF Sound
<1>2. \A n \in Names : dir[n] # None => dir[n] \in Inodes
  BY DEF TypeOK
<1>3. QED
  BY <1>1, <1>2, Numbers DEF OneWriter, TypeOK, None

LEMMA EndedAside ==
  ASSUME TypeOK, OneWriter, NEW r \in Reqs, pc[r] # "installer", Ended(r) \/ Returned({r}),
         UNCHANGED <<dir, tmp, content, loose, broken, overlapped>>
  PROVE  OneWriter'
<1>1. Returned({r})
  BY DEF Ended
<1>2. Begun \subseteq Begun'
  BY <1>1 DEF Returned, Begun, TypeOK
<1>3. \A q \in Reqs : /\ Streaming(q)' => Streaming(q) /\ inode'[q] = inode[q]
                      /\ Writing(q)' => Writing(q)
                      /\ pc[q] = "installer" => pc'[q] = "installer"
  BY <1>1 DEF Returned, Streaming, Writing, TypeOK
<1>4. QED
  BY <1>2, <1>3, FilesAside

LEMMA WriterRequest ==
  ASSUME UpdaterTypes, OneWriter, NEW r \in Reqs, Request(r)
  PROVE  OneWriter'
<1> USE DEF UpdaterTypes, Goto, reqVars, fileVars, envVars, histVars
<1>1. CASE AskCheck(r)
  BY <1>1, FilesAside DEF AskCheck, Asked, Begun, Streaming, Writing, TypeOK
<1>2. CASE Answer(r)
  <2>1. CASE Ended(r)
    BY <1>2, <2>1, EndedAside DEF Answer
  <2>2. CASE Goto(r, "note") /\ UNCHANGED inode
    BY <1>2, <2>2, FilesAside DEF Answer, Begun, Streaming, Writing, TypeOK
  <2>3. QED
    BY <1>2, <2>1, <2>2 DEF Answer
<1>3. CASE Note(r)
  <2>1. CASE Ended(r)
    BY <1>3, <2>1, EndedAside DEF Note
  <2>2. CASE Goto(r, "begin") /\ UNCHANGED inode
    BY <1>3, <2>2, FilesAside DEF Note, Begun, Streaming, Writing, TypeOK
  <2>3. QED
    BY <1>3, <2>1, <2>2 DEF Note
<1>4. CASE Begin(r)
  BY <1>4, FilesAside DEF Begin, Asked, Begun, Streaming, Writing, TypeOK
<1>5. CASE Stop(r)
  BY <1>5, FilesAside DEF Stop, Begun, Streaming, Writing, TypeOK
<1>6. CASE Unlink(r)
  <2>1. Begun \subseteq Begun'
    BY <1>6 DEF Unlink, Begun, TypeOK
  <2>2. \A q \in Reqs : /\ Streaming(q)' <=> Streaming(q)
                        /\ Writing(q)' <=> Writing(q)
                        /\ (pc[q] = "installer")' <=> pc[q] = "installer"
    BY <1>6 DEF Unlink, Streaming, Writing, TypeOK
  <2>3. \A n \in Names : dir'[n] \in {None, dir[n]}
    BY <1>6 DEF Unlink, TypeOK
  <2>4. UNCHANGED <<tmp, content, loose, inode, overlapped, broken>>
    BY <1>6 DEF Unlink
  <2>5. \A i \in Inodes : Sound(content', broken', i) <=> Sound(content, broken, i)
    BY <2>4 DEF Sound
  <2>6. \A n \in Names : dir[n] # None => dir[n] \in Inodes
    BY DEF TypeOK
  <2>7. QED
    BY <2>1, <2>2, <2>3, <2>4, <2>5, <2>6 DEF OneWriter, TypeOK
<1>7. CASE UnlinkRaises(r)
  BY <1>7, EndedAside DEF UnlinkRaises
<1>8. CASE Open(r)
  <2> DEFINE i == IF tmp = None THEN r ELSE tmp
  <2>1. i \in Reqs /\ i \in Inodes /\ i # None
    BY Numbers DEF TypeOK, Reqs, None
  <2>2. Begun \subseteq Begun'
    BY <1>8 DEF Open, Begun, TypeOK
  <2>3. i \in Begun'
    BY <1>8, <2>1, <2>2 DEF Open, OneWriter, Begun, TypeOK
  <2>4. tmp' = i /\ inode' = [inode EXCEPT ![r] = i] /\ UNCHANGED <<dir, loose, broken>>
    BY <1>8 DEF Open
  <2>5. \A q \in Reqs : /\ Streaming(q)' <=> Streaming(q) \/ q = r
                        /\ Writing(q)' <=> Writing(q) \/ q = r
                        /\ (pc[q] = "installer")' <=> pc[q] = "installer"
    BY <1>8 DEF Open, Streaming, Writing, TypeOK
  <2>6. ASSUME ~overlapped' PROVE ~overlapped /\ \A q \in Reqs : ~Writing(q) /\ ~Streaming(q)
    BY <1>8, <2>6 DEF Open, Writing, Streaming
  <2>7. r \notin Begun
    BY <1>8 DEF Open, Begun
  <2>8. ASSUME NEW n \in Names, dir[n] # None, ~overlapped PROVE dir[n] # i
    BY <2>7, <2>8 DEF OneWriter
  <2>9. ASSUME ~overlapped' PROVE content' = [content EXCEPT ![i] = "part"]
    BY <1>8, <2>6, <2>9 DEF Open
  <2>10. \A n \in Names : dir[n] # None => dir[n] \in Begun' /\ dir[n] \in Inodes
    BY <2>2, Numbers DEF OneWriter, TypeOK, None
  <2>11. ASSUME ~overlapped', NEW n \in Names, dir[n] # None PROVE dir[n] # i /\ Sound(content', broken', dir[n])
    <3>1. dir[n] # i /\ dir[n] \in Inodes /\ Sound(content, broken, dir[n])
      BY <2>6, <2>8, <2>10, <2>11 DEF OneWriter
    <3>2. content'[dir[n]] = content[dir[n]] /\ UNCHANGED broken
      BY <2>4, <2>9, <2>11, <3>1 DEF TypeOK
    <3>3. QED
      BY <2>4, <3>1, <3>2 DEF Sound
  <2>12. ASSUME ~overlapped', NEW q \in Reqs, Writing(q)' PROVE q = r /\ inode'[q] = i /\ content'[i] = "part"
    BY <2>1, <2>4, <2>5, <2>6, <2>9, <2>12 DEF TypeOK
  <2>13. ASSUME ~overlapped', NEW q \in Reqs, Made(q) \in loose
         PROVE  content'[Made(q)] = "whole" \/ q \in broken
    <3>1. Made(q) # i /\ Made(q) \in Inodes
      BY Numbers DEF TypeOK, Reqs
    <3>2. content'[Made(q)] = content[Made(q)]
      BY <2>9, <2>13, <3>1 DEF TypeOK
    <3>3. pc[q] # "installer"
      BY <2>6, <2>13 DEF Writing
    <3>4. QED
      BY <2>6, <2>13, <3>2, <3>3 DEF OneWriter
  <2>14. \A q \in Reqs : Streaming(q)' => Writing(q)'
    BY DEF Streaming, Writing
  <2>15. \A j \in loose' : \E q \in Reqs : j = Made(q)
    BY <2>4 DEF OneWriter
  <2>16. QED
    BY <2>1, <2>3, <2>4, <2>10, <2>11, <2>12, <2>13, <2>14, <2>15 DEF OneWriter
<1>9. CASE NoBuild(r)
  BY <1>9, FilesAside DEF NoBuild, Begun, Streaming, Writing, TypeOK
<1>10. CASE Streamed(r)
  <2> DEFINE i == inode[r]
  <2>1. tmp' = None /\ UNCHANGED <<overlapped, loose, broken>> /\ Streaming(r)
    BY <1>10 DEF Streamed
  <2>2. PICK c \in {"mixed", "whole"} : content' = [content EXCEPT ![i] = c] /\ (content[i] # "mixed" => c = "whole")
    BY <1>10 DEF Streamed
  <2>3. Begun \subseteq Begun'
    BY <1>10 DEF Streamed, Streaming, Begun, TypeOK
  <2>4. \A q \in Reqs : /\ Streaming(q)' => Streaming(q) /\ q # r /\ inode'[q] = inode[q]
                        /\ Writing(q)' => Writing(q)
                        /\ pc[q] = "installer" => pc'[q] = "installer"
    BY <1>10 DEF Streamed, Streaming, Writing, TypeOK
  <2>5. \A n \in Names : dir'[n] = dir[n] \/ (dir'[n] = tmp /\ tmp # None)
    <3>1. (UNCHANGED dir) \/ (tmp # None /\ dir' = [dir EXCEPT !["server.jar"] = tmp])
      BY <1>10 DEF Streamed
    <3>2. QED
      BY <3>1 DEF TypeOK
  <2>6. \A n \in Names : dir'[n] # None => dir'[n] \in Inodes /\ dir'[n] \in Begun
    BY <2>5, Numbers DEF OneWriter, TypeOK, None
  <2>7. ASSUME ~overlapped PROVE tmp = i /\ tmp # None /\ i \in Inodes /\ content' = [content EXCEPT ![i] = "whole"]
    BY <2>1, <2>2, <2>7, Numbers DEF OneWriter, TypeOK, None
  <2>8. ASSUME ~overlapped, NEW n \in Names, dir'[n] # None PROVE Sound(content', broken', dir'[n])
    <3>1. ASSUME dir'[n] = dir[n] PROVE Sound(content', broken', dir'[n])
      <4>1. dir[n] # None /\ dir[n] \in Inodes /\ Sound(content, broken, dir[n])
        BY <2>6, <2>8, <3>1 DEF OneWriter
      <4>2. Sound(content', broken', dir[n])
        BY <2>1, <2>7, <2>8, <4>1 DEF Sound, TypeOK
      <4>3. QED
        BY <3>1, <4>2 DEF Sound
    <3>2. ASSUME dir'[n] = tmp PROVE Sound(content', broken', dir'[n])
      <4>1. tmp \in Inodes /\ content'[tmp] = "whole"
        BY <2>7, <2>8 DEF TypeOK
      <4>2. QED
        BY <3>2, <4>1 DEF Sound
    <3>3. QED
      BY <2>5, <3>1, <3>2
  <2>9. ASSUME ~overlapped, NEW q \in Reqs PROVE ~Streaming(q)'
    BY <2>1, <2>4, <2>9 DEF OneWriter, Writing, Streaming
  <2>10. ASSUME ~overlapped, NEW q \in Reqs, Made(q) \in loose
         PROVE  content'[Made(q)] = "whole" \/ q \in broken \/ pc'[q] = "installer"
    <3>1. Made(q) \in Inodes
      BY Numbers
    <3>2. content[Made(q)] = "whole" => content'[Made(q)] = "whole"
      BY <2>7, <2>10, <3>1 DEF TypeOK
    <3>3. QED
      BY <2>4, <2>10, <3>2 DEF OneWriter
  <2>11. \A n \in Names : dir'[n] # None => dir'[n] \in Begun'
    BY <2>3, <2>6 DEF Begun
  <2>12. ASSUME ~overlapped, NEW p \in Reqs, NEW q \in Reqs, Writing(p)', Writing(q)' PROVE p = q
    BY <2>4, <2>12 DEF OneWriter
  <2>13. \A n \in Names : dir'[n] # None => dir'[n] # tmp'
    BY <2>1
  <2>14. \A j \in loose' : \E q \in Reqs : j = Made(q)
    BY <2>1 DEF OneWriter
  <2>15. QED
    BY <2>1, <2>8, <2>9, <2>10, <2>11, <2>12, <2>13, <2>14 DEF OneWriter
<1>11. CASE StreamFails(r)
  <2>1. Begun \subseteq Begun'
    BY <1>11 DEF StreamFails, Streaming, Begun, TypeOK
  <2>2. \A q \in Reqs : /\ Streaming(q)' <=> Streaming(q) /\ q # r
                        /\ Writing(q)' <=> Writing(q) /\ q # r
                        /\ (pc[q] = "installer")' <=> pc[q] = "installer"
    BY <1>11 DEF StreamFails, Streaming, Writing, TypeOK
  <2>3. Streaming(r) /\ tmp' = None /\ UNCHANGED <<dir, content, loose, broken, inode, overlapped>>
    BY <1>11 DEF StreamFails
  <2>4. ~overlapped => \A q \in Reqs : ~Streaming(q)'
    BY <2>2, <2>3 DEF OneWriter, Writing, Streaming
  <2>5. \A j \in Inodes : Sound(content', broken', j) <=> Sound(content, broken, j)
    BY <2>3 DEF Sound
  <2>6. \A n \in Names : dir[n] # None => dir[n] \in Inodes
    BY DEF TypeOK
  <2>7. QED
    BY <2>1, <2>2, <2>3, <2>4, <2>5, <2>6 DEF OneWriter
<1>12. CASE Installed(r)
  <2> DEFINE done == content' = [content EXCEPT ![Made(r)] = "whole"] /\ UNCHANGED broken
  <2>1. done \/ (broken' = broken \cup {r} /\ UNCHANGED content)
    BY <1>12 DEF Installed
  <2>2. Begun \subseteq Begun'
    BY <1>12 DEF Installed, Begun, TypeOK
  <2>3. UNCHANGED <<tmp, inode, overlapped>> /\ pc[r] = "installer"
    BY <1>12 DEF Installed
  <2>4. \A q \in Reqs : /\ Streaming(q)' <=> Streaming(q)
                        /\ Writing(q)' <=> Writing(q) /\ q # r
                        /\ pc[q] = "installer" => pc'[q] = "installer" \/ q = r
    BY <1>12 DEF Installed, Streaming, Writing, TypeOK
  <2>5. \A j \in Inodes : Sound(content, broken, j) => Sound(content', broken', j)
    <3>1. Made(r) \in Inodes
      BY Numbers
    <3>2. QED
      BY <2>1, <3>1 DEF Sound, TypeOK
  <2>6. loose' \subseteq loose /\ \A n \in Names : dir'[n] \in {None, dir[n]} \cup loose
    BY <1>12 DEF Installed, Renamed, TypeOK
  <2>7. \A j \in loose : j \in Begun' /\ j # tmp /\ j \in Inodes
    <3>1. \A q \in Reqs : Made(q) \in Begun' /\ Made(q) # tmp /\ Made(q) \in Inodes
      BY Numbers DEF Begun, Reqs, TypeOK
    <3>2. QED
      BY <3>1 DEF OneWriter
  <2>8. ASSUME ~overlapped, NEW q \in Reqs, Made(q) \in loose
        PROVE  content'[Made(q)] = "whole" \/ q \in broken'
    <3>1. Made(q) \in Inodes /\ broken \subseteq broken'
      BY <2>1, Numbers
    <3>2. CASE q = r
      BY <2>1, <3>1, <3>2 DEF TypeOK
    <3>3. CASE q # r
      <4>1. pc[q] # "installer"
        BY <2>3, <2>8, <3>3 DEF OneWriter, Writing
      <4>2. content[Made(q)] = "whole" \/ q \in broken
        BY <2>8, <4>1 DEF OneWriter
      <4>3. content[Made(q)] = "whole" => content'[Made(q)] = "whole"
        BY <2>1, <3>1 DEF TypeOK
      <4>4. QED
        BY <3>1, <4>2, <4>3
    <3>4. QED
      BY <3>2, <3>3
  <2>9. \A n \in Names : dir[n] # None => dir[n] \in Inodes /\ dir[n] \in Begun'
    BY <2>2 DEF OneWriter, TypeOK
  <2>10. \A n \in Names : dir'[n] # None => dir'[n] \in Begun'
    BY <2>6, <2>7, <2>9
  <2>11. ASSUME ~overlapped, NEW n \in Names, dir'[n] # None PROVE dir'[n] # tmp' /\ Sound(content', broken', dir'[n])
    <3>1. ASSUME dir'[n] = dir[n] PROVE dir'[n] # tmp' /\ Sound(content', broken', dir'[n])
      <4>1. dir[n] # None /\ dir[n] \in Inodes /\ dir[n] # tmp /\ Sound(content, broken, dir[n])
        BY <2>9, <2>11, <3>1 DEF OneWriter
      <4>2. content'[dir[n]] = "whole" \/ \E q \in broken' : dir[n] = Made(q)
        BY <2>5, <4>1 DEF Sound
      <4>3. QED
        BY <2>3, <3>1, <4>1, <4>2 DEF Sound
    <3>2. ASSUME dir'[n] \in loose PROVE dir'[n] # tmp' /\ Sound(content', broken', dir'[n])
      <4>1. PICK q \in Reqs : dir'[n] = Made(q)
        BY <3>2 DEF OneWriter
      <4>2. content'[Made(q)] = "whole" \/ q \in broken'
        BY <2>8, <2>11, <3>2, <4>1
      <4>3. Sound(content', broken', dir'[n])
        BY <4>1, <4>2 DEF Sound
      <4>4. QED
        BY <2>3, <2>7, <3>2, <4>3
    <3>3. QED
      BY <2>6, <2>11, <3>1, <3>2
  <2>12. ASSUME ~overlapped, NEW q \in Reqs, Streaming(q)'
         PROVE  tmp' = inode'[q] /\ tmp' # None /\ content'[tmp'] # "mixed"
    <3>1. tmp = inode[q] /\ tmp # None /\ content[tmp] # "mixed"
      BY <2>4, <2>12 DEF OneWriter
    <3>2. tmp \in Inodes /\ Made(r) # tmp
      BY <3>1, Numbers DEF TypeOK
    <3>3. content'[tmp] = content[tmp]
      BY <2>1, <3>2 DEF TypeOK
    <3>4. QED
      BY <2>3, <3>1, <3>3
  <2>13. tmp' # None => tmp' \in Begun'
    BY <2>2, <2>3 DEF OneWriter
  <2>14. \A j \in loose' : \E q \in Reqs : j = Made(q)
    BY <2>6 DEF OneWriter
  <2>15. ~overlapped' => \A p, q \in Reqs : Writing(p)' /\ Writing(q)' => p = q
    BY <2>3, <2>4 DEF OneWriter
  <2>16. QED
    BY <2>3, <2>6, <2>8, <2>10, <2>11, <2>12, <2>13, <2>14, <2>15 DEF OneWriter
<1>13. CASE Latest(r)
  BY <1>13, FilesAside DEF Latest, Begun, Streaming, Writing, TypeOK
<1>14. CASE Save(r)
  <2>1. CASE Ended(r)
    BY <1>14, <2>1, EndedAside DEF Save
  <2>2. CASE Goto(r, "start") /\ UNCHANGED inode
    BY <1>14, <2>2, FilesAside DEF Save, Begun, Streaming, Writing, TypeOK
  <2>3. QED
    BY <1>14, <2>1, <2>2 DEF Save, AfterAll
<1>15. CASE Failure(r)
  <2>1. CASE Ended(r)
    BY <1>15, <2>1, EndedAside DEF Failure
  <2>2. CASE Goto(r, "start") /\ UNCHANGED inode
    BY <1>15, <2>2, FilesAside DEF Failure, Begun, Streaming, Writing, TypeOK
  <2>3. QED
    BY <1>15, <2>1, <2>2 DEF Failure, AfterAll
<1>16. CASE Start(r)
  BY <1>16, EndedAside DEF Start
<1>17. CASE InstallerWrites(r)
  <2>1. UNCHANGED <<dir, tmp, content, overlapped, broken, pc, inode>> /\ loose' = loose \cup {Made(r)}
    BY <1>17 DEF InstallerWrites
  <2>2. Begun \subseteq Begun'
    BY <2>1 DEF Begun
  <2>3. pc[r] = "installer"
    BY <1>17 DEF InstallerWrites
  <2>4. \A q \in Reqs : (Streaming(q)' <=> Streaming(q)) /\ (Writing(q)' <=> Writing(q))
    BY <2>1 DEF Streaming, Writing
  <2>5. \A j : Sound(content', broken', j) <=> Sound(content, broken, j)
    BY <2>1 DEF Sound
  <2>6. \A q \in Reqs : Made(q) \in loose' => Made(q) \in loose \/ pc[q] = "installer"
    BY <2>1, <2>3, Numbers
  <2>7. \A j \in loose' : \E q \in Reqs : j = Made(q)
    BY <2>1 DEF OneWriter
  <2>8. QED
    BY <2>1, <2>2, <2>4, <2>5, <2>6, <2>7 DEF OneWriter
<1>18. QED
  BY <1>1, <1>2, <1>3, <1>4, <1>5, <1>6, <1>7, <1>8, <1>9, <1>10, <1>11, <1>12, <1>13, <1>14, <1>15, <1>16, <1>17 DEF Request

LEMMA WriterNext == UpdaterTypes /\ OneWriter /\ [Next]_vars => OneWriter'
<1> SUFFICES ASSUME UpdaterTypes, OneWriter, [Next]_vars PROVE OneWriter'
  OBVIOUS
<1>1. ASSUME NEW r \in Reqs, Request(r) PROVE OneWriter'
  BY <1>1, WriterRequest
<1>2. CASE UserStarts \/ ServerStops \/ Publish
  BY <1>2, FilesAside DEF UserStarts, ServerStops, Publish, reqVars, fileVars, histVars, Begun, Streaming, Writing, UpdaterTypes
<1>3. CASE Crash
  <2>1. Begun \subseteq Begun'
    BY <1>3 DEF Crash, Returned, Begun
  <2>2. \A q \in Reqs : /\ ~Streaming(q)' /\ ~Writing(q)'
                        /\ pc[q] = "installer" => q \in broken'
    BY <1>3 DEF Crash, Returned, Streaming, Writing, InFlight
  <2>3. UNCHANGED <<dir, tmp, content, loose, overlapped>> /\ broken \subseteq broken'
    BY <1>3 DEF Crash, fileVars
  <2>4. QED
    BY <2>1, <2>2, <2>3, FilesAside DEF UpdaterTypes
<1>4. CASE UNCHANGED vars
  BY <1>4, FilesAside DEF vars, reqVars, fileVars, histVars, Begun, Streaming, Writing, UpdaterTypes
<1>5. QED
  BY <1>1, <1>2, <1>3, <1>4 DEF Next

\* An executable is absent, complete, or made by an installer that ended before
\* its JAR was complete, unless two downloads overlapped: after failed streams, a
\* death of the manager and the files that it left.
THEOREM ExecutableIsWhole == Spec => []JarIsWhole
<1>1. OneWriter => JarIsWhole
  BY DEF OneWriter, JarIsWhole, Sound
<1>2. QED
  BY <1>1, WriterInit, WriterNext, TypesHold, PTL DEF Spec

-----------------------------------------------------------------------------
(* Running servers and their executables                                   *)

LEMMA LateInit == Init => LateIfRunning
BY DEF Init, LateIfRunning, Touches

LEMMA LateRequest ==
  ASSUME UpdaterTypes, LateIfRunning, NEW r \in Reqs, Request(r)
  PROVE  LateIfRunning'
<1> USE DEF UpdaterTypes, TypeOK, LateIfRunning, Touches, Goto, reqVars, fileVars, envVars, histVars
<1>1. CASE AskCheck(r)
  BY <1>1 DEF AskCheck, Asked
<1>2. CASE Answer(r)
  BY <1>2 DEF Answer, Ended, Returned, AfterAll
<1>3. CASE Note(r)
  BY <1>3 DEF Note, Ended, Returned, AfterAll
<1>4. CASE Begin(r)
  BY <1>4 DEF Begin, Asked
<1>5. CASE Stop(r)
  BY <1>5 DEF Stop
<1>6. CASE Unlink(r)
  BY <1>6 DEF Unlink
<1>7. CASE UnlinkRaises(r)
  BY <1>7 DEF UnlinkRaises, Ended, Returned, AfterAll
<1>8. CASE Open(r)
  BY <1>8 DEF Open
<1>9. CASE NoBuild(r)
  BY <1>9 DEF NoBuild
<1>10. CASE Streamed(r)
  BY <1>10 DEF Streamed, Streaming
<1>11. CASE StreamFails(r)
  BY <1>11 DEF StreamFails, Streaming
<1>12. CASE Installed(r)
  BY <1>12 DEF Installed
<1>13. CASE Latest(r)
  BY <1>13 DEF Latest
<1>14. CASE Save(r)
  BY <1>14 DEF Save, Ended, Returned, AfterAll
<1>15. CASE Failure(r)
  BY <1>15 DEF Failure, Ended, Returned, AfterAll
<1>16. CASE Start(r)
  BY <1>16 DEF Start, Returned, StartsServer, InFlight
<1>17. CASE InstallerWrites(r)
  BY <1>17 DEF InstallerWrites
<1>18. QED
  BY <1>1, <1>2, <1>3, <1>4, <1>5, <1>6, <1>7, <1>8, <1>9, <1>10, <1>11, <1>12, <1>13, <1>14, <1>15, <1>16, <1>17 DEF Request

LEMMA LateNext == UpdaterTypes /\ LateIfRunning /\ [Next]_vars => LateIfRunning'
<1> SUFFICES ASSUME UpdaterTypes, LateIfRunning, [Next]_vars PROVE LateIfRunning'
  OBVIOUS
<1>1. ASSUME NEW r \in Reqs, Request(r) PROVE LateIfRunning'
  BY <1>1, LateRequest
<1>2. CASE UserStarts \/ ServerStops \/ Publish \/ Crash
  BY <1>2 DEF UserStarts, ServerStops, Publish, Crash, StartsServer, LateIfRunning, Touches, InFlight, reqVars, histVars
<1>3. CASE UNCHANGED vars
  BY <1>3 DEF vars, reqVars, histVars, LateIfRunning, Touches
<1>4. QED
  BY <1>1, <1>2, <1>3 DEF Next

\* One request at a time changes the directory, and each step that does belongs
\* to an update that has yet to touch the executable.
LEMMA DirectoryStep ==
  ASSUME UpdaterTypes, LateIfRunning, [Next]_vars, dir' # dir, up
  PROVE  \A r \in Reqs : pc'[r] # pc[r] => r \in late
<1> USE DEF UpdaterTypes, TypeOK, LateIfRunning, Touches, Goto, reqVars, fileVars, envVars, histVars
<1>1. PICK q \in Reqs : Unlink(q) \/ Streamed(q) \/ Installed(q)
  BY DEF Next, vars, Request, AskCheck, Answer, Note, Begin, Stop, UnlinkRaises, Open, NoBuild, StreamFails, InstallerWrites,
         Latest, Save, Failure, Start, UserStarts, ServerStops, Publish, Crash
<1>2. CASE Unlink(q)
  BY <1>2 DEF Unlink
<1>3. CASE Streamed(q)
  BY <1>3 DEF Streamed, Streaming
<1>4. CASE Installed(q)
  BY <1>4 DEF Installed
<1>5. QED
  BY <1>1, <1>2, <1>3, <1>4

\* An update removes or replaces the executable of a running server only if the
\* server was started after the update had looked at the process table.
THEOREM RunningKeepTheirJar == Spec => OnlyLateStartsLoseTheirJar
<1>1. UpdaterTypes /\ LateIfRunning /\ [Next]_vars
        => [dir' # dir /\ up => \A r \in Reqs : pc'[r] # pc[r] => r \in late]_vars
  BY DirectoryStep
<1>2. QED
  BY <1>1, LateInit, LateNext, TypesHold, PTL DEF Spec, OnlyLateStartsLoseTheirJar

-----------------------------------------------------------------------------
(* Updates that the scheduled check begins                                 *)

LEMMA AbreastInit == Init => JavaAbreast
<1> SUFFICES ASSUME Init PROVE Abreast
  BY DEF JavaAbreast
<1>1. \A r \in Reqs : kind[r] # "auto" /\ seen[r] = 0
  BY DEF Init, None
<1>2. QED
  BY <1>1 DEF Init, Abreast, None

LEMMA AbreastRequest ==
  ASSUME UpdaterTypes, Abreast, loader # "bedrock", NEW r \in Reqs, Request(r)
  PROVE  Abreast'
<1> USE Numbers DEF UpdaterTypes, TypeOK, Builds, Turns, InFlight, Abreast, Goto, None, reqVars, fileVars, envVars, histVars
<1>1. CASE AskCheck(r)
  BY <1>1 DEF AskCheck, Asked
<1>2. CASE Answer(r)
  <2>1. PICK b \in {None, published} :
          \/ Ended(r)
          \/ /\ b # None /\ (kind[r] = "check" \/ seen[r] # b)
             /\ seen' = [seen EXCEPT ![r] = b] /\ Goto(r, "note") /\ UNCHANGED <<kind, was, inode, late>>
    BY <1>2 DEF Answer, Answers
  <2>2. UNCHANGED <<published, known, autos, steppedBack>>
    BY <1>2 DEF Answer
  <2>3. CASE Ended(r)
    BY <2>2, <2>3 DEF Ended, Returned
  <2>4. CASE ~Ended(r)
    <3>1. b = published /\ pc[r] = "answer"
      BY <1>2, <2>1, <2>4 DEF Answer
    <3>2. kind[r] = "auto" /\ ~steppedBack => autos < published
      BY <2>1, <2>4, <3>1
    <3>3. QED
      BY <2>1, <2>2, <2>4, <3>1, <3>2
  <2>5. QED
    BY <2>3, <2>4
<1>3. CASE Note(r)
  <2>1. seen[r] <= published /\ known' = seen[r] /\ UNCHANGED published
    BY <1>3 DEF Note
  <2>2. \A q \in Reqs : seen'[q] <= published
    BY <1>3, <2>1 DEF Note, Ended, Returned
  <2>3. ASSUME ~steppedBack' PROVE ~steppedBack /\ seen[r] = published /\ known <= known'
    BY <1>3, <2>1, <2>3 DEF Note
  <2>4. ASSUME ~steppedBack' PROVE autos' <= known'
    BY <1>3, <2>1, <2>3, <2>4 DEF Note
  <2>5. CASE kind[r] = "auto"
    <3>1. \A q \in Reqs : ~(kind'[q] = "auto" /\ pc'[q] \in {"answer", "note"})
      BY <1>3, <2>5 DEF Note
    <3>2. QED
      BY <2>1, <2>2, <2>4, <3>1
  <2>6. CASE kind[r] # "auto"
    <3>1. \A q \in Reqs : kind'[q] = "auto" => kind[q] = "auto" /\ pc'[q] = pc[q] /\ seen'[q] = seen[q]
      BY <1>3, <2>6 DEF Note, Ended, Returned
    <3>2. UNCHANGED autos
      BY <1>3, <2>6 DEF Note
    <3>3. QED
      BY <2>1, <2>2, <2>3, <2>4, <3>1, <3>2
  <2>7. QED
    BY <2>5, <2>6
<1>4. CASE Begin(r)
  BY <1>4 DEF Begin, Asked
<1>5. CASE Stop(r)
  BY <1>5 DEF Stop
<1>6. CASE Unlink(r)
  BY <1>6 DEF Unlink
<1>7. CASE UnlinkRaises(r)
  BY <1>7 DEF UnlinkRaises, Ended, Returned, AfterAll
<1>8. CASE Open(r)
  BY <1>8 DEF Open
<1>9. CASE NoBuild(r)
  BY <1>9 DEF NoBuild
<1>10. CASE Streamed(r)
  BY <1>10 DEF Streamed, Streaming
<1>11. CASE StreamFails(r)
  BY <1>11 DEF StreamFails, Streaming
<1>12. CASE Installed(r)
  BY <1>12 DEF Installed
<1>13. CASE Latest(r)
  BY <1>13 DEF Latest
<1>14. CASE Save(r)
  <2>1. seen[r] <= published /\ known' = (IF seen[r] = 0 THEN known ELSE seen[r]) /\ UNCHANGED <<published, autos>>
    BY <1>14 DEF Save
  <2>2. ASSUME ~steppedBack' PROVE ~steppedBack /\ seen[r] \in {0, published}
    BY <1>14, <2>2 DEF Save
  <2>3. ASSUME ~steppedBack' PROVE known <= known'
    BY <2>1, <2>2, <2>3
  <2>4. ASSUME NEW q \in Reqs
        PROVE  /\ seen'[q] <= published
               /\ pc'[q] \in {"answer", "note"} => pc'[q] = pc[q] /\ kind'[q] = kind[q] /\ seen'[q] = seen[q]
    BY <1>14 DEF Save, AfterAll, Ended, Returned
  <2>5. QED
    BY <2>1, <2>2, <2>3, <2>4
<1>15. CASE Failure(r)
  BY <1>15 DEF Failure, Ended, Returned, AfterAll
<1>16. CASE Start(r)
  BY <1>16 DEF Start, Ended, Returned, AfterAll
<1>17. CASE InstallerWrites(r)
  BY <1>17 DEF InstallerWrites
<1>18. QED
  BY <1>1, <1>2, <1>3, <1>4, <1>5, <1>6, <1>7, <1>8, <1>9, <1>10, <1>11, <1>12, <1>13, <1>14, <1>15, <1>16, <1>17 DEF Request

LEMMA LoaderStays == [Next]_vars => UNCHANGED loader
<1> SUFFICES ASSUME [Next]_vars PROVE UNCHANGED loader
  OBVIOUS
<1> USE DEF envVars
<1>1. ASSUME NEW r \in Reqs, Request(r) PROVE UNCHANGED loader
  BY <1>1 DEF Request, AskCheck, Answer, Note, Begin, Stop, Unlink, UnlinkRaises, Open, NoBuild, Streamed,
              StreamFails, InstallerWrites, Installed, Latest, Save, Failure, Start
<1>2. CASE UserStarts \/ ServerStops \/ Publish \/ Crash
  BY <1>2 DEF UserStarts, ServerStops, Publish, Crash
<1>3. QED
  BY <1>1, <1>2 DEF Next, vars

LEMMA AbreastNext == UpdaterTypes /\ JavaAbreast /\ [Next]_vars => JavaAbreast'
<1> SUFFICES ASSUME UpdaterTypes, JavaAbreast, [Next]_vars, loader' # "bedrock" PROVE Abreast'
  BY DEF JavaAbreast
<1> USE Numbers DEF UpdaterTypes, TypeOK, Builds, Abreast, None
<1>0. loader # "bedrock" /\ Abreast
  BY LoaderStays DEF JavaAbreast
<1>1. ASSUME NEW r \in Reqs, Request(r) PROVE Abreast'
  BY <1>0, <1>1, AbreastRequest
<1>2. CASE UserStarts \/ ServerStops
  BY <1>0, <1>2 DEF UserStarts, ServerStops, StartsServer, reqVars, envVars, histVars
<1>3. CASE Publish
  BY <1>0, <1>3 DEF Publish, reqVars, histVars
<1>4. CASE Crash
  BY <1>0, <1>4 DEF Crash, Returned
<1>5. CASE UNCHANGED vars
  BY <1>0, <1>5 DEF vars, reqVars, envVars, histVars
<1>6. QED
  BY <1>1, <1>2, <1>3, <1>4, <1>5 DEF Next

\* Each build makes the scheduled check update the server at most once, unless
\* a request committed an older build than the newest or the server is a Bedrock
\* one, which is compared with one version and updated to another.
THEOREM BuildsInstalledOnce == Spec => []EachBuildOnce
<1>1. UpdaterTypes /\ JavaAbreast => EachBuildOnce
  BY DEF UpdaterTypes, TypeOK, Builds, Abreast, JavaAbreast, EachBuildOnce
<1>2. QED
  BY <1>1, AbreastInit, AbreastNext, TypesHold, PTL DEF Spec
==============================================================================
