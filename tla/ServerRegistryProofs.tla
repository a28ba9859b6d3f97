------------------------ MODULE ServerRegistryProofs ------------------------
(***************************************************************************)
(* The rows of the servers, their directories, ports, names, processes and *)
(* marks, for any number of requests of any kinds, names, ports and deaths *)
(* of the manager.                                                         *)
(***************************************************************************)
EXTENDS ServerRegistry, WellFoundedInduction, TLAPS

\* What a deletion has found stopped, or has stopped, runs again only if it
\* was started late; only deletions stop and erase.
DeletedAreLate ==
  \A r \in Reqs :
    /\ pc[r] \in {"stop", "erase"} => kind[r] = "delete"
    /\ pc[r] = "erase" /\ target[r] \in procs => target[r] \in late

RequestShape ==
  /\ pc = [r \in Reqs |-> pc[r]] /\ kind = [r \in Reqs |-> kind[r]]
  /\ target = [r \in Reqs |-> target[r]]

DeletionInv == RequestShape /\ DeletedAreLate /\ ProcessesHaveRows

-----------------------------------------------------------------------------
LEMMA DeletionInit == Init => DeletionInv
BY DEF Init, DeletionInv, RequestShape, DeletedAreLate, ProcessesHaveRows

\* A request that is not a deletion goes on with neither a stop nor an erasure,
\* adds at most its own row, and leaves the processes alone.
LEMMA NoDeletion ==
  ASSUME DeletionInv, NEW r \in Reqs, NEW next \in {"extract", "copy", "insert", "install", "commit", "ended"},
         Goto(r, next), UNCHANGED <<procs, late>>, rows \subseteq rows',
         RequestShape', \A q \in Reqs \ {r} : kind'[q] = kind[q] /\ target'[q] = target[q]
  PROVE  DeletionInv'
BY DEF DeletionInv, RequestShape, DeletedAreLate, ProcessesHaveRows, Goto

LEMMA DeletionRequest ==
  ASSUME DeletionInv, NEW r \in Reqs, Request(r)
  PROVE  DeletionInv'
<1> USE DEF RequestShape, Asked, Goto, histVars, diskVars
<1>0. RequestShape
  BY DEF DeletionInv
<1>1. CASE Create(r)
  BY <1>0, <1>1, NoDeletion DEF Create
<1>2. CASE Import(r)
  BY <1>0, <1>2, NoDeletion DEF Import
<1>3. CASE Upload(r)
  BY <1>0, <1>3, NoDeletion DEF Upload
<1>4. CASE Extract(r)
  BY <1>0, <1>4, NoDeletion DEF Extract
<1>5. CASE Clone(r)
  BY <1>0, <1>5, NoDeletion DEF Clone
<1>6. CASE Copy(r)
  BY <1>0, <1>6, NoDeletion DEF Copy
<1>7. CASE Config(r)
  BY <1>0, <1>7, NoDeletion DEF Config
<1>8. CASE Insert(r)
  BY <1>0, <1>8, NoDeletion DEF Insert
<1>9. CASE Download(r)
  BY <1>0, <1>9, NoDeletion DEF Download
<1>10. CASE Install(r)
  BY <1>0, <1>10, NoDeletion DEF Install
<1>11. CASE Edit(r)
  BY <1>0, <1>11, NoDeletion DEF Edit
<1>12. CASE EditCommit(r)
  BY <1>0, <1>12, NoDeletion DEF EditCommit
<1>13. CASE Delete(r)
  BY <1>13 DEF Delete, DeletionInv, DeletedAreLate, ProcessesHaveRows
<1>14. CASE DeleteStop(r)
  BY <1>14 DEF DeleteStop, DeletionInv, DeletedAreLate, ProcessesHaveRows
<1>15. CASE Erase(r)
  BY <1>15 DEF Erase, DeletionInv, DeletedAreLate, ProcessesHaveRows
<1>16. QED
  BY <1>1, <1>2, <1>3, <1>4, <1>5, <1>6, <1>7, <1>8, <1>9, <1>10, <1>11, <1>12, <1>13, <1>14, <1>15
     DEF Request

LEMMA DeletionNext == DeletionInv /\ [Next]_vars => DeletionInv'
<1> SUFFICES ASSUME DeletionInv, [Next]_vars PROVE DeletionInv'
  OBVIOUS
<1> USE DEF DeletionInv, RequestShape, DeletedAreLate, ProcessesHaveRows
<1>1. ASSUME NEW r \in Reqs, Request(r) PROVE DeletionInv'
  BY <1>1, DeletionRequest
<1>2. ASSUME NEW i \in Ids, Start(i) PROVE DeletionInv'
  BY <1>2 DEF Start, InFlight, reqVars
<1>3. ASSUME NEW i \in Ids, Stop(i) PROVE DeletionInv'
  BY <1>3 DEF Stop, reqVars
<1>4. CASE Crash
  BY <1>4 DEF Crash, InFlight
<1>5. ASSUME NEW i \in Ids, StartFails(i) PROVE DeletionInv'
  BY <1>5 DEF StartFails, reqVars
<1>6. CASE List
  BY <1>6 DEF List, reqVars, histVars
<1>7. CASE UNCHANGED vars
  BY <1>7 DEF vars, reqVars, histVars
<1>8. QED
  BY <1>1, <1>2, <1>3, <1>4, <1>5, <1>6, <1>7 DEF Next

\* delete_server (server_crud.py) leaves no process of a server without its row,
\* unless the server was started between the look at the process table and the
\* commit, however many deletions of it overlap.
THEOREM NoOrphanProcess == Spec => []ProcessesHaveRows
<1>1. DeletionInv => ProcessesHaveRows
  BY DEF DeletionInv
<1>2. QED
  BY <1>1, DeletionInit, DeletionNext, PTL DEF Spec

-----------------------------------------------------------------------------
(* Ports                                                                   *)

\* A set of naturals has a least element: a search ends at a port.
LEMMA LeastPort ==
  ASSUME NEW S, S \subseteq Nat, S # {}
  PROVE  Min(S) \in S
<1>1. PICK x \in S : \A y \in S : ~(<<y, x>> \in OpToRel(<, Nat))
  BY WFMin, NatLessThanWellFounded
<1>2. \A y \in S : ~(y < x)
  BY <1>1 DEF OpToRel
<1>3. \E z \in S : \A y \in S : z =< y
  BY <1>2
<1>4. QED
  BY <1>3 DEF Min

LEMMA PortsAreNat == MaxPort \in Nat /\ MaxPort >= 3
BY BoundAssumption

LEMMA FirstFits ==
  ASSUME NEW t \in AllTypes
  PROVE  First[t].game \in 1 .. 2 /\ First[t].rcon \in {0, 2} /\ First[t].query \in {0, 2, 3}
BY DEF First, AllTypes, NoPort

\* _next_free_port answers a port that is not taken, or the one beyond the range.
LEMMA NextFreeFits ==
  ASSUME NEW start \in 0 .. 3, NEW taken
  PROVE  /\ NextFree(start, taken) \in Ports
         /\ NextFree(start, taken) \notin taken \/ NextFree(start, taken) = MaxPort + 1
<1> DEFINE S == {p \in start .. MaxPort + 1 : p \notin taken \/ p = MaxPort + 1}
<1>1. S \subseteq Nat /\ MaxPort + 1 \in S
  BY PortsAreNat
<1>2. Min(S) \in S
  BY <1>1, LeastPort
<1>3. Min(S) = NextFree(start, taken)
  BY DEF NextFree
<1>4. QED
  BY <1>2, <1>3, PortsAreNat DEF Ports

\* A suggested port is not used, or is the one beyond the range.
Fresh(p) == p \in Ports /\ p \notin Used({}) \ {MaxPort + 1}

\* suggest_ports
LEMMA SuggestedFits ==
  ASSUME NEW t \in AllTypes
  PROVE  LET g == Suggested(t) IN
           /\ Fresh(g.game) /\ (g.rcon = NoPort \/ Fresh(g.rcon)) /\ (g.query = NoPort \/ Fresh(g.query))
<1> DEFINE u == Used({})
           g == NextFree(First[t].game, u)
           c == IF First[t].rcon = NoPort THEN NoPort ELSE NextFree(First[t].rcon, u \cup {g})
           q == IF First[t].query = NoPort THEN NoPort ELSE NextFree(First[t].query, u \cup {g, c})
<1>1. Suggested(t) = [game |-> g, rcon |-> c, query |-> q]
  BY DEF Suggested
<1>2. First[t].game \in 0 .. 3 /\ First[t].rcon \in 0 .. 3 /\ First[t].query \in 0 .. 3
  BY FirstFits
<1>3. Fresh(g)
  BY <1>2, NextFreeFits DEF Fresh
<1>4. c = NoPort \/ Fresh(c)
  <2>1. CASE First[t].rcon # NoPort
    <3>1. c = NextFree(First[t].rcon, u \cup {g})
      BY <2>1
    <3>2. QED
      BY <1>2, <3>1, NextFreeFits DEF Fresh
  <2>2. QED
    BY <2>1
<1>5. q = NoPort \/ Fresh(q)
  <2>1. CASE First[t].query # NoPort
    <3>1. q = NextFree(First[t].query, u \cup {g, c})
      BY <2>1
    <3>2. QED
      BY <1>2, <3>1, NextFreeFits DEF Fresh
  <2>2. QED
    BY <2>1
<1> HIDE DEF g, c, q
<1>6. QED
  BY <1>1, <1>3, <1>4, <1>5

-----------------------------------------------------------------------------
(* Types                                                                   *)

\* TypeOK without the inclusion of files in dirs.
Typed ==
  /\ rows \subseteq Ids /\ row \in [Ids -> Columns] /\ dirs \subseteq Ids /\ files \subseteq Ids
  /\ procs \subseteq Ids /\ kind \in [Reqs -> AllKinds \cup {"none"}] /\ target \in [Reqs -> Ids]
  /\ pc \in [Reqs -> {"idle", "extract", "copy", "insert", "install", "commit", "stop", "erase", "ended"}]
  /\ crashes \in 0 .. MaxCrashes /\ saw \in [Ids -> SUBSET Ids]
  /\ lost \subseteq Ids /\ shared \subseteq Ids /\ tried \subseteq Ids /\ late \subseteq Ids

LEMMA SmallNumbers == Reqs \subseteq Ids /\ 0 \in Ids /\ {0, 1, 2, 3} \subseteq Ports /\ NoPort \in Ports
BY BoundAssumption DEF Reqs, Ids, Ports, NoPort

LEMMA NoRowTyped == NoRow \in Columns
BY SmallNumbers DEF NoRow, Columns, AllTypes, NoPort

\* A new row is typed if what it gives is.
LEMMA NewRowTyped ==
  ASSUME NEW n \in Names, NEW p \in BOOLEAN, NEW t \in AllTypes, NEW g \in Ports, NEW c \in Ports,
         NEW q \in Ports, NEW d \in Ids, NEW k \in AllKinds
  PROVE  [NoRow EXCEPT !.name = n, !.padded = p, !.type = t, !.game = g, !.rcon = c, !.query = q,
            !.dir = d, !.by = k] \in Columns
BY NoRowTyped DEF NoRow, Columns


LEMMA TypedInit == Init => Typed
<1> SUFFICES ASSUME Init PROVE Typed
  OBVIOUS
<1>1. PICK t \in Types, n \in Names :
        row = [i \in Ids |-> IF i # 0 THEN NoRow
                ELSE [NoRow EXCEPT !.name = n, !.type = t, !.game = First[t].game, !.by = "create"]]
  BY DEF Init
<1>2. [NoRow EXCEPT !.name = n, !.type = t, !.game = First[t].game, !.by = "create"] \in Columns
  <2>1. t \in AllTypes /\ First[t].game \in Ports
    BY KindAssumption, FirstFits, SmallNumbers
  <2>2. QED
    BY <2>1, NoRowTyped DEF NoRow, Columns, AllKinds
<1>3. row \in [Ids -> Columns]
  BY <1>1, <1>2, NoRowTyped
<1>4. QED
  BY <1>3, SmallNumbers, BoundAssumption DEF Init, Typed

\* The requests that compare a row write one that is typed.
LEMMA ComparedTyped ==
  ASSUME Typed, NEW r \in Reqs, NEW s \in Columns, Compared(r, s)
  PROVE  row' \in [Ids -> Columns] /\ saw' \in [Ids -> SUBSET Ids]
BY SmallNumbers DEF Typed, Compared

\* The row that each kind of request makes.
LEMMA CreateRow ==
  ASSUME Typed, NEW r \in Reqs, Create(r)
  PROVE  \E s \in Columns :
           /\ s.dir = r /\ s.by = "create" /\ (s.type # "steam" => s.query = NoPort)
           /\ NoConflict(s, {}) /\ NameFree(s) /\ Compared(r, s)
<1>1. PICK t \in Types, n \in Names, p \in BOOLEAN, g \in 1 .. MaxPort, c \in {NoPort, First["java"].rcon} :
        LET s == [NoRow EXCEPT !.name = n, !.padded = p, !.type = t, !.game = g, !.rcon = c,
                    !.query = IF t = "steam" THEN g + 1 ELSE NoPort, !.dir = r, !.by = "create"]
        IN NoConflict(s, {}) /\ NameFree(s) /\ Compared(r, s)
  BY DEF Create
<1>2. t \in AllTypes /\ r \in Ids /\ "create" \in AllKinds
  BY KindAssumption, SmallNumbers DEF AllKinds
<1>3. g \in Ports /\ g + 1 \in Ports /\ c \in Ports
  BY PortsAreNat, FirstFits, SmallNumbers DEF Ports, AllTypes
<1> DEFINE q == IF t = "steam" THEN g + 1 ELSE NoPort
           s == [NoRow EXCEPT !.name = n, !.padded = p, !.type = t, !.game = g, !.rcon = c,
                    !.query = q, !.dir = r, !.by = "create"]
<1>4. q \in Ports
  BY <1>3, SmallNumbers
<1>5. NoConflict(s, {}) /\ NameFree(s) /\ Compared(r, s)
  BY <1>1
<1>6. s.dir = r /\ s.by = "create" /\ s.type = t /\ s.query = q
  BY DEF NoRow
<1> HIDE DEF q
<1>7. s \in Columns
  BY <1>2, <1>3, <1>4, NoRowTyped DEF NoRow, Columns
<1> HIDE DEF s
<1>8. s.type # "steam" => s.query = NoPort
  BY <1>6 DEF q
<1>9. QED
  BY <1>5, <1>6, <1>7, <1>8

LEMMA ImportRow ==
  ASSUME Typed, NEW r \in Reqs, Import(r)
  PROVE  \E s \in Columns :
           /\ s.dir \in dirs /\ s.by = "import" /\ (s.type # "steam" => s.query = NoPort)
           /\ NameFree(s) /\ Compared(r, s)
           /\ \A i \in rows : row[i].dir # s.dir
           /\ shared' = IF \E q \in Reqs : InFlight(q) /\ row[q].dir = s.dir
                          THEN shared \cup {s.dir} ELSE shared
<1>1. PICK t \in Types, n \in Names, p \in BOOLEAN, d \in dirs :
        LET s == [NoRow EXCEPT !.name = n, !.padded = p, !.type = t, !.game = First[t].game,
                    !.query = IF t = "steam" THEN First[t].game + 1 ELSE NoPort, !.dir = d, !.by = "import"]
        IN /\ NameFree(s) /\ Compared(r, s)
           /\ \A i \in rows : row[i].dir # d
           /\ shared' = IF \E q \in Reqs : InFlight(q) /\ row[q].dir = d THEN shared \cup {d} ELSE shared
  BY DEF Import
<1>2. t \in AllTypes /\ d \in Ids /\ "import" \in AllKinds
  BY KindAssumption DEF AllKinds, Typed
<1>3. First[t].game \in Ports /\ First[t].game + 1 \in Ports
  BY <1>2, FirstFits, SmallNumbers
<1> DEFINE q == IF t = "steam" THEN First[t].game + 1 ELSE NoPort
           s == [NoRow EXCEPT !.name = n, !.padded = p, !.type = t, !.game = First[t].game,
                    !.query = q, !.dir = d, !.by = "import"]
<1>4. q \in Ports
  BY <1>3, SmallNumbers
<1>5. NameFree(s) /\ Compared(r, s)
  BY <1>1
<1>6. s.dir = d /\ s.by = "import" /\ s.type = t /\ s.query = q
  BY DEF NoRow
<1> HIDE DEF q
<1>7. s \in Columns
  BY <1>2, <1>3, <1>4, NoRowTyped DEF NoRow, Columns
<1> HIDE DEF s
<1>8. s.type # "steam" => s.query = NoPort
  BY <1>6 DEF q
<1>9. QED
  BY <1>1, <1>5, <1>6, <1>7, <1>8

LEMMA UploadRow ==
  ASSUME Typed, NEW r \in Reqs, Upload(r)
  PROVE  \E s \in Columns :
           /\ s.dir = r /\ s.by = "upload" /\ s.query = NoPort /\ NameFree(s) /\ Compared(r, s)
<1>1. PICK t \in Types, n \in Names, p \in BOOLEAN :
        LET s == [NoRow EXCEPT !.name = n, !.padded = p, !.type = t, !.game = First[t].game,
                    !.dir = r, !.by = "upload"]
        IN NameFree(s) /\ Compared(r, s)
  BY DEF Upload
<1>2. t \in AllTypes /\ r \in Ids
  BY KindAssumption, SmallNumbers
<1>3. First[t].game \in Ports
  BY <1>2, FirstFits, SmallNumbers
<1> DEFINE s == [NoRow EXCEPT !.name = n, !.padded = p, !.type = t, !.game = First[t].game,
                    !.dir = r, !.by = "upload"]
<1>4. s \in Columns
  BY <1>2, <1>3, NoRowTyped DEF NoRow, Columns, AllKinds
<1>5. s.dir = r /\ s.by = "upload" /\ s.query = NoPort
  BY DEF NoRow
<1>6. QED
  BY <1>1, <1>4, <1>5

\* A clone has a name that is free, and ports that no server has.
LEMMA CloneRow ==
  ASSUME Typed, NEW r \in Reqs, Clone(r)
  PROVE  \E i \in rows, s \in Columns :
           /\ s.dir = r /\ s.by = "clone" /\ s.type = row[i].type
           /\ Fresh(s.game) /\ (s.rcon = NoPort \/ Fresh(s.rcon))
           /\ IF s.type = "steam" THEN s.query = NoPort \/ Fresh(s.query) ELSE s.query = row[i].query
           /\ NameFree(s) /\ Compared(r, s) /\ target' = [target EXCEPT ![r] = i]
<1>1. PICK i \in rows, n \in Names, c \in BOOLEAN :
        LET g == Suggested(row[i].type)
            s == [NoRow EXCEPT !.name = n, !.type = row[i].type, !.game = g.game, !.dir = r, !.by = "clone",
                    !.rcon = IF c THEN g.rcon ELSE NoPort,
                    !.query = IF row[i].type = "steam" THEN g.query ELSE row[i].query]
        IN NameFree(s) /\ Compared(r, s) /\ target' = [target EXCEPT ![r] = i]
  BY DEF Clone
<1> DEFINE t == row[i].type
           g == Suggested(t)
           a == g.game
           b == IF c THEN g.rcon ELSE NoPort
           q == IF t = "steam" THEN g.query ELSE row[i].query
           s == [NoRow EXCEPT !.name = n, !.type = t, !.game = a, !.dir = r, !.by = "clone",
                    !.rcon = b, !.query = q]
<1>2. t \in AllTypes /\ row[i].query \in Ports /\ r \in Ids
  BY SmallNumbers DEF Typed, Columns
<1>3. Fresh(g.game) /\ (g.rcon = NoPort \/ Fresh(g.rcon)) /\ (g.query = NoPort \/ Fresh(g.query))
  BY <1>2, SuggestedFits
<1> HIDE DEF g
<1>4. Fresh(a) /\ (b = NoPort \/ Fresh(b))
      /\ IF t = "steam" THEN q = NoPort \/ Fresh(q) ELSE q = row[i].query
  BY <1>3
<1>5. a \in Ports /\ b \in Ports /\ q \in Ports
  BY <1>2, <1>4, SmallNumbers DEF Fresh
<1>6. NameFree(s) /\ Compared(r, s) /\ target' = [target EXCEPT ![r] = i]
  BY <1>1 DEF g
<1> HIDE DEF a, b, q
<1>7. /\ s.dir = r /\ s.by = "clone" /\ s.type = t /\ s.game = a /\ s.rcon = b /\ s.query = q
  BY DEF NoRow
<1>8. s \in Columns
  BY <1>2, <1>5, NoRowTyped DEF NoRow, Columns, AllKinds
<1> HIDE DEF s
<1>9. QED
  BY <1>4, <1>6, <1>7, <1>8

LEMMA ConfigRow ==
  ASSUME Typed, NEW r \in Reqs, Config(r)
  PROVE  \E s \in Columns :
           s.dir = r /\ s.by = "config" /\ s.query = NoPort /\ row' = [row EXCEPT ![r] = s]
<1>1. PICK t \in Types, n \in Names, c \in {NoPort, First["java"].rcon} :
        row' = [row EXCEPT ![r] = [NoRow EXCEPT !.name = n, !.type = t, !.game = First[t].game, !.rcon = c,
                                     !.dir = r, !.by = "config"]]
  BY DEF Config
<1> DEFINE s == [NoRow EXCEPT !.name = n, !.type = t, !.game = First[t].game, !.rcon = c,
                    !.dir = r, !.by = "config"]
<1>2. t \in AllTypes /\ r \in Ids
  BY KindAssumption, SmallNumbers
<1>3. First[t].game \in Ports /\ c \in Ports
  BY <1>2, FirstFits, SmallNumbers DEF AllTypes
<1>4. s \in Columns
  BY <1>2, <1>3, NoRowTyped DEF NoRow, Columns, AllKinds
<1>5. s.dir = r /\ s.by = "config" /\ s.query = NoPort
  BY DEF NoRow
<1>6. QED
  BY <1>1, <1>4, <1>5

LEMMA EditRow ==
  ASSUME Typed, NEW r \in Reqs, Edit(r)
  PROVE  \E i \in rows, s \in Columns :
           /\ s.dir = row[i].dir /\ s.by = "edit" /\ s.type = "steam" /\ row[i].type = "steam"
           /\ s.game = row[i].game /\ s.rcon = row[i].rcon /\ NoConflict(s, {i})
           /\ row' = [row EXCEPT ![r] = s] /\ saw' = [saw EXCEPT ![r] = rows \ {i}]
           /\ target' = [target EXCEPT ![r] = i]
<1>1. PICK i \in rows, q \in 1 .. MaxPort :
        LET s == [row[i] EXCEPT !.query = q] IN
        /\ row[i].type = "steam" /\ NoConflict(s, {i})
        /\ row' = [row EXCEPT ![r] = [s EXCEPT !.by = "edit"]]
        /\ saw' = [saw EXCEPT ![r] = rows \ {i}]
        /\ target' = [target EXCEPT ![r] = i]
  BY DEF Edit
<1> DEFINE u == [row[i] EXCEPT !.query = q]
           s == [u EXCEPT !.by = "edit"]
<1>2. row[i] \in Columns /\ q \in Ports
  BY PortsAreNat DEF Typed, Ports
<1>3. u \in Columns /\ u.type = "steam" /\ u.game = row[i].game /\ u.rcon = row[i].rcon /\ u.dir = row[i].dir
  BY <1>1, <1>2 DEF Columns
<1>4. NoConflict(u, {i}) /\ row' = [row EXCEPT ![r] = s]
  BY <1>1
<1> HIDE DEF u
<1>5. /\ s \in Columns /\ s.by = "edit" /\ s.type = u.type /\ s.game = u.game /\ s.rcon = u.rcon
      /\ s.query = u.query /\ s.dir = u.dir
  BY <1>3 DEF Columns, AllKinds
<1> HIDE DEF s
<1>6. NoConflict(s, {i})
  BY <1>4, <1>5 DEF NoConflict, PortsOf
<1>7. QED
  BY <1>1, <1>3, <1>4, <1>5, <1>6

\* Two rows that differ in their status at most.
Alike(s, t) ==
  /\ s.name = t.name /\ s.padded = t.padded /\ s.type = t.type /\ s.game = t.game /\ s.rcon = t.rcon
  /\ s.query = t.query /\ s.dir = t.dir /\ s.by = t.by

OnlyStatus == row' \in [Ids -> Columns] /\ \A i \in Ids : Alike(row'[i], row[i])

LEMMA SameRows ==
  ASSUME Typed, UNCHANGED row
  PROVE  OnlyStatus
BY DEF Typed, OnlyStatus, Alike

LEMMA StatusRow ==
  ASSUME Typed, NEW i \in Ids, NEW st \in {"stopped", "starting", "running", "crashed"},
         row' = [row EXCEPT ![i].status = st]
  PROVE  OnlyStatus
<1>1. row' = [row EXCEPT ![i] = [row[i] EXCEPT !.status = st]]
  OBVIOUS
<1> DEFINE s == [row[i] EXCEPT !.status = st]
<1>2. s \in Columns /\ Alike(s, row[i])
  BY DEF Typed, Columns, Alike
<1>3. row' = [row EXCEPT ![i] = s]
  BY <1>1
<1> HIDE DEF s
<1>4. QED
  BY <1>2, <1>3 DEF Typed, OnlyStatus, Alike

LEMMA MarkedRow ==
  ASSUME Typed, NEW r \in Reqs, NEW result \in Results, Marked(r, result)
  PROVE  /\ OnlyStatus
         /\ \A i \in Ids \ {r} : row'[i] = row[i]
         /\ result = "failed" /\ r \in rows => row'[r].status = "crashed"
<1>1. CASE result # "failed" \/ r \notin rows
  BY <1>1, SameRows DEF Marked
<1>2. CASE result = "failed" /\ r \in rows
  <2>1. row' = [row EXCEPT ![r].status = "crashed"] /\ r \in Ids
    BY <1>2, SmallNumbers DEF Marked
  <2>2. row'[r].status = "crashed" /\ \A i \in Ids \ {r} : row'[i] = row[i]
    BY <2>1 DEF Typed, Columns
  <2>3. QED
    BY <2>1, <2>2, StatusRow
<1>3. QED
  BY <1>1, <1>2

\* A step that gives some servers another status.
LEMMA StatusRows ==
  ASSUME Typed, row' = [i \in Ids |-> row'[i]],
         \A i \in Ids : \/ row'[i] = row[i]
                       \/ \E st \in {"stopped", "running"} : row'[i] = [row[i] EXCEPT !.status = st]
  PROVE  OnlyStatus
<1>1. \A i \in Ids : row'[i] \in Columns /\ Alike(row'[i], row[i])
  <2> TAKE i \in Ids
  <2>0. row[i] \in Columns
    BY DEF Typed
  <2>1. CASE \E st \in {"stopped", "running"} : row'[i] = [row[i] EXCEPT !.status = st]
    <3>1. PICK st \in {"stopped", "running"} : row'[i] = [row[i] EXCEPT !.status = st]
      BY <2>1
    <3>2. QED
      BY <2>0, <3>1 DEF Columns, Alike
  <2>2. CASE row'[i] = row[i]
    BY <2>0, <2>2 DEF Alike
  <2>3. QED
    BY <2>1, <2>2
<1>2. QED
  BY <1>1 DEF OnlyStatus

LEMMA CrashRow ==
  ASSUME Typed, Crash
  PROVE  /\ OnlyStatus
         /\ \A i \in Ids \ procs : row[i].status = "crashed" => row'[i] = row[i]
<1>1. row' = [i \in Ids |-> IF i \in procs \/ row[i].status \in {"running", "starting"}
                              THEN [row[i] EXCEPT !.status = "stopped"] ELSE row[i]]
  BY DEF Crash
<1>2. \A i \in Ids : row'[i] = row[i] \/ row'[i] = [row[i] EXCEPT !.status = "stopped"]
  BY <1>1
<1>3. row' = [i \in Ids |-> row'[i]]
  BY <1>1
<1>4. QED
  BY <1>1, <1>2, <1>3, StatusRows

\* The list changes the mark of a server only if it runs.
LEMMA ListRow ==
  ASSUME Typed, List
  PROVE  /\ OnlyStatus
         /\ \A i \in Ids : row[i].status = "crashed" /\ row'[i] # row[i] => i \in procs
<1>1. row' = [i \in Ids |->
        IF i \in rows \cap procs /\ row[i].status \notin {"running", "starting"} THEN [row[i] EXCEPT !.status = "running"]
        ELSE IF i \in rows \ procs /\ row[i].status \in {"running", "starting"} THEN [row[i] EXCEPT !.status = "stopped"]
        ELSE row[i]]
  BY DEF List
<1>2. \A i \in Ids : \/ row'[i] = row[i]
                     \/ row'[i] = [row[i] EXCEPT !.status = "stopped"]
                     \/ row'[i] = [row[i] EXCEPT !.status = "running"]
  BY <1>1
<1>3. row' = [i \in Ids |-> row'[i]]
  BY <1>1
<1>4. QED
  BY <1>1, <1>2, <1>3, StatusRows

\* The end of an installation writes at most a status to the row, CRASHED when
\* it reports a failure.
LEMMA InstalledRow ==
  ASSUME Typed, NEW r \in Reqs, NEW result \in Results,
         Marked(r, result) \/ (result = "done" /\ r \in rows /\ row' = [row EXCEPT ![r].status = "stopped"])
  PROVE  /\ OnlyStatus
         /\ \A i \in Ids \ {r} : row'[i] = row[i]
         /\ result = "failed" /\ r \in rows => row'[r].status = "crashed"
<1>1. CASE Marked(r, result)
  BY <1>1, MarkedRow
<1>2. CASE result = "done" /\ row' = [row EXCEPT ![r].status = "stopped"]
  <2>1. OnlyStatus
    BY <1>2, StatusRow, SmallNumbers
  <2>2. QED
    BY <1>2, <2>1 DEF Typed
<1>3. QED
  BY <1>1, <1>2

\* The edit writes the query port that it has checked, and who wrote it.
LEMMA CommitRow ==
  ASSUME Typed, NEW r \in Reqs, EditCommit(r), target[r] \in rows, target[r] # r
  PROVE  LET i == target[r] IN
         /\ row' \in [Ids -> Columns] /\ row'[r] = NoRow /\ \A j \in Ids \ {i, r} : row'[j] = row[j]
         /\ row'[i].name = row[i].name /\ row'[i].padded = row[i].padded /\ row'[i].type = row[i].type
         /\ row'[i].game = row[i].game /\ row'[i].rcon = row[i].rcon /\ row'[i].query = row[r].query
         /\ row'[i].dir = row[i].dir /\ row'[i].by = "edit" /\ row'[i].status = row[i].status
<1> DEFINE i == target[r]
           u == [row[i] EXCEPT !.query = row[r].query]
           s == [u EXCEPT !.by = "edit"]
<1>1. row' = [row EXCEPT ![i].query = row[r].query, ![i].by = "edit", ![r] = NoRow]
  BY DEF EditCommit
<1>2. i \in Ids /\ r \in Ids /\ row[i] \in Columns /\ row[r] \in Columns /\ row \in [Ids -> Columns]
  BY SmallNumbers DEF Typed
<1>3. row'[i] = s /\ row'[r] = NoRow /\ \A j \in Ids \ {i, r} : row'[j] = row[j]
  BY <1>1, <1>2
<1>4. u \in Columns /\ u.query = row[r].query /\ u.name = row[i].name /\ u.padded = row[i].padded
      /\ u.type = row[i].type /\ u.game = row[i].game /\ u.rcon = row[i].rcon /\ u.dir = row[i].dir
      /\ u.status = row[i].status
  BY <1>2 DEF Columns
<1> HIDE DEF u
<1>5. s \in Columns /\ s.query = u.query /\ s.name = u.name /\ s.padded = u.padded
      /\ s.type = u.type /\ s.game = u.game /\ s.rcon = u.rcon /\ s.dir = u.dir
      /\ s.status = u.status /\ s.by = "edit"
  BY <1>4 DEF Columns, AllKinds
<1>6. row' = [j \in Ids |-> row'[j]]
  BY <1>1, <1>2
<1> HIDE DEF s
<1>7. row' \in [Ids -> Columns]
  BY <1>2, <1>3, <1>5, <1>6, NoRowTyped
<1>8. QED
  BY <1>3, <1>4, <1>5, <1>7

LEMMA CommitNothing ==
  ASSUME Typed, NEW r \in Reqs, EditCommit(r), target[r] \notin rows \/ target[r] = r
  PROVE  /\ row' \in [Ids -> Columns] /\ row'[r] = NoRow /\ \A j \in Ids \ {r} : row'[j] = row[j]
         /\ target[r] \notin rows => saw' = [saw EXCEPT ![r] = {}]
<1>1. CASE target[r] \notin rows
  BY <1>1, SmallNumbers, NoRowTyped DEF EditCommit, Typed
<1>2. CASE target[r] \in rows
  <2>1. row' = [row EXCEPT ![r].query = row[r].query, ![r].by = "edit", ![r] = NoRow]
    BY <1>2 DEF EditCommit
  <2>2. QED
    BY <1>2, <2>1, SmallNumbers, NoRowTyped DEF Typed
<1>3. QED
  BY <1>1, <1>2

LEMMA CommitSaw ==
  ASSUME Typed, NEW r \in Reqs, EditCommit(r)
  PROVE  saw' \in [Ids -> SUBSET Ids]
BY SmallNumbers DEF EditCommit, Typed

LEMMA TypedRequest ==
  ASSUME Typed, NEW r \in Reqs, Request(r)
  PROVE  Typed'
<1>0. r \in Ids
  BY SmallNumbers
<1> USE DEF Asked, Goto, histVars, diskVars
<1>1. CASE Create(r)
  <2>1. row' \in [Ids -> Columns] /\ saw' \in [Ids -> SUBSET Ids]
    BY <1>1, CreateRow, ComparedTyped
  <2>2. /\ dirs' = dirs \cup {r} /\ shared' = shared /\ target' = target /\ pc' = [pc EXCEPT ![r] = "insert"]
        /\ UNCHANGED <<rows, files, procs, crashes, lost, tried, late>> /\ kind' = [kind EXCEPT ![r] = "create"]
    BY <1>1 DEF Create
  <2>3. QED
    BY <1>0, <2>1, <2>2 DEF Typed, AllKinds
<1>2. CASE Import(r)
  <2>1. PICK s \in Columns :
           /\ s.dir \in dirs /\ Compared(r, s)
           /\ shared' = IF \E q \in Reqs : InFlight(q) /\ row[q].dir = s.dir
                          THEN shared \cup {s.dir} ELSE shared
    BY <1>2, ImportRow
  <2>2. row' \in [Ids -> Columns] /\ saw' \in [Ids -> SUBSET Ids] /\ shared' \subseteq Ids
    BY <2>1, ComparedTyped DEF Typed
  <2>3. /\ dirs' = dirs /\ target' = target /\ pc' = [pc EXCEPT ![r] = "insert"]
        /\ UNCHANGED <<rows, files, procs, crashes, lost, tried, late>> /\ kind' = [kind EXCEPT ![r] = "import"]
    BY <1>2 DEF Import
  <2>4. QED
    BY <1>0, <2>2, <2>3 DEF Typed, AllKinds
<1>3. CASE Upload(r)
  <2>1. row' \in [Ids -> Columns] /\ saw' \in [Ids -> SUBSET Ids]
    BY <1>3, UploadRow, ComparedTyped
  <2>2. /\ dirs' = dirs \cup {r} /\ shared' = shared /\ target' = target /\ pc' = [pc EXCEPT ![r] = "extract"]
        /\ UNCHANGED <<rows, files, procs, crashes, lost, tried, late>> /\ kind' = [kind EXCEPT ![r] = "upload"]
    BY <1>3 DEF Upload
  <2>3. QED
    BY <1>0, <2>1, <2>2 DEF Typed, AllKinds
<1>4. CASE Extract(r)
  BY <1>0, <1>4 DEF Extract, Typed
<1>5. CASE Clone(r)
  <2>1. PICK i \in rows, s \in Columns : Compared(r, s) /\ target' = [target EXCEPT ![r] = i]
    BY <1>5, CloneRow
  <2>2. row' \in [Ids -> Columns] /\ saw' \in [Ids -> SUBSET Ids] /\ target' \in [Reqs -> Ids]
    BY <2>1, ComparedTyped DEF Typed
  <2>3. /\ dirs' = dirs /\ shared' = shared /\ pc' = [pc EXCEPT ![r] = "copy"]
        /\ UNCHANGED <<rows, files, procs, crashes, lost, tried, late>> /\ kind' = [kind EXCEPT ![r] = "clone"]
    BY <1>5 DEF Clone
  <2>4. QED
    BY <1>0, <2>2, <2>3 DEF Typed, AllKinds
<1>6. CASE Copy(r)
  BY <1>0, <1>6 DEF Copy, Typed
<1>7. CASE Config(r)
  <2>1. row' \in [Ids -> Columns]
    <3>1. \E s \in Columns : row' = [row EXCEPT ![r] = s]
      BY <1>7, ConfigRow
    <3>2. QED
      BY <1>0, <3>1 DEF Typed
  <2>2. /\ dirs' = dirs \cup {r} /\ shared' = shared /\ saw' = saw /\ target' = target /\ pc' = [pc EXCEPT ![r] = "insert"]
        /\ UNCHANGED <<rows, files, procs, crashes, tried, late>> /\ lost' = lost \cup {r} /\ kind' = [kind EXCEPT ![r] = "config"]
    BY <1>7 DEF Config
  <2>3. QED
    BY <1>0, <2>1, <2>2 DEF Typed, AllKinds
<1>8. CASE Insert(r)
  <2>1. row[r].dir \in Ids
    BY <1>0 DEF Columns, Typed
  <2>2. QED
    BY <1>0, <1>8, <2>1 DEF Insert, Typed
<1>9. CASE Download(r)
  <2>1. row[r].dir \in Ids
    BY <1>0 DEF Columns, Typed
  <2>2. PICK arrived \in BOOLEAN, result \in Results :
          Fetched(r, arrived) /\ Unanswered(r, result) /\ Marked(r, result)
    BY <1>9 DEF Download
  <2>3. row' \in [Ids -> Columns]
    BY <2>2, MarkedRow DEF OnlyStatus
  <2>4. files' \subseteq Ids /\ lost' \subseteq Ids
    BY <2>1, <2>2 DEF Fetched, Unanswered, Typed
  <2>5. QED
    BY <1>0, <1>9, <2>3, <2>4 DEF Download, Typed
<1>10. CASE Install(r)
  <2>1. row[r].dir \in Ids
    BY <1>0 DEF Columns, Typed
  <2>2. PICK arrived \in BOOLEAN, result \in Results :
          /\ Fetched(r, arrived) /\ Unanswered(r, result)
          /\ Marked(r, result) \/ (result = "done" /\ r \in rows /\ row' = [row EXCEPT ![r].status = "stopped"])
    BY <1>10 DEF Install
  <2>3. row' \in [Ids -> Columns]
    BY <2>2, InstalledRow DEF OnlyStatus
  <2>4. files' \subseteq Ids /\ lost' \subseteq Ids
    BY <2>1, <2>2 DEF Fetched, Unanswered, Typed
  <2>5. QED
    BY <1>0, <1>10, <2>3, <2>4 DEF Install, Typed
<1>11. CASE Edit(r)
  <2>1. PICK i \in rows, s \in Columns :
           /\ row' = [row EXCEPT ![r] = s] /\ saw' = [saw EXCEPT ![r] = rows \ {i}]
           /\ target' = [target EXCEPT ![r] = i]
    BY <1>11, EditRow
  <2>2. row' \in [Ids -> Columns] /\ saw' \in [Ids -> SUBSET Ids] /\ target' \in [Reqs -> Ids]
    BY <1>0, <2>1 DEF Typed
  <2>3. /\ dirs' = dirs /\ shared' = shared /\ pc' = [pc EXCEPT ![r] = "commit"]
        /\ UNCHANGED <<rows, files, procs, crashes, lost, tried, late>> /\ kind' = [kind EXCEPT ![r] = "edit"]
    BY <1>11 DEF Edit
  <2>4. QED
    BY <1>0, <2>2, <2>3 DEF Typed, AllKinds
<1>12. CASE EditCommit(r)
  <2>1. row' \in [Ids -> Columns]
    BY <1>12, CommitRow, CommitNothing
  <2>2. saw' \in [Ids -> SUBSET Ids]
    BY <1>12, CommitSaw
  <2>3. /\ pc' = [pc EXCEPT ![r] = "ended"] /\ target' = [target EXCEPT ![r] = 0]
        /\ UNCHANGED <<rows, diskVars, procs, kind, crashes, lost, shared, tried, late>>
    BY <1>12 DEF EditCommit
  <2>4. QED
    BY <2>1, <2>2, <2>3, SmallNumbers DEF Typed
<1>13. CASE Delete(r)
  BY <1>0, <1>13 DEF Delete, AllKinds, Typed
<1>14. CASE DeleteStop(r)
  BY <1>0, <1>14 DEF DeleteStop, Typed
<1>15. CASE Erase(r)
  BY <1>0, <1>15, SmallNumbers DEF Erase, Typed
<1>16. QED
  BY <1>1, <1>2, <1>3, <1>4, <1>5, <1>6, <1>7, <1>8, <1>9, <1>10, <1>11, <1>12, <1>13, <1>14, <1>15
     DEF Request

LEMMA TypedNext == Typed /\ [Next]_vars => Typed'
<1> SUFFICES ASSUME Typed, [Next]_vars PROVE Typed'
  OBVIOUS
<1>1. ASSUME NEW r \in Reqs, Request(r) PROVE Typed'
  BY <1>1, TypedRequest
<1>2. ASSUME NEW i \in Ids, Start(i) PROVE Typed'
  <2>1. OnlyStatus
    BY <1>2, StatusRow DEF Start
  <2>2. QED
    BY <1>2, <2>1 DEF Start, Typed, OnlyStatus, diskVars, reqVars
<1>3. ASSUME NEW i \in Ids, Stop(i) PROVE Typed'
  <2>1. OnlyStatus
    BY <1>3, StatusRow DEF Stop
  <2>2. QED
    BY <1>3, <2>1 DEF Stop, Typed, OnlyStatus, diskVars, reqVars
<1>4. CASE Crash
  <2>1. OnlyStatus
    BY <1>4, CrashRow
  <2>2. lost' \subseteq Ids
    BY <1>4, SmallNumbers DEF Crash, Typed, Columns
  <2>3. crashes' \in 0 .. MaxCrashes
    BY <1>4, BoundAssumption DEF Crash, Typed
  <2>4. QED
    BY <1>4, <2>1, <2>2, <2>3 DEF Crash, Typed, OnlyStatus, diskVars
<1>5. ASSUME NEW i \in Ids, StartFails(i) PROVE Typed'
  <2>1. OnlyStatus
    BY <1>5, StatusRow DEF StartFails
  <2>2. QED
    BY <1>5, <2>1 DEF StartFails, Typed, OnlyStatus, diskVars, reqVars
<1>6. CASE List
  <2>1. OnlyStatus
    BY <1>6, ListRow
  <2>2. QED
    BY <1>6, <2>1 DEF List, Typed, OnlyStatus, diskVars, reqVars, histVars
<1>7. CASE UNCHANGED vars
  BY <1>7 DEF vars, diskVars, reqVars, histVars, Typed
<1>8. QED
  BY <1>1, <1>2, <1>3, <1>4, <1>5, <1>6, <1>7 DEF Next

-----------------------------------------------------------------------------
(* The inductive invariant                                                 *)

\* The servers whose row was inserted, now or before a deletion.
Inserted == {i \in Ids : i \in Reqs => pc[i] \in {"install", "ended"}}

\* The server that was there at the start, and the requests that were made.
Made == {i \in Ids : i \in Reqs => pc[i] # "idle"}

\* Rows, processes and comparisons are of servers whose rows were inserted,
\* directories of requests that were made; only Steam servers have query ports.
RowsFit ==
  /\ rows \cup procs \subseteq Inserted
  /\ files \subseteq dirs /\ dirs \subseteq Made
  /\ \A i \in Ids : row[i].dir \in Made /\ saw[i] \subseteq Inserted
  /\ \A i \in Ids : row[i].type # "steam" => row[i].query = NoPort

\* What an upload in flight relies on: its directory is empty and its own, unless
\* it was imported meanwhile.
Extracting(r) ==
  /\ kind[r] = "upload" /\ row[r].dir = r /\ r \in dirs \ files
  /\ \A i \in Ids \ {r} : row[i].dir = r => r \in shared

\* What an edit in flight relies on: the row that it checked still has the ports
\* that it checked, and was not compared with itself.
Editing(r) ==
  LET i == target[r] IN
  /\ kind[r] = "edit" /\ row[r].by = "edit" /\ i \in Inserted \ saw[r]
  /\ row[i].type = "steam" /\ row[i].game = row[r].game /\ row[i].rcon = row[r].rcon

RequestFits(r) ==
  /\ pc[r] = "idle" => saw[r] = {}
  /\ pc[r] \in {"insert", "install"} /\ kind[r] = "create" => row[r].dir = r /\ r \in dirs
  /\ pc[r] = "install" => kind[r] = "create"
  /\ pc[r] = "insert" => kind[r] \notin {"edit", "delete"}
  /\ pc[r] = "extract" => Extracting(r)
  /\ pc[r] = "copy" => kind[r] = "clone" /\ row[r].dir = r
  /\ pc[r] = "commit" => Editing(r)

RequestsFit == \A r \in Reqs : RequestFits(r)

\* Also the rows that are about to be inserted have a directory.
DirsHeld == \A i \in rows \cup {r \in Reqs : pc[r] = "insert"} : row[i].dir \in dirs \cup shared

\* A running server has its executable.
Runnable == \A i \in procs : row[i].dir \in files

\* s repeats nothing of t that it was compared with.
Apart(s, t) ==
  /\ s.by \in {"create", "clone", "edit"} => PortsOf(s) \cap PortsOf(t) \subseteq {MaxPort + 1}
  /\ s.by \in {"create", "import", "upload", "clone"} /\ ~s.padded => s.name # t.name
  /\ s.by # "edit" => s.dir # t.dir

\* Also the rows that are about to be inserted, or written by an edit.
AllApart == \A a \in Ids : \A b \in rows \cap saw[a] : Apart(row[a], row[b])

Fits == RowsFit /\ RequestsFit /\ DirsHeld /\ Runnable /\ FailedCreationIsMarked /\ AllApart

LEMMA FitsInit == Init => Fits
<1> SUFFICES ASSUME Init PROVE Fits
  OBVIOUS
<1>1. PICK t \in Types, n \in Names :
        row = [i \in Ids |-> IF i # 0 THEN NoRow
                ELSE [NoRow EXCEPT !.name = n, !.type = t, !.game = First[t].game, !.by = "create"]]
  BY DEF Init
<1>2. 0 \in Ids /\ 0 \notin Reqs
  BY SmallNumbers DEF Reqs
<1>3. \A i \in Ids : row[i].dir = 0 /\ row[i].query = NoPort
  BY <1>1 DEF NoRow
<1>4. RowsFit
  BY <1>2, <1>3 DEF Init, RowsFit, Inserted, Made
<1>5. RequestsFit
  BY SmallNumbers DEF Init, RequestsFit, RequestFits
<1>6. DirsHeld /\ Runnable /\ AllApart
  BY <1>2, <1>3 DEF Init, DirsHeld, Runnable, AllApart
<1>7. FailedCreationIsMarked
  BY <1>2, <1>3 DEF Init, FailedCreationIsMarked
<1>8. QED
  BY <1>4, <1>5, <1>6, <1>7 DEF Fits

-----------------------------------------------------------------------------
(* Requests that write their row                                           *)

\* Request r, which begins, writes row s and goes on with next.
Writes(r, s, next) ==
  /\ pc[r] = "idle" /\ pc' = [pc EXCEPT ![r] = next] /\ next \in {"extract", "copy", "insert", "commit"}
  /\ row' = [row EXCEPT ![r] = s]
  /\ saw'[r] \subseteq rows /\ \A i \in Ids \ {r} : saw'[i] = saw[i]
  /\ \A q \in Reqs \ {r} : kind'[q] = kind[q] /\ target'[q] = target[q]
  /\ UNCHANGED <<rows, procs, files, tried>>
  /\ dirs \subseteq dirs' /\ dirs' \subseteq dirs \cup {r} /\ lost \subseteq lost' /\ shared \subseteq shared'
  /\ s.dir \in Made \cup {r} /\ (s.type # "steam" => s.query = NoPort)
  /\ next = "insert" => s.dir \in dirs' \cup shared'
  /\ \A q \in Reqs \ {r} : pc[q] = "extract" /\ s.dir = q => q \in shared'

\* The row of r is not compared, and not there.
LEMMA WriteFrame ==
  ASSUME Typed, Fits, NEW r \in Reqs, NEW s \in Columns, NEW next, Writes(r, s, next)
  PROVE  /\ r \in Ids \ Inserted /\ r \notin rows /\ Inserted' = Inserted /\ Made' = Made \cup {r}
         /\ row'[r] = s /\ \A i \in Ids \ {r} : row'[i] = row[i]
         /\ pc'[r] = next /\ \A q \in Reqs \ {r} : pc'[q] = pc[q]
<1>1. r \in Ids \ Inserted
  BY SmallNumbers DEF Writes, Inserted
<1>2. pc'[r] = next /\ \A q \in Reqs \ {r} : pc'[q] = pc[q]
  BY DEF Writes, Typed
<1>3. Inserted' = Inserted /\ Made' = Made \cup {r}
  BY <1>1, <1>2 DEF Writes, Inserted, Made
<1>4. row'[r] = s /\ \A i \in Ids \ {r} : row'[i] = row[i]
  BY <1>1 DEF Writes, Typed
<1>5. QED
  BY <1>1, <1>2, <1>3, <1>4 DEF Fits, RowsFit

LEMMA WriteFits ==
  ASSUME Typed, Fits, NEW r \in Reqs, NEW s \in Columns, NEW next, Writes(r, s, next),
         RequestFits(r)', \A b \in rows \cap saw'[r] : Apart(s, row[b])
  PROVE  Fits'
<1>0. /\ r \in Ids \ Inserted /\ r \notin rows /\ Inserted' = Inserted /\ Made' = Made \cup {r}
      /\ row'[r] = s /\ \A i \in Ids \ {r} : row'[i] = row[i]
      /\ pc'[r] = next /\ \A q \in Reqs \ {r} : pc'[q] = pc[q]
  BY WriteFrame
<1>1. RowsFit'
  BY <1>0 DEF Fits, RowsFit, Writes
<1>2. RequestsFit'
  <2>1. ASSUME NEW q \in Reqs, q # r PROVE RequestFits(q)'
    <3>1. /\ q \in Ids /\ row'[q] = row[q] /\ saw'[q] = saw[q] /\ pc'[q] = pc[q] /\ kind'[q] = kind[q]
          /\ target'[q] = target[q] /\ RequestFits(q)
      BY <1>0, <2>1, SmallNumbers DEF Fits, RequestsFit, Writes
    <3>2. Extracting(q) /\ pc[q] = "extract" => Extracting(q)'
      BY <1>0, <2>1, <3>1 DEF Extracting, Writes
    <3>3. Editing(q) => Editing(q)'
      <4>1. target[q] \in Inserted => row'[target[q]] = row[target[q]] /\ target[q] \in Inserted'
        BY <1>0 DEF Inserted
      <4>2. QED
        BY <3>1, <4>1 DEF Editing
    <3>4. QED
      BY <3>1, <3>2, <3>3 DEF RequestFits, Writes
  <2>2. QED
    BY <2>1 DEF RequestsFit
<1>3. DirsHeld'
  BY <1>0, SmallNumbers DEF Fits, DirsHeld, RowsFit, Writes
<1>4. Runnable'
  BY <1>0 DEF Fits, Runnable, RowsFit, Writes
<1>5. FailedCreationIsMarked'
  BY <1>0 DEF Fits, FailedCreationIsMarked, RowsFit, Writes, InFlight
<1>6. AllApart'
  <2>1. ASSUME NEW a \in Ids, NEW b \in rows' \cap saw'[a] PROVE Apart(row'[a], row'[b])
    <3>1. b \in rows /\ row'[b] = row[b] /\ rows' = rows
      BY <1>0, <2>1 DEF Writes, Typed
    <3>2. CASE a = r
      BY <1>0, <2>1, <3>1, <3>2
    <3>3. CASE a # r
      BY <1>0, <2>1, <3>1, <3>3 DEF Fits, AllApart, Writes
    <3>4. QED
      BY <3>2, <3>3
  <2>2. QED
    BY <2>1 DEF AllApart, Apart, PortsOf
<1>7. QED
  BY <1>1, <1>2, <1>3, <1>4, <1>5, <1>6 DEF Fits

\* A row whose ports, name and directory were compared repeats none of them.
LEMMA ComparedPorts ==
  ASSUME NEW s, NEW but, NoConflict(s, but), NEW b \in rows \ but
  PROVE  PortsOf(s) \cap PortsOf(row[b]) = {}
BY DEF NoConflict, Used

LEMMA FreshPort ==
  ASSUME NEW p, Fresh(p), NEW b \in rows
  PROVE  p \notin PortsOf(row[b]) \ {MaxPort + 1}
BY DEF Fresh, Used

LEMMA NewDirectory ==
  ASSUME Typed, Fits, NEW r \in Reqs, pc[r] = "idle", NEW b \in Ids
  PROVE  row[b].dir # r
BY DEF Fits, RowsFit, Made

LEMMA FitsCreate ==
  ASSUME Typed, Fits, NEW r \in Reqs, Create(r)
  PROVE  Fits'
<1>1. PICK s \in Columns :
         /\ s.dir = r /\ s.by = "create" /\ (s.type # "steam" => s.query = NoPort)
         /\ NoConflict(s, {}) /\ NameFree(s) /\ Compared(r, s)
  BY CreateRow
<1>2. /\ pc[r] = "idle" /\ pc' = [pc EXCEPT ![r] = "insert"] /\ kind' = [kind EXCEPT ![r] = "create"]
      /\ dirs' = dirs \cup {r}
      /\ UNCHANGED <<rows, files, procs, target, crashes, lost, shared, tried, late>>
  BY DEF Create, Asked, Goto
<1>3. r \in Ids
  BY SmallNumbers
<1>4. Writes(r, s, "insert")
  BY <1>1, <1>2, <1>3 DEF Writes, Compared, Typed
<1>5. row'[r] = s /\ pc'[r] = "insert" /\ kind'[r] = "create"
  BY <1>2, <1>4, WriteFrame DEF Typed
<1>6. RequestFits(r)'
  BY <1>1, <1>2, <1>5 DEF RequestFits
<1>7. ASSUME NEW b \in rows PROVE Apart(s, row[b])
  <2>1. b \in Ids /\ row[b].dir # r
    BY <1>2, NewDirectory DEF Typed
  <2>2. PortsOf(s) \cap PortsOf(row[b]) = {}
    BY <1>1, ComparedPorts
  <2>3. QED
    BY <1>1, <2>1, <2>2 DEF Apart, NameFree
<1>8. QED
  BY <1>4, <1>6, <1>7, WriteFits

LEMMA FitsImport ==
  ASSUME Typed, Fits, NEW r \in Reqs, Import(r)
  PROVE  Fits'
<1>1. PICK s \in Columns :
         /\ s.dir \in dirs /\ s.by = "import" /\ (s.type # "steam" => s.query = NoPort)
         /\ NameFree(s) /\ Compared(r, s)
         /\ \A i \in rows : row[i].dir # s.dir
         /\ shared' = IF \E q \in Reqs : InFlight(q) /\ row[q].dir = s.dir
                        THEN shared \cup {s.dir} ELSE shared
  BY ImportRow
<1>2. /\ pc[r] = "idle" /\ pc' = [pc EXCEPT ![r] = "insert"] /\ kind' = [kind EXCEPT ![r] = "import"]
      /\ UNCHANGED <<rows, files, procs, dirs, target, crashes, lost, tried, late>>
  BY DEF Import, Asked, Goto, diskVars
<1>3. r \in Ids
  BY SmallNumbers
<1>4. \A q \in Reqs \ {r} : pc[q] = "extract" /\ s.dir = q => q \in shared'
  <2>1. ASSUME NEW q \in Reqs, pc[q] = "extract", s.dir = q PROVE q \in shared'
    <3>1. InFlight(q) /\ row[q].dir = q
      BY <2>1 DEF InFlight, Fits, RequestsFit, RequestFits, Extracting
    <3>2. QED
      BY <1>1, <2>1, <3>1
  <2>2. QED
    BY <2>1
<1>5. Writes(r, s, "insert")
  <2>1. shared \subseteq shared' /\ s.dir \in Made
    BY <1>1 DEF Fits, RowsFit
  <2>2. saw'[r] \subseteq rows /\ \A i \in Ids \ {r} : saw'[i] = saw[i]
    BY <1>1, <1>3 DEF Compared, Typed
  <2>3. row' = [row EXCEPT ![r] = s]
    BY <1>1 DEF Compared
  <2>4. \A q \in Reqs \ {r} : kind'[q] = kind[q] /\ target'[q] = target[q]
    BY <1>2 DEF Typed
  <2>5. QED
    BY <1>1, <1>2, <1>4, <2>1, <2>2, <2>3, <2>4 DEF Writes
<1>6. row'[r] = s /\ pc'[r] = "insert" /\ kind'[r] = "import"
  BY <1>2, <1>5, WriteFrame DEF Typed
<1>7. RequestFits(r)'
  BY <1>6 DEF RequestFits
<1>8. ASSUME NEW b \in rows PROVE Apart(s, row[b])
  BY <1>1 DEF Apart, NameFree
<1>9. QED
  BY <1>5, <1>7, <1>8, WriteFits

LEMMA FitsUpload ==
  ASSUME Typed, Fits, NEW r \in Reqs, Upload(r)
  PROVE  Fits'
<1>1. PICK s \in Columns :
         s.dir = r /\ s.by = "upload" /\ s.query = NoPort /\ NameFree(s) /\ Compared(r, s)
  BY UploadRow
<1>2. /\ pc[r] = "idle" /\ pc' = [pc EXCEPT ![r] = "extract"] /\ kind' = [kind EXCEPT ![r] = "upload"]
      /\ dirs' = dirs \cup {r}
      /\ UNCHANGED <<rows, files, procs, target, crashes, lost, shared, tried, late>>
  BY DEF Upload, Asked, Goto
<1>3. r \in Ids
  BY SmallNumbers
<1>4. Writes(r, s, "extract")
  BY <1>1, <1>2, <1>3 DEF Writes, Compared, Typed
<1>5. /\ row'[r] = s /\ pc'[r] = "extract" /\ kind'[r] = "upload"
      /\ \A i \in Ids \ {r} : row'[i] = row[i]
  BY <1>2, <1>4, WriteFrame DEF Typed
<1>6. r \notin files
  BY <1>2 DEF Fits, RowsFit, Made
<1>7. \A i \in Ids \ {r} : row'[i].dir # r
  BY <1>2, <1>5, NewDirectory
<1>8. RequestFits(r)'
  BY <1>1, <1>2, <1>5, <1>6, <1>7 DEF RequestFits, Extracting
<1>9. ASSUME NEW b \in rows PROVE Apart(s, row[b])
  <2>1. b \in Ids /\ row[b].dir # r
    BY <1>2, NewDirectory DEF Typed
  <2>2. QED
    BY <1>1, <2>1 DEF Apart, NameFree
<1>10. QED
  BY <1>4, <1>8, <1>9, WriteFits

LEMMA FitsClone ==
  ASSUME Typed, Fits, NEW r \in Reqs, Clone(r)
  PROVE  Fits'
<1>1. PICK i \in rows, s \in Columns :
         /\ s.dir = r /\ s.by = "clone" /\ s.type = row[i].type
         /\ Fresh(s.game) /\ (s.rcon = NoPort \/ Fresh(s.rcon))
         /\ IF s.type = "steam" THEN s.query = NoPort \/ Fresh(s.query) ELSE s.query = row[i].query
         /\ NameFree(s) /\ Compared(r, s) /\ target' = [target EXCEPT ![r] = i]
  BY CloneRow
<1>2. /\ pc[r] = "idle" /\ pc' = [pc EXCEPT ![r] = "copy"] /\ kind' = [kind EXCEPT ![r] = "clone"]
      /\ UNCHANGED <<rows, files, dirs, procs, crashes, lost, shared, tried, late>>
  BY DEF Clone, Asked, Goto, diskVars
<1>3. r \in Ids /\ i \in Ids
  BY SmallNumbers DEF Typed
<1>4. s.query = NoPort \/ Fresh(s.query)
  BY <1>1, <1>3 DEF Fits, RowsFit
<1>5. Writes(r, s, "copy")
  <2>1. s.type # "steam" => s.query = NoPort
    BY <1>1, <1>3 DEF Fits, RowsFit
  <2>2. QED
    BY <1>1, <1>2, <1>3, <2>1 DEF Writes, Compared, Typed
<1>6. row'[r] = s /\ pc'[r] = "copy" /\ kind'[r] = "clone"
  BY <1>2, <1>5, WriteFrame DEF Typed
<1>7. RequestFits(r)'
  BY <1>1, <1>6 DEF RequestFits
<1>8. ASSUME NEW b \in rows PROVE Apart(s, row[b])
  <2>1. b \in Ids /\ row[b].dir # r
    BY <1>2, NewDirectory DEF Typed
  <2>2. \A p \in PortsOf(s) : p \notin PortsOf(row[b]) \ {MaxPort + 1}
    <3>1. \A p \in PortsOf(s) : Fresh(p)
      BY <1>1, <1>4 DEF PortsOf
    <3>2. QED
      BY <3>1, FreshPort
  <2>3. QED
    BY <1>1, <2>1, <2>2 DEF Apart, NameFree
<1>9. QED
  BY <1>5, <1>7, <1>8, WriteFits

LEMMA FitsConfig ==
  ASSUME Typed, Fits, NEW r \in Reqs, Config(r)
  PROVE  Fits'
<1>1. PICK s \in Columns :
         s.dir = r /\ s.by = "config" /\ s.query = NoPort /\ row' = [row EXCEPT ![r] = s]
  BY ConfigRow
<1>2. /\ pc[r] = "idle" /\ pc' = [pc EXCEPT ![r] = "insert"] /\ kind' = [kind EXCEPT ![r] = "config"]
      /\ dirs' = dirs \cup {r} /\ lost' = lost \cup {r}
      /\ UNCHANGED <<rows, files, procs, target, crashes, saw, shared, tried, late>>
  BY DEF Config, Asked, Goto
<1>3. r \in Ids /\ saw[r] = {}
  BY <1>2, SmallNumbers DEF Fits, RequestsFit, RequestFits
<1>4. Writes(r, s, "insert")
  BY <1>1, <1>2, <1>3 DEF Writes, Typed
<1>5. row'[r] = s /\ pc'[r] = "insert" /\ kind'[r] = "config"
  BY <1>2, <1>4, WriteFrame DEF Typed
<1>6. RequestFits(r)'
  BY <1>5 DEF RequestFits
<1>7. ASSUME NEW b \in rows \cap saw'[r] PROVE Apart(s, row[b])
  BY <1>2, <1>3
<1>8. QED
  BY <1>4, <1>6, <1>7, WriteFits

LEMMA FitsEdit ==
  ASSUME Typed, Fits, NEW r \in Reqs, Edit(r)
  PROVE  Fits'
<1>1. PICK i \in rows, s \in Columns :
         /\ s.dir = row[i].dir /\ s.by = "edit" /\ s.type = "steam" /\ row[i].type = "steam"
         /\ s.game = row[i].game /\ s.rcon = row[i].rcon /\ NoConflict(s, {i})
         /\ row' = [row EXCEPT ![r] = s] /\ saw' = [saw EXCEPT ![r] = rows \ {i}]
         /\ target' = [target EXCEPT ![r] = i]
  BY EditRow
<1>2. /\ pc[r] = "idle" /\ pc' = [pc EXCEPT ![r] = "commit"] /\ kind' = [kind EXCEPT ![r] = "edit"]
      /\ UNCHANGED <<rows, files, dirs, procs, crashes, lost, shared, tried, late>>
  BY DEF Edit, Asked, Goto, diskVars
<1>3. r \in Ids /\ i \in Ids /\ i \in Inserted
  BY SmallNumbers DEF Typed, Fits, RowsFit
<1>4. \A q \in Reqs \ {r} : pc[q] = "extract" /\ s.dir = q => q \in shared'
  <2>1. ASSUME NEW q \in Reqs, pc[q] = "extract", s.dir = q PROVE q \in shared'
    <3>1. i # q /\ Extracting(q)
      BY <1>3, <2>1 DEF Inserted, Fits, RequestsFit, RequestFits
    <3>2. QED
      BY <1>1, <1>2, <1>3, <2>1, <3>1 DEF Extracting
  <2>2. QED
    BY <2>1
<1>5. Writes(r, s, "commit")
  <2>1. s.dir \in Made
    BY <1>1, <1>3 DEF Fits, RowsFit
  <2>2. saw'[r] \subseteq rows /\ \A j \in Ids \ {r} : saw'[j] = saw[j]
    BY <1>1, <1>3 DEF Typed
  <2>3. \A q \in Reqs \ {r} : kind'[q] = kind[q] /\ target'[q] = target[q]
    BY <1>1, <1>2 DEF Typed
  <2>4. QED
    BY <1>1, <1>2, <1>4, <2>1, <2>2, <2>3 DEF Writes
<1>6. /\ row'[r] = s /\ pc'[r] = "commit" /\ kind'[r] = "edit" /\ i # r /\ row'[i] = row[i]
      /\ Inserted' = Inserted
  BY <1>2, <1>3, <1>5, WriteFrame DEF Typed
<1>7. target'[r] = i /\ saw'[r] = rows \ {i}
  BY <1>1, <1>3 DEF Typed
<1>8. RequestFits(r)'
  BY <1>1, <1>3, <1>6, <1>7 DEF RequestFits, Editing
<1>9. ASSUME NEW b \in rows \cap saw'[r] PROVE Apart(s, row[b])
  <2>1. b \in rows \ {i}
    BY <1>7, <1>9
  <2>2. PortsOf(s) \cap PortsOf(row[b]) = {}
    BY <1>1, <2>1, ComparedPorts
  <2>3. QED
    BY <1>1, <2>2 DEF Apart
<1>10. QED
  BY <1>5, <1>8, <1>9, WriteFits

-----------------------------------------------------------------------------
(* Steps that write no row but a status                                    *)

\* The requests of R go on, or end.
Moves(R) ==
  /\ OnlyStatus /\ saw' = saw /\ shared' = shared
  /\ \A q \in Reqs \ R : pc'[q] = pc[q] /\ kind'[q] = kind[q] /\ target'[q] = target[q]
  /\ \A q \in R : pc'[q] # "idle" /\ (pc[q] \in {"install", "ended"} => pc'[q] = "ended")
  /\ dirs \ R \subseteq dirs' /\ files' \subseteq files \cup R /\ files' \subseteq dirs' /\ dirs' \subseteq Made'
  /\ rows' \cup procs' \subseteq Inserted' /\ \A i \in rows' \ rows : i \notin Inserted

LEMMA MovesFit ==
  ASSUME Typed, Fits, NEW R \in SUBSET Reqs, Moves(R), \A r \in R : RequestFits(r)'
  PROVE  RowsFit' /\ RequestsFit' /\ AllApart'
<1>1. Inserted \subseteq Inserted' /\ Made \subseteq Made'
  BY DEF Moves, Inserted, Made
<1>2. \A i \in Ids : Alike(row'[i], row[i])
  BY DEF Moves, OnlyStatus
<1>3. RowsFit'
  <2>1. \A i \in Ids : /\ row'[i].dir \in Made' /\ saw'[i] \subseteq Inserted'
                       /\ (row'[i].type # "steam" => row'[i].query = NoPort)
    BY <1>1, <1>2 DEF Fits, RowsFit, Moves, Alike
  <2>2. QED
    BY <2>1 DEF Moves, RowsFit
<1>4. RequestsFit'
  <2>1. ASSUME NEW q \in Reqs \ R PROVE RequestFits(q)'
    <3>1. /\ q \in Ids /\ saw'[q] = saw[q] /\ pc'[q] = pc[q] /\ kind'[q] = kind[q]
          /\ target'[q] = target[q] /\ target[q] \in Ids /\ RequestFits(q)
      BY <2>1, SmallNumbers DEF Fits, RequestsFit, Moves, Typed
    <3>2. row'[q].dir = row[q].dir /\ row'[q].by = row[q].by
      BY <1>2, <3>1 DEF Alike
    <3>3. Extracting(q) => Extracting(q)'
      <4>1. \A i \in Ids : row'[i].dir = row[i].dir
        BY <1>2 DEF Alike
      <4>2. QED
        BY <2>1, <3>1, <4>1 DEF Extracting, Moves
    <3>4. Editing(q) => Editing(q)'
      BY <1>1, <1>2, <3>1 DEF Editing, Alike
    <3>5. q \in dirs => q \in dirs'
      BY <2>1 DEF Moves
    <3>6. QED
      BY <3>1, <3>2, <3>3, <3>4, <3>5 DEF RequestFits
  <2>2. QED
    BY <2>1 DEF RequestsFit
<1>5. AllApart'
  <2>1. ASSUME NEW a \in Ids, NEW b \in rows' \cap saw'[a] PROVE Apart(row'[a], row'[b])
    <3>1. saw'[a] = saw[a] /\ b \in Inserted
      BY <2>1 DEF Moves, Fits, RowsFit
    <3>2. b \in rows \cap saw[a] /\ b \in Ids
      BY <2>1, <3>1 DEF Moves, Inserted
    <3>3. Apart(row[a], row[b])
      BY <3>2 DEF Fits, AllApart
    <3>4. Alike(row'[a], row[a]) /\ Alike(row'[b], row[b])
      BY <1>2, <3>2
    <3>5. QED
      BY <3>3, <3>4 DEF Apart, Alike, PortsOf
  <2>2. QED
    BY <2>1 DEF AllApart, Apart, PortsOf
<1>6. QED
  BY <1>3, <1>4, <1>5

\* Nothing is taken from a server that stays.
LEMMA HeldKept ==
  ASSUME Typed, Fits, OnlyStatus, NEW S \in SUBSET (rows \cup {r \in Reqs : pc[r] = "insert"}),
         dirs \subseteq dirs', shared \subseteq shared'
  PROVE  \A i \in S : row'[i].dir \in dirs' \cup shared'
BY SmallNumbers DEF Fits, DirsHeld, OnlyStatus, Alike, Typed

LEMMA RunnableKept ==
  ASSUME Typed, Fits, OnlyStatus, procs' \subseteq procs, files \subseteq files'
  PROVE  Runnable'
BY DEF Fits, Runnable, OnlyStatus, Alike, Typed

\* A server whose row and request stay as they are needs no other mark.
LEMMA MarkKept ==
  ASSUME Typed, Fits, OnlyStatus, NEW i \in rows \ tried, row'[i].status = row[i].status \/ row'[i].status = "crashed",
         i \in Reqs => (InFlight(i) => InFlight(i)'), files \subseteq files', lost \subseteq lost',
         row'[i].dir \notin files' \cup lost' /\ (i \in Reqs => ~InFlight(i)')
  PROVE  row'[i].status = "crashed"
BY DEF Fits, FailedCreationIsMarked, OnlyStatus, Alike, Typed

LEMMA FitsExtract ==
  ASSUME Typed, Fits, NEW r \in Reqs, Extract(r)
  PROVE  Fits'
<1>1. /\ pc[r] = "extract" /\ UNCHANGED <<rows, row, procs, kind, target, saw, shared, lost, tried>>
      /\ r \in Ids /\ Extracting(r)
  BY SmallNumbers DEF Extract, histVars, Fits, RequestsFit, RequestFits
<1>2. /\ files \subseteq files' /\ files' \subseteq files \cup {r}
      /\ \/ pc' = [pc EXCEPT ![r] = "insert"] /\ dirs' = dirs
         \/ pc' = [pc EXCEPT ![r] = "ended"] /\ dirs' = dirs \ {r} /\ files' = files
  BY <1>1 DEF Extract, Extracting, Goto
<1>3. r \notin Inserted /\ r \notin rows
  BY <1>1 DEF Inserted, Fits, RowsFit
<1>4. pc'[r] \in {"insert", "ended"} /\ \A q \in Reqs \ {r} : pc'[q] = pc[q]
  BY <1>2 DEF Typed
<1>5. OnlyStatus
  BY <1>1, SameRows
<1>6. Moves({r})
  <2>1. Made' = Made /\ Inserted \subseteq Inserted'
    BY <1>1, <1>3, <1>4 DEF Made, Inserted
  <2>2. dirs' \subseteq dirs /\ files' \subseteq dirs'
    BY <1>1, <1>2 DEF Extracting, Fits, RowsFit
  <2>3. QED
    BY <1>1, <1>2, <1>4, <1>5, <2>1, <2>2 DEF Moves, Fits, RowsFit
<1>7. RequestFits(r)'
  BY <1>1, <1>4 DEF RequestFits, Extracting
<1>8. RowsFit' /\ RequestsFit' /\ AllApart'
  BY <1>6, <1>7, MovesFit
<1>9. DirsHeld'
  <2>1. CASE pc' = [pc EXCEPT ![r] = "insert"] /\ dirs' = dirs
    BY <1>1, <1>4, <2>1 DEF DirsHeld, Fits, Extracting
  <2>2. CASE pc' = [pc EXCEPT ![r] = "ended"] /\ dirs' = dirs \ {r}
    <3>1. pc'[r] = "ended"
      BY <2>2 DEF Typed
    <3>2. ASSUME NEW i \in rows \cup {q \in Reqs : pc'[q] = "insert"} PROVE row[i].dir \in dirs' \cup shared
      <4>1. i # r /\ i \in Ids /\ i \in rows \cup {q \in Reqs : pc[q] = "insert"}
        BY <1>3, <1>4, <3>1, <3>2, SmallNumbers DEF Typed
      <4>2. row[i].dir \in dirs \cup shared
        BY <4>1 DEF Fits, DirsHeld
      <4>3. row[i].dir = r => r \in shared
        BY <1>1, <4>1 DEF Extracting
      <4>4. QED
        BY <2>2, <4>2, <4>3
    <3>3. QED
      BY <1>1, <3>2 DEF DirsHeld
  <2>3. QED
    BY <1>2, <2>1, <2>2
<1>10. Runnable'
  BY <1>1, <1>2, <1>5, RunnableKept
<1>11. FailedCreationIsMarked'
  BY <1>1, <1>2, <1>3, <1>4 DEF FailedCreationIsMarked, Fits, InFlight
<1>12. QED
  BY <1>8, <1>9, <1>10, <1>11 DEF Fits

LEMMA FitsCopy ==
  ASSUME Typed, Fits, NEW r \in Reqs, Copy(r)
  PROVE  Fits'
<1>1. /\ pc[r] = "copy" /\ UNCHANGED <<rows, row, procs, kind, target, saw, shared, tried>>
      /\ r \in Ids /\ kind[r] = "clone" /\ row[r].dir = r
  BY SmallNumbers DEF Copy, Fits, RequestsFit, RequestFits
<1>2. /\ dirs' = dirs \cup {r} /\ files \subseteq files' /\ files' \subseteq files \cup {r} /\ lost \subseteq lost'
      /\ pc' = [pc EXCEPT ![r] = "insert"] \/ pc' = [pc EXCEPT ![r] = "ended"]
  BY DEF Copy, Goto
<1>3. r \notin Inserted /\ r \notin rows
  BY <1>1 DEF Inserted, Fits, RowsFit
<1>4. pc'[r] \in {"insert", "ended"} /\ \A q \in Reqs \ {r} : pc'[q] = pc[q]
  BY <1>2 DEF Typed
<1>5. OnlyStatus
  BY <1>1, SameRows
<1>6. Moves({r})
  <2>1. Made' = Made /\ Inserted \subseteq Inserted' /\ r \in Made
    BY <1>1, <1>3, <1>4 DEF Made, Inserted
  <2>2. files' \subseteq dirs' /\ dirs' \subseteq Made'
    BY <1>2, <2>1 DEF Fits, RowsFit
  <2>3. QED
    BY <1>1, <1>2, <1>4, <1>5, <2>1, <2>2 DEF Moves, Fits, RowsFit
<1>7. RequestFits(r)'
  BY <1>1, <1>2, <1>4 DEF RequestFits
<1>8. RowsFit' /\ RequestsFit' /\ AllApart'
  BY <1>6, <1>7, MovesFit
<1>9. DirsHeld'
  BY <1>1, <1>2, <1>4 DEF DirsHeld, Fits
<1>10. Runnable'
  BY <1>1, <1>2, <1>5, RunnableKept
<1>11. FailedCreationIsMarked'
  BY <1>1, <1>2, <1>3, <1>4 DEF FailedCreationIsMarked, Fits, InFlight
<1>12. QED
  BY <1>8, <1>9, <1>10, <1>11 DEF Fits

LEMMA FitsInsert ==
  ASSUME Typed, Fits, NEW r \in Reqs, Insert(r)
  PROVE  Fits'
<1>1. /\ pc[r] = "insert" /\ UNCHANGED <<row, procs, kind, target, saw, shared, tried, dirs, files>>
      /\ r \in Ids /\ rows' = rows \cup {r} /\ lost \subseteq lost' /\ RequestFits(r)
  BY SmallNumbers DEF Insert, Fits, RequestsFit, diskVars
<1>2. \/ pc' = [pc EXCEPT ![r] = "install"] /\ kind[r] = "create"
      \/ pc' = [pc EXCEPT ![r] = "ended"] /\ row[r].dir \in files \cup lost'
  BY DEF Insert, Goto
<1>3. r \notin Inserted
  BY <1>1 DEF Inserted
<1>4. /\ pc'[r] \in {"install", "ended"} /\ \A q \in Reqs \ {r} : pc'[q] = pc[q]
      /\ pc'[r] = "install" => kind[r] = "create"
      /\ pc'[r] = "ended" => row[r].dir \in files \cup lost'
  BY <1>2 DEF Typed
<1>5. OnlyStatus
  BY <1>1, SameRows
<1>6. Moves({r})
  <2>1. Made' = Made /\ Inserted' = Inserted \cup {r}
    BY <1>1, <1>4 DEF Made, Inserted
  <2>2. QED
    BY <1>1, <1>3, <1>4, <1>5, <2>1 DEF Moves, Fits, RowsFit
<1>7. RequestFits(r)'
  BY <1>1, <1>4 DEF RequestFits
<1>8. RowsFit' /\ RequestsFit' /\ AllApart'
  BY <1>6, <1>7, MovesFit
<1>9. DirsHeld'
  BY <1>1, <1>4 DEF DirsHeld, Fits
<1>10. Runnable'
  BY <1>1, <1>5, RunnableKept
<1>11. FailedCreationIsMarked'
  BY <1>1, <1>4 DEF FailedCreationIsMarked, Fits, InFlight
<1>12. QED
  BY <1>8, <1>9, <1>10, <1>11 DEF Fits

\* The end of a download or of an installation.
LEMMA FitsFetched ==
  ASSUME Typed, Fits, NEW r \in Reqs, pc[r] = "install", NEW arrived \in BOOLEAN, NEW result \in Results,
         Fetched(r, arrived), Unanswered(r, result),
         Marked(r, result) \/ (result = "done" /\ r \in rows /\ row' = [row EXCEPT ![r].status = "stopped"]),
         Goto(r, "ended"), UNCHANGED <<rows, dirs, procs, kind, target, crashes, saw, shared, tried, late>>
  PROVE  Fits'
<1>1. r \in Ids /\ row[r].dir = r /\ r \in dirs
  BY SmallNumbers DEF Fits, RequestsFit, RequestFits
<1>2. /\ files \subseteq files' /\ files' \subseteq files \cup {r}
      /\ lost \subseteq lost' /\ (result # "failed" => r \in lost')
  BY <1>1 DEF Fetched, Unanswered
<1>3. pc'[r] = "ended" /\ \A q \in Reqs \ {r} : pc'[q] = pc[q]
  BY DEF Goto, Typed
<1>4. OnlyStatus /\ \A i \in Ids \ {r} : row'[i] = row[i]
  BY InstalledRow
<1>5. result = "failed" /\ r \in rows => row'[r].status = "crashed"
  BY InstalledRow
<1>6. Moves({r})
  <2>1. Made' = Made /\ Inserted' = Inserted
    BY <1>3 DEF Made, Inserted
  <2>2. files' \subseteq dirs
    BY <1>1, <1>2 DEF Fits, RowsFit
  <2>3. QED
    BY <1>2, <1>3, <1>4, <2>1, <2>2 DEF Moves, Fits, RowsFit
<1>7. RequestFits(r)'
  BY <1>3 DEF RequestFits
<1>8. RowsFit' /\ RequestsFit' /\ AllApart'
  BY <1>6, <1>7, MovesFit
<1>9. DirsHeld'
  <2>1. rows \cup {q \in Reqs : pc'[q] = "insert"} \in SUBSET (rows \cup {q \in Reqs : pc[q] = "insert"})
    BY <1>3
  <2>2. QED
    BY <1>2, <1>4, <2>1, HeldKept DEF DirsHeld
<1>10. Runnable'
  BY <1>2, <1>4, RunnableKept
<1>11. FailedCreationIsMarked'
  <2>1. ASSUME NEW i \in rows \ tried, row'[i].dir \notin files' \cup lost', i \in Reqs => ~InFlight(i)'
        PROVE  row'[i].status = "crashed"
    <3>1. CASE i = r
      <4>1. row'[r].dir = r
        BY <1>1, <1>4 DEF OnlyStatus, Alike
      <4>2. QED
        BY <1>2, <1>5, <2>1, <3>1, <4>1
    <3>2. CASE i # r
      <4>1. row'[i] = row[i] /\ (i \in Reqs => pc'[i] = pc[i])
        BY <1>3, <1>4, <3>2 DEF Typed
      <4>2. QED
        BY <1>2, <2>1, <4>1 DEF Fits, FailedCreationIsMarked, InFlight
    <3>3. QED
      BY <3>1, <3>2
  <2>2. QED
    BY <2>1 DEF FailedCreationIsMarked
<1>12. QED
  BY <1>8, <1>9, <1>10, <1>11 DEF Fits

\* The steps that leave the directories and the marks alone.
LEMMA FitsQuiet ==
  ASSUME Typed, Fits, NEW R \in SUBSET Reqs, Moves(R), \A r \in R : RequestFits(r)',
         UNCHANGED <<row, dirs, files, lost, tried>>, rows' \subseteq rows, procs' \subseteq procs,
         \A q \in Reqs : pc'[q] = "insert" => pc[q] = "insert",
         \A q \in R \cap rows : ~InFlight(q)
  PROVE  Fits'
<1>1. RowsFit' /\ RequestsFit' /\ AllApart'
  BY MovesFit
<1>2. DirsHeld'
  BY DEF DirsHeld, Fits, Moves
<1>3. Runnable'
  BY RunnableKept DEF Moves
<1>4. FailedCreationIsMarked'
  BY DEF FailedCreationIsMarked, Fits, InFlight, Moves
<1>5. QED
  BY <1>1, <1>2, <1>3, <1>4 DEF Fits

LEMMA FitsDeletion ==
  ASSUME Typed, Fits, NEW r \in Reqs, Delete(r) \/ DeleteStop(r) \/ Erase(r)
  PROVE  Fits'
<1>1. /\ UNCHANGED <<row, saw, shared, dirs, files, lost, tried>> /\ rows' \subseteq rows /\ procs' \subseteq procs
      /\ pc[r] \in {"idle", "stop", "erase"}
      /\ \E next \in {"stop", "erase", "ended"} : pc' = [pc EXCEPT ![r] = next]
      /\ \A q \in Reqs \ {r} : kind'[q] = kind[q] /\ target'[q] = target[q]
  <2>1. CASE Delete(r)
    BY <2>1 DEF Delete, Asked, Goto, diskVars, histVars, Typed
  <2>2. CASE DeleteStop(r)
    BY <2>2 DEF DeleteStop, Goto, diskVars, histVars, Typed
  <2>3. CASE Erase(r)
    BY <2>3 DEF Erase, Goto, diskVars, histVars, Typed
  <2>4. QED
    BY <2>1, <2>2, <2>3
<1>2. pc'[r] \in {"stop", "erase", "ended"} /\ \A q \in Reqs \ {r} : pc'[q] = pc[q]
  BY <1>1 DEF Typed
<1>3. r \notin Inserted /\ r \notin rows
  BY <1>1 DEF Inserted, Fits, RowsFit
<1>4. Moves({r})
  <2>1. OnlyStatus
    BY <1>1, SameRows
  <2>2. Made \subseteq Made' /\ Inserted \subseteq Inserted'
    BY <1>2, <1>3 DEF Made, Inserted
  <2>3. QED
    BY <1>1, <1>2, <2>1, <2>2 DEF Moves, Fits, RowsFit
<1>5. RequestFits(r)'
  BY <1>2 DEF RequestFits
<1>6. QED
  BY <1>1, <1>2, <1>3, <1>4, <1>5, FitsQuiet

LEMMA FitsStart ==
  ASSUME Typed, Fits, NEW i \in Ids, Start(i)
  PROVE  Fits'
<1>1. /\ UNCHANGED <<rows, dirs, files, pc, kind, target, saw, lost, shared, tried>> /\ procs' = procs \cup {i}
      /\ row' = [row EXCEPT ![i].status = "running"] /\ i \in rows /\ row[i].dir \in files
  BY DEF Start, diskVars, reqVars
<1>2. OnlyStatus
  BY <1>1, StatusRow
<1>3. \A j \in Ids : row'[j].dir = row[j].dir
  BY <1>2 DEF OnlyStatus, Alike
<1>4. Moves({})
  BY <1>1, <1>2 DEF Moves, Fits, RowsFit, Inserted, Made
<1>5. RowsFit' /\ RequestsFit' /\ AllApart'
  BY <1>4, MovesFit
<1>6. DirsHeld'
  BY <1>1, <1>3, SmallNumbers DEF DirsHeld, Fits, Typed
<1>7. Runnable'
  BY <1>1, <1>3 DEF Runnable, Fits, Typed
<1>8. FailedCreationIsMarked'
  <2>1. \A j \in Ids \ {i} : row'[j] = row[j]
    BY <1>1 DEF Typed
  <2>2. QED
    BY <1>1, <1>3, <2>1 DEF FailedCreationIsMarked, Fits, InFlight, Typed
<1>9. QED
  BY <1>5, <1>6, <1>7, <1>8 DEF Fits

LEMMA FitsStartFails ==
  ASSUME Typed, Fits, NEW i \in Ids, StartFails(i)
  PROVE  Fits'
<1>1. /\ UNCHANGED <<rows, dirs, files, procs, pc, kind, target, saw, lost, shared>> /\ tried' = tried \cup {i}
      /\ \E st \in {"starting", "crashed"} : row' = [row EXCEPT ![i].status = st]
  BY DEF StartFails, diskVars, reqVars
<1>2. OnlyStatus
  BY <1>1, StatusRow
<1>3. \A j \in Ids : row'[j].dir = row[j].dir
  BY <1>2 DEF OnlyStatus, Alike
<1>4. Moves({})
  BY <1>1, <1>2 DEF Moves, Fits, RowsFit, Inserted, Made
<1>5. RowsFit' /\ RequestsFit' /\ AllApart'
  BY <1>4, MovesFit
<1>6. DirsHeld'
  BY <1>1, <1>3, SmallNumbers DEF DirsHeld, Fits, Typed
<1>7. Runnable'
  BY <1>1, <1>2, RunnableKept
<1>8. FailedCreationIsMarked'
  <2>1. \A j \in Ids \ {i} : row'[j] = row[j]
    BY <1>1 DEF Typed
  <2>2. QED
    BY <1>1, <2>1 DEF FailedCreationIsMarked, Fits, InFlight, Typed
<1>9. QED
  BY <1>5, <1>6, <1>7, <1>8 DEF Fits

\* A list leaves the marks of servers without their executable: they do not run.
LEMMA FitsList ==
  ASSUME Typed, Fits, List
  PROVE  Fits'
<1>1. UNCHANGED <<rows, dirs, files, procs, pc, kind, target, saw, lost, shared, tried>>
  BY DEF List, diskVars, reqVars, histVars
<1>2. OnlyStatus
  BY ListRow
<1>3. \A j \in Ids : row'[j].dir = row[j].dir
  BY <1>2 DEF OnlyStatus, Alike
<1>4. Moves({})
  BY <1>1, <1>2 DEF Moves, Fits, RowsFit, Inserted, Made
<1>5. RowsFit' /\ RequestsFit' /\ AllApart'
  BY <1>4, MovesFit
<1>6. DirsHeld'
  BY <1>1, <1>3, SmallNumbers DEF DirsHeld, Fits, Typed
<1>7. Runnable'
  BY <1>1, <1>2, RunnableKept
<1>8. FailedCreationIsMarked'
  <2>1. ASSUME NEW i \in rows \ tried, row'[i].dir \notin files \cup lost, i \in Reqs => ~InFlight(i)
        PROVE  row'[i].status = "crashed"
    <3>1. i \in Ids /\ row[i].dir \notin files \cup lost
      BY <1>3, <2>1 DEF Typed
    <3>2. row[i].status = "crashed"
      BY <2>1, <3>1 DEF Fits, FailedCreationIsMarked
    <3>3. i \notin procs
      BY <3>1 DEF Fits, Runnable
    <3>4. QED
      BY <3>1, <3>2, <3>3, ListRow
  <2>2. QED
    BY <1>1, <2>1 DEF FailedCreationIsMarked, InFlight
<1>9. QED
  BY <1>5, <1>6, <1>7, <1>8 DEF Fits

LEMMA FitsStop ==
  ASSUME Typed, Fits, NEW i \in Ids, Stop(i)
  PROVE  Fits'
<1>1. /\ UNCHANGED <<rows, dirs, files, pc, kind, target, saw, lost, shared, tried>> /\ procs' = procs \ {i}
      /\ row' = [row EXCEPT ![i].status = "stopped"] /\ i \in procs
  BY DEF Stop, diskVars, reqVars
<1>2. OnlyStatus
  BY <1>1, StatusRow
<1>3. \A j \in Ids : row'[j].dir = row[j].dir
  BY <1>2 DEF OnlyStatus, Alike
<1>4. Moves({})
  BY <1>1, <1>2 DEF Moves, Fits, RowsFit, Inserted, Made
<1>5. RowsFit' /\ RequestsFit' /\ AllApart'
  BY <1>4, MovesFit
<1>6. DirsHeld'
  BY <1>1, <1>3, SmallNumbers DEF DirsHeld, Fits, Typed
<1>7. Runnable'
  BY <1>1, <1>2, RunnableKept
<1>8. FailedCreationIsMarked'
  <2>1. \A j \in Ids \ {i} : row'[j] = row[j]
    BY <1>1 DEF Typed
  <2>2. row[i].dir \in files
    BY <1>1 DEF Fits, Runnable
  <2>3. QED
    BY <1>1, <1>3, <2>1, <2>2 DEF FailedCreationIsMarked, Fits, InFlight, Typed
<1>9. QED
  BY <1>5, <1>6, <1>7, <1>8 DEF Fits

LEMMA FitsCrash ==
  ASSUME Typed, Fits, Crash
  PROVE  Fits'
<1> DEFINE R == {r \in Reqs : InFlight(r)}
<1>1. /\ UNCHANGED <<rows, dirs, files, kind, target, saw, shared, tried>> /\ procs' = {}
      /\ pc' = [r \in Reqs |-> IF InFlight(r) THEN "ended" ELSE pc[r]]
      /\ lost' = lost \cup {row[r].dir : r \in {q \in Reqs : InFlight(q) /\ kind[q] \notin {"edit", "delete"}}}
  BY DEF Crash, diskVars
<1>2. OnlyStatus
  BY CrashRow
<1>3. \A j \in Ids : row'[j].dir = row[j].dir
  BY <1>2 DEF OnlyStatus, Alike
<1>4. \A q \in Reqs : (q \in R => pc'[q] = "ended") /\ (q \notin R => pc'[q] = pc[q])
  BY <1>1
<1>5. Moves(R)
  <2>1. Made' = Made /\ Inserted \subseteq Inserted'
    BY <1>4 DEF Made, Inserted, InFlight
  <2>2. QED
    BY <1>1, <1>2, <1>4, <2>1 DEF Moves, Fits, RowsFit, InFlight
<1>6. \A r \in R : RequestFits(r)'
  BY <1>4 DEF RequestFits
<1>7. RowsFit' /\ RequestsFit' /\ AllApart'
  BY <1>5, <1>6, MovesFit
<1>8. DirsHeld'
  <2>1. \A q \in Reqs : pc'[q] = "insert" => pc[q] = "insert"
    BY <1>4
  <2>2. QED
    BY <1>1, <1>3, <2>1, SmallNumbers DEF DirsHeld, Fits, Typed
<1>9. Runnable'
  BY <1>1 DEF Runnable
<1>10. FailedCreationIsMarked'
  <2>1. ASSUME NEW i \in rows \ tried, row'[i].dir \notin files \cup lost'
        PROVE  row'[i].status = "crashed"
    <3>1. row[i].dir \notin files \cup lost /\ i \in Ids
      BY <1>1, <1>3, <2>1 DEF Typed
    <3>2. i \in Reqs => ~InFlight(i)
      <4>1. SUFFICES ASSUME i \in Reqs, InFlight(i) PROVE FALSE
        OBVIOUS
      <4>2. pc[i] = "install"
        BY <4>1 DEF Fits, RowsFit, Inserted, InFlight
      <4>3. kind[i] = "create"
        BY <4>1, <4>2 DEF Fits, RequestsFit, RequestFits
      <4>4. row[i].dir \in lost'
        BY <1>1, <4>1, <4>3
      <4>5. QED
        BY <1>3, <2>1, <3>1, <4>4
    <3>3. i \notin procs
      BY <3>1 DEF Fits, Runnable
    <3>4. row[i].status = "crashed"
      BY <2>1, <3>1, <3>2 DEF Fits, FailedCreationIsMarked
    <3>5. QED
      BY <3>1, <3>3, <3>4, CrashRow
  <2>2. QED
    BY <1>1, <2>1 DEF FailedCreationIsMarked
<1>11. QED
  BY <1>7, <1>8, <1>9, <1>10 DEF Fits

-----------------------------------------------------------------------------
(* The edit of a query port                                                *)

\* What the commit of an edit changes.
LEMMA CommitFrame ==
  ASSUME Typed, Fits, NEW r \in Reqs, EditCommit(r)
  PROVE  LET i == target[r] IN
         /\ r \in Ids /\ i \in Ids \ {r} /\ pc[r] = "commit" /\ Editing(r) /\ r \notin Inserted
         /\ UNCHANGED <<rows, dirs, files, procs, kind, lost, shared, tried>>
         /\ pc'[r] = "ended" /\ \A q \in Reqs \ {r} : pc'[q] = pc[q] /\ target'[q] = target[q]
         /\ row'[r] = NoRow /\ saw'[r] = {}
         /\ \A j \in Ids \ {i, r} : row'[j] = row[j] /\ saw'[j] \subseteq saw[j]
         /\ i \notin rows => row'[i] = row[i] /\ saw'[i] = saw[i]
         /\ i \in rows => /\ row'[i].query = row[r].query /\ row'[i].by = "edit" /\ saw'[i] = saw[r]
                          /\ \A j \in Ids \ {i} : i \notin saw'[j]
         /\ row'[i].type = row[i].type /\ row'[i].game = row[i].game /\ row'[i].rcon = row[i].rcon
         /\ row'[i].dir = row[i].dir /\ row'[i].status = row[i].status
<1> DEFINE i == target[r]
<1>1. /\ pc[r] = "commit" /\ pc' = [pc EXCEPT ![r] = "ended"] /\ target' = [target EXCEPT ![r] = 0]
      /\ UNCHANGED <<rows, dirs, files, procs, kind, lost, shared, tried>>
  BY DEF EditCommit, Goto, diskVars
<1>2. pc'[r] = "ended" /\ \A q \in Reqs \ {r} : pc'[q] = pc[q] /\ target'[q] = target[q]
  BY <1>1 DEF Typed
<1>3. r \in Ids /\ i \in Ids /\ Editing(r) /\ r \notin Inserted /\ i # r
  BY <1>1, SmallNumbers DEF Typed, Fits, RequestsFit, RequestFits, Inserted, Editing
<1>4. CASE i \in rows
  <2>1. saw' = [j \in Ids |-> IF j = i THEN saw[r] ELSE IF j = r THEN {} ELSE saw[j] \ {i}]
    BY <1>4 DEF EditCommit
  <2>2. /\ saw'[i] = saw[r] /\ saw'[r] = {} /\ \A j \in Ids \ {i, r} : saw'[j] \subseteq saw[j]
        /\ \A j \in Ids \ {i} : i \notin saw'[j]
    BY <1>3, <2>1
  <2>3. /\ row'[r] = NoRow /\ \A j \in Ids \ {i, r} : row'[j] = row[j]
        /\ row'[i].type = row[i].type /\ row'[i].game = row[i].game /\ row'[i].rcon = row[i].rcon
        /\ row'[i].query = row[r].query /\ row'[i].dir = row[i].dir /\ row'[i].by = "edit"
        /\ row'[i].status = row[i].status
    BY <1>3, <1>4, CommitRow
  <2>4. QED
    BY <1>1, <1>2, <1>3, <1>4, <2>2, <2>3
<1>5. CASE i \notin rows
  <2>1. row'[r] = NoRow /\ (\A j \in Ids \ {r} : row'[j] = row[j]) /\ saw' = [saw EXCEPT ![r] = {}]
    BY <1>5, CommitNothing
  <2>2. saw'[r] = {} /\ \A j \in Ids \ {r} : saw'[j] = saw[j]
    BY <1>3, <2>1 DEF Typed
  <2>3. QED
    BY <1>1, <1>2, <1>3, <1>5, <2>1, <2>2
<1>6. QED
  BY <1>4, <1>5

LEMMA FitsEditCommit ==
  ASSUME Typed, Fits, NEW r \in Reqs, EditCommit(r)
  PROVE  Fits'
<1> DEFINE i == target[r]
<1>1. /\ r \in Ids /\ i \in Ids \ {r} /\ pc[r] = "commit" /\ Editing(r) /\ r \notin Inserted
      /\ UNCHANGED <<rows, dirs, files, procs, kind, lost, shared, tried>>
      /\ pc'[r] = "ended" /\ \A q \in Reqs \ {r} : pc'[q] = pc[q] /\ target'[q] = target[q]
  BY CommitFrame
<1>2. /\ row'[r] = NoRow /\ saw'[r] = {}
      /\ \A j \in Ids \ {i, r} : row'[j] = row[j] /\ saw'[j] \subseteq saw[j]
      /\ i \notin rows => row'[i] = row[i] /\ saw'[i] = saw[i]
      /\ i \in rows => /\ row'[i].query = row[r].query /\ row'[i].by = "edit" /\ saw'[i] = saw[r]
                       /\ \A j \in Ids \ {i} : i \notin saw'[j]
      /\ row'[i].type = row[i].type /\ row'[i].game = row[i].game /\ row'[i].rcon = row[i].rcon
      /\ row'[i].dir = row[i].dir /\ row'[i].status = row[i].status
  BY CommitFrame
<1> HIDE DEF i
<1>3. /\ i \in Inserted \ saw[r] /\ row[r].by = "edit" /\ row[i].type = "steam"
      /\ row[i].game = row[r].game /\ row[i].rcon = row[r].rcon
  BY <1>1 DEF Editing, i
<1>4. r \notin rows /\ r \notin procs
  BY <1>1 DEF Fits, RowsFit
<1>5. \A j \in Ids \ {r} : /\ row'[j].type = row[j].type /\ row'[j].game = row[j].game
                           /\ row'[j].rcon = row[j].rcon /\ row'[j].dir = row[j].dir
                           /\ row'[j].status = row[j].status
  BY <1>2
<1>6. Inserted \subseteq Inserted' /\ Made' = Made
  BY <1>1 DEF Inserted, Made
<1>7. NoRow.dir = 0 /\ NoRow.query = NoPort /\ 0 \in Made
  BY SmallNumbers DEF NoRow, Made, Reqs
<1>8. RowsFit'
  <2>1. ASSUME NEW j \in Ids PROVE row'[j].dir \in Made /\ saw'[j] \subseteq Inserted
    <3>1. saw'[j] \subseteq saw[j] \cup saw[r]
      BY <1>1, <1>2
    <3>2. saw[j] \subseteq Inserted /\ saw[r] \subseteq Inserted /\ row[j].dir \in Made
      BY <1>1 DEF Fits, RowsFit
    <3>3. row'[j].dir \in Made
      BY <1>2, <1>5, <1>7, <3>2
    <3>4. QED
      BY <3>1, <3>2, <3>3
  <2>2. ASSUME NEW j \in Ids, row'[j].type # "steam" PROVE row'[j].query = NoPort
    <3>1. CASE j = r
      BY <1>2, <1>7, <3>1
    <3>2. CASE j # r /\ j # i
      BY <1>2, <2>2, <3>2 DEF Fits, RowsFit
    <3>3. CASE j = i
      BY <1>2, <1>3, <2>2, <3>3
    <3>4. QED
      BY <3>1, <3>2, <3>3
  <2>3. QED
    BY <1>1, <1>6, <2>1, <2>2 DEF Fits, RowsFit
<1>9. RequestsFit'
  <2>1. ASSUME NEW q \in Reqs \ {r} PROVE RequestFits(q)'
    <3>1. /\ q \in Ids \ {r} /\ pc'[q] = pc[q] /\ kind'[q] = kind[q] /\ target'[q] = target[q]
          /\ target[q] \in Ids /\ RequestFits(q) /\ row'[q].dir = row[q].dir
      BY <1>1, <1>5, <2>1, SmallNumbers DEF Typed, Fits, RequestsFit
    <3>2. pc[q] \in {"idle", "commit"} => q # i
      BY <1>3 DEF Inserted
    <3>3. pc[q] \in {"idle", "commit"} => row'[q] = row[q] /\ saw'[q] \subseteq saw[q]
      BY <1>2, <3>1, <3>2
    <3>4. Extracting(q) => Extracting(q)'
      <4>1. ASSUME Extracting(q), NEW j \in Ids \ {q}, row'[j].dir = q PROVE q \in shared
        <5>1. CASE j = r
          BY <1>2, <1>7, <4>1, <5>1 DEF Reqs
        <5>2. CASE j # r
          BY <1>5, <4>1, <5>2 DEF Extracting
        <5>3. QED
          BY <5>1, <5>2
      <4>2. QED
        BY <1>1, <3>1, <4>1 DEF Extracting
    <3>5. pc[q] = "commit" /\ Editing(q) => Editing(q)'
      <4>1. target[q] \in Inserted => target[q] # r /\ target[q] \in Inserted'
        BY <1>1, <1>6
      <4>2. target[q] # r => /\ row'[target[q]].type = row[target[q]].type
                             /\ row'[target[q]].game = row[target[q]].game
                             /\ row'[target[q]].rcon = row[target[q]].rcon
        BY <1>5, <3>1
      <4>3. QED
        BY <3>1, <3>3, <4>1, <4>2 DEF Editing
    <3>6. QED
      BY <1>1, <3>1, <3>3, <3>4, <3>5 DEF RequestFits
  <2>2. RequestFits(r)'
    BY <1>1 DEF RequestFits
  <2>3. QED
    BY <2>1, <2>2 DEF RequestsFit
<1>10. DirsHeld'
  <2>1. ASSUME NEW j \in rows \cup {q \in Reqs : pc'[q] = "insert"} PROVE row'[j].dir \in dirs \cup shared
    <3>1. j \in Ids \ {r} /\ j \in rows \cup {q \in Reqs : pc[q] = "insert"}
      BY <1>1, <1>4, <2>1, SmallNumbers DEF Typed
    <3>2. QED
      BY <1>5, <3>1 DEF Fits, DirsHeld
  <2>2. QED
    BY <1>1, <2>1 DEF DirsHeld
<1>11. Runnable'
  BY <1>1, <1>4, <1>5 DEF Fits, Runnable, Typed
<1>12. FailedCreationIsMarked'
  BY <1>1, <1>4, <1>5 DEF Fits, FailedCreationIsMarked, InFlight, Typed
<1>13. AllApart'
  <2>1. ASSUME NEW a \in Ids, NEW b \in rows \cap saw'[a] PROVE Apart(row'[a], row'[b])
    <3>1. a # r /\ b # r /\ b \in Ids
      BY <1>2, <1>4, <2>1 DEF Typed
    <3>2. CASE a = i /\ i \in rows
      <4>1. b \in saw[r] /\ b # i
        BY <1>2, <1>3, <2>1, <3>2
      <4>2. row'[b] = row[b] /\ Apart(row[r], row[b])
        BY <1>1, <1>2, <2>1, <3>1, <4>1 DEF Fits, AllApart
      <4>3. PortsOf(row'[a]) = PortsOf(row[r]) /\ row'[a].by = "edit"
        BY <1>2, <1>3, <3>2 DEF PortsOf
      <4>4. QED
        BY <1>3, <4>2, <4>3 DEF Apart
    <3>3. CASE ~(a = i /\ i \in rows)
      <4>1. row'[a] = row[a] /\ b \in saw[a]
        BY <1>2, <2>1, <3>1, <3>3
      <4>2. row'[b] = row[b]
        BY <1>2, <2>1, <3>1, <3>3
      <4>3. QED
        BY <2>1, <4>1, <4>2 DEF Fits, AllApart
    <3>4. QED
      BY <3>2, <3>3
  <2>2. QED
    BY <1>1, <2>1 DEF AllApart, Apart, PortsOf
<1>14. QED
  BY <1>8, <1>9, <1>10, <1>11, <1>12, <1>13 DEF Fits

-----------------------------------------------------------------------------
(* Theorems                                                                *)

LEMMA FitsNext == Typed /\ Fits /\ [Next]_vars => Fits'
<1> SUFFICES ASSUME Typed, Fits, [Next]_vars PROVE Fits'
  OBVIOUS
<1>1. ASSUME NEW r \in Reqs, Request(r) PROVE Fits'
  <2>1. CASE Create(r) \/ Import(r) \/ Upload(r) \/ Clone(r) \/ Config(r) \/ Edit(r)
    BY <2>1, FitsCreate, FitsImport, FitsUpload, FitsClone, FitsConfig, FitsEdit
  <2>2. CASE Extract(r) \/ Copy(r) \/ Insert(r) \/ EditCommit(r)
    BY <2>2, FitsExtract, FitsCopy, FitsInsert, FitsEditCommit
  <2>3. CASE Download(r)
    BY <2>3, FitsFetched DEF Download
  <2>4. CASE Install(r)
    <3>1. PICK arrived \in BOOLEAN, result \in Results :
            /\ Fetched(r, arrived) /\ Unanswered(r, result)
            /\ Marked(r, result) \/ (result = "done" /\ r \in rows /\ row' = [row EXCEPT ![r].status = "stopped"])
      BY <2>4 DEF Install
    <3>2. QED
      BY <2>4, <3>1, FitsFetched DEF Install
  <2>5. CASE Delete(r) \/ DeleteStop(r) \/ Erase(r)
    BY <2>5, FitsDeletion
  <2>6. QED
    BY <1>1, <2>1, <2>2, <2>3, <2>4, <2>5 DEF Request
<1>2. ASSUME NEW i \in Ids, Start(i) \/ StartFails(i) \/ Stop(i) PROVE Fits'
  BY <1>2, FitsStart, FitsStartFails, FitsStop
<1>3. CASE List \/ Crash
  BY <1>3, FitsList, FitsCrash
<1>4. CASE UNCHANGED vars
  <2>1. UNCHANGED <<rows, row, dirs, files, procs, pc, kind, target, saw, lost, shared, tried>>
    BY <1>4 DEF vars, reqVars, diskVars, histVars
  <2>2. Moves({})
    BY <2>1, SameRows DEF Moves, Fits, RowsFit, Inserted, Made
  <2>3. QED
    BY <2>1, <2>2, FitsQuiet
<1>5. QED
  BY <1>1, <1>2, <1>3, <1>4 DEF Next

LEMMA RegistryFits == Spec => [](Typed /\ Fits)
BY TypedInit, TypedNext, FitsInit, FitsNext, PTL DEF Spec

\* The rows, directories, processes and requests of the routes of server_crud.py
\* have their types; a port may be the one beyond the range of port_manager.py.
THEOREM TypeCorrect == Spec => []TypeOK
<1>1. Typed /\ Fits => TypeOK
  BY DEF Typed, Fits, RowsFit, TypeOK
<1>2. QED
  BY <1>1, RegistryFits, PTL

\* A creation, an import, an upload, a clone or an edit of a query port repeats
\* no port, name or directory that it was compared with, however many requests
\* change the rows between the comparison and the commit.
THEOREM NothingSeenIsRepeated == Spec => []SeenIsNotRepeated
<1>1. Typed /\ Fits => SeenIsNotRepeated
  BY DEF Typed, Fits, AllApart, Apart, SeenIsNotRepeated
<1>2. QED
  BY <1>1, RegistryFits, PTL

\* Failed uploads and copies leave no row behind; only a directory that was
\* imported while its maker was at work may be taken from a server.
THEOREM DirectoriesStay == Spec => []RowsHaveDirectories
<1>1. Fits => RowsHaveDirectories
  BY DEF Fits, DirsHeld, RowsHaveDirectories
<1>2. QED
  BY <1>1, RegistryFits, PTL

\* A failure that download_server_jar, download_bedrock_server or SteamCMD reports
\* stays in the row, which no list, stop, edit or death of the manager changes:
\* only a start of the server without its executable does.
THEOREM FailuresAreMarked == Spec => []FailedCreationIsMarked
<1>1. Fits => FailedCreationIsMarked
  BY DEF Fits
<1>2. QED
  BY <1>1, RegistryFits, PTL
=============================================================================
