----------------------- MODULE SteamOperationsProofs -----------------------
(***************************************************************************)
(* Theorems about SteamOperations, for any number of operations of any     *)
(* kinds.                                                                  *)
(***************************************************************************)
EXTENDS SteamOperations, TLAPS

LEMMA InitType == Init => TypeOK
  BY BoundAssumption DEF Init, TypeOK, SnapStatus, Awaits, Results, Nobody

LEMMA NextType == TypeOK /\ [Next]_vars => TypeOK'
<1> SUFFICES ASSUME TypeOK, [Next]_vars PROVE TypeOK'
  OBVIOUS
<1> USE BoundAssumption DEF Ops
<1>1. ASSUME NEW o \in Ops, AskUpdateStart(o) PROVE TypeOK'
  BY <1>1 DEF AskUpdateStart, Ask, Goto, TypeOK, Publish, SnapStatus, Active, Awaits, AllKinds
<1>2. ASSUME NEW o \in Ops, AskQueued(o) PROVE TypeOK'
  <2>1. CASE Ask(o, "manual", "creds") /\ Publish(o, "manual", "queued")
    BY <2>1 DEF Ask, Goto, TypeOK, Publish, SnapStatus, Active, Awaits, AllKinds
  <2>2. CASE Ask(o, "update", "begin") /\ Publish(o, "update", "queued")
    BY <2>2 DEF Ask, Goto, TypeOK, Publish, SnapStatus, Active, Awaits, AllKinds
  <2>3. QED
    BY <1>2, <2>1, <2>2 DEF AskQueued
<1>3. ASSUME NEW o \in Ops, AskUnattended(o) PROVE TypeOK'
  <2>1. \E k \in {"autoUpdate", "autoValidate", "start"}, next \in Awaits : Ask(o, k, next)
    BY <1>3 DEF AskUnattended, Awaits
  <2>2. PICK k \in AllKinds, next \in Awaits : Ask(o, k, next)
    BY <2>1 DEF AllKinds
  <2>3. pc' \in [Ops -> Awaits] /\ mode' \in [Ops -> AllKinds \cup {"none"}]
    BY <2>2 DEF Ask, Goto, TypeOK
  <2>4. UNCHANGED <<snap, opLock, waiter, result, wasRunning, running, startLock, codes>>
    BY <1>3, <2>2 DEF AskUnattended, Ask
  <2>5. QED
    BY <2>3, <2>4 DEF TypeOK
<1>4. ASSUME NEW o \in Ops, UpdateBegins(o) PROVE TypeOK'
  BY <1>4 DEF UpdateBegins, Goto, TypeOK, Awaits
<1>5. ASSUME NEW o \in Ops, UpdateStopped(o) PROVE TypeOK'
  BY <1>5 DEF UpdateStopped, Goto, TypeOK, Awaits
<1>6. ASSUME NEW o \in Ops, CredsFound(o) PROVE TypeOK'
  BY <1>6 DEF CredsFound, Goto, TypeOK, Awaits
<1>7. ASSUME NEW o \in Ops, CredsRefused(o) PROVE TypeOK'
  BY <1>7 DEF CredsRefused, EndHere, Goto, TypeOK, Publish, PublishFor, Id, SnapStatus, Awaits, Fresh, Nobody
<1>8. ASSUME NEW o \in Ops, Unavailable(o) PROVE TypeOK'
  BY <1>8 DEF Unavailable, After, Onward, Goto, TypeOK, Publish, SnapStatus, Awaits, Results, AllKinds, Fresh, Nobody
<1>9. ASSUME NEW o \in Ops, Gone(o) PROVE TypeOK'
  BY <1>9 DEF Gone, EndHere, Goto, TypeOK, Awaits, Results, Nobody
<1>10. ASSUME NEW o \in Ops, Begins(o) PROVE TypeOK'
  BY <1>10 DEF Begins, Goto, TypeOK, Publish, PublishFor, Id, SnapStatus, Active, Awaits, Fresh
<1>11. ASSUME NEW o \in Ops, Progress(o) PROVE TypeOK'
  BY <1>11 DEF Progress, TypeOK, Publish, PublishFor, Id, opVars, SnapStatus, Active, Fresh
<1>12. ASSUME NEW o \in Ops, RunEnds(o) PROVE TypeOK'
  <2>1. /\ opLock' = Nobody
        /\ UNCHANGED <<waiter, wasRunning, running, codes>>
    BY <1>12 DEF RunEnds
  <2>2. snap' \in [op : 0 .. NumOps, kind : AllKinds \cup {"none"}, status : SnapStatus]
    BY <1>12 DEF RunEnds, PublishFor, Publish, Id, TypeOK, SnapStatus, Fresh
  <2>3. PICK res \in {"ok", "failed"} : After(o, res)
    BY <1>12 DEF RunEnds
  <2>4. /\ pc' \in [Ops -> Awaits] /\ mode' \in [Ops -> AllKinds \cup {"none"}]
        /\ result' \in [Ops -> Results] /\ startLock' \in 0 .. NumOps
    BY <2>3 DEF After, Onward, Goto, TypeOK, Awaits, AllKinds, Results, Nobody
  <2>5. QED
    BY <2>1, <2>2, <2>4 DEF TypeOK, Nobody
<1>13. ASSUME NEW o \in Ops, RunRaises(o) PROVE TypeOK'
  BY <1>13 DEF RunRaises, EndHere, Goto, TypeOK, Awaits, Results, Nobody
<1>14. ASSUME NEW o \in Ops, Challenged(o) PROVE TypeOK'
  BY <1>14 DEF Challenged, Goto, TypeOK, Publish, PublishFor, Id, SnapStatus, Active, Awaits, Fresh
<1>15. ASSUME NEW o \in Ops, ChallengedUnattended(o) PROVE TypeOK'
  BY <1>15 DEF ChallengedUnattended, After, Onward, Goto, TypeOK, Awaits, Results, AllKinds, Nobody
<1>16. ASSUME NEW o \in Ops, Submit(o) PROVE TypeOK'
  BY <1>16 DEF Submit, TypeOK, Publish, opVars, SnapStatus, Active
<1>17. ASSUME NEW o \in Ops, Resume(o) PROVE TypeOK'
  BY <1>17 DEF Resume, Goto, TypeOK, Awaits
<1>18. ASSUME NEW o \in Ops, GuardTimeout(o) PROVE TypeOK'
  BY <1>18 DEF GuardTimeout, After, Onward, Goto, TypeOK, Publish, PublishFor, Id, SnapStatus, Awaits, Results, AllKinds, Fresh, Nobody
<1>19. ASSUME NEW o \in Ops, Saved(o) PROVE TypeOK'
  BY <1>19 DEF Saved, Goto, TypeOK, Publish, PublishFor, Id, SnapStatus, Active, Awaits, Fresh
<1>20. ASSUME NEW o \in Ops, StartRefused(o) PROVE TypeOK'
  BY <1>20 DEF StartRefused, Goto, TypeOK, Publish, PublishFor, Id, SnapStatus, Awaits
<1>21. ASSUME NEW o \in Ops, StartBegins(o) PROVE TypeOK'
  BY <1>21 DEF StartBegins, Goto, TypeOK, Awaits
<1>22. ASSUME NEW o \in Ops, Launched(o) PROVE TypeOK'
  BY <1>22 DEF Launched, Goto, TypeOK, Publish, PublishFor, Id, SnapStatus, Awaits, Fresh, Nobody
<1>23. ASSUME NEW o \in Ops, RaisesEarly(o) PROVE TypeOK'
  BY <1>23 DEF RaisesEarly, EndHere, Goto, TypeOK, Awaits, Results, Nobody
<1>24. ASSUME NEW o \in Ops, RaisesLate(o) PROVE TypeOK'
  BY <1>24 DEF RaisesLate, EndHere, Goto, TypeOK, Awaits, Results, Nobody
<1>25. CASE ServerStops
  BY <1>25 DEF ServerStops, opVars, TypeOK, opVars
<1>26. CASE UNCHANGED vars
  BY <1>26 DEF vars, opVars, TypeOK, opVars
<1>27. QED
  BY <1>1, <1>2, <1>3, <1>4, <1>5, <1>6, <1>7, <1>8, <1>9, <1>10, <1>11, <1>12, <1>13, <1>14, <1>15, <1>16, <1>17, <1>18, <1>19, <1>20, <1>21, <1>22, <1>23, <1>24, <1>25, <1>26 DEF Next, Request, OpStep

\* Every variable keeps its type.
THEOREM TypeCorrect == Spec => []TypeOK
<1>1. TypeOK /\ [Next]_vars => TypeOK'
  BY NextType
<1> QED
  BY InitType, <1>1, PTL DEF Spec

-----------------------------------------------------------------------------
LEMMA NextSection == TypeOK /\ SteamSection /\ [Next]_vars => SteamSection'
<1> SUFFICES ASSUME TypeOK, SteamSection, [Next]_vars PROVE SteamSection'
  OBVIOUS
<1> USE BoundAssumption DEF Ops
<1>1. ASSUME NEW o \in Ops, AskUpdateStart(o) PROVE SteamSection'
  BY <1>1 DEF AskUpdateStart, Ask, Goto, SteamSection
<1>2. ASSUME NEW o \in Ops, AskQueued(o) PROVE SteamSection'
  BY <1>2 DEF AskQueued, Ask, Goto, TypeOK, SteamSection
<1>3. ASSUME NEW o \in Ops, AskUnattended(o) PROVE SteamSection'
  BY <1>3 DEF AskUnattended, Ask, Goto, TypeOK, SteamSection
<1>4. ASSUME NEW o \in Ops, UpdateBegins(o) PROVE SteamSection'
  BY <1>4 DEF UpdateBegins, Goto, SteamSection
<1>5. ASSUME NEW o \in Ops, UpdateStopped(o) PROVE SteamSection'
  BY <1>5 DEF UpdateStopped, Goto, SteamSection
<1>6. ASSUME NEW o \in Ops, CredsFound(o) PROVE SteamSection'
  BY <1>6 DEF CredsFound, Goto, SteamSection
<1>7. ASSUME NEW o \in Ops, CredsRefused(o) PROVE SteamSection'
  BY <1>7 DEF CredsRefused, EndHere, Goto, SteamSection
<1>8. ASSUME NEW o \in Ops, Unavailable(o) PROVE SteamSection'
  BY <1>8 DEF Unavailable, After, Onward, Goto, SteamSection
<1>9. ASSUME NEW o \in Ops, Gone(o) PROVE SteamSection'
  BY <1>9 DEF Gone, EndHere, Goto, SteamSection
<1>10. ASSUME NEW o \in Ops, Begins(o) PROVE SteamSection'
  BY <1>10 DEF Begins, Goto, SteamSection, Nobody
<1>11. ASSUME NEW o \in Ops, Progress(o) PROVE SteamSection'
  BY <1>11 DEF Progress, SteamSection, opVars
<1>12. ASSUME NEW o \in Ops, RunEnds(o) PROVE SteamSection'
  BY <1>12 DEF RunEnds, After, Onward, Goto, TypeOK, SteamSection
<1>13. ASSUME NEW o \in Ops, RunRaises(o) PROVE SteamSection'
  BY <1>13 DEF RunRaises, EndHere, Goto, TypeOK, SteamSection
<1>14. ASSUME NEW o \in Ops, Challenged(o) PROVE SteamSection'
  BY <1>14 DEF Challenged, Goto, TypeOK, SteamSection
<1>15. ASSUME NEW o \in Ops, ChallengedUnattended(o) PROVE SteamSection'
  BY <1>15 DEF ChallengedUnattended, After, Onward, Goto, TypeOK, SteamSection
<1>16. ASSUME NEW o \in Ops, Submit(o) PROVE SteamSection'
  BY <1>16 DEF Submit, SteamSection, opVars
<1>17. ASSUME NEW o \in Ops, Resume(o) PROVE SteamSection'
  BY <1>17 DEF Resume, Goto, TypeOK, SteamSection
<1>18. ASSUME NEW o \in Ops, GuardTimeout(o) PROVE SteamSection'
  BY <1>18 DEF GuardTimeout, After, Onward, Goto, TypeOK, SteamSection
<1>19. ASSUME NEW o \in Ops, Saved(o) PROVE SteamSection'
  BY <1>19 DEF Saved, Goto, SteamSection
<1>20. ASSUME NEW o \in Ops, StartRefused(o) PROVE SteamSection'
  BY <1>20 DEF StartRefused, Goto, SteamSection
<1>21. ASSUME NEW o \in Ops, StartBegins(o) PROVE SteamSection'
  BY <1>21 DEF StartBegins, Goto, SteamSection
<1>22. ASSUME NEW o \in Ops, Launched(o) PROVE SteamSection'
  BY <1>22 DEF Launched, Goto, SteamSection
<1>23. ASSUME NEW o \in Ops, RaisesEarly(o) PROVE SteamSection'
  BY <1>23 DEF RaisesEarly, EndHere, Goto, SteamSection
<1>24. ASSUME NEW o \in Ops, RaisesLate(o) PROVE SteamSection'
  BY <1>24 DEF RaisesLate, EndHere, Goto, SteamSection
<1>25. CASE ServerStops
  BY <1>25 DEF ServerStops, opVars, SteamSection, opVars
<1>26. CASE UNCHANGED vars
  BY <1>26 DEF vars, opVars, SteamSection, opVars
<1>27. QED
  BY <1>1, <1>2, <1>3, <1>4, <1>5, <1>6, <1>7, <1>8, <1>9, <1>10, <1>11, <1>12, <1>13, <1>14, <1>15, <1>16, <1>17, <1>18, <1>19, <1>20, <1>21, <1>22, <1>23, <1>24, <1>25, <1>26 DEF Next, Request, OpStep

\* SteamCMD runs, and a Steam Guard challenge is open, only for the holder of the
\* server's operation lock, however operations of all kinds overlap.
THEOREM SectionCorrect == Spec => []SteamSection
<1>1. Init => SteamSection
  BY DEF Init, SteamSection
<1>2. TypeOK /\ SteamSection /\ [Next]_vars => SteamSection'
  BY NextSection
<1> QED
  BY <1>1, <1>2, TypeCorrect, PTL DEF Spec

-----------------------------------------------------------------------------
\* Between the check of the process table and the launch, a start holds the start
\* lock and no process is registered.  This is the inductive form of
\* StartUpdatesOfflineServer: it adds the launch of an update-and-start, which
\* shares the lock, and that the lock is really held.
StartHoldsLock ==
  \A o \in Ops : \/ mode[o] = "start" /\ pc[o] \in {"creds", "lock", "run"}
                 \/ pc[o] = "launch"
    => startLock = o /\ ~running

\* Only an updater stops the server, and only a user's operation waits for a code;
\* neither is the update of a start.
ModeFitsAwait ==
  \A o \in Ops : /\ pc[o] \in {"begin", "stopping"} => mode[o] \in Updaters
                 /\ pc[o] = "guard" => mode[o] \in Interactive

StartSectionHeld == StartHoldsLock /\ ModeFitsAwait

\* A request is sent to an await that fits its kind, and holds nothing yet.
LEMMA AskHeld ==
  ASSUME TypeOK, StartSectionHeld, NEW o \in Ops, NEW kind \in AllKinds,
         NEW next \in {"begin", "creds", "relaunch"}, Ask(o, kind, next),
         next = "begin" => kind \in Updaters, next = "creds" => kind # "start"
  PROVE  StartSectionHeld'
  BY DEF Ask, Goto, TypeOK, StartSectionHeld, StartHoldsLock, ModeFitsAwait

\* After its run of SteamCMD a start keeps the start lock or ends; an operation of
\* another kind holds no start lock.
LEMMA AfterHeld ==
  ASSUME TypeOK, StartSectionHeld, NEW o \in Ops, NEW res \in {"ok", "failed"},
         pc[o] = "run", After(o, res), UNCHANGED running
  PROVE  StartSectionHeld'
<1>1. CASE mode[o] = "start"
  BY <1>1 DEF After, Onward, Goto, TypeOK, StartSectionHeld, StartHoldsLock, ModeFitsAwait
<1>2. CASE mode[o] # "start"
  BY <1>2 DEF After, Onward, Goto, TypeOK, StartSectionHeld, StartHoldsLock, ModeFitsAwait
<1> QED
  BY <1>1, <1>2

LEMMA NextHolds == TypeOK /\ StartSectionHeld /\ [Next]_vars => StartSectionHeld'
<1> SUFFICES ASSUME TypeOK, StartSectionHeld, [Next]_vars PROVE StartSectionHeld'
  OBVIOUS
<1> USE BoundAssumption DEF Ops
<1>1. ASSUME NEW o \in Ops, AskUpdateStart(o) PROVE StartSectionHeld'
  BY <1>1 DEF AskUpdateStart, Ask, Goto, TypeOK, StartSectionHeld, StartHoldsLock, ModeFitsAwait
<1>2. ASSUME NEW o \in Ops, AskQueued(o) PROVE StartSectionHeld'
  BY <1>2, AskHeld DEF AskQueued, AllKinds, Updaters
<1>3. ASSUME NEW o \in Ops, AskUnattended(o) PROVE StartSectionHeld'
  BY <1>3, AskHeld DEF AskUnattended, AllKinds, Updaters
<1>4. ASSUME NEW o \in Ops, UpdateBegins(o) PROVE StartSectionHeld'
  BY <1>4 DEF UpdateBegins, Goto, StartSectionHeld, StartHoldsLock, ModeFitsAwait, Updaters
<1>5. ASSUME NEW o \in Ops, UpdateStopped(o) PROVE StartSectionHeld'
  BY <1>5 DEF UpdateStopped, Goto, StartSectionHeld, StartHoldsLock, ModeFitsAwait, Updaters
<1>6. ASSUME NEW o \in Ops, CredsFound(o) PROVE StartSectionHeld'
  BY <1>6 DEF CredsFound, Goto, StartSectionHeld, StartHoldsLock, ModeFitsAwait
<1>7. ASSUME NEW o \in Ops, CredsRefused(o) PROVE StartSectionHeld'
  BY <1>7 DEF CredsRefused, EndHere, Goto, TypeOK, StartSectionHeld, StartHoldsLock, ModeFitsAwait
<1>8. ASSUME NEW o \in Ops, Unavailable(o) PROVE StartSectionHeld'
  BY <1>8 DEF Unavailable, After, Onward, Goto, TypeOK, StartSectionHeld, StartHoldsLock, ModeFitsAwait
<1>9. ASSUME NEW o \in Ops, Gone(o) PROVE StartSectionHeld'
  BY <1>9 DEF Gone, EndHere, Goto, StartSectionHeld, StartHoldsLock, ModeFitsAwait
<1>10. ASSUME NEW o \in Ops, Begins(o) PROVE StartSectionHeld'
  BY <1>10 DEF Begins, Goto, StartSectionHeld, StartHoldsLock, ModeFitsAwait
<1>11. ASSUME NEW o \in Ops, Progress(o) PROVE StartSectionHeld'
  BY <1>11 DEF Progress, StartSectionHeld, StartHoldsLock, ModeFitsAwait, opVars
<1>12. ASSUME NEW o \in Ops, RunEnds(o) PROVE StartSectionHeld'
  BY <1>12, AfterHeld DEF RunEnds
<1>13. ASSUME NEW o \in Ops, RunRaises(o) PROVE StartSectionHeld'
  BY <1>13 DEF RunRaises, EndHere, Goto, TypeOK, StartSectionHeld, StartHoldsLock, ModeFitsAwait
<1>14. ASSUME NEW o \in Ops, Challenged(o) PROVE StartSectionHeld'
  BY <1>14 DEF Challenged, Goto, StartSectionHeld, StartHoldsLock, ModeFitsAwait
<1>15. ASSUME NEW o \in Ops, ChallengedUnattended(o) PROVE StartSectionHeld'
  BY <1>15 DEF ChallengedUnattended, After, Onward, Goto, TypeOK, StartSectionHeld, StartHoldsLock, ModeFitsAwait
<1>16. ASSUME NEW o \in Ops, Submit(o) PROVE StartSectionHeld'
  BY <1>16 DEF Submit, StartSectionHeld, StartHoldsLock, ModeFitsAwait, opVars
<1>17. ASSUME NEW o \in Ops, Resume(o) PROVE StartSectionHeld'
  BY <1>17 DEF Resume, Goto, StartSectionHeld, StartHoldsLock, ModeFitsAwait, Interactive
<1>18. ASSUME NEW o \in Ops, GuardTimeout(o) PROVE StartSectionHeld'
  BY <1>18 DEF GuardTimeout, After, Onward, Goto, TypeOK, StartSectionHeld, StartHoldsLock, ModeFitsAwait, Interactive
<1>19. ASSUME NEW o \in Ops, Saved(o) PROVE StartSectionHeld'
  BY <1>19 DEF Saved, Goto, StartSectionHeld, StartHoldsLock, ModeFitsAwait
<1>20. ASSUME NEW o \in Ops, StartRefused(o) PROVE StartSectionHeld'
  BY <1>20 DEF StartRefused, Goto, StartSectionHeld, StartHoldsLock, ModeFitsAwait
<1>21. ASSUME NEW o \in Ops, StartBegins(o) PROVE StartSectionHeld'
  BY <1>21 DEF StartBegins, Goto, StartSectionHeld, StartHoldsLock, ModeFitsAwait, Nobody
<1>22. ASSUME NEW o \in Ops, Launched(o) PROVE StartSectionHeld'
  BY <1>22 DEF Launched, Goto, TypeOK, StartSectionHeld, StartHoldsLock, ModeFitsAwait
<1>23. ASSUME NEW o \in Ops, RaisesEarly(o) PROVE StartSectionHeld'
  BY <1>23 DEF RaisesEarly, EndHere, Goto, TypeOK, StartSectionHeld, StartHoldsLock, ModeFitsAwait
<1>24. ASSUME NEW o \in Ops, RaisesLate(o) PROVE StartSectionHeld'
  <2>1. CASE pc[o] = "launch"
    <3>1. startLock = o /\ startLock' = Nobody
      BY <1>24, <2>1 DEF RaisesLate, EndHere, StartSectionHeld, StartHoldsLock
    <3>2. QED
      BY <1>24, <3>1 DEF RaisesLate, EndHere, Goto, TypeOK, StartSectionHeld, StartHoldsLock, ModeFitsAwait
  <2>2. CASE pc[o] # "launch"
    <3>1. running' = running
      BY <1>24, <2>2 DEF RaisesLate
    <3>2. QED
      BY <1>24, <2>2, <3>1 DEF RaisesLate, EndHere, Goto, TypeOK, StartSectionHeld, StartHoldsLock, ModeFitsAwait
  <2>3. QED
    BY <2>1, <2>2
<1>25. CASE ServerStops
  BY <1>25 DEF ServerStops, opVars, StartSectionHeld, StartHoldsLock, ModeFitsAwait, opVars
<1>26. CASE UNCHANGED vars
  BY <1>26 DEF vars, opVars, StartSectionHeld, StartHoldsLock, ModeFitsAwait, opVars
<1>27. QED
  BY <1>1, <1>2, <1>3, <1>4, <1>5, <1>6, <1>7, <1>8, <1>9, <1>10, <1>11, <1>12, <1>13, <1>14, <1>15, <1>16, <1>17, <1>18, <1>19, <1>20, <1>21, <1>22, <1>23, <1>24, <1>25, <1>26 DEF Next, Request, OpStep

\* The update that a start runs never meets a running server.
THEOREM StartsUpdateOffline == Spec => []StartUpdatesOfflineServer
<1>1. Init => StartSectionHeld
  BY DEF Init, StartSectionHeld, StartHoldsLock, ModeFitsAwait
<1>2. TypeOK /\ StartSectionHeld /\ [Next]_vars => StartSectionHeld'
  BY NextHolds
<1>3. StartSectionHeld => StartUpdatesOfflineServer
  BY DEF StartSectionHeld, StartHoldsLock, StartUpdatesOfflineServer
<1> QED
  BY <1>1, <1>2, <1>3, TypeCorrect, PTL DEF Spec

-----------------------------------------------------------------------------
\* Only an update-and-start saves a build between its runs; only it and a start
\* go on to the launch.
LaunchFitsMode ==
  \A o \in Ops : /\ pc[o] = "save" => mode[o] = "update_start"
                 /\ pc[o] \in {"relaunch", "launch"} => mode[o] \in {"start", "update_start"}

\* o will publish, or end silently, before it ends: a queued operation from the
\* request on (an update until it becomes a start), any other while it runs SteamCMD.
Owes(o) ==
  \/ mode[o] \in {"manual", "update_start"} /\ pc[o] \notin {"idle", "ended"}
  \/ mode[o] = "update" /\ pc[o] \in {"begin", "stopping", "creds", "lock", "run", "guard"}
  \/ pc[o] \in {"run", "guard"}

\* o is on its way to its first run of SteamCMD: nothing but a lost end passes by it
\* without an event.
OnTheWay(o) ==
  /\ mode[o] \in {"manual", "update", "update_start"}
  /\ pc[o] \in {"begin", "stopping", "creds", "lock"}

Queued(o)  == snap.op = o /\ (OnTheWay(o) \/ (pc[o] = "ended" /\ result[o] = "lost"))
Running(o) == \/ snap.op = Id(o) /\ Owes(o)
              \/ snap.op \in {Fresh, o} /\ result[o] \in Silent
Waiting(o) == snap.op = o /\ pc[o] = "guard" /\ waiter[o] = "pending"

\* The snapshot, as long as it is active, is o's.
Owner(o) ==
  \/ snap.status = "queued" /\ Queued(o)
  \/ snap.status = "running" /\ Running(o)
  \/ snap.status = "waiting" /\ Waiting(o)

SnapshotOwned == LaunchFitsMode /\ (snap.status \in Active => \E o \in Ops : Owner(o))

LEMMA InitOwned == Init => SnapshotOwned
  BY DEF Init, SnapshotOwned, LaunchFitsMode, Active

\* Who publishes that it is active owns the snapshot.
LEMMA PublishesActive ==
  ASSUME LaunchFitsMode', NEW o \in Ops, snap'.status = "running", snap'.op = Id(o)', Owes(o)'
  PROVE  SnapshotOwned'
  BY DEF SnapshotOwned, Owner, Running

LEMMA PublishesQueued ==
  ASSUME LaunchFitsMode', NEW o \in Ops, snap'.status = "queued", snap'.op = o, OnTheWay(o)'
  PROVE  SnapshotOwned'
  BY DEF SnapshotOwned, Owner, Queued

LEMMA PublishesEnd ==
  ASSUME LaunchFitsMode', snap'.status \in {"completed", "failed"}
  PROVE  SnapshotOwned'
  BY DEF SnapshotOwned, Active

\* A step of o that publishes nothing: o still owns what it owned.
LEMMA PublishesNothing ==
  ASSUME TypeOK, SnapshotOwned, LaunchFitsMode', NEW o \in Ops, UNCHANGED snap,
         \A p \in Ops \ {o} : /\ pc'[p] = pc[p] /\ mode'[p] = mode[p]
                              /\ result'[p] = result[p] /\ waiter'[p] = waiter[p],
         Owner(o) => Owner(o)'
  PROVE  SnapshotOwned'
<1>1. \A p \in Ops : Owner(p) => Owner(p)'
  BY DEF Owner, Queued, Running, Waiting, OnTheWay, Owes, Id
<1>2. QED
  BY <1>1 DEF SnapshotOwned

LEMMA NextOwned == TypeOK /\ SteamSection /\ ModeFitsAwait /\ SnapshotOwned /\ [Next]_vars => SnapshotOwned'
<1> SUFFICES ASSUME TypeOK, SteamSection, ModeFitsAwait, SnapshotOwned, [Next]_vars PROVE SnapshotOwned'
  OBVIOUS
<1>0. LaunchFitsMode
  BY DEF SnapshotOwned
<1> USE DEF TypeOK, Goto, LaunchFitsMode
<1>1. ASSUME NEW o \in Ops, AskUpdateStart(o) PROVE SnapshotOwned'
  <2>1. LaunchFitsMode'
    BY <1>0, <1>1 DEF AskUpdateStart, Ask, After, EndHere, Onward, ModeFitsAwait, Updaters, opVars
  <2>2. snap'.op = o /\ snap'.status = "queued" /\ OnTheWay(o)'
    BY <1>1 DEF AskUpdateStart, Ask, Publish, OnTheWay
  <2>3. QED
    BY <2>1, <2>2, PublishesQueued
<1>2. ASSUME NEW o \in Ops, AskQueued(o) PROVE SnapshotOwned'
  <2>1. LaunchFitsMode'
    BY <1>0, <1>2 DEF AskQueued, Ask, After, EndHere, Onward, ModeFitsAwait, Updaters, opVars
  <2>2. snap'.op = o /\ snap'.status = "queued" /\ OnTheWay(o)'
    BY <1>2 DEF AskQueued, Ask, Publish, OnTheWay
  <2>3. QED
    BY <2>1, <2>2, PublishesQueued
<1>3. ASSUME NEW o \in Ops, AskUnattended(o) PROVE SnapshotOwned'
  <2>1. LaunchFitsMode'
    BY <1>0, <1>3 DEF AskUnattended, Ask, After, EndHere, Onward, ModeFitsAwait, Updaters, opVars
  <2>2. Owner(o) => Owner(o)'
    BY <1>3 DEF AskUnattended, Ask, Owner, Queued, Running, Waiting, OnTheWay, Owes
  <2>3. QED
    BY <1>3, <2>1, <2>2, PublishesNothing DEF AskUnattended, Ask
<1>4. ASSUME NEW o \in Ops, UpdateBegins(o) PROVE SnapshotOwned'
  <2>1. LaunchFitsMode'
    BY <1>0, <1>4 DEF UpdateBegins, Ask, After, EndHere, Onward, ModeFitsAwait, Updaters, opVars
  <2>2. Owner(o) => Owner(o)'
    BY <1>4 DEF UpdateBegins, After, EndHere, Onward, Owner, Queued, Running, Waiting, OnTheWay, Owes, Id, ModeFitsAwait, Updaters, Interactive, Silent, Fresh
  <2>3. QED
    BY <1>4, <2>1, <2>2, PublishesNothing DEF UpdateBegins, After, EndHere
<1>5. ASSUME NEW o \in Ops, UpdateStopped(o) PROVE SnapshotOwned'
  <2>1. LaunchFitsMode'
    BY <1>0, <1>5 DEF UpdateStopped, Ask, After, EndHere, Onward, ModeFitsAwait, Updaters, opVars
  <2>2. Owner(o) => Owner(o)'
    BY <1>5 DEF UpdateStopped, After, EndHere, Onward, Owner, Queued, Running, Waiting, OnTheWay, Owes, Id, ModeFitsAwait, Updaters, Interactive, Silent, Fresh
  <2>3. QED
    BY <1>5, <2>1, <2>2, PublishesNothing DEF UpdateStopped, After, EndHere
<1>6. ASSUME NEW o \in Ops, CredsFound(o) PROVE SnapshotOwned'
  <2>1. LaunchFitsMode'
    BY <1>0, <1>6 DEF CredsFound, Ask, After, EndHere, Onward, ModeFitsAwait, Updaters, opVars
  <2>2. Owner(o) => Owner(o)'
    BY <1>6 DEF CredsFound, After, EndHere, Onward, Owner, Queued, Running, Waiting, OnTheWay, Owes, Id, ModeFitsAwait, Updaters, Interactive, Silent, Fresh
  <2>3. QED
    BY <1>6, <2>1, <2>2, PublishesNothing DEF CredsFound, After, EndHere
<1>7. ASSUME NEW o \in Ops, CredsRefused(o) PROVE SnapshotOwned'
  <2>1. LaunchFitsMode'
    BY <1>0, <1>7 DEF CredsRefused, Ask, After, EndHere, Onward, ModeFitsAwait, Updaters, opVars
  <2>2. CASE mode[o] \in Interactive \cup {"update_start"}
    <3>1. snap'.status \in {"completed", "failed"}
      BY <1>7, <2>2 DEF CredsRefused, Publish, PublishFor
    <3>2. QED
      BY <2>1, <3>1, PublishesEnd
  <2>3. CASE mode[o] \notin Interactive \cup {"update_start"}
    <3>1. UNCHANGED snap
      BY <1>7, <2>3 DEF CredsRefused
    <3>2. Owner(o) => Owner(o)'
      BY <1>7, <2>3, <3>1 DEF CredsRefused, EndHere, Owner, Queued, Running, Waiting, OnTheWay, Owes, Interactive
    <3>3. QED
      BY <1>7, <2>1, <3>1, <3>2, PublishesNothing DEF CredsRefused, EndHere
  <2>4. QED
    BY <2>2, <2>3
<1>8. ASSUME NEW o \in Ops, Unavailable(o) PROVE SnapshotOwned'
  <2>1. LaunchFitsMode'
    BY <1>0, <1>8 DEF Unavailable, Ask, After, EndHere, Onward, ModeFitsAwait, Updaters, opVars
  <2>2. snap'.status \in {"completed", "failed"}
    BY <1>8 DEF Unavailable, Publish, PublishFor
  <2>3. QED
    BY <2>1, <2>2, PublishesEnd
<1>9. ASSUME NEW o \in Ops, Gone(o) PROVE SnapshotOwned'
  <2>1. LaunchFitsMode'
    BY <1>0, <1>9 DEF Gone, Ask, After, EndHere, Onward, ModeFitsAwait, Updaters, opVars
  <2>2. Owner(o) => Owner(o)'
    BY <1>9 DEF Gone, After, EndHere, Onward, Owner, Queued, Running, Waiting, OnTheWay, Owes, Id, ModeFitsAwait, Updaters, Interactive, Silent, Fresh
  <2>3. QED
    BY <1>9, <2>1, <2>2, PublishesNothing DEF Gone, After, EndHere
<1>10. ASSUME NEW o \in Ops, Begins(o) PROVE SnapshotOwned'
  <2>1. LaunchFitsMode'
    BY <1>0, <1>10 DEF Begins, Ask, After, EndHere, Onward, ModeFitsAwait, Updaters, opVars
  <2>2. snap'.status = "running" /\ snap'.op = Id(o)' /\ Owes(o)'
    BY <1>0, <1>10 DEF Begins, Publish, PublishFor, Id, Owes, opVars
  <2>3. QED
    BY <2>1, <2>2, PublishesActive
<1>11. ASSUME NEW o \in Ops, Progress(o) PROVE SnapshotOwned'
  <2>1. LaunchFitsMode'
    BY <1>0, <1>11 DEF Progress, Ask, After, EndHere, Onward, ModeFitsAwait, Updaters, opVars
  <2>2. snap'.status = "running" /\ snap'.op = Id(o)' /\ Owes(o)'
    BY <1>0, <1>11 DEF Progress, Publish, PublishFor, Id, Owes, opVars
  <2>3. QED
    BY <2>1, <2>2, PublishesActive
<1>12. ASSUME NEW o \in Ops, RunEnds(o) PROVE SnapshotOwned'
  <2>1. LaunchFitsMode'
    BY <1>0, <1>12 DEF RunEnds, Ask, After, EndHere, Onward, ModeFitsAwait, Updaters, opVars
  <2>2. snap'.status \in {"completed", "failed"}
    BY <1>12 DEF RunEnds, Publish, PublishFor
  <2>3. QED
    BY <2>1, <2>2, PublishesEnd
<1>13. ASSUME NEW o \in Ops, RunRaises(o) PROVE SnapshotOwned'
  <2>1. LaunchFitsMode'
    BY <1>0, <1>13 DEF RunRaises, Ask, After, EndHere, Onward, ModeFitsAwait, Updaters, opVars
  <2>2. Owner(o) => Owner(o)'
    BY <1>13 DEF RunRaises, After, EndHere, Onward, Owner, Queued, Running, Waiting, OnTheWay, Owes, Id, ModeFitsAwait, Updaters, Interactive, Silent, Fresh
  <2>3. QED
    BY <1>13, <2>1, <2>2, PublishesNothing DEF RunRaises, After, EndHere
<1>14. ASSUME NEW o \in Ops, Challenged(o) PROVE SnapshotOwned'
  <2>1. LaunchFitsMode'
    BY <1>0, <1>14 DEF Challenged, Ask, After, EndHere, Onward, ModeFitsAwait, Updaters, opVars
  <2>2. snap'.status = "waiting" /\ snap'.op = o
    BY <1>14 DEF Challenged, Publish, PublishFor, Id, Interactive
  <2>3. pc'[o] = "guard" /\ waiter'[o] = "pending"
    BY <1>14 DEF Challenged
  <2>4. QED
    BY <2>1, <2>2, <2>3 DEF SnapshotOwned, Owner, Waiting
<1>15. ASSUME NEW o \in Ops, ChallengedUnattended(o) PROVE SnapshotOwned'
  <2>1. LaunchFitsMode'
    BY <1>0, <1>15 DEF ChallengedUnattended, Ask, After, EndHere, Onward, ModeFitsAwait, Updaters, opVars
  <2>2. Owner(o) => Owner(o)'
    BY <1>15 DEF ChallengedUnattended, After, EndHere, Onward, Owner, Queued, Running, Waiting, OnTheWay, Owes, Id, ModeFitsAwait, Updaters, Interactive, Silent, Fresh
  <2>3. QED
    BY <1>15, <2>1, <2>2, PublishesNothing DEF ChallengedUnattended, After, EndHere
<1>16. ASSUME NEW o \in Ops, Submit(o) PROVE SnapshotOwned'
  <2>1. LaunchFitsMode'
    BY <1>0, <1>16 DEF Submit, Ask, After, EndHere, Onward, ModeFitsAwait, Updaters, opVars
  <2>2. pc[o] = "guard" /\ mode[o] \in Interactive
    BY <1>16 DEF Submit, SteamSection, ModeFitsAwait
  <2>3. snap'.status = "running" /\ snap'.op = Id(o)' /\ Owes(o)'
    BY <1>16, <2>2 DEF Submit, Publish, Id, Owes, opVars, Interactive
  <2>4. QED
    BY <2>1, <2>3, PublishesActive
<1>17. ASSUME NEW o \in Ops, Resume(o) PROVE SnapshotOwned'
  <2>1. LaunchFitsMode'
    BY <1>0, <1>17 DEF Resume, Ask, After, EndHere, Onward, ModeFitsAwait, Updaters, opVars
  <2>2. Owner(o) => Owner(o)'
    BY <1>17 DEF Resume, After, EndHere, Onward, Owner, Queued, Running, Waiting, OnTheWay, Owes, Id, ModeFitsAwait, Updaters, Interactive, Silent, Fresh
  <2>3. QED
    BY <1>17, <2>1, <2>2, PublishesNothing DEF Resume, After, EndHere
<1>18. ASSUME NEW o \in Ops, GuardTimeout(o) PROVE SnapshotOwned'
  <2>1. LaunchFitsMode'
    BY <1>0, <1>18 DEF GuardTimeout, Ask, After, EndHere, Onward, ModeFitsAwait, Updaters, opVars
  <2>2. snap'.status \in {"completed", "failed"}
    BY <1>18 DEF GuardTimeout, Publish, PublishFor
  <2>3. QED
    BY <2>1, <2>2, PublishesEnd
<1>19. ASSUME NEW o \in Ops, Saved(o) PROVE SnapshotOwned'
  <2>1. LaunchFitsMode'
    BY <1>0, <1>19 DEF Saved, Ask, After, EndHere, Onward, ModeFitsAwait, Updaters, opVars
  <2>2. snap'.status = "running" /\ snap'.op = Id(o)' /\ Owes(o)'
    BY <1>0, <1>19 DEF Saved, Publish, PublishFor, Id, Owes, opVars
  <2>3. QED
    BY <2>1, <2>2, PublishesActive
<1>20. ASSUME NEW o \in Ops, StartRefused(o) PROVE SnapshotOwned'
  <2>1. LaunchFitsMode'
    BY <1>0, <1>20 DEF StartRefused, Ask, After, EndHere, Onward, ModeFitsAwait, Updaters, opVars
  <2>2. CASE mode[o] = "update_start"
    <3>1. snap'.status \in {"completed", "failed"}
      BY <1>20, <2>2 DEF StartRefused, Publish, PublishFor
    <3>2. QED
      BY <2>1, <3>1, PublishesEnd
  <2>3. CASE mode[o] # "update_start"
    <3>1. UNCHANGED snap /\ mode[o] = "start"
      BY <1>0, <1>20, <2>3 DEF StartRefused
    <3>2. Owner(o) => Owner(o)'
      BY <1>20, <3>1 DEF StartRefused, Owner, Queued, Running, Waiting, OnTheWay, Owes
    <3>3. QED
      BY <1>20, <2>1, <3>1, <3>2, PublishesNothing DEF StartRefused
  <2>4. QED
    BY <2>2, <2>3
<1>21. ASSUME NEW o \in Ops, StartBegins(o) PROVE SnapshotOwned'
  <2>1. LaunchFitsMode'
    BY <1>0, <1>21 DEF StartBegins, Ask, After, EndHere, Onward, ModeFitsAwait, Updaters, opVars
  <2>2. Owner(o) => Owner(o)'
    BY <1>21 DEF StartBegins, After, EndHere, Onward, Owner, Queued, Running, Waiting, OnTheWay, Owes, Id, ModeFitsAwait, Updaters, Interactive, Silent, Fresh
  <2>3. QED
    BY <1>21, <2>1, <2>2, PublishesNothing DEF StartBegins, After, EndHere
<1>22. ASSUME NEW o \in Ops, Launched(o) PROVE SnapshotOwned'
  <2>1. LaunchFitsMode'
    BY <1>0, <1>22 DEF Launched, Ask, After, EndHere, Onward, ModeFitsAwait, Updaters, opVars
  <2>2. CASE mode[o] = "update_start"
    <3>1. snap'.status \in {"completed", "failed"}
      BY <1>22, <2>2 DEF Launched, Publish, PublishFor
    <3>2. QED
      BY <2>1, <3>1, PublishesEnd
  <2>3. CASE mode[o] # "update_start"
    <3>1. UNCHANGED snap /\ mode[o] = "start"
      BY <1>0, <1>22, <2>3 DEF Launched
    <3>2. Owner(o) => Owner(o)'
      BY <1>22, <3>1 DEF Launched, Owner, Queued, Running, Waiting, OnTheWay, Owes
    <3>3. QED
      BY <1>22, <2>1, <3>1, <3>2, PublishesNothing DEF Launched
  <2>4. QED
    BY <2>2, <2>3
<1>23. ASSUME NEW o \in Ops, RaisesEarly(o) PROVE SnapshotOwned'
  <2>1. LaunchFitsMode'
    BY <1>0, <1>23 DEF RaisesEarly, EndHere
  <2>2. Owner(o) => Owner(o)'
    BY <1>23 DEF RaisesEarly, EndHere, Owner, Queued, Running, Waiting, OnTheWay, Owes, Id, Silent, Fresh
  <2>3. QED
    BY <1>23, <2>1, <2>2, PublishesNothing DEF RaisesEarly, EndHere
<1>24. ASSUME NEW o \in Ops, RaisesLate(o) PROVE SnapshotOwned'
  <2>1. LaunchFitsMode'
    BY <1>0, <1>24 DEF RaisesLate, EndHere
  <2>2. Owner(o) => Owner(o)'
    BY <1>24 DEF RaisesLate, EndHere, Owner, Queued, Running, Waiting, OnTheWay, Owes, Id, Silent, Fresh
  <2>3. QED
    BY <1>24, <2>1, <2>2, PublishesNothing DEF RaisesLate, EndHere
<1>25. ASSUME UNCHANGED <<snap, pc, mode, result, waiter>> PROVE SnapshotOwned'
  BY <1>25 DEF SnapshotOwned, Owner, Queued, Running, Waiting, OnTheWay, Owes, Id
<1>26. QED
  BY <1>1, <1>2, <1>3, <1>4, <1>5, <1>6, <1>7, <1>8, <1>9, <1>10, <1>11, <1>12, <1>13, <1>14, <1>15, <1>16, <1>17, <1>18, <1>19, <1>20, <1>21, <1>22, <1>23, <1>24, <1>25 DEF Next, Request, OpStep, ServerStops, vars, opVars

\* The snapshot, by which the start route refuses (server_control.py), claims
\* nothing that is not so: "queued" and "waiting" are of the operation named, and
\* only silent ends, listed in the model, leave it active without one.
THEOREM SnapshotHasOwner == Spec => []ActiveSnapshotHasOwner
<1>1. SnapshotOwned => ActiveSnapshotHasOwner
  BY DEF SnapshotOwned, Owner, Queued, Running, Waiting, OnTheWay, Owes, Id, ActiveSnapshotHasOwner
<1>2. Init => StartSectionHeld
  BY DEF Init, StartSectionHeld, StartHoldsLock, ModeFitsAwait
<1>3. StartSectionHeld => ModeFitsAwait
  BY DEF StartSectionHeld
<1> QED
  BY <1>1, <1>2, <1>3, InitOwned, NextOwned, NextHolds, TypeCorrect, SectionCorrect, PTL DEF Spec

-----------------------------------------------------------------------------
\* The holder of the operation lock runs SteamCMD or waits for a code: with
\* SteamSection, the lock and the section are one thing.
LockIsUsed == \A o \in Ops : opLock = o => pc[o] \in {"run", "guard"}

LEMMA NextUsed == TypeOK /\ LockIsUsed /\ [Next]_vars => LockIsUsed'
<1> SUFFICES ASSUME TypeOK, LockIsUsed, [Next]_vars PROVE LockIsUsed'
  OBVIOUS
<1> USE BoundAssumption DEF Ops
<1>1. ASSUME NEW o \in Ops, AskUpdateStart(o) PROVE LockIsUsed'
  BY <1>1 DEF AskUpdateStart, Ask, Goto, TypeOK, LockIsUsed
<1>2. ASSUME NEW o \in Ops, AskQueued(o) PROVE LockIsUsed'
  BY <1>2 DEF AskQueued, Ask, Goto, TypeOK, LockIsUsed
<1>3. ASSUME NEW o \in Ops, AskUnattended(o) PROVE LockIsUsed'
  BY <1>3 DEF AskUnattended, Ask, Goto, TypeOK, LockIsUsed
<1>4. ASSUME NEW o \in Ops, UpdateBegins(o) PROVE LockIsUsed'
  BY <1>4 DEF UpdateBegins, Goto, TypeOK, LockIsUsed
<1>5. ASSUME NEW o \in Ops, UpdateStopped(o) PROVE LockIsUsed'
  BY <1>5 DEF UpdateStopped, Goto, TypeOK, LockIsUsed
<1>6. ASSUME NEW o \in Ops, CredsFound(o) PROVE LockIsUsed'
  BY <1>6 DEF CredsFound, Goto, TypeOK, LockIsUsed
<1>7. ASSUME NEW o \in Ops, CredsRefused(o) PROVE LockIsUsed'
  BY <1>7 DEF CredsRefused, EndHere, Goto, TypeOK, LockIsUsed
<1>8. ASSUME NEW o \in Ops, Unavailable(o) PROVE LockIsUsed'
  BY <1>8 DEF Unavailable, After, Onward, Goto, TypeOK, LockIsUsed
<1>9. ASSUME NEW o \in Ops, Gone(o) PROVE LockIsUsed'
  BY <1>9 DEF Gone, EndHere, Goto, TypeOK, LockIsUsed
<1>10. ASSUME NEW o \in Ops, Begins(o) PROVE LockIsUsed'
  BY <1>10 DEF Begins, Goto, TypeOK, LockIsUsed
<1>11. ASSUME NEW o \in Ops, Progress(o) PROVE LockIsUsed'
  BY <1>11 DEF Progress, opVars, TypeOK, LockIsUsed
<1>12. ASSUME NEW o \in Ops, RunEnds(o) PROVE LockIsUsed'
  BY <1>12 DEF RunEnds, After, Onward, Goto, Nobody, TypeOK, LockIsUsed
<1>13. ASSUME NEW o \in Ops, RunRaises(o) PROVE LockIsUsed'
  BY <1>13 DEF RunRaises, EndHere, Goto, Nobody, TypeOK, LockIsUsed
<1>14. ASSUME NEW o \in Ops, Challenged(o) PROVE LockIsUsed'
  BY <1>14 DEF Challenged, Goto, TypeOK, LockIsUsed
<1>15. ASSUME NEW o \in Ops, ChallengedUnattended(o) PROVE LockIsUsed'
  BY <1>15 DEF ChallengedUnattended, After, Onward, Goto, Nobody, TypeOK, LockIsUsed
<1>16. ASSUME NEW o \in Ops, Submit(o) PROVE LockIsUsed'
  BY <1>16 DEF Submit, opVars, TypeOK, LockIsUsed
<1>17. ASSUME NEW o \in Ops, Resume(o) PROVE LockIsUsed'
  BY <1>17 DEF Resume, Goto, TypeOK, LockIsUsed
<1>18. ASSUME NEW o \in Ops, GuardTimeout(o) PROVE LockIsUsed'
  BY <1>18 DEF GuardTimeout, After, Onward, Goto, Nobody, TypeOK, LockIsUsed
<1>19. ASSUME NEW o \in Ops, Saved(o) PROVE LockIsUsed'
  BY <1>19 DEF Saved, Goto, TypeOK, LockIsUsed
<1>20. ASSUME NEW o \in Ops, StartRefused(o) PROVE LockIsUsed'
  BY <1>20 DEF StartRefused, Goto, TypeOK, LockIsUsed
<1>21. ASSUME NEW o \in Ops, StartBegins(o) PROVE LockIsUsed'
  BY <1>21 DEF StartBegins, Goto, TypeOK, LockIsUsed
<1>22. ASSUME NEW o \in Ops, Launched(o) PROVE LockIsUsed'
  BY <1>22 DEF Launched, Goto, TypeOK, LockIsUsed
<1>23. ASSUME NEW o \in Ops, RaisesEarly(o) PROVE LockIsUsed'
  BY <1>23 DEF RaisesEarly, EndHere, Goto, TypeOK, LockIsUsed
<1>24. ASSUME NEW o \in Ops, RaisesLate(o) PROVE LockIsUsed'
  BY <1>24 DEF RaisesLate, EndHere, Goto, TypeOK, LockIsUsed
<1>25. CASE ServerStops \/ UNCHANGED vars
  BY <1>25 DEF ServerStops, vars, opVars, LockIsUsed
<1> QED
  BY <1>1, <1>2, <1>3, <1>4, <1>5, <1>6, <1>7, <1>8, <1>9, <1>10, <1>11, <1>12, <1>13, <1>14, <1>15, <1>16, <1>17, <1>18, <1>19, <1>20, <1>21, <1>22, <1>23, <1>24, <1>25
  DEF Next, Request, OpStep

\* What the step of one operation does to the snapshot of the one that runs.
Hidden(o)   == opLock = o /\ opLock' = o /\ snap.op = Id(o) /\ snap'.op # Id(o)
Outsider(p) == pc[p] \in {"idle", "creds", "save", "relaunch", "launch"} /\ pc'[p] # pc[p]

LEMMA HidingStep ==
  ASSUME TypeOK, SteamSection, LockIsUsed, [Next]_vars, NEW o \in Ops, Hidden(o)
  PROVE  \E p \in Ops \ {o} : Outsider(p)
<1> USE BoundAssumption DEF Ops
<1>1. opLock = o /\ opLock' = o /\ o # Nobody /\ pc[o] \in {"run", "guard"}
  BY DEF Hidden, LockIsUsed, Nobody
<1>2. snap' # snap /\ ~(snap'.op = Id(o))
  BY DEF Hidden
<1>3. ASSUME NEW p \in Ops, p # o, Outsider(p) PROVE \E q \in Ops \ {o} : Outsider(q)
  BY <1>3
<1>4. ASSUME NEW p \in Ops, pc[p] \in {"run", "guard"} PROVE p = o
  BY <1>1, <1>4 DEF SteamSection
<1>5. ASSUME NEW p \in Ops, AskUpdateStart(p) \/ AskQueued(p) PROVE p # o /\ Outsider(p)
  BY <1>1, <1>5 DEF AskUpdateStart, AskQueued, Ask, Goto, TypeOK, Outsider
<1>6. ASSUME NEW p \in Ops, CredsRefused(p) PROVE p # o /\ Outsider(p)
  BY <1>1, <1>6 DEF CredsRefused, EndHere, Goto, TypeOK, Outsider
<1>7. ASSUME NEW p \in Ops, Unavailable(p) PROVE p # o /\ Outsider(p)
  BY <1>1, <1>7 DEF Unavailable, After, Onward, Goto, TypeOK, Outsider
<1>8. ASSUME NEW p \in Ops, Saved(p) \/ StartRefused(p) \/ Launched(p) PROVE p # o /\ Outsider(p)
  BY <1>1, <1>8 DEF Saved, StartRefused, Launched, Goto, TypeOK, Outsider
<1>9. ASSUME NEW p \in Ops, Begins(p) PROVE FALSE
  BY <1>1, <1>9 DEF Begins
<1>10. ASSUME NEW p \in Ops, Progress(p) \/ Challenged(p) PROVE FALSE
  <2>1. p = o
    BY <1>4, <1>10 DEF Progress, Challenged
  <2>2. snap'.op = Id(p)
    BY <1>10 DEF Progress, Challenged, PublishFor, Publish
  <2>3. QED
    BY <1>2, <2>1, <2>2
<1>11. ASSUME NEW p \in Ops, RunEnds(p) \/ RunRaises(p) \/ ChallengedUnattended(p) \/ GuardTimeout(p)
       PROVE FALSE
  BY <1>1, <1>11 DEF RunEnds, RunRaises, ChallengedUnattended, GuardTimeout
<1>12. ASSUME NEW p \in Ops, Submit(p) PROVE FALSE
  <2>1. snap'.op = p /\ snap.op = p
    BY <1>12 DEF Submit, Publish
  <2>2. QED
    BY <2>1 DEF Hidden
<1>13. ASSUME NEW p \in Ops, \/ AskUnattended(p) \/ UpdateBegins(p) \/ UpdateStopped(p) \/ CredsFound(p)
                             \/ Gone(p) \/ RaisesEarly(p) \/ Resume(p) \/ StartBegins(p)
                             \/ RaisesLate(p)
       PROVE FALSE
  BY <1>2, <1>13 DEF AskUnattended, UpdateBegins, UpdateStopped, CredsFound, Gone, RaisesEarly, Resume, StartBegins, RaisesLate
<1>14. CASE ServerStops \/ UNCHANGED vars
  BY <1>2, <1>14 DEF ServerStops, vars
<1> QED
  BY <1>3, <1>5, <1>6, <1>7, <1>8, <1>9, <1>10, <1>11, <1>12, <1>13, <1>14 DEF Next, Request, OpStep

\* The snapshot of the operation that runs SteamCMD is replaced from outside the
\* operation lock only: see OnlyOutsidersHideTheRunning.
THEOREM OnlyOutsidersHide == Spec => OnlyOutsidersHideTheRunning
<1> DEFINE Shown == \A o \in Ops : opLock = o /\ opLock' = o /\ snap.op = Id(o) /\ snap'.op # Id(o) =>
       \E p \in Ops \ {o} : /\ pc[p] \in {"idle", "creds", "save", "relaunch", "launch"}
                            /\ pc'[p] # pc[p]
<1>1. Init => LockIsUsed
  BY BoundAssumption DEF Init, LockIsUsed, Nobody, Ops
<1>2. TypeOK /\ SteamSection /\ LockIsUsed /\ [Next]_vars => [Shown]_vars
  BY HidingStep DEF Hidden, Outsider
<1> QED
  BY <1>1, <1>2, NextUsed, TypeCorrect, SectionCorrect, PTL DEF Spec, OnlyOutsidersHideTheRunning

=============================================================================
