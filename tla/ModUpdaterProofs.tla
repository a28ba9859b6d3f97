-------------------------- MODULE ModUpdaterProofs --------------------------
(***************************************************************************)
(* Theorems about ModUpdater, for any projects and versions, any number of *)
(* operations of any kinds and any deaths of the manager: the files and    *)
(* rows of the mods, the cached conflicts, the newest version that all     *)
(* mods support, and the dependencies of the mods.                         *)
(*                                                                         *)
(* The last two are about what a fold and a recursion compute.  That is    *)
(* shown by least counterexamples, with the sets of naturals of            *)
(* WellFoundedInduction in place of an induction scheme; a recursive       *)
(* function is first shown to exist.                                       *)
(***************************************************************************)
EXTENDS ModUpdater, FiniteSetTheorems, WellFoundedInduction, TLAPS

-----------------------------------------------------------------------------
(* The inductive invariant                                                 *)

RowFields  == {"proj", "known", "version", "fv", "avail", "top"}
WorkFields == {"snap", "todo", "targets", "broken", "ids", "v", "at"}

IsRow(m)  == DOMAIN m = RowFields /\ m = [f \in RowFields |-> m[f]]
IsWork(w) == DOMAIN w = WorkFields /\ w = [f \in WorkFields |-> w[f]]

WorksFit == DOMAIN work = Ops /\ work = [r \in Ops |-> work[r]] /\ \A r \in Ops : IsWork(work[r])

\* Ids are given one after the other.
RowsFit ==
  /\ row = [i \in Rows |-> row[i]] /\ \A i \in Rows : IsRow(row[i])
  /\ nextId \in Nat /\ \A i \in Rows : i \in Nat /\ i < nextId

StagesFit == DOMAIN pc = Ops /\ pc = [r \in Ops |-> pc[r]]

Typed == StagesFit /\ WorksFit /\ RowsFit

\* An operation that is at the row that it has read.
Holding(r) ==
  pc[r] \in {"unlink", "erase", "download", "store"} \/ (pc[r] = "versions" /\ work[r].snap # <<>>)

Shaped(r) ==
  /\ Holding(r) => DOMAIN work[r].snap = {Snap(r)}
  /\ pc[r] = "entries" => work[r].todo \in Seq(Pack)
  /\ pc[r] \in {"entries", "register"} => work[r].ids \subseteq Pack

\* The row that an operation has read keeps its project, or is gone for good.
Aimed(r) ==
  Holding(r) => /\ Snap(r) \in Nat /\ Snap(r) < nextId
                /\ Snap(r) \in Rows => row[Snap(r)].proj = work[r].snap[Snap(r)].proj

\* Two operations at one project have tangled it.
AllApart == \A r, q \in Ops : r # q => Touched(r) \cap Touched(q) \subseteq tangled

OneRow(p) == \A i, j \in Rows : row[i].proj = p /\ row[j].proj = p => i = j

\* A row without a file is offered an update, or about to go; a file without a
\* row waits for it, or was left by a failure.
Erasing(p) == \E r \in Ops : pc[r] = "erase" /\ p \in Touched(r)

Placed(r, p, v) ==
  \/ pc[r] \in {"commit", "store"} /\ p \in Touched(r) /\ v = work[r].v
  \/ pc[r] \in {"entries", "register"} /\ p \in work[r].ids /\ v = 1

HasFile(p) ==
  \A i \in Rows : row[i].proj = p => File(row[i]) \in files \cup left \/ row[i].avail \/ Erasing(p)

HasRow(p) ==
  \A v \in Versions : <<p, v>> \in files \ left =>
    \/ \E i \in Rows : row[i].proj = p /\ row[i].fv = v
    \/ \E r \in Ops : Placed(r, p, v)

\* The row that an operation has read is as it was; an update that has removed the
\* old file has left none.
Working(r, p) ==
  /\ Holding(r) => /\ Snap(r) \in Rows /\ row[Snap(r)].proj = p
                   /\ row[Snap(r)].fv = work[r].snap[Snap(r)].fv
                   /\ pc[r] \in {"versions", "download", "store"} => row[Snap(r)].avail
  /\ pc[r] \in {"download", "erase"} => \A v \in Versions : <<p, v>> \notin files \ left
  /\ pc[r] = "store" => \A v \in Versions : <<p, v>> \in files \ left => v = work[r].v
  /\ pc[r] \in {"commit", "store"} => <<p, work[r].v>> \in files
  /\ pc[r] \in {"entries", "register"} /\ p \in work[r].ids => <<p, 1>> \in files

Fits(p) ==
  OneRow(p) /\ HasFile(p) /\ HasRow(p) /\ \A r \in Ops : p \in Touched(r) => Working(r, p)

Clean == Projects \ (twin \cup tangled)

ModsInv ==
  /\ Typed /\ AllApart /\ \A r \in Ops : Shaped(r) /\ Aimed(r)
  /\ \A p \in Clean : Fits(p)

-----------------------------------------------------------------------------
(* What a step does to the operations                                      *)

Busy == {"place", "commit", "download", "store", "unlink", "erase", "entries", "register"}

\* An operation that is at no project.
Free(r) == pc[r] \notin Busy /\ (pc[r] = "versions" => work[r].snap = <<>>)

\* Operation r takes its step alone.
Turns(r) ==
  /\ StagesFit' /\ WorksFit'
  /\ \A q \in Ops \ {r} : pc'[q] = pc[q] /\ work'[q] = work[q]

LEMMA FreeTouches == ASSUME NEW r, Free(r) PROVE Touched(r) = {} /\ ~Holding(r) /\ Shaped(r)
BY DEF Free, Touched, Holding, Busy, Shaped

LEMMA NoWorkFits == IsWork(NoWork) /\ NoWork.snap = <<>>
BY DEF IsWork, WorkFields, NoWork

LEMMA WorkChanges ==
  ASSUME NEW w, IsWork(w), NEW x, NEW y, NEW z
  PROVE  /\ IsWork([w EXCEPT !.snap = x]) /\ IsWork([w EXCEPT !.v = x]) /\ IsWork([w EXCEPT !.ids = x])
         /\ IsWork([w EXCEPT !.targets = x]) /\ IsWork([w EXCEPT !.todo = x])
         /\ IsWork([w EXCEPT !.todo = x, !.broken = y]) /\ IsWork([w EXCEPT !.targets = x, !.todo = y])
         /\ IsWork([w EXCEPT !.ids = x, !.snap = y]) /\ IsWork([w EXCEPT !.todo = x, !.ids = y])
         /\ IsWork([w EXCEPT !.targets = x, !.at = y]) /\ IsWork([w EXCEPT !.todo = x, !.broken = y, !.at = z])
         /\ IsWork([w EXCEPT !.targets = x, !.todo = y, !.at = z])
         /\ IsWork([w EXCEPT !.snap = x, !.v = y, !.broken = z])
BY DEF IsWork, WorkFields

LEMMA Turning ==
  ASSUME Typed, NEW r \in Ops, NEW next, NEW w, IsWork(w), Goto(r, next), Work(r, w)
  PROVE  Turns(r) /\ pc'[r] = next /\ work'[r] = w
BY DEF Typed, StagesFit, WorksFit, Goto, Work, Turns

LEMMA Keeping ==
  ASSUME Typed, NEW r \in Ops, NEW next, Goto(r, next), UNCHANGED work
  PROVE  Turns(r) /\ pc'[r] = next /\ work'[r] = work[r]
BY DEF Typed, StagesFit, WorksFit, IsWork, Goto, Turns

LEMMA Staying ==
  ASSUME Typed, NEW r \in Ops, NEW w, IsWork(w), UNCHANGED pc, Work(r, w)
  PROVE  Turns(r) /\ pc'[r] = pc[r] /\ work'[r] = w
BY DEF Typed, StagesFit, WorksFit, Work, Turns

LEMMA Ending ==
  ASSUME Typed, NEW r \in Ops, End(r)
  PROVE  Turns(r) /\ Free(r)' /\ pc'[r] = "ended"
<1>1. Turns(r) /\ pc'[r] = "ended"
  BY NoWorkFits, Turning DEF End
<1>2. QED
  BY <1>1 DEF Free, Busy

LEMMA Advancing ==
  ASSUME Typed, NEW r \in Ops, NEW b, Advance(r, b)
  PROVE  Turns(r) /\ Free(r)' /\ pc'[r] \in {"fetch", "resolve", "ended"}
<1>0. IsWork(work[r])
  BY DEF Typed, WorksFit
<1>1. CASE Len(work[r].todo) > 1
  <2> DEFINE w == [work[r] EXCEPT !.todo = Tail(work[r].todo), !.broken = b]
  <2>1. Goto(r, "fetch") /\ Work(r, w)
    BY <1>1 DEF Advance
  <2>2. IsWork(w)
    BY <1>0, WorkChanges
  <2> HIDE DEF w
  <2>3. Turns(r) /\ pc'[r] = "fetch"
    BY <2>1, <2>2, Turning
  <2>4. QED
    BY <2>3 DEF Free, Busy
<1>2. CASE ~(Len(work[r].todo) > 1) /\ Len(work[r].targets) > 1
  <2> DEFINE w == [work[r] EXCEPT !.targets = Tail(work[r].targets), !.todo = <<>>, !.at = published]
  <2>1. Goto(r, "resolve") /\ Work(r, w)
    BY <1>2 DEF Advance
  <2>2. IsWork(w)
    BY <1>0, WorkChanges
  <2> HIDE DEF w
  <2>3. Turns(r) /\ pc'[r] = "resolve"
    BY <2>1, <2>2, Turning
  <2>4. QED
    BY <2>3 DEF Free, Busy
<1>3. CASE ~(Len(work[r].todo) > 1) /\ ~(Len(work[r].targets) > 1)
  BY <1>3, Ending DEF Advance
<1>4. QED
  BY <1>1, <1>2, <1>3

LEMMA NextUpdating ==
  ASSUME Typed, NEW r \in Ops, NextUpdate(r)
  PROVE  Turns(r) /\ Free(r)'
<1>1. CASE work[r].ids = {}
  BY <1>1, Ending DEF NextUpdate
<1>2. CASE work[r].ids # {}
  <2> DEFINE w == [NoWork EXCEPT !.ids = work[r].ids]
  <2>1. IsWork(w) /\ w.snap = <<>>
    BY DEF IsWork, WorkFields, NoWork
  <2>2. Goto(r, "versions") /\ Work(r, w)
    BY <1>2 DEF NextUpdate
  <2> HIDE DEF w
  <2>3. Turns(r) /\ pc'[r] = "versions" /\ work'[r] = w
    BY <2>1, <2>2, Turning
  <2>4. QED
    BY <2>1, <2>3 DEF Free, Busy
<1>3. QED
  BY <1>1, <1>2

LEMMA Asking ==
  ASSUME NEW r \in Ops, NEW k, Asked(r, k)
  PROVE  Free(r)
BY DEF Asked, Free, Busy

LEMMA Going ==
  ASSUME Typed, NEW r \in Ops, NEW next, NEW w, IsWork(w), Goto(r, next), Work(r, w),
         next \notin Busy \cup {"versions"}
  PROVE  Turns(r) /\ Free(r)'
<1>1. Turns(r) /\ pc'[r] = next
  BY Turning
<1>2. QED
  BY <1>1 DEF Free

\* The steps of an operation that is at no project, before and after.
Quiet(r) ==
  \/ Install(r) \/ Apply(r) \/ ResolveTarget(r) \/ Update(r) \/ Check(r) \/ Answers(r) \/ Flags(r)
  \/ Conflicts(r) \/ Metadata(r) \/ Save(r) \/ FindNewest(r) \/ Supported(r) \/ StoreNewest(r)
  \/ Hash(r) \/ Hashes(r)

LEMMA QuietTurns ==
  ASSUME Typed, NEW r \in Ops, Quiet(r)
  PROVE  Turns(r) /\ Free(r) /\ Free(r)'
<1>0. /\ IsWork(work[r]) /\ IsWork(NoWork)
      /\ "resolve" \notin Busy \cup {"versions"} /\ "answers" \notin Busy \cup {"versions"}
      /\ "fetch" \notin Busy \cup {"versions"} /\ "hashes" \notin Busy \cup {"versions"}
      /\ "flags" \notin Busy \cup {"versions"} /\ "metadata" \notin Busy \cup {"versions"}
      /\ "supported" \notin Busy \cup {"versions"} /\ "newest" \notin Busy \cup {"versions"}
      /\ "ended" \notin Busy \cup {"versions"}
  BY NoWorkFits DEF Typed, WorksFit, Busy
<1>1. CASE Install(r)
  <2>1. PICK p \in Projects : Work(r, [NoWork EXCEPT !.targets = <<p>>, !.at = published])
    BY <1>1 DEF Install
  <2>2. IsWork([NoWork EXCEPT !.targets = <<p>>, !.at = published])
    BY <1>0, WorkChanges
  <2>3. QED
    BY <1>0, <1>1, <2>1, <2>2, Going, Asking DEF Install
<1>2. CASE Apply(r)
  <2>1. IsWork([NoWork EXCEPT !.targets = profile, !.at = published])
    BY <1>0, WorkChanges
  <2>2. QED
    BY <1>0, <1>2, <2>1, Going, Asking DEF Apply
<1>3. CASE ResolveTarget(r)
  <2>1. PICK x, y : Work(r, [work[r] EXCEPT !.todo = x, !.broken = FALSE, !.at = y])
    BY <1>3 DEF ResolveTarget
  <2>2. IsWork([work[r] EXCEPT !.todo = x, !.broken = FALSE, !.at = y])
    BY <1>0, WorkChanges
  <2>3. Free(r)
    BY <1>3 DEF ResolveTarget, Free, Busy
  <2>4. QED
    BY <1>0, <1>3, <2>1, <2>2, <2>3, Going DEF ResolveTarget
<1>4. CASE Update(r)
  <2>1. PICK x : Work(r, [NoWork EXCEPT !.ids = x])
    BY <1>4 DEF Update
  <2> DEFINE w == [NoWork EXCEPT !.ids = x]
  <2>2. IsWork(w) /\ w.snap = <<>>
    BY <1>0, WorkChanges DEF NoWork
  <2>3. Goto(r, "versions") /\ Work(r, w) /\ Free(r)
    BY <1>4, <2>1, Asking DEF Update
  <2> HIDE DEF w
  <2>4. Turns(r) /\ pc'[r] = "versions" /\ work'[r] = w
    BY <2>2, <2>3, Turning
  <2>5. QED
    BY <2>2, <2>3, <2>4 DEF Free, Busy
<1>5. CASE Check(r)
  <2>1. PICK x : Work(r, [NoWork EXCEPT !.snap = x])
    BY <1>5 DEF Check
  <2>2. IsWork([NoWork EXCEPT !.snap = x])
    BY <1>0, WorkChanges
  <2>3. QED
    BY <1>0, <1>5, <2>1, <2>2, Going, Asking DEF Check
<1>6. CASE Answers(r)
  <2>1. PICK x : Work(r, [work[r] EXCEPT !.snap = x])
    BY <1>6 DEF Answers
  <2>2. IsWork([work[r] EXCEPT !.snap = x])
    BY <1>0, WorkChanges
  <2>3. Free(r)
    BY <1>6 DEF Answers, Free, Busy
  <2>4. QED
    BY <1>0, <1>6, <2>1, <2>2, <2>3, Going DEF Answers
<1>7. CASE Flags(r)
  <2>1. Free(r)
    BY <1>7 DEF Flags, Free, Busy
  <2>2. QED
    BY <1>7, <2>1, Ending DEF Flags
<1>8. CASE Conflicts(r)
  <2>1. PICK x : Work(r, [NoWork EXCEPT !.ids = x])
    BY <1>8 DEF Conflicts
  <2>2. IsWork([NoWork EXCEPT !.ids = x])
    BY <1>0, WorkChanges
  <2>3. QED
    BY <1>0, <1>8, <2>1, <2>2, Going, Asking DEF Conflicts
<1>9. CASE Metadata(r)
  <2>1. Free(r)
    BY <1>9 DEF Metadata, Free, Busy
  <2>2. QED
    BY <1>9, <2>1, Ending DEF Metadata
<1>10. CASE Save(r)
  <2>1. Turns(r) /\ pc'[r] = "ended"
    BY <1>10, Keeping DEF Save
  <2>2. QED
    BY <1>10, <2>1, Asking DEF Save, Free, Busy
<1>11. CASE FindNewest(r)
  <2>1. PICK x : Work(r, [NoWork EXCEPT !.snap = x])
    BY <1>11 DEF FindNewest
  <2>2. IsWork([NoWork EXCEPT !.snap = x])
    BY <1>0, WorkChanges
  <2>3. QED
    BY <1>0, <1>11, <2>1, <2>2, Going, Asking DEF FindNewest
<1>12. CASE Supported(r)
  <2>1. PICK x, y, z : Work(r, [work[r] EXCEPT !.snap = x, !.v = y, !.broken = z])
    BY <1>12 DEF Supported
  <2>2. IsWork([work[r] EXCEPT !.snap = x, !.v = y, !.broken = z])
    BY <1>0, WorkChanges
  <2>3. Free(r)
    BY <1>12 DEF Supported, Free, Busy
  <2>4. Goto(r, "newest")
    BY <1>12 DEF Supported
  <2>5. QED
    BY <1>0, <2>1, <2>2, <2>3, <2>4, Going
<1>13. CASE StoreNewest(r)
  <2>1. Free(r) /\ End(r)
    BY <1>13 DEF StoreNewest, Free, Busy
  <2>2. QED
    BY <2>1, Ending
<1>14. CASE Hash(r)
  <2>1. PICK x : Work(r, [NoWork EXCEPT !.snap = x])
    BY <1>14 DEF Hash
  <2>2. IsWork([NoWork EXCEPT !.snap = x])
    BY <1>0, WorkChanges
  <2>3. QED
    BY <1>0, <1>14, <2>1, <2>2, Going, Asking DEF Hash
<1>15. CASE Hashes(r)
  <2>1. Free(r)
    BY <1>15 DEF Hashes, Free, Busy
  <2>2. CASE End(r)
    BY <2>1, <2>2, Ending
  <2>3. CASE ~End(r)
    <3>1. PICK x : Work(r, [NoWork EXCEPT !.snap = x]) /\ Goto(r, "answers")
      BY <1>15, <2>3 DEF Hashes
    <3>2. IsWork([NoWork EXCEPT !.snap = x])
      BY <1>0, WorkChanges
    <3>3. QED
      BY <1>0, <2>1, <3>1, <3>2, Going
  <2>4. QED
    BY <2>2, <2>3
<1>16. QED
  BY <1>1, <1>2, <1>3, <1>4, <1>5, <1>6, <1>7, <1>8, <1>9, <1>10, <1>11, <1>12, <1>13, <1>14, <1>15
     DEF Quiet

\* What they do to the rows: flags of updates are raised, projects become known.
RowsStay ==
  /\ RowsFit' /\ Rows' = Rows /\ nextId' = nextId
  /\ \A i \in Rows : /\ row'[i].proj = row[i].proj /\ row'[i].fv = row[i].fv
                     /\ row[i].avail => row'[i].avail

LEMMA RowsUnchanged == ASSUME RowsFit, UNCHANGED <<row, nextId>> PROVE RowsStay
BY DEF RowsFit, RowsStay, Rows, IsRow

LEMMA RowChange ==
  ASSUME NEW m, IsRow(m), NEW x, NEW n,
         n = m \/ n = [m EXCEPT !.avail = TRUE] \/ n = [m EXCEPT !.top = x]
  PROVE  IsRow(n) /\ n.proj = m.proj /\ n.fv = m.fv /\ (m.avail => n.avail)
<1>1. CASE n = m
  BY <1>1
<1>2. CASE n = [m EXCEPT !.avail = TRUE]
  BY <1>2 DEF IsRow, RowFields
<1>3. CASE n = [m EXCEPT !.top = x]
  BY <1>3 DEF IsRow, RowFields
<1>4. QED
  BY <1>1, <1>2, <1>3

LEMMA RowsWritten ==
  ASSUME RowsFit, nextId' = nextId, DOMAIN row' = Rows, row' = [i \in DOMAIN row' |-> row'[i]],
         \A i \in Rows : /\ IsRow(row'[i]) /\ row'[i].proj = row[i].proj /\ row'[i].fv = row[i].fv
                         /\ row[i].avail => row'[i].avail
  PROVE  RowsStay
BY DEF RowsFit, RowsStay, Rows

LEMMA QuietRows ==
  ASSUME Typed, NEW r \in Ops, Quiet(r)
  PROVE  RowsStay /\ UNCHANGED <<files, left, twin, tangled>>
<1>0. RowsFit /\ \A i \in Rows : IsRow(row[i])
  BY DEF Typed, RowsFit
<1>1. UNCHANGED <<files, left, twin, tangled>>
  BY DEF Quiet, Install, Apply, ResolveTarget, Update, Check, Answers, Flags, Conflicts, Metadata, Save,
         FindNewest, Supported, StoreNewest, Hash, Hashes, histVars
<1>2. CASE Flags(r)
  <2>1. nextId' = nextId /\ (UNCHANGED row \/
          row' = [i \in Rows |-> IF i \in DOMAIN work[r].snap /\ work[r].snap[i].avail
                                   THEN [row[i] EXCEPT !.avail = TRUE] ELSE row[i]])
    BY <1>2 DEF Flags
  <2>2. CASE UNCHANGED row
    BY <1>0, <1>1, <2>1, <2>2, RowsUnchanged
  <2>3. CASE ~UNCHANGED row
    <3>1. DOMAIN row' = Rows /\ row' = [i \in DOMAIN row' |-> row'[i]]
      BY <2>1, <2>3
    <3>2. ASSUME NEW i \in Rows
          PROVE  /\ IsRow(row'[i]) /\ row'[i].proj = row[i].proj /\ row'[i].fv = row[i].fv
                 /\ row[i].avail => row'[i].avail
      <4>1. row'[i] = row[i] \/ row'[i] = [row[i] EXCEPT !.avail = TRUE]
        BY <2>1, <2>3
      <4>2. QED
        BY <1>0, <4>1, RowChange
    <3>3. QED
      BY <1>0, <1>1, <2>1, <3>1, <3>2, RowsWritten
  <2>4. QED
    BY <2>2, <2>3
<1>3. CASE StoreNewest(r)
  <2>1. /\ nextId' = nextId
        /\ row' = [i \in Rows |->
                     IF {j \in DOMAIN work[r].snap : work[r].snap[j].proj = row[i].proj} = {} THEN row[i]
                     ELSE [row[i] EXCEPT !.top = work[r].snap[
                       Max({j \in DOMAIN work[r].snap : work[r].snap[j].proj = row[i].proj})].top]]
    BY <1>3 DEF StoreNewest
  <2>2. DOMAIN row' = Rows /\ row' = [i \in DOMAIN row' |-> row'[i]]
    BY <2>1
  <2>3. ASSUME NEW i \in Rows
        PROVE  /\ IsRow(row'[i]) /\ row'[i].proj = row[i].proj /\ row'[i].fv = row[i].fv
               /\ row[i].avail => row'[i].avail
    <3>1. \E x : row'[i] = row[i] \/ row'[i] = [row[i] EXCEPT !.top = x]
      BY <2>1
    <3>2. QED
      BY <1>0, <3>1, RowChange
  <2>4. QED
    BY <1>0, <1>1, <2>1, <2>2, <2>3, RowsWritten
<1>4. CASE Hashes(r)
  <2>1. nextId' = nextId
    BY <1>4 DEF Hashes
  <2>2. CASE UNCHANGED row
    BY <1>0, <1>1, <2>1, <2>2, RowsUnchanged
  <2>3. CASE ~UNCHANGED row
    <3>1. PICK found \in SUBSET DOMAIN work[r].snap :
            row' = [i \in Rows |-> IF i \in found THEN [row[i] EXCEPT !.known = TRUE, !.version = row[i].fv]
                                   ELSE row[i]]
      BY <1>4, <2>3 DEF Hashes
    <3>2. DOMAIN row' = Rows /\ row' = [i \in DOMAIN row' |-> row'[i]]
      BY <3>1
    <3>3. ASSUME NEW i \in Rows
          PROVE  /\ IsRow(row'[i]) /\ row'[i].proj = row[i].proj /\ row'[i].fv = row[i].fv
                 /\ row[i].avail => row'[i].avail
      <4>1. PICK x, y : row'[i] = row[i] \/ row'[i] = [row[i] EXCEPT !.known = x, !.version = y]
        BY <3>1
      <4>2. IsRow(row[i])
        BY <1>0
      <4>3. CASE row'[i] = row[i]
        BY <4>2, <4>3
      <4>4. CASE row'[i] = [row[i] EXCEPT !.known = x, !.version = y]
        BY <4>2, <4>4 DEF IsRow, RowFields
      <4>5. QED
        BY <4>1, <4>3, <4>4
    <3>4. QED
      BY <1>0, <1>1, <2>1, <3>2, <3>3, RowsWritten
  <2>4. QED
    BY <2>2, <2>3
<1>5. CASE ~Flags(r) /\ ~StoreNewest(r) /\ ~Hashes(r)
  <2>1. UNCHANGED <<row, nextId>>
    BY <1>5 DEF Quiet, Install, Apply, ResolveTarget, Update, Check, Answers, Conflicts, Metadata, Save,
           FindNewest, Supported, Hash, dbVars
  <2>2. QED
    BY <1>0, <1>1, <2>1, RowsUnchanged
<1>6. QED
  BY <1>2, <1>3, <1>4, <1>5

-----------------------------------------------------------------------------
(* Projects that a step does not touch                                     *)

SameRows(p) ==
  /\ \A i : (i \in Rows /\ row[i].proj = p) <=> (i \in Rows' /\ row'[i].proj = p)
  /\ \A i \in Rows : row[i].proj = p => /\ row'[i].fv = row[i].fv
                                        /\ row[i].avail => row'[i].avail

SameFiles(p) ==
  \A v : (<<p, v>> \in files' <=> <<p, v>> \in files) /\ (<<p, v>> \in left' <=> <<p, v>> \in left)

LEMMA StayMeansSame == ASSUME RowsStay, NEW p PROVE SameRows(p)
BY DEF RowsStay, SameRows

LEMMA OthersTouch ==
  ASSUME NEW r, Turns(r), NEW q \in Ops \ {r}
  PROVE  /\ Touched(q)' = Touched(q) /\ (Holding(q)' <=> Holding(q)) /\ (Shaped(q)' <=> Shaped(q))
         /\ Snap(q)' = Snap(q) /\ pc'[q] = pc[q] /\ work'[q] = work[q]
BY DEF Turns, Touched, Holding, Shaped, Snap

\* Sets of projects as sequences hold each of them.
LEMMA Listing ==
  ASSUME NEW S, IsFiniteSet(S)
  PROVE  SetToSeq(S) \in [1 .. Cardinality(S) -> S] /\ IsInjective(SetToSeq(S)) /\ Range(SetToSeq(S)) = S
<1>1. Cardinality(S) \in Nat /\ ExistsBijection(1 .. Cardinality(S), S)
  BY FS_CardinalityType
<1>2. \E f \in [1 .. Cardinality(S) -> S] : IsInjective(f)
  BY <1>1 DEF ExistsBijection, Bijection, Injection
<1>3. SetToSeq(S) \in [1 .. Cardinality(S) -> S] /\ IsInjective(SetToSeq(S))
  BY <1>2 DEF SetToSeq
<1>4. IsFiniteSet(1 .. Cardinality(S)) /\ Cardinality(1 .. Cardinality(S)) = Cardinality(S)
  BY <1>1, FS_Interval
<1>5. SetToSeq(S) \in Surjection(1 .. Cardinality(S), S)
  BY <1>3, <1>4, FS_Injection DEF Injection
<1>6. QED
  BY <1>3, <1>5 DEF Surjection, Range


\* A file that waits for its row belongs to a project of the operation.
LEMMA PlacedTouches ==
  ASSUME NEW q \in Ops, Shaped(q), NEW p, NEW v, Placed(q, p, v)
  PROVE  p \in Touched(q)
<1>1. CASE pc[q] \in {"commit", "store"}
  BY <1>1 DEF Placed
<1>2. CASE pc[q] \in {"entries", "register"} /\ p \in work[q].ids
  BY <1>2 DEF Shaped, Touched
<1>3. QED
  BY <1>1, <1>2 DEF Placed

\* An untangled project is that of one operation.
LEMMA Alone ==
  ASSUME AllApart, NEW r \in Ops, NEW p \in Touched(r), p \notin tangled, NEW q \in Ops, q # r
  PROVE  p \notin Touched(q)
BY DEF AllApart

\* What other operations have read of p stays as it is.
LEMMA OthersWork ==
  ASSUME NEW r, Turns(r), NEW q \in Ops \ {r}, NEW p, SameRows(p), SameFiles(p), Working(q, p)
  PROVE  Working(q, p)'
<1>1. /\ Touched(q)' = Touched(q) /\ (Holding(q)' <=> Holding(q)) /\ Snap(q)' = Snap(q)
      /\ pc'[q] = pc[q] /\ work'[q] = work[q]
  BY OthersTouch
<1>2. ASSUME Holding(q)
      PROVE  /\ Snap(q) \in Rows' /\ row'[Snap(q)].proj = p
             /\ row'[Snap(q)].fv = work[q].snap[Snap(q)].fv
             /\ pc[q] \in {"versions", "download", "store"} => row'[Snap(q)].avail
  BY <1>2 DEF Working, SameRows
<1>3. \A v : (<<p, v>> \in files' <=> <<p, v>> \in files) /\ (<<p, v>> \in left' <=> <<p, v>> \in left)
  BY DEF SameFiles
<1>4. QED
  BY <1>1, <1>2, <1>3 DEF Working

\* Rows and files of p are as before, and no operation at p has begun or ended.
LEMMA Lasting ==
  ASSUME NEW p, OneRow(p), HasFile(p), HasRow(p), SameRows(p), SameFiles(p),
         Erasing(p) => Erasing(p)',
         \A v \in Versions : (\E q \in Ops : Placed(q, p, v)) => (\E q \in Ops : Placed(q, p, v)')
  PROVE  OneRow(p)' /\ HasFile(p)' /\ HasRow(p)'
<1>1. OneRow(p)'
  BY DEF OneRow, SameRows
<1>2. HasFile(p)'
  <2> SUFFICES ASSUME NEW i \in Rows', row'[i].proj = p
               PROVE  File(row'[i]) \in files' \cup left' \/ row'[i].avail \/ Erasing(p)'
    BY DEF HasFile
  <2>1. /\ i \in Rows /\ row[i].proj = p /\ row'[i].fv = row[i].fv
        /\ row[i].avail => row'[i].avail
    BY DEF SameRows
  <2>2. File(row[i]) \in files \cup left \/ row[i].avail \/ Erasing(p)
    BY <2>1 DEF HasFile
  <2>3. File(row[i]) \in files \cup left => File(row'[i]) \in files' \cup left'
    BY <2>1 DEF File, SameFiles
  <2>4. QED
    BY <2>1, <2>2, <2>3
<1>3. HasRow(p)'
  <2> SUFFICES ASSUME NEW v \in Versions, <<p, v>> \in files' \ left'
               PROVE  \/ \E i \in Rows' : row'[i].proj = p /\ row'[i].fv = v
                      \/ \E q \in Ops : Placed(q, p, v)'
    BY DEF HasRow, Versions
  <2>1. \/ \E i \in Rows : row[i].proj = p /\ row[i].fv = v
        \/ \E q \in Ops : Placed(q, p, v)
    BY DEF HasRow, SameFiles
  <2>2. CASE \E i \in Rows : row[i].proj = p /\ row[i].fv = v
    BY <2>2 DEF SameRows
  <2>3. QED
    BY <2>1, <2>2
<1>4. QED
  BY <1>1, <1>2, <1>3

LEMMA PlacedStays ==
  ASSUME NEW r, Turns(r), NEW q \in Ops \ {r}, NEW p, NEW v, Placed(q, p, v)
  PROVE  Placed(q, p, v)'
<1>1. Touched(q)' = Touched(q) /\ pc'[q] = pc[q] /\ work'[q] = work[q]
  BY OthersTouch
<1>2. QED
  BY <1>1 DEF Placed

\* A project that the operation was not at, and may be at now.
LEMMA Elsewhere ==
  ASSUME NEW r \in Ops, Turns(r), \A q \in Ops : Shaped(q),
         NEW p, p \notin Touched(r), Fits(p), SameRows(p), SameFiles(p),
         p \in Touched(r)' => Working(r, p)'
  PROVE  Fits(p)'
<1>1. Erasing(p) => Erasing(p)'
  <2> SUFFICES ASSUME NEW q \in Ops, pc[q] = "erase", p \in Touched(q) PROVE Erasing(p)'
    BY DEF Erasing
  <2>1. q # r
    OBVIOUS
  <2>2. Touched(q)' = Touched(q) /\ pc'[q] = pc[q]
    BY <2>1, OthersTouch
  <2>3. QED
    BY <2>2 DEF Erasing
<1>2. ASSUME NEW v \in Versions, \E q \in Ops : Placed(q, p, v)
      PROVE  \E q \in Ops : Placed(q, p, v)'
  <2>1. PICK q \in Ops : Placed(q, p, v)
    BY <1>2
  <2>2. q # r
    BY <2>1, PlacedTouches
  <2>3. QED
    BY <2>1, <2>2, PlacedStays
<1>3. OneRow(p)' /\ HasFile(p)' /\ HasRow(p)'
  BY <1>1, <1>2, Lasting DEF Fits
<1>4. ASSUME NEW q \in Ops, p \in Touched(q)' PROVE Working(q, p)'
  <2>1. CASE q = r
    BY <1>4, <2>1
  <2>2. CASE q # r
    <3>1. p \in Touched(q)
      BY <1>4, <2>2, OthersTouch
    <3>2. Working(q, p)
      BY <3>1 DEF Fits
    <3>3. QED
      BY <2>2, <3>2, OthersWork
  <2>3. QED
    BY <2>1, <2>2
<1>5. QED
  BY <1>3, <1>4 DEF Fits

\* The project of an operation that leaves its rows and files.
LEMMA Leaving ==
  ASSUME NEW r \in Ops, Turns(r), \A q \in Ops : Shaped(q),
         NEW p, Fits(p), SameRows(p), SameFiles(p),
         pc[r] \notin {"commit", "store", "entries", "register", "erase"}
  PROVE  OneRow(p)' /\ HasFile(p)' /\ HasRow(p)'
<1>1. Erasing(p) => Erasing(p)'
  <2> SUFFICES ASSUME NEW q \in Ops, pc[q] = "erase", p \in Touched(q) PROVE Erasing(p)'
    BY DEF Erasing
  <2>1. q # r
    OBVIOUS
  <2>2. Touched(q)' = Touched(q) /\ pc'[q] = pc[q]
    BY <2>1, OthersTouch
  <2>3. QED
    BY <2>2 DEF Erasing
<1>2. ASSUME NEW v \in Versions, \E q \in Ops : Placed(q, p, v)
      PROVE  \E q \in Ops : Placed(q, p, v)'
  <2>1. PICK q \in Ops : Placed(q, p, v)
    BY <1>2
  <2>2. q # r
    BY <2>1 DEF Placed
  <2>3. QED
    BY <2>1, <2>2, PlacedStays
<1>3. QED
  BY <1>1, <1>2, Lasting DEF Fits

\* No id is given twice.
Following ==
  nextId' >= nextId /\ \A i \in Rows' : i < nextId => i \in Rows /\ row'[i].proj = row[i].proj

LEMMA OthersAim ==
  ASSUME RowsFit, RowsFit', NEW r, Turns(r), NEW q \in Ops \ {r}, Following, Aimed(q)
  PROVE  Aimed(q)'
<1>1. (Holding(q)' <=> Holding(q)) /\ Snap(q)' = Snap(q) /\ work'[q] = work[q]
  BY OthersTouch
<1>2. nextId \in Nat /\ nextId' \in Nat
  BY DEF RowsFit
<1>3. QED
  BY <1>1, <1>2 DEF Aimed, Following

\* What has to be shown of the step of an operation.
LEMMA Stepping ==
  ASSUME ModsInv, NEW r \in Ops, Turns(r), RowsFit', Following, Shaped(r)', Aimed(r)',
         twin \subseteq twin', tangled \subseteq tangled',
         \A q \in Ops \ {r} : (Touched(r)' \ Touched(r)) \cap Touched(q) \subseteq tangled',
         \A p \in Clean \ Touched(r) : p \notin twin' \cup tangled' =>
           SameRows(p) /\ SameFiles(p) /\ (p \in Touched(r)' => Working(r, p)'),
         \A p \in Clean \cap Touched(r) : p \notin twin' \cup tangled' =>
           OneRow(p)' /\ HasFile(p)' /\ HasRow(p)' /\ (p \in Touched(r)' => Working(r, p)')
  PROVE  ModsInv'
<1>1. Typed'
  BY DEF Turns, Typed
<1>2. ASSUME NEW q \in Ops PROVE Shaped(q)' /\ Aimed(q)'
  BY OthersTouch, OthersAim DEF ModsInv, Typed
<1>3. AllApart'
  <2> SUFFICES ASSUME NEW a \in Ops, NEW b \in Ops, a # b, NEW p, p \in Touched(a)', p \in Touched(b)'
               PROVE  p \in tangled'
    BY DEF AllApart
  <2>1. CASE a # r /\ b # r
    <3>1. p \in Touched(a) /\ p \in Touched(b)
      BY <2>1, OthersTouch
    <3>2. QED
      BY <3>1 DEF ModsInv, AllApart
  <2>2. CASE a = r
    <3>1. p \in Touched(b)
      BY <2>2, OthersTouch
    <3>2. CASE p \in Touched(r)
      BY <2>2, <3>1, <3>2 DEF ModsInv, AllApart
    <3>3. CASE p \notin Touched(r)
      BY <2>2, <3>1, <3>3
    <3>4. QED
      BY <3>2, <3>3
  <2>3. CASE b = r
    <3>1. p \in Touched(a)
      BY <2>3, OthersTouch
    <3>2. CASE p \in Touched(r)
      BY <2>3, <3>1, <3>2 DEF ModsInv, AllApart
    <3>3. CASE p \notin Touched(r)
      BY <2>3, <3>1, <3>3
    <3>4. QED
      BY <3>2, <3>3
  <2>4. QED
    BY <2>1, <2>2, <2>3
<1>4. ASSUME NEW p \in Clean' PROVE Fits(p)'
  <2>1. p \in Clean /\ p \notin twin' \cup tangled'
    BY <1>4 DEF Clean
  <2>2. Fits(p) /\ \A q \in Ops : Shaped(q)
    BY <2>1 DEF ModsInv
  <2>3. CASE p \notin Touched(r)
    <3>1. SameRows(p) /\ SameFiles(p) /\ (p \in Touched(r)' => Working(r, p)')
      BY <2>1, <2>3
    <3>2. QED
      BY <2>2, <2>3, <3>1, Elsewhere
  <2>4. CASE p \in Touched(r)
    <3>1. OneRow(p)' /\ HasFile(p)' /\ HasRow(p)' /\ (p \in Touched(r)' => Working(r, p)')
      BY <2>1, <2>4
    <3>2. ASSUME NEW q \in Ops, p \in Touched(q)' PROVE Working(q, p)'
      <4>1. CASE q # r
        <5>1. p \in Touched(q)
          BY <3>2, <4>1, OthersTouch
        <5>2. p \notin Touched(q)
          BY <2>1, <2>4, <4>1, Alone DEF ModsInv, Clean
        <5>3. QED
          BY <5>1, <5>2
      <4>2. QED
        BY <3>1, <3>2, <4>1
    <3>3. QED
      BY <3>1, <3>2 DEF Fits
  <2>5. QED
    BY <2>3, <2>4
<1>5. QED
  BY <1>1, <1>2, <1>3, <1>4 DEF ModsInv

LEMMA StayMeansFollowing == ASSUME RowsFit, RowsStay PROVE Following
BY DEF RowsFit, RowsStay, Following

\* Before it an operation is at no project, and rows and files stay.
LEMMA Beginning ==
  ASSUME ModsInv, NEW r \in Ops, Turns(r), RowsStay, UNCHANGED <<files, left, twin>>, tangled \subseteq tangled',
         Shaped(r)', Aimed(r)',
         Free(r), \A q \in Ops \ {r} : Touched(r)' \cap Touched(q) \subseteq tangled',
         \A p \in Clean : p \in Touched(r)' => Working(r, p)'
  PROVE  ModsInv'
<1>1. Touched(r) = {}
  BY FreeTouches
<1>2. \A p : SameRows(p) /\ SameFiles(p)
  BY StayMeansSame DEF SameFiles
<1>3. RowsFit' /\ Following
  BY StayMeansFollowing DEF RowsStay, ModsInv, Typed
<1>4. QED
  BY <1>1, <1>2, <1>3, Stepping

LEMMA Freed == ASSUME NEW r, Free(r)' PROVE Touched(r)' = {} /\ ~Holding(r)' /\ Shaped(r)' /\ Aimed(r)'
BY DEF Aimed, Free, Touched, Holding, Busy, Shaped

LEMMA QuietStep == ASSUME ModsInv, NEW r \in Ops, Quiet(r) PROVE ModsInv'
<1>1. Turns(r) /\ Free(r) /\ Free(r)' /\ RowsStay /\ UNCHANGED <<files, left, twin, tangled>>
  BY QuietTurns, QuietRows DEF ModsInv
<1>2. Touched(r)' = {} /\ Shaped(r)' /\ Aimed(r)'
  BY <1>1, Freed
<1>3. QED
  BY <1>1, <1>2, Beginning

\* What an operation leaves when its step changes neither rows nor files.
LEMMA Withdrawing ==
  ASSUME ModsInv, NEW r \in Ops, Turns(r), Free(r)', UNCHANGED <<row, nextId, files, left, twin, tangled>>,
         pc[r] \notin {"commit", "store", "entries", "register", "erase"}
  PROVE  ModsInv'
<1>1. RowsStay /\ RowsFit' /\ Following
  BY RowsUnchanged, StayMeansFollowing DEF ModsInv, Typed, RowsStay
<1>2. \A p : SameRows(p) /\ SameFiles(p)
  BY <1>1, StayMeansSame DEF SameFiles
<1>3. Touched(r)' = {} /\ Shaped(r)' /\ Aimed(r)'
  BY Freed
<1>4. ASSUME NEW p \in Clean PROVE OneRow(p)' /\ HasFile(p)' /\ HasRow(p)'
  BY <1>2, Leaving DEF ModsInv
<1>5. QED
  BY <1>1, <1>2, <1>3, <1>4, Stepping

\* What a failing step leaves: files may come, each of which waits for its row or is
\* known to be left.
LEMMA Yielding ==
  ASSUME ModsInv, NEW r \in Ops, Turns(r), UNCHANGED row, pc[r] # "erase",
         files \subseteq files', left \subseteq left', NEW p \in Clean,
         \A v \in Versions : <<p, v>> \in files' \ left' =>
           \/ <<p, v>> \in files \ left /\ (Placed(r, p, v) => Placed(r, p, v)')
           \/ Placed(r, p, v)'
  PROVE  OneRow(p)' /\ HasFile(p)' /\ HasRow(p)'
<1>1. OneRow(p) /\ HasFile(p) /\ HasRow(p) /\ Rows' = Rows
  BY DEF ModsInv, Fits, Rows
<1>2. OneRow(p)'
  BY <1>1 DEF OneRow
<1>3. Erasing(p) => Erasing(p)'
  <2> SUFFICES ASSUME NEW q \in Ops, pc[q] = "erase", p \in Touched(q) PROVE Erasing(p)'
    BY DEF Erasing
  <2>1. q # r
    OBVIOUS
  <2>2. Touched(q)' = Touched(q) /\ pc'[q] = pc[q]
    BY <2>1, OthersTouch
  <2>3. QED
    BY <2>2 DEF Erasing
<1>4. HasFile(p)'
  <2> SUFFICES ASSUME NEW i \in Rows, row[i].proj = p
               PROVE  File(row[i]) \in files' \cup left' \/ row[i].avail \/ Erasing(p)'
    BY <1>1 DEF HasFile, File
  <2>1. File(row[i]) \in files \cup left \/ row[i].avail \/ Erasing(p)
    BY <1>1 DEF HasFile
  <2>2. QED
    BY <1>3, <2>1
<1>5. HasRow(p)'
  <2> SUFFICES ASSUME NEW v \in Versions, <<p, v>> \in files' \ left'
               PROVE  \/ \E i \in Rows : row[i].proj = p /\ row[i].fv = v
                      \/ \E q \in Ops : Placed(q, p, v)'
    BY <1>1 DEF HasRow, Versions
  <2>1. CASE Placed(r, p, v)'
    BY <2>1
  <2>2. CASE <<p, v>> \in files \ left /\ (Placed(r, p, v) => Placed(r, p, v)')
    <3>1. \/ \E i \in Rows : row[i].proj = p /\ row[i].fv = v
          \/ \E q \in Ops : Placed(q, p, v)
      BY <1>1, <2>2 DEF HasRow
    <3>2. ASSUME NEW q \in Ops, Placed(q, p, v) PROVE Placed(q, p, v)'
      BY <2>2, <3>2, PlacedStays
    <3>3. QED
      BY <3>1, <3>2
  <2>3. QED
    BY <2>1, <2>2
<1>6. QED
  BY <1>2, <1>4, <1>5

\* An operation ends, or goes on to something else, without a row.
LEMMA Failing ==
  ASSUME ModsInv, NEW r \in Ops, Turns(r), Free(r)', UNCHANGED <<row, nextId, twin, tangled>>,
         pc[r] # "erase", files \subseteq files', left \subseteq left',
         \A p \in Clean \ Touched(r) : SameFiles(p),
         \A p \in Clean \cap Touched(r) : \A v \in Versions :
           <<p, v>> \in files' \ left' => <<p, v>> \in files \ left /\ ~Placed(r, p, v)
  PROVE  ModsInv'
<1>1. RowsStay /\ RowsFit' /\ Following /\ \A p : SameRows(p)
  BY RowsUnchanged, StayMeansFollowing, StayMeansSame DEF ModsInv, Typed, RowsStay
<1>2. Touched(r)' = {} /\ Shaped(r)' /\ Aimed(r)'
  BY Freed
<1>3. ASSUME NEW p \in Clean \cap Touched(r) PROVE OneRow(p)' /\ HasFile(p)' /\ HasRow(p)'
  BY Yielding
<1>4. QED
  BY <1>1, <1>2, <1>3, Stepping

LEMMA FetchStep == ASSUME ModsInv, NEW r \in Ops, Fetch(r) PROVE ModsInv'
<1>0. Typed /\ Free(r) /\ UNCHANGED <<row, nextId, files, left, twin>> /\ RowsStay
  <2>1. Typed /\ Free(r) /\ UNCHANGED <<row, nextId, files, left, twin>>
    BY DEF Fetch, ModsInv, Free, Busy, dbVars
  <2>2. QED
    BY <2>1, RowsUnchanged DEF Typed
<1>1. CASE UNCHANGED tangled /\ \E b : Advance(r, b)
  <2>1. Turns(r) /\ Free(r)'
    BY <1>0, <1>1, Advancing
  <2>2. pc[r] = "fetch" /\ UNCHANGED <<row, nextId, files, left, twin, tangled>>
    BY <1>0, <1>1 DEF Fetch
  <2>3. QED
    BY <2>1, <2>2, Withdrawing
<1>2. CASE /\ Work(r, [work[r] EXCEPT !.v = published[Head(work[r].todo)]]) /\ Goto(r, "place")
           /\ Meets(r, {Head(work[r].todo)})
  <2> DEFINE w == [work[r] EXCEPT !.v = published[Head(work[r].todo)]]
  <2>1. IsWork(w) /\ w.todo = work[r].todo
    BY <1>0, WorkChanges DEF Typed, WorksFit, IsWork, WorkFields
  <2>2. Work(r, w) /\ Goto(r, "place")
    BY <1>2
  <2> HIDE DEF w
  <2>3. Turns(r) /\ pc'[r] = "place" /\ work'[r] = w
    BY <1>0, <2>1, <2>2, Turning
  <2>4. Touched(r)' = {Head(work[r].todo)} /\ Shaped(r)' /\ Aimed(r)' /\ \A p : Working(r, p)'
    BY <2>1, <2>3 DEF Aimed, Touched, Shaped, Working, Holding
  <2>5. tangled \subseteq tangled' /\ \A q \in Ops \ {r} : Touched(r)' \cap Touched(q) \subseteq tangled'
    BY <1>2, <2>4 DEF Meets
  <2>6. QED
    BY <1>0, <2>3, <2>4, <2>5, Beginning
<1>3. QED
  BY <1>1, <1>2 DEF Fetch, Failed

-----------------------------------------------------------------------------
(* Installation                                                            *)

\* The file of p is there, and no row of it yet.
LEMMA PlaceStep == ASSUME ModsInv, NEW r \in Ops, Place(r) PROVE ModsInv'
<1>0. Typed /\ pc[r] = "place" /\ UNCHANGED <<row, nextId, left, twin, tangled>>
  BY DEF Place, ModsInv, dbVars, histVars
<1>1. CASE Advance(r, TRUE) /\ UNCHANGED files
  <2>1. Turns(r) /\ Free(r)'
    BY <1>0, <1>1, Advancing
  <2>2. QED
    BY <1>0, <1>1, <2>1, Withdrawing
<1>2. CASE /\ files' = files \cup {<<Head(work[r].todo), work[r].v>>}
           /\ Goto(r, "commit") /\ UNCHANGED work
  <2>0. PICK h : h = Head(work[r].todo)
    OBVIOUS
  <2>1. Turns(r) /\ pc'[r] = "commit" /\ work'[r] = work[r]
    BY <1>0, <1>2, Keeping
  <2>2. RowsStay /\ RowsFit' /\ Following /\ \A p : SameRows(p)
    BY <1>0, RowsUnchanged, StayMeansSame, StayMeansFollowing DEF Typed, RowsStay
  <2>3. Touched(r) = {h} /\ Touched(r)' = {h} /\ Shaped(r)' /\ Aimed(r)' /\ ~Holding(r)'
    BY <1>0, <2>0, <2>1 DEF Aimed, Touched, Shaped, Holding
  <2>4. ASSUME NEW p, p # h PROVE SameFiles(p)
    BY <1>0, <1>2, <2>0, <2>4 DEF SameFiles
  <2>5. ASSUME h \in Clean PROVE OneRow(h)' /\ HasFile(h)' /\ HasRow(h)' /\ Working(r, h)'
    <3>1. Fits(h) /\ h \notin tangled
      BY <2>5 DEF ModsInv, Clean
    <3>2. OneRow(h)'
      BY <2>2, <3>1 DEF Fits, OneRow, SameRows
    <3>3. HasFile(h)'
      <4> SUFFICES ASSUME NEW i \in Rows', row'[i].proj = h PROVE File(row'[i]) \in files' \cup left' \/ row'[i].avail
        BY DEF HasFile
      <4>1. ~Erasing(h)
        <5> SUFFICES ASSUME NEW q \in Ops, pc[q] = "erase", h \in Touched(q) PROVE FALSE
          BY DEF Erasing
        <5>1. QED
          BY <1>0, <2>3, <3>1, Alone DEF ModsInv
      <4>2. i \in Rows /\ row'[i] = row[i]
        BY <1>0 DEF Rows
      <4>3. QED
        BY <1>0, <1>2, <3>1, <4>1, <4>2 DEF Fits, HasFile
    <3>4. HasRow(h)'
      <4> SUFFICES ASSUME NEW v \in Versions, <<h, v>> \in files' \ left'
                   PROVE  \/ \E i \in Rows' : row'[i].proj = h /\ row'[i].fv = v
                          \/ \E q \in Ops : Placed(q, h, v)'
        BY DEF HasRow, Versions
      <4>1. CASE v = work[r].v
        BY <2>1, <2>3, <4>1 DEF Placed
      <4>2. CASE v # work[r].v
        <5>1. <<h, v>> \in files \ left
          BY <1>0, <1>2, <2>0, <4>2
        <5>2. ASSUME NEW q \in Ops, Placed(q, h, v) PROVE FALSE
          <6>1. h \in Touched(q)
            BY <5>2, PlacedTouches DEF ModsInv
          <6>2. q = r
            BY <2>3, <3>1, <6>1, Alone DEF ModsInv
          <6>3. QED
            BY <1>0, <5>2, <6>2 DEF Placed
        <5>3. QED
          BY <1>0, <3>1, <5>1, <5>2 DEF Fits, HasRow, Rows
      <4>3. QED
        BY <4>1, <4>2
    <3>5. Working(r, h)'
      BY <1>2, <2>0, <2>1, <2>3 DEF Working
    <3>6. QED
      BY <3>2, <3>3, <3>4, <3>5
  <2>6. QED
    BY <1>0, <2>1, <2>2, <2>3, <2>4, <2>5, Stepping
<1>3. QED
  BY <1>0, <1>1, <1>2 DEF Place, Failed

\* New rows have ids that were not given before.
LEMMA RowsAdded ==
  ASSUME RowsFit, NEW n \in Nat,
         DOMAIN row' = Rows \cup nextId .. (nextId + n - 1), row' = [i \in DOMAIN row' |-> row'[i]],
         nextId' = nextId + n,
         \A i \in Rows : row'[i] = row[i],
         \A i \in nextId .. (nextId + n - 1) : IsRow(row'[i])
  PROVE  RowsFit' /\ Following /\ (nextId .. (nextId + n - 1)) \cap Rows = {}
<1>1. nextId \in Nat /\ \A i \in Rows : i \in Nat /\ i < nextId
  BY DEF RowsFit
<1>2. \A i \in nextId .. (nextId + n - 1) : i \in Nat /\ i < nextId + n /\ i \notin Rows
  BY <1>1
<1>3. \A i \in Rows : i < nextId + n
  BY <1>1
<1>4. RowsFit'
  BY <1>1, <1>2, <1>3 DEF RowsFit, Rows
<1>5. QED
  BY <1>1, <1>2, <1>4 DEF Following, Rows

LEMMA CommitStep == ASSUME ModsInv, NEW r \in Ops, Commit(r) PROVE ModsInv'
<1>h. PICK h : h = Head(work[r].todo)
  OBVIOUS
<1>n. PICK new : new = [proj |-> h, known |-> TRUE, version |-> work[r].v, fv |-> work[r].v, avail |-> FALSE,
                         top |-> None]
  OBVIOUS
<1>0. /\ Typed /\ pc[r] = "commit" /\ UNCHANGED <<files, left, tangled>>
      /\ row' = [i \in Rows \cup {nextId} |-> IF i \in Rows THEN row[i] ELSE new]
      /\ nextId' = nextId + 1 /\ twin' = twin \cup {p \in {h} : \E i \in Rows : row[i].proj = p}
      /\ Advance(r, FALSE)
  BY <1>h, <1>n DEF Commit, ModsInv, Added
<1>1. Turns(r) /\ Free(r)'
  BY <1>0, Advancing
<1>2. Touched(r) = {h} /\ Touched(r)' = {} /\ Shaped(r)' /\ Aimed(r)'
  BY <1>0, <1>h, <1>1, Freed DEF Touched
<1>3. /\ Rows' = Rows \cup {nextId} /\ nextId \notin Rows /\ row'[nextId] = new
      /\ \A i \in Rows : row'[i] = row[i]
  BY <1>0 DEF Rows, Typed, RowsFit
<1>4. RowsFit' /\ Following
  <2>1. nextId \in Nat /\ nextId .. (nextId + 1 - 1) = {nextId}
    BY <1>0 DEF Typed, RowsFit
  <2>2. IsRow(new)
    BY <1>n DEF IsRow, RowFields
  <2>3. DOMAIN row' = Rows \cup {nextId} /\ row' = [i \in DOMAIN row' |-> row'[i]]
    BY <1>0
  <2>4. QED
    BY <1>0, <1>3, <2>1, <2>2, <2>3, RowsAdded DEF Typed
<1>5. ASSUME NEW p, p # h PROVE SameRows(p) /\ SameFiles(p)
  BY <1>0, <1>n, <1>3, <1>5 DEF SameRows, SameFiles
<1>6. ASSUME h \in Clean, h \notin twin' PROVE OneRow(h)' /\ HasFile(h)' /\ HasRow(h)'
  <2>1. Fits(h) /\ h \notin tangled
    BY <1>6 DEF ModsInv, Clean
  <2>2. \A i \in Rows : row[i].proj # h
    BY <1>0, <1>6
  <2>3. <<h, work[r].v>> \in files
    BY <1>0, <1>2, <2>1 DEF Fits, Working
  <2>4. OneRow(h)'
    BY <1>n, <1>3, <2>2 DEF OneRow
  <2>5. HasFile(h)'
    BY <1>0, <1>n, <1>3, <2>2, <2>3 DEF HasFile, File
  <2>6. HasRow(h)'
    <3> SUFFICES ASSUME NEW v \in Versions, <<h, v>> \in files \ left PROVE v = work[r].v
      BY <1>0, <1>n, <1>3 DEF HasRow, Versions
    <3>1. PICK q \in Ops : Placed(q, h, v)
      BY <2>1, <2>2 DEF Fits, HasRow
    <3>2. h \in Touched(q)
      BY <3>1, PlacedTouches DEF ModsInv
    <3>3. q = r
      BY <1>2, <2>1, <3>2, Alone DEF ModsInv
    <3>4. QED
      BY <1>0, <3>1, <3>3 DEF Placed
  <2>7. QED
    BY <2>4, <2>5, <2>6
<1>7. twin \subseteq twin'
  BY <1>0
<1>8. QED
  BY <1>0, <1>1, <1>2, <1>4, <1>5, <1>6, <1>7, Stepping

LEMMA CommitFailsStep == ASSUME ModsInv, NEW r \in Ops, CommitFails(r) PROVE ModsInv'
<1>h. PICK h : h = Head(work[r].todo)
  OBVIOUS
<1>0. /\ Typed /\ pc[r] = "commit" /\ UNCHANGED <<row, nextId, files, twin, tangled>>
      /\ left' = left \cup {<<h, work[r].v>>} /\ Advance(r, TRUE)
  BY <1>h DEF CommitFails, Failed, ModsInv, dbVars
<1>1. Turns(r) /\ Free(r)'
  BY <1>0, Advancing
<1>2. Touched(r) = {h}
  BY <1>0, <1>h DEF Touched
<1>3. \A p : p # h => SameFiles(p)
  BY <1>0 DEF SameFiles
<1>4. \A v : Placed(r, h, v) => v = work[r].v
  BY <1>0 DEF Placed
<1>5. QED
  BY <1>0, <1>1, <1>2, <1>3, <1>4, Failing

-----------------------------------------------------------------------------
(* Updates and removals                                                    *)

\* An operation that has just read row i is at its project.
LEMMA HasRead ==
  ASSUME NEW r \in Ops, NEW i \in Rows, RowsFit, UNCHANGED <<row, nextId>>,
         work'[r].snap = [j \in {i} |-> row[j]], pc'[r] \in {"versions", "unlink"},
         pc'[r] = "versions" => row[i].avail
  PROVE  Touched(r)' = {row[i].proj} /\ Shaped(r)' /\ Aimed(r)' /\ Working(r, row[i].proj)'
<1>1. DOMAIN work'[r].snap = {i} /\ work'[r].snap[i] = row[i]
  OBVIOUS
<1>2. Snap(r)' = i
  BY <1>1 DEF Snap
<1>3. Touched(r)' = {row[i].proj}
  BY <1>1 DEF Touched
<1>4. Shaped(r)'
  BY <1>1, <1>2 DEF Shaped
<1>a. Aimed(r)'
  BY <1>1, <1>2 DEF Aimed, RowsFit, Rows
<1>5. PICK p : p = row[i].proj
  OBVIOUS
<1>6. Working(r, p)'
  BY <1>1, <1>2, <1>5 DEF Working, Rows
<1>7. QED
  BY <1>3, <1>4, <1>a, <1>5, <1>6

LEMMA ReadStep == ASSUME ModsInv, NEW r \in Ops, Read(r) PROVE ModsInv'
<1>0. /\ Typed /\ Free(r) /\ UNCHANGED <<row, nextId, files, left, twin>>
      /\ pc[r] = "versions" /\ work[r].snap = <<>> /\ IsWork(work[r])
  BY DEF Read, ModsInv, Free, Busy, dbVars, Typed, WorksFit
<1>r. RowsStay
  BY <1>0, RowsUnchanged DEF Typed
<1>1. PICK i \in work[r].ids :
        LET w == [work[r] EXCEPT !.ids = work[r].ids \ {i}] IN
        IF i \in Rows /\ row[i].avail
          THEN Work(r, [w EXCEPT !.snap = [j \in {i} |-> row[j]]]) /\ Meets(r, {row[i].proj}) /\ UNCHANGED pc
          ELSE /\ IF w.ids = {} THEN End(r) ELSE Work(r, w) /\ UNCHANGED pc
               /\ UNCHANGED tangled
  BY DEF Read
<1> DEFINE w == [work[r] EXCEPT !.ids = work[r].ids \ {i}]
<1>2. IsWork(w) /\ w.snap = <<>>
  BY <1>0, WorkChanges DEF IsWork, WorkFields
<1>3. CASE i \in Rows /\ row[i].avail
  <2> DEFINE u == [w EXCEPT !.snap = [j \in {i} |-> row[j]]]
  <2>1. Work(r, u) /\ Meets(r, {row[i].proj}) /\ UNCHANGED pc
    BY <1>1, <1>3
  <2> HIDE DEF w
  <2>2. IsWork(u) /\ u.snap = [j \in {i} |-> row[j]]
    BY <1>2, WorkChanges DEF IsWork, WorkFields
  <2> HIDE DEF u
  <2>3. Turns(r) /\ pc'[r] = "versions" /\ work'[r].snap = [j \in {i} |-> row[j]]
    BY <1>0, <2>1, <2>2, Staying
  <2>4. Touched(r)' = {row[i].proj} /\ Shaped(r)' /\ Aimed(r)' /\ Working(r, row[i].proj)'
    BY <1>0, <1>3, <2>3, HasRead DEF Typed
  <2>5. tangled \subseteq tangled' /\ \A q \in Ops \ {r} : Touched(r)' \cap Touched(q) \subseteq tangled'
    BY <2>1, <2>4 DEF Meets
  <2>6. \A p \in Clean : p \in Touched(r)' => Working(r, p)'
    <3> SUFFICES ASSUME NEW p \in Clean, p = row[i].proj PROVE Working(r, p)'
      BY <2>4
    <3>1. QED
      BY <1>0, <2>4 DEF Working
  <2>7. QED
    BY <1>0, <1>r, <2>3, <2>4, <2>5, <2>6, Beginning
<1>4. CASE ~(i \in Rows /\ row[i].avail)
  <2>1. UNCHANGED tangled /\ (End(r) \/ (Work(r, w) /\ UNCHANGED pc))
    BY <1>1, <1>4
  <2> HIDE DEF w
  <2>2. CASE End(r)
    <3>1. Turns(r) /\ Free(r)'
      BY <1>0, <2>2, Ending
    <3>2. QED
      BY <1>0, <2>1, <3>1, Withdrawing
  <2>3. CASE Work(r, w) /\ UNCHANGED pc
    <3>1. Turns(r) /\ pc'[r] = "versions" /\ work'[r] = w
      BY <1>0, <1>2, <2>3, Staying
    <3>2. Free(r)'
      BY <1>2, <3>1 DEF Free, Busy
    <3>3. QED
      BY <1>0, <2>1, <3>1, <3>2, Withdrawing
  <2>4. QED
    BY <2>1, <2>2, <2>3
<1>5. QED
  BY <1>3, <1>4

LEMMA RemoveStep == ASSUME ModsInv, NEW r \in Ops, RemoveMod(r) PROVE ModsInv'
<1>0. Typed /\ Free(r) /\ UNCHANGED <<row, nextId, files, left, twin>> /\ Goto(r, "unlink")
  BY Asking DEF RemoveMod, ModsInv, dbVars
<1>r. RowsStay
  BY <1>0, RowsUnchanged DEF Typed
<1>1. PICK i \in Rows : Work(r, [NoWork EXCEPT !.snap = [j \in {i} |-> row[j]]]) /\ Meets(r, {row[i].proj})
  BY DEF RemoveMod
<1> DEFINE w == [NoWork EXCEPT !.snap = [j \in {i} |-> row[j]]]
<1>2. IsWork(w) /\ w.snap = [j \in {i} |-> row[j]]
  BY NoWorkFits, WorkChanges DEF NoWork
<1>3. Work(r, w)
  BY <1>1
<1> HIDE DEF w
<1>4. Turns(r) /\ pc'[r] = "unlink" /\ work'[r].snap = [j \in {i} |-> row[j]]
  BY <1>0, <1>2, <1>3, Turning
<1>5. Touched(r)' = {row[i].proj} /\ Shaped(r)' /\ Aimed(r)' /\ Working(r, row[i].proj)'
  BY <1>0, <1>4, HasRead DEF Typed
<1>6. tangled \subseteq tangled' /\ \A q \in Ops \ {r} : Touched(r)' \cap Touched(q) \subseteq tangled'
  BY <1>1, <1>5 DEF Meets
<1>7. \A p \in Clean : p \in Touched(r)' => Working(r, p)'
  <2> SUFFICES ASSUME NEW p \in Clean, p = row[i].proj PROVE Working(r, p)'
    BY <1>5
  <2>1. QED
    BY <1>0, <1>5 DEF Working
<1>8. QED
  BY <1>0, <1>r, <1>4, <1>5, <1>6, <1>7, Beginning

\* An operation that holds a row is at its project only.
LEMMA HoldsOne ==
  ASSUME NEW r \in Ops, Holding(r), Shaped(r)
  PROVE  Touched(r) = {work[r].snap[Snap(r)].proj}
BY DEF Holding, Shaped, Touched

LEMMA HeldStays ==
  ASSUME NEW r \in Ops, Holding(r), Shaped(r), work'[r].snap = work[r].snap,
         pc'[r] \in {"download", "store", "erase"}
  PROVE  /\ Holding(r)' /\ Shaped(r)' /\ Snap(r)' = Snap(r)
         /\ Touched(r)' = {work[r].snap[Snap(r)].proj}
BY DEF Holding, Shaped, Touched, Snap

\* The only file of the project is the one that goes, but for those of a failure.
LEMMA LastFile ==
  ASSUME ModsInv, NEW r \in Ops, pc[r] \in {"versions", "unlink"}, Holding(r),
         NEW p \in Clean, p = work[r].snap[Snap(r)].proj,
         files' = files \ {File(work[r].snap[Snap(r)])}, UNCHANGED left
  PROVE  \A v \in Versions : <<p, v>> \notin files' \ left'
<1>1. Touched(r) = {p} /\ Fits(p) /\ p \notin tangled
  BY HoldsOne DEF ModsInv, Clean
<1>2. Snap(r) \in Rows /\ row[Snap(r)].proj = p /\ row[Snap(r)].fv = work[r].snap[Snap(r)].fv
  BY <1>1 DEF Fits, Working
<1>3. SUFFICES ASSUME NEW v \in Versions, <<p, v>> \in files \ left PROVE v = row[Snap(r)].fv
  BY <1>2 DEF File
<1>4. ASSUME NEW q \in Ops, Placed(q, p, v) PROVE FALSE
  <2>1. p \in Touched(q)
    BY <1>4, PlacedTouches DEF ModsInv
  <2>2. q = r
    BY <1>1, <2>1, Alone DEF ModsInv
  <2>3. QED
    BY <1>4, <2>2 DEF Placed
<1>5. QED
  BY <1>1, <1>2, <1>3, <1>4 DEF Fits, HasRow, OneRow

LEMMA UnlinkOldStep == ASSUME ModsInv, NEW r \in Ops, UnlinkOld(r) PROVE ModsInv'
<1>0. /\ Typed /\ pc[r] = "versions" /\ work[r].snap # <<>> /\ UNCHANGED <<row, nextId, left, twin, tangled>>
      /\ Holding(r) /\ Shaped(r) /\ Aimed(r) /\ IsWork(work[r])
  BY DEF UnlinkOld, ModsInv, dbVars, histVars, Holding, Typed, WorksFit
<1>1. CASE NextUpdate(r) /\ UNCHANGED files
  <2>1. Turns(r) /\ Free(r)'
    BY <1>0, <1>1, NextUpdating
  <2>2. QED
    BY <1>0, <1>1, <2>1, Withdrawing
<1>2. CASE /\ files' = files \ {File(work[r].snap[Snap(r)])}
           /\ Work(r, [work[r] EXCEPT !.v = published[work[r].snap[Snap(r)].proj]])
           /\ Goto(r, "download")
  <2> DEFINE w == [work[r] EXCEPT !.v = published[work[r].snap[Snap(r)].proj]]
  <2>1. IsWork(w) /\ w.snap = work[r].snap /\ Work(r, w)
    BY <1>0, <1>2, WorkChanges DEF IsWork, WorkFields
  <2> HIDE DEF w
  <2>2. Turns(r) /\ pc'[r] = "download" /\ work'[r].snap = work[r].snap
    BY <1>0, <1>2, <2>1, Turning
  <2>3. RowsStay /\ RowsFit' /\ Following /\ \A p : SameRows(p)
    BY <1>0, RowsUnchanged, StayMeansSame, StayMeansFollowing DEF Typed, RowsStay
  <2>4. PICK h : h = work[r].snap[Snap(r)].proj
    OBVIOUS
  <2>5. /\ Touched(r) = {h} /\ Touched(r)' = {h} /\ Snap(r)' = Snap(r)
        /\ Holding(r)' /\ Shaped(r)' /\ Aimed(r)'
    BY <1>0, <2>2, <2>4, HoldsOne, HeldStays DEF Aimed, Rows
  <2>6. ASSUME NEW p, p # h PROVE SameFiles(p)
    BY <1>0, <1>2, <2>4, <2>6 DEF SameFiles, File
  <2>7. ASSUME h \in Clean PROVE OneRow(h)' /\ HasFile(h)' /\ HasRow(h)' /\ Working(r, h)'
    <3>1. Fits(h) /\ Working(r, h) /\ OneRow(h)
      BY <2>5, <2>7 DEF ModsInv, Fits
    <3>2. \A v \in Versions : <<h, v>> \notin files' \ left'
      BY <1>0, <1>2, <2>4, <2>7, LastFile
    <3>3. Snap(r) \in Rows /\ row[Snap(r)].proj = h /\ row[Snap(r)].avail
          /\ row[Snap(r)].fv = work[r].snap[Snap(r)].fv
      BY <1>0, <3>1 DEF Working
    <3>4. OneRow(h)'
      BY <2>3, <3>1 DEF OneRow, SameRows
    <3>5. HasFile(h)'
      BY <1>0, <3>1, <3>3 DEF HasFile, OneRow, Rows
    <3>6. HasRow(h)'
      BY <3>2 DEF HasRow, Versions
    <3>7. Working(r, h)'
      BY <1>0, <2>2, <2>5, <3>2, <3>3 DEF Working, Rows, Versions
    <3>8. QED
      BY <3>4, <3>5, <3>6, <3>7
  <2>8. QED
    BY <1>0, <2>2, <2>3, <2>5, <2>6, <2>7, Stepping
<1>3. QED
  BY <1>1, <1>2 DEF UnlinkOld

LEMMA UnlinkStep == ASSUME ModsInv, NEW r \in Ops, Unlink(r) PROVE ModsInv'
<1>0. /\ Typed /\ pc[r] = "unlink" /\ UNCHANGED <<row, nextId, left, twin, tangled>>
      /\ Holding(r) /\ Shaped(r) /\ Aimed(r) /\ UNCHANGED work /\ Goto(r, "erase")
      /\ files' = files \ {File(work[r].snap[Snap(r)])}
  BY DEF Unlink, ModsInv, dbVars, histVars, Holding
<1>2. Turns(r) /\ pc'[r] = "erase" /\ work'[r].snap = work[r].snap
  BY <1>0, Keeping
<1>3. RowsStay /\ RowsFit' /\ Following /\ \A p : SameRows(p)
  BY <1>0, RowsUnchanged, StayMeansSame, StayMeansFollowing DEF Typed, RowsStay
<1>4. PICK h : h = work[r].snap[Snap(r)].proj
  OBVIOUS
<1>5. /\ Touched(r) = {h} /\ Touched(r)' = {h} /\ Snap(r)' = Snap(r)
      /\ Holding(r)' /\ Shaped(r)' /\ Aimed(r)'
  BY <1>0, <1>2, <1>4, HoldsOne, HeldStays DEF Aimed, Rows
<1>6. ASSUME NEW p, p # h PROVE SameFiles(p)
  BY <1>0, <1>4, <1>6 DEF SameFiles, File
<1>7. ASSUME h \in Clean PROVE OneRow(h)' /\ HasFile(h)' /\ HasRow(h)' /\ Working(r, h)'
  <2>1. Fits(h) /\ Working(r, h) /\ OneRow(h)
    BY <1>5, <1>7 DEF ModsInv, Fits
  <2>2. \A v \in Versions : <<h, v>> \notin files' \ left'
    BY <1>0, <1>4, <1>7, LastFile
  <2>3. /\ Snap(r) \in Rows /\ row[Snap(r)].proj = h
        /\ row[Snap(r)].fv = work[r].snap[Snap(r)].fv
    BY <1>0, <2>1 DEF Working
  <2>4. OneRow(h)'
    BY <1>3, <2>1 DEF OneRow, SameRows
  <2>5. HasFile(h)'
    BY <1>2, <1>5 DEF HasFile, Erasing
  <2>6. HasRow(h)'
    BY <2>2 DEF HasRow, Versions
  <2>7. Working(r, h)'
    BY <1>0, <1>2, <1>5, <2>2, <2>3 DEF Working, Rows, Versions
  <2>8. QED
    BY <2>4, <2>5, <2>6, <2>7
<1>8. QED
  BY <1>0, <1>2, <1>3, <1>5, <1>6, <1>7, Stepping

LEMMA DownloadStep == ASSUME ModsInv, NEW r \in Ops, Download(r) PROVE ModsInv'
<1>0. /\ Typed /\ pc[r] = "download" /\ UNCHANGED <<row, nextId, left, twin, tangled>>
      /\ Holding(r) /\ Shaped(r) /\ Aimed(r)
  BY DEF Download, ModsInv, dbVars, histVars, Holding
<1>1. CASE NextUpdate(r) /\ UNCHANGED files
  <2>1. Turns(r) /\ Free(r)'
    BY <1>0, <1>1, NextUpdating
  <2>2. QED
    BY <1>0, <1>1, <2>1, Withdrawing
<1>2. CASE /\ files' = files \cup {<<work[r].snap[Snap(r)].proj, work[r].v>>}
           /\ Goto(r, "store") /\ UNCHANGED work
  <2>2. Turns(r) /\ pc'[r] = "store" /\ work'[r] = work[r]
    BY <1>0, <1>2, Keeping
  <2>3. RowsStay /\ RowsFit' /\ Following /\ \A p : SameRows(p)
    BY <1>0, RowsUnchanged, StayMeansSame, StayMeansFollowing DEF Typed, RowsStay
  <2>4. PICK h : h = work[r].snap[Snap(r)].proj
    OBVIOUS
  <2>5. /\ Touched(r) = {h} /\ Touched(r)' = {h} /\ Snap(r)' = Snap(r)
        /\ Holding(r)' /\ Shaped(r)' /\ Aimed(r)'
    BY <1>0, <2>2, <2>4, HoldsOne, HeldStays DEF Aimed, Rows
  <2>6. ASSUME NEW p, p # h PROVE SameFiles(p)
    BY <1>0, <1>2, <2>4, <2>6 DEF SameFiles
  <2>7. ASSUME h \in Clean PROVE OneRow(h)' /\ HasFile(h)' /\ HasRow(h)' /\ Working(r, h)'
    <3>1. Fits(h) /\ Working(r, h) /\ OneRow(h)
      BY <2>5, <2>7 DEF ModsInv, Fits
    <3>2. \A v \in Versions : <<h, v>> \in files' \ left' => v = work[r].v
      BY <1>0, <1>2, <2>4, <3>1 DEF Working
    <3>3. /\ Snap(r) \in Rows /\ row[Snap(r)].proj = h /\ row[Snap(r)].avail
          /\ row[Snap(r)].fv = work[r].snap[Snap(r)].fv
      BY <1>0, <3>1 DEF Working
    <3>4. OneRow(h)'
      BY <2>3, <3>1 DEF OneRow, SameRows
    <3>5. HasFile(h)'
      BY <1>0, <3>1, <3>3 DEF HasFile, OneRow, Rows
    <3>6. HasRow(h)'
      BY <2>2, <2>5, <3>2 DEF HasRow, Versions, Placed
    <3>7. Working(r, h)'
      BY <1>0, <1>2, <2>2, <2>4, <2>5, <3>2, <3>3 DEF Working, Rows, Versions
    <3>8. QED
      BY <3>4, <3>5, <3>6, <3>7
  <2>8. QED
    BY <1>0, <2>2, <2>3, <2>5, <2>6, <2>7, Stepping
<1>3. QED
  BY <1>1, <1>2 DEF Download

\* What the commit of an update does to the rows.
Stored(i, v, a, b) ==
  [row EXCEPT ![i].version = IF v = a THEN @ ELSE v, ![i].fv = IF v = b THEN @ ELSE v, ![i].avail = FALSE]

LEMMA StoreRows ==
  ASSUME RowsFit, NEW i \in Rows, NEW v, NEW a, NEW b, nextId' = nextId, row' = Stored(i, v, a, b)
  PROVE  /\ RowsFit' /\ Following /\ Rows' = Rows
         /\ \A j \in Rows : row'[j].proj = row[j].proj /\ (j # i => row'[j] = row[j])
         /\ row'[i].fv = (IF v = b THEN row[i].fv ELSE v)
         /\ row'[i].version = (IF v = a THEN row[i].version ELSE v) /\ row'[i].known = row[i].known
<1>1. Rows' = Rows /\ row' = [j \in Rows |-> row'[j]] /\ \A j \in Rows : j # i => row'[j] = row[j]
  BY DEF Rows, Stored, RowsFit
<1>2. IsRow(row[i])
  BY DEF RowsFit
<1>x. PICK x : x = IF v = a THEN row[i].version ELSE v
  OBVIOUS
<1>y. PICK y : y = IF v = b THEN row[i].fv ELSE v
  OBVIOUS
<1>r. row'[i] = [row[i] EXCEPT !.version = x, !.fv = y, !.avail = FALSE]
  BY <1>x, <1>y, <1>2 DEF Stored, IsRow, RowFields, RowsFit, Rows
<1>3. DOMAIN row'[i] = RowFields /\ row'[i] = [f \in RowFields |-> row'[i][f]]
  BY <1>r, <1>2 DEF IsRow, RowFields
<1>4. /\ row'[i].proj = row[i].proj /\ row'[i].fv = (IF v = b THEN row[i].fv ELSE v)
      /\ row'[i].version = (IF v = a THEN row[i].version ELSE v) /\ row'[i].known = row[i].known
  BY <1>r, <1>x, <1>y, <1>2 DEF IsRow, RowFields
<1>5. \A j \in Rows : IsRow(row'[j])
  BY <1>1, <1>3 DEF IsRow, RowsFit
<1>6. RowsFit'
  BY <1>1, <1>5 DEF RowsFit
<1>7. QED
  BY <1>1, <1>4, <1>6 DEF Following, RowsFit

LEMMA StoreStep == ASSUME ModsInv, NEW r \in Ops, Store(r) PROVE ModsInv'
<1>i. PICK i : i = Snap(r)
  OBVIOUS
<1>0. /\ Typed /\ pc[r] = "store" /\ UNCHANGED <<nextId, files, left, twin, tangled>>
      /\ Holding(r) /\ Shaped(r) /\ Aimed(r) /\ NextUpdate(r) /\ i \in Rows
      /\ row' = Stored(i, work[r].v, work[r].snap[i].version, work[r].snap[i].fv)
  BY <1>i DEF Stored, Store, ModsInv, histVars, Holding
<1>1. Turns(r) /\ Free(r)'
  BY <1>0, NextUpdating
<1>2. /\ RowsFit' /\ Following /\ Rows' = Rows
      /\ \A j \in Rows : row'[j].proj = row[j].proj /\ (j # i => row'[j] = row[j])
      /\ row'[i].fv = (IF work[r].v = work[r].snap[i].fv THEN row[i].fv ELSE work[r].v)
  <2>0. PICK v, a, b : v = work[r].v /\ a = work[r].snap[i].version /\ b = work[r].snap[i].fv
    OBVIOUS
  <2>1. RowsFit /\ nextId' = nextId /\ row' = Stored(i, v, a, b)
    BY <1>0, <2>0 DEF Typed
  <2>2. /\ RowsFit' /\ Following /\ Rows' = Rows
        /\ \A j \in Rows : row'[j].proj = row[j].proj /\ (j # i => row'[j] = row[j])
        /\ row'[i].fv = (IF v = b THEN row[i].fv ELSE v)
    BY <1>0, <2>1, StoreRows
  <2>3. QED
    BY <2>2, <2>0
<1>3. PICK h : h = work[r].snap[i].proj
  OBVIOUS
<1>4. Touched(r) = {h} /\ Touched(r)' = {} /\ Shaped(r)' /\ Aimed(r)'
  BY <1>0, <1>i, <1>1, <1>3, HoldsOne, Freed
<1>5. i \in Rows => row[i].proj = h
  BY <1>0, <1>i, <1>3 DEF Aimed
<1>6. ASSUME NEW p, p # h PROVE SameRows(p) /\ SameFiles(p)
  BY <1>0, <1>2, <1>5, <1>6 DEF SameRows, SameFiles
<1>7. ASSUME h \in Clean PROVE OneRow(h)' /\ HasFile(h)' /\ HasRow(h)'
  <2>1. Fits(h) /\ Working(r, h) /\ OneRow(h)
    BY <1>4, <1>7 DEF ModsInv, Fits
  <2>2. i \in Rows /\ row[i].proj = h /\ row[i].fv = work[r].snap[i].fv
    BY <1>0, <1>i, <2>1 DEF Working
  <2>3. row'[i].fv = work[r].v /\ row'[i].proj = h
    BY <1>2, <2>2
  <2>4. <<h, work[r].v>> \in files' /\ \A v \in Versions : <<h, v>> \in files' \ left' => v = work[r].v
    BY <1>0, <2>1 DEF Working
  <2>5. OneRow(h)'
    BY <1>2, <2>1 DEF OneRow
  <2>6. \A j \in Rows : row'[j].proj = h => j = i
    BY <1>2, <2>1, <2>2 DEF OneRow
  <2>7. HasFile(h)'
    BY <1>2, <2>3, <2>4, <2>6 DEF HasFile, File
  <2>8. HasRow(h)'
    BY <1>2, <2>2, <2>3, <2>4 DEF HasRow, Versions
  <2>9. QED
    BY <2>5, <2>7, <2>8
<1>8. QED
  BY <1>0, <1>1, <1>2, <1>4, <1>6, <1>7, Stepping

LEMMA EraseStep == ASSUME ModsInv, NEW r \in Ops, Erase(r) PROVE ModsInv'
<1>i. PICK i : i = Snap(r)
  OBVIOUS
<1>0. /\ Typed /\ pc[r] = "erase" /\ UNCHANGED <<nextId, files, left, twin, tangled>>
      /\ Holding(r) /\ Shaped(r) /\ Aimed(r) /\ End(r)
      /\ row' = [j \in Rows \ {i} |-> row[j]]
  BY <1>i DEF Erase, ModsInv, Holding
<1>1. Turns(r) /\ Free(r)'
  BY <1>0, Ending
<1>2. /\ Rows' = Rows \ {i} /\ \A j \in Rows' : row'[j] = row[j]
      /\ RowsFit' /\ Following
  <2>1. Rows' = Rows \ {i} /\ (\A j \in Rows' : row'[j] = row[j]) /\ row' = [j \in Rows' |-> row'[j]]
    BY <1>0 DEF Rows
  <2>2. QED
    BY <1>0, <2>1 DEF RowsFit, Following, Typed
<1>3. PICK h : h = work[r].snap[i].proj
  OBVIOUS
<1>4. Touched(r) = {h} /\ Touched(r)' = {} /\ Shaped(r)' /\ Aimed(r)'
  BY <1>0, <1>i, <1>1, <1>3, HoldsOne, Freed
<1>5. i \in Rows => row[i].proj = h
  BY <1>0, <1>i, <1>3 DEF Aimed
<1>6. ASSUME NEW p, p # h PROVE SameRows(p) /\ SameFiles(p)
  BY <1>0, <1>2, <1>5, <1>6 DEF SameRows, SameFiles
<1>7. ASSUME h \in Clean PROVE OneRow(h)' /\ HasFile(h)' /\ HasRow(h)'
  <2>1. Fits(h) /\ Working(r, h) /\ OneRow(h)
    BY <1>4, <1>7 DEF ModsInv, Fits
  <2>2. i \in Rows /\ row[i].proj = h
    BY <1>0, <1>i, <2>1 DEF Working
  <2>3. \A j \in Rows' : row'[j].proj # h
    BY <1>2, <2>1, <2>2 DEF OneRow
  <2>4. \A v \in Versions : <<h, v>> \notin files' \ left'
    BY <1>0, <2>1 DEF Working
  <2>5. QED
    BY <2>3, <2>4 DEF OneRow, HasFile, HasRow, Versions
<1>8. QED
  BY <1>0, <1>1, <1>2, <1>4, <1>6, <1>7, Stepping

LEMMA StoreFailsStep == ASSUME ModsInv, NEW r \in Ops, StoreFails(r) PROVE ModsInv'
<1>h. PICK h : h = work[r].snap[Snap(r)].proj
  OBVIOUS
<1>0. /\ Typed /\ pc[r] = "store" /\ UNCHANGED <<row, nextId, files, twin, tangled>>
      /\ Holding(r) /\ Shaped(r) /\ left' = left \cup {<<h, work[r].v>>} /\ NextUpdate(r)
  BY <1>h DEF StoreFails, ModsInv, dbVars, Holding
<1>1. Turns(r) /\ Free(r)'
  BY <1>0, NextUpdating
<1>2. Touched(r) = {h}
  BY <1>0, <1>h, HoldsOne
<1>3. \A p : p # h => SameFiles(p)
  BY <1>0 DEF SameFiles
<1>4. \A v : Placed(r, h, v) => v = work[r].v
  BY <1>0 DEF Placed
<1>5. QED
  BY <1>0, <1>1, <1>2, <1>3, <1>4, Failing

LEMMA EraseFailsStep == ASSUME ModsInv, NEW r \in Ops, EraseFails(r) PROVE ModsInv'
<1>h. PICK h : h = work[r].snap[Snap(r)].proj
  OBVIOUS
<1>0. /\ Typed /\ pc[r] = "erase" /\ UNCHANGED <<row, nextId, files, twin, tangled>>
      /\ Holding(r) /\ Shaped(r) /\ left' = left \cup {File(work[r].snap[Snap(r)])} /\ End(r)
  BY DEF EraseFails, ModsInv, dbVars, Holding
<1>1. Turns(r) /\ Free(r)'
  BY <1>0, Ending
<1>2. Touched(r) = {h} /\ Touched(r)' = {} /\ Shaped(r)' /\ Aimed(r)'
  BY <1>0, <1>h, <1>1, HoldsOne, Freed
<1>3. RowsStay /\ RowsFit' /\ Following /\ \A p : SameRows(p)
  BY <1>0, RowsUnchanged, StayMeansFollowing, StayMeansSame DEF Typed, RowsStay
<1>4. \A p : p # h => SameFiles(p)
  BY <1>0, <1>h DEF SameFiles, File
<1>5. ASSUME h \in Clean PROVE OneRow(h)' /\ HasFile(h)' /\ HasRow(h)'
  <2>1. OneRow(h) /\ Working(r, h)
    BY <1>2, <1>5 DEF ModsInv, Fits
  <2>2. /\ Snap(r) \in Rows /\ row[Snap(r)].proj = h /\ row[Snap(r)].fv = work[r].snap[Snap(r)].fv
        /\ \A v \in Versions : <<h, v>> \notin files \ left
    BY <1>0, <2>1 DEF Working
  <2>3. OneRow(h)'
    BY <1>3, <2>1 DEF OneRow, SameRows
  <2>4. HasFile(h)'
    BY <1>0, <1>h, <2>1, <2>2 DEF HasFile, OneRow, File, Rows
  <2>5. HasRow(h)'
    BY <1>0, <2>2 DEF HasRow, Versions
  <2>6. QED
    BY <2>3, <2>4, <2>5
<1>6. QED
  BY <1>0, <1>1, <1>2, <1>3, <1>4, <1>5, Stepping

-----------------------------------------------------------------------------
(* Modpacks                                                                *)

LEMMA ImportStep == ASSUME ModsInv, NEW r \in Ops, Import(r) PROVE ModsInv'
<1>0. /\ Typed /\ Free(r) /\ UNCHANGED <<row, nextId, files, left, twin>> /\ Goto(r, "entries")
      /\ Work(r, [NoWork EXCEPT !.todo = SetToSeq(Pack)]) /\ Meets(r, Pack \cup Overrides)
  BY Asking DEF Import, ModsInv, dbVars
<1>1. RowsStay
  BY <1>0, RowsUnchanged DEF Typed
<1> DEFINE w == [NoWork EXCEPT !.todo = SetToSeq(Pack)]
<1>w. IsWork(w) /\ w.todo = SetToSeq(Pack) /\ w.ids = {} /\ Work(r, w)
  BY <1>0, NoWorkFits, WorkChanges DEF NoWork
<1> HIDE DEF w
<1>2. Turns(r) /\ pc'[r] = "entries" /\ work'[r].todo = SetToSeq(Pack) /\ work'[r].ids = {}
  BY <1>0, <1>w, Turning
<1>s. SetToSeq(Pack) \in Seq(Pack)
  <2>1. IsFiniteSet(Pack)
    BY ProjectAssumption, FS_Subset
  <2>2. QED
    BY <2>1, Listing, FS_CardinalityType
<1>3. Touched(r)' = Pack \cup Overrides /\ Shaped(r)' /\ Aimed(r)' /\ \A p : Working(r, p)'
  BY <1>2, <1>s DEF Touched, Shaped, Aimed, Holding, Working
<1>4. tangled \subseteq tangled' /\ \A q \in Ops \ {r} : Touched(r)' \cap Touched(q) \subseteq tangled'
  BY <1>0, <1>3 DEF Meets
<1>5. QED
  BY <1>0, <1>1, <1>2, <1>3, <1>4, Beginning

\* An operation at an untangled project is the only one that can be erasing its row.
LEMMA NotErasing ==
  ASSUME ModsInv, NEW r \in Ops, pc[r] # "erase", NEW p \in Clean, p \in Touched(r)
  PROVE  ~Erasing(p)
BY Alone DEF Erasing, Clean, ModsInv

LEMMA PlacedHere ==
  ASSUME ModsInv, NEW r \in Ops, NEW p \in Clean, p \in Touched(r), NEW v, NEW q \in Ops, Placed(q, p, v)
  PROVE  q = r
<1>1. p \in Touched(q)
  BY PlacedTouches DEF ModsInv
<1>2. QED
  BY <1>1, Alone DEF ModsInv, Clean

LEMMA EntryStep == ASSUME ModsInv, NEW r \in Ops, Entry(r) PROVE ModsInv'
<1>h. PICK h : h = Head(work[r].todo)
  OBVIOUS
<1>0. /\ Typed /\ IsWork(work[r]) /\ Shaped(r) /\ pc[r] = "entries" /\ work[r].todo # <<>>
      /\ UNCHANGED <<row, nextId, pc, twin, tangled>>
  BY DEF Entry, ModsInv, dbVars, Typed, WorksFit
<1>1. work[r].todo \in Seq(Pack) /\ work[r].ids \subseteq Pack
  BY <1>0 DEF Shaped
<1>2. h \in Pack /\ Tail(work[r].todo) \in Seq(Pack)
  BY <1>0, <1>1, <1>h
<1>3. PICK ids : /\ Work(r, [work[r] EXCEPT !.todo = Tail(work[r].todo), !.ids = ids])
                 /\ work[r].ids \subseteq ids /\ ids \subseteq work[r].ids \cup {h}
                 /\ h \in ids => h \in work[r].ids \/ <<h, 1>> \in files'
                 /\ \/ UNCHANGED <<files, left>>
                    \/ files' = files \cup {<<h, 1>>} /\ UNCHANGED left /\ h \in ids
                    \/ files' = files \cup {<<h, 1>>} /\ left' = left \cup {<<h, 1>>}
  <2>1. Jars({h}) = {<<h, 1>>}
    BY DEF Jars
  <2>2. [work[r] EXCEPT !.todo = Tail(work[r].todo)]
          = [work[r] EXCEPT !.todo = Tail(work[r].todo), !.ids = work[r].ids]
    BY <1>0 DEF IsWork, WorkFields
  <2>3. [[work[r] EXCEPT !.todo = Tail(work[r].todo)] EXCEPT !.ids = work[r].ids \cup {h}]
          = [work[r] EXCEPT !.todo = Tail(work[r].todo), !.ids = work[r].ids \cup {h}]
    BY <1>0 DEF IsWork, WorkFields
  <2>i. [work[r] EXCEPT !.todo = Tail(work[r].todo)].ids = work[r].ids
    BY <1>0 DEF IsWork, WorkFields
  <2>4. CASE /\ files' = files \cup {<<h, 1>>} /\ UNCHANGED left
             /\ Work(r, [work[r] EXCEPT !.todo = Tail(work[r].todo), !.ids = work[r].ids \cup {h}])
    <3> WITNESS work[r].ids \cup {h}
    <3> QED
      BY <2>4
  <2>5. CASE /\ \/ UNCHANGED <<files, left>>
                \/ files' = files \cup {<<h, 1>>} /\ left' = left \cup {<<h, 1>>}
             /\ Work(r, [work[r] EXCEPT !.todo = Tail(work[r].todo), !.ids = work[r].ids])
    <3> WITNESS work[r].ids
    <3> QED
      BY <2>5
  <2>6. QED
    BY <1>h, <2>1, <2>2, <2>3, <2>i, <2>4, <2>5 DEF Entry
<1> DEFINE w == [work[r] EXCEPT !.todo = Tail(work[r].todo), !.ids = ids]
<1>4. IsWork(w) /\ w.todo = Tail(work[r].todo) /\ w.ids = ids /\ Work(r, w)
  BY <1>0, <1>3, WorkChanges DEF IsWork, WorkFields
<1> HIDE DEF w
<1>5. Turns(r) /\ pc'[r] = "entries" /\ work'[r].todo = Tail(work[r].todo) /\ work'[r].ids = ids
  BY <1>0, <1>4, Staying
<1>6. RowsStay /\ RowsFit' /\ Following /\ \A p : SameRows(p)
  BY <1>0, RowsUnchanged, StayMeansSame, StayMeansFollowing DEF Typed, RowsStay
<1>7. /\ Touched(r) = Pack \cup Overrides /\ Touched(r)' = Pack \cup Overrides
      /\ Shaped(r)' /\ Aimed(r)' /\ ~Holding(r)'
  BY <1>0, <1>1, <1>2, <1>3, <1>5 DEF Touched, Shaped, Aimed, Holding
<1>8. \A p : p # h => SameFiles(p)
  BY <1>3 DEF SameFiles
<1>9. files \subseteq files' /\ left \subseteq left'
  BY <1>3
<1>10. ASSUME NEW p \in Clean, p \in Touched(r)
       PROVE  OneRow(p)' /\ HasFile(p)' /\ HasRow(p)' /\ Working(r, p)'
  <2>1. Working(r, p)
    BY <1>10 DEF ModsInv, Fits
  <2>2. Working(r, p)'
    BY <1>0, <1>3, <1>5, <1>7, <1>9, <2>1 DEF Working
  <2>3. \A v : Placed(r, p, v) => Placed(r, p, v)'
    BY <1>0, <1>3, <1>5 DEF Placed
  <2>4. ASSUME NEW v \in Versions, <<p, v>> \in files' \ left' PROVE <<p, v>> \in files \ left \/ Placed(r, p, v)'
    <3>1. CASE <<p, v>> \in files
      BY <1>9, <2>4, <3>1
    <3>2. CASE <<p, v>> \notin files
      <4>1. p = h /\ v = 1 /\ h \in ids
        BY <1>3, <2>4, <3>2
      <4>2. QED
        BY <1>5, <4>1 DEF Placed
    <3>3. QED
      BY <3>1, <3>2
  <2>5. OneRow(p)' /\ HasFile(p)' /\ HasRow(p)'
    BY <1>0, <1>5, <1>9, <1>10, <2>3, <2>4, Yielding
  <2>6. QED
    BY <2>2, <2>5
<1>11. h \in Touched(r)
  BY <1>2, <1>7
<1>12. QED
  BY <1>0, <1>5, <1>6, <1>7, <1>8, <1>10, <1>11, Stepping

\* The files of the overrides are left, those of the entries still get their rows.
LEMMA OverrideStep == ASSUME ModsInv, NEW r \in Ops, Override(r) PROVE ModsInv'
<1>0. Typed /\ Shaped(r) /\ pc[r] = "entries" /\ UNCHANGED <<row, nextId, twin, tangled>>
  BY DEF Override, ModsInv, dbVars
<1>1. PICK ps \in SUBSET Overrides :
        /\ files' = files \cup Jars(ps)
        /\ \/ ps = Overrides /\ Goto(r, "register") /\ UNCHANGED work /\ left' = left \cup Jars(ps)
           \/ End(r) /\ left' = left \cup Jars(ps \cup work[r].ids)
  BY DEF Override
<1>2. Touched(r) = Pack \cup Overrides /\ work[r].ids \subseteq Pack
  BY <1>0 DEF Touched, Shaped
<1>3. \A p, v : \A S : <<p, v>> \in Jars(S) <=> p \in S /\ v = 1
  BY DEF Jars
<1>4. \A p : p \notin Touched(r) => SameFiles(p)
  BY <1>1, <1>2, <1>3 DEF SameFiles
<1>5. files \subseteq files' /\ left \subseteq left'
  BY <1>1
<1>6. CASE Goto(r, "register") /\ UNCHANGED work /\ left' = left \cup Jars(ps)
  <2>1. Turns(r) /\ pc'[r] = "register" /\ work'[r] = work[r]
    BY <1>0, <1>6, Keeping
  <2>2. RowsStay /\ RowsFit' /\ Following /\ \A p : SameRows(p)
    BY <1>0, RowsUnchanged, StayMeansSame, StayMeansFollowing DEF Typed, RowsStay
  <2>3. Touched(r)' = Touched(r) /\ Shaped(r)' /\ Aimed(r)' /\ ~Holding(r)'
    BY <1>2, <2>1 DEF Touched, Shaped, Aimed, Holding
  <2>4. ASSUME NEW p \in Clean, p \in Touched(r)
        PROVE  OneRow(p)' /\ HasFile(p)' /\ HasRow(p)' /\ Working(r, p)'
    <3>1. Working(r, p)
      BY <2>4 DEF ModsInv, Fits
    <3>2. Working(r, p)'
      BY <1>0, <1>5, <2>1, <2>3, <3>1 DEF Working
    <3>3. \A v : Placed(r, p, v) => Placed(r, p, v)'
      BY <1>0, <2>1 DEF Placed
    <3>4. \A v \in Versions : <<p, v>> \in files' \ left' => <<p, v>> \in files \ left
      BY <1>1, <1>6
    <3>5. OneRow(p)' /\ HasFile(p)' /\ HasRow(p)'
      BY <1>0, <1>5, <2>1, <2>4, <3>3, <3>4, Yielding
    <3>6. QED
      BY <3>2, <3>5
  <2>5. QED
    BY <1>0, <1>4, <2>1, <2>2, <2>3, <2>4, Stepping
<1>7. CASE End(r) /\ left' = left \cup Jars(ps \cup work[r].ids)
  <2>1. Turns(r) /\ Free(r)'
    BY <1>0, <1>7, Ending
  <2>2. \A p, v : Placed(r, p, v) => p \in work[r].ids /\ v = 1
    BY <1>0 DEF Placed
  <2>3. \A p, v : <<p, v>> \in files' \ left' => <<p, v>> \in files \ left /\ ~Placed(r, p, v)
    <3> SUFFICES ASSUME NEW p, NEW v, <<p, v>> \in files' \ left'
                 PROVE  <<p, v>> \in files \ left /\ ~Placed(r, p, v)
      OBVIOUS
    <3>1. ~(p \in ps \cup work[r].ids /\ v = 1) /\ <<p, v>> \notin left
      BY <1>3, <1>7
    <3>2. <<p, v>> \notin Jars(ps)
      BY <1>3, <3>1
    <3>3. QED
      BY <1>1, <2>2, <3>1, <3>2
  <2>4. QED
    BY <1>0, <1>4, <1>5, <2>1, <2>3, Failing
<1>8. QED
  BY <1>1, <1>6, <1>7

LEMMA ImportFailsStep == ASSUME ModsInv, NEW r \in Ops, ImportFails(r) PROVE ModsInv'
<1>0. /\ Typed /\ Shaped(r) /\ pc[r] \in {"entries", "register"} /\ UNCHANGED <<row, nextId, files, twin, tangled>>
      /\ End(r) /\ left' = left \cup Jars(work[r].ids)
  BY DEF ImportFails, ModsInv, dbVars
<1>1. Turns(r) /\ Free(r)'
  BY <1>0, Ending
<1>2. Touched(r) = Pack \cup Overrides /\ work[r].ids \subseteq Pack
  BY <1>0 DEF Touched, Shaped
<1>3. \A p, v : \A S : <<p, v>> \in Jars(S) <=> p \in S /\ v = 1
  BY DEF Jars
<1>4. \A p : p \notin Touched(r) => SameFiles(p)
  BY <1>0, <1>2, <1>3 DEF SameFiles
<1>5. \A p, v : Placed(r, p, v) => p \in work[r].ids /\ v = 1
  BY <1>0 DEF Placed
<1>6. \A p, v : <<p, v>> \in files' \ left' => <<p, v>> \in files \ left /\ ~Placed(r, p, v)
  <2> SUFFICES ASSUME NEW p, NEW v, <<p, v>> \in files' \ left'
               PROVE  <<p, v>> \in files \ left /\ ~Placed(r, p, v)
    OBVIOUS
  <2>1. ~(p \in work[r].ids /\ v = 1) /\ <<p, v>> \notin left
    BY <1>0, <1>3
  <2>2. QED
    BY <1>0, <1>5, <2>1
<1>7. QED
  BY <1>0, <1>1, <1>4, <1>6, Failing

\* The rows that the import of a modpack adds.
LEMMA RegisterRows ==
  ASSUME RowsFit, NEW n \in Nat, NEW new \in Seq(Projects), n = Len(new), nextId' = nextId + n,
         row' = [i \in Rows \cup nextId .. (nextId + Len(new) - 1) |-> IF i \in Rows THEN row[i]
                   ELSE [proj |-> new[i - nextId + 1], known |-> FALSE, version |-> Unknown, fv |-> 1,
                         avail |-> FALSE, top |-> None]]
  PROVE  /\ RowsFit' /\ Following /\ Rows \subseteq Rows' /\ \A i \in Rows : row'[i] = row[i]
         /\ \A i \in Rows' \ Rows : /\ i - nextId + 1 \in DOMAIN new /\ row'[i].proj = new[i - nextId + 1]
                                    /\ row'[i].fv = 1 /\ i \in Nat
         /\ \A k \in DOMAIN new : nextId + k - 1 \in Rows' \ Rows /\ row'[nextId + k - 1].proj = new[k]
<1> DEFINE ids == nextId .. (nextId + n - 1)
           Row(i) == [proj |-> new[i - nextId + 1], known |-> FALSE, version |-> Unknown, fv |-> 1,
                      avail |-> FALSE, top |-> None]
<1>1. nextId \in Nat /\ (\A i \in Rows : i \in Nat /\ i < nextId) /\ DOMAIN new = 1 .. n
  BY DEF RowsFit
<1>2. ids \cap Rows = {}
  BY <1>1
<1>3. /\ Rows' = Rows \cup ids /\ row' = [i \in Rows' |-> row'[i]]
      /\ \A i \in Rows : row'[i] = row[i]
  BY DEF Rows
<1>4. \A i \in ids : row'[i] = Row(i)
  BY <1>2
<1>5. \A i \in ids : IsRow(Row(i)) /\ Row(i).proj = new[i - nextId + 1] /\ Row(i).fv = 1
  BY DEF IsRow, RowFields
<1> HIDE DEF Row
<1>6. RowsFit' /\ Following
  <2>1. \A i \in ids : IsRow(row'[i])
    BY <1>4, <1>5
  <2>2. DOMAIN row' = Rows \cup nextId .. (nextId + n - 1) /\ row' = [i \in DOMAIN row' |-> row'[i]]
    BY <1>3 DEF Rows
  <2>3. QED
    BY <1>3, <2>1, <2>2, RowsAdded
<1>7. \A i \in Rows' \ Rows : i \in ids
  BY <1>3
<1>8. \A i \in ids : i - nextId + 1 \in 1 .. n
  BY <1>1
<1>9. \A k \in 1 .. n : nextId + k - 1 \in ids /\ (nextId + k - 1) - nextId + 1 = k
  BY <1>1
<1>10. \A k \in 1 .. n : nextId + k - 1 \in Rows' \ Rows /\ row'[nextId + k - 1].proj = new[k]
  <2> SUFFICES ASSUME NEW k \in 1 .. n
               PROVE  nextId + k - 1 \in Rows' \ Rows /\ row'[nextId + k - 1].proj = new[k]
    OBVIOUS
  <2>1. PICK i : i = nextId + k - 1
    OBVIOUS
  <2>2. i \in ids /\ i - nextId + 1 = k
    BY <1>9, <2>1
  <2>3. row'[i].proj = new[k] /\ i \in Rows' \ Rows
    BY <1>2, <1>3, <1>4, <1>5, <2>2
  <2>4. QED
    BY <2>1, <2>3
<1>11. \A i \in Rows' \ Rows : /\ i - nextId + 1 \in DOMAIN new /\ row'[i].proj = new[i - nextId + 1]
                               /\ row'[i].fv = 1 /\ i \in Nat
  BY <1>1, <1>4, <1>5, <1>7, <1>8
<1>12. QED
  BY <1>1, <1>3, <1>6, <1>10, <1>11

LEMMA RegisterStep == ASSUME ModsInv, NEW r \in Ops, Register(r) PROVE ModsInv'
<1>n. PICK new : new = SetToSeq(work[r].ids)
  OBVIOUS
<1>0. /\ Typed /\ pc[r] = "register" /\ UNCHANGED <<files, left, tangled>> /\ End(r) /\ Shaped(r)
      /\ nextId' = nextId + Len(new)
      /\ twin' = twin \cup {p \in Range(new) : \E i \in Rows : row[i].proj = p}
      /\ row' = [i \in Rows \cup nextId .. (nextId + Len(new) - 1) |-> IF i \in Rows THEN row[i]
                   ELSE [proj |-> new[i - nextId + 1], known |-> FALSE, version |-> Unknown, fv |-> 1,
                         avail |-> FALSE, top |-> None]]
  BY <1>n DEF Register, Added, ModsInv
<1>1. Turns(r) /\ Free(r)'
  BY <1>0, Ending
<1>2. Touched(r) = Pack \cup Overrides /\ Touched(r)' = {} /\ Shaped(r)' /\ Aimed(r)'
  BY <1>0, <1>1, Freed DEF Touched
<1>3. PICK there \in SUBSET Pack : there = work[r].ids /\ new = SetToSeq(there)
  BY <1>0, <1>n DEF Shaped
<1>4. /\ new \in Seq(Projects) /\ Len(new) \in Nat /\ Range(new) = there /\ Range(new) \subseteq Pack
      /\ \A j, k \in DOMAIN new : new[j] = new[k] => j = k
  <2>1. IsFiniteSet(there) /\ there \subseteq Projects
    BY ProjectAssumption, FS_Subset
  <2>2. Cardinality(there) \in Nat
    BY <2>1, FS_CardinalityType
  <2>3. new \in [1 .. Cardinality(there) -> there] /\ IsInjective(new) /\ Range(new) = there
    BY <1>3, <2>1, Listing
  <2>4. new \in Seq(Projects) /\ Len(new) = Cardinality(there)
    BY <2>1, <2>2, <2>3
  <2>5. QED
    BY <2>2, <2>3, <2>4 DEF IsInjective
<1>5. /\ RowsFit' /\ Following /\ Rows \subseteq Rows' /\ \A i \in Rows : row'[i] = row[i]
      /\ \A i \in Rows' \ Rows : /\ i - nextId + 1 \in DOMAIN new /\ row'[i].proj = new[i - nextId + 1]
                                 /\ row'[i].fv = 1 /\ i \in Nat
      /\ \A k \in DOMAIN new : nextId + k - 1 \in Rows' \ Rows /\ row'[nextId + k - 1].proj = new[k]
  BY <1>0, <1>4, RegisterRows DEF Typed
<1>6. /\ \A i \in Rows' \ Rows : row'[i].proj \in Range(new)
      /\ \A p \in Range(new) : \E i \in Rows' \ Rows : row'[i].proj = p
  BY <1>5 DEF Range
<1>7. \A i, j \in Rows' \ Rows : row'[i].proj = row'[j].proj => i = j
  BY <1>0, <1>4, <1>5 DEF Typed, RowsFit
<1>8. ASSUME NEW p, p \notin Range(new) PROVE SameRows(p) /\ SameFiles(p)
  <2>1. SameFiles(p)
    BY <1>0 DEF SameFiles
  <2>2. ASSUME NEW i PROVE (i \in Rows /\ row[i].proj = p) <=> (i \in Rows' /\ row'[i].proj = p)
    BY <1>5, <1>6, <1>8
  <2>3. \A i \in Rows : row'[i] = row[i]
    BY <1>5
  <2>4. QED
    BY <2>1, <2>2, <2>3 DEF SameRows
<1>9. ASSUME NEW p \in Clean, p \in Pack \cup Overrides, p \notin twin'
      PROVE  OneRow(p)' /\ HasFile(p)' /\ HasRow(p)'
  <2>1. Fits(p) /\ ~Erasing(p)
    BY <1>0, <1>2, <1>9, NotErasing DEF ModsInv
  <2>2. \A q \in Ops : \A v : Placed(q, p, v) => q = r
    BY <1>2, <1>9, PlacedHere
  <2>3. CASE p \in Range(new)
    <3>0. p \in work[r].ids /\ Working(r, p)
      BY <1>2, <1>3, <1>4, <1>9, <2>1, <2>3 DEF Fits
    <3>1. /\ \A i \in Rows : row[i].proj # p
          /\ <<p, 1>> \in files
      <4>1. <<p, 1>> \in files
        BY <1>0, <3>0 DEF Working
      <4>2. \A i \in Rows : row[i].proj # p
        BY <1>0, <1>9, <2>3
      <4>3. QED
        BY <4>1, <4>2
    <3>2. OneRow(p)'
      BY <1>5, <1>7, <3>1 DEF OneRow
    <3>3. HasFile(p)'
      <4> SUFFICES ASSUME NEW i \in Rows', row'[i].proj = p PROVE File(row'[i]) \in files
        BY <1>0 DEF HasFile
      <4>1. i \notin Rows
        BY <1>5, <3>1
      <4>2. row'[i].fv = 1
        BY <1>5, <4>1
      <4>3. QED
        BY <3>1, <4>2 DEF File
    <3>4. HasRow(p)'
      <4> SUFFICES ASSUME NEW v \in Versions, <<p, v>> \in files \ left
                   PROVE  \E i \in Rows' : row'[i].proj = p /\ row'[i].fv = v
        BY <1>0 DEF HasRow, Versions
      <4>1. v = 1
        BY <1>0, <2>1, <2>2, <3>1 DEF Fits, HasRow, Placed
      <4>2. QED
        BY <1>5, <1>6, <2>3, <4>1
    <3>5. QED
      BY <3>2, <3>3, <3>4
  <2>4. CASE p \notin Range(new)
    <3>1. \A q \in Ops : \A v : ~Placed(q, p, v)
      BY <1>0, <1>3, <1>4, <2>2, <2>4 DEF Placed
    <3>2. QED
      BY <1>8, <2>1, <2>4, <3>1, Lasting DEF Fits
  <2>5. QED
    BY <2>3, <2>4
<1>10. ASSUME NEW p, p \notin Pack \cup Overrides PROVE SameRows(p) /\ SameFiles(p)
  BY <1>4, <1>8, <1>10
<1>11. twin \subseteq twin'
  BY <1>0
<1>12. QED
  BY <1>0, <1>1, <1>2, <1>5, <1>9, <1>10, <1>11, Stepping

-----------------------------------------------------------------------------
(* Files match rows                                                        *)

LEMMA OperationStep == ASSUME ModsInv, NEW r \in Ops, Operation(r) PROVE ModsInv'
<1>1. CASE Quiet(r)
  BY <1>1, QuietStep
<1>2. CASE Fetch(r) \/ Place(r) \/ Commit(r) \/ CommitFails(r)
  BY <1>2, FetchStep, PlaceStep, CommitStep, CommitFailsStep
<1>3. CASE Read(r) \/ UnlinkOld(r) \/ Download(r) \/ Store(r) \/ StoreFails(r)
  BY <1>3, ReadStep, UnlinkOldStep, DownloadStep, StoreStep, StoreFailsStep
<1>4. CASE RemoveMod(r) \/ Unlink(r) \/ Erase(r) \/ EraseFails(r)
  BY <1>4, RemoveStep, UnlinkStep, EraseStep, EraseFailsStep
<1>5. CASE Import(r) \/ Entry(r) \/ Override(r) \/ Register(r) \/ ImportFails(r)
  BY <1>5, ImportStep, EntryStep, OverrideStep, RegisterStep, ImportFailsStep
<1>6. QED
  BY <1>1, <1>2, <1>3, <1>4, <1>5 DEF Operation, Quiet

\* A step of nobody: what was at a project stays there.
LEMMA IdleStep ==
  ASSUME ModsInv, UNCHANGED <<row, nextId, files, left, pc, work, twin, tangled>>
  PROVE  ModsInv'
<1>1. Typed'
  BY DEF ModsInv, Typed, StagesFit, WorksFit, RowsFit, Rows, IsRow, IsWork
<1>2. ASSUME NEW r \in Ops
      PROVE  /\ Touched(r)' = Touched(r) /\ Holding(r)' = Holding(r) /\ Snap(r)' = Snap(r)
             /\ Shaped(r)' /\ Aimed(r)'
  <2>1. Touched(r)' = Touched(r) /\ Holding(r)' = Holding(r) /\ Snap(r)' = Snap(r)
    BY DEF Touched, Holding, Snap
  <2>2. QED
    BY <2>1 DEF ModsInv, Shaped, Aimed, Rows
<1>3. AllApart'
  BY <1>2 DEF ModsInv, AllApart
<1>4. ASSUME NEW p \in Clean' PROVE Fits(p)'
  <2>1. Fits(p)
    BY <1>4 DEF ModsInv, Clean
  <2>2. Erasing(p)' = Erasing(p) /\ \A r \in Ops : \A v : Placed(r, p, v)' = Placed(r, p, v)
    BY <1>2 DEF Erasing, Placed
  <2>3. OneRow(p)' /\ HasFile(p)' /\ HasRow(p)'
    BY <2>1, <2>2 DEF Fits, OneRow, HasFile, HasRow, Rows, Versions
  <2>4. \A r \in Ops : p \in Touched(r)' => Working(r, p)'
    BY <1>2, <2>1 DEF Fits, Working, Rows, Versions
  <2>5. QED
    BY <2>3, <2>4 DEF Fits
<1>5. QED
  BY <1>1, <1>2, <1>3, <1>4 DEF ModsInv

LEMMA CrashStep == ASSUME ModsInv, Crash PROVE ModsInv'
<1>1. /\ UNCHANGED <<row, nextId, files, left, twin>> /\ tangled \subseteq tangled'
      /\ pc' = [r \in Ops |-> IF pc[r] = "idle" THEN "idle" ELSE "ended"]
      /\ work' = [r \in Ops |-> NoWork]
      /\ \A r \in Ops : pc[r] \in {"commit", "store", "erase", "entries", "register"} => Touched(r) \subseteq tangled'
  BY DEF Crash, dbVars
<1>2. Typed'
  BY <1>1, NoWorkFits DEF ModsInv, Typed, StagesFit, WorksFit, RowsFit, Rows, IsRow
<1>3. ASSUME NEW r \in Ops PROVE Free(r)' /\ Touched(r)' = {} /\ Shaped(r)' /\ Aimed(r)'
  <2>1. Free(r)'
    BY <1>1 DEF Free, Busy
  <2>2. QED
    BY <2>1, Freed
<1>4. ASSUME NEW p \in Clean' PROVE Fits(p)'
  <2>1. Fits(p) /\ p \notin tangled'
    BY <1>1, <1>4 DEF ModsInv, Clean
  <2>2. ~Erasing(p) /\ \A r \in Ops : \A v : ~Placed(r, p, v)
    <3>1. ASSUME NEW r \in Ops, NEW v, Placed(r, p, v) PROVE FALSE
      BY <1>1, <2>1, <3>1, PlacedTouches DEF ModsInv, Placed
    <3>2. QED
      BY <1>1, <2>1, <3>1 DEF Erasing
  <2>3. SameRows(p) /\ SameFiles(p)
    BY <1>1 DEF SameRows, SameFiles, Rows
  <2>4. OneRow(p)' /\ HasFile(p)' /\ HasRow(p)'
    BY <2>1, <2>2, <2>3, Lasting DEF Fits
  <2>5. QED
    BY <1>3, <2>4 DEF Fits
<1>5. QED
  BY <1>2, <1>3, <1>4 DEF ModsInv, AllApart

LEMMA InitFits == Init => ModsInv
<1> SUFFICES ASSUME Init PROVE ModsInv
  OBVIOUS
<1>1. IsFiniteSet(AtStart) /\ Cardinality(AtStart) \in Nat
  BY ProjectAssumption, FS_Subset, FS_CardinalityType
<1>2. /\ SetToSeq(AtStart) \in [1 .. Cardinality(AtStart) -> AtStart]
      /\ IsInjective(SetToSeq(AtStart)) /\ Range(SetToSeq(AtStart)) = AtStart
  BY <1>1, Listing
<1>3. PICK ps : ps = SetToSeq(AtStart)
  OBVIOUS
<1>4. PICK n \in Nat : n = Cardinality(AtStart)
  BY <1>1
<1>5. /\ row = [i \in 1 .. n |-> [proj |-> ps[i], known |-> TRUE, version |-> 1, fv |-> 1,
                                  avail |-> published[ps[i]] > 1, top |-> None]]
      /\ nextId = n + 1 /\ files = {<<p, 1>> : p \in AtStart}
      /\ pc = [r \in Ops |-> "idle"] /\ work = [r \in Ops |-> NoWork]
  BY <1>3, <1>4 DEF Init
<1>6. /\ Rows = 1 .. n /\ row = [i \in Rows |-> row[i]]
      /\ \A i \in Rows : IsRow(row[i]) /\ row[i].proj = ps[i] /\ row[i].fv = 1
  BY <1>5 DEF Rows, IsRow, RowFields
<1>7. Typed
  BY <1>5, <1>6, NoWorkFits DEF Typed, StagesFit, WorksFit, RowsFit
<1>8. ASSUME NEW r \in Ops PROVE Touched(r) = {} /\ Shaped(r) /\ Aimed(r) /\ pc[r] = "idle"
  BY <1>5 DEF Touched, Shaped, Aimed, Holding
<1>9. ASSUME NEW p \in Clean PROVE Fits(p)
  <2>1. OneRow(p)
    BY <1>2, <1>3, <1>4, <1>6 DEF OneRow, IsInjective
  <2>2. HasFile(p)
    BY <1>2, <1>3, <1>4, <1>5, <1>6 DEF HasFile, File
  <2>3. HasRow(p)
    BY <1>2, <1>3, <1>4, <1>5, <1>6 DEF HasRow, Range
  <2>4. QED
    BY <1>8, <2>1, <2>2, <2>3 DEF Fits
<1>10. QED
  BY <1>7, <1>8, <1>9 DEF ModsInv, AllApart

LEMMA ModsFit == Spec => []ModsInv
<1>1. ModsInv /\ [Next]_vars => ModsInv'
  <2> SUFFICES ASSUME ModsInv, [Next]_vars PROVE ModsInv'
    OBVIOUS
  <2>1. CASE \E r \in Ops : Operation(r)
    BY <2>1, OperationStep
  <2>2. CASE \E p \in Projects : Publish(p)
    BY <2>2, IdleStep DEF Publish, dbVars, opVars, histVars
  <2>3. CASE Expire
    BY <2>3, IdleStep DEF Expire, dbVars, opVars, histVars
  <2>4. CASE Crash
    BY <2>4, CrashStep
  <2>5. CASE UNCHANGED vars
    BY <2>5, IdleStep DEF vars, dbVars, opVars, histVars
  <2>6. QED
    BY <2>1, <2>2, <2>3, <2>4, <2>5 DEF Next
<1>2. QED
  BY <1>1, InitFits, PTL DEF Spec

LEMMA ModsMatch == ModsInv => FilesMatchRows
<1> SUFFICES ASSUME ModsInv, NEW p \in Projects, p \notin twin, p \notin tangled,
                    \A r \in Ops : p \notin Touched(r)
             PROVE  /\ \A i \in Rows : row[i].proj = p => File(row[i]) \in files \cup left \/ row[i].avail
                    /\ \A v \in Versions :
                         <<p, v>> \in files \ left => \E i \in Rows : row[i].proj = p /\ row[i].fv = v
  BY DEF FilesMatchRows
<1>1. Fits(p)
  BY DEF ModsInv, Clean
<1>2. ~Erasing(p)
  BY DEF Erasing
<1>3. \A r \in Ops : \A v : ~Placed(r, p, v)
  BY PlacedTouches DEF ModsInv
<1>4. QED
  BY <1>1, <1>2, <1>3 DEF Fits, HasFile, HasRow

\* FilesMatchRows of every behaviour: once the operations on a project have ended,
\* its mod has its file, unless an update of it failed and is still offered, and there
\* is no other file of it, but for the files of a commit or an import that failed: the
\* lookups, downloads and removals of mod_updater.py and modpack_importer.py leave
\* nothing else behind, for any number of operations.
THEOREM FilesFollowRows == Spec => []FilesMatchRows
BY ModsFit, ModsMatch, PTL

-----------------------------------------------------------------------------
(* The cached conflicts                                                    *)

\* The rows of which conflicts are computed are there, unless they changed meanwhile.
Computing == \A r \in Ops : pc[r] = "metadata" => work[r].ids \subseteq Rows

ConflictsInv == ModsInv /\ (stale \/ (Computing /\ cached \subseteq Rows))

\* Where an operation relies on rows or dependencies that it has read.
Relying == {"metadata", "supported", "newest", "resolve", "fetch", "place", "commit"}

\* The steps that lead there.
Installing(r) ==
  Install(r) \/ Apply(r) \/ ResolveTarget(r) \/ Fetch(r) \/ Place(r) \/ Commit(r) \/ CommitFails(r)

Guiding(r) == Installing(r) \/ FindNewest(r) \/ Supported(r)

OthersStay(r) == \A q \in Ops \ {r} : pc'[q] = pc[q] /\ work'[q] = work[q]

\* No other operation moves, and this one relies on nothing afterwards.
Moves(r) == OthersStay(r) /\ pc'[r] \notin Relying

LEMMA MovesOn ==
  ASSUME Typed, NEW r \in Ops,
         (UNCHANGED pc /\ pc[r] \notin Relying) \/ \E next : next \notin Relying /\ Goto(r, next),
         UNCHANGED work \/ \E w : Work(r, w)
  PROVE  Moves(r)
BY DEF Typed, StagesFit, WorksFit, Goto, Work, Moves, OthersStay

LEMMA EndMoves == ASSUME Typed, NEW r \in Ops, End(r) PROVE Moves(r)
<1>1. Goto(r, "ended") /\ Work(r, NoWork)
  BY DEF End
<1>2. "ended" \notin Relying
  BY DEF Relying
<1>3. QED
  BY <1>1, <1>2, MovesOn

LEMMA OperationMoves ==
  ASSUME Typed, NEW r \in Ops, Operation(r), ~Conflicts(r), ~Guiding(r)
  PROVE  Moves(r)
<1>1. CASE Update(r) \/ Read(r)
  <2>1. CASE Update(r)
    BY <2>1, MovesOn DEF Relying, Update
  <2>2. CASE Read(r)
    <3>1. pc[r] = "versions" /\ (End(r) \/ (UNCHANGED pc /\ \E w : Work(r, w)))
      BY <2>2 DEF Read
    <3>2. QED
      BY <3>1, EndMoves, MovesOn DEF Relying
  <2>3. QED
    BY <1>1, <2>1, <2>2
<1>2. CASE UnlinkOld(r) \/ Download(r) \/ Store(r) \/ StoreFails(r)
  <2>1. ASSUME NextUpdate(r) PROVE Moves(r)
    BY <2>1, EndMoves, MovesOn DEF Relying, NextUpdate
  <2>2. CASE UnlinkOld(r)
    BY <2>1, <2>2, MovesOn DEF Relying, UnlinkOld
  <2>3. CASE Download(r)
    BY <2>1, <2>3, MovesOn DEF Relying, Download
  <2>4. CASE Store(r) \/ StoreFails(r)
    BY <2>1, <2>4 DEF Store, StoreFails
  <2>5. QED
    BY <1>2, <2>2, <2>3, <2>4
<1>3. CASE Check(r) \/ Answers(r) \/ Flags(r)
  <2>1. CASE Check(r)
    BY <2>1, MovesOn DEF Relying, Check
  <2>2. CASE Answers(r)
    BY <2>2, MovesOn DEF Relying, Answers
  <2>3. CASE Flags(r)
    BY <2>3, EndMoves DEF Flags
  <2>4. QED
    BY <1>3, <2>1, <2>2, <2>3
<1>4. CASE RemoveMod(r) \/ Unlink(r) \/ Erase(r) \/ EraseFails(r)
  <2>1. CASE RemoveMod(r)
    BY <2>1, MovesOn DEF Relying, RemoveMod
  <2>2. CASE Unlink(r)
    BY <2>2, MovesOn DEF Relying, Unlink
  <2>3. CASE Erase(r) \/ EraseFails(r)
    BY <2>3, EndMoves DEF Erase, EraseFails
  <2>4. QED
    BY <1>4, <2>1, <2>2, <2>3
<1>5. CASE Metadata(r) \/ Save(r)
  <2>1. CASE Metadata(r)
    BY <2>1, EndMoves DEF Metadata
  <2>2. CASE Save(r)
    BY <2>2, MovesOn DEF Relying, Save
  <2>3. QED
    BY <1>5, <2>1, <2>2
<1>6. CASE StoreNewest(r)
  <2>1. End(r)
    BY <1>6 DEF StoreNewest
  <2>2. QED
    BY <2>1, EndMoves
<1>7. CASE Import(r) \/ Entry(r) \/ Override(r) \/ Register(r) \/ ImportFails(r)
  <2>1. CASE Import(r)
    BY <2>1, MovesOn DEF Relying, Import
  <2>2. CASE Entry(r)
    <3>1. UNCHANGED pc /\ pc[r] = "entries" /\ \E w : Work(r, w)
      BY <2>2 DEF Entry
    <3>2. QED
      BY <3>1, MovesOn DEF Relying
  <2>3. CASE Override(r)
    <3>1. End(r) \/ (Goto(r, "register") /\ UNCHANGED work)
      BY <2>3 DEF Override
    <3>2. QED
      BY <3>1, EndMoves, MovesOn DEF Relying
  <2>4. CASE Register(r) \/ ImportFails(r)
    <3>1. End(r)
      BY <2>4 DEF Register, ImportFails
    <3>2. QED
      BY <3>1, EndMoves
  <2>5. QED
    BY <1>7, <2>1, <2>2, <2>3, <2>4
<1>8. CASE Hash(r) \/ Hashes(r)
  <2>1. CASE Hash(r)
    BY <2>1, MovesOn DEF Relying, Hash
  <2>2. CASE Hashes(r)
    <3>1. End(r) \/ (Goto(r, "answers") /\ \E w : Work(r, w))
      BY <2>2 DEF Hashes
    <3>2. QED
      BY <3>1, EndMoves, MovesOn DEF Relying
  <2>3. QED
    BY <1>8, <2>1, <2>2
<1>9. QED
  BY <1>1, <1>2, <1>3, <1>4, <1>5, <1>6, <1>7, <1>8 DEF Operation, Guiding, Installing

\* What the installation and the newest version do to the operations.
LEMMA InstallingTurns ==
  ASSUME Typed, NEW r \in Ops, Installing(r)
  PROVE  OthersStay(r) /\ pc'[r] \in {"resolve", "fetch", "place", "commit", "ended"}
<1> DEFINE Here == OthersStay(r) /\ pc'[r] \in {"resolve", "fetch", "place", "commit", "ended"}
<1>1. ASSUME Goto(r, "resolve") \/ Goto(r, "fetch") \/ Goto(r, "place") \/ Goto(r, "commit"),
             UNCHANGED work \/ \E w : Work(r, w)
      PROVE  Here
  BY <1>1 DEF Typed, StagesFit, WorksFit, Goto, Work, OthersStay
<1>2. ASSUME NEW b, Advance(r, b) PROVE Here
  BY <1>2, Advancing DEF Turns, OthersStay
<1>3. CASE Install(r) \/ Apply(r)
  BY <1>1, <1>3 DEF Install, Apply
<1>4. CASE ResolveTarget(r)
  <2>1. Goto(r, "fetch") /\ \E w : Work(r, w)
    BY <1>4 DEF ResolveTarget
  <2>2. QED
    BY <1>1, <2>1
<1>5. CASE Fetch(r)
  BY <1>1, <1>2, <1>5 DEF Fetch, Failed
<1>6. CASE Place(r)
  BY <1>1, <1>2, <1>6 DEF Place, Failed
<1>7. CASE Commit(r) \/ CommitFails(r)
  <2>1. \E b : Advance(r, b)
    BY <1>7 DEF Commit, CommitFails, Failed
  <2>2. QED
    BY <1>2, <2>1
<1>8. QED
  BY <1>3, <1>4, <1>5, <1>6, <1>7 DEF Installing

LEMMA GuidingTurns ==
  ASSUME Typed, NEW r \in Ops, Guiding(r)
  PROVE  OthersStay(r) /\ pc'[r] # "metadata"
<1>1. CASE Installing(r)
  BY <1>1, InstallingTurns
<1>2. CASE FindNewest(r) \/ Supported(r)
  <2>1. /\ Goto(r, "supported") \/ Goto(r, "newest")
        /\ \E w : Work(r, w)
    BY <1>2 DEF FindNewest, Supported
  <2>2. QED
    BY <2>1 DEF Typed, StagesFit, WorksFit, Goto, Work, OthersStay
<1>3. QED
  BY <1>1, <1>2 DEF Guiding

LEMMA NotGuiding ==
  ASSUME NEW r, pc[r] \notin {"idle", "resolve", "fetch", "place", "commit", "supported"}
  PROVE  ~Guiding(r)
BY DEF Guiding, Installing, Install, Apply, ResolveTarget, Fetch, Place, Commit, CommitFails, FindNewest, Supported,
       Asked

\* Only a removal takes rows away, and only the lookup of the metadata caches conflicts.
LEMMA RowsAndCache ==
  ASSUME ModsInv, NEW r \in Ops, Operation(r), ~Conflicts(r), ~Metadata(r), ~Erase(r)
  PROVE  Rows \subseteq Rows' /\ cached' \in {cached, {}} /\ (stale => stale')
<1>1. CASE Quiet(r)
  <2>1. Rows' = Rows
    BY <1>1, QuietRows DEF ModsInv, RowsStay
  <2>2. UNCHANGED <<cached, stale>>
    BY <1>1 DEF Quiet, Install, Apply, ResolveTarget, Update, Check, Answers, Flags, Conflicts, Metadata, Save,
           FindNewest, Supported, StoreNewest, Hash, Hashes, histVars
  <2>3. QED
    BY <2>1, <2>2
<1>2. CASE Commit(r)
  <2>1. \E f : row' = [i \in Rows \cup {nextId} |-> IF i \in Rows THEN row[i] ELSE f]
    BY <1>2 DEF Commit
  <2>2. QED
    BY <1>2, <2>1 DEF Commit, Disturbed, Rows
<1>3. CASE Register(r)
  <2>1. \E n : DOMAIN row' = Rows \cup nextId .. n
    BY <1>3 DEF Register
  <2>2. QED
    BY <1>3, <2>1 DEF Register, Disturbed, Rows
<1>4. CASE Store(r)
  <2>1. DOMAIN row' = Rows
    BY <1>4 DEF Store, Rows
  <2>2. QED
    BY <1>4, <2>1 DEF Store, histVars, Rows
<1>5. CASE Fetch(r) \/ Place(r) \/ Read(r) \/ UnlinkOld(r) \/ Download(r) \/ RemoveMod(r) \/ Unlink(r)
           \/ Import(r) \/ Entry(r) \/ Override(r) \/ CommitFails(r) \/ StoreFails(r) \/ EraseFails(r)
           \/ ImportFails(r)
  <2>1. CASE Fetch(r) \/ Place(r) \/ Read(r)
    <3>1. UNCHANGED <<row, cached, stale>>
      BY <2>1 DEF Fetch, Place, Read, histVars, dbVars
    <3>2. QED
      BY <3>1 DEF Rows
  <2>2. CASE UnlinkOld(r) \/ Download(r) \/ Unlink(r)
    BY <2>2 DEF UnlinkOld, Download, Unlink, histVars, dbVars, Rows
  <2>3. CASE RemoveMod(r) \/ Import(r) \/ Entry(r) \/ Override(r)
    <3>1. UNCHANGED <<row, cached, stale>>
      BY <2>3 DEF RemoveMod, Import, Entry, Override, dbVars
    <3>2. QED
      BY <3>1 DEF Rows
  <2>4. CASE CommitFails(r) \/ StoreFails(r) \/ EraseFails(r) \/ ImportFails(r)
    <3>1. UNCHANGED <<row, cached, stale>>
      BY <2>4 DEF CommitFails, StoreFails, EraseFails, ImportFails, dbVars
    <3>2. QED
      BY <3>1 DEF Rows
  <2>5. QED
    BY <1>5, <2>1, <2>2, <2>3, <2>4
<1>6. QED
  BY <1>1, <1>2, <1>3, <1>4, <1>5 DEF Operation, Quiet

LEMMA ConflictsStep == ASSUME ConflictsInv, NEW r \in Ops, Operation(r) PROVE ConflictsInv'
<1>1. ModsInv' /\ Typed
  BY OperationStep DEF ConflictsInv, ModsInv
<1>2. CASE Conflicts(r)
  <2>1. /\ cached = {} /\ UNCHANGED <<row, cached>> /\ Goto(r, "metadata") /\ pc[r] = "idle"
        /\ Work(r, [NoWork EXCEPT !.ids = {i \in Rows : row[i].known}])
        /\ stale' = IF \A q \in Ops : pc[q] # "metadata" THEN FALSE ELSE stale
    BY <1>2 DEF Conflicts, Asked, dbVars
  <2>2. /\ pc' = [pc EXCEPT ![r] = "metadata"]
        /\ work' = [work EXCEPT ![r] = [NoWork EXCEPT !.ids = {i \in Rows : row[i].known}]]
    BY <2>1 DEF Goto, Work
  <2>3. /\ work'[r].ids \subseteq Rows
        /\ \A q \in Ops \ {r} : pc'[q] = pc[q] /\ work'[q] = work[q]
    BY <1>1, <2>2 DEF Typed, StagesFit, WorksFit, NoWork
  <2>4. CASE \A q \in Ops : pc[q] # "metadata"
    BY <1>1, <2>1, <2>3, <2>4 DEF ConflictsInv, Computing, Rows
  <2>5. CASE ~(\A q \in Ops : pc[q] # "metadata")
    BY <1>1, <2>1, <2>3, <2>5 DEF ConflictsInv, Computing, Rows
  <2>6. QED
    BY <2>4, <2>5
<1>3. CASE Metadata(r)
  <2>1. Moves(r)
    BY <1>1, <1>3, OperationMoves, NotGuiding DEF Metadata, Conflicts, Asked
  <2>2. pc[r] = "metadata" /\ cached' \in {{}, work[r].ids} /\ UNCHANGED <<row, stale>>
    BY <1>3 DEF Metadata, dbVars, histVars
  <2>3. QED
    BY <1>1, <2>1, <2>2 DEF ConflictsInv, Computing, Moves, OthersStay, Relying, Rows
<1>4. CASE Erase(r)
  <2>1. Moves(r)
    BY <1>1, <1>4, OperationMoves, NotGuiding DEF Erase, Conflicts, Asked
  <2>2. pc[r] = "erase" /\ cached' = {} /\ stale' = (stale \/ \E q \in Ops : pc[q] = "metadata")
    BY <1>4 DEF Erase, Disturbed
  <2>3. QED
    BY <1>1, <2>1, <2>2 DEF ConflictsInv, Computing, Moves, OthersStay, Relying
<1>5. CASE ~Conflicts(r) /\ ~Metadata(r) /\ ~Erase(r)
  <2>1. OthersStay(r) /\ pc'[r] # "metadata"
    BY <1>1, <1>5, OperationMoves, GuidingTurns DEF Moves, Relying
  <2>2. Rows \subseteq Rows' /\ cached' \in {cached, {}} /\ (stale => stale')
    BY <1>5, RowsAndCache DEF ConflictsInv
  <2>3. QED
    BY <1>1, <2>1, <2>2 DEF ConflictsInv, Computing, OthersStay
<1>6. QED
  BY <1>2, <1>3, <1>4, <1>5

LEMMA ConflictsFit == Spec => []ConflictsInv
<1>1. Init => ConflictsInv
  <2>1. Init => Computing /\ cached \subseteq Rows
    BY DEF Init, Computing
  <2>2. QED
    BY <2>1, InitFits DEF ConflictsInv
<1>2. ConflictsInv /\ [Next]_vars => ConflictsInv'
  <2> SUFFICES ASSUME ConflictsInv, [Next]_vars PROVE ConflictsInv'
    OBVIOUS
  <2>1. CASE \E r \in Ops : Operation(r)
    BY <2>1, ConflictsStep
  <2>2. CASE \E p \in Projects : Publish(p)
    <3>1. UNCHANGED <<row, nextId, files, left, pc, work, twin, tangled, cached, stale>>
      BY <2>2 DEF Publish, dbVars, opVars, histVars
    <3>2. QED
      BY <3>1, IdleStep DEF ConflictsInv, Computing, Rows
  <2>3. CASE Expire
    <3>1. UNCHANGED <<row, nextId, files, left, pc, work, twin, tangled, stale>> /\ cached' = {}
      BY <2>3 DEF Expire, dbVars, opVars, histVars
    <3>2. QED
      BY <3>1, IdleStep DEF ConflictsInv, Computing, Rows
  <2>4. CASE Crash
    <3>1. cached' = {} /\ \A r \in Ops : pc'[r] # "metadata"
      BY <2>4 DEF Crash
    <3>2. QED
      BY <2>4, <3>1, CrashStep DEF ConflictsInv, Computing
  <2>5. CASE UNCHANGED vars
    <3>1. UNCHANGED <<row, nextId, files, left, pc, work, twin, tangled, cached, stale>>
      BY <2>5 DEF vars, dbVars, opVars, histVars
    <3>2. QED
      BY <3>1, IdleStep DEF ConflictsInv, Computing, Rows
  <2>6. QED
    BY <2>1, <2>2, <2>3, <2>4, <2>5 DEF Next
<1>3. QED
  BY <1>1, <1>2, PTL DEF Spec

\* ConflictsOfPresentMods of every behaviour: what check_conflicts of mod_updater.py
\* has cached speaks of mods that are there, unless the mods changed while it was
\* computed, however installations, removals, imports and the hour of the cache fall.
THEOREM ConflictsAreOfMods == Spec => []ConflictsOfPresentMods
<1>1. ConflictsInv => ConflictsOfPresentMods
  BY DEF ConflictsInv, ConflictsOfPresentMods
<1>2. QED
  BY <1>1, ConflictsFit, PTL

-----------------------------------------------------------------------------
(* The newest version that all mods support                                *)

\* A set of naturals has a least element.
LEMMA LeastOf == ASSUME NEW B \in SUBSET Nat, B # {} PROVE \E x \in B : \A y \in B : x <= y
<1>1. PICK x \in B : \A y \in B : ~(<<y, x>> \in OpToRel(<, Nat))
  BY WFMin, NatLessThanWellFounded
<1>2. \A y \in B : ~(y < x)
  BY <1>1 DEF OpToRel
<1>3. QED
  BY <1>2

LEMMA SmallestOf ==
  ASSUME NEW D, IsFiniteSet(D), NEW B \in SUBSET SUBSET D, B # {}
  PROVE  \E s \in B : \A t \in B : Cardinality(s) <= Cardinality(t)
<1> DEFINE C == {Cardinality(s) : s \in B}
<1>1. \A s \in B : Cardinality(s) \in Nat
  BY FS_Subset, FS_CardinalityType
<1>2. C \in SUBSET Nat /\ C # {}
  BY <1>1
<1>3. PICK x \in C : \A y \in C : x <= y
  BY <1>2, LeastOf
<1>4. QED
  BY <1>3

LEMMA MaxIsIn ==
  ASSUME NEW n \in Nat, NEW S \in SUBSET (1 .. n), S # {}
  PROVE  Max(S) \in S
<1> DEFINE B == {n - x : x \in S}
<1>1. B \in SUBSET Nat /\ B # {}
  <2>1. \A x \in S : x \in 1 .. n /\ n - x \in Nat
    OBVIOUS
  <2>2. QED
    BY <2>1
<1>2. PICK y \in B : \A z \in B : y <= z
  BY <1>1, LeastOf
<1>3. PICK x \in S : y = n - x
  BY <1>2
<1>4. \A z \in S : x >= z
  <2>1. ASSUME NEW z \in S PROVE x >= z
    <3>1. n - z \in B
      OBVIOUS
    <3>2. n - x <= n - z
      BY <1>2, <1>3, <3>1
    <3>3. QED
      BY <3>2
  <2>2. QED
    BY <2>1
<1>5. QED
  BY <1>4 DEF Max

\* Folding the intersection yields what is in every set.
LEMMA Intersected ==
  ASSUME NEW n \in Nat, NEW sets, DOMAIN sets = 1 .. n
  PROVE  Shared(sets) = {v \in Head(sets) : \A i \in 1 .. n : v \in sets[i]}
<1> DEFINE D == 1 .. n
           base == Head(sets)
           Whole(h) == h = [s \in SUBSET D |-> IF s = {} THEN base ELSE h[s \ {Max(s)}] \cap sets[Max(s)]]
           e == [s \in SUBSET D |-> {v \in base : \A i \in s : v \in sets[i]}]
<1>0. IsFiniteSet(D)
  BY FS_Interval
<1>1. Whole(e)
  <2>1. ASSUME NEW s \in SUBSET D
        PROVE  e[s] = IF s = {} THEN base ELSE e[s \ {Max(s)}] \cap sets[Max(s)]
    <3>1. CASE s = {}
      BY <3>1
    <3>2. CASE s # {}
      <4>1. PICK m : m = Max(s)
        OBVIOUS
      <4>2. m \in s
        BY <3>2, <4>1, MaxIsIn
      <4>3. e[s] = {v \in base : \A i \in s : v \in sets[i]}
            /\ e[s \ {m}] = {v \in base : \A i \in s \ {m} : v \in sets[i]}
        OBVIOUS
      <4>4. e[s] = e[s \ {m}] \cap sets[m]
        BY <4>2, <4>3
      <4>5. QED
        BY <3>2, <4>1, <4>4
    <3>3. QED
      BY <3>1, <3>2
  <2>2. QED
    BY <2>1
<1>2. PICK h : h = CHOOSE g : Whole(g)
  OBVIOUS
<1>3. Whole(h)
  BY <1>1, <1>2
<1>4. \A s \in SUBSET D : h[s] = e[s]
  <2> DEFINE B == {s \in SUBSET D : h[s] # e[s]}
  <2>1. SUFFICES ASSUME B # {} PROVE FALSE
    OBVIOUS
  <2>2. PICK s \in B : \A t \in B : Cardinality(s) <= Cardinality(t)
    <3>1. B \in SUBSET SUBSET D
      OBVIOUS
    <3> HIDE DEF B, D
    <3>2. QED
      BY <1>0, <2>1, <3>1, SmallestOf
  <2>3. s \in SUBSET D /\ h[s] # e[s]
    OBVIOUS
  <2>4. s # {}
    BY <1>1, <1>3, <2>3
  <2>5. PICK m : m = Max(s)
    OBVIOUS
  <2>6. m \in s
    BY <2>3, <2>4, <2>5, MaxIsIn
  <2>7. Cardinality(s \ {m}) < Cardinality(s)
    <3>1. IsFiniteSet(s) /\ Cardinality(s) \in Nat
      BY <1>0, <2>3, FS_Subset, FS_CardinalityType
    <3>2. Cardinality(s \ {m}) = Cardinality(s) - 1
      BY <2>6, <3>1, FS_RemoveElement
    <3>3. QED
      BY <3>1, <3>2
  <2>8. h[s \ {m}] = e[s \ {m}]
    <3>1. s \ {m} \in SUBSET D /\ Cardinality(s \ {m}) \in Nat /\ Cardinality(s) \in Nat
      BY <1>0, <2>3, FS_Subset, FS_CardinalityType
    <3>2. s \ {m} \notin B
      <4>1. SUFFICES ASSUME s \ {m} \in B PROVE FALSE
        OBVIOUS
      <4>2. Cardinality(s) <= Cardinality(s \ {m})
        BY <2>2, <4>1
      <4>3. QED
        BY <2>7, <3>1, <4>2
    <3>3. QED
      BY <3>1, <3>2
  <2>9. h[s] = h[s \ {m}] \cap sets[m] /\ e[s] = e[s \ {m}] \cap sets[m]
    <3> HIDE DEF e
    <3>1. \A g : Whole(g) => g[s] = g[s \ {m}] \cap sets[m]
      BY <2>3, <2>4, <2>5
    <3>2. QED
      BY <1>1, <1>3, <3>1
  <2>10. QED
    BY <2>3, <2>8, <2>9
<1>5. Shared(sets) = h[D]
  BY <1>2 DEF Shared, FoldLeft, MapThenFoldSet
<1>6. QED
  BY <1>4, <1>5

\* Every row is listed, and no other.
LEMMA OrderLists ==
  ASSUME NEW S \in SUBSET Nat, IsFiniteSet(S)
  PROVE  /\ Cardinality(S) \in Nat /\ InOrder(S) \in [1 .. Cardinality(S) -> S]
         /\ \A i \in S : \E n \in 1 .. Cardinality(S) : InOrder(S)[n] = i
<1> DEFINE c == Cardinality(S)
           Below(i) == {j \in S : j <= i}
           rank == [i \in S |-> Cardinality(Below(i))]
           at(n) == CHOOSE i \in S : Cardinality(Below(i)) = n
<1>0. c \in Nat /\ IsFiniteSet(1 .. c) /\ Cardinality(1 .. c) = c
  BY FS_CardinalityType, FS_Interval
<1>1. \A i \in S : IsFiniteSet(Below(i)) /\ Cardinality(Below(i)) \in 1 .. c
  <2>1. ASSUME NEW i \in S PROVE IsFiniteSet(Below(i)) /\ Cardinality(Below(i)) \in 1 .. c
    <3>1. Below(i) \in SUBSET S /\ i \in Below(i)
      OBVIOUS
    <3>2. IsFiniteSet(Below(i)) /\ Cardinality(Below(i)) <= c /\ Cardinality(Below(i)) \in Nat
      BY <3>1, FS_Subset, FS_CardinalityType
    <3>3. Cardinality(Below(i)) # 0
      BY <3>1, <3>2, FS_EmptySet
    <3>4. QED
      BY <1>0, <3>2, <3>3
  <2>2. QED
    BY <2>1
<1>2. \A i, k \in S : i < k => Cardinality(Below(i)) < Cardinality(Below(k))
  <2>1. ASSUME NEW i \in S, NEW k \in S, i < k PROVE Cardinality(Below(i)) < Cardinality(Below(k))
    <3>1. Below(i) \in SUBSET (Below(k) \ {k}) /\ k \in Below(k)
      <4>1. \A j \in S : j \in Nat
        OBVIOUS
      <4>2. \A j \in S : j <= i => j <= k /\ j # k
        BY <2>1, <4>1
      <4>3. Below(i) \subseteq Below(k) \ {k}
        BY <4>2
      <4>4. k \in Below(k)
        BY <4>1
      <4>5. QED
        BY <4>3, <4>4
    <3>2. IsFiniteSet(Below(k) \ {k}) /\ Cardinality(Below(k) \ {k}) = Cardinality(Below(k)) - 1
      BY <1>1, <3>1, FS_RemoveElement
    <3>3. Cardinality(Below(i)) <= Cardinality(Below(k) \ {k})
      BY <3>1, <3>2, FS_Subset
    <3> HIDE DEF Below
    <3>4. Cardinality(Below(i)) \in Nat /\ Cardinality(Below(k)) \in Nat
      BY <1>1
    <3>5. QED
      BY <3>2, <3>3, <3>4
  <2>2. QED
    BY <2>1
<1>3. \A i, k \in S : Cardinality(Below(i)) = Cardinality(Below(k)) => i = k
  <2>1. \A i \in S : i \in Nat /\ Cardinality(Below(i)) \in Nat
    BY <1>0, <1>1
  <2> HIDE DEF Below
  <2>2. QED
    BY <1>2, <2>1
<1>4. rank \in [S -> 1 .. c] /\ \A i, k \in S : rank[i] = rank[k] => i = k
  <2> HIDE DEF Below
  <2>1. QED
    BY <1>1, <1>3
<1>5. rank \in Surjection(S, 1 .. c)
  <2>1. rank \in Injection(S, 1 .. c)
    BY <1>4 DEF Injection, IsInjective
  <2>2. QED
    BY <1>0, <2>1, FS_Injection
<1>6. \A n \in 1 .. c : \E i \in S : rank[i] = n
  BY <1>4, <1>5 DEF Surjection
<1>7. InOrder(S) = [n \in 1 .. c |-> at(n)]
  BY DEF InOrder
<1>8. \A n \in 1 .. c : InOrder(S)[n] \in S /\ rank[InOrder(S)[n]] = n
  <2>1. ASSUME NEW n \in 1 .. c PROVE at(n) \in S /\ rank[at(n)] = n
    <3>1. \E i \in S : Cardinality(Below(i)) = n
      BY <1>6
    <3>2. at(n) \in S /\ Cardinality(Below(at(n))) = n
      BY <3>1
    <3>3. QED
      BY <3>2
  <2> HIDE DEF rank, at, c
  <2>2. QED
    BY <1>7, <2>1
<1>9. \A i \in S : InOrder(S)[rank[i]] = i
  <2> HIDE DEF rank
  <2>1. QED
    BY <1>4, <1>8
<1>10. QED
  <2> HIDE DEF rank, at
  <2>1. InOrder(S) = [n \in 1 .. c |-> InOrder(S)[n]]
    BY <1>7
  <2>2. QED
    BY <1>0, <1>4, <1>8, <1>9, <2>1

\* What the mods have in common, when every one has a version, is what each supports.
LEMMA InCommon ==
  ASSUME NEW S \in SUBSET Nat, IsFiniteSet(S), S # {}, NEW f, \A i \in S : f[i] # {}
  PROVE  Common([n \in DOMAIN InOrder(S) |-> f[InOrder(S)[n]]])
           = {v \in UNION {f[i] : i \in S} : \A i \in S : v \in f[i]}
<1> DEFINE c == Cardinality(S)
           X == {f[i] : i \in S}
<1>0. PICK sets : sets = [n \in DOMAIN InOrder(S) |-> f[InOrder(S)[n]]]
  OBVIOUS
<1>1. /\ c \in Nat /\ InOrder(S) \in [1 .. c -> S]
      /\ \A i \in S : \E n \in 1 .. c : InOrder(S)[n] = i
  BY OrderLists
<1>2. c # 0
  BY <1>1, FS_EmptySet
<1>3. sets \in Seq(X) /\ DOMAIN sets = 1 .. c /\ Len(sets) = c
      /\ \A n \in 1 .. c : sets[n] = f[InOrder(S)[n]]
  BY <1>0, <1>1
<1>4. sets # <<>> /\ Head(sets) = sets[1] /\ 1 \in 1 .. c
  BY <1>1, <1>2, <1>3
<1>5. {} \notin Range(sets)
  <2>1. \A n \in DOMAIN sets : sets[n] # {}
    BY <1>1, <1>3
  <2>2. QED
    BY <2>1 DEF Range
<1>6. Common(sets) = {v \in Head(sets) : \A n \in 1 .. c : v \in sets[n]}
  <2>1. Common(sets) = Shared(sets)
    BY <1>4, <1>5 DEF Common
  <2>2. QED
    BY <1>1, <1>3, <2>1, Intersected
<1>7. \A v : (v \in Head(sets) /\ \A n \in 1 .. c : v \in sets[n])
             <=> (v \in UNION X /\ \A i \in S : v \in f[i])
  <2>1. \A v : (\A n \in 1 .. c : v \in sets[n]) <=> (\A i \in S : v \in f[i])
    <3> HIDE DEF c, X
    <3>1. ASSUME NEW v, \A n \in 1 .. c : v \in sets[n], NEW i \in S PROVE v \in f[i]
      <4>1. PICK n \in 1 .. c : InOrder(S)[n] = i
        BY <1>1
      <4>2. v \in sets[n] /\ sets[n] = f[InOrder(S)[n]]
        BY <1>3, <3>1
      <4>3. QED
        BY <4>1, <4>2
    <3>2. ASSUME NEW v, \A i \in S : v \in f[i], NEW n \in 1 .. c PROVE v \in sets[n]
      <4>1. InOrder(S)[n] \in S
        BY <1>1
      <4>2. sets[n] = f[InOrder(S)[n]]
        BY <1>3
      <4>3. QED
        BY <3>2, <4>1, <4>2
    <3>3. QED
      BY <3>1, <3>2
  <2>2. \A v : (\A n \in 1 .. c : v \in sets[n]) => v \in Head(sets)
    BY <1>4
  <2>3. \A v : (\A i \in S : v \in f[i]) => v \in UNION X
    OBVIOUS
  <2>4. QED
    BY <2>1, <2>2, <2>3
<1>8. QED
  BY <1>0, <1>6, <1>7

\* What is left of the mods that were read, and what was found for them.
Noted(r) ==
  pc[r] = "supported" =>
    LET snap == work[r].snap IN
    DOMAIN snap \in SUBSET Nat /\ IsFiniteSet(DOMAIN snap) /\ \A i \in DOMAIN snap : IsRow(snap[i])

NewestOf(ps) == Newest({v \in UNION {Supports[p] : p \in ps} : \A p \in ps : v \in Supports[p]})

Found(r) ==
  pc[r] = "newest" /\ ~work[r].broken /\ DOMAIN work[r].snap # {} =>
    work[r].v = NewestOf({work[r].snap[i].proj : i \in DOMAIN work[r].snap})

NewestInv == ModsInv /\ NewestIsSupported /\ \A r \in Ops : Noted(r) /\ Found(r)

LEMMA RowsAreFinite == ASSUME RowsFit PROVE Rows \in SUBSET Nat /\ IsFiniteSet(Rows)
<1>1. Rows \in SUBSET Nat /\ nextId \in Nat /\ \A i \in Rows : i <= nextId
  BY DEF RowsFit
<1>2. QED
  BY <1>1, FS_BoundedSetOfNaturals

\* The newest version is stored by one step only.
LEMMA NewestStays ==
  ASSUME NEW r \in Ops, Operation(r), ~StoreNewest(r)
  PROVE  UNCHANGED <<newest, basis>>
<1>1. CASE Guiding(r)
  BY <1>1 DEF Guiding, Installing, Install, Apply, ResolveTarget, Fetch, Place, Commit, CommitFails, FindNewest,
              Supported, histVars
<1>2. CASE Update(r) \/ Read(r) \/ UnlinkOld(r) \/ Download(r) \/ Store(r) \/ StoreFails(r)
           \/ Check(r) \/ Answers(r) \/ Flags(r)
  BY <1>2 DEF Update, Read, UnlinkOld, Download, Store, StoreFails, Check, Answers, Flags, histVars
<1>3. CASE RemoveMod(r) \/ Unlink(r) \/ Erase(r) \/ EraseFails(r) \/ Conflicts(r) \/ Metadata(r) \/ Save(r)
  BY <1>3 DEF RemoveMod, Unlink, Erase, EraseFails, Conflicts, Metadata, Save, histVars
<1>4. CASE Import(r) \/ Entry(r) \/ Override(r) \/ Register(r) \/ ImportFails(r) \/ Hash(r) \/ Hashes(r)
  BY <1>4 DEF Import, Entry, Override, Register, ImportFails, Hash, Hashes, histVars
<1>5. QED
  BY <1>1, <1>2, <1>3, <1>4 DEF Operation, Guiding, Installing

LEMMA FindNewestStep == ASSUME NewestInv, NEW r \in Ops, FindNewest(r) PROVE Noted(r)' /\ pc'[r] = "supported"
<1> DEFINE known == {j \in Rows : row[j].known}
           snap  == [i \in known |-> row[i]]
           w     == [NoWork EXCEPT !.snap = snap]
<1>0. Typed
  BY DEF NewestInv, ModsInv
<1>1. Goto(r, "supported") /\ Work(r, w)
  BY DEF FindNewest
<1>2. IsWork(w) /\ w.snap = snap
  BY DEF NoWork, IsWork, WorkFields
<1>3. DOMAIN snap = known /\ known \in SUBSET Nat /\ IsFiniteSet(known)
  BY <1>0, RowsAreFinite, FS_Subset DEF Typed
<1>4. \A i \in known : IsRow(snap[i])
  BY <1>0 DEF Typed, RowsFit
<1> HIDE DEF w, snap
<1>5. work'[r].snap = snap /\ pc'[r] = "supported"
  BY <1>0, <1>1, <1>2, Turning
<1>6. QED
  BY <1>3, <1>4, <1>5 DEF Noted

LEMMA SupportedStep == ASSUME NewestInv, NEW r \in Ops, Supported(r) PROVE Found(r)' /\ pc'[r] = "newest"
<1> DEFINE snap == work[r].snap
           S    == DOMAIN snap
<1>0. Typed /\ IsWork(work[r]) /\ pc[r] = "supported" /\ Goto(r, "newest") /\ Noted(r)
  BY DEF NewestInv, ModsInv, Typed, WorksFit, Supported
<1>1. S \in SUBSET Nat /\ IsFiniteSet(S) /\ \A i \in S : IsRow(snap[i])
  BY <1>0 DEF Noted
<1>2. PICK lost \in {{}} \cup {{i} : i \in S} :
        Work(r, [work[r] EXCEPT
            !.snap = [i \in S |-> [snap[i] EXCEPT !.top =
                                     Newest(IF i \in lost THEN {} ELSE Supports[snap[i].proj])]],
            !.v = Newest(Common([n \in DOMAIN InOrder(S) |->
                    IF InOrder(S)[n] \in lost THEN {} ELSE Supports[snap[InOrder(S)[n]].proj]])),
            !.broken = \E i \in S : (IF i \in lost THEN {} ELSE Supports[snap[i].proj]) = {}])
  BY DEF Supported
<1> DEFINE f == [i \in S |-> IF i \in lost THEN {} ELSE Supports[snap[i].proj]]
           sets == [n \in DOMAIN InOrder(S) |-> f[InOrder(S)[n]]]
           x == [i \in S |-> [snap[i] EXCEPT !.top = Newest(f[i])]]
           y == Newest(Common(sets))
           z == \E i \in S : f[i] = {}
           w == [work[r] EXCEPT !.snap = x, !.v = y, !.broken = z]
<1>3. InOrder(S) \in [1 .. Cardinality(S) -> S]
  BY <1>1, OrderLists
<1>4. Work(r, w)
  <2>1. sets = [n \in DOMAIN InOrder(S) |->
                 IF InOrder(S)[n] \in lost THEN {} ELSE Supports[snap[InOrder(S)[n]].proj]]
    BY <1>3
  <2>2. x = [i \in S |-> [snap[i] EXCEPT !.top = Newest(IF i \in lost THEN {} ELSE Supports[snap[i].proj])]]
    OBVIOUS
  <2>3. z = (\E i \in S : (IF i \in lost THEN {} ELSE Supports[snap[i].proj]) = {})
    OBVIOUS
  <2>4. QED
    BY <1>2, <2>1, <2>2, <2>3
<1>5. DOMAIN x = S /\ \A i \in S : x[i].proj = snap[i].proj
  BY <1>1 DEF IsRow, RowFields
<1>6. ASSUME ~z, S # {} PROVE y = NewestOf({snap[i].proj : i \in S})
  <2>1. \A i \in S : f[i] # {} /\ f[i] = Supports[snap[i].proj]
    BY <1>6
  <2> HIDE DEF f
  <2>2. Common(sets) = {v \in UNION {f[i] : i \in S} : \A i \in S : v \in f[i]}
    BY <1>1, <1>6, <2>1, InCommon
  <2>3. PICK ps : ps = {snap[i].proj : i \in S}
    OBVIOUS
  <2>4. {f[i] : i \in S} = {Supports[p] : p \in ps}
    BY <2>1, <2>3
  <2>5. \A v : (\A i \in S : v \in f[i]) <=> (\A p \in ps : v \in Supports[p])
    BY <2>1, <2>3
  <2>6. Common(sets) = {v \in UNION {Supports[p] : p \in ps} : \A p \in ps : v \in Supports[p]}
    BY <2>2, <2>4, <2>5
  <2>7. QED
    BY <2>3, <2>6 DEF NewestOf
<1> HIDE DEF x, y, z
<1>7. IsWork(w) /\ w.snap = x /\ w.v = y /\ w.broken = z
  BY <1>0, WorkChanges DEF IsWork, WorkFields
<1> HIDE DEF w
<1>8. work'[r] = w /\ pc'[r] = "newest"
  BY <1>0, <1>4, <1>7, Turning
<1>9. {x[i].proj : i \in DOMAIN x} = {snap[i].proj : i \in S}
  BY <1>5
<1>10. ASSUME ~w.broken, DOMAIN w.snap # {} PROVE w.v = NewestOf({w.snap[i].proj : i \in DOMAIN w.snap})
  <2>1. w.v = NewestOf({snap[i].proj : i \in S})
    BY <1>5, <1>6, <1>7, <1>10
  <2>2. {w.snap[i].proj : i \in DOMAIN w.snap} = {snap[i].proj : i \in S}
    BY <1>7, <1>9
  <2>3. QED
    BY <2>1, <2>2
<1>11. QED
  BY <1>8, <1>10 DEF Found

LEMMA NewestStep == ASSUME NewestInv, NEW r \in Ops, Operation(r) PROVE NewestInv'
<1>0. ModsInv' /\ Typed
  BY OperationStep DEF NewestInv, ModsInv
<1>1. ASSUME OthersStay(r), Noted(r)', Found(r)' PROVE \A q \in Ops : Noted(q)' /\ Found(q)'
  <2>1. ASSUME NEW q \in Ops \ {r} PROVE Noted(q)' /\ Found(q)'
    <3>1. Noted(q) /\ Found(q) /\ pc'[q] = pc[q] /\ work'[q] = work[q]
      BY <1>1 DEF NewestInv, OthersStay
    <3>2. Noted(q)'
      BY <3>1 DEF Noted
    <3>3. Found(q)'
      BY <3>1 DEF Found
    <3>4. QED
      BY <3>2, <3>3
  <2>2. QED
    BY <1>1, <2>1
<1>2. ASSUME OthersStay(r), pc'[r] \notin {"supported", "newest"} PROVE \A q \in Ops : Noted(q)' /\ Found(q)'
  <2>1. Noted(r)' /\ Found(r)'
    BY <1>2 DEF Noted, Found
  <2>2. QED
    BY <1>1, <1>2, <2>1
<1>3. CASE FindNewest(r)
  <2>1. OthersStay(r)
    BY <1>0, <1>3, GuidingTurns DEF Guiding
  <2>2. Noted(r)' /\ Found(r)'
    BY <1>3, FindNewestStep DEF Found
  <2>3. UNCHANGED <<newest, basis>>
    BY <1>3 DEF FindNewest, histVars
  <2>4. QED
    BY <1>0, <1>1, <2>1, <2>2, <2>3 DEF NewestInv, NewestIsSupported
<1>4. CASE Supported(r)
  <2>1. OthersStay(r)
    BY <1>0, <1>4, GuidingTurns DEF Guiding
  <2>2. Noted(r)' /\ Found(r)'
    BY <1>4, SupportedStep DEF Noted
  <2>3. UNCHANGED <<newest, basis>>
    BY <1>4 DEF Supported, histVars
  <2>4. QED
    BY <1>0, <1>1, <2>1, <2>2, <2>3 DEF NewestInv, NewestIsSupported
<1>5. CASE StoreNewest(r)
  <2>1. pc[r] = "newest" /\ newest' = work[r].v /\ End(r)
        /\ basis' = IF work[r].broken THEN {} ELSE {work[r].snap[i].proj : i \in DOMAIN work[r].snap}
    BY <1>5 DEF StoreNewest
  <2>2. Moves(r)
    BY <1>0, <2>1, EndMoves
  <2>3. basis' # {} => newest' = NewestOf(basis')
    BY <2>1 DEF NewestInv, Found
  <2>4. QED
    BY <1>0, <1>2, <2>2, <2>3 DEF NewestInv, NewestIsSupported, NewestOf, Moves, Relying
<1>6. CASE ~FindNewest(r) /\ ~Supported(r) /\ ~StoreNewest(r)
  <2>1. OthersStay(r) /\ pc'[r] \notin {"supported", "newest"}
    <3>1. CASE Conflicts(r)
      <4>1. Goto(r, "metadata") /\ \E w : Work(r, w)
        BY <3>1 DEF Conflicts
      <4>2. QED
        BY <1>0, <4>1 DEF Typed, StagesFit, WorksFit, Goto, Work, OthersStay
    <3>2. CASE ~Conflicts(r)
      BY <1>0, <1>6, <3>2, OperationMoves, InstallingTurns DEF Moves, Relying, Guiding
    <3>3. QED
      BY <3>1, <3>2
  <2>2. UNCHANGED <<newest, basis>>
    BY <1>6, NewestStays
  <2>3. QED
    BY <1>0, <1>2, <2>1, <2>2 DEF NewestInv, NewestIsSupported
<1>7. QED
  BY <1>3, <1>4, <1>5, <1>6

LEMMA NewestFits == Spec => []NewestInv
<1>1. Init => NewestInv
  <2>1. Init => NewestIsSupported /\ \A r \in Ops : Noted(r) /\ Found(r)
    BY DEF Init, NewestIsSupported, Noted, Found
  <2>2. QED
    BY <2>1, InitFits DEF NewestInv
<1>2. NewestInv /\ [Next]_vars => NewestInv'
  <2> SUFFICES ASSUME NewestInv, [Next]_vars PROVE NewestInv'
    OBVIOUS
  <2>1. CASE \E r \in Ops : Operation(r)
    BY <2>1, NewestStep
  <2>2. CASE (\E p \in Projects : Publish(p)) \/ Expire \/ UNCHANGED vars
    <3>1. UNCHANGED <<row, nextId, files, left, pc, work, twin, tangled, newest, basis>>
      BY <2>2 DEF Publish, Expire, vars, dbVars, opVars, histVars
    <3>2. QED
      BY <3>1, IdleStep DEF NewestInv, NewestIsSupported, Noted, Found
  <2>3. CASE Crash
    <3>1. UNCHANGED <<newest, basis>> /\ \A r \in Ops : pc'[r] \notin {"supported", "newest"}
      BY <2>3 DEF Crash
    <3>2. QED
      BY <2>3, <3>1, CrashStep DEF NewestInv, NewestIsSupported, Noted, Found
  <2>4. QED
    BY <2>1, <2>2, <2>3 DEF Next
<1>3. QED
  BY <1>1, <1>2, PTL DEF Spec

\* NewestIsSupported of every behaviour: what update_max_compatible_version of
\* mod_updater.py stores is the newest Minecraft version that each of the mods
\* supports which find_max_compatible_version has read, whatever they support and
\* in whatever order they come, unless one of them had no version.
THEOREM NewestIsOfAll == Spec => []NewestIsSupported
<1>1. NewestInv => NewestIsSupported
  BY DEF NewestInv
<1>2. QED
  BY <1>1, NewestFits, PTL

-----------------------------------------------------------------------------
(* What following dependencies yields                                      *)

\* Induction over a set of naturals.
LEMMA Counting ==
  ASSUME NEW K, 0 \in K, \A k \in Nat : k \in K => k + 1 \in K
  PROVE  \A k \in Nat : k \in K
<1> DEFINE B == Nat \ K
<1>1. SUFFICES ASSUME B # {} PROVE FALSE
  OBVIOUS
<1>2. PICK x \in B : \A y \in B : x <= y
  BY <1>1, LeastOf
<1>3. x \in Nat /\ x # 0 /\ x - 1 \in Nat
  OBVIOUS
<1>4. x - 1 \in K
  BY <1>2, <1>3
<1>5. x \in K
  BY <1>3, <1>4
<1>6. QED
  BY <1>5

\* What holds of the start, and of each step if it held of the one before, holds
\* of what following projects in turn yields.
LEMMA InTurnKeeps ==
  ASSUME NEW n \in Nat, NEW qs, DOMAIN qs = 1 .. n, NEW base, NEW G, NEW J,
         base \in J[0], \A k \in 1 .. n : \A acc \in J[k - 1] : G[<<qs[k], acc>>] \in J[k]
  PROVE  InTurn(G, base, qs) \in J[n]
<1> DEFINE D == 1 .. n
           Upto(k) == {s \in SUBSET D : Cardinality(s) <= k}
           Step(h, s) == IF s = {} THEN base ELSE G[<<qs[Max(s)], h[s \ {Max(s)}]>>]
           Whole(h, k) == h = [s \in Upto(k) |-> Step(h, s)]
           Full(h) == h = [s \in SUBSET D |-> Step(h, s)]
           K == {k \in Nat : \E h : Whole(h, k)}
<1>0. IsFiniteSet(D) /\ Cardinality(D) = n
  BY FS_Interval
<1>1. \A s \in SUBSET D : IsFiniteSet(s) /\ Cardinality(s) \in Nat /\ Cardinality(s) <= n
  BY <1>0, FS_Subset, FS_CardinalityType
<1>2. \A s \in SUBSET D : s # {} =>
        Max(s) \in s /\ s \ {Max(s)} \in SUBSET D /\ Cardinality(s \ {Max(s)}) = Cardinality(s) - 1
  <2>1. ASSUME NEW s \in SUBSET D, s # {}
        PROVE Max(s) \in s /\ s \ {Max(s)} \in SUBSET D /\ Cardinality(s \ {Max(s)}) = Cardinality(s) - 1
    <3>1. PICK m : m = Max(s)
      OBVIOUS
    <3>2. m \in s
      BY <2>1, <3>1, MaxIsIn
    <3>3. Cardinality(s \ {m}) = Cardinality(s) - 1
      BY <1>1, <3>2, FS_RemoveElement
    <3>4. QED
      BY <3>1, <3>2, <3>3
  <2>2. QED
    BY <2>1
<1>3. 0 \in K
  <2> DEFINE h == [s \in Upto(0) |-> base]
  <2>1. \A s \in Upto(0) : s = {}
    BY <1>1, FS_EmptySet
  <2>2. Whole(h, 0)
    BY <2>1
  <2>3. QED
    BY <2>2
<1>4. ASSUME NEW k \in Nat, k \in K PROVE k + 1 \in K
  <2>1. PICK h : Whole(h, k)
    BY <1>4
  <2> DEFINE g == [s \in Upto(k + 1) |-> Step(h, s)]
  <2>2. \A s \in Upto(k) : s \in Upto(k + 1) /\ g[s] = h[s]
    <3>1. \A s \in Upto(k) : s \in Upto(k + 1)
      BY <1>1
    <3>2. \A s \in Upto(k) : h[s] = Step(h, s)
      BY <2>1
    <3> HIDE DEF Step, Upto
    <3>3. QED
      BY <3>1, <3>2
  <2>3. \A s \in Upto(k + 1) : s # {} => s \ {Max(s)} \in Upto(k)
    <3>1. ASSUME NEW s \in Upto(k + 1), s # {} PROVE s \ {Max(s)} \in Upto(k)
      <4>1. PICK m : m = Max(s)
        OBVIOUS
      <4>2. s \in SUBSET D /\ Cardinality(s) \in Nat /\ Cardinality(s) <= k + 1
        BY <1>1
      <4>3. s \ {m} \in SUBSET D /\ Cardinality(s \ {m}) = Cardinality(s) - 1
        BY <1>2, <3>1, <4>1, <4>2
      <4>4. QED
        BY <4>1, <4>2, <4>3
    <3>2. QED
      BY <3>1
  <2>4. \A s \in Upto(k + 1) : Step(h, s) = Step(g, s)
    <3> HIDE DEF g, Upto
    <3>1. QED
      BY <2>2, <2>3
  <2>5. Whole(g, k + 1)
    <3> HIDE DEF Step, Upto
    <3>1. QED
      BY <2>4
  <2>6. QED
    <3> HIDE DEF Whole
    <3>1. QED
      BY <2>5
<1>5. PICK e : Whole(e, n)
  <2> HIDE DEF K
  <2>1. n \in K
    BY <1>3, <1>4, Counting
  <2>2. QED
    BY <2>1 DEF K
<1>6. Upto(n) = SUBSET D
  BY <1>1
<1>7. Full(e)
  BY <1>5, <1>6
<1>8. PICK h : h = CHOOSE g : Full(g)
  OBVIOUS
<1>9. Full(h)
  BY <1>7, <1>8
<1>10. InTurn(G, base, qs) = h[D]
  BY <1>8 DEF InTurn, FoldLeft, MapThenFoldSet
<1> DEFINE M == {k \in Nat : k <= n => h[1 .. k] \in J[k]}
<1>11. 0 \in M
  BY <1>9
<1>12. ASSUME NEW k \in Nat, k \in M PROVE k + 1 \in M
  <2>1. SUFFICES ASSUME k + 1 <= n PROVE h[1 .. (k + 1)] \in J[k + 1]
    OBVIOUS
  <2>2. 1 .. (k + 1) \in SUBSET D /\ 1 .. (k + 1) # {} /\ k + 1 \in 1 .. n
    <3> HIDE DEF M, K, Full, Whole, Step, Upto
    <3>1. k + 1 \in 1 .. (k + 1) /\ k + 1 \in 1 .. n
      BY <2>1
    <3>2. \A x \in 1 .. (k + 1) : x \in 1 .. n
      BY <2>1
    <3>3. QED
      BY <3>1, <3>2
  <2>3. PICK m : m = Max(1 .. (k + 1))
    OBVIOUS
  <2>4. m = k + 1
    <3>1. k + 1 \in 1 .. (k + 1) /\ \A x \in 1 .. (k + 1) : k + 1 >= x
      OBVIOUS
    <3>2. m \in 1 .. (k + 1) /\ \A x \in 1 .. (k + 1) : m >= x
      BY <2>3, <3>1 DEF Max
    <3>3. QED
      BY <3>1, <3>2
  <2>5. (1 .. (k + 1)) \ {m} = 1 .. k
    BY <2>4
  <2>6. h[1 .. (k + 1)] = G[<<qs[k + 1], h[1 .. k]>>]
    BY <1>9, <2>2, <2>3, <2>4, <2>5
  <2>7. h[1 .. k] \in J[k]
    BY <1>12, <2>1
  <2>8. QED
    BY <2>2, <2>6, <2>7
<1>13. h[D] \in J[n]
  <2>1. n \in M
    <3> HIDE DEF M
    <3>1. QED
      BY <1>11, <1>12, Counting
  <2>2. QED
    BY <2>1
<1>14. QED
  BY <1>10, <1>13

\* A level is computed from the one below.
LEMMA Levels ==
  ASSUME NEW inst, NEW bad, NEW needs
  PROVE  \E L : /\ Resolve(inst, bad, needs) = L[MaxDepth + 1]
                /\ \A n \in 0 .. MaxDepth + 1, p \in Projects, st \in Lists :
                     L[n][<<p, st>>] = IF n = 0 THEN st ELSE After(p, st, L[n - 1], inst, bad, needs)
<1> DEFINE Body(L, n) == [x \in Projects \X Lists |->
                            IF n = 0 THEN x[2] ELSE After(x[1], x[2], L[n - 1], inst, bad, needs)]
           Whole(L, k) == L = [n \in 0 .. k |-> Body(L, n)]
           K == {k \in Nat : \E L : Whole(L, k)}
<1>1. 0 \in K
  <2> DEFINE L == [n \in 0 .. 0 |-> [x \in Projects \X Lists |-> x[2]]]
  <2>1. \A n \in 0 .. 0 : n = 0 /\ Body(L, n) = [x \in Projects \X Lists |-> x[2]]
    OBVIOUS
  <2>2. Whole(L, 0)
    <3> HIDE DEF Body
    <3>1. QED
      BY <2>1
  <2> HIDE DEF Whole, L
  <2>3. QED
    BY <2>2
<1>2. ASSUME NEW k \in Nat, k \in K PROVE k + 1 \in K
  <2>1. PICK L : Whole(L, k)
    BY <1>2
  <2> DEFINE M == [n \in 0 .. (k + 1) |-> Body(L, n)]
  <2>2. \A n \in 0 .. k : M[n] = L[n]
    <3> HIDE DEF Body
    <3>1. \A n \in 0 .. k : n \in 0 .. (k + 1) /\ L[n] = Body(L, n)
      BY <2>1
    <3>2. QED
      BY <3>1
  <2>3. \A n \in 0 .. (k + 1) : Body(L, n) = Body(M, n)
    <3> HIDE DEF M
    <3>1. ASSUME NEW n \in 0 .. (k + 1) PROVE Body(L, n) = Body(M, n)
      <4>1. CASE n = 0
        BY <4>1
      <4>2. CASE n # 0
        <5>1. L[n - 1] = M[n - 1]
          BY <2>2, <4>2
        <5>2. QED
          BY <5>1
      <4>3. QED
        BY <4>1, <4>2
    <3>2. QED
      BY <3>1
  <2>4. Whole(M, k + 1)
    <3> HIDE DEF Body
    <3>1. QED
      BY <2>3
  <2> HIDE DEF Whole, M
  <2>5. QED
    BY <2>4
<1>3. \E L : Whole(L, MaxDepth + 1)
  <2>1. MaxDepth + 1 \in Nat
    BY DEF MaxDepth
  <2>2. MaxDepth + 1 \in K
    <3> HIDE DEF K
    <3>1. QED
      BY <1>1, <1>2, <2>1, Counting
  <2>3. QED
    BY <2>2
<1>4. PICK L : L = CHOOSE M : Whole(M, MaxDepth + 1)
  OBVIOUS
<1>5. Whole(L, MaxDepth + 1)
  BY <1>3, <1>4
<1>6. Resolve(inst, bad, needs) = L[MaxDepth + 1]
  BY <1>4 DEF Resolve
<1>7. \A n \in 0 .. MaxDepth + 1 : L[n] = Body(L, n)
  <2> HIDE DEF Body
  <2>1. QED
    BY <1>5
<1>8. ASSUME NEW n \in 0 .. MaxDepth + 1, NEW p \in Projects, NEW st \in Lists
      PROVE  L[n][<<p, st>>] = IF n = 0 THEN st ELSE After(p, st, L[n - 1], inst, bad, needs)
  <2>1. <<p, st>> \in Projects \X Lists /\ <<p, st>>[1] = p /\ <<p, st>>[2] = st
    OBVIOUS
  <2>2. QED
    BY <1>7, <2>1
<1>9. QED
  BY <1>6, <1>8

-----------------------------------------------------------------------------
(* The order of the dependencies                                           *)

\* The dependencies, of whatever versions, have no cycle and are nowhere deeper
\* than they are followed.
Shallow(depth) ==
  /\ depth \in [Projects -> 0 .. MaxDepth]
  /\ \A p \in Projects, v \in Versions : \A q \in Range(Requires[p][v]) : depth[q] < depth[p]

\* So are those of the versions that were looked up.
Flat(depth, needs) ==
  /\ depth \in [Projects -> 0 .. MaxDepth] /\ needs \in [Projects -> Seq(Projects)]
  /\ \A p \in Projects : \A q \in Range(needs[p]) : depth[q] < depth[p]

LEMMA NeedsAreFlat ==
  ASSUME NEW depth, Shallow(depth), NEW at \in [Projects -> Versions]
  PROVE  Flat(depth, Needs(at))
<1>1. \A p \in Projects : Needs(at)[p] \in {<<>>, Requires[p][at[p]]}
  BY DEF Needs
<1>2. \A p \in Projects : at[p] \in Versions /\ Requires[p][at[p]] \in Seq(Projects)
  BY ProjectAssumption
<1>3. Needs(at) \in [Projects -> Seq(Projects)]
  <2>1. <<>> \in Seq(Projects)
    OBVIOUS
  <2>2. \A p \in Projects : Needs(at)[p] \in Seq(Projects)
    BY <1>1, <1>2, <2>1
  <2>3. Needs(at) = [p \in Projects |-> Needs(at)[p]]
    BY DEF Needs
  <2>4. QED
    BY <2>2, <2>3
<1>4. ASSUME NEW p \in Projects, NEW q \in Range(Needs(at)[p]) PROVE depth[q] < depth[p]
  <2>1. Range(<<>>) = {}
    BY DEF Range
  <2>2. q \in Range(Requires[p][at[p]])
    BY <1>1, <2>1
  <2>3. QED
    BY <1>2, <2>2 DEF Shallow
<1>5. QED
  BY <1>3, <1>4 DEF Flat, Shallow

\* Every project of the list comes after what it requires, but for C.
Ordered(list, C, needs) ==
  \A j \in 1 .. Len(list) : Range(needs[list[j]]) \subseteq C \cup {list[i] : i \in 1 .. (j - 1)}

\* What has been seen is listed or in C, but for the projects A whose own
\* dependencies are being followed.
Sound(st, A, C, depth, top, needs) ==
  /\ st \in Lists /\ st.seen \subseteq A \cup C \cup Range(st.list)
  /\ Ordered(st.list, C, needs) /\ \A x \in Range(st.list) : depth[x] <= top

Done(new, st, p, A, C, depth, top, needs) ==
  Sound(new, A, C, depth, top, needs) /\ Range(st.list) \subseteq Range(new.list) /\ p \in C \cup Range(new.list)

\* deeper is right about the projects of less depth than n.
Right(deeper, n, C, depth, needs) ==
  \A q \in Projects, st \in Lists, A \in SUBSET Projects, top \in Int :
    depth[q] < n /\ depth[q] <= top /\ Sound(st, A, C, depth, top, needs) /\ (\A a \in A : depth[a] > depth[q])
      => Done(deeper[<<q, st>>], st, q, A, C, depth, top, needs)

Covers(C, inst, bad) ==
  inst \subseteq C /\ \A q \in Projects : bad \in {<<q, "early">>, <<q, "late">>} => q \in C

LEMMA Appending ==
  ASSUME NEW list \in Seq(Projects), NEW p \in Projects, NEW needs
  PROVE  /\ Append(list, p) \in Seq(Projects) /\ Range(Append(list, p)) = Range(list) \cup {p}
         /\ \A C : Ordered(list, C, needs) /\ Range(needs[p]) \subseteq C \cup Range(list)
                    => Ordered(Append(list, p), C, needs)
<1>1. PICK new : new = Append(list, p)
  OBVIOUS
<1>2. /\ new \in Seq(Projects) /\ Len(new) = Len(list) + 1 /\ Len(list) \in Nat
      /\ \A i \in 1 .. Len(list) : new[i] = list[i]
      /\ new[Len(list) + 1] = p /\ DOMAIN new = 1 .. Len(new) /\ DOMAIN list = 1 .. Len(list)
  BY <1>1
<1>3. Range(new) = Range(list) \cup {p}
  BY <1>2 DEF Range
<1>4. ASSUME NEW C, Ordered(list, C, needs), Range(needs[p]) \subseteq C \cup Range(list) PROVE Ordered(new, C, needs)
  <2>1. ASSUME NEW j \in 1 .. Len(new) PROVE Range(needs[new[j]]) \subseteq C \cup {new[i] : i \in 1 .. (j - 1)}
    <3>1. CASE j \in 1 .. Len(list)
      <4>1. Range(needs[list[j]]) \subseteq C \cup {list[i] : i \in 1 .. (j - 1)}
        BY <1>4, <3>1 DEF Ordered
      <4>2. \A i \in 1 .. (j - 1) : i \in 1 .. Len(list) /\ list[i] = new[i]
        BY <1>2, <3>1
      <4>3. new[j] = list[j]
        BY <1>2, <3>1
      <4>4. QED
        BY <4>1, <4>2, <4>3
    <3>2. CASE j = Len(list) + 1
      <4>1. \A x \in Range(list) : \E i \in 1 .. (j - 1) : x = new[i]
        BY <1>2, <3>2 DEF Range
      <4>2. new[j] = p
        BY <1>2, <3>2
      <4>3. QED
        BY <1>4, <4>1, <4>2
    <3>3. QED
      BY <1>2, <3>1, <3>2
  <2>2. QED
    BY <2>1 DEF Ordered
<1>5. QED
  BY <1>1, <1>2, <1>3, <1>4

\* After the dependencies of p have been followed in turn.
LEMMA SubsSound ==
  ASSUME NEW depth, NEW needs, Flat(depth, needs), NEW deeper, NEW n \in Nat, NEW C, Right(deeper, n, C, depth, needs),
         NEW p \in Projects, NEW st, NEW A \in SUBSET Projects, NEW top \in Int,
         Sound(st, A, C, depth, top, needs), depth[p] < n + 1, \A a \in A : depth[a] >= depth[p],
         \A q \in Range(needs[p]) : depth[q] <= top
  PROVE  LET subs == InTurn(deeper, [st EXCEPT !.seen = @ \cup {p}], needs[p]) IN
         /\ Sound(subs, A \cup {p}, C, depth, top, needs) /\ Range(st.list) \subseteq Range(subs.list)
         /\ Range(needs[p]) \subseteq C \cup Range(subs.list)
<1> DEFINE qs == needs[p]
           m == Len(qs)
           B == A \cup {p}
           base == [st EXCEPT !.seen = @ \cup {p}]
           J == [k \in 0 .. m |-> {acc \in Lists :
                   /\ Sound(acc, B, C, depth, top, needs) /\ Range(st.list) \subseteq Range(acc.list)
                   /\ \A j \in 1 .. k : qs[j] \in C \cup Range(acc.list)}]
<1>0. qs \in Seq(Projects) /\ m \in Nat /\ DOMAIN qs = 1 .. m /\ \A k \in 1 .. m : qs[k] \in Projects
  BY DEF Flat
<1>1. \A k \in 1 .. m : qs[k] \in Range(needs[p]) /\ depth[qs[k]] < depth[p]
  BY <1>0 DEF Flat, Range
<1>2. base \in Lists /\ base.list = st.list /\ base.seen = st.seen \cup {p}
  BY DEF Sound, Lists
<1>3. Sound(base, B, C, depth, top, needs)
  <2>1. base.seen \subseteq B \cup C \cup Range(base.list)
    BY <1>2 DEF Sound
  <2> HIDE DEF base
  <2>2. QED
    BY <1>2, <2>1 DEF Sound
<1>4. base \in J[0]
  <2> HIDE DEF base
  <2>1. QED
    BY <1>0, <1>2, <1>3
<1>5. ASSUME NEW k \in 1 .. m, NEW acc \in J[k - 1] PROVE deeper[<<qs[k], acc>>] \in J[k]
  <2>1. k - 1 \in 0 .. m /\ k \in 0 .. m
    BY <1>0
  <2>2. /\ acc \in Lists /\ Sound(acc, B, C, depth, top, needs) /\ Range(st.list) \subseteq Range(acc.list)
        /\ \A j \in 1 .. (k - 1) : qs[j] \in C \cup Range(acc.list)
    BY <2>1
  <2>3. PICK q : q = qs[k]
    OBVIOUS
  <2>4. q \in Projects /\ depth[q] < depth[p] /\ depth[q] <= top /\ depth[q] \in Nat /\ depth[p] \in Nat
    BY <1>0, <1>1, <2>3 DEF Flat
  <2>5. \A a \in B : depth[a] > depth[q]
    <3>1. \A a \in A : depth[a] \in Nat /\ depth[a] >= depth[p]
      BY DEF Flat
    <3>2. QED
      BY <2>4, <3>1
  <2>6. depth[q] < n /\ B \in SUBSET Projects
    BY <2>4
  <2> HIDE DEF J, B
  <2>7. PICK new : new = deeper[<<q, acc>>]
    OBVIOUS
  <2>8. Done(new, acc, q, B, C, depth, top, needs)
    BY <2>2, <2>4, <2>5, <2>6, <2>7 DEF Right
  <2>9. /\ new \in Lists /\ Sound(new, B, C, depth, top, needs) /\ Range(st.list) \subseteq Range(new.list)
        /\ q \in C \cup Range(new.list) /\ Range(acc.list) \subseteq Range(new.list)
    BY <2>2, <2>8 DEF Done, Sound
  <2>10. \A j \in 1 .. k : qs[j] \in C \cup Range(new.list)
    <3>1. \A j \in 1 .. k : j = k \/ j \in 1 .. (k - 1)
      BY <1>0
    <3>2. QED
      BY <2>2, <2>3, <2>9, <3>1
  <2>11. new \in J[k]
    BY <2>1, <2>9, <2>10 DEF J
  <2>12. QED
    BY <2>3, <2>7, <2>11
<1>6. InTurn(deeper, base, qs) \in J[m]
  <2> HIDE DEF J, base, qs, m
  <2>1. QED
    BY <1>0, <1>4, <1>5, InTurnKeeps
<1>7. PICK subs : subs = InTurn(deeper, base, qs)
  OBVIOUS
<1>8. /\ Sound(subs, B, C, depth, top, needs) /\ Range(st.list) \subseteq Range(subs.list)
      /\ \A j \in 1 .. m : qs[j] \in C \cup Range(subs.list)
  <2>1. m \in 0 .. m
    BY <1>0
  <2> HIDE DEF base
  <2>2. subs \in J[m]
    BY <1>6, <1>7
  <2>3. QED
    BY <2>1, <2>2
<1>9. Range(qs) \subseteq C \cup Range(subs.list)
  BY <1>0, <1>8 DEF Range
<1>10. QED
  BY <1>7, <1>8, <1>9

LEMMA AfterSound ==
  ASSUME NEW depth, NEW needs, Flat(depth, needs), NEW deeper, NEW n \in Nat, NEW C, Right(deeper, n, C, depth, needs),
         NEW inst, NEW bad, Covers(C, inst, bad),
         NEW p \in Projects, NEW st, NEW A \in SUBSET Projects, NEW top \in Int,
         Sound(st, A, C, depth, top, needs), depth[p] < n + 1, depth[p] <= top, \A a \in A : depth[a] > depth[p]
  PROVE  Done(After(p, st, deeper, inst, bad, needs), st, p, A, C, depth, top, needs)
<1> DEFINE seen == [st EXCEPT !.seen = @ \cup {p}]
           subs == InTurn(deeper, seen, needs[p])
           all  == [subs EXCEPT !.list = Append(@, p)]
<1>1. CASE p \in st.seen \cup inst
  <2>1. After(p, st, deeper, inst, bad, needs) = st
    BY <1>1 DEF After
  <2>2. p \notin A
    BY DEF Flat
  <2>3. p \in C \cup Range(st.list)
    BY <1>1, <2>2 DEF Sound, Covers
  <2>4. QED
    BY <2>1, <2>3 DEF Done
<1>2. CASE p \notin st.seen \cup inst
  <2>0. /\ depth[p] \in Nat /\ \A a \in A : depth[a] \in Nat
        /\ \A q \in Range(needs[p]) : depth[q] \in Nat /\ depth[q] < depth[p]
    <3>1. Range(needs[p]) \subseteq Projects
      BY DEF Flat, Range
    <3>2. QED
      BY <3>1 DEF Flat
  <2>1. seen \in Lists /\ seen.list = st.list /\ seen.seen = st.seen \cup {p}
    BY DEF Sound, Lists
  <2>2. /\ Sound(subs, A \cup {p}, C, depth, top, needs) /\ Range(st.list) \subseteq Range(subs.list)
        /\ Range(needs[p]) \subseteq C \cup Range(subs.list)
    <3>1. (\A a \in A : depth[a] >= depth[p]) /\ (\A q \in Range(needs[p]) : depth[q] <= top)
      BY <2>0
    <3>2. QED
      BY <3>1, SubsSound
  <2> HIDE DEF seen, subs
  <2>3. subs \in Lists
    BY <2>2 DEF Sound
  <2>4. CASE bad = <<p, "early">>
    <3>1. After(p, st, deeper, inst, bad, needs) = seen
      BY <1>2, <2>4 DEF After, seen
    <3>2. p \in C
      BY <2>4 DEF Covers
    <3>3. Sound(seen, A, C, depth, top, needs)
      BY <2>1, <3>2 DEF Sound
    <3>4. QED
      BY <2>1, <3>1, <3>2, <3>3 DEF Done
  <2>5. CASE bad = <<p, "late">>
    <3>1. bad # <<p, "early">>
      BY <2>5
    <3>2. After(p, st, deeper, inst, bad, needs) = subs
      BY <1>2, <2>5, <3>1 DEF After, seen, subs
    <3>3. p \in C
      BY <2>5 DEF Covers
    <3>4. Sound(subs, A, C, depth, top, needs)
      BY <2>2, <3>3 DEF Sound
    <3>5. QED
      BY <2>2, <3>2, <3>3, <3>4 DEF Done
  <2>6. CASE bad \notin {<<p, "early">>, <<p, "late">>}
    <3>1. After(p, st, deeper, inst, bad, needs) = all
      BY <1>2, <2>6 DEF After, seen, subs
    <3>2. all \in Lists /\ all.seen = subs.seen /\ all.list = Append(subs.list, p)
          /\ subs.list \in Seq(Projects)
      BY <2>3, Appending DEF Lists
    <3> HIDE DEF all
    <3>3. Range(all.list) = Range(subs.list) \cup {p} /\ Ordered(all.list, C, needs)
      BY <2>2, <3>2, Appending DEF Sound
    <3>4. Sound(all, A, C, depth, top, needs)
      BY <2>0, <2>2, <3>2, <3>3 DEF Sound
    <3>5. QED
      BY <2>2, <3>1, <3>3, <3>4 DEF Done
  <2>7. QED
    BY <2>4, <2>5, <2>6
<1>3. QED
  BY <1>1, <1>2

LEMMA LevelsSound ==
  ASSUME NEW depth, NEW needs, Flat(depth, needs), NEW inst, NEW bad, NEW C, Covers(C, inst, bad), NEW L,
         \A n \in 0 .. MaxDepth + 1, p \in Projects, st \in Lists :
           L[n][<<p, st>>] = IF n = 0 THEN st ELSE After(p, st, L[n - 1], inst, bad, needs)
  PROVE  \A n \in 0 .. MaxDepth + 1 : Right(L[n], n, C, depth, needs)
<1> DEFINE K == {n \in Nat : n <= MaxDepth + 1 => Right(L[n], n, C, depth, needs)}
<1>0. MaxDepth \in Nat
  BY DEF MaxDepth
<1>1. 0 \in K
  <2>1. \A q \in Projects : ~(depth[q] < 0)
    BY <1>0 DEF Flat
  <2>2. Right(L[0], 0, C, depth, needs)
    BY <2>1 DEF Right
  <2>3. QED
    BY <2>2
<1>2. ASSUME NEW n \in Nat, n \in K PROVE n + 1 \in K
  <2>1. SUFFICES ASSUME n + 1 <= MaxDepth + 1 PROVE Right(L[n + 1], n + 1, C, depth, needs)
    OBVIOUS
  <2>2. Right(L[n], n, C, depth, needs)
    BY <1>0, <1>2, <2>1
  <2>3. ASSUME NEW q \in Projects, NEW st \in Lists, NEW A \in SUBSET Projects, NEW top \in Int,
               depth[q] < n + 1, depth[q] <= top, Sound(st, A, C, depth, top, needs), \A a \in A : depth[a] > depth[q]
        PROVE  Done(L[n + 1][<<q, st>>], st, q, A, C, depth, top, needs)
    <3>1. n + 1 \in 0 .. MaxDepth + 1 /\ n + 1 # 0 /\ (n + 1) - 1 = n
      BY <1>0, <2>1
    <3>2. L[n + 1][<<q, st>>] = After(q, st, L[n], inst, bad, needs)
      BY <3>1
    <3>3. QED
      BY <2>2, <2>3, <3>2, AfterSound
  <2>4. QED
    BY <2>3 DEF Right
<1>3. \A n \in Nat : n \in K
  <2> HIDE DEF K
  <2>1. QED
    BY <1>1, <1>2, Counting
<1>4. QED
  BY <1>0, <1>3

\* What is missed by a lookup that fails; a target is installed all the same, but
\* nobody knows what it requires.
Missed(p, bad) == {q \in Projects \ {p} : bad \in {<<q, "early">>, <<q, "late">>}}
Told(p, bad, needs) == IF bad \in {<<p, "early">>, <<p, "late">>} THEN [needs EXCEPT ![p] = <<>>] ELSE needs

LEMMA OrderedGrows ==
  ASSUME NEW list, NEW C, NEW D, NEW needs, C \subseteq D, Ordered(list, C, needs)
  PROVE  Ordered(list, D, needs)
BY DEF Ordered

LEMMA SingleOrdered ==
  ASSUME NEW p \in Projects, NEW C, NEW needs, Range(needs[p]) \subseteq C
  PROVE  <<p>> \in Seq(Projects) /\ Ordered(<<p>>, C, needs)
BY DEF Ordered

LEMMA ToldOrdered ==
  ASSUME NEW needs \in [Projects -> Seq(Projects)], NEW p \in Projects
  PROVE  LET told == [needs EXCEPT ![p] = <<>>] IN
         /\ Range(told[p]) = {}
         /\ \A C : \A list \in Seq(Projects) : Ordered(list, C, needs) => Ordered(list, C, told)
<1> DEFINE told == [needs EXCEPT ![p] = <<>>]
<1>1. Range(told[p]) = {} /\ \A x \in Projects : x # p => told[x] = needs[x]
  BY DEF Range
<1> HIDE DEF told
<1>2. \A x \in Projects : Range(told[x]) \subseteq Range(needs[x])
  BY <1>1
<1>3. ASSUME NEW list \in Seq(Projects), NEW C, Ordered(list, C, needs) PROVE Ordered(list, C, told)
  <2>1. \A j \in 1 .. Len(list) : list[j] \in Projects
    OBVIOUS
  <2>2. QED
    BY <1>2, <1>3, <2>1 DEF Ordered
<1>4. QED
  BY <1>1, <1>3 DEF told

\* What is installed for a target, in its order: each project after what it
\* requires, but for what is installed and what was missed.
LEMMA ResolvedOrder ==
  ASSUME NEW depth, NEW needs, Flat(depth, needs), NEW p \in Projects, NEW inst, NEW bad
  PROVE  /\ Resolved(p, inst, bad, needs) \in Seq(Projects) /\ Len(Resolved(p, inst, bad, needs)) > 0
         /\ p \in inst => Resolved(p, inst, bad, needs) = <<p>>
         /\ p \notin inst => Ordered(Resolved(p, inst, bad, needs), inst \cup Missed(p, bad), Told(p, bad, needs))
<1> DEFINE empty == [seen |-> {}, list |-> <<>>]
           N == MaxDepth + 1
           M == inst \cup Missed(p, bad)
           told == Told(p, bad, needs)
<1>0. N \in Nat /\ N - 1 \in Nat /\ N - 1 \in 0 .. N /\ N \in 0 .. N /\ N # 0 /\ MaxDepth = N - 1
  BY DEF MaxDepth
<1>1. PICK L : /\ Resolve(inst, bad, needs) = L[MaxDepth + 1]
               /\ \A n \in 0 .. MaxDepth + 1, q \in Projects, st \in Lists :
                    L[n][<<q, st>>] = IF n = 0 THEN st ELSE After(q, st, L[n - 1], inst, bad, needs)
  BY Levels
<1>2. empty \in Lists /\ empty.list = <<>> /\ empty.seen = {} /\ <<>> \in Seq(Projects)
  BY DEF Lists
<1> HIDE DEF empty, N
<1> DEFINE deeper == L[N - 1]
           st == After(p, empty, deeper, inst, bad, needs)
<1>3. Resolve(inst, bad, needs)[<<p, empty>>] = st
  BY <1>0, <1>1, <1>2 DEF N
<1>4. Resolved(p, inst, bad, needs) = IF st.list = <<>> THEN <<p>> ELSE Append(Front(st.list), p)
  BY <1>3 DEF Resolved, empty
<1>5. depth[p] \in Nat /\ depth[p] <= N - 1
  BY <1>0 DEF Flat
<1> HIDE DEF st
<1>6. ASSUME st.list = <<>> PROVE Resolved(p, inst, bad, needs) = <<p>> /\ <<p>> \in Seq(Projects) /\ Len(<<p>>) > 0
  BY <1>4, <1>6
<1>7. CASE p \in inst
  <2>1. st = empty
    BY <1>7 DEF After, st
  <2>2. QED
    BY <1>2, <1>6, <1>7, <2>1
<1>8. CASE p \notin inst
  <2> DEFINE seen == [empty EXCEPT !.seen = @ \cup {p}]
             subs == InTurn(deeper, seen, needs[p])
  <2>0. p \notin empty.seen \cup inst
    BY <1>2, <1>8
  <2>1. seen.list = <<>>
    BY <1>2 DEF empty
  <2>2. \A C : Covers(C, inst, bad) =>
          /\ Sound(subs, {p}, C, depth, depth[p] - 1, needs) /\ Range(needs[p]) \subseteq C \cup Range(subs.list)
    <3>1. ASSUME NEW C, Covers(C, inst, bad)
          PROVE  /\ Sound(subs, {p}, C, depth, depth[p] - 1, needs)
                 /\ Range(needs[p]) \subseteq C \cup Range(subs.list)
      <4>1. Right(deeper, N - 1, C, depth, needs)
        BY <1>0, <1>1, <3>1, LevelsSound DEF N
      <4>2. Sound(empty, {}, C, depth, depth[p] - 1, needs)
        BY <1>2 DEF Sound, Ordered, Range
      <4>3. \A q \in Range(needs[p]) : depth[q] <= depth[p] - 1
        <5>1. \A q \in Range(needs[p]) : q \in Projects /\ depth[q] < depth[p]
          BY DEF Flat, Range
        <5>2. \A q \in Range(needs[p]) : depth[q] \in Nat
          BY <5>1 DEF Flat
        <5>3. QED
          BY <1>5, <5>1, <5>2
      <4>4. {} \in SUBSET Projects /\ (\A a \in {} : depth[a] >= depth[p]) /\ {} \cup {p} = {p}
            /\ depth[p] < (N - 1) + 1 /\ depth[p] - 1 \in Int
        BY <1>0, <1>5
      <4> HIDE DEF deeper
      <4>5. PICK A : A = {}
        OBVIOUS
      <4>6. /\ Sound(subs, A \cup {p}, C, depth, depth[p] - 1, needs)
            /\ Range(needs[p]) \subseteq C \cup Range(subs.list)
        <5>1. /\ A \in SUBSET Projects /\ Sound(empty, A, C, depth, depth[p] - 1, needs)
              /\ \A a \in A : depth[a] >= depth[p]
          BY <4>2, <4>5
        <5>2. PICK k : k = N - 1
          OBVIOUS
        <5>3. PICK top : top = depth[p] - 1
          OBVIOUS
        <5>4. k \in Nat /\ depth[p] < k + 1 /\ top \in Int /\ Right(deeper, k, C, depth, needs)
              /\ Sound(empty, A, C, depth, top, needs) /\ \A q \in Range(needs[p]) : depth[q] <= top
          BY <1>0, <4>1, <4>3, <4>4, <5>1, <5>2, <5>3
        <5>5. /\ Sound(subs, A \cup {p}, C, depth, top, needs)
              /\ Range(needs[p]) \subseteq C \cup Range(subs.list)
          BY <5>1, <5>4, SubsSound
        <5>6. QED
          BY <5>3, <5>5
      <4>7. QED
        BY <4>4, <4>5, <4>6
    <3>2. QED
      BY <3>1
  <2>3. subs.list \in Seq(Projects)
    <3>1. Covers(inst \cup Projects, inst, bad)
      BY DEF Covers
    <3>2. QED
      BY <2>2, <3>1 DEF Sound, Lists
  <2> HIDE DEF subs, seen, deeper, told
  <2>4. CASE bad = <<p, "early">>
    <3>1. st = seen
      BY <2>0, <2>4 DEF After, st, seen
    <3>2. Range(told[p]) \subseteq M
      BY <2>4, ToldOrdered DEF Told, Flat, told
    <3>3. QED
      BY <1>6, <1>8, <2>1, <3>1, <3>2, SingleOrdered DEF told
  <2>5. CASE bad = <<p, "late">>
    <3>1. bad # <<p, "early">>
      BY <2>5
    <3>2. st = subs
      BY <2>0, <2>5, <3>1 DEF After, st, seen, subs
    <3>3. /\ Range(told[p]) = {}
          /\ \A C : \A list \in Seq(Projects) : Ordered(list, C, needs) => Ordered(list, C, told)
      BY <2>5, ToldOrdered DEF Told, Flat, told
    <3>4. CASE st.list = <<>>
      BY <1>6, <1>8, <3>3, <3>4, SingleOrdered DEF told
    <3>5. CASE st.list # <<>>
      <4>1. PICK list : list = Front(subs.list)
        OBVIOUS
      <4>2. /\ list \in Seq(Projects) /\ Len(list) <= Len(subs.list) /\ Len(list) \in Nat
            /\ \A i \in 1 .. Len(list) : list[i] = subs.list[i]
        BY <2>3, <3>2, <3>5, <4>1 DEF Front
      <4>3. Covers(inst \cup {p}, inst, bad)
        BY <2>5 DEF Covers
      <4>4. Ordered(subs.list, inst \cup {p}, needs) /\ \A x \in Range(subs.list) : depth[x] <= depth[p] - 1
        BY <2>2, <4>3 DEF Sound
      <4>5. Ordered(list, inst, needs)
        <5>1. ASSUME NEW j \in 1 .. Len(list)
              PROVE  Range(needs[list[j]]) \subseteq inst \cup {list[i] : i \in 1 .. (j - 1)}
          <6>1. j \in 1 .. Len(subs.list) /\ list[j] = subs.list[j] /\ list[j] \in Projects
            BY <2>3, <4>2
          <6>2. Range(needs[list[j]]) \subseteq (inst \cup {p}) \cup {subs.list[i] : i \in 1 .. (j - 1)}
            BY <4>4, <6>1 DEF Ordered
          <6>3. list[j] \in Range(subs.list)
            BY <2>3, <6>1 DEF Range
          <6>4. p \notin Range(needs[list[j]])
            <7>1. depth[list[j]] <= depth[p] - 1 /\ depth[list[j]] \in Nat
              BY <4>4, <6>1, <6>3 DEF Flat
            <7>2. p \in Range(needs[list[j]]) => depth[p] < depth[list[j]]
              BY <6>1 DEF Flat
            <7>3. QED
              BY <1>5, <7>1, <7>2
          <6>5. \A i \in 1 .. (j - 1) : i \in 1 .. Len(list) /\ subs.list[i] = list[i]
            BY <4>2
          <6>6. QED
            BY <6>2, <6>4, <6>5
        <5>2. QED
          BY <5>1 DEF Ordered
      <4>6. Ordered(list, M, told) /\ Range(told[p]) \subseteq M \cup Range(list)
        BY <3>3, <4>2, <4>5, OrderedGrows
      <4>7. Append(list, p) \in Seq(Projects) /\ Ordered(Append(list, p), M, told) /\ Len(Append(list, p)) > 0
        BY <4>2, <4>6, Appending
      <4>8. QED
        BY <1>4, <1>8, <3>2, <3>5, <4>1, <4>7 DEF told
    <3>6. QED
      BY <3>4, <3>5
  <2>6. CASE bad \notin {<<p, "early">>, <<p, "late">>}
    <3>1. st = [subs EXCEPT !.list = Append(@, p)]
      BY <2>0, <2>6 DEF After, st, seen, subs
    <3>2. Covers(M, inst, bad) /\ told = needs
      BY <2>6 DEF Covers, Missed, Told, told
    <3>3. /\ Sound(subs, {p}, M, depth, depth[p] - 1, needs) /\ Range(needs[p]) \subseteq M \cup Range(subs.list)
          /\ subs \in Lists
      BY <2>2, <3>2 DEF Sound
    <3>4. st.list = Append(subs.list, p)
      BY <3>1, <3>3 DEF Lists
    <3>5. Ordered(st.list, M, needs) /\ st.list \in Seq(Projects) /\ Len(st.list) > 0
      BY <2>3, <3>3, <3>4, Appending DEF Sound
    <3>6. st.list # <<>> /\ Append(Front(st.list), p) = st.list
      BY <2>3, <3>4 DEF Front
    <3>7. QED
      BY <1>4, <1>8, <3>2, <3>5, <3>6 DEF told
  <2>7. QED
    BY <2>4, <2>5, <2>6
<1>9. QED
  BY <1>7, <1>8

-----------------------------------------------------------------------------
(* Mods and what they require                                              *)

Settled == Known \cup excused

RowsOfProjects == \A i \in Rows : row[i].proj \in Projects

Resolving(r) == pc[r] \in {"resolve", "fetch", "place", "commit"}

Aiming(r) == Resolving(r) => work[r].targets \in Seq(Projects) /\ Len(work[r].targets) > 0

\* What is left to install comes in its order, by the versions that were looked up,
\* unless the session is broken.
InOrderOf(r) == Ordered(work[r].todo, Settled, Needs(work[r].at))

Listed(r) ==
  pc[r] \in {"fetch", "place", "commit"} =>
    /\ work[r].todo \in Seq(Projects) /\ Len(work[r].todo) > 0
    /\ (pc[r] = "fetch" /\ work[r].broken) \/ InOrderOf(r)
    /\ pc[r] # "fetch" => work[r].v \in Versions

RequiredInv ==
  /\ ModsInv /\ RequiredModsAreThere /\ RowsOfProjects
  /\ profile \in Seq(Projects) /\ published \in [Projects -> Versions]
  /\ \A r \in Ops : Aiming(r) /\ Listed(r)

\* Rows keep their projects, what is known or excused remains so, and a version
\* that changes is not one whose dependencies were looked up.
SameMods ==
  /\ Rows' = Rows /\ unlooked \subseteq unlooked'
  /\ \A i \in Rows : row'[i].proj = row[i].proj /\ row'[i].known = row[i].known
  /\ \A i \in Rows : row'[i].version = row[i].version \/ i \in unlooked'

LEMMA WrittenMods ==
  ASSUME RowsFit, DOMAIN row' = Rows, UNCHANGED unlooked,
         \A i \in Rows : \/ row'[i] = row[i] \/ row'[i] = [row[i] EXCEPT !.avail = TRUE]
                         \/ \E x : row'[i] = [row[i] EXCEPT !.top = x]
  PROVE  SameMods
<1>1. ASSUME NEW i \in Rows
      PROVE  row'[i].proj = row[i].proj /\ row'[i].known = row[i].known /\ row'[i].version = row[i].version
  <2>1. IsRow(row[i])
    BY DEF RowsFit
  <2>2. CASE row'[i] = row[i]
    BY <2>2
  <2>3. CASE row'[i] = [row[i] EXCEPT !.avail = TRUE]
    BY <2>1, <2>3 DEF IsRow, RowFields
  <2>4. CASE \E x : row'[i] = [row[i] EXCEPT !.top = x]
    <3>1. PICK x : row'[i] = [row[i] EXCEPT !.top = x]
      BY <2>4
    <3>2. QED
      BY <2>1, <3>1 DEF IsRow, RowFields
  <2>5. QED
    BY <2>2, <2>3, <2>4
<1>2. QED
  BY <1>1 DEF SameMods, Rows

\* Rows are added, removed or become known in four steps only.
LEMMA ModsStay ==
  ASSUME ModsInv, NEW r \in Ops, Operation(r), ~Commit(r), ~Register(r), ~Erase(r), ~Hashes(r)
  PROVE  SameMods /\ excused \subseteq excused'
<1>0. RowsFit
  BY DEF ModsInv, Typed
<1>1. ASSUME UNCHANGED <<row, unlooked>> PROVE SameMods
  BY <1>1 DEF SameMods, Rows
<1>2. CASE Install(r) \/ Apply(r) \/ Place(r) \/ CommitFails(r) \/ FindNewest(r) \/ Supported(r)
  BY <1>1, <1>2 DEF Install, Apply, Place, CommitFails, FindNewest, Supported, dbVars, histVars
<1>3. CASE ResolveTarget(r) \/ Fetch(r)
  <2>1. UNCHANGED <<row, unlooked>>
    BY <1>3 DEF ResolveTarget, Fetch, dbVars
  <2>2. excused \subseteq excused'
    <3>1. CASE ResolveTarget(r)
      <4>1. UNCHANGED excused \/ \E x : excused' = excused \cup x
        BY <3>1 DEF ResolveTarget
      <4>2. QED
        BY <4>1
    <3>2. CASE Fetch(r)
      <4>1. UNCHANGED excused \/ \E x : excused' = excused \cup x
        BY <3>2 DEF Fetch
      <4>2. QED
        BY <4>1
    <3>3. QED
      BY <1>3, <3>1, <3>2
  <2>3. QED
    BY <1>1, <2>1, <2>2
<1>4. CASE Update(r) \/ Read(r) \/ UnlinkOld(r) \/ Download(r) \/ StoreFails(r) \/ Check(r) \/ Answers(r)
  BY <1>1, <1>4 DEF Update, Read, UnlinkOld, Download, StoreFails, Check, Answers, dbVars, histVars
<1>5. CASE RemoveMod(r) \/ Unlink(r) \/ EraseFails(r) \/ Conflicts(r) \/ Metadata(r) \/ Save(r)
  BY <1>1, <1>5 DEF RemoveMod, Unlink, EraseFails, Conflicts, Metadata, Save, dbVars, histVars
<1>6. CASE Import(r) \/ Entry(r) \/ Override(r) \/ ImportFails(r) \/ Hash(r)
  BY <1>1, <1>6 DEF Import, Entry, Override, ImportFails, Hash, dbVars, histVars
<1>7. CASE Store(r)
  <2>i. PICK i : i = Snap(r)
    OBVIOUS
  <2>v. PICK v : v = work[r].v
    OBVIOUS
  <2>m. PICK m : m = work[r].snap[i]
    OBVIOUS
  <2>1. /\ UNCHANGED <<nextId, excused>> /\ i \in Rows /\ row' = Stored(i, v, m.version, m.fv)
        /\ unlooked' = IF v = m.version THEN unlooked ELSE unlooked \cup {i}
    BY <1>7, <2>i, <2>m, <2>v DEF Store, Stored
  <2>2. /\ Rows' = Rows /\ \A j \in Rows : row'[j].proj = row[j].proj /\ (j # i => row'[j] = row[j])
        /\ row'[i].version = (IF v = m.version THEN row[i].version ELSE v) /\ row'[i].known = row[i].known
    BY <1>0, <2>1, StoreRows
  <2>3. QED
    BY <2>1, <2>2 DEF SameMods
<1>8. CASE Flags(r)
  <2>1. UNCHANGED <<excused, unlooked>> /\ (UNCHANGED row \/
          row' = [i \in Rows |-> IF i \in DOMAIN work[r].snap /\ work[r].snap[i].avail
                                   THEN [row[i] EXCEPT !.avail = TRUE] ELSE row[i]])
    BY <1>8 DEF Flags, histVars
  <2>2. QED
    BY <1>0, <1>1, <2>1, WrittenMods
<1>9. CASE StoreNewest(r)
  <2>1. /\ UNCHANGED <<excused, unlooked>>
        /\ row' = [i \in Rows |->
                     IF {j \in DOMAIN work[r].snap : work[r].snap[j].proj = row[i].proj} = {} THEN row[i]
                     ELSE [row[i] EXCEPT !.top = work[r].snap[
                       Max({j \in DOMAIN work[r].snap : work[r].snap[j].proj = row[i].proj})].top]]
    BY <1>9 DEF StoreNewest
  <2>2. DOMAIN row' = Rows /\ \A i \in Rows : row'[i] = row[i] \/ \E x : row'[i] = [row[i] EXCEPT !.top = x]
    BY <2>1
  <2>3. QED
    BY <1>0, <2>1, <2>2, WrittenMods
<1>10. QED
  BY <1>2, <1>3, <1>4, <1>5, <1>6, <1>7, <1>8, <1>9 DEF Operation

LEMMA SameModsKnown == ASSUME SameMods, excused \subseteq excused' PROVE Known' = Known /\ Settled \subseteq Settled'
<1>1. \A p : p \in Known' <=> p \in Known
  <2>1. Rows' = Rows /\ \A i \in Rows : row'[i].proj = row[i].proj /\ row'[i].known = row[i].known
    BY DEF SameMods
  <2>2. QED
    BY <2>1 DEF Known
<1>2. QED
  BY <1>1 DEF Settled

\* What a step does to the rows, for mods and what they require.
ModsFollow ==
  /\ Settled \subseteq Settled'
  /\ \A i \in Rows' : row'[i].proj \in Projects
  /\ \A i \in Rows' \ unlooked' : row'[i].known =>
       \/ /\ i \in Rows \ unlooked /\ row[i].known
          /\ row'[i].proj = row[i].proj /\ row'[i].version = row[i].version
       \/ Range(Requires[row'[i].proj][row'[i].version]) \subseteq Settled'

LEMMA SameFollows == ASSUME RowsOfProjects, SameMods, excused \subseteq excused' PROVE ModsFollow
<1>1. Settled \subseteq Settled'
  BY SameModsKnown
<1>2. /\ Rows' = Rows /\ unlooked \subseteq unlooked'
      /\ \A i \in Rows : row'[i].proj = row[i].proj /\ row'[i].known = row[i].known
      /\ \A i \in Rows \ unlooked' : row'[i].version = row[i].version
  BY DEF SameMods
<1>3. QED
  BY <1>1, <1>2 DEF RowsOfProjects, ModsFollow

LEMMA FollowingMods == ASSUME RequiredModsAreThere, ModsFollow PROVE RequiredModsAreThere' /\ RowsOfProjects'
<1>1. ASSUME NEW i \in Rows' \ unlooked', row'[i].known
      PROVE  Range(Requires[row'[i].proj][row'[i].version]) \subseteq Settled'
  <2>1. CASE /\ i \in Rows \ unlooked /\ row[i].known
             /\ row'[i].proj = row[i].proj /\ row'[i].version = row[i].version
    <3>1. Range(Requires[row[i].proj][row[i].version]) \subseteq Settled
      BY <2>1 DEF RequiredModsAreThere, Settled
    <3>2. QED
      BY <2>1, <3>1 DEF ModsFollow
  <2>2. QED
    BY <1>1, <2>1 DEF ModsFollow
<1>2. QED
  BY <1>1 DEF RequiredModsAreThere, Settled, RowsOfProjects, ModsFollow

LEMMA CommitFollows == ASSUME RequiredInv, NEW r \in Ops, Commit(r) PROVE ModsFollow /\ Head(work[r].todo) \in Known'
<1>h. PICK h : h = Head(work[r].todo)
  OBVIOUS
<1>n. PICK new : new = [proj |-> h, known |-> TRUE, version |-> work[r].v, fv |-> work[r].v, avail |-> FALSE,
                         top |-> None]
  OBVIOUS
<1>0. /\ pc[r] = "commit" /\ UNCHANGED excused /\ RowsFit
      /\ row' = [i \in Rows \cup {nextId} |-> IF i \in Rows THEN row[i] ELSE new]
      /\ unlooked' = IF work[r].v = work[r].at[h] THEN unlooked ELSE unlooked \cup {nextId}
  BY <1>h, <1>n DEF Commit, RequiredInv, ModsInv, Typed
<1>1. /\ Rows' = Rows \cup {nextId} /\ nextId \notin Rows /\ row'[nextId] = new
      /\ \A i \in Rows : row'[i] = row[i]
  BY <1>0 DEF Rows, RowsFit
<1>2. new.proj = h /\ new.known = TRUE /\ new.version = work[r].v
  BY <1>n
<1>3. /\ work[r].todo \in Seq(Projects) /\ Len(work[r].todo) > 0 /\ InOrderOf(r) /\ work[r].v \in Versions
  BY <1>0 DEF RequiredInv, Listed
<1>4. h \in Projects /\ Range(Needs(work[r].at)[h]) \subseteq Settled
  <2>1. h = work[r].todo[1] /\ 1 \in 1 .. Len(work[r].todo) /\ h \in Projects
    BY <1>3, <1>h
  <2>2. Range(Needs(work[r].at)[h]) \subseteq Settled \cup {work[r].todo[i] : i \in 1 .. (1 - 1)}
    BY <1>3, <2>1 DEF Ordered, InOrderOf
  <2>3. 1 .. (1 - 1) = {}
    OBVIOUS
  <2>4. QED
    BY <2>1, <2>2, <2>3
<1>5. Known' = Known \cup {h}
  <2>1. \A p : p \in Known' <=> p \in Known \/ p = h
    BY <1>1, <1>2 DEF Known
  <2>2. QED
    BY <2>1
<1>6. Settled \subseteq Settled'
  BY <1>0, <1>5 DEF Settled
<1>7. \A i \in Rows' : row'[i].proj \in Projects
  BY <1>1, <1>2, <1>4 DEF RequiredInv, RowsOfProjects
<1>8. nextId \notin unlooked' => Range(Requires[h][work[r].v]) \subseteq Settled'
  <2>1. SUFFICES ASSUME nextId \notin unlooked' PROVE Range(Requires[h][work[r].v]) \subseteq Settled'
    OBVIOUS
  <2>2. work[r].v = work[r].at[h]
    BY <1>0, <2>1
  <2>3. work[r].v # Unknown
    BY <1>3, BoundAssumption DEF Versions, Unknown
  <2>4. Needs(work[r].at)[h] = Requires[h][work[r].v]
    BY <1>4, <2>2, <2>3 DEF Needs
  <2>5. QED
    BY <1>4, <1>6, <2>4
<1>9. \A i \in Rows' : i = nextId \/ (i \in Rows /\ row'[i] = row[i])
  BY <1>1
<1>10. unlooked \subseteq unlooked'
  BY <1>0
<1>11. QED
  BY <1>h, <1>1, <1>2, <1>5, <1>6, <1>7, <1>8, <1>9, <1>10 DEF ModsFollow

LEMMA EraseFollows == ASSUME RequiredInv, NEW r \in Ops, Erase(r) PROVE ModsFollow
<1>i. PICK i : i = Snap(r)
  OBVIOUS
<1>0. /\ pc[r] = "erase" /\ Holding(r) /\ Aimed(r) /\ Typed
      /\ row' = [j \in Rows \ {i} |-> row[j]] /\ excused' = excused \cup {work[r].snap[i].proj}
      /\ UNCHANGED unlooked
  BY <1>i DEF Erase, RequiredInv, ModsInv, Holding
<1>1. Rows' = Rows \ {i} /\ \A j \in Rows' : row'[j] = row[j]
  BY <1>0 DEF Rows
<1>2. i \in Rows => row[i].proj \in excused'
  BY <1>0, <1>i DEF Aimed
<1>3. Known \subseteq Known' \cup excused'
  <2>1. ASSUME NEW p \in Known PROVE p \in Known' \cup excused'
    <3>1. PICK j \in Rows : row[j].known /\ row[j].proj = p
      BY <2>1 DEF Known
    <3>2. CASE j = i
      BY <1>2, <3>1, <3>2
    <3>3. CASE j # i
      BY <1>1, <3>1, <3>3 DEF Known
    <3>4. QED
      BY <3>2, <3>3
  <2>2. QED
    BY <2>1
<1>4. QED
  BY <1>0, <1>1, <1>3 DEF ModsFollow, Settled, RequiredInv, RowsOfProjects

LEMMA RegisterFollows == ASSUME RequiredInv, NEW r \in Ops, Register(r) PROVE ModsFollow
<1>n. PICK new : new = SetToSeq(work[r].ids)
  OBVIOUS
<1>0. /\ pc[r] = "register" /\ UNCHANGED <<excused, unlooked>> /\ RowsFit /\ Shaped(r)
      /\ row' = [i \in Rows \cup nextId .. (nextId + Len(new) - 1) |-> IF i \in Rows THEN row[i]
               ELSE [proj |-> new[i - nextId + 1], known |-> FALSE, version |-> Unknown, fv |-> 1, avail |-> FALSE,
                     top |-> None]]
      /\ nextId' = nextId + Len(new)
  BY <1>n DEF Register, RequiredInv, ModsInv, Typed
<1>1. work[r].ids \subseteq Pack
  BY <1>0 DEF Shaped
<1>2. new \in Seq(Projects) /\ Len(new) \in Nat /\ DOMAIN new = 1 .. Len(new)
  <2>1. IsFiniteSet(work[r].ids) /\ work[r].ids \subseteq Projects
    BY <1>1, ProjectAssumption, FS_Subset
  <2>2. new \in [1 .. Cardinality(work[r].ids) -> work[r].ids] /\ Cardinality(work[r].ids) \in Nat
    BY <1>n, <2>1, Listing, FS_CardinalityType
  <2>3. QED
    BY <2>1, <2>2
<1>3. PICK n \in Nat : n = Len(new)
  BY <1>2
<1>4. /\ Rows \subseteq Rows' /\ \A i \in Rows : row'[i] = row[i]
      /\ \A i \in Rows' \ Rows : i - nextId + 1 \in DOMAIN new /\ row'[i].proj = new[i - nextId + 1]
  BY <1>0, <1>2, <1>3, RegisterRows
<1>5. \A i \in Rows' \ Rows : row'[i].known = FALSE
  <2>1. DOMAIN row' = Rows \cup nextId .. (nextId + Len(new) - 1)
    BY <1>0
  <2>2. QED
    BY <1>0, <2>1 DEF Rows
<1>6. Known \subseteq Known'
  BY <1>4 DEF Known
<1>7. \A i \in Rows' \ Rows : row'[i].proj \in Projects
  BY <1>2, <1>4
<1>8. QED
  BY <1>0, <1>4, <1>5, <1>6, <1>7 DEF ModsFollow, Settled, RequiredInv, RowsOfProjects

LEMMA HashesFollow == ASSUME RequiredInv, NEW r \in Ops, Hashes(r) PROVE ModsFollow
<1>0. RowsFit /\ RowsOfProjects
  BY DEF RequiredInv, ModsInv, Typed
<1>e. UNCHANGED excused
  BY DEF Hashes
<1>1. CASE UNCHANGED <<row, unlooked>>
  BY <1>e, <1>0, <1>1, SameFollows DEF SameMods, Rows
<1>2. CASE ~UNCHANGED <<row, unlooked>>
  <2>1. PICK found \in SUBSET DOMAIN work[r].snap :
          /\ row' = [i \in Rows |-> IF i \in found THEN [row[i] EXCEPT !.known = TRUE, !.version = row[i].fv]
                                    ELSE row[i]]
          /\ unlooked' = unlooked \cup found
    BY <1>2 DEF Hashes
  <2>2. Rows' = Rows
    BY <2>1 DEF Rows
  <2>3. ASSUME NEW i \in Rows
        PROVE  /\ row'[i].proj = row[i].proj /\ (row[i].known => row'[i].known)
               /\ i \notin found => row'[i] = row[i]
    <3>1. IsRow(row[i])
      BY <1>0 DEF RowsFit
    <3>2. CASE i \in found
      <4>1. row'[i] = [row[i] EXCEPT !.known = TRUE, !.version = row[i].fv]
        BY <2>1, <3>2
      <4>2. row'[i].proj = row[i].proj /\ row'[i].known = TRUE
        BY <3>1, <4>1 DEF IsRow, RowFields
      <4>3. QED
        BY <3>2, <4>2
    <3>3. CASE i \notin found
      BY <2>1, <3>3
    <3>4. QED
      BY <3>2, <3>3
  <2>4. Known \subseteq Known'
    BY <2>2, <2>3 DEF Known
  <2>5. QED
    BY <1>0, <1>e, <2>1, <2>2, <2>3, <2>4 DEF ModsFollow, Settled, RowsOfProjects
<1>3. QED
  BY <1>1, <1>2

LEMMA OperationFollows == ASSUME RequiredInv, NEW r \in Ops, Operation(r) PROVE ModsFollow
<1>1. CASE Commit(r) \/ Register(r) \/ Erase(r) \/ Hashes(r)
  BY <1>1, CommitFollows, RegisterFollows, EraseFollows, HashesFollow
<1>2. CASE ~(Commit(r) \/ Register(r) \/ Erase(r) \/ Hashes(r))
  BY <1>2, ModsStay, SameFollows DEF RequiredInv
<1>3. QED
  BY <1>1, <1>2

LEMMA TailOrdered ==
  ASSUME NEW list \in Seq(Projects), Len(list) > 0, NEW C, NEW D, NEW needs, Ordered(list, C, needs),
         C \cup {Head(list)} \subseteq D
  PROVE  Ordered(Tail(list), D, needs)
<1>1. PICK tail : tail = Tail(list)
  OBVIOUS
<1>2. /\ tail \in Seq(Projects) /\ Len(tail) = Len(list) - 1 /\ Len(list) \in Nat /\ Head(list) = list[1]
      /\ \A i \in 1 .. Len(tail) : tail[i] = list[i + 1]
  BY <1>1
<1>3. ASSUME NEW j \in 1 .. Len(tail) PROVE Range(needs[tail[j]]) \subseteq D \cup {tail[i] : i \in 1 .. (j - 1)}
  <2>1. j + 1 \in 1 .. Len(list) /\ tail[j] = list[j + 1] /\ (j + 1) - 1 = j
    BY <1>2
  <2>2. Range(needs[list[j + 1]]) \subseteq C \cup {list[i] : i \in 1 .. j}
    BY <2>1 DEF Ordered
  <2>3. \A i \in 1 .. j : list[i] = list[1] \/ \E k \in 1 .. (j - 1) : list[i] = tail[k]
    <3>1. ASSUME NEW i \in 1 .. j, i # 1 PROVE i - 1 \in 1 .. (j - 1) /\ tail[i - 1] = list[i]
      BY <1>2, <3>1
    <3>2. QED
      BY <3>1
  <2>4. list[1] \in D /\ C \subseteq D
    BY <1>2
  <2>5. ASSUME NEW x \in Range(needs[tail[j]]) PROVE x \in D \cup {tail[i] : i \in 1 .. (j - 1)}
    <3>1. x \in C \/ \E i \in 1 .. j : x = list[i]
      BY <2>1, <2>2
    <3>2. QED
      BY <2>3, <2>4, <3>1
  <2>6. QED
    BY <2>5
<1>4. QED
  BY <1>1, <1>3 DEF Ordered

LEMMA TailFits ==
  ASSUME NEW s \in Seq(Projects), Len(s) > 1
  PROVE  Tail(s) \in Seq(Projects) /\ Len(Tail(s)) > 0
<1>1. Tail(s) \in Seq(Projects)
  OBVIOUS
<1>2. Len(Tail(s)) = Len(s) - 1 /\ Len(s) \in Nat
  OBVIOUS
<1>3. QED
  BY <1>1, <1>2

\* What the end of one installation leaves for the next.
LEMMA AdvanceFits ==
  ASSUME Typed, NEW r \in Ops, NEW b, Advance(r, b), Resolving(r), Aiming(r), work[r].todo \in Seq(Projects),
         b = TRUE \/ (Len(work[r].todo) > 1 => Ordered(Tail(work[r].todo), Settled', Needs(work[r].at)))
  PROVE  Aiming(r)' /\ Listed(r)'
<1>0. IsWork(work[r]) /\ work[r].targets \in Seq(Projects) /\ Len(work[r].targets) > 0
  BY DEF Typed, WorksFit, Aiming
<1>1. CASE Len(work[r].todo) > 1
  <2> DEFINE w == [work[r] EXCEPT !.todo = Tail(work[r].todo), !.broken = b]
  <2>1. Goto(r, "fetch") /\ Work(r, w)
    BY <1>1 DEF Advance
  <2>2. /\ IsWork(w) /\ w.targets = work[r].targets /\ w.todo = Tail(work[r].todo) /\ w.broken = b
        /\ w.at = work[r].at
    BY <1>0, WorkChanges DEF IsWork, WorkFields
  <2> HIDE DEF w
  <2>3. pc'[r] = "fetch" /\ work'[r] = w
    BY <2>1, <2>2, Turning
  <2>4. Tail(work[r].todo) \in Seq(Projects) /\ Len(Tail(work[r].todo)) > 0
    BY <1>1, TailFits
  <2>5. b = TRUE \/ Ordered(w.todo, Settled', Needs(w.at))
    BY <1>1, <2>2
  <2>6. Listed(r)'
    BY <2>2, <2>3, <2>4, <2>5 DEF Listed, InOrderOf
  <2>7. QED
    BY <1>0, <2>2, <2>3, <2>6 DEF Aiming
<1>2. CASE ~(Len(work[r].todo) > 1) /\ Len(work[r].targets) > 1
  <2> DEFINE w == [work[r] EXCEPT !.targets = Tail(work[r].targets), !.todo = <<>>, !.at = published]
  <2>1. Goto(r, "resolve") /\ Work(r, w)
    BY <1>2 DEF Advance
  <2>2. IsWork(w) /\ w.targets = Tail(work[r].targets)
    BY <1>0, WorkChanges DEF IsWork, WorkFields
  <2> HIDE DEF w
  <2>3. pc'[r] = "resolve" /\ work'[r] = w
    BY <2>1, <2>2, Turning
  <2>4. Tail(work[r].targets) \in Seq(Projects) /\ Len(Tail(work[r].targets)) > 0
    BY <1>0, <1>2, TailFits
  <2>5. QED
    BY <2>2, <2>3, <2>4 DEF Listed, Aiming
<1>3. CASE ~(Len(work[r].todo) > 1) /\ ~(Len(work[r].targets) > 1)
  <2>1. pc'[r] = "ended"
    BY <1>3, Ending DEF Advance
  <2>2. QED
    BY <2>1 DEF Listed, Aiming, Resolving
<1>4. QED
  BY <1>1, <1>2, <1>3

LEMMA InstallFits ==
  ASSUME RequiredInv, NEW r \in Ops, Install(r) \/ Apply(r)
  PROVE  Aiming(r)' /\ Listed(r)'
<1>0. Typed /\ profile \in Seq(Projects)
  BY DEF RequiredInv, ModsInv
<1>1. PICK ts \in Seq(Projects) :
        Len(ts) > 0 /\ Goto(r, "resolve") /\ Work(r, [NoWork EXCEPT !.targets = ts, !.at = published])
  <2>1. CASE Install(r)
    <3>1. PICK p \in Projects : Work(r, [NoWork EXCEPT !.targets = <<p>>, !.at = published])
      BY <2>1 DEF Install
    <3>2. <<p>> \in Seq(Projects) /\ Len(<<p>>) > 0
      OBVIOUS
    <3>3. QED
      BY <2>1, <3>1, <3>2 DEF Install
  <2>2. CASE Apply(r)
    <3>1. Len(profile) > 0
      BY <1>0, <2>2 DEF Apply
    <3>2. QED
      BY <1>0, <2>2, <3>1 DEF Apply
  <2>3. QED
    BY <2>1, <2>2
<1> DEFINE w == [NoWork EXCEPT !.targets = ts, !.at = published]
<1>2. IsWork(w) /\ w.targets = ts
  BY DEF NoWork, IsWork, WorkFields
<1> HIDE DEF w
<1>3. pc'[r] = "resolve" /\ work'[r] = w
  BY <1>0, <1>1, <1>2, Turning DEF w
<1>4. QED
  BY <1>1, <1>2, <1>3 DEF Aiming, Listed

LEMMA ResolveFits ==
  ASSUME NEW depth, Shallow(depth), RequiredInv, NEW r \in Ops, ResolveTarget(r)
  PROVE  Aiming(r)' /\ Listed(r)'
<1>p. PICK p : p = Head(work[r].targets)
  OBVIOUS
<1>0. /\ Typed /\ pc[r] = "resolve" /\ Goto(r, "fetch") /\ IsWork(work[r]) /\ UNCHANGED row
      /\ work[r].targets \in Seq(Projects) /\ Len(work[r].targets) > 0 /\ p \in Projects
  <2>1. Typed /\ pc[r] = "resolve" /\ Goto(r, "fetch") /\ UNCHANGED row /\ Aiming(r)
    BY DEF RequiredInv, ModsInv, ResolveTarget, dbVars
  <2>2. work[r].targets \in Seq(Projects) /\ Len(work[r].targets) > 0
    BY <2>1 DEF Aiming, Resolving
  <2>3. QED
    BY <1>p, <2>1, <2>2 DEF Typed, WorksFit
<1> DEFINE Seen(at, blind) == IF blind \/ p \in Known THEN [at EXCEPT ![p] = Unknown] ELSE at
<1> DEFINE Resolves(at, bad) ==
             /\ Missed(p, bad) \subseteq excused' /\ excused \subseteq excused'
             /\ Work(r, [work[r] EXCEPT !.todo = Resolved(p, Known, bad, Needs(at)), !.broken = FALSE,
                                        !.at = Seen(at, bad \in {<<p, "early">>, <<p, "late">>})])
<1>b. PICK bad : \E at \in [Projects -> Versions] : Resolves(at, bad)
  <2>1. PICK at \in LookedUp(r) :
       \/ /\ Work(r, [work[r] EXCEPT !.todo = Resolved(p, Known, <<>>, Needs(at)), !.broken = FALSE,
                                     !.at = Seen(at, FALSE)])
          /\ UNCHANGED excused
       \/ \E q \in Projects, how \in {"early", "late"} :
            /\ Work(r, [work[r] EXCEPT !.todo = Resolved(p, Known, <<q, how>>, Needs(at)), !.broken = FALSE,
                                       !.at = Seen(at, q = p)])
            /\ excused' = excused \cup ({q} \ {p})
    BY <1>p DEF ResolveTarget
  <2>2. at \in [Projects -> Versions]
    BY DEF LookedUp
  <2> HIDE DEF Seen
  <2>3. CASE /\ Work(r, [work[r] EXCEPT !.todo = Resolved(p, Known, <<>>, Needs(at)), !.broken = FALSE,
                                        !.at = Seen(at, FALSE)])
             /\ UNCHANGED excused
    <3>1. \A q : <<>> # <<q, "early">> /\ <<>> # <<q, "late">>
      OBVIOUS
    <3>2. Missed(p, <<>>) = {} /\ (<<>> \in {<<p, "early">>, <<p, "late">>}) = FALSE
      BY <3>1 DEF Missed
    <3>3. QED
      BY <2>2, <2>3, <3>2
  <2>4. CASE \E q \in Projects, how \in {"early", "late"} :
               /\ Work(r, [work[r] EXCEPT !.todo = Resolved(p, Known, <<q, how>>, Needs(at)), !.broken = FALSE,
                                          !.at = Seen(at, q = p)])
               /\ excused' = excused \cup ({q} \ {p})
    <3>1. PICK q \in Projects, how \in {"early", "late"} :
               /\ Work(r, [work[r] EXCEPT !.todo = Resolved(p, Known, <<q, how>>, Needs(at)), !.broken = FALSE,
                                          !.at = Seen(at, q = p)])
               /\ excused' = excused \cup ({q} \ {p})
      BY <2>4
    <3>2. \A x : <<q, how>> \in {<<x, "early">>, <<x, "late">>} <=> x = q
      OBVIOUS
    <3>3. Missed(p, <<q, how>>) = {q} \ {p} /\ (<<q, how>> \in {<<p, "early">>, <<p, "late">>}) = (q = p)
      BY <3>2 DEF Missed
    <3>4. QED
      BY <2>2, <3>1, <3>3
  <2>5. QED
    BY <2>1, <2>3, <2>4
<1>1. PICK at \in [Projects -> Versions] : Resolves(at, bad)
  BY <1>b
<1>2. PICK t : t = Resolved(p, Known, bad, Needs(at))
  OBVIOUS
<1>n. PICK needs : needs = Needs(at)
  OBVIOUS
<1>f. Flat(depth, needs)
  BY <1>n, NeedsAreFlat
<1>s. PICK seen : seen = Seen(at, bad \in {<<p, "early">>, <<p, "late">>})
  OBVIOUS
<1>3. t \in Seq(Projects) /\ Len(t) > 0 /\ (p \in Known => t = <<p>>)
      /\ (p \notin Known => Ordered(t, Known \cup Missed(p, bad), Told(p, bad, needs)))
  BY <1>0, <1>2, <1>f, <1>n, ResolvedOrder
<1>4. Known' = Known
  BY <1>0 DEF Known, Rows
<1>a. Needs([at EXCEPT ![p] = Unknown]) = [needs EXCEPT ![p] = <<>>]
  BY <1>0, <1>n DEF Needs
<1>5. Ordered(t, Settled', Needs(seen))
  <2>1. CASE p \notin Known
    <3>1. Known \cup Missed(p, bad) \subseteq Settled'
      BY <1>1, <1>4 DEF Settled
    <3>2. Needs(seen) = Told(p, bad, needs)
      BY <1>a, <1>n, <1>s, <2>1 DEF Told
    <3>3. QED
      BY <1>3, <2>1, <3>1, <3>2, OrderedGrows
  <2>2. CASE p \in Known
    <3>1. Needs(seen) = [needs EXCEPT ![p] = <<>>]
      BY <1>a, <1>s, <2>2
    <3>2. needs \in [Projects -> Seq(Projects)]
      BY <1>f DEF Flat
    <3>3. Range(Needs(seen)[p]) \subseteq Settled'
      BY <1>0, <3>1, <3>2, ToldOrdered
    <3>4. QED
      BY <1>0, <1>3, <2>2, <3>3, SingleOrdered
  <2>3. QED
    BY <2>1, <2>2
<1> DEFINE w == [work[r] EXCEPT !.todo = t, !.broken = FALSE, !.at = seen]
<1>6. IsWork(w) /\ w.todo = t /\ w.targets = work[r].targets /\ w.at = seen
  BY <1>0, WorkChanges DEF IsWork, WorkFields
<1> HIDE DEF Seen
<1>7. Work(r, w)
  BY <1>1, <1>2, <1>s
<1> HIDE DEF w
<1>8. pc'[r] = "fetch" /\ work'[r] = w
  BY <1>0, <1>6, <1>7, Turning
<1>9. Listed(r)'
  BY <1>3, <1>5, <1>6, <1>8 DEF Listed, InOrderOf
<1>10. QED
  BY <1>0, <1>6, <1>8, <1>9 DEF Aiming

LEMMA FetchFits ==
  ASSUME RequiredInv, NEW r \in Ops, Fetch(r), ModsFollow
  PROVE  Aiming(r)' /\ Listed(r)'
<1>p. PICK p : p = Head(work[r].todo)
  OBVIOUS
<1>0. /\ Typed /\ pc[r] = "fetch" /\ Resolving(r) /\ Aiming(r) /\ Listed(r)
      /\ work[r].todo \in Seq(Projects) /\ Len(work[r].todo) > 0 /\ IsWork(work[r])
      /\ work[r].targets \in Seq(Projects) /\ Len(work[r].targets) > 0
  BY DEF RequiredInv, ModsInv, Fetch, Listed, Aiming, Resolving, Typed, WorksFit
<1>1. CASE Advance(r, TRUE)
  BY <1>0, <1>1, AdvanceFits
<1>2. CASE ~work[r].broken /\ Advance(r, FALSE) /\ excused' = excused \cup {p}
  <2>1. Ordered(work[r].todo, Settled, Needs(work[r].at))
    BY <1>0, <1>2 DEF Listed, InOrderOf
  <2>2. Settled \cup {p} \subseteq Settled'
    BY <1>2 DEF ModsFollow, Settled
  <2>3. Ordered(Tail(work[r].todo), Settled', Needs(work[r].at))
    BY <1>0, <1>p, <2>1, <2>2, TailOrdered
  <2>4. QED
    BY <1>0, <1>2, <2>3, AdvanceFits
<1>3. CASE ~work[r].broken /\ Work(r, [work[r] EXCEPT !.v = published[p]]) /\ Goto(r, "place")
  <2> DEFINE w == [work[r] EXCEPT !.v = published[p]]
  <2>1. IsWork(w) /\ w.todo = work[r].todo /\ w.targets = work[r].targets /\ w.at = work[r].at /\ w.v \in Versions
    <3>1. IsWork(w) /\ w.todo = work[r].todo /\ w.targets = work[r].targets /\ w.at = work[r].at
          /\ w.v = published[p]
      BY <1>0, WorkChanges DEF IsWork, WorkFields
    <3>2. p \in Projects
      BY <1>0, <1>p
    <3>3. QED
      BY <3>1, <3>2 DEF RequiredInv
  <2>2. Work(r, w)
    BY <1>3
  <2> HIDE DEF w
  <2>3. pc'[r] = "place" /\ work'[r] = w
    BY <1>0, <1>3, <2>1, <2>2, Turning
  <2>4. Ordered(w.todo, Settled', Needs(w.at))
    <3>1. Ordered(work[r].todo, Settled, Needs(work[r].at)) /\ Settled \subseteq Settled'
      BY <1>0, <1>3 DEF Listed, InOrderOf, ModsFollow
    <3>2. QED
      BY <2>1, <3>1, OrderedGrows
  <2>5. QED
    BY <1>0, <2>1, <2>3, <2>4 DEF Aiming, Listed, InOrderOf
<1>4. QED
  BY <1>1, <1>2, <1>3, <1>p DEF Fetch, Failed

LEMMA PlaceFits ==
  ASSUME RequiredInv, NEW r \in Ops, Place(r), ModsFollow
  PROVE  Aiming(r)' /\ Listed(r)'
<1>0. /\ Typed /\ pc[r] = "place" /\ Resolving(r) /\ Aiming(r) /\ Listed(r)
      /\ work[r].todo \in Seq(Projects) /\ Len(work[r].todo) > 0 /\ work[r].v \in Versions
      /\ Ordered(work[r].todo, Settled, Needs(work[r].at))
  BY DEF RequiredInv, ModsInv, Place, Listed, InOrderOf, Resolving
<1>1. CASE Advance(r, TRUE)
  BY <1>0, <1>1, AdvanceFits
<1>2. CASE Goto(r, "commit") /\ UNCHANGED work
  <2>1. pc'[r] = "commit" /\ work'[r] = work[r]
    BY <1>0, <1>2, Keeping
  <2>2. Ordered(work[r].todo, Settled', Needs(work[r].at))
    BY <1>0, OrderedGrows DEF ModsFollow
  <2>3. QED
    BY <1>0, <2>1, <2>2 DEF Aiming, Listed, InOrderOf
<1>3. QED
  BY <1>1, <1>2 DEF Place, Failed

LEMMA CommitFits ==
  ASSUME RequiredInv, NEW r \in Ops, Commit(r)
  PROVE  Aiming(r)' /\ Listed(r)'
<1>0. /\ Typed /\ pc[r] = "commit" /\ Resolving(r) /\ Aiming(r) /\ Listed(r) /\ Advance(r, FALSE)
      /\ work[r].todo \in Seq(Projects) /\ Len(work[r].todo) > 0
      /\ Ordered(work[r].todo, Settled, Needs(work[r].at))
  <2>1. Typed /\ pc[r] = "commit" /\ Aiming(r) /\ Listed(r) /\ Advance(r, FALSE)
    BY DEF RequiredInv, ModsInv, Commit
  <2>2. QED
    BY <2>1 DEF Listed, InOrderOf, Resolving
<1>1. Settled \cup {Head(work[r].todo)} \subseteq Settled'
  BY CommitFollows DEF ModsFollow, Settled
<1>2. Ordered(Tail(work[r].todo), Settled', Needs(work[r].at))
  BY <1>0, <1>1, TailOrdered
<1>3. QED
  BY <1>0, <1>2, AdvanceFits

LEMMA CommitFailsFits ==
  ASSUME RequiredInv, NEW r \in Ops, CommitFails(r)
  PROVE  Aiming(r)' /\ Listed(r)'
<1>1. Typed /\ pc[r] = "commit" /\ Aiming(r) /\ Listed(r) /\ Advance(r, TRUE)
  BY DEF RequiredInv, ModsInv, CommitFails, Failed
<1>2. Resolving(r) /\ work[r].todo \in Seq(Projects)
  BY <1>1 DEF Listed, Resolving
<1>3. QED
  BY <1>1, <1>2, AdvanceFits

LEMMA SaveFits ==
  ASSUME RequiredInv, NEW r \in Ops, Save(r)
  PROVE  profile' \in Seq(Projects) /\ UNCHANGED published
<1> DEFINE known == {i \in Rows : row[i].known}
           ids   == InOrder(known)
<1>1. RowsFit /\ RowsOfProjects
  BY DEF RequiredInv, ModsInv, Typed
<1>2. known \in SUBSET Nat /\ IsFiniteSet(known)
  BY <1>1, RowsAreFinite, FS_Subset
<1>3. Cardinality(known) \in Nat /\ ids \in [1 .. Cardinality(known) -> known]
  BY <1>2, OrderLists
<1>4. profile' = [n \in DOMAIN ids |-> row[ids[n]].proj]
  BY DEF Save
<1>5. \A i \in known : row[i].proj \in Projects
  BY <1>1 DEF RowsOfProjects
<1>6. UNCHANGED published
  BY DEF Save
<1> HIDE DEF ids, known
<1>7. QED
  BY <1>3, <1>4, <1>5, <1>6

LEMMA ProfileStays == ASSUME NEW r \in Ops, Operation(r), ~Save(r) PROVE UNCHANGED <<profile, published>>
<1>1. CASE Guiding(r)
  BY <1>1 DEF Guiding, Installing, Install, Apply, ResolveTarget, Fetch, Place, Commit, CommitFails, FindNewest,
              Supported
<1>2. CASE Update(r) \/ Read(r) \/ UnlinkOld(r) \/ Download(r) \/ Store(r) \/ StoreFails(r)
           \/ Check(r) \/ Answers(r) \/ Flags(r)
  BY <1>2 DEF Update, Read, UnlinkOld, Download, Store, StoreFails, Check, Answers, Flags
<1>3. CASE RemoveMod(r) \/ Unlink(r) \/ Erase(r) \/ EraseFails(r) \/ Conflicts(r) \/ Metadata(r) \/ StoreNewest(r)
  BY <1>3 DEF RemoveMod, Unlink, Erase, EraseFails, Conflicts, Metadata, StoreNewest
<1>4. CASE Import(r) \/ Entry(r) \/ Override(r) \/ Register(r) \/ ImportFails(r) \/ Hash(r) \/ Hashes(r)
  BY <1>4 DEF Import, Entry, Override, Register, ImportFails, Hash, Hashes
<1>5. QED
  BY <1>1, <1>2, <1>3, <1>4 DEF Operation, Guiding, Installing

LEMMA OthersFit ==
  ASSUME RequiredInv, ModsFollow, NEW q \in Ops, pc'[q] = pc[q], work'[q] = work[q]
  PROVE  Aiming(q)' /\ Listed(q)'
<1>1. Aiming(q) /\ Listed(q) /\ Settled \subseteq Settled'
  BY DEF RequiredInv, ModsFollow
<1>2. InOrderOf(q) => Ordered(work[q].todo, Settled', Needs(work[q].at))
  BY <1>1, OrderedGrows DEF InOrderOf
<1>3. Aiming(q)'
  BY <1>1 DEF Aiming, Resolving
<1>4. Listed(q)'
  BY <1>1, <1>2 DEF Listed, InOrderOf
<1>5. QED
  BY <1>3, <1>4

LEMMA RequiredStep ==
  ASSUME NEW depth, Shallow(depth), RequiredInv, NEW r \in Ops, Operation(r)
  PROVE  RequiredInv'
<1>0. Typed /\ ModsInv'
  BY OperationStep DEF RequiredInv, ModsInv
<1>1. ModsFollow /\ RequiredModsAreThere' /\ RowsOfProjects'
  BY OperationFollows, FollowingMods DEF RequiredInv
<1>2. profile' \in Seq(Projects) /\ published' \in [Projects -> Versions]
  BY SaveFits, ProfileStays DEF RequiredInv
<1>3. OthersStay(r) /\ Aiming(r)' /\ Listed(r)'
  <2>1. CASE Installing(r)
    <3>1. OthersStay(r)
      BY <1>0, <2>1, InstallingTurns
    <3>2. Aiming(r)' /\ Listed(r)'
      BY <1>1, <2>1, InstallFits, ResolveFits, FetchFits, PlaceFits, CommitFits, CommitFailsFits
         DEF Installing
    <3>3. QED
      BY <3>1, <3>2
  <2>2. CASE FindNewest(r) \/ Supported(r) \/ Conflicts(r)
    <3>1. \E next \in {"supported", "newest", "metadata"} : Goto(r, next) /\ \E w : Work(r, w)
      BY <2>2 DEF FindNewest, Supported, Conflicts
    <3>2. OthersStay(r) /\ pc'[r] \in {"supported", "newest", "metadata"}
      BY <1>0, <3>1 DEF Typed, StagesFit, WorksFit, Goto, Work, OthersStay
    <3>3. QED
      BY <3>2 DEF Aiming, Listed, Resolving
  <2>3. CASE ~Installing(r) /\ ~(FindNewest(r) \/ Supported(r) \/ Conflicts(r))
    <3>1. Moves(r)
      BY <1>0, <2>3, OperationMoves DEF Guiding
    <3>2. QED
      BY <3>1 DEF Moves, Relying, Aiming, Listed, Resolving
  <2>4. QED
    BY <2>1, <2>2, <2>3
<1>4. ASSUME NEW q \in Ops PROVE Aiming(q)' /\ Listed(q)'
  <2>1. CASE q = r
    BY <1>3, <2>1
  <2>2. CASE q # r
    BY <1>1, <1>3, <2>2, OthersFit DEF OthersStay
  <2>3. QED
    BY <2>1, <2>2
<1>5. QED
  BY <1>0, <1>1, <1>2, <1>4 DEF RequiredInv

LEMMA RequiredInit == Init => RequiredInv
<1> SUFFICES ASSUME Init PROVE RequiredInv
  OBVIOUS
<1>1. ModsInv
  BY InitFits
<1>2. /\ profile = <<>> /\ profile \in Seq(Projects) /\ published \in [Projects -> Versions]
      /\ \A r \in Ops : pc[r] = "idle"
  BY DEF Init
<1>3. \A r \in Ops : Aiming(r) /\ Listed(r)
  BY <1>2 DEF Aiming, Listed, Resolving
<1>4. IsFiniteSet(AtStart) /\ AtStart \subseteq Projects
  BY ProjectAssumption, FS_Subset
<1>5. PICK list : list = SetToSeq(AtStart)
  OBVIOUS
<1>6. /\ list \in [1 .. Cardinality(AtStart) -> AtStart] /\ Range(list) = AtStart
      /\ DOMAIN list = 1 .. Cardinality(AtStart)
  BY <1>4, <1>5, Listing
<1>7. Rows = DOMAIN list /\ \A i \in Rows : row[i].proj = list[i] /\ row[i].known = TRUE /\ row[i].version = 1
  BY <1>5, <1>6 DEF Init, Rows
<1>8. RowsOfProjects
  BY <1>4, <1>6, <1>7 DEF RowsOfProjects
<1>9. Known = AtStart
  BY <1>6, <1>7 DEF Known, Range
<1>10. RequiredModsAreThere
  <2>1. excused = {q \in Projects : \E p \in AtStart : q \in Range(Requires[p][1])} \ AtStart
    BY DEF Init
  <2>2. \A p \in AtStart : Range(Requires[p][1]) \subseteq Projects
    <3>1. 1 \in Versions
      BY BoundAssumption DEF Versions
    <3>2. QED
      BY <1>4, <3>1, ProjectAssumption DEF Range
  <2>3. \A i \in Rows : row[i].proj \in AtStart /\ row[i].version = 1
    BY <1>6, <1>7
  <2>4. QED
    BY <1>9, <2>1, <2>2, <2>3 DEF RequiredModsAreThere
<1>11. QED
  BY <1>1, <1>2, <1>3, <1>8, <1>10 DEF RequiredInv

LEMMA RequiredIdle ==
  ASSUME RequiredInv, ModsInv', UNCHANGED <<row, excused, unlooked, profile>>,
         published' \in [Projects -> Versions],
         UNCHANGED <<pc, work>> \/ \A r \in Ops : pc'[r] \in {"idle", "ended"}
  PROVE  RequiredInv'
<1>1. ModsFollow
  BY SameFollows DEF RequiredInv, SameMods, Rows
<1>2. RequiredModsAreThere' /\ RowsOfProjects'
  BY <1>1, FollowingMods DEF RequiredInv
<1>3. ASSUME NEW q \in Ops PROVE Aiming(q)' /\ Listed(q)'
  <2>1. CASE UNCHANGED <<pc, work>>
    BY <1>1, <2>1, OthersFit
  <2>2. CASE pc'[q] \in {"idle", "ended"}
    BY <2>2 DEF Aiming, Listed, Resolving
  <2>3. QED
    BY <2>1, <2>2
<1>4. QED
  BY <1>2, <1>3 DEF RequiredInv

\* RequiredModsAreThere of every behaviour, when the dependencies have no cycle and
\* are at most as deep as _resolve_dependencies of mod_updater.py follows them: a
\* mod never comes before what its version requires, whatever fails in between, and
\* whatever other operations do meanwhile, if its version is the one that was looked
\* up.  A cycle, or a chain that is longer, breaks it; so does, in the code, a
\* version that an update installs, or that is published between lookup and fetch.
THEOREM RequiredModsComeFirst ==
  ASSUME NEW CONSTANT depth, Shallow(depth)
  PROVE  Spec => []RequiredModsAreThere
<1>1. Init => RequiredInv
  BY RequiredInit
<1>2. RequiredInv /\ [Next]_vars => RequiredInv'
  <2> SUFFICES ASSUME RequiredInv, [Next]_vars PROVE RequiredInv'
    OBVIOUS
  <2>0. ModsInv
    BY DEF RequiredInv
  <2>1. CASE \E r \in Ops : Operation(r)
    BY <2>1, RequiredStep
  <2>2. CASE (\E p \in Projects : Publish(p)) \/ Expire \/ UNCHANGED vars
    <3>1. UNCHANGED <<row, nextId, files, left, pc, work, twin, tangled, excused, unlooked, profile>>
      BY <2>2 DEF Publish, Expire, vars, dbVars, opVars, histVars
    <3>2. published' \in [Projects -> Versions]
      <4>1. ASSUME NEW p \in Projects, Publish(p) PROVE published' \in [Projects -> Versions]
        <5>1. published[p] \in Versions /\ published[p] < MaxVersion
          BY <4>1 DEF Publish, RequiredInv
        <5>2. published[p] + 1 \in Versions
          BY <5>1, BoundAssumption DEF Versions
        <5>3. published' = [published EXCEPT ![p] = published[p] + 1]
          BY <4>1 DEF Publish
        <5>4. QED
          BY <5>2, <5>3 DEF RequiredInv
      <4>2. CASE UNCHANGED published
        BY <4>2 DEF RequiredInv
      <4>3. QED
        BY <2>2, <4>1, <4>2 DEF Expire, vars
    <3>3. QED
      BY <2>0, <3>1, <3>2, IdleStep, RequiredIdle
  <2>3. CASE Crash
    <3>1. UNCHANGED <<row, excused, unlooked, profile, published>> /\ \A r \in Ops : pc'[r] \in {"idle", "ended"}
      BY <2>3 DEF Crash, dbVars
    <3>2. published' \in [Projects -> Versions]
      BY <3>1 DEF RequiredInv
    <3>3. QED
      BY <2>0, <2>3, <3>1, <3>2, CrashStep, RequiredIdle
  <2>4. QED
    BY <2>1, <2>2, <2>3 DEF Next
<1>3. RequiredInv => RequiredModsAreThere
  BY DEF RequiredInv
<1>4. QED
  BY <1>1, <1>2, <1>3, PTL DEF Spec
=============================================================================
