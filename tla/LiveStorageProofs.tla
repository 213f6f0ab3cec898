-------------------------- MODULE LiveStorageProofs --------------------------
(***************************************************************************)
(* Theorems about Live: what is served is what is stored while no write    *)
(* fails, a save is never mixed, a Household that Recently deleted lists   *)
(* is on disk whatever fails, what it needs to come back is never missing, *)
(* nothing goes before the date shown for it, and Live implements          *)
(* Directory.  They continue LiveProofs, whose types and invariant they    *)
(* use.  The last are about TrashWalks: the code's recursive walks find    *)
(* what the closures say that all the others speak of.                     *)
(***************************************************************************)
EXTENDS LiveProofs, LiveRefinement, TrashWalks, WellFoundedInduction

(***************************************************************************)
(* The invariant of LiveProofs holds in every state.                       *)
(***************************************************************************)
LEMMA SoundAlways == Spec => [](TypeOK /\ Inv)
<1>1. Init => TypeOK /\ Inv
  BY TypeInit, InvInit
<1>2. TypeOK /\ Inv /\ [Next]_vars => (TypeOK /\ Inv)'
  BY TypeStep, InvStep
<1> QED
  BY <1>1, <1>2, PTL DEF Spec

\* A save in progress is not nothing.
LEMMA JobIsThere ==
    ASSUME TypeOK, NEW next, NEW point, Idle, Begin(next, point), job' \in Job \cup {None},
           next \in State, point \in UndoPoint \cup {None}
    PROVE  /\ job' \in Job /\ job' # None
           /\ job'.next = next /\ job'.undo = point
           /\ job'.todo = Changed(served, next)
           /\ ~ MixedSave(served, next) /\ Buildable(next.document.val)
<1>1. job' = [next |-> next, undo |-> point, first |-> FirstFile(served, next),
              todo |-> Changed(served, next)]
  BY DEF Begin
<1>2. job' \in Job
  BY <1>1 DEF Job, FirstFile, Changed, File
<1> QED
  BY <1>1, <1>2, NilAssumption DEF Begin

\* Every save begins with an Update or an Undo.
Beginning == \E next \in State, point \in UndoPoint \cup {None} :
                /\ Idle /\ Begin(next, point)
                /\ \/ point = None
                   \/ point # None /\ point.before = served
                /\ UNCHANGED <<clock, served, undo, disk>>

LEMMA UpdateBegins ==
    ASSUME TypeOK, NEW next \in State, Update(next)
    PROVE  Beginning
<1> DEFINE purged == PurgedIfChanged(next)
           point == [token |-> saves + 1, before |-> served]
<1>1. /\ Idle /\ Begin(purged, point)
      /\ UNCHANGED <<clock, served, undo, disk>>
  BY DEF Update
<1>2. purged \in State
  BY <1>1, PurgedFields
<1>3. point \in UndoPoint /\ point.before = served
  BY <1>1 DEF UndoPoint, TypeOK, Idle
<1> HIDE DEF purged, point
<1> QED
  BY <1>1, <1>2, <1>3 DEF Beginning

LEMMA UndoBegins ==
    ASSUME TypeOK, NEW token, Undo(token)
    PROVE  Beginning
<1>1. /\ Idle /\ undo # None /\ Begin(undo.before, None)
      /\ UNCHANGED <<clock, served, undo, disk>>
  BY DEF Undo, TokenCurrent
<1>2. undo.before \in State
  BY <1>1 DEF TypeOK, UndoPoint
<1> QED
  BY <1>1, <1>2 DEF Beginning

(***************************************************************************)
(* The steps of Live, with every way a save can begin as one.              *)
(***************************************************************************)
LEMMA Steps ==
    ASSUME TypeOK, Next
    PROVE  \/ Beginning
           \/ \E file \in File : WriteFile(file)
           \/ WriteFails \/ Commit \/ Crash \/ Start \/ Tick \/ StepBack
<1>1. ASSUME NEW id \in HouseholdID, NEW form \in Submissions, Save(id, form)
      PROVE  Beginning
  <2> DEFINE doc == served.document.val
             sub == ParseSubmission(doc[id], form)
  <2>1. served \in State /\ doc \in Document /\ id \in IDs(doc)
    BY <1>1 DEF Save, Idle, TypeOK, State, Pointer
  <2>2. sub \in Submission
    BY LiveAssumption DEF ParseSubmission, Submission
  <2>3. PICK mint \in MintedFor(doc[id], sub, HouseholdID \ InUse) :
             Update([served EXCEPT !.document = New(ApplySubmission(doc, id, sub, mint))])
    BY <1>1 DEF Save
  <2>4. New(ApplySubmission(doc, id, sub, mint)) \in Pointer(Document)
    BY <2>1, <2>2, ApplyType, NewType
  <2>5. [served EXCEPT !.document = New(ApplySubmission(doc, id, sub, mint))] \in State
    BY <2>1, <2>4 DEF State
  <2> QED
    BY <2>3, <2>5, UpdateBegins
<1>2. ASSUME NEW id \in HouseholdID, DeleteHousehold(id)
      PROVE  Beginning
  <2> DEFINE deleted == Delete(served.trash.val, served.document.val, id, clock)
  <2>1. served \in State /\ id \in IDs(served.document.val) /\ clock \in Nat
    BY <1>2 DEF DeleteHousehold, Deletable, Idle, TypeOK
  <2>2. deleted \in [document : Document, trash : TrashOf]
    BY <2>1, DeleteType DEF State, Pointer
  <2>3. New(deleted.document) \in Pointer(Document) /\ New(deleted.trash) \in Pointer(TrashOf)
    BY <2>2, NewType
  <2>4. [served EXCEPT !.document = New(deleted.document), !.trash = New(deleted.trash)] \in State
    BY <2>1, <2>3 DEF State
  <2> QED
    BY <1>2, <2>4, UpdateBegins DEF DeleteHousehold
<1>3. ASSUME NEW id \in HouseholdID, RestoreHousehold(id)
      PROVE  Beginning
  <2> DEFINE restored == Restore(served.trash.val, served.document.val, id)
  <2>1. served \in State /\ Restorable(served.trash.val, served.document.val, id)
    BY <1>3 DEF RestoreHousehold, Idle, TypeOK
  <2>2. restored \in [document : Document, trash : TrashOf]
    BY <2>1, RestoreType DEF State, Pointer
  <2>3. New(restored.document) \in Pointer(Document) /\ New(restored.trash) \in Pointer(TrashOf)
    BY <2>2, NewType
  <2>4. [served EXCEPT !.document = New(restored.document), !.trash = New(restored.trash)] \in State
    BY <2>1, <2>3 DEF State
  <2> QED
    BY <1>3, <2>4, UpdateBegins DEF RestoreHousehold
<1>4. ASSUME NEW title \in Title, SetTitle(title)
      PROVE  Beginning
  <2>1. served \in State
    BY <1>4 DEF SetTitle, Idle, TypeOK
  <2>2. [served EXCEPT !.settings = New(title)] \in State
    BY <2>1, NewType DEF State
  <2> QED
    BY <1>4, <2>2, UpdateBegins DEF SetTitle
<1>5. ASSUME NEW token \in 1 .. saves, Undo(token)
      PROVE  Beginning
  BY <1>5, UndoBegins
<1> QED
  BY <1>1, <1>2, <1>3, <1>4, <1>5 DEF Next

-----------------------------------------------------------------------------
(***************************************************************************)
(* No save is mixed.  Whatever is served builds, and so does what Undo     *)
(* brings back, which differs from it as one save made it.                 *)
(***************************************************************************)

Reversible(state, point) ==
    point # None => ~ MixedSave(state, point.before) /\ Buildable(point.before.document.val)

BuildInv ==
    /\ served # None => Buildable(served.document.val)
    /\ Reversible(served, undo)
    /\ job # None => Buildable(job.next.document.val) /\ Reversible(job.next, job.undo)

\* What changed between two states changed between them the other way.
LEMMA MixedBothWays ==
    ASSUME NEW one, NEW other
    PROVE  MixedSave(one, other) <=> MixedSave(other, one)
  BY DEF MixedSave, Changed

LEMMA BuildStep == TypeOK /\ TypeOK' /\ BuildInv /\ [Next]_vars => BuildInv'
<1> SUFFICES ASSUME TypeOK, TypeOK', BuildInv, [Next]_vars
             PROVE  BuildInv'
  OBVIOUS
<1>1. CASE Beginning
  <2>1. PICK next \in State, point \in UndoPoint \cup {None} :
           /\ Idle /\ Begin(next, point)
           /\ point = None \/ (point # None /\ point.before = served)
           /\ UNCHANGED <<clock, served, undo, disk>>
    BY <1>1 DEF Beginning
  <2>2. /\ job'.next = next /\ job'.undo = point
        /\ ~ MixedSave(served, next) /\ Buildable(next.document.val)
    BY <2>1, JobIsThere DEF TypeOK
  <2>3. Buildable(served.document.val)
    BY <2>1 DEF BuildInv, Idle
  <2>4. Reversible(next, point)
    BY <2>1, <2>2, <2>3, MixedBothWays DEF Reversible
  <2> QED
    BY <2>1, <2>2, <2>4 DEF BuildInv
<1>2. ASSUME NEW file \in File, WriteFile(file)
      PROVE  BuildInv'
  <2>1. job \in Job /\ job # None /\ UNCHANGED <<served, undo>>
    BY <1>2 DEF WriteFile, TypeOK
  <2>2. job'.next = job.next /\ job'.undo = job.undo
    BY <1>2, <2>1 DEF WriteFile, Job
  <2> QED
    BY <2>1, <2>2 DEF BuildInv
<1>3. CASE WriteFails
  BY <1>3 DEF WriteFails, BuildInv
<1>4. CASE Commit
  BY <1>4 DEF Commit, BuildInv
<1>5. CASE Crash
  BY <1>5 DEF Crash, BuildInv, Reversible
<1>6. CASE Start
  BY <1>6 DEF Start, BuildInv, Reversible, Open, Loaded, TypeOK
<1>7. CASE Tick \/ StepBack \/ UNCHANGED vars
  BY <1>7 DEF Tick, StepBack, vars, BuildInv
<1> QED
  BY <1>1, <1>2, <1>3, <1>4, <1>5, <1>6, <1>7, Steps

\* A new title is a save of the settings alone, whatever has expired meanwhile.
LEMMA TitleNotMixed ==
    ASSUME TypeOK, Idle, NEW title \in Title
    PROVE  ~ MixedSave(served, PurgedIfChanged([served EXCEPT !.settings = New(title)]))
<1> DEFINE next == [served EXCEPT !.settings = New(title)]
<1>1. served \in State
  BY DEF TypeOK, Idle
<1>2. /\ next.trash = served.trash /\ next["document"] = served["document"]
      /\ next["trash"] = served["trash"]
  BY <1>1 DEF State
<1>3. PurgedIfChanged(next) = next
  BY <1>2 DEF PurgedIfChanged
<1> QED
  BY <1>2, <1>3 DEF MixedSave, Changed, File

(***************************************************************************)
(* A title can always be set and an offered Undo is never refused, however *)
(* long entries have been expiring and whatever failed before.             *)
(***************************************************************************)
THEOREM NeverMixed == Spec => []NoSaveIsMixed
<1>1. Init => BuildInv
  BY DEF Init, BuildInv, Reversible
<1>2. TypeOK /\ BuildInv => NoSaveIsMixed
  BY TitleNotMixed DEF NoSaveIsMixed, BuildInv, Reversible
<1> QED
  BY <1>1, <1>2, TypeCorrect, BuildStep, PTL DEF Spec

-----------------------------------------------------------------------------
(***************************************************************************)
(* What is served is what is stored, while every file can be written: a    *)
(* save in progress has written what it has written and nothing else.      *)
(***************************************************************************)

FilesMatch ==
    /\ Idle => \A file \in File : disk[file] = served[file].val
    /\ job # None =>
          \A file \in File :
             disk[file] = IF file \in job.todo THEN served[file].val ELSE job.next[file].val

LEMMA FilesStep ==
    ASSUME ~ WritesMayFail
    PROVE  TypeOK /\ TypeOK' /\ FilesMatch /\ [Next]_vars => FilesMatch'
<1> SUFFICES ASSUME TypeOK, TypeOK', FilesMatch, [Next]_vars
             PROVE  FilesMatch'
  OBVIOUS
<1>1. CASE Beginning
  <2>1. PICK next \in State, point \in UndoPoint \cup {None} :
           Idle /\ Begin(next, point) /\ UNCHANGED <<clock, served, undo, disk>>
    BY <1>1 DEF Beginning
  <2>2. job' # None /\ job'.next = next /\ job'.todo = Changed(served, next)
    BY <2>1, JobIsThere DEF TypeOK
  <2>3. \A file \in File : file \notin Changed(served, next) => next[file] = served[file]
    BY DEF Changed
  <2>4. \A file \in File : disk[file] = served[file].val
    BY <2>1 DEF FilesMatch
  <2> QED
    BY <2>1, <2>2, <2>3, <2>4 DEF FilesMatch, Idle
<1>2. ASSUME NEW file \in File, WriteFile(file)
      PROVE  FilesMatch'
  <2>1. job \in Job /\ job # None /\ UNCHANGED served /\ disk \in Disk
    BY <1>2 DEF WriteFile, TypeOK
  <2>2. /\ job'.next = job.next /\ job'.todo = job.todo \ {file}
        /\ job' \in Job /\ job' # None
    BY <1>2, <2>1, NilAssumption DEF WriteFile, Job
  <2>3. \A other \in File :
           disk'[other] = IF other = file THEN job.next[file].val ELSE disk[other]
    BY <1>2, <2>1 DEF WriteFile, Disk, File
  <2>4. \A other \in File :
           disk'[other] = IF other \in job'.todo THEN served[other].val ELSE job.next[other].val
    BY <2>1, <2>2, <2>3 DEF FilesMatch
  <2> QED
    BY <2>1, <2>2, <2>4 DEF FilesMatch, Idle
<1>3. CASE WriteFails
  BY <1>3 DEF WriteFails
<1>4. CASE Commit
  BY <1>4 DEF Commit, FilesMatch, Idle
<1>5. CASE Crash
  BY <1>5 DEF Crash, FilesMatch, Idle
<1>6. CASE Start
  <2>1. /\ served' = Open(disk, clock)
        /\ disk' = [disk EXCEPT !.trash = OpenTrash(disk, clock)]
        /\ disk \in Disk /\ job' = None
    BY <1>6 DEF Start, TypeOK
  <2>2. /\ served'["document"].val = disk["document"]
        /\ served'["trash"].val = OpenTrash(disk, clock)
        /\ served'["settings"].val = disk["settings"]
    BY <2>1 DEF Open, Loaded
  <2>3. /\ disk'["document"] = disk["document"]
        /\ disk'["trash"] = OpenTrash(disk, clock)
        /\ disk'["settings"] = disk["settings"]
    BY <2>1 DEF Disk
  <2> QED
    BY <2>1, <2>2, <2>3 DEF FilesMatch, File
<1>7. CASE Tick \/ StepBack \/ UNCHANGED vars
  BY <1>7 DEF Tick, StepBack, vars, FilesMatch, Idle
<1> QED
  BY <1>1, <1>2, <1>3, <1>4, <1>5, <1>6, <1>7, Steps

(***************************************************************************)
(* Between saves, what is served is what is stored, if every file can be   *)
(* written: whenever the process dies, is started again and finds entries  *)
(* to purge.                                                               *)
(***************************************************************************)
THEOREM ServedIsStored ==
    ASSUME ~ WritesMayFail
    PROVE  Spec => []ServedMatchesDisk
<1>1. Init => FilesMatch
  BY DEF Init, FilesMatch, Idle
<1>2. TypeOK /\ FilesMatch => ServedMatchesDisk
  <2> SUFFICES ASSUME TypeOK, FilesMatch, Idle
               PROVE  disk = ValuesOf(served)
    BY DEF ServedMatchesDisk
  <2>1. disk["document"] = served["document"].val /\ disk["trash"] = served["trash"].val
        /\ disk["settings"] = served["settings"].val
    BY DEF FilesMatch, File
  <2>2. disk \in Disk /\ served \in State
    BY DEF TypeOK, Idle
  <2> QED
    BY <2>1, <2>2 DEF Disk, ValuesOf
<1>3. TypeOK /\ TypeOK' /\ FilesMatch /\ [Next]_vars => FilesMatch'
  BY FilesStep
<1>4. Spec => []TypeOK
  BY TypeCorrect
<1> QED
  BY <1>1, <1>2, <1>3, <1>4, PTL DEF Spec

-----------------------------------------------------------------------------
(***************************************************************************)
(* What Recently deleted lists is on disk.  A save that changes the Trash  *)
(* either gains Households, and then the document is written first, or     *)
(* keeps every entry that is listed; so a Trash that was written before a  *)
(* document that then failed still has them.                               *)
(***************************************************************************)

\* stored has every entry of t that a purge would keep.
Lists(stored, t, now) ==
    \A id \in IDs(Purge(t, now)) :
        id \in IDs(stored) /\ stored[id].household = t[id].household

SameEntries(from, to) ==
    \A id \in IDs(from.trash.val) \cap IDs(to.trash.val) :
        to.trash.val[id].household = from.trash.val[id].household

KeepsEntries(from, to, now) == IDs(Purge(from.trash.val, now)) \subseteq IDs(to.trash.val)

TrashTransfer(from, to, now) ==
    to.trash # from.trash =>
        /\ SameEntries(from, to)
        /\ GainsHousehold(from, to) \/ KeepsEntries(from, to, now)

UndoTransfer(state, point, now) == point # None => TrashTransfer(state, point.before, now)

TrashJob ==
    /\ TrashTransfer(served, job.next, clock)
    /\ UndoTransfer(job.next, job.undo, clock)
    /\ "trash" \in job.todo \/ job.next.trash = served.trash =>
          Lists(disk.trash, served.trash.val, clock)
    /\ "trash" \notin job.todo /\ "document" \in job.todo /\ job.next.trash # served.trash =>
          ~ GainsHousehold(served, job.next)

TrashInv ==
    /\ Idle => Lists(disk.trash, served.trash.val, clock)
    /\ UndoTransfer(served, undo, clock)
    /\ job # None => TrashJob

-----------------------------------------------------------------------------
(* Purging. *)

\* A larger Trash keeps more, and an earlier purge does.
LEMMA PurgeKeepsMore ==
    ASSUME NEW small \in TrashOf, NEW large \in TrashOf, NEW now \in Nat, NEW later \in Nat,
           now <= later,
           \A id \in IDs(small) : large[id] = small[id]
    PROVE  IDs(Purge(small, later)) \subseteq IDs(Purge(large, now))
<1>1. IDs(small) \subseteq IDs(large)
  BY DEF IDs
<1>2. \A id \in IDs(small) : NeedsOf(large, id) = NeedsOf(small, id)
  BY DEF NeedsOf
<1>3. Unexpired(small, later) \subseteq Unexpired(large, now)
  <2> SUFFICES ASSUME NEW id \in Unexpired(small, later)
               PROVE  id \in Unexpired(large, now)
    OBVIOUS
  <2>1. id \in IDs(small) /\ later < Expires(small[id]) /\ small[id] \in Entry
    BY DEF Unexpired, IDs, TrashOf
  <2>2. Expires(small[id]) \in Nat
    BY <2>1, RetentionAssumption DEF Expires, Entry
  <2>3. now < Expires(large[id])
    BY <2>1, <2>2
  <2> QED
    BY <1>1, <2>1, <2>3 DEF Unexpired
<1>4. NeedClosure(small, Unexpired(small, later)) \subseteq NeedClosure(large, Unexpired(large, now))
  BY <1>1, <1>2, <1>3 DEF NeedClosure
<1>5. IDs(Purge(small, later)) =
         IDs(small) \cap NeedClosure(small, Unexpired(small, later))
  BY DEF Purge, Only, IDs
<1>6. IDs(Purge(large, now)) =
         IDs(large) \cap NeedClosure(large, Unexpired(large, now))
  BY DEF Purge, Only, IDs
<1> QED
  BY <1>1, <1>4, <1>5, <1>6

\* Time passing takes nothing away from what is promised.
LEMMA TransferLater ==
    ASSUME NEW from \in State, NEW to \in State, NEW now \in Nat, NEW later \in Nat,
           now <= later, TrashTransfer(from, to, now)
    PROVE  TrashTransfer(from, to, later)
<1>1. IDs(Purge(from.trash.val, later)) \subseteq IDs(Purge(from.trash.val, now))
  BY PurgeKeepsMore DEF State, Pointer
<1> QED
  BY <1>1 DEF TrashTransfer, KeepsEntries

LEMMA ListsLater ==
    ASSUME NEW t \in TrashOf, NEW stored, NEW now \in Nat, NEW later \in Nat,
           now <= later, Lists(stored, t, now)
    PROVE  Lists(stored, t, later)
<1>1. IDs(Purge(t, later)) \subseteq IDs(Purge(t, now))
  BY PurgeKeepsMore
<1> QED
  BY <1>1 DEF Lists

-----------------------------------------------------------------------------
(* The steps. *)

LEMMA BeginLists ==
    ASSUME TypeOK, TypeOK', TrashInv, Idle, NEW next \in State,
           NEW point \in UndoPoint \cup {None}, Begin(next, point),
           UNCHANGED <<clock, served, undo, disk>>,
           TrashTransfer(served, next, clock), UndoTransfer(next, point, clock)
    PROVE  TrashInv'
<1>1. /\ job' # None /\ job'.next = next /\ job'.undo = point
      /\ job'.todo = Changed(served, next)
  BY JobIsThere DEF TypeOK
<1>2. "trash" \notin Changed(served, next) => next.trash = served.trash
  BY DEF Changed, File
<1>3. Lists(disk.trash, served.trash.val, clock)
  BY DEF TrashInv
<1>4. TrashJob'
  BY <1>1, <1>2, <1>3 DEF TrashJob
<1> QED
  BY <1>1, <1>4 DEF TrashInv, Idle

LEMMA UpdateLists ==
    ASSUME TypeOK, TypeOK', TrashInv, NEW next \in State, Update(next),
           TrashTransfer(served, PurgedIfChanged(next), clock),
           TrashTransfer(PurgedIfChanged(next), served, clock)
    PROVE  TrashInv'
<1> DEFINE purged == PurgedIfChanged(next)
           point == [token |-> saves + 1, before |-> served]
<1>1. Idle /\ Begin(purged, point) /\ UNCHANGED <<clock, served, undo, disk>>
  BY DEF Update
<1>2. purged \in State
  BY <1>1, PurgedFields
<1>3. point \in UndoPoint /\ point.before = served
  BY <1>1 DEF UndoPoint, TypeOK, Idle
<1>4. UndoTransfer(purged, point, clock)
  BY <1>3 DEF UndoTransfer
<1> HIDE DEF point, purged
<1>5. TrashTransfer(served, purged, clock)
  BY DEF purged
<1> QED
  BY <1>1, <1>2, <1>3, <1>4, <1>5, BeginLists

LEMMA DeleteLists ==
    ASSUME TypeOK, TypeOK', Inv, TrashInv, NEW id \in HouseholdID, DeleteHousehold(id)
    PROVE  TrashInv'
<1> DEFINE doc == served.document.val
           t == served.trash.val
           deleted == Delete(t, doc, id, clock)
           next == [served EXCEPT !.document = New(deleted.document),
                                  !.trash = New(deleted.trash)]
           purged == PurgedIfChanged(next)
<1>1. /\ Idle /\ Update(next)
      /\ served \in State /\ doc \in Document /\ t \in TrashOf
      /\ id \in IDs(doc) /\ clock \in Nat
  BY DEF DeleteHousehold, Deletable, Idle, TypeOK, State, Pointer
<1>2. deleted \in [document : Document, trash : TrashOf]
  BY <1>1, DeleteType
<1>3. next \in State /\ next.document.val = deleted.document /\ next.trash.val = deleted.trash
  <2>1. New(deleted.document) \in Pointer(Document) /\ New(deleted.trash) \in Pointer(TrashOf)
    BY <1>2, NewType
  <2>2. New(deleted.document).val = deleted.document /\ New(deleted.trash).val = deleted.trash
    BY DEF New
  <2> QED
    BY <1>1, <2>1, <2>2 DEF State
<1>4. t[id] = None
  BY <1>1 DEF Inv, Idle, Disjoint, IDs
<1>5. /\ \A other \in IDs(t) : deleted.trash[other] = t[other]
      /\ id \notin IDs(deleted.document)
  BY <1>1, <1>4 DEF Delete, IDs, TrashOf, Document
<1>6. IDs(Purge(t, clock)) \subseteq IDs(Purge(deleted.trash, clock))
  BY <1>1, <1>2, <1>5, PurgeKeepsMore
<1>7. /\ purged \in State /\ purged.document.val = deleted.document
      /\ \A other \in IDs(purged.trash.val) : purged.trash.val[other] = deleted.trash[other]
      /\ IDs(Purge(t, clock)) \subseteq IDs(purged.trash.val) \/ purged.trash = served.trash
  <2> HIDE DEF next
  <2>1. /\ purged \in State /\ purged.document = next.document
        /\ next.trash = served.trash => purged.trash = served.trash
        /\ next.trash # served.trash => purged.trash.val = Purge(next.trash.val, clock)
    BY <1>1, <1>3, PurgedFields
  <2>2. CASE next.trash = served.trash
    BY <1>3, <2>1, <2>2
  <2>3. CASE next.trash # served.trash
    BY <1>3, <1>6, <2>1, <2>3, OnlySubset DEF Purge
  <2> QED
    BY <2>2, <2>3
<1> HIDE DEF purged, next, deleted
<1>8. /\ SameEntries(served, purged) /\ SameEntries(purged, served)
  BY <1>5, <1>7 DEF SameEntries
<1>9. TrashTransfer(served, purged, clock)
  BY <1>7, <1>8 DEF TrashTransfer, KeepsEntries
<1>10. TrashTransfer(purged, served, clock)
  BY <1>1, <1>5, <1>7, <1>8 DEF TrashTransfer, GainsHousehold
<1> QED
  BY <1>1, <1>3, <1>9, <1>10, UpdateLists DEF purged

LEMMA RestoreLists ==
    ASSUME TypeOK, TypeOK', Inv, TrashInv, NEW id \in HouseholdID, RestoreHousehold(id)
    PROVE  TrashInv'
<1> DEFINE doc == served.document.val
           t == served.trash.val
           chain == Chain(t, doc, id)
           restored == Restore(t, doc, id)
           next == [served EXCEPT !.document = New(restored.document),
                                  !.trash = New(restored.trash)]
           purged == PurgedIfChanged(next)
<1>1. /\ Idle /\ Update(next)
      /\ served \in State /\ doc \in Document /\ t \in TrashOf
      /\ Restorable(t, doc, id) /\ id \in IDs(t) \ IDs(doc) /\ clock \in Nat
  BY DEF RestoreHousehold, Restorable, Idle, TypeOK, State, Pointer
<1>2. restored \in [document : Document, trash : TrashOf]
  BY <1>1, RestoreType
<1>3. next \in State /\ next.document.val = restored.document /\ next.trash.val = restored.trash
  <2>1. New(restored.document) \in Pointer(Document) /\ New(restored.trash) \in Pointer(TrashOf)
    BY <1>2, NewType
  <2>2. New(restored.document).val = restored.document /\ New(restored.trash).val = restored.trash
    BY DEF New
  <2> QED
    BY <1>1, <2>1, <2>2 DEF State
<1>4. id \in chain
  BY <1>1 DEF Chain, NeedClosure
<1>5. id \in IDs(restored.document)
  <2>1. restored.document[id] = t[id].household
    BY <1>4 DEF Restore
  <2>2. t[id].household \in Household
    BY <1>1 DEF TrashOf, IDs, Entry
  <2> QED
    BY <2>1, <2>2, NoneAssumption DEF IDs
<1>6. \A other \in IDs(restored.trash) : other \in IDs(t) /\ restored.trash[other] = t[other]
  BY OnlySubset DEF Restore
<1>7. /\ purged \in State /\ purged.document.val = restored.document
      /\ \A other \in IDs(purged.trash.val) :
            other \in IDs(t) /\ purged.trash.val[other] = t[other]
  <2> HIDE DEF next
  <2>1. /\ purged \in State /\ purged.document = next.document
        /\ next.trash = served.trash => purged.trash = served.trash
        /\ next.trash # served.trash => purged.trash.val = Purge(next.trash.val, clock)
    BY <1>1, <1>3, PurgedFields
  <2>2. CASE next.trash = served.trash
    BY <1>3, <2>1, <2>2
  <2>3. CASE next.trash # served.trash
    BY <1>3, <1>6, <2>1, <2>3, OnlySubset DEF Purge
  <2> QED
    BY <2>2, <2>3
<1> HIDE DEF purged, next, restored, chain
<1>8. SameEntries(served, purged) /\ SameEntries(purged, served)
  BY <1>7 DEF SameEntries
<1>9. TrashTransfer(served, purged, clock)
  BY <1>1, <1>5, <1>7, <1>8 DEF TrashTransfer, GainsHousehold
<1>10. TrashTransfer(purged, served, clock)
  <2>1. IDs(Purge(purged.trash.val, clock)) \subseteq IDs(purged.trash.val)
    BY OnlySubset DEF Purge
  <2> QED
    BY <1>7, <1>8, <2>1 DEF TrashTransfer, KeepsEntries
<1> QED
  BY <1>1, <1>3, <1>9, <1>10, UpdateLists DEF purged

\* A save of the form or of the title leaves the Trash alone.
LEMMA TrashAloneLists ==
    ASSUME TypeOK, TypeOK', TrashInv, NEW next \in State, Update(next),
           next.trash = served.trash
    PROVE  TrashInv'
<1>1. Idle
  BY DEF Update
<1>2. PurgedIfChanged(next).trash = served.trash
  BY <1>1, PurgedFields
<1> QED
  BY <1>2, UpdateLists DEF TrashTransfer

LEMMA SaveLists ==
    ASSUME TypeOK, TypeOK', TrashInv, NEW id \in HouseholdID, NEW form \in Submissions,
           Save(id, form)
    PROVE  TrashInv'
<1> DEFINE doc == served.document.val
           sub == ParseSubmission(doc[id], form)
<1>1. served \in State /\ doc \in Document /\ id \in IDs(doc)
  BY DEF Save, Idle, TypeOK, State, Pointer
<1>2. sub \in Submission
  BY LiveAssumption DEF ParseSubmission, Submission
<1>3. PICK mint \in MintedFor(doc[id], sub, HouseholdID \ InUse) :
         Update([served EXCEPT !.document = New(ApplySubmission(doc, id, sub, mint))])
  BY DEF Save
<1>4. New(ApplySubmission(doc, id, sub, mint)) \in Pointer(Document)
  BY <1>1, <1>2, ApplyType, NewType
<1> DEFINE next == [served EXCEPT !.document = New(ApplySubmission(doc, id, sub, mint))]
<1>5. next \in State /\ next.trash = served.trash
  BY <1>1, <1>4 DEF State
<1> QED
  BY <1>3, <1>5, TrashAloneLists

LEMMA WriteFileLists ==
    ASSUME TypeOK, TypeOK', Inv, TrashInv, NEW file \in File, WriteFile(file)
    PROVE  TrashInv'
<1>1. /\ job \in Job /\ job # None /\ JobSound /\ TrashJob /\ disk \in Disk
      /\ file \in job.todo
      /\ job.first \in job.todo => file = job.first
      /\ disk' = [disk EXCEPT ![file] = job.next[file].val]
      /\ job' = [job EXCEPT !.todo = @ \ {file}]
      /\ UNCHANGED <<clock, served, undo>>
  BY DEF WriteFile, Inv, TrashInv, TypeOK
<1>2. /\ job'.next = job.next /\ job'.undo = job.undo
      /\ job'.todo = job.todo \ {file} /\ job' # None
  BY <1>1, NilAssumption DEF Job
<1>3. file # "trash" => disk'.trash = disk.trash
  BY <1>1 DEF Disk, File
<1>4. "trash" \in job'.todo \/ job'.next.trash = served.trash =>
         Lists(disk'.trash, served.trash.val, clock)
  <2>1. CASE file # "trash"
    BY <1>1, <1>2, <1>3, <2>1 DEF TrashJob
  <2>2. CASE file = "trash"
    <3>1. job.next.trash # served.trash
      BY <1>1, <2>2 DEF JobSound, Changed
    <3> QED
      BY <1>2, <2>2, <3>1
  <2> QED
    BY <2>1, <2>2
<1>5. "trash" \notin job'.todo /\ "document" \in job'.todo /\ job'.next.trash # served.trash =>
         ~ GainsHousehold(served, job'.next)
  <2>1. CASE file # "trash"
    BY <1>1, <1>2, <2>1 DEF TrashJob
  <2>2. CASE file = "trash" /\ "document" \in job.todo
    <3>1. job.first # "document"
      BY <1>1, <2>2
    <3> QED
      BY <1>1, <1>2, <3>1 DEF JobSound, FirstFile
  <2> QED
    BY <1>2, <2>1, <2>2
<1>6. TrashJob'
  BY <1>1, <1>2, <1>4, <1>5 DEF TrashJob
<1> QED
  BY <1>1, <1>2, <1>6 DEF TrashInv, Idle

\* A failed save that had written the Trash had kept what is listed.
LEMMA WriteFailsLists ==
    ASSUME TypeOK, Inv, TrashInv, WriteFails
    PROVE  TrashInv'
<1>1. /\ job # None /\ job.todo # {} /\ JobSound /\ TrashJob
      /\ job' = None /\ UNCHANGED <<clock, served, undo, disk>>
  BY DEF WriteFails, Inv, TrashInv
<1>2. Lists(disk.trash, served.trash.val, clock)
  <2>1. CASE "trash" \in job.todo \/ job.next.trash = served.trash
    BY <1>1, <2>1 DEF TrashJob
  <2>2. CASE "trash" \notin job.todo /\ job.next.trash # served.trash
    <3>1. "document" \in job.todo
      BY <1>1, <2>2 DEF JobSound, MixedSave, Changed, File
    <3>2. disk.trash = job.next.trash.val
      BY <1>1, <2>2 DEF JobSound
    <3>3. /\ KeepsEntries(served, job.next, clock)
          /\ SameEntries(served, job.next)
      BY <1>1, <2>2, <3>1 DEF TrashJob, TrashTransfer
    <3>4. IDs(Purge(served.trash.val, clock)) \subseteq IDs(served.trash.val)
      BY OnlySubset DEF Purge
    <3> QED
      BY <3>2, <3>3, <3>4 DEF Lists, KeepsEntries, SameEntries
  <2> QED
    BY <2>1, <2>2
<1> QED
  BY <1>1, <1>2 DEF TrashInv, Idle

LEMMA CommitLists ==
    ASSUME TypeOK, TypeOK', Inv, TrashInv, Commit
    PROVE  TrashInv'
<1>1. /\ job # None /\ job.todo = {} /\ JobSound /\ TrashJob
      /\ served' = job.next /\ undo' = job.undo /\ job' = None
      /\ UNCHANGED <<clock, disk>>
  BY DEF Commit, Inv, TrashInv
<1>2. Lists(disk.trash, job.next.trash.val, clock)
  <2>1. CASE job.next.trash = served.trash
    BY <1>1, <2>1 DEF TrashJob
  <2>2. CASE job.next.trash # served.trash
    <3>1. disk.trash = job.next.trash.val
      BY <1>1, <2>2 DEF JobSound
    <3>2. IDs(Purge(job.next.trash.val, clock)) \subseteq IDs(job.next.trash.val)
      BY OnlySubset DEF Purge
    <3> QED
      BY <3>1, <3>2 DEF Lists
  <2> QED
    BY <2>1, <2>2
<1> QED
  BY <1>1, <1>2 DEF TrashInv, TrashJob

LEMMA StartLists ==
    ASSUME TypeOK, TrashInv, Start
    PROVE  TrashInv'
<1> DEFINE t == OpenTrash(disk, clock)
<1>1. /\ served' = Open(disk, clock) /\ undo' = None /\ job' = None
      /\ disk'.trash = t
  BY DEF Start, TypeOK, Disk
<1>2. served'.trash.val = t
  BY <1>1 DEF Open, Loaded
<1> HIDE DEF t
<1>3. IDs(Purge(t, clock')) \subseteq IDs(t)
  BY OnlySubset DEF Purge
<1> QED
  BY <1>1, <1>2, <1>3 DEF TrashInv, UndoTransfer, Lists

LEMMA TickLists ==
    ASSUME TypeOK, TrashInv, Tick
    PROVE  TrashInv'
<1>1. /\ clock \in Nat /\ clock' \in Nat /\ clock <= clock'
      /\ UNCHANGED <<served, undo, job, disk>>
  BY DEF Tick, TypeOK
<1>2. Idle => Lists(disk.trash, served.trash.val, clock')
  BY <1>1, ListsLater DEF TrashInv, Idle, TypeOK, State, Pointer
<1>3. ASSUME NEW state \in State, NEW point \in UndoPoint \cup {None},
             UndoTransfer(state, point, clock)
      PROVE  UndoTransfer(state, point, clock')
  BY <1>1, <1>3, TransferLater DEF UndoTransfer, UndoPoint
<1>4. UndoTransfer(served, undo, clock')
  <2>1. CASE served = None
    BY <2>1 DEF TypeOK, UndoTransfer
  <2>2. CASE served # None
    BY <1>3, <2>2 DEF TypeOK, TrashInv
  <2> QED
    BY <2>1, <2>2
<1>5. job # None => TrashJob'
  <2> SUFFICES ASSUME job # None
               PROVE  TrashJob'
    OBVIOUS
  <2>1. /\ served \in State /\ job.next \in State /\ job.undo \in UndoPoint \cup {None}
        /\ TrashJob
    BY DEF TypeOK, Job, TrashInv
  <2>2. TrashTransfer(served, job.next, clock')
    BY <1>1, <2>1, TransferLater DEF TrashJob
  <2>3. UndoTransfer(job.next, job.undo, clock')
    BY <1>3, <2>1 DEF TrashJob
  <2>4. Lists(disk.trash, served.trash.val, clock) =>
           Lists(disk.trash, served.trash.val, clock')
    BY <1>1, <2>1, ListsLater DEF State, Pointer
  <2> QED
    BY <1>1, <2>1, <2>2, <2>3, <2>4 DEF TrashJob
<1> QED
  BY <1>1, <1>2, <1>4, <1>5 DEF TrashInv, Idle

LEMMA UndoLists ==
    ASSUME TypeOK, TypeOK', TrashInv, NEW token, Undo(token)
    PROVE  TrashInv'
<1>1. /\ Idle /\ undo # None /\ Begin(undo.before, None)
      /\ UNCHANGED <<clock, served, undo, disk>>
  BY DEF Undo, TokenCurrent
<1>2. undo.before \in State
  BY <1>1 DEF TypeOK, UndoPoint
<1>3. TrashTransfer(served, undo.before, clock)
  BY <1>1 DEF TrashInv, UndoTransfer
<1>4. UndoTransfer(undo.before, None, clock)
  BY DEF UndoTransfer
<1> QED
  BY <1>1, <1>2, <1>3, <1>4, BeginLists

LEMMA SetTitleLists ==
    ASSUME TypeOK, TypeOK', TrashInv, NEW title \in Title, SetTitle(title)
    PROVE  TrashInv'
<1> DEFINE next == [served EXCEPT !.settings = New(title)]
<1>1. served \in State /\ Update(next)
  BY DEF SetTitle, Idle, TypeOK
<1>2. next \in State /\ next.trash = served.trash
  BY <1>1, NewType DEF State
<1> QED
  BY <1>1, <1>2, TrashAloneLists

LEMMA TrashStep == TypeOK /\ TypeOK' /\ Inv /\ TrashInv /\ [Next]_vars => TrashInv'
<1> SUFFICES ASSUME TypeOK, TypeOK', Inv, TrashInv, [Next]_vars
             PROVE  TrashInv'
  OBVIOUS
<1>1. ASSUME NEW id \in HouseholdID, NEW form \in Submissions, Save(id, form)
      PROVE  TrashInv'
  BY <1>1, SaveLists
<1>2. ASSUME NEW id \in HouseholdID, DeleteHousehold(id)
      PROVE  TrashInv'
  BY <1>2, DeleteLists
<1>3. ASSUME NEW id \in HouseholdID, RestoreHousehold(id)
      PROVE  TrashInv'
  BY <1>3, RestoreLists
<1>4. ASSUME NEW title \in Title, SetTitle(title)
      PROVE  TrashInv'
  BY <1>4, SetTitleLists
<1>5. ASSUME NEW token \in 1 .. saves, Undo(token)
      PROVE  TrashInv'
  BY <1>5, UndoLists
<1>6. ASSUME NEW file \in File, WriteFile(file)
      PROVE  TrashInv'
  BY <1>6, WriteFileLists
<1>7. CASE WriteFails
  BY <1>7, WriteFailsLists
<1>8. CASE Commit
  BY <1>8, CommitLists
<1>9. CASE Crash
  BY <1>9 DEF Crash, TrashInv, Idle, UndoTransfer
<1>10. CASE Start
  BY <1>10, StartLists
<1>11. CASE Tick
  BY <1>11, TickLists
<1>12. CASE StepBack
  BY <1>12 DEF StepBack, TypeOK, TrashInv, Idle, UndoTransfer
<1>13. CASE UNCHANGED vars
  <2>1. UNCHANGED <<clock, served, undo, job, disk>>
    BY <1>13 DEF vars
  <2>2. Idle => Lists(disk.trash, served.trash.val, clock)'
    BY <2>1 DEF TrashInv
  <2>3. UndoTransfer(served, undo, clock)'
    BY <2>1 DEF TrashInv
  <2>4. job # None => TrashJob'
    BY <2>1 DEF TrashInv, TrashJob
  <2> QED
    BY <2>1, <2>2, <2>3, <2>4 DEF TrashInv, Idle
<1> QED
  BY <1>1, <1>2, <1>3, <1>4, <1>5, <1>6, <1>7, <1>8, <1>9, <1>10, <1>11, <1>12, <1>13 DEF Next

\* The Trash on disk as it was, or written, or the document that gained.
LEMMA TrashKept == TypeOK /\ Inv /\ TrashInv => DeletedNeverLost
<1> SUFFICES ASSUME TypeOK, Inv, TrashInv, served # None,
                    NEW id \in IDs(Purge(served.trash.val, clock))
             PROVE  OnDisk(id, served.trash.val[id].household) \/ Settled(id)
  BY DEF DeletedNeverLost
<1>1. id \in IDs(served.trash.val)
  BY OnlySubset DEF Purge
<1>2. CASE Lists(disk.trash, served.trash.val, clock)
  BY <1>2 DEF Lists, OnDisk
<1>3. CASE ~ Lists(disk.trash, served.trash.val, clock)
  <2>1. /\ job # None /\ JobSound /\ TrashJob
        /\ "trash" \notin job.todo /\ job.next.trash # served.trash
    BY <1>3 DEF TrashInv, TrashJob, Idle, Inv
  <2>2. disk.trash = job.next.trash.val
    BY <2>1 DEF JobSound
  <2>3. SameEntries(served, job.next)
    BY <2>1 DEF TrashJob, TrashTransfer
  <2>4. CASE id \in IDs(job.next.trash.val)
    BY <1>1, <2>2, <2>3, <2>4 DEF SameEntries, OnDisk
  <2>5. CASE id \notin IDs(job.next.trash.val)
    <3>1. "document" \notin job.todo
      BY <2>1, <2>5 DEF TrashJob, TrashTransfer, KeepsEntries
    <3>2. Holds(disk.document, job.next.document.val)
      BY <2>1, <3>1 DEF JobSound
    <3> QED
      BY <2>1, <2>5, <3>2 DEF Settled, Holds, OnDisk
  <2> QED
    BY <2>4, <2>5
<1> QED
  BY <1>2, <1>3

(***************************************************************************)
(* Whatever fails, and whenever the process dies, a Household that         *)
(* Recently deleted lists is on disk until a save has taken it out of the  *)
(* Trash and brought it to where it now is.                                *)
(***************************************************************************)
THEOREM DeletedHouseholdsKept == Spec => []DeletedNeverLost
<1>1. Init => TrashInv
  BY DEF Init, TrashInv, Idle, UndoTransfer
<1>2. TypeOK /\ TypeOK' /\ Inv /\ TrashInv /\ [Next]_vars => TrashInv'
  BY TrashStep
<1>3. TypeOK /\ Inv /\ TrashInv => DeletedNeverLost
  BY TrashKept
<1>4. Spec => [](TypeOK /\ Inv)
  BY SoundAlways
<1> QED
  BY <1>1, <1>2, <1>3, <1>4, PTL DEF Spec

-----------------------------------------------------------------------------
(***************************************************************************)
(* Nothing in the Trash is ever unrestorable.  A failed save may leave on  *)
(* disk a Trash that is neither the one served nor that of any state that  *)
(* was; the invariant says that what its entries need is still there, with *)
(* the document on disk, with the one served, and with the one that Undo   *)
(* would bring back without writing the Trash.                             *)
(***************************************************************************)

\* What the entries of t that are not in doc need is in one or the other.
Weak(t, doc) == \A id \in IDs(t) \ IDs(doc) : NeedsOf(t, id) \subseteq IDs(doc) \cup IDs(t)

\* What a save added to the document stands on what was there before.
Stands(from, to) ==
    \A id \in IDs(to.document.val) \ IDs(from.document.val) :
        Needs(to.document.val[id]) \subseteq IDs(from.document.val)

UndoCoherent(state, point, stored) ==
    point # None =>
        /\ CoherentState(point.before)
        /\ point.before.trash = state.trash =>
              Weak(stored, point.before.document.val) /\ Stands(point.before, state)

CoherentJob ==
    /\ CoherentState(job.next)
    /\ undo # None => CoherentState(undo.before)
    /\ job.undo # None =>
          /\ job.undo.before = served
          /\ job.next.trash = served.trash => Stands(served, job.next)
    /\ "trash" \in job.todo \/ job.next.trash = served.trash =>
          Weak(disk.trash, served.document.val) /\ UndoCoherent(served, undo, disk.trash)
    /\ job.next.trash = served.trash => Weak(disk.trash, job.next.document.val)
    /\ job.next.trash # served.trash /\ ~ GainsHousehold(served, job.next) =>
          UndoCoherent(served, undo, job.next.trash.val)

CoherentInv ==
    /\ Weak(disk.trash, disk.document)
    /\ served # None => CoherentState(served)
    /\ Idle => Weak(disk.trash, served.document.val) /\ UndoCoherent(served, undo, disk.trash)
    /\ job # None => CoherentJob

-----------------------------------------------------------------------------
(* Coherence, purged, deleted from and restored to. *)

\* A purge keeps what the entries it keeps need.
LEMMA PurgeClosed ==
    ASSUME NEW t \in TrashOf, NEW now
    PROVE  /\ IDs(Purge(t, now)) \subseteq IDs(t)
           /\ \A id \in IDs(Purge(t, now)) :
                 /\ Purge(t, now)[id] = t[id]
                 /\ NeedsOf(t, id) \cap IDs(t) \subseteq IDs(Purge(t, now))
<1> DEFINE kept == NeedClosure(t, Unexpired(t, now))
<1>1. IDs(Purge(t, now)) = IDs(t) \cap kept
  BY DEF Purge, Only, IDs
<1>2. \A id \in IDs(Purge(t, now)) : Purge(t, now)[id] = t[id]
  BY OnlySubset DEF Purge
<1>3. ASSUME NEW id \in IDs(t) \cap kept
      PROVE  NeedsOf(t, id) \cap IDs(t) \subseteq kept
  <2>1. ASSUME NEW need \in NeedsOf(t, id) \cap IDs(t), NEW ids \in SUBSET HouseholdID,
               Unexpired(t, now) \subseteq ids,
               \A other \in ids \cap IDs(t) : NeedsOf(t, other) \subseteq ids
        PROVE  need \in ids
    <3>1. id \in ids
      BY <2>1 DEF NeedClosure
    <3> QED
      BY <2>1, <3>1
  <2>2. IDs(t) \subseteq HouseholdID
    BY DEF IDs
  <2> QED
    BY <2>1, <2>2 DEF NeedClosure
<1> HIDE DEF kept
<1> QED
  BY <1>1, <1>2, <1>3

LEMMA PurgeCoherent ==
    ASSUME NEW t \in TrashOf, NEW doc, NEW now, Coherent(doc, t)
    PROVE  Coherent(doc, Purge(t, now))
<1>1. /\ IDs(Purge(t, now)) \subseteq IDs(t)
      /\ \A id \in IDs(Purge(t, now)) :
            /\ Purge(t, now)[id] = t[id]
            /\ NeedsOf(t, id) \cap IDs(t) \subseteq IDs(Purge(t, now))
  BY PurgeClosed
<1>2. \A id \in IDs(Purge(t, now)) : NeedsOf(Purge(t, now), id) = NeedsOf(t, id)
  BY <1>1 DEF NeedsOf
<1> QED
  BY <1>1, <1>2 DEF Coherent

\* What a start makes of the files is coherent.
LEMMA OpenCoherent ==
    ASSUME NEW d \in Disk, NEW now, Weak(d.trash, d.document)
    PROVE  /\ CoherentState(Open(d, now))
           /\ Coherent(d.document, OpenTrash(d, now))
<1> DEFINE r == Reconcile(d.trash, d.document)
<1>1. d.trash \in TrashOf
  BY DEF Disk
<1>2. r \in TrashOf
  BY <1>1, ReconcileType
<1>3. IDs(r) = IDs(d.trash) \ IDs(d.document) /\ (\A id \in IDs(r) : r[id] = d.trash[id])
  BY DEF Reconcile, Only, IDs
<1> HIDE DEF r
<1>4. \A id \in IDs(r) : NeedsOf(r, id) = NeedsOf(d.trash, id)
  BY <1>3 DEF NeedsOf
<1>5. Coherent(d.document, r)
  BY <1>3, <1>4 DEF Weak, Coherent
<1>6. Coherent(d.document, Purge(r, now))
  BY <1>2, <1>5, PurgeCoherent
<1>7. OpenTrash(d, now) = Purge(r, now)
  BY DEF OpenTrash, r
<1> QED
  BY <1>6, <1>7 DEF CoherentState, Open, Loaded

LEMMA DeleteCoherent ==
    ASSUME NEW t \in TrashOf, NEW doc \in Document, NEW id, NEW now \in Nat,
           Coherent(doc, t), ReferencesExist(doc), Deletable(doc, id)
    PROVE  /\ Coherent(Delete(t, doc, id, now).document, Delete(t, doc, id, now).trash)
           /\ NeedsOf(Delete(t, doc, id, now).trash, id) = Needs(doc[id])
<1> DEFINE deleted == Delete(t, doc, id, now)
           entry == [deletedAt |-> now, household |-> doc[id]]
<1>1. id \in IDs(doc) /\ id \in HouseholdID /\ doc[id] \in Household
  BY DEF Deletable, IDs, Document
<1>2. deleted.document = [doc EXCEPT ![id] = None] /\ deleted.trash = [t EXCEPT ![id] = entry]
  BY DEF Delete
<1>3. entry # None
  BY <1>1, NoEntryAssumption DEF Entry
<1>4. IDs(deleted.document) = IDs(doc) \ {id} /\ IDs(deleted.trash) = IDs(t) \cup {id}
  BY <1>1, <1>2, <1>3 DEF IDs, Document, TrashOf
<1>5. NeedsOf(deleted.trash, id) = Needs(doc[id])
  BY <1>1, <1>2 DEF NeedsOf, TrashOf
<1>6. \A other \in IDs(t) \ {id} : NeedsOf(deleted.trash, other) = NeedsOf(t, other)
  BY <1>2 DEF NeedsOf, TrashOf, IDs
<1>7. id \notin Needs(doc[id])
  <2>1. doc[id].parent # id
    BY <1>1 DEF Deletable, DeleteBlocked, Children
  <2>2. doc[id].sharedWith # id
    BY <1>1 DEF Deletable, DeleteBlocked, Sharers
  <2> QED
    BY <2>1, <2>2 DEF Needs
<1>8. Needs(doc[id]) \subseteq IDs(doc)
  BY <1>1 DEF ReferencesExist
<1> HIDE DEF deleted, entry
<1> QED
  BY <1>4, <1>5, <1>6, <1>7, <1>8 DEF Coherent, deleted

LEMMA RestoreCoherent ==
    ASSUME NEW t \in TrashOf, NEW doc \in Document, NEW id,
           Coherent(doc, t), Restorable(t, doc, id)
    PROVE  /\ Coherent(Restore(t, doc, id).document, Restore(t, doc, id).trash)
           /\ IDs(Restore(t, doc, id).document) = IDs(doc) \cup Chain(t, doc, id)
<1> DEFINE chain == Chain(t, doc, id)
           restored == Restore(t, doc, id)
<1>1. chain \subseteq IDs(t) \ IDs(doc) /\ chain \subseteq HouseholdID
  BY ChainMoves DEF IDs
<1>2. \A back \in chain : t[back].household \in Household
  BY <1>1 DEF IDs, TrashOf, Entry
<1>3. restored.document = [back \in HouseholdID |->
                              IF back \in chain THEN t[back].household ELSE doc[back]]
      /\ restored.trash = Only(t, HouseholdID \ chain)
  BY DEF Restore
<1> HIDE DEF chain, restored
<1>4. IDs(restored.document) = IDs(doc) \cup chain
  BY <1>1, <1>2, <1>3, NoneAssumption DEF IDs
<1>5. IDs(restored.trash) = IDs(t) \ chain
      /\ (\A other \in IDs(restored.trash) : restored.trash[other] = t[other])
  BY <1>3 DEF Only, IDs
<1>6. \A other \in IDs(restored.trash) : NeedsOf(restored.trash, other) = NeedsOf(t, other)
  BY <1>5 DEF NeedsOf
<1> QED
  BY <1>1, <1>4, <1>5, <1>6 DEF Coherent, restored, chain

-----------------------------------------------------------------------------
(* The steps. *)

LEMMA BeginCoherent ==
    ASSUME TypeOK, TypeOK', CoherentInv, Idle, NEW next \in State,
           NEW point \in UndoPoint \cup {None}, Begin(next, point),
           UNCHANGED <<clock, served, undo, disk>>,
           CoherentState(next),
           point # None =>
               /\ point.before = served
               /\ next.trash = served.trash => Stands(served, next),
           next.trash = served.trash => Weak(disk.trash, next.document.val),
           next.trash # served.trash /\ ~ GainsHousehold(served, next) =>
               UndoCoherent(served, undo, next.trash.val)
    PROVE  CoherentInv'
<1>1. /\ job' # None /\ job'.next = next /\ job'.undo = point
      /\ job'.todo = Changed(served, next)
  BY JobIsThere DEF TypeOK
<1>2. /\ Weak(disk.trash, disk.document) /\ CoherentState(served)
      /\ Weak(disk.trash, served.document.val) /\ UndoCoherent(served, undo, disk.trash)
  BY DEF CoherentInv, Idle
<1>3. undo # None => CoherentState(undo.before)
  BY <1>2 DEF UndoCoherent
<1>4. CoherentJob'
  BY <1>1, <1>2, <1>3 DEF CoherentJob
<1> QED
  BY <1>1, <1>2, <1>4 DEF CoherentInv, Idle

LEMMA UpdateCoherent ==
    ASSUME TypeOK, TypeOK', CoherentInv, NEW next \in State, Update(next),
           NEW purged, purged = PurgedIfChanged(next),
           CoherentState(purged),
           purged.trash = served.trash =>
               Stands(served, purged) /\ Weak(disk.trash, purged.document.val),
           purged.trash # served.trash /\ ~ GainsHousehold(served, purged) =>
               UndoCoherent(served, undo, purged.trash.val)
    PROVE  CoherentInv'
<1> DEFINE point == [token |-> saves + 1, before |-> served]
<1>1. Idle /\ Begin(purged, point) /\ UNCHANGED <<clock, served, undo, disk>>
  BY DEF Update
<1>2. purged \in State
  BY <1>1, PurgedFields
<1>3. point \in UndoPoint /\ point.before = served
  BY <1>1 DEF UndoPoint, TypeOK, Idle
<1> HIDE DEF point
<1> QED
  BY <1>1, <1>2, <1>3, BeginCoherent

LEMMA SetTitleCoherent ==
    ASSUME TypeOK, TypeOK', CoherentInv, NEW title \in Title, SetTitle(title)
    PROVE  CoherentInv'
<1> DEFINE next == [served EXCEPT !.settings = New(title)]
           purged == PurgedIfChanged(next)
<1>1. Idle /\ served \in State /\ Update(next)
  BY DEF SetTitle, Idle, TypeOK
<1>2. next \in State /\ next.trash = served.trash /\ next.document = served.document
  BY <1>1, NewType DEF State
<1>3. purged.trash = served.trash /\ purged.document = served.document
  BY <1>1, <1>2, PurgedFields
<1>4. CoherentState(served) /\ Weak(disk.trash, served.document.val)
  BY <1>1 DEF CoherentInv, Idle
<1> HIDE DEF next, purged
<1>5. CoherentState(purged)
  BY <1>3, <1>4 DEF CoherentState
<1>6. Stands(served, purged) /\ Weak(disk.trash, purged.document.val)
  BY <1>3, <1>4 DEF Stands
<1>7. purged = PurgedIfChanged(next)
  BY DEF purged
<1> QED
  BY <1>1, <1>2, <1>3, <1>5, <1>6, <1>7, UpdateCoherent

\* Undo brings back a state that was coherent when it was served.
LEMMA UndoIsCoherent ==
    ASSUME TypeOK, TypeOK', CoherentInv, NEW token, Undo(token)
    PROVE  CoherentInv'
<1>1. /\ Idle /\ undo # None /\ Begin(undo.before, None)
      /\ UNCHANGED <<clock, served, undo, disk>>
  BY DEF Undo, TokenCurrent
<1>2. undo.before \in State
  BY <1>1 DEF TypeOK, UndoPoint
<1>3. UndoCoherent(served, undo, disk.trash)
  BY <1>1 DEF CoherentInv
<1>4. /\ CoherentState(undo.before)
      /\ undo.before.trash = served.trash => Weak(disk.trash, undo.before.document.val)
  BY <1>1, <1>3 DEF UndoCoherent
<1>5. undo.before.trash # served.trash => UndoCoherent(served, undo, undo.before.trash.val)
  BY <1>4 DEF UndoCoherent
<1> QED
  BY <1>1, <1>2, <1>4, <1>5, BeginCoherent

\* What a save adds stands on the Household that was saved.
LEMMA SaveStands ==
    ASSUME NEW doc \in Document, NEW id, NEW sub, NEW mint, Accepted(doc, id, sub, mint),
           NEW after, after = ApplySubmission(doc, id, sub, mint)
    PROVE  /\ IDs(doc) \subseteq IDs(after) /\ IDs(after) \subseteq IDs(doc) \cup Minted(mint)
           /\ \A other \in IDs(after) \ IDs(doc) : Needs(after[other]) \subseteq IDs(doc)
<1>1. /\ IDs(after) = IDs(doc) \cup Minted(mint)
      /\ \A p \in Promotions(doc[id], sub) :
            after[mint[p]].parent = id /\ after[mint[p]].sharedWith = None
  BY AfterSave
<1>2. Minted(mint) = {mint[p] : p \in Promotions(doc[id], sub)} /\ id \in IDs(doc)
  BY MintedApart DEF Minted, Accepted
<1> QED
  BY <1>1, <1>2 DEF Needs

LEMMA SaveCoherent ==
    ASSUME TypeOK, TypeOK', CoherentInv, NEW id \in HouseholdID, NEW form \in Submissions,
           Save(id, form)
    PROVE  CoherentInv'
<1> DEFINE doc == served.document.val
           sub == ParseSubmission(doc[id], form)
<1>1. /\ served \in State /\ doc \in Document /\ id \in IDs(doc) /\ Idle
      /\ Applicable(doc, id, sub) /\ NewPeople(sub) \cap PeopleInUse = {}
  BY DEF Save, Idle, TypeOK, State, Pointer
<1>2. sub \in Submission /\ (sub.newAdult = sub.newDependent => sub.newAdult = None)
  BY LiveAssumption DEF ParseSubmission, Submission
<1>3. PICK mint \in MintedFor(doc[id], sub, HouseholdID \ InUse) :
         Update([served EXCEPT !.document = New(ApplySubmission(doc, id, sub, mint))])
  BY DEF Save
<1> DEFINE after == ApplySubmission(doc, id, sub, mint)
           next == [served EXCEPT !.document = New(after)]
           purged == PurgedIfChanged(next)
<1>4. IDs(doc) \subseteq InUse /\ IDs(served.trash.val) \subseteq InUse
      /\ IDs(disk.trash) \subseteq InUse
  BY DEF InUse
<1>5. mint \in MintedFor(doc[id], sub, HouseholdID \ IDs(doc))
  BY <1>4 DEF MintedFor, Injection
<1>6. PeopleOf(doc) \subseteq PeopleInUse
  BY DEF PeopleInUse
<1>7. Accepted(doc, id, sub, mint)
  BY <1>1, <1>2, <1>5, <1>6 DEF Accepted
<1>8. Minted(mint) \cap InUse = {}
  BY DEF MintedFor, Injection, Minted
<1>9. New(after) \in Pointer(Document) /\ New(after).val = after
  BY <1>1, <1>2, ApplyType, NewType DEF New
<1> HIDE DEF after, sub
<1>10. next \in State /\ next.document.val = after /\ next.trash = served.trash
  BY <1>1, <1>9 DEF State
<1>11. purged.document.val = after /\ purged.trash = served.trash
  BY <1>1, <1>10, PurgedFields
<1>12. /\ IDs(doc) \subseteq IDs(after) /\ IDs(after) \subseteq IDs(doc) \cup Minted(mint)
       /\ \A other \in IDs(after) \ IDs(doc) : Needs(after[other]) \subseteq IDs(doc)
  BY <1>1, <1>7, SaveStands DEF after
<1>13. CoherentState(served) /\ Weak(disk.trash, doc)
  BY <1>1 DEF CoherentInv, Idle
<1>14. Update(next)
  BY <1>3 DEF after
<1> HIDE DEF next, purged
<1>15. CoherentState(purged)
  BY <1>4, <1>8, <1>11, <1>12, <1>13 DEF CoherentState, Coherent
<1>16. Stands(served, purged) /\ Weak(disk.trash, purged.document.val)
  BY <1>11, <1>12, <1>13 DEF Stands, Weak
<1>17. purged = PurgedIfChanged(next)
  BY DEF purged
<1> QED
  BY <1>10, <1>11, <1>14, <1>15, <1>16, <1>17, UpdateCoherent

\* A deletion that fails once its Trash is written leaves what Undo may still
\* bring the document back to coherent with that Trash.
LEMMA UndoAfterDelete ==
    ASSUME NEW before \in State, NEW state \in State, NEW id, NEW now \in Nat,
           NEW t \in TrashOf, t = state.trash.val,
           NEW doc \in Document, doc = state.document.val,
           CoherentState(before), before.trash = state.trash, Stands(before, state),
           t[id] = None, ReferencesExist(doc), Coherent(doc, t), Deletable(doc, id)
    PROVE  Weak(Purge(Delete(t, doc, id, now).trash, now), before.document.val)
<1> DEFINE after == Delete(t, doc, id, now).trash
           kept == Purge(after, now)
           base == before.document.val
<1>1. id \in IDs(doc) /\ doc[id] \in Household /\ id \in HouseholdID
  BY DEF Deletable, IDs, Document
<1>2. after \in TrashOf
  BY <1>1, DeleteType
<1>3. /\ IDs(kept) \subseteq IDs(after)
      /\ \A other \in IDs(kept) :
            /\ kept[other] = after[other]
            /\ NeedsOf(after, other) \cap IDs(after) \subseteq IDs(kept)
  BY <1>2, PurgeClosed
<1>4. NeedsOf(after, id) = Needs(doc[id])
  BY DeleteCoherent
<1>5. \A other \in HouseholdID \ {id} : after[other] = t[other]
  BY DEF Delete, TrashOf
<1> HIDE DEF after, kept, base
<1>6. \A other \in IDs(kept) : NeedsOf(kept, other) = NeedsOf(after, other)
  BY <1>3 DEF NeedsOf
<1>7. \A other \in IDs(t) : other \in IDs(after) /\ NeedsOf(after, other) = NeedsOf(t, other)
  BY <1>5 DEF IDs, NeedsOf
<1>8. \A other \in IDs(after) : other = id \/ other \in IDs(t)
  BY <1>5 DEF IDs
<1>9. \A other \in IDs(t) : NeedsOf(t, other) \subseteq IDs(base) \cup IDs(t)
  BY DEF CoherentState, Coherent, base
<1>10. id \notin IDs(base) => Needs(doc[id]) \subseteq IDs(base)
  BY <1>1 DEF Stands, base
<1>11. ASSUME NEW other \in IDs(kept) \ IDs(base)
       PROVE  NeedsOf(kept, other) \subseteq IDs(base) \cup IDs(kept)
  <2>1. other \in IDs(after) /\ NeedsOf(kept, other) = NeedsOf(after, other)
    BY <1>3, <1>6
  <2>2. CASE other = id
    BY <1>4, <1>10, <2>1, <2>2
  <2>3. CASE other \in IDs(t)
    <3>1. NeedsOf(after, other) \subseteq IDs(base) \cup IDs(after)
      BY <1>7, <1>9, <2>3
    <3>2. NeedsOf(after, other) \cap IDs(after) \subseteq IDs(kept)
      BY <1>3
    <3> QED
      BY <2>1, <3>1, <3>2
  <2> QED
    BY <1>8, <2>1, <2>2, <2>3
<1> QED
  BY <1>11 DEF Weak, kept, after, base

LEMMA DeleteIsCoherent ==
    ASSUME TypeOK, TypeOK', Inv, BuildInv, CoherentInv, NEW id \in HouseholdID,
           DeleteHousehold(id)
    PROVE  CoherentInv'
<1> DEFINE doc == served.document.val
           t == served.trash.val
           deleted == Delete(t, doc, id, clock)
           next == [served EXCEPT !.document = New(deleted.document),
                                  !.trash = New(deleted.trash)]
           purged == PurgedIfChanged(next)
<1>1. /\ Idle /\ Update(next)
      /\ served \in State /\ doc \in Document /\ t \in TrashOf
      /\ id \in IDs(doc) /\ clock \in Nat /\ Deletable(doc, id)
  BY DEF DeleteHousehold, Deletable, Idle, TypeOK, State, Pointer
<1>2. deleted \in [document : Document, trash : TrashOf]
  BY <1>1, DeleteType
<1>3. next \in State /\ next.document.val = deleted.document /\ next.trash.val = deleted.trash
  <2>1. New(deleted.document) \in Pointer(Document) /\ New(deleted.trash) \in Pointer(TrashOf)
    BY <1>2, NewType
  <2>2. New(deleted.document).val = deleted.document /\ New(deleted.trash).val = deleted.trash
    BY DEF New
  <2> QED
    BY <1>1, <2>1, <2>2 DEF State
<1>4. t[id] = None
  BY <1>1 DEF Inv, Idle, Disjoint, IDs
<1>5. /\ CoherentState(served) /\ Weak(disk.trash, doc) /\ UndoCoherent(served, undo, disk.trash)
      /\ ReferencesExist(doc)
  BY <1>1 DEF CoherentInv, BuildInv, Buildable, Idle
<1>6. Coherent(doc, t)
  BY <1>5 DEF CoherentState
<1>7. Coherent(deleted.document, deleted.trash)
  BY <1>1, <1>5, <1>6, DeleteCoherent
<1>8. id \in Unexpired(deleted.trash, clock)
  <2>1. doc[id] \in Household
    BY <1>1 DEF IDs, Document
  <2>2. deleted.trash[id] = [deletedAt |-> clock, household |-> doc[id]]
    BY <1>1 DEF Delete, TrashOf, IDs
  <2>3. deleted.trash[id] # None
    BY <1>1, <2>1, <2>2, NoEntryAssumption DEF Entry
  <2>4. clock < Expires(deleted.trash[id])
    BY <1>1, <2>2, RetentionAssumption DEF Expires
  <2> QED
    BY <2>3, <2>4 DEF Unexpired, IDs
<1>9. id \in IDs(Purge(deleted.trash, clock))
  BY <1>2, <1>8, PurgeKeepsUnexpired DEF Unexpired, IDs
<1>10. next.trash # served.trash
  BY <1>3, <1>4, <1>8 DEF Unexpired, IDs
<1> HIDE DEF deleted, next
<1>11. purged.document.val = deleted.document /\ purged.trash.val = Purge(deleted.trash, clock)
  BY <1>1, <1>3, <1>10, PurgedFields
<1>12. purged.trash # served.trash
  BY <1>4, <1>9, <1>11 DEF IDs
<1>13. CoherentState(purged)
  BY <1>2, <1>7, <1>11, PurgeCoherent DEF CoherentState
<1>14. UndoCoherent(served, undo, purged.trash.val)
  <2> SUFFICES ASSUME undo # None
               PROVE  UndoCoherent(served, undo, purged.trash.val)
    BY DEF UndoCoherent
  <2>1. undo.before \in State
    BY DEF TypeOK, UndoPoint
  <2>2. CoherentState(undo.before)
    BY <1>5 DEF UndoCoherent
  <2>3. ASSUME undo.before.trash = served.trash
        PROVE  Weak(purged.trash.val, undo.before.document.val) /\ Stands(undo.before, served)
    <3>1. Stands(undo.before, served)
      BY <1>5, <2>3 DEF UndoCoherent
    <3>2. Weak(Purge(Delete(t, doc, id, clock).trash, clock), undo.before.document.val)
      BY <1>1, <1>4, <1>5, <1>6, <2>1, <2>2, <2>3, <3>1, UndoAfterDelete
    <3> QED
      BY <1>11, <3>1, <3>2 DEF deleted
  <2> QED
    BY <2>2, <2>3 DEF UndoCoherent
<1> HIDE DEF purged
<1>15. purged = PurgedIfChanged(next)
  BY DEF purged
<1> QED
  BY <1>1, <1>3, <1>12, <1>13, <1>14, <1>15, UpdateCoherent

LEMMA RestoreIsCoherent ==
    ASSUME TypeOK, TypeOK', CoherentInv, NEW id \in HouseholdID, RestoreHousehold(id)
    PROVE  CoherentInv'
<1> DEFINE doc == served.document.val
           t == served.trash.val
           restored == Restore(t, doc, id)
           next == [served EXCEPT !.document = New(restored.document),
                                  !.trash = New(restored.trash)]
           purged == PurgedIfChanged(next)
<1>1. /\ Idle /\ Update(next)
      /\ served \in State /\ doc \in Document /\ t \in TrashOf
      /\ Restorable(t, doc, id) /\ id \in IDs(t) \ IDs(doc) /\ clock \in Nat
  BY DEF RestoreHousehold, Restorable, Idle, TypeOK, State, Pointer
<1>2. restored \in [document : Document, trash : TrashOf]
  BY <1>1, RestoreType
<1>3. next \in State /\ next.document.val = restored.document /\ next.trash.val = restored.trash
  <2>1. New(restored.document) \in Pointer(Document) /\ New(restored.trash) \in Pointer(TrashOf)
    BY <1>2, NewType
  <2>2. New(restored.document).val = restored.document /\ New(restored.trash).val = restored.trash
    BY DEF New
  <2> QED
    BY <1>1, <2>1, <2>2 DEF State
<1>4. Coherent(doc, t)
  BY <1>1 DEF CoherentInv, Idle, CoherentState
<1>5. /\ Coherent(restored.document, restored.trash)
      /\ IDs(restored.document) = IDs(doc) \cup Chain(t, doc, id)
  BY <1>1, <1>4, RestoreCoherent
<1>6. id \in Chain(t, doc, id)
  BY <1>1 DEF Chain, NeedClosure
<1>7. id \in IDs(restored.document) /\ id \notin IDs(restored.trash)
  BY <1>5, <1>6 DEF Coherent
<1>8. next.trash # served.trash
  BY <1>1, <1>3, <1>7
<1> HIDE DEF restored, next
<1>9. purged.document.val = restored.document /\ purged.trash.val = Purge(restored.trash, clock)
  BY <1>1, <1>3, <1>8, PurgedFields
<1>10. purged.trash # served.trash
  <2>1. IDs(Purge(restored.trash, clock)) \subseteq IDs(restored.trash)
    BY OnlySubset DEF Purge
  <2> QED
    BY <1>1, <1>7, <1>9, <2>1
<1>11. CoherentState(purged)
  BY <1>2, <1>5, <1>9, PurgeCoherent DEF CoherentState
<1>12. GainsHousehold(served, purged)
  BY <1>1, <1>7, <1>9 DEF GainsHousehold
<1> HIDE DEF purged
<1>13. purged = PurgedIfChanged(next)
  BY DEF purged
<1> QED
  BY <1>1, <1>3, <1>10, <1>11, <1>12, <1>13, UpdateCoherent

\* A document that has more leaves less that could be missing.
LEMMA WeakInMore ==
    ASSUME NEW t, NEW doc, NEW more, Weak(t, doc), IDs(doc) \subseteq IDs(more)
    PROVE  Weak(t, more)
  BY DEF Weak

LEMMA CoherentIsWeak ==
    ASSUME NEW doc, NEW t, Coherent(doc, t)
    PROVE  Weak(t, doc)
  BY DEF Weak, Coherent

\* What a document holds of another it has.
LEMMA HoldsHas ==
    ASSUME NEW doc, NEW base, Holds(doc, base)
    PROVE  IDs(base) \subseteq IDs(doc)
  BY DEF Holds, IDs

\* The files stay coherent whichever of them has been written.
LEMMA WriteFileFiles ==
    ASSUME TypeOK, Inv, TrashInv, CoherentInv, NEW file \in File, WriteFile(file)
    PROVE  Weak(disk'.trash, disk'.document)
<1>1. /\ job # None /\ JobSound /\ TrashJob /\ CoherentJob /\ disk \in Disk
      /\ file \in job.todo
      /\ job.first \in job.todo => file = job.first
      /\ disk' = [disk EXCEPT ![file] = job.next[file].val]
  BY DEF WriteFile, Inv, TrashInv, CoherentInv, TypeOK
<1>2. /\ Weak(disk.trash, disk.document)
      /\ Weak(job.next.trash.val, job.next.document.val)
  BY <1>1, CoherentIsWeak DEF CoherentInv, CoherentJob, CoherentState
<1>3. CASE file = "settings"
  <2>1. disk'.trash = disk.trash /\ disk'.document = disk.document
    BY <1>1, <1>3 DEF Disk
  <2> QED
    BY <1>2, <2>1
<1>4. CASE file = "document"
  <2>1. disk'.trash = disk.trash /\ disk'.document = job.next.document.val
    BY <1>1, <1>4 DEF Disk
  <2>2. CASE job.next.trash = served.trash
    BY <1>1, <2>1, <2>2 DEF CoherentJob
  <2>3. CASE job.next.trash # served.trash /\ "trash" \notin job.todo
    <3>1. disk.trash = job.next.trash.val
      BY <1>1, <2>3 DEF JobSound
    <3> QED
      BY <1>2, <2>1, <3>1
  <2>4. CASE job.next.trash # served.trash /\ "trash" \in job.todo
    <3>1. job.first # "trash"
      BY <1>1, <1>4, <2>4
    <3>2. GainsHousehold(served, job.next)
      BY <1>1, <3>1 DEF JobSound, FirstFile
    <3>3. Holds(job.next.document.val, served.document.val)
      BY <1>1, <2>4, <3>2 DEF JobSound, Transfer, OneWay, GainsHousehold
    <3>4. Weak(disk.trash, served.document.val)
      BY <1>1, <2>4 DEF CoherentJob
    <3> QED
      BY <2>1, <3>3, <3>4, HoldsHas, WeakInMore
  <2> QED
    BY <2>2, <2>3, <2>4
<1>5. CASE file = "trash"
  <2>1. disk'.trash = job.next.trash.val /\ disk'.document = disk.document
    BY <1>1, <1>5 DEF Disk
  <2>2. CASE "document" \notin job.todo
    <3>1. Holds(disk.document, job.next.document.val)
      BY <1>1, <2>2 DEF JobSound
    <3> QED
      BY <1>2, <2>1, <3>1, HoldsHas, WeakInMore
  <2>3. CASE "document" \in job.todo
    <3>1. job.first # "document"
      BY <1>1, <1>5, <2>3
    <3>2. IDs(job.next.document.val) \subseteq IDs(served.document.val)
      BY <1>1, <3>1 DEF JobSound, FirstFile, GainsHousehold
    <3>3. Holds(disk.document, served.document.val)
      BY <1>1, <2>3 DEF JobSound
    <3>4. IDs(job.next.document.val) \subseteq IDs(disk.document)
      BY <3>2, <3>3, HoldsHas
    <3> QED
      BY <1>2, <2>1, <3>4, WeakInMore
  <2> QED
    BY <2>2, <2>3
<1> QED
  BY <1>3, <1>4, <1>5 DEF File

LEMMA WriteFileCoherent ==
    ASSUME TypeOK, TypeOK', Inv, TrashInv, CoherentInv, NEW file \in File, WriteFile(file)
    PROVE  CoherentInv'
<1>1. /\ job \in Job /\ job # None /\ JobSound /\ CoherentJob /\ disk \in Disk
      /\ file \in job.todo
      /\ disk' = [disk EXCEPT ![file] = job.next[file].val]
      /\ job' = [job EXCEPT !.todo = @ \ {file}]
      /\ UNCHANGED <<clock, served, undo>>
  BY DEF WriteFile, Inv, CoherentInv, TypeOK
<1>2. /\ job'.next = job.next /\ job'.undo = job.undo
      /\ job'.todo = job.todo \ {file} /\ job' # None
  BY <1>1, NilAssumption DEF Job
<1>3. file # "trash" => disk'.trash = disk.trash
  BY <1>1 DEF Disk, File
<1>4. file = "trash" => job.next.trash # served.trash
  BY <1>1 DEF JobSound, Changed
<1>5. "trash" \in job'.todo \/ job'.next.trash = served.trash =>
         Weak(disk'.trash, served.document.val) /\ UndoCoherent(served, undo, disk'.trash)
  BY <1>1, <1>2, <1>3, <1>4 DEF CoherentJob
<1>6. job'.next.trash = served.trash => Weak(disk'.trash, job'.next.document.val)
  BY <1>1, <1>2, <1>3, <1>4 DEF CoherentJob
<1>7. CoherentJob'
  BY <1>1, <1>2, <1>5, <1>6 DEF CoherentJob
<1> QED
  BY <1>1, <1>2, <1>7, WriteFileFiles DEF CoherentInv, Idle

\* A save that fails with its Trash written has taken from the document only.
LEMMA WriteFailsCoherent ==
    ASSUME TypeOK, Inv, TrashInv, CoherentInv, WriteFails
    PROVE  CoherentInv'
<1>1. /\ job # None /\ job.todo # {} /\ JobSound /\ TrashJob /\ CoherentJob
      /\ job' = None /\ UNCHANGED <<clock, served, undo, disk>>
  BY DEF WriteFails, Inv, TrashInv, CoherentInv
<1>2. Weak(disk.trash, served.document.val) /\ UndoCoherent(served, undo, disk.trash)
  <2>1. CASE "trash" \in job.todo \/ job.next.trash = served.trash
    BY <1>1, <2>1 DEF CoherentJob
  <2>2. CASE "trash" \notin job.todo /\ job.next.trash # served.trash
    <3>1. "document" \in job.todo
      BY <1>1, <2>2 DEF JobSound, MixedSave, Changed, File
    <3>2. disk.trash = job.next.trash.val /\ ~ GainsHousehold(served, job.next)
      BY <1>1, <2>2, <3>1 DEF JobSound, TrashJob
    <3>3. Weak(job.next.trash.val, job.next.document.val)
      BY <1>1, CoherentIsWeak DEF CoherentJob, CoherentState
    <3>4. Weak(job.next.trash.val, served.document.val)
      BY <3>2, <3>3, WeakInMore DEF GainsHousehold
    <3> QED
      BY <1>1, <2>2, <3>2, <3>4 DEF CoherentJob
  <2> QED
    BY <2>1, <2>2
<1> QED
  BY <1>1, <1>2 DEF CoherentInv, Idle

LEMMA CommitCoherent ==
    ASSUME TypeOK, TypeOK', Inv, CoherentInv, Commit
    PROVE  CoherentInv'
<1>1. /\ job # None /\ job.todo = {} /\ JobSound /\ CoherentJob /\ CoherentState(served)
      /\ served' = job.next /\ undo' = job.undo /\ job' = None
      /\ UNCHANGED <<clock, disk>>
  BY DEF Commit, Inv, CoherentInv, TypeOK
<1>2. Weak(disk.trash, job.next.document.val)
  <2>1. CASE job.next.trash = served.trash
    BY <1>1, <2>1 DEF CoherentJob
  <2>2. CASE job.next.trash # served.trash
    <3>1. disk.trash = job.next.trash.val
      BY <1>1, <2>2 DEF JobSound
    <3> QED
      BY <1>1, <3>1, CoherentIsWeak DEF CoherentJob, CoherentState
  <2> QED
    BY <2>1, <2>2
<1>3. UndoCoherent(job.next, job.undo, disk.trash)
  BY <1>1 DEF CoherentJob, UndoCoherent
<1> QED
  BY <1>1, <1>2, <1>3 DEF CoherentInv, CoherentJob, Idle

LEMMA StartCoherent ==
    ASSUME TypeOK, CoherentInv, Start
    PROVE  CoherentInv'
<1>1. /\ served' = Open(disk, clock) /\ undo' = None /\ job' = None /\ disk \in Disk
      /\ disk'.trash = OpenTrash(disk, clock) /\ disk'.document = disk.document
  BY DEF Start, TypeOK, Disk
<1>2. /\ CoherentState(Open(disk, clock))
      /\ Coherent(disk.document, OpenTrash(disk, clock))
  BY <1>1, OpenCoherent DEF CoherentInv
<1>3. Weak(OpenTrash(disk, clock), disk.document)
  BY <1>2, CoherentIsWeak
<1>4. Open(disk, clock).document.val = disk.document
  BY DEF Open, Loaded
<1> QED
  BY <1>1, <1>2, <1>3, <1>4 DEF CoherentInv, UndoCoherent

LEMMA CoherentStep ==
    TypeOK /\ TypeOK' /\ Inv /\ BuildInv /\ TrashInv /\ CoherentInv /\ [Next]_vars => CoherentInv'
<1> SUFFICES ASSUME TypeOK, TypeOK', Inv, BuildInv, TrashInv, CoherentInv, [Next]_vars
             PROVE  CoherentInv'
  OBVIOUS
<1>1. ASSUME NEW id \in HouseholdID, NEW form \in Submissions, Save(id, form)
      PROVE  CoherentInv'
  BY <1>1, SaveCoherent
<1>2. ASSUME NEW id \in HouseholdID, DeleteHousehold(id)
      PROVE  CoherentInv'
  BY <1>2, DeleteIsCoherent
<1>3. ASSUME NEW id \in HouseholdID, RestoreHousehold(id)
      PROVE  CoherentInv'
  BY <1>3, RestoreIsCoherent
<1>4. ASSUME NEW title \in Title, SetTitle(title)
      PROVE  CoherentInv'
  BY <1>4, SetTitleCoherent
<1>5. ASSUME NEW token \in 1 .. saves, Undo(token)
      PROVE  CoherentInv'
  BY <1>5, UndoIsCoherent
<1>6. ASSUME NEW file \in File, WriteFile(file)
      PROVE  CoherentInv'
  BY <1>6, WriteFileCoherent
<1>7. CASE WriteFails
  BY <1>7, WriteFailsCoherent
<1>8. CASE Commit
  BY <1>8, CommitCoherent
<1>9. CASE Crash
  BY <1>9 DEF Crash, CoherentInv, Idle
<1>10. CASE Start
  BY <1>10, StartCoherent
<1>11. CASE Tick \/ StepBack \/ UNCHANGED vars
  <2>1. UNCHANGED <<served, undo, job, disk>>
    BY <1>11 DEF Tick, StepBack, vars
  <2>2. job # None => CoherentJob'
    BY <2>1 DEF CoherentInv, CoherentJob
  <2> QED
    BY <2>1, <2>2 DEF CoherentInv, Idle
<1> QED
  BY <1>1, <1>2, <1>3, <1>4, <1>5, <1>6, <1>7, <1>8, <1>9, <1>10, <1>11 DEF Next

(***************************************************************************)
(* Whatever failed or was interrupted, no Household is in the document and *)
(* in the Trash at once and what an entry needs is in one of them: in the  *)
(* running process, in what Undo would bring back and after a restart.     *)
(***************************************************************************)
THEOREM NothingUnrestorable == Spec => []NeverUnrestorable
<1>1. Init => CoherentInv
  BY DEF Init, CoherentInv, Idle, Weak, EmptyTrash, IDs
<1>2. Init => TrashInv /\ BuildInv
  BY DEF Init, TrashInv, BuildInv, Reversible, Idle, UndoTransfer
<1>3. TypeOK /\ TypeOK' /\ Inv /\ BuildInv /\ TrashInv /\ CoherentInv /\ [Next]_vars
         => (BuildInv /\ TrashInv /\ CoherentInv)'
  BY BuildStep, TrashStep, CoherentStep
<1>4. TypeOK /\ CoherentInv => NeverUnrestorable
  <2> SUFFICES ASSUME TypeOK, CoherentInv
               PROVE  NeverUnrestorable
    OBVIOUS
  <2>1. CoherentState(Recovered)
    BY OpenCoherent DEF Recovered, CoherentInv, TypeOK
  <2>2. undo # None => CoherentState(undo.before)
    BY DEF CoherentInv, CoherentJob, UndoCoherent, Idle, TypeOK
  <2> QED
    BY <2>1, <2>2 DEF NeverUnrestorable, CoherentInv
<1>5. Spec => [](TypeOK /\ Inv)
  BY SoundAlways
<1> QED
  BY <1>1, <1>2, <1>3, <1>4, <1>5, PTL DEF Spec

\* A chain is whole where nothing that an entry needs is missing.
LEMMA ChainWhole ==
    ASSUME NEW t \in TrashOf, NEW doc, Coherent(doc, t), NEW id \in IDs(t)
    PROVE  Restorable(t, doc, id)
<1> DEFINE r == Reconcile(t, doc)
           there == IDs(doc) \cup IDs(t)
<1>1. id \in IDs(t) \ IDs(doc) /\ there \in SUBSET HouseholdID
  BY DEF Coherent, IDs
<1>2. \A other \in IDs(r) : other \in IDs(t) /\ r[other] = t[other]
  BY OnlySubset DEF Reconcile
<1>3. \A other \in there \cap IDs(r) : NeedsOf(r, other) \subseteq there
  BY <1>2 DEF Coherent, NeedsOf
<1> HIDE DEF r
<1>4. NeedClosure(r, {id}) \subseteq there
  BY <1>1, <1>3 DEF NeedClosure
<1> QED
  BY <1>1, <1>4 DEF Restorable, Chain, r

(***************************************************************************)
(* So no restore of an entry, in the running process or after a restart,   *)
(* is refused as unrestorable (ErrUnrestorable) or for want of the entry.  *)
(***************************************************************************)
Restores(state) ==
    \A id \in IDs(state.trash.val) : Restorable(state.trash.val, state.document.val, id)

THEOREM EveryEntryHasItsChain == Spec => []((served # None => Restores(served)) /\ Restores(Recovered))
<1>1. TypeOK /\ NeverUnrestorable =>
         (served # None => Restores(served)) /\ Restores(Recovered)
  <2> SUFFICES ASSUME TypeOK, NeverUnrestorable
               PROVE  (served # None => Restores(served)) /\ Restores(Recovered)
    OBVIOUS
  <2>1. ASSUME NEW state \in State, CoherentState(state)
        PROVE  Restores(state)
    BY <2>1, ChainWhole DEF Restores, CoherentState, State, Pointer
  <2>2. Recovered \in State
    BY OpenType DEF Recovered, TypeOK
  <2> QED
    BY <2>1, <2>2 DEF NeverUnrestorable, TypeOK
<1> QED
  BY <1>1, TypeCorrect, NothingUnrestorable, PTL

-----------------------------------------------------------------------------
(***************************************************************************)
(* Every entry comes back, while every file can be written.  The invariant *)
(* is that the document still builds with the whole of the Trash put back  *)
(* in it: nobody in the Trash is in another Household, and no entry is     *)
(* beneath itself.  A deletion and a restoration leave that sum as it was, *)
(* a save of a form changes it as it changes the document, and between two *)
(* writes the file written first never takes from it.                      *)
(***************************************************************************)

Together(doc, t) ==
    [id \in HouseholdID |->
        IF doc[id] # None THEN doc[id] ELSE IF t[id] # None THEN t[id].household ELSE None]

Whole(doc, t) == Buildable(Together(doc, t))

WholeState(state) == Whole(state.document.val, state.trash.val)

\* The files between the two writes of a save from one to the other.
WholeBetween(from, to) ==
    to.trash # from.trash =>
        IF GainsHousehold(from, to) THEN Whole(to.document.val, from.trash.val)
        ELSE Whole(from.document.val, to.trash.val)

UndoWhole(state, point) ==
    point # None => WholeState(point.before) /\ WholeBetween(state, point.before)

WholeInv ==
    /\ Buildable(disk.document) /\ Whole(disk.document, disk.trash)
    /\ served # None => WholeState(served)
    /\ UndoWhole(served, undo)
    /\ job # None =>
          /\ WholeState(job.next) /\ WholeBetween(served, job.next)
          /\ UndoWhole(job.next, job.undo)

-----------------------------------------------------------------------------
(* What builds, builds in part. *)

LEMMA TogetherType ==
    ASSUME NEW doc \in Document, NEW t \in TrashOf
    PROVE  /\ Together(doc, t) \in Document
           /\ IDs(Together(doc, t)) = IDs(doc) \cup IDs(t)
           /\ \A id \in IDs(doc) : Together(doc, t)[id] = doc[id]
           /\ \A id \in IDs(t) \ IDs(doc) : Together(doc, t)[id] = t[id].household
<1>1. \A id \in IDs(t) : t[id].household \in Household
  BY DEF IDs, TrashOf, Entry
<1>2. \A id \in HouseholdID :
         Together(doc, t)[id] = IF doc[id] # None THEN doc[id]
                                ELSE IF t[id] # None THEN t[id].household ELSE None
  BY DEF Together
<1>3. Together(doc, t) = [id \in HouseholdID |-> Together(doc, t)[id]]
  BY DEF Together
<1>4. \A id \in HouseholdID : Together(doc, t)[id] \in Household \cup {None}
  BY <1>1, <1>2 DEF IDs, Document
<1>5. \A id \in IDs(t) : t[id].household # None
  BY <1>1, NoneAssumption
<1> QED
  BY <1>2, <1>3, <1>4, <1>5 DEF IDs, Document

\* Households taken from one that builds, with what they need, build.
LEMMA PartBuilds ==
    ASSUME NEW whole, NEW part, Buildable(whole),
           IDs(part) \subseteq IDs(whole),
           \A id \in IDs(part) : part[id] = whole[id],
           \A id \in IDs(part) : Needs(whole[id]) \subseteq IDs(part)
    PROVE  Buildable(part)
<1>1. HasAdults(part)
  BY DEF HasAdults, Buildable
<1>2. PersonsUnique(part)
  BY DEF PersonsUnique, Buildable
<1>3. ReferencesExist(part)
  BY DEF ReferencesExist
<1>4. ASSUME NEW ids \in (SUBSET IDs(part)) \ {{}}
      PROVE  \E id \in ids : part[id].parent \notin ids
  <2>1. ids \in (SUBSET IDs(whole)) \ {{}}
    OBVIOUS
  <2>2. PICK id \in ids : whole[id].parent \notin ids
    BY <2>1 DEF Buildable, Acyclic
  <2> QED
    BY <2>2
<1> QED
  BY <1>1, <1>2, <1>3, <1>4 DEF Buildable, Acyclic

\* A purge takes nothing that what it keeps stands on.
LEMMA PurgedWhole ==
    ASSUME NEW doc \in Document, NEW t \in TrashOf, NEW now,
           Whole(doc, t), ReferencesExist(doc)
    PROVE  Whole(doc, Purge(t, now))
<1> DEFINE kept == Purge(t, now)
           whole == Together(doc, t)
           part == Together(doc, kept)
<1>1. kept \in TrashOf
  BY PurgeType
<1>2. /\ IDs(kept) \subseteq IDs(t)
      /\ \A id \in IDs(kept) :
            kept[id] = t[id] /\ NeedsOf(t, id) \cap IDs(t) \subseteq IDs(kept)
  BY PurgeClosed
<1> HIDE DEF kept
<1>3. /\ IDs(part) = IDs(doc) \cup IDs(kept)
      /\ \A id \in IDs(doc) : part[id] = doc[id]
      /\ \A id \in IDs(kept) \ IDs(doc) : part[id] = kept[id].household
  BY <1>1, TogetherType
<1>4. /\ IDs(whole) = IDs(doc) \cup IDs(t)
      /\ \A id \in IDs(doc) : whole[id] = doc[id]
      /\ \A id \in IDs(t) \ IDs(doc) : whole[id] = t[id].household
  BY TogetherType
<1>5. Buildable(whole)
  BY DEF Whole
<1> HIDE DEF part, whole
<1>6. \A id \in IDs(part) : id \in IDs(whole) /\ part[id] = whole[id]
  BY <1>2, <1>3, <1>4
<1>7. ASSUME NEW id \in IDs(part)
      PROVE  Needs(whole[id]) \subseteq IDs(part)
  <2>1. CASE id \in IDs(doc)
    BY <1>3, <1>4, <2>1 DEF ReferencesExist
  <2>2. CASE id \in IDs(kept) \ IDs(doc)
    <3>1. Needs(whole[id]) = NeedsOf(t, id)
      BY <1>2, <1>4, <2>2 DEF NeedsOf
    <3>2. Needs(whole[id]) \subseteq IDs(doc) \cup IDs(t)
      BY <1>4, <1>5, <1>6 DEF Buildable, ReferencesExist
    <3> QED
      BY <1>2, <1>3, <2>2, <3>1, <3>2
  <2> QED
    BY <1>3, <2>1, <2>2
<1>8. Buildable(part)
  BY <1>5, <1>6, <1>7, PartBuilds
<1> QED
  BY <1>8 DEF Whole, part, kept

\* Functions on the same Households that agree are the same.
LEMMA SameDocument ==
    ASSUME NEW one \in Document, NEW other \in Document,
           \A id \in HouseholdID : one[id] = other[id]
    PROVE  one = other
  BY DEF Document

\* A Household moved to the Trash is still there.
LEMMA DeletedWhole ==
    ASSUME NEW doc \in Document, NEW t \in TrashOf, NEW id \in IDs(doc), NEW now \in Nat,
           Whole(doc, t)
    PROVE  /\ Whole(Delete(t, doc, id, now).document, Delete(t, doc, id, now).trash)
           /\ Whole(doc, Delete(t, doc, id, now).trash)
<1> DEFINE deleted == Delete(t, doc, id, now)
           entry == [deletedAt |-> now, household |-> doc[id]]
<1>1. id \in HouseholdID /\ doc[id] \in Household /\ doc[id] # None
  BY DEF IDs, Document
<1>2. deleted.document = [doc EXCEPT ![id] = None] /\ deleted.trash = [t EXCEPT ![id] = entry]
  BY DEF Delete
<1>3. deleted.document \in Document /\ deleted.trash \in TrashOf
  BY DeleteType
<1>4. entry # None /\ entry.household = doc[id]
  BY <1>1, NoEntryAssumption DEF Entry
<1> HIDE DEF deleted, entry
<1>5. \A other \in HouseholdID :
         /\ deleted.document[other] = IF other = id THEN None ELSE doc[other]
         /\ deleted.trash[other] = IF other = id THEN entry ELSE t[other]
  BY <1>2 DEF Document, TrashOf
<1>6. \A other \in HouseholdID :
         /\ Together(deleted.document, deleted.trash)[other] = Together(doc, t)[other]
         /\ Together(doc, deleted.trash)[other] = Together(doc, t)[other]
  BY <1>1, <1>4, <1>5 DEF Together
<1>7. Together(deleted.document, deleted.trash) = Together(doc, t)
  BY <1>3, <1>6, TogetherType, SameDocument
<1>8. Together(doc, deleted.trash) = Together(doc, t)
  BY <1>3, <1>6, TogetherType, SameDocument
<1> QED
  BY <1>7, <1>8 DEF Whole, deleted

\* So are those brought back from it.
LEMMA RestoredWhole ==
    ASSUME NEW doc \in Document, NEW t \in TrashOf, NEW id \in HouseholdID, Whole(doc, t),
           Restorable(t, doc, id)
    PROVE  /\ Whole(Restore(t, doc, id).document, Restore(t, doc, id).trash)
           /\ Whole(Restore(t, doc, id).document, t)
<1> DEFINE chain == Chain(t, doc, id)
           restored == Restore(t, doc, id)
<1>1. chain \subseteq IDs(t) \ IDs(doc) /\ chain \subseteq HouseholdID
  BY ChainMoves DEF IDs
<1>2. restored.document \in Document /\ restored.trash \in TrashOf
  BY RestoreType
<1>3. \A other \in HouseholdID :
         /\ restored.document[other] = IF other \in chain THEN t[other].household ELSE doc[other]
         /\ restored.trash[other] = IF other \in chain THEN None ELSE t[other]
  BY DEF Restore, Only
<1>4. \A back \in chain : t[back] # None /\ doc[back] = None /\ t[back].household # None
  BY <1>1, NoneAssumption DEF IDs, TrashOf, Entry
<1> HIDE DEF chain, restored
<1>5. \A other \in HouseholdID :
         /\ Together(restored.document, restored.trash)[other] = Together(doc, t)[other]
         /\ Together(restored.document, t)[other] = Together(doc, t)[other]
  BY <1>3, <1>4 DEF Together
<1>6. Together(restored.document, restored.trash) = Together(doc, t)
  BY <1>2, <1>5, TogetherType, SameDocument
<1>7. Together(restored.document, t) = Together(doc, t)
  BY <1>2, <1>5, TogetherType, SameDocument
<1> QED
  BY <1>6, <1>7 DEF Whole, restored

\* A save of a form makes of the sum what it makes of the document.
LEMMA SavedWhole ==
    ASSUME NEW doc \in Document, NEW t \in TrashOf, NEW id, NEW sub, NEW mint,
           Accepted(doc, id, sub, mint), Minted(mint) \cap IDs(t) = {},
           NewPeople(sub) \cap UNION {People(t[other].household) : other \in IDs(t)} = {},
           Whole(doc, t)
    PROVE  Whole(ApplySubmission(doc, id, sub, mint), t)
<1> DEFINE whole == Together(doc, t)
           after == ApplySubmission(doc, id, sub, mint)
           saved == ApplySubmission(whole, id, sub, mint)
<1>1. /\ whole \in Document
      /\ IDs(whole) = IDs(doc) \cup IDs(t)
      /\ \A other \in IDs(doc) : whole[other] = doc[other]
      /\ \A other \in IDs(t) \ IDs(doc) : whole[other] = t[other].household
  BY TogetherType
<1>2. id \in IDs(doc) /\ id \in HouseholdID /\ sub \in Submission /\ whole[id] = doc[id]
  BY <1>1 DEF Accepted, IDs
<1>3. Minted(mint) \subseteq HouseholdID \ IDs(doc)
  BY MintedApart
<1> HIDE DEF whole
<1>4. mint \in MintedFor(whole[id], sub, HouseholdID \ IDs(whole))
  <2>1. mint \in Injection(Promotions(doc[id], sub), HouseholdID \ IDs(doc))
    BY DEF Accepted, MintedFor
  <2>2. mint \in Injection(Promotions(doc[id], sub), HouseholdID \ IDs(whole))
    BY <1>1, <2>1 DEF Injection, Minted
  <2> QED
    BY <1>2, <2>2 DEF MintedFor
<1>5. NewPeople(sub) \cap PeopleOf(whole) = {}
  <2>1. \A other \in IDs(doc) : People(doc[other]) \subseteq PeopleOf(doc)
    BY DEF PeopleOf
  <2>2. \A other \in IDs(whole) : NewPeople(sub) \cap People(whole[other]) = {}
    BY <1>1, <2>1 DEF Accepted
  <2> QED
    BY <2>2 DEF PeopleOf
<1>6. Applicable(whole, id, sub)
  BY <1>1, <1>2 DEF Accepted, Applicable, RoomForNewAdult
<1>7. Accepted(whole, id, sub, mint)
  BY <1>1, <1>2, <1>4, <1>5, <1>6 DEF Accepted
<1>8. Buildable(whole)
  BY DEF Whole, whole
<1>9. Buildable(saved)
  BY <1>1, <1>7, <1>8, StillBuilds
<1>10. after \in Document /\ saved \in Document
  BY <1>1, <1>2, <1>4, ApplyType DEF Accepted
<1>11. \A other \in HouseholdID :
          /\ other \in Minted(mint) \/ other = id => after[other] = saved[other]
          /\ ~ (other \in Minted(mint) \/ other = id) =>
                after[other] = doc[other] /\ saved[other] = whole[other]
  BY <1>2 DEF ApplySubmission, Minted
<1>12. \A other \in Minted(mint) \cup {id} : after[other] # None
  <2>1. IDs(after) = IDs(doc) \cup Minted(mint)
    BY AfterSave
  <2> QED
    BY <1>2, <2>1 DEF IDs
<1> HIDE DEF after, saved
<1>13. \A other \in HouseholdID : Together(after, t)[other] = saved[other]
  BY <1>11, <1>12 DEF Together, whole
<1>14. Together(after, t) = saved
  BY <1>10, <1>13, TogetherType, SameDocument
<1> QED
  BY <1>9, <1>14 DEF Whole, after

-----------------------------------------------------------------------------
(* The steps. *)

LEMMA BeginWhole ==
    ASSUME TypeOK, TypeOK', WholeInv, Idle, NEW next \in State,
           NEW point \in UndoPoint \cup {None}, Begin(next, point),
           UNCHANGED <<clock, served, undo, disk>>,
           WholeState(next), WholeBetween(served, next), UndoWhole(next, point)
    PROVE  WholeInv'
<1>1. job' # None /\ job'.next = next /\ job'.undo = point
  BY JobIsThere DEF TypeOK
<1> QED
  BY <1>1 DEF WholeInv

LEMMA UpdateWhole ==
    ASSUME TypeOK, TypeOK', WholeInv, NEW next \in State, Update(next),
           NEW purged, purged = PurgedIfChanged(next),
           WholeState(purged), WholeBetween(served, purged), WholeBetween(purged, served)
    PROVE  WholeInv'
<1> DEFINE point == [token |-> saves + 1, before |-> served]
<1>1. Idle /\ Begin(purged, point) /\ UNCHANGED <<clock, served, undo, disk>>
  BY DEF Update
<1>2. purged \in State
  BY <1>1, PurgedFields
<1>3. point \in UndoPoint /\ point.before = served
  BY <1>1 DEF UndoPoint, TypeOK, Idle
<1> HIDE DEF point
<1>4. UndoWhole(purged, point)
  BY <1>1, <1>3 DEF UndoWhole, WholeInv, Idle
<1> QED
  BY <1>1, <1>2, <1>3, <1>4, BeginWhole

LEMMA SetTitleWhole ==
    ASSUME TypeOK, TypeOK', WholeInv, NEW title \in Title, SetTitle(title)
    PROVE  WholeInv'
<1> DEFINE next == [served EXCEPT !.settings = New(title)]
           purged == PurgedIfChanged(next)
<1>1. Idle /\ served \in State /\ Update(next)
  BY DEF SetTitle, Idle, TypeOK
<1>2. next \in State /\ next.trash = served.trash /\ next.document = served.document
  BY <1>1, NewType DEF State
<1>3. purged.trash = served.trash /\ purged.document = served.document
  BY <1>1, <1>2, PurgedFields
<1>4. purged = PurgedIfChanged(next)
  BY DEF purged
<1> HIDE DEF next, purged
<1>5. WholeState(purged) /\ WholeBetween(served, purged) /\ WholeBetween(purged, served)
  BY <1>1, <1>3 DEF WholeState, WholeBetween, WholeInv, Idle
<1> QED
  BY <1>1, <1>2, <1>4, <1>5, UpdateWhole

LEMMA UndoIsWhole ==
    ASSUME TypeOK, TypeOK', WholeInv, NEW token, Undo(token)
    PROVE  WholeInv'
<1>1. /\ Idle /\ undo # None /\ Begin(undo.before, None)
      /\ UNCHANGED <<clock, served, undo, disk>>
  BY DEF Undo, TokenCurrent
<1>2. undo.before \in State
  BY <1>1 DEF TypeOK, UndoPoint
<1>3. WholeState(undo.before) /\ WholeBetween(served, undo.before)
  BY <1>1 DEF WholeInv, UndoWhole
<1>4. UndoWhole(undo.before, None)
  BY DEF UndoWhole
<1> QED
  BY <1>1, <1>2, <1>3, <1>4, BeginWhole

LEMMA SaveWhole ==
    ASSUME TypeOK, TypeOK', WholeInv, NEW id \in HouseholdID, NEW form \in Submissions,
           Save(id, form)
    PROVE  WholeInv'
<1> DEFINE doc == served.document.val
           t == served.trash.val
           sub == ParseSubmission(doc[id], form)
<1>1. /\ served \in State /\ doc \in Document /\ t \in TrashOf /\ id \in IDs(doc) /\ Idle
      /\ Applicable(doc, id, sub) /\ NewPeople(sub) \cap PeopleInUse = {}
  BY DEF Save, Idle, TypeOK, State, Pointer
<1>2. sub \in Submission /\ (sub.newAdult = sub.newDependent => sub.newAdult = None)
  BY LiveAssumption DEF ParseSubmission, Submission
<1>3. PICK mint \in MintedFor(doc[id], sub, HouseholdID \ InUse) :
         Update([served EXCEPT !.document = New(ApplySubmission(doc, id, sub, mint))])
  BY DEF Save
<1> DEFINE after == ApplySubmission(doc, id, sub, mint)
           next == [served EXCEPT !.document = New(after)]
           purged == PurgedIfChanged(next)
<1>4. IDs(doc) \subseteq InUse /\ IDs(t) \subseteq InUse
  BY DEF InUse
<1>5. mint \in MintedFor(doc[id], sub, HouseholdID \ IDs(doc))
  BY <1>4 DEF MintedFor, Injection
<1>6. /\ PeopleOf(doc) \subseteq PeopleInUse
      /\ UNION {People(t[other].household) : other \in IDs(t)} \subseteq PeopleInUse
  BY DEF PeopleInUse
<1>7. Accepted(doc, id, sub, mint)
  BY <1>1, <1>2, <1>5, <1>6 DEF Accepted
<1>8. Minted(mint) \cap IDs(t) = {}
  BY <1>4 DEF MintedFor, Injection, Minted
<1>9. New(after) \in Pointer(Document) /\ New(after).val = after
  BY <1>1, <1>2, ApplyType, NewType DEF New
<1>10. Whole(doc, t)
  BY <1>1 DEF WholeInv, WholeState, Idle
<1>11. NewPeople(sub) \cap UNION {People(t[other].household) : other \in IDs(t)} = {}
  BY <1>1, <1>6
<1> HIDE DEF sub
<1>12. Whole(after, t)
  BY <1>1, <1>7, <1>8, <1>10, <1>11, SavedWhole
<1> HIDE DEF after
<1>13. next \in State /\ next.document.val = after /\ next.trash = served.trash
  BY <1>1, <1>9 DEF State
<1>14. purged.document.val = after /\ purged.trash = served.trash
  BY <1>1, <1>13, PurgedFields
<1>15. Update(next) /\ purged = PurgedIfChanged(next)
  BY <1>3 DEF after
<1> HIDE DEF next, purged
<1>16. WholeState(purged) /\ WholeBetween(served, purged) /\ WholeBetween(purged, served)
  BY <1>12, <1>14 DEF WholeState, WholeBetween
<1> QED
  BY <1>13, <1>15, <1>16, UpdateWhole

LEMMA DeleteWhole ==
    ASSUME TypeOK, TypeOK', BuildInv, WholeInv, NEW id \in HouseholdID, DeleteHousehold(id)
    PROVE  WholeInv'
<1> DEFINE doc == served.document.val
           t == served.trash.val
           deleted == Delete(t, doc, id, clock)
           next == [served EXCEPT !.document = New(deleted.document),
                                  !.trash = New(deleted.trash)]
           purged == PurgedIfChanged(next)
<1>1. /\ Idle /\ Update(next)
      /\ served \in State /\ doc \in Document /\ t \in TrashOf
      /\ id \in IDs(doc) /\ clock \in Nat
  BY DEF DeleteHousehold, Deletable, Idle, TypeOK, State, Pointer
<1>2. deleted.document \in Document /\ deleted.trash \in TrashOf
  BY <1>1, DeleteType
<1>3. next \in State /\ next.document.val = deleted.document /\ next.trash.val = deleted.trash
  <2>1. New(deleted.document) \in Pointer(Document) /\ New(deleted.trash) \in Pointer(TrashOf)
    BY <1>2, NewType
  <2>2. New(deleted.document).val = deleted.document /\ New(deleted.trash).val = deleted.trash
    BY DEF New
  <2> QED
    BY <1>1, <2>1, <2>2 DEF State
<1>4. Whole(deleted.document, deleted.trash) /\ Whole(doc, deleted.trash)
  BY <1>1, DeletedWhole DEF WholeInv, WholeState, Idle
<1>5. IDs(deleted.document) \subseteq IDs(doc) /\ id \notin IDs(deleted.document)
  BY <1>1 DEF Delete, IDs, Document
<1>6. Buildable(purged.document.val)
  BY DEF Update, Begin, DeleteHousehold
<1> HIDE DEF deleted, next
<1>7. /\ purged.document = next.document
      /\ purged.trash = served.trash \/ purged.trash.val = Purge(deleted.trash, clock)
  BY <1>1, <1>3, PurgedFields
<1>8. purged = PurgedIfChanged(next)
  BY DEF purged
<1>9. next.trash = served.trash => purged.trash = next.trash
  BY <1>1, <1>3, PurgedFields
<1>10. next.trash # served.trash => purged.trash.val = Purge(deleted.trash, clock)
  BY <1>1, <1>3, PurgedFields
<1> HIDE DEF purged
<1>11. ReferencesExist(deleted.document) /\ ReferencesExist(doc)
  BY <1>1, <1>3, <1>6, <1>7 DEF Buildable, BuildInv, Idle
<1>12. /\ Whole(deleted.document, Purge(deleted.trash, clock))
       /\ Whole(doc, Purge(deleted.trash, clock))
  BY <1>1, <1>2, <1>4, <1>11, PurgedWhole
<1>13. Whole(deleted.document, purged.trash.val) /\ Whole(doc, purged.trash.val)
  BY <1>3, <1>4, <1>9, <1>10, <1>12
<1>14. WholeState(purged) /\ WholeBetween(served, purged) /\ WholeBetween(purged, served)
  BY <1>1, <1>3, <1>5, <1>7, <1>13 DEF WholeState, WholeBetween, GainsHousehold
<1> QED
  BY <1>1, <1>3, <1>8, <1>14, UpdateWhole

LEMMA RestoreWhole ==
    ASSUME TypeOK, TypeOK', WholeInv, NEW id \in HouseholdID, RestoreHousehold(id)
    PROVE  WholeInv'
<1> DEFINE doc == served.document.val
           t == served.trash.val
           restored == Restore(t, doc, id)
           next == [served EXCEPT !.document = New(restored.document),
                                  !.trash = New(restored.trash)]
           purged == PurgedIfChanged(next)
<1>1. /\ Idle /\ Update(next)
      /\ served \in State /\ doc \in Document /\ t \in TrashOf
      /\ Restorable(t, doc, id) /\ id \in IDs(t) \ IDs(doc)
  BY DEF RestoreHousehold, Restorable, Idle, TypeOK, State, Pointer
<1>2. restored.document \in Document /\ restored.trash \in TrashOf
  BY <1>1, RestoreType
<1>3. next \in State /\ next.document.val = restored.document /\ next.trash.val = restored.trash
  <2>1. New(restored.document) \in Pointer(Document) /\ New(restored.trash) \in Pointer(TrashOf)
    BY <1>2, NewType
  <2>2. New(restored.document).val = restored.document /\ New(restored.trash).val = restored.trash
    BY DEF New
  <2> QED
    BY <1>1, <2>1, <2>2 DEF State
<1>4. Whole(restored.document, restored.trash) /\ Whole(restored.document, t)
  BY <1>1, RestoredWhole DEF WholeInv, WholeState, Idle
<1>5. IDs(doc) \subseteq IDs(restored.document) /\ id \in IDs(restored.document)
  <2>1. id \in Chain(t, doc, id)
    BY <1>1 DEF Chain, NeedClosure
  <2>2. \A back \in Chain(t, doc, id) : t[back].household # None
    BY <1>1, ChainMoves, NoneAssumption DEF IDs, TrashOf, Entry
  <2> QED
    BY <1>1, <2>1, <2>2 DEF Restore, IDs
<1>6. Buildable(purged.document.val)
  BY DEF Update, Begin, RestoreHousehold
<1> HIDE DEF restored, next
<1>7. purged.document = next.document
  BY <1>1, <1>3, PurgedFields
<1>8. purged = PurgedIfChanged(next)
  BY DEF purged
<1>9. next.trash = served.trash => purged.trash = next.trash
  BY <1>1, <1>3, PurgedFields
<1>10. next.trash # served.trash => purged.trash.val = Purge(restored.trash, clock)
  BY <1>1, <1>3, PurgedFields
<1> HIDE DEF purged
<1>11. Whole(restored.document, Purge(restored.trash, clock))
  BY <1>2, <1>3, <1>4, <1>6, <1>7, PurgedWhole DEF Buildable
<1>12. Whole(restored.document, purged.trash.val)
  BY <1>3, <1>4, <1>9, <1>10, <1>11
<1>13. WholeState(purged) /\ WholeBetween(served, purged) /\ WholeBetween(purged, served)
  BY <1>1, <1>3, <1>4, <1>5, <1>7, <1>12 DEF WholeState, WholeBetween, GainsHousehold
<1> QED
  BY <1>1, <1>3, <1>8, <1>13, UpdateWhole

\* Whichever file is written, the two together lack nothing.
LEMMA WriteFileWhole ==
    ASSUME TypeOK, TypeOK', Inv, BuildInv, FilesMatch, WholeInv,
           NEW file \in File, WriteFile(file)
    PROVE  WholeInv'
<1>1. /\ job \in Job /\ job # None /\ JobSound /\ disk \in Disk /\ file \in job.todo
      /\ job.first \in job.todo => file = job.first
      /\ disk' = [disk EXCEPT ![file] = job.next[file].val]
      /\ job' = [job EXCEPT !.todo = @ \ {file}]
      /\ UNCHANGED <<served, undo>>
  BY DEF WriteFile, Inv, TypeOK
<1>2. /\ WholeState(job.next) /\ WholeBetween(served, job.next)
      /\ UndoWhole(job.next, job.undo) /\ Buildable(job.next.document.val)
  BY <1>1 DEF WholeInv, BuildInv
<1>3. /\ disk.document = IF "document" \in job.todo THEN served.document.val
                         ELSE job.next.document.val
      /\ disk.trash = IF "trash" \in job.todo THEN served.trash.val ELSE job.next.trash.val
  BY <1>1 DEF FilesMatch, File
<1>4. Buildable(disk'.document) /\ Whole(disk'.document, disk'.trash)
  <2>1. CASE file = "settings"
    <3>1. disk'.document = disk.document /\ disk'.trash = disk.trash
      BY <1>1, <2>1 DEF Disk
    <3> QED
      BY <3>1 DEF WholeInv
  <2>2. CASE file = "document"
    <3>1. disk'.document = job.next.document.val /\ disk'.trash = disk.trash
      BY <1>1, <2>2 DEF Disk
    <3>2. CASE "trash" \notin job.todo
      BY <1>2, <1>3, <3>1, <3>2 DEF WholeState
    <3>3. CASE "trash" \in job.todo
      <4>1. job.first # "trash"
        BY <1>1, <2>2, <3>3
      <4>2. GainsHousehold(served, job.next) /\ job.next.trash # served.trash
        BY <1>1, <3>3, <4>1 DEF JobSound, FirstFile, Changed
      <4> QED
        BY <1>2, <1>3, <3>1, <3>3, <4>2 DEF WholeBetween
    <3> QED
      BY <3>2, <3>3
  <2>3. CASE file = "trash"
    <3>1. disk'.document = disk.document /\ disk'.trash = job.next.trash.val
      BY <1>1, <2>3 DEF Disk
    <3>2. Buildable(disk.document)
      BY DEF WholeInv
    <3>3. CASE "document" \notin job.todo
      BY <1>2, <1>3, <3>1, <3>2, <3>3 DEF WholeState
    <3>4. CASE "document" \in job.todo
      <4>1. job.first # "document"
        BY <1>1, <2>3, <3>4
      <4>2. ~ GainsHousehold(served, job.next) /\ job.next.trash # served.trash
        BY <1>1, <2>3, <4>1 DEF JobSound, FirstFile, Changed
      <4> QED
        BY <1>2, <1>3, <3>1, <3>2, <3>4, <4>2 DEF WholeBetween
    <3> QED
      BY <3>3, <3>4
  <2> QED
    BY <2>1, <2>2, <2>3 DEF File
<1>5. job'.next = job.next /\ job'.undo = job.undo
  BY <1>1 DEF Job
<1> QED
  BY <1>1, <1>2, <1>4, <1>5 DEF WholeInv

LEMMA StartWhole ==
    ASSUME TypeOK, WholeInv, Start
    PROVE  WholeInv'
<1> DEFINE doc == disk.document
           r == Reconcile(disk.trash, doc)
           t == OpenTrash(disk, clock)
<1>1. /\ served' = Open(disk, clock) /\ undo' = None /\ job' = job
      /\ disk'.trash = t /\ disk'.document = doc /\ disk \in Disk
      /\ served = None
  BY DEF Start, TypeOK, Disk
<1>2. job = None
  BY <1>1 DEF TypeOK
<1>3. served'.document.val = doc /\ served'.trash.val = t
  BY <1>1 DEF Open, Loaded
<1>4. doc \in Document /\ disk.trash \in TrashOf /\ r \in TrashOf
  BY <1>1, ReconcileType DEF Disk
<1>5. \A id \in HouseholdID : r[id] = IF id \in IDs(doc) THEN None ELSE disk.trash[id]
  BY DEF Reconcile, Only
<1> HIDE DEF doc, r
<1>6. \A id \in HouseholdID : Together(doc, r)[id] = Together(doc, disk.trash)[id]
  BY <1>5 DEF Together, IDs
<1>7. Together(doc, r) = Together(doc, disk.trash)
  BY <1>4, <1>6, TogetherType, SameDocument
<1>8. Buildable(doc) /\ Whole(doc, r)
  BY <1>7 DEF WholeInv, Whole, doc
<1>9. Whole(doc, Purge(r, clock))
  BY <1>4, <1>8, PurgedWhole DEF Buildable
<1>10. t = Purge(r, clock)
  BY DEF OpenTrash, r, doc
<1> HIDE DEF t
<1> QED
  BY <1>1, <1>2, <1>3, <1>8, <1>9, <1>10 DEF WholeInv, WholeState, UndoWhole

LEMMA WholeStep ==
    ASSUME ~ WritesMayFail
    PROVE  TypeOK /\ TypeOK' /\ Inv /\ BuildInv /\ FilesMatch /\ WholeInv /\ [Next]_vars
              => WholeInv'
<1> SUFFICES ASSUME TypeOK, TypeOK', Inv, BuildInv, FilesMatch, WholeInv, [Next]_vars
             PROVE  WholeInv'
  OBVIOUS
<1>1. ASSUME NEW id \in HouseholdID, NEW form \in Submissions, Save(id, form)
      PROVE  WholeInv'
  BY <1>1, SaveWhole
<1>2. ASSUME NEW id \in HouseholdID, DeleteHousehold(id)
      PROVE  WholeInv'
  BY <1>2, DeleteWhole
<1>3. ASSUME NEW id \in HouseholdID, RestoreHousehold(id)
      PROVE  WholeInv'
  BY <1>3, RestoreWhole
<1>4. ASSUME NEW title \in Title, SetTitle(title)
      PROVE  WholeInv'
  BY <1>4, SetTitleWhole
<1>5. ASSUME NEW token \in 1 .. saves, Undo(token)
      PROVE  WholeInv'
  BY <1>5, UndoIsWhole
<1>6. ASSUME NEW file \in File, WriteFile(file)
      PROVE  WholeInv'
  BY <1>6, WriteFileWhole
<1>7. CASE WriteFails
  BY <1>7 DEF WriteFails
<1>8. CASE Commit
  BY <1>8 DEF Commit, WholeInv
<1>9. CASE Crash
  BY <1>9 DEF Crash, WholeInv, UndoWhole
<1>10. CASE Start
  BY <1>10, StartWhole
<1>11. CASE Tick \/ StepBack \/ UNCHANGED vars
  BY <1>11 DEF Tick, StepBack, vars, WholeInv
<1> QED
  BY <1>1, <1>2, <1>3, <1>4, <1>5, <1>6, <1>7, <1>8, <1>9, <1>10, <1>11 DEF Next

\* A chain put back in a document stands on the document and on itself.
LEMMA RestoredBuilds ==
    ASSUME NEW doc \in Document, NEW t \in TrashOf, NEW id \in IDs(t),
           Coherent(doc, t), ReferencesExist(doc), Whole(doc, t)
    PROVE  Buildable(Restore(t, doc, id).document)
<1> DEFINE chain == Chain(t, doc, id)
           back == Restore(t, doc, id).document
           whole == Together(doc, t)
           r == Reconcile(t, doc)
<1>1. Restorable(t, doc, id)
  BY ChainWhole
<1>2. chain \subseteq IDs(t) \ IDs(doc) /\ chain \subseteq HouseholdID
  BY <1>1, ChainMoves DEF IDs
<1>3. \A other \in IDs(t) \ IDs(doc) : other \in IDs(r) /\ r[other] = t[other]
  BY DEF Reconcile, Only, IDs
<1>4. ASSUME NEW other \in chain, NEW need \in NeedsOf(t, other) \cap HouseholdID
      PROVE  need \in chain \cup IDs(doc)
  <2>1. other \in NeedClosure(r, {id}) /\ other \in IDs(r) /\ NeedsOf(r, other) = NeedsOf(t, other)
    BY <1>2, <1>3, <1>4 DEF Chain, NeedsOf
  <2>2. need \in NeedClosure(r, {id})
    BY <1>4, <2>1 DEF NeedClosure
  <2> QED
    BY <2>2 DEF Chain
<1>5. /\ IDs(whole) = IDs(doc) \cup IDs(t)
      /\ \A other \in IDs(doc) : whole[other] = doc[other]
      /\ \A other \in IDs(t) \ IDs(doc) : whole[other] = t[other].household
  BY TogetherType
<1>6. /\ IDs(back) = IDs(doc) \cup chain
      /\ \A other \in HouseholdID :
            back[other] = IF other \in chain THEN t[other].household ELSE doc[other]
  BY <1>1, RestoreCoherent DEF Restore
<1>7. Buildable(whole)
  BY DEF Whole
<1>8. IDs(doc) \subseteq HouseholdID /\ IDs(t) \subseteq HouseholdID
  BY DEF IDs
<1> HIDE DEF chain, back, whole, r
<1>9. \A other \in IDs(back) : other \in IDs(whole) /\ back[other] = whole[other]
  BY <1>2, <1>5, <1>6, <1>8
<1>10. ASSUME NEW other \in IDs(back)
       PROVE  Needs(whole[other]) \subseteq IDs(back)
  <2>1. CASE other \in IDs(doc)
    BY <1>5, <1>6, <2>1 DEF ReferencesExist
  <2>2. CASE other \in chain
    <3>1. Needs(whole[other]) = NeedsOf(t, other)
      BY <1>2, <1>5, <2>2 DEF NeedsOf
    <3>2. NeedsOf(t, other) \subseteq HouseholdID
      BY <1>2, <1>8, <2>2 DEF Coherent
    <3> QED
      BY <1>4, <1>6, <2>2, <3>1, <3>2
  <2> QED
    BY <1>6, <2>1, <2>2
<1>11. Buildable(back)
  BY <1>7, <1>9, <1>10, PartBuilds
<1> QED
  BY <1>11 DEF back

(***************************************************************************)
(* While every file can be written, every entry Recently deleted lists     *)
(* comes back when the Editor asks and the document it returns to builds,  *)
(* in the running process and after a restart at any moment.               *)
(***************************************************************************)
THEOREM ListedEntriesComeBack ==
    ASSUME ~ WritesMayFail
    PROVE  Spec => []EverythingListedCanBeRestored
<1>1. Init => FilesMatch /\ BuildInv /\ WholeInv
  <2> SUFFICES ASSUME Init
               PROVE  FilesMatch /\ BuildInv /\ WholeInv
    OBVIOUS
  <2>1. disk.document \in Documents /\ disk.trash = EmptyTrash
    BY DEF Init
  <2>2. disk.document \in Document /\ Buildable(disk.document)
    BY <2>1, LiveAssumption
  <2>3. EmptyTrash \in TrashOf
    BY DEF EmptyTrash, TrashOf
  <2>4. \A id \in HouseholdID : Together(disk.document, EmptyTrash)[id] = disk.document[id]
    BY DEF Together, EmptyTrash
  <2>5. Together(disk.document, EmptyTrash) = disk.document
    BY <2>2, <2>3, <2>4, TogetherType, SameDocument
  <2> QED
    BY <2>1, <2>2, <2>5
       DEF Init, FilesMatch, BuildInv, Reversible, WholeInv, Whole, UndoWhole, Idle
<1>2. TypeOK /\ TypeOK' /\ Inv /\ BuildInv /\ FilesMatch /\ WholeInv /\ [Next]_vars
         => (BuildInv /\ FilesMatch /\ WholeInv)'
  BY BuildStep, FilesStep, WholeStep
<1>3. TypeOK /\ BuildInv /\ WholeInv /\ NeverUnrestorable => EverythingListedCanBeRestored
  <2> SUFFICES ASSUME TypeOK, BuildInv, WholeInv, NeverUnrestorable
               PROVE  EverythingListedCanBeRestored
    OBVIOUS
  <2>1. ASSUME NEW state \in State, CoherentState(state), WholeState(state),
               Buildable(state.document.val)
        PROVE  ListedEntriesRestore(state)
    <3> DEFINE doc == state.document.val
               t == state.trash.val
    <3>1. doc \in Document /\ t \in TrashOf /\ IDs(Purge(t, clock)) \subseteq IDs(t)
      BY OnlySubset DEF State, Pointer, Purge
    <3>2. Coherent(doc, t) /\ Whole(doc, t) /\ ReferencesExist(doc)
      BY <2>1 DEF CoherentState, WholeState, Buildable
    <3> HIDE DEF doc, t
    <3>3. \A id \in IDs(Purge(t, clock)) :
             Restorable(t, doc, id) /\ Buildable(Restore(t, doc, id).document)
      BY <3>1, <3>2, ChainWhole, RestoredBuilds
    <3> QED
      BY <3>3 DEF ListedEntriesRestore, doc, t
  <2>2. served # None => ListedEntriesRestore(served)
    BY <2>1 DEF TypeOK, BuildInv, WholeInv, NeverUnrestorable
  <2>3. ListedEntriesRestore(Recovered)
    <3> DEFINE r == Reconcile(disk.trash, disk.document)
    <3>1. disk.document \in Document /\ r \in TrashOf /\ Recovered \in State
      BY OpenType, ReconcileType DEF Recovered, TypeOK, Disk
    <3>2. \A id \in HouseholdID :
             Together(disk.document, r)[id] = Together(disk.document, disk.trash)[id]
      BY DEF Together, Reconcile, Only, IDs
    <3>3. Together(disk.document, r) = Together(disk.document, disk.trash)
      BY <3>1, <3>2, TogetherType, SameDocument DEF TypeOK, Disk
    <3>4. Whole(disk.document, r) /\ Buildable(disk.document)
      BY <3>3 DEF WholeInv, Whole
    <3>5. Whole(disk.document, Purge(r, clock))
      BY <3>1, <3>4, PurgedWhole DEF Buildable
    <3>6. /\ Recovered.document.val = disk.document
          /\ Recovered.trash.val = Purge(r, clock)
      BY DEF Recovered, Open, Loaded, OpenTrash
    <3> HIDE DEF r
    <3> QED
      BY <2>1, <3>1, <3>4, <3>5, <3>6 DEF WholeState, NeverUnrestorable
  <2> QED
    BY <2>2, <2>3 DEF EverythingListedCanBeRestored
<1>4. Spec => [](TypeOK /\ Inv)
  BY SoundAlways
<1> QED
  BY <1>1, <1>2, <1>3, <1>4, NothingUnrestorable, PTL DEF Spec

-----------------------------------------------------------------------------
(***************************************************************************)
(* Live implements Directory, while every file can be written and the      *)
(* clock goes on.  Begun, a save is a change asked for; swapped in, it is  *)
(* made.  The one step to be argued is a crash between the two writes of a *)
(* save: the service starts on the document of one state and the Trash of  *)
(* another.                                                                *)
(***************************************************************************)

(* Directory's operators are those of Live. *)

LEMMA SameIDs == \A f : Promise!IDs(f) = IDs(f)
  BY DEF Promise!IDs, IDs

LEMMA SameOnly == \A f, ids : Promise!Only(f, ids) = Only(f, ids)
  BY DEF Promise!Only, Only

LEMMA SameNeeds == \A h : Promise!Needs(h) = Needs(h)
  BY DEF Promise!Needs, Needs

LEMMA SameClosure == \A t, from : Promise!NeedClosure(t, from) = NeedClosure(t, from)
  BY SameIDs, SameNeeds DEF Promise!NeedClosure, NeedClosure, Promise!NeedsOf, NeedsOf

LEMMA SamePurge == \A t, now : Promise!Purge(t, now) = Purge(t, now)
  BY SameIDs, SameOnly, SameClosure
     DEF Promise!Purge, Purge, Promise!Unexpired, Unexpired, Promise!Expires, Expires

LEMMA SameChain == \A t, doc, id : Promise!Chain(t, doc, id) = Chain(t, doc, id)
  BY SameIDs, SameOnly, SameClosure DEF Promise!Chain, Chain, Promise!Reconcile, Reconcile

LEMMA SameRestore ==
    \A t, doc, id :
        /\ Promise!Restorable(t, doc, id) <=> Restorable(t, doc, id)
        /\ Promise!Restore(t, doc, id) = Restore(t, doc, id)
  BY SameIDs, SameOnly, SameChain
     DEF Promise!Restorable, Restorable, Promise!Restore, Restore

LEMMA SameDelete ==
    \A t, doc, id, now :
        /\ Promise!Deletable(doc, id) <=> Deletable(doc, id)
        /\ Promise!Delete(t, doc, id, now) = Delete(t, doc, id, now)
  BY SameIDs
     DEF Promise!Deletable, Deletable, Promise!Delete, Delete, Promise!DeleteBlocked,
         DeleteBlocked, Promise!IsMemorial, IsMemorial, Promise!Children, Children,
         Promise!Sharers, Sharers

LEMMA SamePeople ==
    /\ \A h : Promise!People(h) = People(h)
    /\ \A doc : Promise!PeopleOf(doc) = PeopleOf(doc)
  BY SameIDs DEF Promise!People, People, Promise!PeopleOf, PeopleOf

LEMMA SameBuildable == \A doc : Promise!Buildable(doc) <=> Buildable(doc)
  BY SameIDs, SamePeople, SameNeeds
     DEF Promise!Buildable, Buildable, Promise!HasAdults, HasAdults, Promise!PersonsUnique,
         PersonsUnique, Promise!ReferencesExist, ReferencesExist, Promise!Acyclic, Acyclic

LEMMA SameForm ==
    /\ \A h, sub : Promise!ParseSubmission(h, sub) = ParseSubmission(h, sub)
    /\ \A sub : Promise!NewPeople(sub) = NewPeople(sub)
  BY SamePeople
     DEF Promise!ParseSubmission, ParseSubmission, Promise!NewPeople, NewPeople

LEMMA SameMinted ==
    \A h, sub, fresh : Promise!MintedFor(h, sub, fresh) = MintedFor(h, sub, fresh)
<1>1. \A h, sub : Promise!Promotions(h, sub) = Promotions(h, sub)
  BY DEF Promise!Promotions, Promotions, Promise!Promoted, Promoted
<1>2. \A f : Promise!IsInjective(f) <=> IsInjective(f)
  BY DEF Promise!IsInjective, IsInjective
<1> QED
  BY <1>1, <1>2 DEF Promise!MintedFor, MintedFor, Promise!Injection, Injection

LEMMA SameGroup ==
    \A people, sub, promotable :
        Promise!ApplyToGroup(people, sub, promotable) = ApplyToGroup(people, sub, promotable)
  BY DEF Promise!ApplyToGroup, ApplyToGroup, Promise!Removed, Removed, Promise!Promoted, Promoted

LEMMA SameAfter ==
    \A h, sub :
        /\ Promise!AdultsAfter(h, sub) = AdultsAfter(h, sub)
        /\ Promise!DependentsAfter(h, sub) = DependentsAfter(h, sub)
        /\ Promise!DeadAfter(h, sub) = DeadAfter(h, sub)
  BY SameGroup, SameForm
     DEF Promise!AdultsAfter, AdultsAfter, Promise!DependentsAfter, DependentsAfter,
         Promise!DeadAfter, DeadAfter

LEMMA SameCardinality == \A S : Promise!Cardinality(S) = Cardinality(S)
  BY DEF Promise!Cardinality, Cardinality

LEMMA SameApplicable ==
    \A doc, id, sub : Promise!Applicable(doc, id, sub) <=> Applicable(doc, id, sub)
  BY SameIDs, SameGroup, SameAfter, SameCardinality
     DEF Promise!Applicable, Applicable, Promise!RoomForNewAdult, RoomForNewAdult,
         Promise!MaxAdults, MaxAdults

LEMMA SameApply ==
    \A doc, id, sub, mint :
        Promise!ApplySubmission(doc, id, sub, mint) = ApplySubmission(doc, id, sub, mint)
<1>1. \A id, p, dead : Promise!PromotedHousehold(id, p, dead) = PromotedHousehold(id, p, dead)
  BY DEF Promise!PromotedHousehold, PromotedHousehold
<1> TAKE doc, id, sub, mint
<1> DEFINE h == doc[id]
           dead == DeadAfter(h, sub)
           adults == AdultsAfter(h, sub)
           dependents == DependentsAfter(h, sub)
<1>2. /\ Promise!DeadAfter(h, sub) = dead
      /\ Promise!AdultsAfter(h, sub) = adults
      /\ Promise!DependentsAfter(h, sub) = dependents
  BY SameAfter
<1>3. \A other \in HouseholdID :
         Promise!ApplySubmission(doc, id, sub, mint)[other]
            = ApplySubmission(doc, id, sub, mint)[other]
  BY <1>1, <1>2 DEF Promise!ApplySubmission, ApplySubmission
<1> QED
  BY <1>3 DEF Promise!ApplySubmission, ApplySubmission
-----------------------------------------------------------------------------
(* A crash between the two writes of a save. *)

\* A start on the document of kept and the Trash of other serves kept, less what
\* may go of its Trash.
StartsAs(kept, other, now) ==
    LET t == Purge(Reconcile(other.trash.val, kept.document.val), now) IN
    /\ \A id \in IDs(t) : kept.trash.val[id] = t[id]
    /\ IDs(Purge(kept.trash.val, now)) \subseteq IDs(t)

\* The document is written first exactly if it gains a Household.
Halfway(from, to, now) ==
    to.trash # from.trash =>
        /\ GainsHousehold(from, to) => StartsAs(to, from, now)
        /\ ~ GainsHousehold(from, to) => StartsAs(from, to, now)

HalfwayJob ==
    /\ Halfway(served, job.next, clock)
    /\ job.undo # None => Halfway(job.next, job.undo.before, clock)
    /\ job.next.trash # served.trash /\ job.next.document # served.document =>
          /\ "document" \notin job.todo /\ "trash" \in job.todo => GainsHousehold(served, job.next)
          /\ "trash" \notin job.todo /\ "document" \in job.todo => ~ GainsHousehold(served, job.next)

HalfwayInv ==
    /\ undo # None => Halfway(served, undo.before, clock)
    /\ job # None => HalfwayJob

\* Purging twice takes no more than purging once, late.
LEMMA PurgeTwice ==
    ASSUME NEW t \in TrashOf, NEW now \in Nat, NEW later \in Nat, now <= later
    PROVE  IDs(Purge(t, later)) \subseteq IDs(Purge(Purge(t, now), later))
<1> DEFINE once == Purge(t, now)
           near == NeedClosure(t, Unexpired(t, now))
<1>1. /\ IDs(once) = IDs(t) \cap near
      /\ \A id \in IDs(once) : once[id] = t[id]
  <2>1. IDs(once) = IDs(t) \cap near
    BY DEF Purge, Only, IDs
  <2> QED
    BY <2>1, OnlySubset DEF Purge
<1>2. Unexpired(t, later) \subseteq Unexpired(t, now)
  <2> SUFFICES ASSUME NEW id \in Unexpired(t, later)
               PROVE  id \in Unexpired(t, now)
    OBVIOUS
  <2>1. id \in IDs(t) /\ later < Expires(t[id]) /\ t[id] \in Entry
    BY DEF Unexpired, IDs, TrashOf
  <2>2. Expires(t[id]) \in Nat
    BY <2>1, RetentionAssumption DEF Expires, Entry
  <2>3. now < Expires(t[id])
    BY <2>1, <2>2
  <2> QED
    BY <2>1, <2>3 DEF Unexpired
<1>3. Unexpired(t, now) \subseteq near /\ near \subseteq HouseholdID
  BY DEF NeedClosure, Unexpired, IDs
<1>4. \A id \in near \cap IDs(t) : NeedsOf(t, id) \subseteq near
  <2> SUFFICES ASSUME NEW id \in near \cap IDs(t), NEW need \in NeedsOf(t, id),
                      NEW ids \in SUBSET HouseholdID, Unexpired(t, now) \subseteq ids,
                      \A other \in ids \cap IDs(t) : NeedsOf(t, other) \subseteq ids
               PROVE  need \in ids /\ need \in HouseholdID
    <3>1. \A id \in near \cap IDs(t) : NeedsOf(t, id) \subseteq HouseholdID
      BY DEF IDs, TrashOf, Entry, NeedsOf, Needs, Household
    <3> QED
      BY <3>1 DEF NeedClosure
  <2>1. id \in ids
    BY DEF NeedClosure
  <2> QED
    BY <2>1
<1>5. Unexpired(t, later) \subseteq Unexpired(once, later)
  BY <1>1, <1>2, <1>3 DEF Unexpired
<1>6. \A id \in IDs(once) : NeedsOf(once, id) = NeedsOf(t, id)
  BY <1>1 DEF NeedsOf
<1> HIDE DEF near, once
<1>7. NeedClosure(t, Unexpired(t, later)) \subseteq NeedClosure(once, Unexpired(once, later))
  <2> SUFFICES ASSUME NEW id \in NeedClosure(t, Unexpired(t, later)),
                      NEW ids \in SUBSET HouseholdID, Unexpired(once, later) \subseteq ids,
                      \A other \in ids \cap IDs(once) : NeedsOf(once, other) \subseteq ids
               PROVE  id \in ids
    BY DEF NeedClosure
  <2>1. Unexpired(t, later) \subseteq ids \cap near
    BY <1>2, <1>3, <1>5
  <2>2. \A other \in (ids \cap near) \cap IDs(t) : NeedsOf(t, other) \subseteq ids \cap near
    BY <1>1, <1>4, <1>6
  <2>3. ids \cap near \in SUBSET HouseholdID
    BY <1>3
  <2> QED
    BY <2>1, <2>2, <2>3 DEF NeedClosure
<1>8. IDs(Purge(once, later)) = IDs(once) \cap NeedClosure(once, Unexpired(once, later))
  BY DEF Purge, Only, IDs
<1>9. IDs(Purge(t, later)) = IDs(t) \cap NeedClosure(t, Unexpired(t, later))
  BY DEF Purge, Only, IDs
<1>10. NeedClosure(t, Unexpired(t, later)) \subseteq near
  BY <1>2, <1>3, <1>4 DEF NeedClosure
<1> QED
  BY <1>1, <1>7, <1>8, <1>9, <1>10 DEF once

\* What a start would serve has what kept would keep, and nothing else.
LEMMA StartsAsBy ==
    ASSUME NEW kept \in State, NEW other \in State, NEW now \in Nat, NEW left,
           left = Reconcile(other.trash.val, kept.document.val),
           \A id \in IDs(Purge(kept.trash.val, now)) : left[id] = kept.trash.val[id],
           \A id \in IDs(Purge(left, now)) : kept.trash.val[id] = left[id]
    PROVE  StartsAs(kept, other, now)
<1> DEFINE t == kept.trash.val
<1>1. t \in TrashOf /\ left \in TrashOf
  BY ReconcileType DEF State, Pointer
<1>2. Purge(t, now) \in TrashOf
  BY <1>1, PurgeType
<1>3. \A id \in IDs(Purge(t, now)) : Purge(t, now)[id] = left[id]
  BY OnlySubset DEF Purge
<1>4. IDs(Purge(Purge(t, now), now)) \subseteq IDs(Purge(left, now))
  BY <1>1, <1>2, <1>3, PurgeKeepsMore
<1>5. IDs(Purge(t, now)) \subseteq IDs(Purge(Purge(t, now), now))
  BY <1>1, PurgeTwice
<1>6. \A id \in IDs(Purge(left, now)) : Purge(left, now)[id] = left[id]
  BY OnlySubset DEF Purge
<1> QED
  BY <1>4, <1>5, <1>6 DEF StartsAs

\* It stays so as time passes.
LEMMA StartsAsLater ==
    ASSUME NEW kept \in State, NEW other \in State, NEW now \in Nat, NEW later \in Nat,
           now <= later, StartsAs(kept, other, now)
    PROVE  StartsAs(kept, other, later)
<1> DEFINE t == kept.trash.val
           left == Reconcile(other.trash.val, kept.document.val)
<1>1. t \in TrashOf /\ left \in TrashOf
  BY ReconcileType DEF State, Pointer
<1>2. IDs(Purge(t, later)) \subseteq IDs(Purge(t, now))
  BY <1>1, PurgeKeepsMore
<1>3. IDs(Purge(left, later)) \subseteq IDs(Purge(left, now))
  BY <1>1, PurgeKeepsMore
<1>4. /\ \A id \in IDs(Purge(left, now)) : t[id] = left[id]
      /\ IDs(Purge(t, now)) \subseteq IDs(Purge(left, now))
  <2>1. \A id \in IDs(Purge(left, now)) : Purge(left, now)[id] = left[id]
    BY OnlySubset DEF Purge
  <2> QED
    BY <2>1 DEF StartsAs
<1> HIDE DEF t
<1>5. \A id \in IDs(Purge(t, later)) : left[id] = t[id]
  BY <1>2, <1>4
<1>6. \A id \in IDs(Purge(left, later)) : t[id] = left[id]
  BY <1>3, <1>4
<1> QED
  BY <1>5, <1>6, StartsAsBy DEF t

LEMMA HalfwayLater ==
    ASSUME NEW from \in State, NEW to \in State, NEW now \in Nat, NEW later \in Nat,
           now <= later, Halfway(from, to, now)
    PROVE  Halfway(from, to, later)
  BY StartsAsLater DEF Halfway
-----------------------------------------------------------------------------
(* The steps. *)

LEMMA BeginHalfway ==
    ASSUME TypeOK, TypeOK', HalfwayInv, Idle, NEW next \in State,
           NEW point \in UndoPoint \cup {None}, Begin(next, point),
           UNCHANGED <<clock, served, undo, disk>>,
           Halfway(served, next, clock),
           point # None => Halfway(next, point.before, clock)
    PROVE  HalfwayInv'
<1>1. /\ job' # None /\ job'.next = next /\ job'.undo = point
      /\ job'.todo = Changed(served, next)
  BY JobIsThere DEF TypeOK
<1>2. next.document # served.document => "document" \in Changed(served, next)
  BY DEF Changed, File
<1>3. next.trash # served.trash => "trash" \in Changed(served, next)
  BY DEF Changed, File
<1>4. HalfwayJob'
  BY <1>1, <1>2, <1>3 DEF HalfwayJob
<1> QED
  BY <1>1, <1>4 DEF HalfwayInv, Idle

LEMMA UpdateHalfway ==
    ASSUME TypeOK, TypeOK', HalfwayInv, NEW next \in State, Update(next),
           NEW purged, purged = PurgedIfChanged(next),
           Halfway(served, purged, clock), Halfway(purged, served, clock)
    PROVE  HalfwayInv'
<1> DEFINE point == [token |-> saves + 1, before |-> served]
<1>1. Idle /\ Begin(purged, point) /\ UNCHANGED <<clock, served, undo, disk>>
  BY DEF Update
<1>2. purged \in State
  BY <1>1, PurgedFields
<1>3. point \in UndoPoint /\ point.before = served
  BY <1>1 DEF UndoPoint, TypeOK, Idle
<1> HIDE DEF point
<1> QED
  BY <1>1, <1>2, <1>3, BeginHalfway

\* A save of the form or of the title leaves the Trash alone.
LEMMA TrashAloneHalfway ==
    ASSUME TypeOK, TypeOK', HalfwayInv, NEW next \in State, Update(next),
           next.trash = served.trash
    PROVE  HalfwayInv'
<1> DEFINE purged == PurgedIfChanged(next)
<1>1. Idle
  BY DEF Update
<1>2. purged.trash = served.trash
  BY <1>1, PurgedFields
<1>3. Halfway(served, purged, clock) /\ Halfway(purged, served, clock)
  BY <1>2 DEF Halfway
<1>4. purged = PurgedIfChanged(next)
  OBVIOUS
<1> HIDE DEF purged
<1> QED
  BY <1>3, <1>4, UpdateHalfway

LEMMA SaveHalfway ==
    ASSUME TypeOK, TypeOK', HalfwayInv, NEW id \in HouseholdID, NEW form \in Submissions,
           Save(id, form)
    PROVE  HalfwayInv'
<1> DEFINE doc == served.document.val
           sub == ParseSubmission(doc[id], form)
<1>1. served \in State /\ doc \in Document /\ id \in IDs(doc)
  BY DEF Save, Idle, TypeOK, State, Pointer
<1>2. sub \in Submission
  BY LiveAssumption DEF ParseSubmission, Submission
<1>3. PICK mint \in MintedFor(doc[id], sub, HouseholdID \ InUse) :
         Update([served EXCEPT !.document = New(ApplySubmission(doc, id, sub, mint))])
  BY DEF Save
<1>4. New(ApplySubmission(doc, id, sub, mint)) \in Pointer(Document)
  BY <1>1, <1>2, ApplyType, NewType
<1> DEFINE next == [served EXCEPT !.document = New(ApplySubmission(doc, id, sub, mint))]
<1>5. next \in State /\ next.trash = served.trash
  BY <1>1, <1>4 DEF State
<1> QED
  BY <1>3, <1>5, TrashAloneHalfway

LEMMA SetTitleHalfway ==
    ASSUME TypeOK, TypeOK', HalfwayInv, NEW title \in Title, SetTitle(title)
    PROVE  HalfwayInv'
<1> DEFINE next == [served EXCEPT !.settings = New(title)]
<1>1. served \in State /\ Update(next)
  BY DEF SetTitle, Idle, TypeOK
<1>2. next \in State /\ next.trash = served.trash
  BY <1>1, NewType DEF State
<1> QED
  BY <1>1, <1>2, TrashAloneHalfway

LEMMA UndoHalfway ==
    ASSUME TypeOK, TypeOK', HalfwayInv, NEW token, Undo(token)
    PROVE  HalfwayInv'
<1>1. /\ Idle /\ undo # None /\ Begin(undo.before, None)
      /\ UNCHANGED <<clock, served, undo, disk>>
  BY DEF Undo, TokenCurrent
<1>2. undo.before \in State
  BY <1>1 DEF TypeOK, UndoPoint
<1>3. Halfway(served, undo.before, clock)
  BY <1>1 DEF HalfwayInv
<1> QED
  BY <1>1, <1>2, <1>3, BeginHalfway

\* What a deletion of id makes of the state, with its Trash purged.
LEMMA DeleteMakes ==
    ASSUME TypeOK, Inv, NEW id \in HouseholdID, DeleteHousehold(id)
    PROVE  LET doc == served.document.val
               t == served.trash.val
               deleted == Delete(t, doc, id, clock)
               next == [served EXCEPT !.document = New(deleted.document),
                                      !.trash = New(deleted.trash)]
               purged == PurgedIfChanged(next)
           IN  /\ Idle /\ Update(next) /\ Deletable(doc, id)
               /\ next \in State /\ purged \in State
               /\ doc \in Document /\ t \in TrashOf /\ deleted.trash \in TrashOf
               /\ id \in IDs(doc) /\ id \notin IDs(t)
               /\ purged.document.val = deleted.document
               /\ purged.trash.val = Purge(deleted.trash, clock)
               /\ purged.settings = served.settings
<1> DEFINE doc == served.document.val
           t == served.trash.val
           deleted == Delete(t, doc, id, clock)
           next == [served EXCEPT !.document = New(deleted.document),
                                  !.trash = New(deleted.trash)]
           purged == PurgedIfChanged(next)
<1>1. /\ Idle /\ Update(next) /\ Deletable(doc, id)
      /\ served \in State /\ doc \in Document /\ t \in TrashOf
      /\ id \in IDs(doc) /\ clock \in Nat
  BY DEF DeleteHousehold, Deletable, Idle, TypeOK, State, Pointer
<1>2. deleted \in [document : Document, trash : TrashOf]
  BY <1>1, DeleteType
<1>3. /\ next \in State /\ next.document.val = deleted.document
      /\ next.trash.val = deleted.trash /\ next.settings = served.settings
  <2>1. New(deleted.document) \in Pointer(Document) /\ New(deleted.trash) \in Pointer(TrashOf)
    BY <1>2, NewType
  <2>2. New(deleted.document).val = deleted.document /\ New(deleted.trash).val = deleted.trash
    BY DEF New
  <2> QED
    BY <1>1, <2>1, <2>2 DEF State
<1>4. id \notin IDs(t)
  BY <1>1 DEF Inv, Idle, Disjoint
<1>5. next.trash # served.trash
  <2>1. deleted.trash[id] = [deletedAt |-> clock, household |-> doc[id]]
    BY <1>1 DEF Delete, TrashOf
  <2>2. [deletedAt |-> clock, household |-> doc[id]] \in Entry
    BY <1>1 DEF Entry, Document, IDs
  <2>3. deleted.trash[id] # t[id]
    BY <1>4, <2>1, <2>2, NoEntryAssumption DEF IDs
  <2> QED
    BY <1>3, <2>3
<1>6. purged \in State /\ purged.document = next.document
      /\ purged.trash.val = Purge(next.trash.val, clock)
  BY <1>1, <1>3, <1>5, PurgedFields
<1>7. purged.settings = next.settings
  BY <1>3, <1>5 DEF PurgedIfChanged, State
<1> QED
  BY <1>1, <1>2, <1>3, <1>4, <1>6, <1>7

\* The Trash is written first: with the document as it was, the entry of what is
\* being deleted is a duplicate.
LEMMA DeleteHalfway ==
    ASSUME TypeOK, TypeOK', Inv, HalfwayInv, NEW id \in HouseholdID, DeleteHousehold(id)
    PROVE  HalfwayInv'
<1> DEFINE doc == served.document.val
           t == served.trash.val
           deleted == Delete(t, doc, id, clock)
           next == [served EXCEPT !.document = New(deleted.document),
                                  !.trash = New(deleted.trash)]
           purged == PurgedIfChanged(next)
           left == Reconcile(purged.trash.val, doc)
<1>1. /\ Idle /\ Update(next) /\ next \in State /\ purged \in State
      /\ doc \in Document /\ t \in TrashOf /\ deleted.trash \in TrashOf
      /\ id \in IDs(doc) /\ id \notin IDs(t)
      /\ purged.document.val = deleted.document
      /\ purged.trash.val = Purge(deleted.trash, clock)
  BY DeleteMakes
<1>2. /\ \A other \in IDs(t) : deleted.trash[other] = t[other]
      /\ \A other \in HouseholdID \ {id} : deleted.trash[other] = t[other]
      /\ IDs(deleted.document) = IDs(doc) \ {id}
  BY <1>1 DEF Delete, IDs, TrashOf, Document
<1>3. served \in State /\ clock \in Nat /\ IDs(doc) \cap IDs(t) = {}
  BY <1>1 DEF Inv, Idle, Disjoint, TypeOK
<1> HIDE DEF next, deleted
<1>4. \A other \in IDs(Purge(t, clock)) : left[other] = t[other]
  <2>1. IDs(Purge(t, clock)) \subseteq IDs(Purge(deleted.trash, clock))
    BY <1>1, <1>2, <1>3, PurgeKeepsMore
  <2>2. IDs(Purge(t, clock)) \subseteq IDs(t)
    BY OnlySubset DEF Purge
  <2>3. \A other \in IDs(purged.trash.val) : purged.trash.val[other] = deleted.trash[other]
    BY <1>1, OnlySubset DEF Purge
  <2>4. \A other \in HouseholdID \ IDs(doc) : left[other] = purged.trash.val[other]
    BY DEF Reconcile, Only
  <2>5. IDs(t) \subseteq HouseholdID
    BY DEF IDs
  <2> HIDE DEF left, purged, doc, t
  <2> QED
    BY <1>1, <1>2, <1>3, <2>1, <2>2, <2>3, <2>4, <2>5
<1>5. \A other \in IDs(Purge(left, clock)) : t[other] = left[other]
  <2>1. IDs(Purge(left, clock)) \subseteq IDs(left)
    BY OnlySubset DEF Purge
  <2>2. \A other \in IDs(left) :
           other \in IDs(purged.trash.val) \ IDs(doc) /\ left[other] = purged.trash.val[other]
    BY DEF Reconcile, Only, IDs
  <2>3. \A other \in IDs(purged.trash.val) : purged.trash.val[other] = deleted.trash[other]
    BY <1>1, OnlySubset DEF Purge
  <2>4. IDs(purged.trash.val) \subseteq HouseholdID
    BY DEF IDs
  <2> HIDE DEF left, purged, doc, t
  <2> QED
    BY <1>1, <1>2, <2>1, <2>2, <2>3, <2>4
<1>6. left = Reconcile(purged.trash.val, served.document.val)
  OBVIOUS
<1>7. purged = PurgedIfChanged(next)
  OBVIOUS
<1> HIDE DEF left, purged
<1>8. StartsAs(served, purged, clock)
  BY <1>1, <1>3, <1>4, <1>5, <1>6, StartsAsBy
<1>9. ~ GainsHousehold(served, purged) /\ GainsHousehold(purged, served)
  BY <1>1, <1>2 DEF GainsHousehold
<1>10. Halfway(served, purged, clock) /\ Halfway(purged, served, clock)
  BY <1>8, <1>9 DEF Halfway
<1> QED
  BY <1>1, <1>7, <1>10, UpdateHalfway

\* What a restore of id makes of the state, with its Trash purged.
LEMMA RestoreMakes ==
    ASSUME TypeOK, Inv, NEW id \in HouseholdID, RestoreHousehold(id)
    PROVE  LET doc == served.document.val
               t == served.trash.val
               restored == Restore(t, doc, id)
               next == [served EXCEPT !.document = New(restored.document),
                                      !.trash = New(restored.trash)]
               purged == PurgedIfChanged(next)
           IN  /\ Idle /\ Update(next) /\ Restorable(t, doc, id)
               /\ next \in State /\ purged \in State
               /\ doc \in Document /\ t \in TrashOf /\ restored.trash \in TrashOf
               /\ purged.document.val = restored.document
               /\ purged.trash.val = Purge(restored.trash, clock)
               /\ purged.settings = served.settings
<1> DEFINE doc == served.document.val
           t == served.trash.val
           restored == Restore(t, doc, id)
           next == [served EXCEPT !.document = New(restored.document),
                                  !.trash = New(restored.trash)]
           purged == PurgedIfChanged(next)
<1>1. /\ Idle /\ Update(next) /\ Restorable(t, doc, id)
      /\ served \in State /\ doc \in Document /\ t \in TrashOf
      /\ id \in IDs(t) \ IDs(doc) /\ clock \in Nat
  BY DEF RestoreHousehold, Restorable, Idle, TypeOK, State, Pointer
<1>2. restored \in [document : Document, trash : TrashOf]
  BY <1>1, RestoreType
<1>3. /\ next \in State /\ next.document.val = restored.document
      /\ next.trash.val = restored.trash /\ next.settings = served.settings
  <2>1. New(restored.document) \in Pointer(Document) /\ New(restored.trash) \in Pointer(TrashOf)
    BY <1>2, NewType
  <2>2. New(restored.document).val = restored.document /\ New(restored.trash).val = restored.trash
    BY DEF New
  <2> QED
    BY <1>1, <2>1, <2>2 DEF State
<1>4. id \in Chain(t, doc, id)
  BY <1>1 DEF Chain, NeedClosure
<1>5. next.trash # served.trash
  <2>1. restored.trash[id] = None
    BY <1>4 DEF Restore, Only
  <2>2. t[id] # None
    BY <1>1 DEF IDs
  <2> QED
    BY <1>3, <2>1, <2>2
<1>6. purged \in State /\ purged.document = next.document
      /\ purged.trash.val = Purge(next.trash.val, clock)
  BY <1>1, <1>3, <1>5, PurgedFields
<1>7. purged.settings = next.settings
  BY <1>3, <1>5 DEF PurgedIfChanged, State
<1>8. restored.trash \in TrashOf
  BY <1>2
<1> QED
  BY <1>1, <1>3, <1>6, <1>7, <1>8

\* The document is written first: with the Trash as it was, the entries of what is
\* being restored are duplicates.
LEMMA RestoreHalfway ==
    ASSUME TypeOK, TypeOK', Inv, HalfwayInv, NEW id \in HouseholdID, RestoreHousehold(id)
    PROVE  HalfwayInv'
<1> DEFINE doc == served.document.val
           t == served.trash.val
           chain == Chain(t, doc, id)
           restored == Restore(t, doc, id)
           next == [served EXCEPT !.document = New(restored.document),
                                  !.trash = New(restored.trash)]
           purged == PurgedIfChanged(next)
           left == Reconcile(t, restored.document)
<1>1. /\ Idle /\ Update(next) /\ Restorable(t, doc, id) /\ next \in State /\ purged \in State
      /\ doc \in Document /\ t \in TrashOf /\ restored.trash \in TrashOf
      /\ purged.document.val = restored.document
      /\ purged.trash.val = Purge(restored.trash, clock)
  BY RestoreMakes
<1>2. served \in State /\ clock \in Nat /\ IDs(doc) \cap IDs(t) = {}
  BY <1>1 DEF Inv, Idle, Disjoint, TypeOK
<1>3. /\ chain \subseteq IDs(t) \ IDs(doc) /\ chain \subseteq HouseholdID
      /\ \A back \in chain : t[back].household # None
  <2>1. chain \subseteq IDs(t) \ IDs(doc) /\ chain \subseteq HouseholdID
    BY <1>1, ChainMoves DEF IDs
  <2>2. \A back \in chain : t[back].household \in Household
    BY <1>1, <2>1 DEF IDs, TrashOf, Entry
  <2> QED
    BY <2>1, <2>2, NoneAssumption
<1>4. id \in chain
  BY <1>1 DEF Chain, NeedClosure, Restorable
<1>5. IDs(restored.document) = IDs(doc) \cup chain
  BY <1>1, <1>3 DEF Restore, IDs
<1>6. left = restored.trash
  <2>1. \A other \in HouseholdID : left[other] = restored.trash[other]
    <3>1. \A other \in HouseholdID :
             left[other] = IF other \in IDs(doc) \cup chain THEN None ELSE t[other]
      BY <1>5 DEF Reconcile, Only
    <3>2. \A other \in HouseholdID :
             restored.trash[other] = IF other \in chain THEN None ELSE t[other]
      BY DEF Restore, Only
    <3>3. \A other \in IDs(doc) : t[other] = None
      BY <1>2 DEF IDs
    <3> QED
      BY <3>1, <3>2, <3>3
  <2>2. left \in TrashOf
    BY <1>1, ReconcileType
  <2> QED
    BY <1>1, <2>1, <2>2 DEF TrashOf
<1> HIDE DEF restored, next, chain
<1>7. purged.trash.val = Purge(left, clock)
  BY <1>1, <1>6
<1>8. \A other \in IDs(purged.trash.val) : purged.trash.val[other] = left[other]
  BY <1>7, OnlySubset DEF Purge
<1>9. left = Reconcile(served.trash.val, purged.document.val)
  BY <1>1
<1>10. purged = PurgedIfChanged(next)
  OBVIOUS
<1> HIDE DEF left, purged
<1>11. StartsAs(purged, served, clock)
  <2>1. IDs(Purge(purged.trash.val, clock)) \subseteq IDs(purged.trash.val)
    BY OnlySubset DEF Purge
  <2>2. \A other \in IDs(Purge(purged.trash.val, clock)) : left[other] = purged.trash.val[other]
    BY <1>8, <2>1
  <2>3. \A other \in IDs(Purge(left, clock)) : purged.trash.val[other] = left[other]
    BY <1>7, <1>8
  <2> QED
    BY <1>1, <1>2, <1>9, <2>2, <2>3, StartsAsBy
<1>12. GainsHousehold(served, purged) /\ ~ GainsHousehold(purged, served)
  BY <1>1, <1>3, <1>4, <1>5 DEF GainsHousehold
<1>13. Halfway(served, purged, clock) /\ Halfway(purged, served, clock)
  BY <1>11, <1>12 DEF Halfway
<1> QED
  BY <1>1, <1>10, <1>13, UpdateHalfway

LEMMA WriteFileHalfway ==
    ASSUME TypeOK, TypeOK', Inv, HalfwayInv, NEW file \in File, WriteFile(file)
    PROVE  HalfwayInv'
<1>1. /\ job \in Job /\ job # None /\ JobSound /\ HalfwayJob
      /\ file \in job.todo
      /\ job.first \in job.todo => file = job.first
      /\ job' = [job EXCEPT !.todo = @ \ {file}]
      /\ UNCHANGED <<clock, served, undo>>
  BY DEF WriteFile, Inv, HalfwayInv, TypeOK
<1>2. /\ job'.next = job.next /\ job'.undo = job.undo
      /\ job'.todo = job.todo \ {file} /\ job' # None
  BY <1>1, NilAssumption DEF Job
<1>3. job.first = FirstFile(served, job.next)
  BY <1>1 DEF JobSound
<1>4. ASSUME "document" \notin job'.todo, "trash" \in job'.todo,
             job.next.trash # served.trash, job.next.document # served.document
      PROVE  GainsHousehold(served, job.next)
  BY <1>1, <1>2, <1>3, <1>4 DEF HalfwayJob, FirstFile
<1>5. ASSUME "trash" \notin job'.todo, "document" \in job'.todo,
             job.next.trash # served.trash, job.next.document # served.document
      PROVE  ~ GainsHousehold(served, job.next)
  BY <1>1, <1>2, <1>3, <1>5 DEF HalfwayJob, FirstFile
<1>6. HalfwayJob'
  BY <1>1, <1>2, <1>4, <1>5 DEF HalfwayJob
<1> QED
  BY <1>1, <1>2, <1>6 DEF HalfwayInv

LEMMA TickHalfway ==
    ASSUME TypeOK, HalfwayInv, Tick
    PROVE  HalfwayInv'
<1>1. /\ clock \in Nat /\ clock' \in Nat /\ clock <= clock'
      /\ UNCHANGED <<served, undo, job, disk>>
  BY DEF Tick, TypeOK
<1>2. undo # None => Halfway(served, undo.before, clock')
  BY <1>1, HalfwayLater DEF TypeOK, HalfwayInv, UndoPoint
<1>3. job # None => HalfwayJob'
  <2> SUFFICES ASSUME job # None
               PROVE  HalfwayJob'
    OBVIOUS
  <2>1. /\ served \in State /\ job.next \in State /\ job.undo \in UndoPoint \cup {None}
        /\ HalfwayJob
    BY DEF TypeOK, Job, HalfwayInv
  <2>2. Halfway(served, job.next, clock')
    BY <1>1, <2>1, HalfwayLater DEF HalfwayJob
  <2>3. job.undo # None => Halfway(job.next, job.undo.before, clock')
    BY <1>1, <2>1, HalfwayLater DEF HalfwayJob, UndoPoint
  <2> QED
    BY <1>1, <2>1, <2>2, <2>3 DEF HalfwayJob
<1> QED
  BY <1>1, <1>2, <1>3 DEF HalfwayInv

LEMMA HalfwayStep == TypeOK /\ TypeOK' /\ Inv /\ HalfwayInv /\ [Next]_vars => HalfwayInv'
<1> SUFFICES ASSUME TypeOK, TypeOK', Inv, HalfwayInv, [Next]_vars
             PROVE  HalfwayInv'
  OBVIOUS
<1>1. ASSUME NEW id \in HouseholdID, NEW form \in Submissions, Save(id, form)
      PROVE  HalfwayInv'
  BY <1>1, SaveHalfway
<1>2. ASSUME NEW id \in HouseholdID, DeleteHousehold(id)
      PROVE  HalfwayInv'
  BY <1>2, DeleteHalfway
<1>3. ASSUME NEW id \in HouseholdID, RestoreHousehold(id)
      PROVE  HalfwayInv'
  BY <1>3, RestoreHalfway
<1>4. ASSUME NEW title \in Title, SetTitle(title)
      PROVE  HalfwayInv'
  BY <1>4, SetTitleHalfway
<1>5. ASSUME NEW token \in 1 .. saves, Undo(token)
      PROVE  HalfwayInv'
  BY <1>5, UndoHalfway
<1>6. ASSUME NEW file \in File, WriteFile(file)
      PROVE  HalfwayInv'
  BY <1>6, WriteFileHalfway
<1>7. CASE WriteFails
  BY <1>7 DEF WriteFails, HalfwayInv
<1>8. CASE Commit
  BY <1>8 DEF Commit, HalfwayInv, HalfwayJob
<1>9. CASE Crash
  BY <1>9 DEF Crash, HalfwayInv
<1>10. CASE Start
  BY <1>10 DEF Start, HalfwayInv, TypeOK
<1>11. CASE Tick
  BY <1>11, TickHalfway
<1>12. CASE StepBack
  BY <1>12 DEF StepBack, HalfwayInv, TypeOK
<1>13. CASE UNCHANGED vars
  BY <1>13 DEF vars, HalfwayInv, HalfwayJob
<1> QED
  BY <1>1, <1>2, <1>3, <1>4, <1>5, <1>6, <1>7, <1>8, <1>9, <1>10, <1>11, <1>12, <1>13 DEF Next
-----------------------------------------------------------------------------
(* What a start finds. *)

\* A Trash that is some of c's, with all that a purge would keep, is c's faded.
LEMMA FadedBy ==
    ASSUME NEW c \in Disk, NEW t \in TrashOf, NEW now,
           \A id \in IDs(t) : c.trash[id] = t[id],
           IDs(Purge(c.trash, now)) \subseteq IDs(t)
    PROVE  [c EXCEPT !.trash = t] \in Promise!Faded(c, now)
<1>1. IDs(t) \subseteq IDs(c.trash)
  BY DEF IDs
<1>2. \A id \in HouseholdID : Only(c.trash, IDs(t))[id] = t[id]
  BY DEF Only, IDs
<1>3. Only(c.trash, IDs(t)) = t
  BY <1>2 DEF Only, TrashOf
<1>4. /\ IDs(t) \in SUBSET Promise!IDs(c.trash)
      /\ Promise!IDs(Promise!Purge(c.trash, now)) \subseteq IDs(t)
  BY <1>1, SameIDs, SamePurge
<1>5. Promise!Only(c.trash, IDs(t)) = t
  BY <1>3, SameOnly
<1> QED
  BY <1>4, <1>5 DEF Promise!Faded

LEMMA FadedNot ==
    ASSUME NEW c \in Disk, NEW now
    PROVE  c \in Promise!Faded(c, now)
<1>1. IDs(Purge(c.trash, now)) \subseteq IDs(c.trash)
  BY OnlySubset DEF Purge
<1>2. [c EXCEPT !.trash = c.trash] = c
  BY DEF Disk
<1>3. c.trash \in TrashOf
  BY DEF Disk
<1>4. [c EXCEPT !.trash = c.trash] \in Promise!Faded(c, now)
  BY <1>1, <1>3, FadedBy
<1> QED
  BY <1>2, <1>4

LEMMA StartsFaded ==
    ASSUME NEW kept \in State, NEW other \in State, NEW now, NEW d \in Disk,
           StartsAs(kept, other, now),
           d.document = kept.document.val, d.trash = other.trash.val,
           d.settings = kept.settings.val
    PROVE  ValuesOf(Open(d, now)) \in Promise!Faded(ValuesOf(kept), now)
<1> DEFINE c == ValuesOf(kept)
           t == OpenTrash(d, now)
<1>1. c \in Disk /\ t \in TrashOf
  BY OpenTrashType DEF ValuesOf, State, Pointer, Disk
<1>2. /\ \A id \in IDs(t) : c.trash[id] = t[id]
      /\ IDs(Purge(c.trash, now)) \subseteq IDs(t)
  BY DEF StartsAs, ValuesOf, OpenTrash
<1>3. ValuesOf(Open(d, now)) = [c EXCEPT !.trash = t]
  BY DEF ValuesOf, Open, Loaded
<1> HIDE DEF c, t
<1>4. ValuesOf(Open(d, now)) \in Promise!Faded(c, now)
  BY <1>1, <1>2, <1>3, FadedBy
<1> QED
  BY <1>4 DEF c

\* A state whose files are all its own.
LEMMA StartsItself ==
    ASSUME NEW kept \in State, NEW other, NEW now, Disjoint(kept), other.trash = kept.trash
    PROVE  StartsAs(kept, other, now)
<1> DEFINE t == kept.trash.val
           r == Reconcile(t, kept.document.val)
<1>1. t \in TrashOf /\ r \in TrashOf
  BY ReconcileType DEF State, Pointer
<1>2. \A id \in HouseholdID : r[id] = t[id]
  BY DEF Reconcile, Only, Disjoint, IDs
<1>3. r = t
  BY <1>1, <1>2 DEF TrashOf
<1>4. \A id \in IDs(Purge(t, now)) : t[id] = Purge(t, now)[id]
  BY OnlySubset DEF Purge
<1> QED
  BY <1>3, <1>4 DEF StartsAs

\* At every moment the files are those of one state, or the document of one and
\* the Trash of the other in the order that Persist makes them so.
LEMMA FilesOf ==
    ASSUME TypeOK, Inv, FilesMatch, HalfwayInv, served # None
    PROVE  \E kept \in {served} \cup (IF job = None THEN {} ELSE {job.next}) :
              \E other \in State :
                 /\ StartsAs(kept, other, clock)
                 /\ disk.document = kept.document.val
                 /\ disk.trash = other.trash.val
                 /\ disk.settings = kept.settings.val
<1>1. served \in State /\ Disjoint(served) /\ disk \in Disk
  BY DEF TypeOK, Inv
<1>2. StartsAs(served, served, clock)
  BY <1>1, StartsItself
<1>3. CASE job = None
  BY <1>1, <1>2, <1>3 DEF FilesMatch, Idle, File
<1>4. CASE job # None
  <2> DEFINE next == job.next
  <2>1. /\ next \in State /\ Disjoint(next) /\ ~ MixedSave(served, next)
        /\ job.todo \subseteq Changed(served, next) /\ HalfwayJob
    BY <1>4 DEF TypeOK, Job, Inv, JobSound, HalfwayInv
  <2>2. StartsAs(next, next, clock)
    BY <2>1, StartsItself
  <2>3. /\ disk.document = IF "document" \in job.todo THEN served.document.val
                           ELSE next.document.val
        /\ disk.trash = IF "trash" \in job.todo THEN served.trash.val ELSE next.trash.val
        /\ disk.settings = IF "settings" \in job.todo THEN served.settings.val
                           ELSE next.settings.val
    BY <1>4 DEF FilesMatch, File
  <2>4. /\ "document" \in job.todo => next.document # served.document
        /\ "trash" \in job.todo => next.trash # served.trash
        /\ "settings" \in job.todo => next.settings # served.settings
    BY <2>1 DEF Changed
  <2>5. next.settings # served.settings =>
           next.document = served.document /\ next.trash = served.trash
    BY <2>1 DEF MixedSave, Changed, File
  <2>6. next.trash # served.trash =>
           /\ GainsHousehold(served, next) => StartsAs(next, served, clock)
           /\ ~ GainsHousehold(served, next) => StartsAs(served, next, clock)
    BY <2>1 DEF HalfwayJob, Halfway
  <2>7. next.trash # served.trash /\ next.document # served.document =>
           /\ "document" \notin job.todo /\ "trash" \in job.todo => GainsHousehold(served, next)
           /\ "trash" \notin job.todo /\ "document" \in job.todo => ~ GainsHousehold(served, next)
    BY <2>1 DEF HalfwayJob
  <2> HIDE DEF next
  <2>8. \E kept \in {served, next} : \E other \in State :
           /\ StartsAs(kept, other, clock)
           /\ disk.document = kept.document.val
           /\ disk.trash = other.trash.val
           /\ disk.settings = kept.settings.val
    <3>1. CASE next.settings # served.settings
      <4>1. "document" \notin job.todo /\ "trash" \notin job.todo
        BY <2>4, <2>5, <3>1
      <4>2. CASE "settings" \in job.todo
        BY <1>1, <1>2, <2>3, <2>5, <3>1, <4>1, <4>2
      <4>3. CASE "settings" \notin job.todo
        BY <2>1, <2>2, <2>3, <4>1, <4>3
      <4> QED
        BY <4>2, <4>3
    <3>2. CASE next.settings = served.settings
      <4>1. disk.settings = served.settings.val /\ disk.settings = next.settings.val
        BY <2>3, <3>2
      <4>2. CASE "document" \in job.todo /\ ("trash" \in job.todo \/ next.trash = served.trash)
        BY <1>1, <1>2, <2>3, <2>4, <4>1, <4>2
      <4>3. CASE "document" \in job.todo /\ "trash" \notin job.todo /\ next.trash # served.trash
        BY <2>1, <2>3, <2>4, <2>6, <2>7, <4>1, <4>3
      <4>4. CASE "document" \notin job.todo /\ "trash" \notin job.todo
        BY <2>1, <2>2, <2>3, <4>1, <4>4
      <4>5. CASE "document" \notin job.todo /\ "trash" \in job.todo
        <5>1. CASE next.document = served.document
          BY <1>1, <1>2, <2>3, <4>1, <4>5, <5>1
        <5>2. CASE next.document # served.document
          BY <1>1, <2>3, <2>4, <2>6, <2>7, <4>1, <4>5, <5>2
        <5> QED
          BY <5>1, <5>2
      <4> QED
        BY <4>2, <4>3, <4>4, <4>5
    <3> QED
      BY <3>1, <3>2
  <2> QED
    BY <1>4, <2>8 DEF next
<1> QED
  BY <1>3, <1>4
-----------------------------------------------------------------------------
(* Each step of Live is a step of Directory, or none. *)

LEMMA ValuesType ==
    /\ \A state \in State : ValuesOf(state) \in Disk
    /\ \A point \in UndoPoint :
          /\ UndoValues(point) = [token |-> point.token, before |-> ValuesOf(point.before)]
          /\ UndoValues(point) # None
    /\ UndoValues(None) = None
<1>1. \A state \in State : ValuesOf(state) \in Disk
  BY DEF ValuesOf, State, Pointer, Disk
<1>2. \A point \in UndoPoint : point # None
  BY NilAssumption
<1>3. ASSUME NEW point \in UndoPoint
      PROVE  /\ UndoValues(point) = [token |-> point.token, before |-> ValuesOf(point.before)]
             /\ UndoValues(point) # None
  <2>1. UndoValues(point) = [token |-> point.token, before |-> ValuesOf(point.before)]
    BY <1>2 DEF UndoValues
  <2>2. point.token \in Nat /\ ValuesOf(point.before) \in Disk
    BY <1>1 DEF UndoPoint
  <2>3. UndoValues(point) \in UndoPointValues
    BY <2>1, <2>2 DEF UndoPointValues
  <2> QED
    BY <2>1, <2>3, NilValuesAssumption
<1> QED
  BY <1>1, <1>3 DEF UndoValues

LEMMA PendingType ==
    ASSUME TypeOK
    PROVE  (Pending = None) <=> (job = None)
<1> SUFFICES ASSUME job # None
             PROVE  Pending # None
  BY DEF Pending
<1>1. job.next \in State /\ job.undo \in UndoPoint \cup {None}
  BY DEF TypeOK, Job
<1>2. UndoValues(job.undo) \in UndoPointValues \cup {None}
  <2>1. ASSUME NEW point \in UndoPoint
        PROVE  UndoValues(point) \in UndoPointValues
    <3>1. UndoValues(point) = [token |-> point.token, before |-> ValuesOf(point.before)]
      BY ValuesType
    <3>2. point.token \in Nat /\ ValuesOf(point.before) \in Disk
      BY ValuesType DEF UndoPoint
    <3> QED
      BY <3>1, <3>2 DEF UndoPointValues
  <2> QED
    BY <1>1, <2>1, ValuesType
<1>3. ValuesOf(job.next) \in Disk
  BY <1>1, ValuesType
<1>4. Pending \in JobValues
  BY <1>2, <1>3 DEF Pending, JobValues
<1> QED
  BY <1>4, NilValuesAssumption

\* A save that begins is a change asked for.
LEMMA BeginPends ==
    ASSUME TypeOK, TypeOK', Idle, NEW next \in State,
           NEW point \in UndoPoint \cup {None}, Begin(next, point),
           UNCHANGED <<clock, served, undo, disk>>
    PROVE  /\ Pending = None
           /\ Pending' = [next |-> ValuesOf(next), undo |-> UndoValues(point)]
           /\ Content = ValuesOf(served) /\ Content' = Content
           /\ UndoValues(undo)' = UndoValues(undo)
           /\ Buildable(next.document.val)
<1>1. job' # None /\ job'.next = next /\ job'.undo = point /\ Buildable(next.document.val)
  BY JobIsThere DEF TypeOK
<1>2. Pending' = [next |-> ValuesOf(next), undo |-> UndoValues(point)]
  BY <1>1 DEF Pending
<1>3. Content = ValuesOf(served) /\ Content' = Content
  BY DEF Idle, Content
<1> QED
  BY <1>1, <1>2, <1>3 DEF Idle, Pending

LEMMA UpdateAsks ==
    ASSUME TypeOK, TypeOK', NEW next \in State, Update(next),
           NEW values, values = ValuesOf(PurgedIfChanged(next))
    PROVE  Promise!Ask(values, saves + 1)
<1> DEFINE purged == PurgedIfChanged(next)
           point == [token |-> saves + 1, before |-> served]
<1>1. /\ Idle /\ Begin(purged, point) /\ UNCHANGED <<clock, served, undo, disk>>
      /\ saves' = saves + 1
  BY DEF Update
<1>2. purged \in State
  BY <1>1, PurgedFields
<1>3. point \in UndoPoint
  BY <1>1 DEF UndoPoint, TypeOK, Idle
<1>4. UndoValues(point) = [token |-> saves + 1, before |-> ValuesOf(served)]
  BY <1>3, ValuesType
<1>5. values = ValuesOf(purged)
  OBVIOUS
<1> HIDE DEF point, purged
<1>6. /\ Pending = None
      /\ Pending' = [next |-> ValuesOf(purged), undo |-> UndoValues(point)]
      /\ Content = ValuesOf(served) /\ Content' = Content
      /\ UndoValues(undo)' = UndoValues(undo)
      /\ Buildable(purged.document.val)
  BY <1>1, <1>2, <1>3, BeginPends
<1>7. values.document = purged.document.val
  BY <1>5 DEF ValuesOf
<1>8. Promise!Buildable(values.document)
  BY <1>6, <1>7, SameBuildable
<1> QED
  BY <1>1, <1>4, <1>5, <1>6, <1>8 DEF Promise!Ask

\* What is in use in memory is known to Live.
LEMMA InUseKnown ==
    ASSUME Idle
    PROVE  /\ Promise!InUse \subseteq InUse
           /\ Promise!PeopleOf(Content.document) \subseteq PeopleInUse
<1>1. Content = ValuesOf(served)
  BY DEF Idle, Content
<1>2. Content.document = served.document.val /\ Content.trash = served.trash.val
  BY <1>1 DEF ValuesOf
<1>3. Promise!InUse = IDs(served.document.val) \cup IDs(served.trash.val)
  BY <1>2, SameIDs DEF Promise!InUse
<1>4. Promise!PeopleOf(Content.document) = PeopleOf(served.document.val)
  BY <1>2, SamePeople
<1> QED
  BY <1>3, <1>4 DEF InUse, PeopleInUse

LEMMA MintedForMore ==
    ASSUME NEW h, NEW sub, NEW few, NEW many, few \subseteq many
    PROVE  MintedFor(h, sub, few) \subseteq MintedFor(h, sub, many)
  BY DEF MintedFor, Injection

LEMMA SaveAsks ==
    ASSUME TypeOK, TypeOK', NEW id \in HouseholdID, NEW form \in Submissions, Save(id, form)
    PROVE  Promise!AskSave(id, form)
<1> DEFINE doc == served.document.val
           sub == ParseSubmission(doc[id], form)
<1>1. /\ served \in State /\ doc \in Document /\ id \in IDs(doc) /\ Idle
      /\ Applicable(doc, id, sub) /\ NewPeople(sub) \cap PeopleInUse = {}
  BY DEF Save, Idle, TypeOK, State, Pointer
<1>2. sub \in Submission
  BY LiveAssumption DEF ParseSubmission, Submission
<1>3. PICK mint \in MintedFor(doc[id], sub, HouseholdID \ InUse) :
         Update([served EXCEPT !.document = New(ApplySubmission(doc, id, sub, mint))])
  BY DEF Save
<1> DEFINE edited == ApplySubmission(doc, id, sub, mint)
           next == [served EXCEPT !.document = New(edited)]
           values == [Content EXCEPT !.document = edited]
<1>4. New(edited) \in Pointer(Document) /\ New(edited).val = edited
  BY <1>1, <1>2, ApplyType, NewType DEF New
<1>5. /\ next \in State /\ next.trash = served.trash /\ next.document.val = edited
      /\ next.settings = served.settings
  BY <1>1, <1>4 DEF State
<1>6. PurgedIfChanged(next) = next
  BY <1>5 DEF PurgedIfChanged
<1>7. Content = ValuesOf(served) /\ Content.document = doc
  BY <1>1 DEF Idle, Content, ValuesOf
<1>8. values = ValuesOf(next)
  BY <1>5, <1>7 DEF ValuesOf
<1>9. Update(next)
  BY <1>3
<1>10. mint \in MintedFor(doc[id], sub, HouseholdID \ Promise!InUse)
  <2>1. HouseholdID \ InUse \subseteq HouseholdID \ Promise!InUse
    BY <1>1, InUseKnown
  <2> QED
    BY <1>3, <2>1, MintedForMore
<1>11. NewPeople(sub) \cap Promise!PeopleOf(Content.document) = {}
  BY <1>1, InUseKnown
<1> HIDE DEF next, values, edited
<1>12. Promise!Ask(values, saves + 1)
  BY <1>5, <1>6, <1>8, <1>9, UpdateAsks
<1>13. /\ Promise!ParseSubmission(Content.document[id], form) = sub
       /\ id \in Promise!IDs(Content.document)
  BY <1>1, <1>7, SameForm, SameIDs
<1>14. /\ Promise!Applicable(Content.document, id, sub)
       /\ Promise!NewPeople(sub) = NewPeople(sub)
       /\ mint \in Promise!MintedFor(Content.document[id], sub, HouseholdID \ Promise!InUse)
  BY <1>1, <1>7, <1>10, SameApplicable, SameForm, SameMinted
<1>15. values = [Content EXCEPT !.document =
                    Promise!ApplySubmission(Content.document, id, sub, mint)]
  BY <1>7, SameApply DEF values, edited
<1> HIDE DEF sub, doc
<1> QED
  BY <1>11, <1>12, <1>13, <1>14, <1>15 DEF Promise!AskSave

LEMMA DeleteAsks ==
    ASSUME TypeOK, TypeOK', Inv, NEW id \in HouseholdID, DeleteHousehold(id)
    PROVE  Promise!AskDelete(id)
<1> DEFINE doc == served.document.val
           t == served.trash.val
           deleted == Delete(t, doc, id, clock)
           next == [served EXCEPT !.document = New(deleted.document),
                                  !.trash = New(deleted.trash)]
           purged == PurgedIfChanged(next)
           values == [Content EXCEPT !.document = deleted.document,
                                     !.trash = Purge(deleted.trash, clock)]
<1>1. /\ Idle /\ Update(next) /\ Deletable(doc, id) /\ next \in State
      /\ purged.document.val = deleted.document
      /\ purged.trash.val = Purge(deleted.trash, clock)
      /\ purged.settings = served.settings
  BY DeleteMakes
<1>2. /\ Content = ValuesOf(served) /\ Content.document = doc /\ Content.trash = t
  BY <1>1 DEF Idle, Content, ValuesOf
<1>3. purged = PurgedIfChanged(next)
  OBVIOUS
<1>4. Content = [document |-> doc, trash |-> t, settings |-> served.settings.val]
  BY <1>2 DEF ValuesOf
<1> HIDE DEF purged, next, deleted, doc, t
<1>5. values = [document |-> deleted.document, trash |-> Purge(deleted.trash, clock),
                settings |-> served.settings.val]
  <2> DEFINE half == [Content EXCEPT !.document = deleted.document]
             faded == Purge(deleted.trash, clock)
  <2>1. half = [document |-> deleted.document, trash |-> t, settings |-> served.settings.val]
    BY <1>4
  <2> HIDE DEF half, faded
  <2>2. [half EXCEPT !.trash = faded]
           = [document |-> deleted.document, trash |-> faded, settings |-> served.settings.val]
    BY <2>1
  <2> QED
    BY <2>2 DEF half, faded
<1>6. values = ValuesOf(purged)
  BY <1>1, <1>5 DEF ValuesOf
<1> HIDE DEF values
<1>7. Promise!Ask(values, saves + 1)
  BY <1>1, <1>3, <1>6, UpdateAsks
<1>8. Promise!Deletable(Content.document, id)
  BY <1>1, <1>2, SameDelete
<1>9. Promise!Delete(Content.trash, Content.document, id, clock) = deleted
  BY <1>2, SameDelete DEF deleted
<1>10. Promise!Purge(deleted.trash, clock) = Purge(deleted.trash, clock)
  BY SamePurge
<1>11. Promise!Ask([Content EXCEPT !.document = deleted.document,
                                  !.trash = Promise!Purge(deleted.trash, clock)], saves + 1)
  BY <1>7, <1>10 DEF values
<1> QED
  BY <1>8, <1>9, <1>11 DEF Promise!AskDelete

LEMMA RestoreAsks ==
    ASSUME TypeOK, TypeOK', Inv, NEW id \in HouseholdID, RestoreHousehold(id)
    PROVE  Promise!AskRestore(id)
<1> DEFINE doc == served.document.val
           t == served.trash.val
           restored == Restore(t, doc, id)
           next == [served EXCEPT !.document = New(restored.document),
                                  !.trash = New(restored.trash)]
           purged == PurgedIfChanged(next)
           values == [Content EXCEPT !.document = restored.document,
                                     !.trash = Purge(restored.trash, clock)]
<1>1. /\ Idle /\ Update(next) /\ Restorable(t, doc, id) /\ next \in State
      /\ purged.document.val = restored.document
      /\ purged.trash.val = Purge(restored.trash, clock)
      /\ purged.settings = served.settings
  BY RestoreMakes
<1>2. /\ Content = ValuesOf(served) /\ Content.document = doc /\ Content.trash = t
  BY <1>1 DEF Idle, Content, ValuesOf
<1>3. purged = PurgedIfChanged(next)
  OBVIOUS
<1>4. Content = [document |-> doc, trash |-> t, settings |-> served.settings.val]
  BY <1>2 DEF ValuesOf
<1> HIDE DEF purged, next, restored, doc, t
<1>5. values = [document |-> restored.document, trash |-> Purge(restored.trash, clock),
                settings |-> served.settings.val]
  <2> DEFINE half == [Content EXCEPT !.document = restored.document]
             faded == Purge(restored.trash, clock)
  <2>1. half = [document |-> restored.document, trash |-> t, settings |-> served.settings.val]
    BY <1>4
  <2> HIDE DEF half, faded
  <2>2. [half EXCEPT !.trash = faded]
           = [document |-> restored.document, trash |-> faded, settings |-> served.settings.val]
    BY <2>1
  <2> QED
    BY <2>2 DEF half, faded
<1>6. values = ValuesOf(purged)
  BY <1>1, <1>5 DEF ValuesOf
<1> HIDE DEF values
<1>7. Promise!Ask(values, saves + 1)
  BY <1>1, <1>3, <1>6, UpdateAsks
<1>8. Promise!Restorable(Content.trash, Content.document, id)
  BY <1>1, <1>2, SameRestore
<1>9. Promise!Restore(Content.trash, Content.document, id) = restored
  BY <1>2, SameRestore DEF restored
<1>10. Promise!Purge(restored.trash, clock) = Purge(restored.trash, clock)
  BY SamePurge
<1>11. Promise!Ask([Content EXCEPT !.document = restored.document,
                                  !.trash = Promise!Purge(restored.trash, clock)], saves + 1)
  BY <1>7, <1>10 DEF values
<1> QED
  BY <1>8, <1>9, <1>11 DEF Promise!AskRestore

LEMMA SetTitleAsks ==
    ASSUME TypeOK, TypeOK', NEW title \in Title, SetTitle(title)
    PROVE  Promise!AskTitle(title)
<1> DEFINE next == [served EXCEPT !.settings = New(title)]
           values == [Content EXCEPT !.settings = title]
<1>1. /\ Idle /\ served \in State /\ Update(next) /\ title # served.settings.val
  BY DEF SetTitle, Idle, TypeOK
<1>2. New(title) \in Pointer(Title) /\ New(title).val = title
  BY NewType DEF New
<1>3. /\ next \in State /\ next.trash = served.trash /\ next.document = served.document
      /\ next.settings.val = title
  BY <1>1, <1>2 DEF State
<1>4. PurgedIfChanged(next) = next
  BY <1>3 DEF PurgedIfChanged
<1>5. Content = ValuesOf(served) /\ Content.settings = served.settings.val
  BY <1>1 DEF Idle, Content, ValuesOf
<1>6. values = ValuesOf(next)
  BY <1>3, <1>5 DEF ValuesOf
<1> HIDE DEF next, values
<1>7. Promise!Ask(values, saves + 1)
  BY <1>1, <1>3, <1>4, <1>6, UpdateAsks
<1> QED
  BY <1>1, <1>5, <1>7 DEF Promise!AskTitle, values

LEMMA UndoAsks ==
    ASSUME TypeOK, TypeOK', NEW token, Undo(token)
    PROVE  Promise!AskUndo
<1>1. /\ Idle /\ undo # None /\ Begin(undo.before, None)
      /\ UNCHANGED <<clock, served, undo, disk, saves>>
  BY DEF Undo, TokenCurrent
<1>2. undo \in UndoPoint /\ undo.before \in State
  BY <1>1 DEF TypeOK, UndoPoint
<1>3. /\ Pending = None
      /\ Pending' = [next |-> ValuesOf(undo.before), undo |-> UndoValues(None)]
      /\ Content' = Content /\ UndoValues(undo)' = UndoValues(undo)
  BY <1>1, <1>2, BeginPends
<1>4. /\ UndoValues(undo) # None /\ UndoValues(undo).before = ValuesOf(undo.before)
      /\ UndoValues(None) = None
  BY <1>2, ValuesType
<1> QED
  BY <1>1, <1>3, <1>4 DEF Promise!AskUndo

\* A file renamed into place shows in nothing that is served.
LEMMA WriteFileShowsNot ==
    ASSUME TypeOK, NEW file \in File, WriteFile(file)
    PROVE  UNCHANGED Promise!vars
<1>1. /\ job \in Job /\ job # None /\ served # None
      /\ job' = [job EXCEPT !.todo = @ \ {file}]
      /\ UNCHANGED <<clock, served, undo, saves>>
  BY DEF WriteFile, TypeOK
<1>2. job'.next = job.next /\ job'.undo = job.undo /\ job' # None
  <2>1. job' \in Job
    BY <1>1 DEF Job
  <2> QED
    BY <1>1, <2>1, NilAssumption DEF Job
<1>3. Pending' = Pending /\ Content' = Content /\ UndoValues(undo)' = UndoValues(undo)
  BY <1>1, <1>2 DEF Pending, Content
<1> QED
  BY <1>1, <1>3 DEF Promise!vars

LEMMA CommitChanges ==
    ASSUME TypeOK, TypeOK', Commit
    PROVE  Promise!Change
<1>1. /\ job # None /\ served' = job.next /\ undo' = job.undo /\ job' = None
      /\ UNCHANGED <<clock, disk, saves>>
  BY DEF Commit
<1>2. job.next # None
  BY <1>1, NilAssumption DEF TypeOK, Job
<1>3. Pending = [next |-> ValuesOf(job.next), undo |-> UndoValues(job.undo)]
  BY <1>1 DEF Pending
<1>4. Pending # None
  BY <1>1, PendingType
<1>5. Content' = ValuesOf(job.next)
  BY <1>1, <1>2 DEF Content
<1>6. UndoValues(undo)' = UndoValues(job.undo) /\ Pending' = None
  BY <1>1 DEF Pending
<1> QED
  BY <1>1, <1>3, <1>4, <1>5, <1>6 DEF Promise!Change

LEMMA CrashInterrupts ==
    ASSUME TypeOK, Inv, FilesMatch, HalfwayInv, Crash
    PROVE  Promise!Interrupt
<1>1. /\ served # None /\ served' = None /\ undo' = None /\ job' = None
      /\ UNCHANGED <<clock, disk, saves>>
  BY DEF Crash
<1>2. Content = ValuesOf(served) /\ Content' = ValuesOf(Open(disk, clock))
  BY <1>1 DEF Content, Recovered
<1>3. PICK kept \in {served} \cup (IF job = None THEN {} ELSE {job.next}), other \in State :
         /\ StartsAs(kept, other, clock)
         /\ disk.document = kept.document.val
         /\ disk.trash = other.trash.val
         /\ disk.settings = kept.settings.val
  BY <1>1, FilesOf
<1>4. kept \in State /\ disk \in Disk
  BY <1>1, <1>3 DEF TypeOK, Job
<1>5. Content' \in Promise!Faded(ValuesOf(kept), clock)
  BY <1>2, <1>3, <1>4, StartsFaded
<1>6. kept # served => Pending # None /\ Pending.next = ValuesOf(kept)
  <2> SUFFICES ASSUME kept # served
               PROVE  Pending # None /\ Pending.next = ValuesOf(kept)
    OBVIOUS
  <2>1. job # None /\ kept = job.next
    BY <1>3
  <2> QED
    BY <2>1, PendingType DEF Pending
<1>7. UndoValues(undo)' = None /\ Pending' = None
  BY <1>1 DEF UndoValues, Pending
<1> QED
  BY <1>1, <1>2, <1>5, <1>6, <1>7 DEF Promise!Interrupt

LEMMA StartShowsNot ==
    ASSUME TypeOK, TypeOK', Start
    PROVE  UNCHANGED Promise!vars
<1>1. /\ served = None /\ served' = Open(disk, clock)
      /\ UNCHANGED <<clock, undo, job, saves>> /\ disk \in Disk
  BY DEF Start, TypeOK
<1>2. served' # None
  BY <1>1, OpenType, NilAssumption
<1>3. Content = ValuesOf(Open(disk, clock)) /\ Content' = ValuesOf(Open(disk, clock))
  BY <1>1, <1>2 DEF Content, Recovered
<1>4. Pending' = Pending /\ UndoValues(undo)' = UndoValues(undo)
  BY <1>1 DEF Pending
<1> QED
  BY <1>1, <1>3, <1>4 DEF Promise!vars

LEMMA TickTicks ==
    ASSUME TypeOK, TypeOK', Tick
    PROVE  Promise!Tick
<1>1. /\ clock' = clock + 1 /\ clock \in Nat
      /\ UNCHANGED <<served, undo, job, disk, saves>> /\ disk \in Disk
  BY DEF Tick, TypeOK
<1>2. Pending' = Pending /\ UndoValues(undo)' = UndoValues(undo)
  BY <1>1 DEF Pending
<1>3. Content' \in Promise!Faded(Content, clock')
  <2>1. CASE served # None
    <3>1. Content = ValuesOf(served) /\ Content' = Content /\ served \in State
      BY <1>1, <2>1 DEF Content, TypeOK
    <3>2. Content \in Disk
      BY <3>1, ValuesType
    <3> QED
      BY <3>1, <3>2, FadedNot
  <2>2. CASE served = None
    <3> DEFINE r == Reconcile(disk.trash, disk.document)
               t == Purge(r, clock)
               later == Purge(r, clock')
    <3>1. r \in TrashOf /\ t \in TrashOf /\ later \in TrashOf
      BY <1>1, ReconcileType, PurgeType DEF Disk
    <3>2. /\ Content = [document |-> disk.document, trash |-> t, settings |-> disk.settings]
          /\ Content' = [document |-> disk.document, trash |-> later, settings |-> disk.settings]
      BY <1>1, <2>2 DEF Content, Recovered, Open, OpenTrash, Loaded, ValuesOf
    <3>3. Content \in Disk /\ Content.trash = t /\ Content' = [Content EXCEPT !.trash = later]
      BY <1>1, <3>1, <3>2 DEF Disk
    <3>4. clock \in Nat /\ clock' \in Nat /\ clock <= clock'
      BY <1>1
    <3>5. \A id \in IDs(t) : r[id] = t[id]
      BY OnlySubset DEF Purge
    <3>6. \A id \in IDs(later) : r[id] = later[id]
      BY OnlySubset DEF Purge
    <3> HIDE DEF r
    <3>7. IDs(later) \subseteq IDs(t)
      BY <3>1, <3>4, PurgeKeepsMore
    <3>8. \A id \in IDs(later) : t[id] = later[id]
      BY <3>5, <3>6, <3>7
    <3>9. IDs(Purge(t, clock')) \subseteq IDs(later)
      BY <3>1, <3>4, <3>5, PurgeKeepsMore
    <3> HIDE DEF t, later
    <3> QED
      BY <3>1, <3>3, <3>8, <3>9, FadedBy
  <2> QED
    BY <2>1, <2>2
<1> QED
  BY <1>1, <1>2, <1>3 DEF Promise!Tick

LEMMA StepDirectory ==
    ASSUME ~ WritesMayFail, ~ ClockMayStepBack
    PROVE  TypeOK /\ TypeOK' /\ Inv /\ FilesMatch /\ HalfwayInv /\ [Next]_vars
              => [Promise!Next]_(Promise!vars)
<1> SUFFICES ASSUME TypeOK, TypeOK', Inv, FilesMatch, HalfwayInv, [Next]_vars
             PROVE  [Promise!Next]_(Promise!vars)
  OBVIOUS
<1>1. ASSUME NEW id \in HouseholdID, NEW form \in Submissions, Save(id, form)
      PROVE  Promise!Next
  BY <1>1, SaveAsks DEF Promise!Next
<1>2. ASSUME NEW id \in HouseholdID, DeleteHousehold(id)
      PROVE  Promise!Next
  BY <1>2, DeleteAsks DEF Promise!Next
<1>3. ASSUME NEW id \in HouseholdID, RestoreHousehold(id)
      PROVE  Promise!Next
  BY <1>3, RestoreAsks DEF Promise!Next
<1>4. ASSUME NEW title \in Title, SetTitle(title)
      PROVE  Promise!Next
  BY <1>4, SetTitleAsks DEF Promise!Next
<1>5. ASSUME NEW token \in 1 .. saves, Undo(token)
      PROVE  Promise!Next
  BY <1>5, UndoAsks DEF Promise!Next
<1>6. ASSUME NEW file \in File, WriteFile(file)
      PROVE  UNCHANGED Promise!vars
  BY <1>6, WriteFileShowsNot
<1>7. ~ WriteFails /\ ~ StepBack
  BY DEF WriteFails, StepBack
<1>8. CASE Commit
  BY <1>8, CommitChanges DEF Promise!Next
<1>9. CASE Crash
  BY <1>9, CrashInterrupts DEF Promise!Next
<1>10. CASE Start
  BY <1>10, StartShowsNot
<1>11. CASE Tick
  BY <1>11, TickTicks DEF Promise!Next
<1>12. CASE UNCHANGED vars
  BY <1>12 DEF vars, Promise!vars, Pending, Content, Recovered, UndoValues
<1> QED
  BY <1>1, <1>2, <1>3, <1>4, <1>5, <1>6, <1>7, <1>8, <1>9, <1>10, <1>11, <1>12 DEF Next

(***************************************************************************)
(* Every behaviour of Live is one of Directory, while every file can be    *)
(* written and the clock is not set back: a save is atomic however and     *)
(* whenever the process dies, an Undo is exact and is offered once, and    *)
(* nothing leaves the Trash but by a restore, an Undo or its time.         *)
(***************************************************************************)
THEOREM LiveImplementsDirectory ==
    ASSUME ~ WritesMayFail, ~ ClockMayStepBack
    PROVE  Spec => ImplementsDirectory
<1>1. Init => FilesMatch /\ HalfwayInv
  BY DEF Init, FilesMatch, HalfwayInv, Idle
<1>2. Init => Promise!Init
  <2> SUFFICES ASSUME Init
               PROVE  Promise!Init
    OBVIOUS
  <2>1. /\ clock = 0 /\ served = None /\ undo = None /\ job = None /\ saves = 0
        /\ disk \in [document : Documents, trash : {EmptyTrash}, settings : {Untitled}]
    BY DEF Init
  <2>2. OpenTrash(disk, clock) = EmptyTrash
    <3>1. \A id \in HouseholdID : OpenTrash(disk, clock)[id] = None
      BY <2>1 DEF OpenTrash, Purge, Reconcile, Only, EmptyTrash
    <3>2. OpenTrash(disk, clock) = [id \in HouseholdID |-> OpenTrash(disk, clock)[id]]
      BY DEF OpenTrash, Purge, Only
    <3> QED
      BY <3>1, <3>2 DEF EmptyTrash
  <2>3. Content = [document |-> disk.document, trash |-> EmptyTrash, settings |-> disk.settings]
    BY <2>1, <2>2 DEF Content, Recovered, Open, Loaded, ValuesOf
  <2>4. Promise!EmptyTrash = EmptyTrash
    BY DEF Promise!EmptyTrash, EmptyTrash
  <2> QED
    BY <2>1, <2>3, <2>4 DEF Promise!Init, UndoValues, Pending
<1>3. TypeOK /\ TypeOK' /\ Inv /\ FilesMatch /\ HalfwayInv /\ [Next]_vars
         => (FilesMatch /\ HalfwayInv)'
  BY FilesStep, HalfwayStep
<1>4. TypeOK /\ TypeOK' /\ Inv /\ FilesMatch /\ HalfwayInv /\ [Next]_vars
         => [Promise!Next]_(Promise!vars)
  BY StepDirectory
<1>5. Spec => [](TypeOK /\ Inv)
  BY SoundAlways
<1> QED
  BY <1>1, <1>2, <1>3, <1>4, <1>5, PTL DEF Spec, ImplementsDirectory, Promise!Spec
-----------------------------------------------------------------------------
(***************************************************************************)
(* The date shown is honoured.  A Household is listed until the last of    *)
(* what needs it expires; until then a purge keeps it, a save leaves it in *)
(* the Trash or brings it back, and a start finds it.  A failed save may   *)
(* leave on disk the document or the Trash it was to make, and later saves *)
(* write the other file alone; the invariant says what is listed that the  *)
(* files then hold, and that they hold it with its date.                   *)
(***************************************************************************)

Dated(t) == \A id \in IDs(t) : t[id].deletedAt <= MaxTime

\* What a purge of from would keep, now or later, one of to would keep too, unless
\* to has brought it back.
KeepsListed(from, to, now) ==
    \A later \in Nat : now <= later =>
        IDs(Purge(from.trash.val, later))
            \subseteq IDs(Purge(to.trash.val, later)) \cup IDs(to.document.val)

\* An entry of from is the same entry in to, or the Household to has of that ID.
\* No save changes the Trash alone.
Agrees(from, to) ==
    /\ \A id \in IDs(from.trash.val) :
          /\ id \in IDs(to.trash.val) => to.trash.val[id] = from.trash.val[id]
          /\ id \in IDs(to.document.val) =>
                to.document.val[id] = from.trash.val[id].household
    /\ to.trash # from.trash => to.document # from.document

Follows(from, to, now) ==
    /\ Dated(to.trash.val)
    /\ KeepsListed(from, to, now)
    /\ Agrees(from, to)

HonourJob ==
    /\ Follows(served, job.next, clock)
    /\ job.undo # None => Follows(job.next, job.undo.before, clock)

HonourInv ==
    /\ clock <= MaxTime
    /\ Dated(disk.trash)
    /\ served # None => Dated(served.trash.val)
    /\ undo # None => Follows(served, undo.before, clock)
    /\ job # None => HonourJob

\* A set of numbers that has a bound has a greatest.
LEMMA GreatestNumber ==
    ASSUME NEW ns \in SUBSET Nat, ns # {}, NEW bound \in Nat, \A n \in ns : n <= bound
    PROVE  \E n \in ns : \A m \in ns : m <= n
<1> DEFINE R == {pair \in Nat \X Nat : pair[1] < pair[2]}
           gaps == {gap \in Nat : bound - gap \in ns}
<1>1. IsWellFoundedOn(R, Nat)
  BY NatLessThanWellFounded DEF OpToRel
<1>2. \A x, y \in Nat : x < y => <<x, y>> \in R
  OBVIOUS
<1>3. gaps \subseteq Nat /\ gaps # {}
  <2>1. PICK n \in ns : TRUE
    OBVIOUS
  <2>2. bound - n \in Nat /\ bound - (bound - n) = n
    BY <2>1
  <2> QED
    BY <2>1, <2>2
<1>4. \A n \in ns : bound - n \in gaps
  <2> SUFFICES ASSUME NEW n \in ns
               PROVE  bound - n \in gaps
    OBVIOUS
  <2>1. bound - n \in Nat /\ bound - (bound - n) = n
    OBVIOUS
  <2> QED
    BY <2>1
<1>5. \A gap \in gaps : gap \in Nat /\ bound - gap \in ns
  OBVIOUS
<1> HIDE DEF R, gaps
<1>6. PICK least \in gaps : \A gap \in gaps : ~ (<<gap, least>> \in R)
  BY <1>1, <1>3, WFMin
<1>7. \A m \in ns : m <= bound - least
  <2> SUFFICES ASSUME NEW m \in ns, ~ (m <= bound - least)
               PROVE  FALSE
    OBVIOUS
  <2>1. m \in Nat /\ bound - m \in gaps /\ bound - m \in Nat /\ least \in Nat
    BY <1>4, <1>5, <1>6
  <2>2. bound - m < least
    BY <2>1
  <2> QED
    BY <1>2, <1>6, <2>1, <2>2
<1> QED
  BY <1>5, <1>6, <1>7

\* Until the date shown for it, a purge keeps an entry.
LEMMA KeptUntilThen ==
    ASSUME NEW t \in TrashOf, Dated(t), NEW id \in IDs(t), NEW now \in Nat,
           now < KeptUntil(t, id)
    PROVE  id \in IDs(Purge(t, now))
<1> DEFINE holders == {other \in IDs(t) : id \in NeedClosure(t, {other})}
           dates == {Expires(t[other]) : other \in holders}
<1>1. MaxTime + Retention \in Nat
  BY LiveAssumption, RetentionAssumption
<1>2. \A other \in IDs(t) : Expires(t[other]) \in Nat /\ Expires(t[other]) <= MaxTime + Retention
  <2> SUFFICES ASSUME NEW other \in IDs(t)
               PROVE  Expires(t[other]) \in Nat /\ Expires(t[other]) <= MaxTime + Retention
    OBVIOUS
  <2>1. t[other] \in Entry /\ t[other].deletedAt <= MaxTime
    BY DEF IDs, TrashOf, Dated
  <2>2. t[other].deletedAt \in Nat
    BY <2>1 DEF Entry
  <2> QED
    BY <2>1, <2>2, LiveAssumption, RetentionAssumption DEF Expires
<1>3. id \in holders
  BY DEF NeedClosure, IDs
<1>4. /\ dates \in SUBSET Nat /\ dates # {}
      /\ \A date \in dates : date <= MaxTime + Retention
  BY <1>2, <1>3
<1>5. \A other \in holders : Expires(t[other]) \in dates
  OBVIOUS
<1>6. \A date \in dates : \E other \in holders : date = Expires(t[other])
  OBVIOUS
<1>7. KeptUntil(t, id) =
         CHOOSE date \in dates : \A other \in holders : Expires(t[other]) <= date
  BY DEF KeptUntil
<1>8. holders \subseteq IDs(t) /\ \A other \in holders : id \in NeedClosure(t, {other})
  OBVIOUS
<1> HIDE DEF holders, dates
<1>9. PICK last \in dates : \A date \in dates : date <= last
  BY <1>1, <1>4, GreatestNumber
<1>10. KeptUntil(t, id) \in dates
  BY <1>5, <1>7, <1>9
<1>11. PICK other \in holders : KeptUntil(t, id) = Expires(t[other])
  BY <1>6, <1>10
<1>12. other \in Unexpired(t, now)
  BY <1>8, <1>11 DEF Unexpired
<1>13. id \in NeedClosure(t, Unexpired(t, now))
  BY <1>8, <1>12 DEF NeedClosure
<1> QED
  BY <1>13 DEF Purge, Only, IDs

\* What is held by an entry that is not aside, and by none that is, is held by it
\* still where those aside are gone.
LEMMA HeldElsewhere ==
    ASSUME NEW t \in TrashOf, NEW u \in TrashOf, NEW aside \in SUBSET HouseholdID, NEW now,
           \A id \in IDs(t) \ aside : u[id] = t[id],
           \A id \in IDs(t) \cap aside : NeedsOf(t, id) \subseteq aside
    PROVE  IDs(Purge(t, now)) \ aside \subseteq IDs(Purge(u, now))
<1> SUFFICES ASSUME NEW id \in IDs(Purge(t, now)), id \notin aside
             PROVE  id \in IDs(Purge(u, now))
  OBVIOUS
<1>1. id \in IDs(t) /\ id \in NeedClosure(t, Unexpired(t, now))
  BY DEF Purge, Only, IDs
<1>2. \A other \in IDs(t) \ aside : other \in IDs(u) /\ NeedsOf(u, other) = NeedsOf(t, other)
  BY DEF IDs, NeedsOf
<1>3. Unexpired(t, now) \subseteq aside \cup Unexpired(u, now)
  BY <1>2 DEF Unexpired
<1>4. id \in NeedClosure(u, Unexpired(u, now))
  <2> SUFFICES ASSUME NEW ids \in SUBSET HouseholdID, Unexpired(u, now) \subseteq ids,
                      \A other \in ids \cap IDs(u) : NeedsOf(u, other) \subseteq ids
               PROVE  id \in ids
    BY <1>1 DEF NeedClosure
  <2> DEFINE more == ids \cup aside
  <2>1. more \in SUBSET HouseholdID /\ Unexpired(t, now) \subseteq more
    BY <1>3
  <2>2. \A other \in more \cap IDs(t) : NeedsOf(t, other) \subseteq more
    BY <1>2
  <2>3. id \in more
    BY <1>1, <2>1, <2>2 DEF NeedClosure
  <2> QED
    BY <2>3
<1>5. id \in IDs(u)
  BY <1>1, <1>2
<1> QED
  BY <1>4, <1>5 DEF Purge, Only, IDs

-----------------------------------------------------------------------------
(* The steps. *)

\* What a purge once would have kept later, it keeps.
LEMMA PurgedFollows ==
    ASSUME NEW from \in TrashOf, NEW to \in TrashOf, NEW once \in Nat, NEW later \in Nat,
           once <= later
    PROVE  IDs(Purge(from, later)) \subseteq IDs(Purge(to, later)) =>
              IDs(Purge(from, later)) \subseteq IDs(Purge(Purge(to, once), later))
  BY PurgeTwice

LEMMA FollowsLater ==
    ASSUME NEW from, NEW to, NEW now \in Nat, NEW later \in Nat, now <= later,
           Follows(from, to, now)
    PROVE  Follows(from, to, later)
<1>1. \A then \in Nat : later <= then => now <= then
  OBVIOUS
<1> QED
  BY <1>1 DEF Follows, KeepsListed

\* A state with the same Trash.
LEMMA SameTrashFollows ==
    ASSUME NEW from, NEW to, NEW now, Dated(from.trash.val), to.trash = from.trash,
           Disjoint(to)
    PROVE  Follows(from, to, now)
  BY DEF Follows, KeepsListed, Agrees, Disjoint

LEMMA UpdateHonours ==
    ASSUME TypeOK, TypeOK', HonourInv, NEW next \in State, Update(next),
           NEW purged, purged = PurgedIfChanged(next),
           Follows(served, purged, clock), KeepsListed(purged, served, clock),
           Agrees(purged, served)
    PROVE  HonourInv'
<1> DEFINE point == [token |-> saves + 1, before |-> served]
<1>1. Idle /\ Begin(purged, point) /\ UNCHANGED <<clock, served, undo, disk>>
  BY DEF Update
<1>2. purged \in State
  BY <1>1, PurgedFields
<1>3. point \in UndoPoint /\ point.before = served
  BY <1>1 DEF UndoPoint, TypeOK, Idle
<1> HIDE DEF point
<1>4. job' # None /\ job'.next = purged /\ job'.undo = point
  BY <1>1, <1>2, <1>3, JobIsThere DEF TypeOK
<1>5. Follows(purged, served, clock)
  BY <1>1 DEF HonourInv, Follows, Idle
<1>6. HonourJob'
  BY <1>1, <1>3, <1>4, <1>5 DEF HonourJob
<1> QED
  BY <1>1, <1>6 DEF HonourInv

LEMMA TrashAloneHonours ==
    ASSUME TypeOK, TypeOK', Inv, Inv', HonourInv, NEW next \in State, Update(next),
           next.trash = served.trash
    PROVE  HonourInv'
<1> DEFINE purged == PurgedIfChanged(next)
<1>1. /\ Idle /\ Begin(purged, [token |-> saves + 1, before |-> served])
      /\ [token |-> saves + 1, before |-> served] \in UndoPoint
  BY DEF Update, Idle, UndoPoint, TypeOK
<1>2. purged.trash = served.trash /\ purged \in State
  BY <1>1, PurgedFields
<1>3. Dated(served.trash.val) /\ Disjoint(served)
  BY <1>1 DEF HonourInv, Inv, Idle
<1>6. Disjoint(purged)
  <2> HIDE DEF purged
  <2>1. job' # None /\ job'.next = purged
    BY <1>1, <1>2, JobIsThere DEF TypeOK
  <2> QED
    BY <2>1 DEF Inv, JobSound
<1>7. Follows(served, purged, clock) /\ Follows(purged, served, clock)
  BY <1>2, <1>3, <1>6, SameTrashFollows
<1>4. /\ Follows(served, purged, clock)
      /\ KeepsListed(purged, served, clock) /\ Agrees(purged, served)
  BY <1>7 DEF Follows
<1>5. purged = PurgedIfChanged(next)
  OBVIOUS
<1> HIDE DEF purged
<1> QED
  BY <1>4, <1>5, UpdateHonours

LEMMA SaveHonours ==
    ASSUME TypeOK, TypeOK', Inv, Inv', HonourInv, NEW id \in HouseholdID, NEW form \in Submissions,
           Save(id, form)
    PROVE  HonourInv'
<1> DEFINE doc == served.document.val
           sub == ParseSubmission(doc[id], form)
<1>1. served \in State /\ doc \in Document /\ id \in IDs(doc)
  BY DEF Save, Idle, TypeOK, State, Pointer
<1>2. sub \in Submission
  BY LiveAssumption DEF ParseSubmission, Submission
<1>3. PICK mint \in MintedFor(doc[id], sub, HouseholdID \ InUse) :
         Update([served EXCEPT !.document = New(ApplySubmission(doc, id, sub, mint))])
  BY DEF Save
<1>4. New(ApplySubmission(doc, id, sub, mint)) \in Pointer(Document)
  BY <1>1, <1>2, ApplyType, NewType
<1> DEFINE next == [served EXCEPT !.document = New(ApplySubmission(doc, id, sub, mint))]
<1>5. next \in State /\ next.trash = served.trash
  BY <1>1, <1>4 DEF State
<1> QED
  BY <1>3, <1>5, TrashAloneHonours

LEMMA SetTitleHonours ==
    ASSUME TypeOK, TypeOK', Inv, Inv', HonourInv, NEW title \in Title, SetTitle(title)
    PROVE  HonourInv'
<1> DEFINE next == [served EXCEPT !.settings = New(title)]
<1>1. served \in State /\ Update(next)
  BY DEF SetTitle, Idle, TypeOK
<1>2. next \in State /\ next.trash = served.trash
  BY <1>1, NewType DEF State
<1> QED
  BY <1>1, <1>2, TrashAloneHonours

\* What is deleted joins the Trash, and its needs are in the document.
LEMMA DeleteHonours ==
    ASSUME TypeOK, TypeOK', Inv, BuildInv, HonourInv, NEW id \in HouseholdID,
           DeleteHousehold(id)
    PROVE  HonourInv'
<1> DEFINE doc == served.document.val
           t == served.trash.val
           deleted == Delete(t, doc, id, clock)
           next == [served EXCEPT !.document = New(deleted.document),
                                  !.trash = New(deleted.trash)]
           purged == PurgedIfChanged(next)
<1>1. /\ Idle /\ Update(next) /\ next \in State /\ purged \in State
      /\ doc \in Document /\ t \in TrashOf /\ deleted.trash \in TrashOf
      /\ id \in IDs(doc) /\ id \notin IDs(t)
      /\ purged.trash.val = Purge(deleted.trash, clock)
  BY DeleteMakes
<1>2. /\ clock \in Nat /\ clock <= MaxTime /\ Dated(t)
      /\ IDs(doc) \cap IDs(t) = {} /\ IDs(doc) \subseteq HouseholdID
      /\ ReferencesExist(doc)
  BY <1>1 DEF TypeOK, HonourInv, Inv, Idle, Disjoint, BuildInv, Buildable, IDs
<1>3. /\ deleted.trash[id] = [deletedAt |-> clock, household |-> doc[id]]
      /\ \A other \in HouseholdID \ {id} : deleted.trash[other] = t[other]
  BY <1>1 DEF Delete, TrashOf
<1>13. purged.document.val = [doc EXCEPT ![id] = None]
  BY DeleteMakes DEF Delete
<1>4. purged = PurgedIfChanged(next)
  OBVIOUS
<1> HIDE DEF deleted, next, purged
<1>5. \A other \in IDs(deleted.trash) : other = id \/ other \in IDs(t)
  BY <1>3 DEF IDs
<1>6. Dated(deleted.trash)
  BY <1>2, <1>3, <1>5 DEF Dated, IDs
<1>7. \A other \in IDs(purged.trash.val) :
         other \in IDs(deleted.trash) /\ deleted.trash[other] = purged.trash.val[other]
  BY <1>1, OnlySubset DEF Purge
<1>8. Dated(purged.trash.val)
  BY <1>6, <1>7 DEF Dated
<1>9. KeepsListed(served, purged, clock)
  <2> SUFFICES ASSUME NEW later \in Nat, clock <= later
               PROVE  IDs(Purge(t, later)) \subseteq IDs(Purge(purged.trash.val, later))
    BY DEF KeepsListed
  <2>1. \A other \in IDs(t) : deleted.trash[other] = t[other]
    BY <1>1, <1>3 DEF IDs
  <2>2. IDs(Purge(t, later)) \subseteq IDs(Purge(deleted.trash, later))
    BY <1>1, <2>1, PurgeKeepsMore
  <2> QED
    BY <1>1, <1>2, <2>2, PurgedFollows
<1>10. KeepsListed(purged, served, clock)
  <2> SUFFICES ASSUME NEW later \in Nat, clock <= later
               PROVE  IDs(Purge(purged.trash.val, later))
                         \subseteq IDs(Purge(t, later)) \cup IDs(doc)
    BY DEF KeepsListed
  <2>1. purged.trash.val \in TrashOf
    BY <1>1 DEF State, Pointer
  <2>2. IDs(Purge(purged.trash.val, later)) \subseteq IDs(Purge(deleted.trash, later))
    BY <1>1, <1>7, <2>1, PurgeKeepsMore
  <2>3. \A other \in IDs(deleted.trash) \ IDs(doc) : t[other] = deleted.trash[other]
    BY <1>1, <1>3, <1>5 DEF IDs
  <2>4. \A other \in IDs(deleted.trash) \cap IDs(doc) :
           NeedsOf(deleted.trash, other) \subseteq IDs(doc)
    BY <1>1, <1>2, <1>3, <1>5 DEF NeedsOf, ReferencesExist
  <2>5. IDs(doc) \in SUBSET HouseholdID
    BY <1>2
  <2>6. IDs(Purge(deleted.trash, later)) \ IDs(doc) \subseteq IDs(Purge(t, later))
    BY <1>1, <2>3, <2>4, <2>5, HeldElsewhere
  <2> QED
    BY <2>2, <2>6
<1>11. purged.trash.val[id] = deleted.trash[id] \/ id \notin IDs(purged.trash.val)
  BY <1>7
<1>12. Agrees(served, purged) /\ Agrees(purged, served)
  <2>1. ASSUME NEW other \in IDs(purged.trash.val), other # id
        PROVE  other \in IDs(t) /\ purged.trash.val[other] = t[other]
    <3>1. other \in HouseholdID /\ other \in IDs(deleted.trash)
      BY <1>7, <2>1 DEF IDs
    <3>2. deleted.trash[other] = purged.trash.val[other]
      BY <1>7
    <3>3. deleted.trash[other] = t[other]
      BY <1>3, <2>1, <3>1
    <3> QED
      BY <1>5, <2>1, <3>1, <3>2, <3>3
  <2>2. id \in IDs(purged.trash.val) => purged.trash.val[id].household = doc[id]
    BY <1>3, <1>11
  <2>3. IDs(purged.document.val) = IDs(doc) \ {id}
    BY <1>1, <1>13 DEF IDs, Document
  <2>4. purged.document # served.document
    BY <1>1, <2>3
  <2> QED
    BY <1>1, <1>2, <2>1, <2>2, <2>3, <2>4 DEF Agrees
<1> QED
  BY <1>1, <1>4, <1>8, <1>9, <1>10, <1>12, UpdateHonours DEF Follows

\* A chain that comes back holds nothing that stays.
LEMMA ChainHolds ==
    ASSUME NEW doc \in Document, NEW t \in TrashOf, NEW id, Restorable(t, doc, id),
           NEW other \in Chain(t, doc, id)
    PROVE  NeedsOf(t, other) \subseteq Chain(t, doc, id) \cup IDs(doc)
<1> DEFINE r == Reconcile(t, doc)
<1>1. other \in IDs(t) \ IDs(doc)
  BY ChainMoves
<1>2. other \in IDs(r) /\ r[other] = t[other] /\ other \in HouseholdID
  BY <1>1 DEF Reconcile, Only, IDs
<1>3. NeedsOf(t, other) \subseteq HouseholdID
  BY <1>1 DEF IDs, TrashOf, Entry, NeedsOf, Needs, Household
<1>4. NeedsOf(r, other) = NeedsOf(t, other)
  BY <1>2 DEF NeedsOf
<1>5. other \in NeedClosure(r, {id})
  BY DEF Chain
<1>6. NeedsOf(t, other) \subseteq NeedClosure(r, {id})
  BY <1>2, <1>3, <1>4, <1>5 DEF NeedClosure
<1> QED
  BY <1>6 DEF Chain

LEMMA RestoreHonours ==
    ASSUME TypeOK, TypeOK', Inv, HonourInv, NEW id \in HouseholdID, RestoreHousehold(id)
    PROVE  HonourInv'
<1> DEFINE doc == served.document.val
           t == served.trash.val
           chain == Chain(t, doc, id)
           restored == Restore(t, doc, id)
           next == [served EXCEPT !.document = New(restored.document),
                                  !.trash = New(restored.trash)]
           purged == PurgedIfChanged(next)
<1>1. /\ Idle /\ Update(next) /\ Restorable(t, doc, id) /\ next \in State /\ purged \in State
      /\ doc \in Document /\ t \in TrashOf /\ restored.trash \in TrashOf
      /\ purged.document.val = restored.document
      /\ purged.trash.val = Purge(restored.trash, clock)
  BY RestoreMakes
<1>2. clock \in Nat /\ Dated(t) /\ IDs(doc) \cap IDs(t) = {} /\ IDs(doc) \subseteq HouseholdID
  BY <1>1 DEF TypeOK, HonourInv, Inv, Idle, Disjoint, IDs
<1>3. /\ chain \subseteq IDs(t) \ IDs(doc) /\ chain \subseteq HouseholdID
      /\ \A back \in chain : t[back].household # None
      /\ \A back \in chain : NeedsOf(t, back) \subseteq chain \cup IDs(doc)
  <2>1. chain \subseteq IDs(t) \ IDs(doc) /\ chain \subseteq HouseholdID
    BY <1>1, ChainMoves DEF IDs
  <2>2. \A back \in chain : t[back].household \in Household
    BY <1>1, <2>1 DEF IDs, TrashOf, Entry
  <2>3. \A back \in chain : NeedsOf(t, back) \subseteq chain \cup IDs(doc)
    BY <1>1, ChainHolds
  <2> QED
    BY <2>1, <2>2, <2>3, NoneAssumption
<1>4. chain \cup IDs(doc) = IDs(restored.document)
  BY <1>1, <1>3 DEF Restore, IDs
<1>13. \A back \in chain : restored.document[back] = t[back].household
  BY <1>3 DEF Restore
<1>14. id \in chain
  BY <1>1 DEF Chain, NeedClosure, Restorable
<1>5. \A other \in HouseholdID :
         restored.trash[other] = IF other \in chain THEN None ELSE t[other]
  BY DEF Restore, Only
<1>6. purged = PurgedIfChanged(next)
  OBVIOUS
<1> HIDE DEF restored, next, purged, chain
<1>7. \A other \in IDs(restored.trash) : other \in IDs(t) /\ t[other] = restored.trash[other]
  BY <1>5 DEF IDs
<1>8. \A other \in IDs(purged.trash.val) :
         other \in IDs(t) /\ t[other] = purged.trash.val[other]
  <2>1. \A other \in IDs(purged.trash.val) :
           other \in IDs(restored.trash) /\ restored.trash[other] = purged.trash.val[other]
    BY <1>1, OnlySubset DEF Purge
  <2> QED
    BY <1>7, <2>1
<1>9. Dated(purged.trash.val)
  BY <1>2, <1>8 DEF Dated
<1>10. KeepsListed(served, purged, clock)
  <2> SUFFICES ASSUME NEW later \in Nat, clock <= later
               PROVE  IDs(Purge(t, later))
                         \subseteq IDs(Purge(purged.trash.val, later)) \cup IDs(restored.document)
    BY <1>1 DEF KeepsListed
  <2> DEFINE aside == chain \cup IDs(doc)
  <2>1. aside \in SUBSET HouseholdID
    BY <1>2, <1>3
  <2>2. \A other \in IDs(t) \ aside : restored.trash[other] = t[other]
    BY <1>5 DEF IDs
  <2>3. \A other \in IDs(t) \cap aside : NeedsOf(t, other) \subseteq aside
    BY <1>2, <1>3
  <2> HIDE DEF aside
  <2>4. IDs(Purge(t, later)) \ aside \subseteq IDs(Purge(restored.trash, later))
    BY <1>1, <2>1, <2>2, <2>3, HeldElsewhere
  <2>5. IDs(Purge(restored.trash, later)) \subseteq IDs(Purge(purged.trash.val, later))
    BY <1>1, <1>2, PurgeTwice
  <2> QED
    BY <1>4, <2>4, <2>5 DEF aside
<1>11. KeepsListed(purged, served, clock)
  <2> SUFFICES ASSUME NEW later \in Nat, clock <= later
               PROVE  IDs(Purge(purged.trash.val, later)) \subseteq IDs(Purge(t, later))
    BY DEF KeepsListed
  <2>1. purged.trash.val \in TrashOf
    BY <1>1 DEF State, Pointer
  <2> QED
    BY <1>1, <1>8, <2>1, PurgeKeepsMore
<1>12. Agrees(served, purged) /\ Agrees(purged, served)
  <2>1. \A other \in IDs(t) \cap IDs(restored.document) :
           restored.document[other] = t[other].household
    BY <1>2, <1>4, <1>13
  <2>2. purged.document # served.document
    BY <1>1, <1>3, <1>4, <1>14
  <2> QED
    BY <1>1, <1>2, <1>8, <2>1, <2>2 DEF Agrees
<1> QED
  BY <1>1, <1>6, <1>9, <1>10, <1>11, <1>12, UpdateHonours DEF Follows

LEMMA UndoHonours ==
    ASSUME TypeOK, TypeOK', HonourInv, NEW token, Undo(token)
    PROVE  HonourInv'
<1>1. /\ Idle /\ undo # None /\ Begin(undo.before, None)
      /\ UNCHANGED <<clock, served, undo, disk>>
  BY DEF Undo, TokenCurrent
<1>2. undo.before \in State
  BY <1>1 DEF TypeOK, UndoPoint
<1>3. job' # None /\ job'.next = undo.before /\ job'.undo = None
  BY <1>1, <1>2, JobIsThere DEF TypeOK
<1>4. HonourJob'
  BY <1>1, <1>3 DEF HonourInv, HonourJob
<1> QED
  BY <1>1, <1>4 DEF HonourInv

LEMMA WriteFileHonours ==
    ASSUME TypeOK, TypeOK', HonourInv, NEW file \in File, WriteFile(file)
    PROVE  HonourInv'
<1>1. /\ job \in Job /\ job # None /\ HonourJob /\ disk \in Disk
      /\ disk' = [disk EXCEPT ![file] = job.next[file].val]
      /\ job' = [job EXCEPT !.todo = @ \ {file}]
      /\ UNCHANGED <<clock, served, undo>>
  BY DEF WriteFile, HonourInv, TypeOK
<1>2. job'.next = job.next /\ job'.undo = job.undo
  BY <1>1 DEF Job
<1>3. disk'.trash = disk.trash \/ disk'.trash = job.next.trash.val
  <2>1. CASE file = "trash"
    BY <1>1, <2>1 DEF Disk
  <2>2. CASE file # "trash"
    BY <1>1, <2>2 DEF Disk
  <2> QED
    BY <2>1, <2>2
<1>4. Dated(disk'.trash)
  BY <1>1, <1>3 DEF HonourInv, HonourJob, Follows
<1>5. HonourJob'
  BY <1>1, <1>2 DEF HonourJob
<1> QED
  BY <1>1, <1>4, <1>5 DEF HonourInv

LEMMA StartHonours ==
    ASSUME TypeOK, HonourInv, Start
    PROVE  HonourInv'
<1> DEFINE t == OpenTrash(disk, clock)
<1>1. /\ served = None /\ served' = Open(disk, clock) /\ disk' = [disk EXCEPT !.trash = t]
      /\ UNCHANGED <<clock, undo, job>> /\ disk \in Disk /\ undo = None /\ job = None
  BY DEF Start, TypeOK
<1>2. \A id \in IDs(t) : id \in IDs(disk.trash) /\ t[id] = disk.trash[id]
  <2>1. \A id \in IDs(t) :
           id \in IDs(Reconcile(disk.trash, disk.document))
             /\ t[id] = Reconcile(disk.trash, disk.document)[id]
    BY OnlySubset DEF OpenTrash, Purge
  <2>2. \A id \in IDs(Reconcile(disk.trash, disk.document)) :
           id \in IDs(disk.trash) /\ Reconcile(disk.trash, disk.document)[id] = disk.trash[id]
    BY OnlySubset DEF Reconcile
  <2> QED
    BY <2>1, <2>2
<1> HIDE DEF t
<1>3. Dated(t)
  BY <1>2 DEF Dated, HonourInv
<1>4. served'.trash.val = t /\ disk'.trash = t
  BY <1>1 DEF Open, Loaded, Disk, t
<1> QED
  BY <1>1, <1>3, <1>4 DEF HonourInv

LEMMA TickHonours ==
    ASSUME TypeOK, HonourInv, Tick
    PROVE  HonourInv'
<1>1. /\ clock \in Nat /\ clock' \in Nat /\ clock <= clock' /\ clock' <= MaxTime
      /\ UNCHANGED <<served, undo, job, disk>>
  BY LiveAssumption DEF Tick, TypeOK
<1>2. undo # None => Follows(served, undo.before, clock')
  BY <1>1, FollowsLater DEF HonourInv
<1>3. job # None => HonourJob'
  <2> SUFFICES ASSUME job # None
               PROVE  HonourJob'
    OBVIOUS
  <2>1. Follows(served, job.next, clock')
    BY <1>1, FollowsLater DEF HonourInv, HonourJob
  <2>2. job.undo # None => Follows(job.next, job.undo.before, clock')
    BY <1>1, FollowsLater DEF HonourInv, HonourJob
  <2> QED
    BY <1>1, <2>1, <2>2 DEF HonourJob
<1> QED
  BY <1>1, <1>2, <1>3 DEF HonourInv

LEMMA HonourStep ==
    TypeOK /\ TypeOK' /\ Inv /\ Inv' /\ BuildInv /\ HonourInv /\ [Next]_vars => HonourInv'
<1> SUFFICES ASSUME TypeOK, TypeOK', Inv, Inv', BuildInv, HonourInv, [Next]_vars
             PROVE  HonourInv'
  OBVIOUS
<1>1. ASSUME NEW id \in HouseholdID, NEW form \in Submissions, Save(id, form)
      PROVE  HonourInv'
  BY <1>1, SaveHonours
<1>2. ASSUME NEW id \in HouseholdID, DeleteHousehold(id)
      PROVE  HonourInv'
  BY <1>2, DeleteHonours
<1>3. ASSUME NEW id \in HouseholdID, RestoreHousehold(id)
      PROVE  HonourInv'
  BY <1>3, RestoreHonours
<1>4. ASSUME NEW title \in Title, SetTitle(title)
      PROVE  HonourInv'
  BY <1>4, SetTitleHonours
<1>5. ASSUME NEW token \in 1 .. saves, Undo(token)
      PROVE  HonourInv'
  BY <1>5, UndoHonours
<1>6. ASSUME NEW file \in File, WriteFile(file)
      PROVE  HonourInv'
  BY <1>6, WriteFileHonours
<1>7. CASE WriteFails
  BY <1>7 DEF WriteFails, HonourInv
<1>8. CASE Commit
  BY <1>8 DEF Commit, HonourInv, HonourJob, Follows
<1>9. CASE Crash
  BY <1>9 DEF Crash, HonourInv
<1>10. CASE Start
  BY <1>10, StartHonours
<1>11. CASE Tick
  BY <1>11, TickHonours
<1>12. CASE StepBack
  <2>1. /\ served = None /\ undo = None /\ job = None /\ clock' <= clock /\ clock' \in Nat
        /\ clock \in Nat /\ UNCHANGED <<served, undo, job, disk>>
    BY <1>12 DEF StepBack, TypeOK
  <2> QED
    BY <2>1, LiveAssumption DEF HonourInv
<1>13. CASE UNCHANGED vars
  BY <1>13 DEF vars, HonourInv, HonourJob
<1> QED
  BY <1>1, <1>2, <1>3, <1>4, <1>5, <1>6, <1>7, <1>8, <1>9, <1>10, <1>11, <1>12, <1>13 DEF Next

-----------------------------------------------------------------------------
(* What is listed is in the files, with its date. *)

ListsDated(stored, t, now) == \A id \in IDs(Purge(t, now)) : stored[id] = t[id]

\* Until both its files are written a save has taken nothing listed from the Trash.
StoredJob ==
    /\ "trash" \in job.todo \/ "document" \in job.todo \/ job.next.trash = served.trash =>
          ListsDated(disk.trash, served.trash.val, clock)
    /\ "document" \notin job.todo /\ job.next.document # served.document =>
          disk.document = job.next.document.val

StoredInv ==
    /\ ReferencesExist(disk.document)
    /\ served # None =>
          \A id \in IDs(Purge(served.trash.val, clock)) :
             IF id \in IDs(disk.document)
             THEN disk.document[id] = served.trash.val[id].household
             ELSE disk.trash[id] = served.trash.val[id]
    /\ Idle => ListsDated(disk.trash, served.trash.val, clock)
    /\ job # None => StoredJob

LEMMA BeginningStored ==
    ASSUME TypeOK, TypeOK', StoredInv, Beginning
    PROVE  StoredInv'
<1>1. PICK next \in State, point \in UndoPoint \cup {None} :
         /\ Idle /\ Begin(next, point)
         /\ UNCHANGED <<clock, served, undo, disk>>
  BY DEF Beginning
<1>2. /\ job' # None /\ job'.next = next /\ job'.undo = point
      /\ job'.todo = Changed(served, next)
  BY <1>1, JobIsThere DEF TypeOK
<1>3. next.document # served.document => "document" \in Changed(served, next)
  BY DEF Changed, File
<1>4. ListsDated(disk.trash, served.trash.val, clock)
  BY <1>1 DEF StoredInv
<1>5. StoredJob'
  BY <1>1, <1>2, <1>3, <1>4 DEF StoredJob
<1> QED
  BY <1>1, <1>2, <1>5 DEF StoredInv, Idle

LEMMA WriteFileStored ==
    ASSUME TypeOK, TypeOK', Inv, BuildInv, HonourInv, StoredInv,
           NEW file \in File, WriteFile(file)
    PROVE  StoredInv'
<1> DEFINE next == job.next
           t == served.trash.val
           listed == IDs(Purge(t, clock))
<1>1. /\ job \in Job /\ job # None /\ JobSound /\ StoredJob /\ disk \in Disk
      /\ file \in job.todo /\ clock \in Nat
      /\ job.first \in job.todo => file = job.first
      /\ disk' = [disk EXCEPT ![file] = next[file].val]
      /\ job' = [job EXCEPT !.todo = @ \ {file}]
      /\ UNCHANGED <<clock, served, undo>>
      /\ served \in State /\ served # None
  BY DEF WriteFile, Inv, StoredInv, TypeOK
<1>2. /\ job'.next = next /\ job'.todo = job.todo \ {file} /\ job' # None
  BY <1>1, NilAssumption DEF Job
<1>3. /\ KeepsListed(served, next, clock) /\ Agrees(served, next)
      /\ ReferencesExist(next.document.val) /\ next \in State
  BY <1>1 DEF HonourInv, HonourJob, Follows, BuildInv, Buildable, Job
<1>4. /\ listed \subseteq IDs(t)
      /\ listed \subseteq IDs(Purge(next.trash.val, clock)) \cup IDs(next.document.val)
      /\ IDs(Purge(next.trash.val, clock)) \subseteq IDs(next.trash.val)
  BY <1>1, <1>3, OnlySubset DEF KeepsListed, Purge
<1>5. \A id \in listed :
         /\ id \in IDs(next.document.val) => next.document.val[id] = t[id].household
         /\ id \notin IDs(next.document.val) => next.trash.val[id] = t[id]
  BY <1>3, <1>4 DEF Agrees
<1>6. \A id \in listed :
         IF id \in IDs(disk.document) THEN disk.document[id] = t[id].household
         ELSE disk.trash[id] = t[id]
  BY <1>1 DEF StoredInv
<1>7. /\ file \in {"document", "settings"} => disk'.trash = disk.trash
      /\ file \in {"trash", "settings"} => disk'.document = disk.document
      /\ file = "document" => disk'.document = next.document.val
      /\ file = "trash" => disk'.trash = next.trash.val
  BY <1>1 DEF Disk
<1>8. file = "trash" => next.trash # served.trash
  BY <1>1 DEF JobSound, Changed
<1>9. IDs(t) \cap IDs(served.document.val) = {}
  BY <1>1 DEF Inv, Disjoint
<1>10. ASSUME file = "trash", "document" \in job.todo
       PROVE  \A id \in listed : id \notin IDs(next.document.val)
  <2>1. job.first # "document"
    BY <1>1, <1>10
  <2>2. IDs(next.document.val) \subseteq IDs(served.document.val)
    BY <1>1, <2>1 DEF JobSound, FirstFile, GainsHousehold
  <2> QED
    BY <1>4, <1>9, <2>2
<1> HIDE DEF listed
<1>11. "trash" \in job'.todo \/ "document" \in job'.todo \/ next.trash = served.trash =>
          \A id \in listed : disk'.trash[id] = t[id]
  <2> SUFFICES ASSUME "trash" \in job'.todo \/ "document" \in job'.todo
                         \/ next.trash = served.trash,
                      NEW id \in listed
               PROVE  disk'.trash[id] = t[id]
    OBVIOUS
  <2>1. disk.trash[id] = t[id]
    BY <1>1, <1>2 DEF StoredJob, ListsDated, listed
  <2>2. CASE file = "trash"
    <3>1. "document" \in job.todo
      BY <1>2, <1>8, <2>2
    <3> QED
      BY <1>5, <1>7, <1>10, <2>2, <3>1
  <2>3. CASE file # "trash"
    BY <1>7, <2>1, <2>3 DEF File
  <2> QED
    BY <2>2, <2>3
<1>12. "document" \notin job'.todo /\ next.document # served.document =>
          disk'.document = next.document.val
  BY <1>1, <1>2, <1>7 DEF StoredJob, File
<1>13. StoredJob'
  BY <1>1, <1>2, <1>11, <1>12 DEF StoredJob, ListsDated, listed
<1>14. ReferencesExist(disk'.document)
  BY <1>3, <1>7 DEF StoredInv, File
<1>15. \A id \in listed :
          IF id \in IDs(disk'.document) THEN disk'.document[id] = t[id].household
          ELSE disk'.trash[id] = t[id]
  <2> SUFFICES ASSUME NEW id \in listed
               PROVE  IF id \in IDs(disk'.document)
                      THEN disk'.document[id] = t[id].household
                      ELSE disk'.trash[id] = t[id]
    OBVIOUS
  <2>1. CASE file = "document"
    <3>1. disk.trash[id] = t[id]
      BY <1>1, <2>1 DEF StoredJob, ListsDated, listed
    <3> QED
      BY <1>5, <1>7, <2>1, <3>1
  <2>2. CASE file = "trash"
    <3>1. CASE id \in IDs(disk.document)
      BY <1>6, <1>7, <2>2, <3>1
    <3>2. CASE id \notin IDs(disk.document)
      <4>1. id \notin IDs(next.document.val)
        <5>1. CASE "document" \in job.todo
          BY <1>10, <2>2, <5>1
        <5>2. CASE "document" \notin job.todo
          <6>1. Holds(disk.document, next.document.val)
            BY <1>1, <5>2 DEF JobSound
          <6> QED
            BY <3>2, <6>1, HoldsHas
        <5> QED
          BY <5>1, <5>2
      <4> QED
        BY <1>5, <1>7, <2>2, <3>2, <4>1
    <3> QED
      BY <3>1, <3>2
  <2>3. CASE file = "settings"
    BY <1>6, <1>7, <2>3
  <2> QED
    BY <2>1, <2>2, <2>3 DEF File
<1> QED
  BY <1>1, <1>2, <1>13, <1>14, <1>15 DEF StoredInv, Idle, listed

\* A save that fails has a file to write, and has not written both others.
LEMMA WriteFailsStored ==
    ASSUME TypeOK, Inv, StoredInv, WriteFails
    PROVE  StoredInv'
<1>1. /\ job # None /\ job.todo # {} /\ JobSound /\ StoredJob
      /\ job' = None /\ UNCHANGED <<clock, served, undo, disk>>
  BY DEF WriteFails, Inv, StoredInv
<1>2. "trash" \in job.todo \/ "document" \in job.todo \/ job.next.trash = served.trash
  BY <1>1 DEF JobSound, MixedSave, Changed, File
<1>3. ListsDated(disk.trash, served.trash.val, clock)
  BY <1>1, <1>2 DEF StoredJob
<1> QED
  BY <1>1, <1>3 DEF StoredInv, Idle

LEMMA CommitStored ==
    ASSUME TypeOK, TypeOK', Inv, HonourInv, StoredInv, Commit
    PROVE  StoredInv'
<1>1. /\ job # None /\ job.todo = {} /\ JobSound /\ StoredJob
      /\ served' = job.next /\ job' = None /\ served # None
      /\ UNCHANGED <<clock, disk>>
  BY DEF Commit, Inv, StoredInv, TypeOK
<1>2. /\ IDs(job.next.document.val) \cap IDs(job.next.trash.val) = {}
      /\ IDs(Purge(job.next.trash.val, clock)) \subseteq IDs(job.next.trash.val)
  BY <1>1, OnlySubset DEF JobSound, Disjoint, Purge
<1>3. CASE job.next.trash = served.trash
  BY <1>1, <1>3 DEF StoredInv, StoredJob, Idle
<1>4. CASE job.next.trash # served.trash
  <2>1. disk.trash = job.next.trash.val
    BY <1>1, <1>4 DEF JobSound
  <2>2. job.next.document # served.document
    BY <1>1, <1>4 DEF HonourInv, HonourJob, Follows, Agrees
  <2>3. disk.document = job.next.document.val
    BY <1>1, <2>2 DEF StoredJob
  <2> QED
    BY <1>1, <1>2, <2>1, <2>3 DEF StoredInv, ListsDated, Idle
<1> QED
  BY <1>3, <1>4

LEMMA StartStored ==
    ASSUME TypeOK, StoredInv, Start
    PROVE  StoredInv'
<1> DEFINE t == OpenTrash(disk, clock)
<1>1. /\ served' = Open(disk, clock) /\ disk'.trash = t /\ disk'.document = disk.document
      /\ served = None /\ UNCHANGED <<clock, undo, job>> /\ job = None
  BY DEF Start, TypeOK, Disk
<1>2. served'.trash.val = t
  BY <1>1 DEF Open, Loaded
<1>3. IDs(t) \cap IDs(disk.document) = {}
  <2>1. IDs(Reconcile(disk.trash, disk.document)) \cap IDs(disk.document) = {}
    BY DEF Reconcile, Only, IDs
  <2>2. IDs(t) \subseteq IDs(Reconcile(disk.trash, disk.document))
    BY OnlySubset DEF OpenTrash, Purge
  <2> QED
    BY <2>1, <2>2
<1> HIDE DEF t
<1>4. IDs(Purge(t, clock)) \subseteq IDs(t)
  BY OnlySubset DEF Purge
<1> QED
  BY <1>1, <1>2, <1>3, <1>4 DEF StoredInv, ListsDated, Idle

LEMMA TickStored ==
    ASSUME TypeOK, StoredInv, Tick
    PROVE  StoredInv'
<1>1. /\ clock \in Nat /\ clock' \in Nat /\ clock <= clock'
      /\ UNCHANGED <<served, undo, job, disk>>
  BY DEF Tick, TypeOK
<1>2. ASSUME served # None
      PROVE  IDs(Purge(served.trash.val, clock')) \subseteq IDs(Purge(served.trash.val, clock))
  <2>1. served.trash.val \in TrashOf
    BY <1>2 DEF TypeOK, State, Pointer
  <2> QED
    BY <1>1, <2>1, PurgeKeepsMore
<1>3. job # None => served # None
  BY DEF TypeOK
<1> QED
  BY <1>1, <1>2, <1>3 DEF StoredInv, StoredJob, ListsDated, Idle

LEMMA StoredStep ==
    TypeOK /\ TypeOK' /\ Inv /\ BuildInv /\ HonourInv /\ StoredInv /\ [Next]_vars => StoredInv'
<1> SUFFICES ASSUME TypeOK, TypeOK', Inv, BuildInv, HonourInv, StoredInv, [Next]_vars
             PROVE  StoredInv'
  OBVIOUS
<1>1. CASE Beginning
  BY <1>1, BeginningStored
<1>2. ASSUME NEW file \in File, WriteFile(file)
      PROVE  StoredInv'
  BY <1>2, WriteFileStored
<1>3. CASE WriteFails
  BY <1>3, WriteFailsStored
<1>4. CASE Commit
  BY <1>4, CommitStored
<1>5. CASE Crash
  BY <1>5 DEF Crash, StoredInv, Idle
<1>6. CASE Start
  BY <1>6, StartStored
<1>7. CASE Tick
  BY <1>7, TickStored
<1>8. CASE StepBack
  BY <1>8 DEF StepBack, StoredInv, Idle, TypeOK
<1>9. CASE UNCHANGED vars
  BY <1>9 DEF vars, StoredInv, StoredJob, Idle
<1> QED
  BY <1>1, <1>2, <1>3, <1>4, <1>5, <1>6, <1>7, <1>8, <1>9, Steps

-----------------------------------------------------------------------------
(* What a reader finds. *)

\* The Trash a reader sees, or will see, has its type and no date past the clock's.
LEMMA ContentDated ==
    ASSUME TypeOK, HonourInv
    PROVE  Content.trash \in TrashOf /\ Dated(Content.trash)
<1>1. CASE served # None
  BY <1>1 DEF Content, ValuesOf, TypeOK, State, Pointer, HonourInv
<1>2. CASE served = None
  <2> DEFINE r == Reconcile(disk.trash, disk.document)
  <2>1. Content.trash = Purge(r, clock)
    BY <1>2 DEF Content, ValuesOf, Recovered, Open, OpenTrash, Loaded
  <2>2. disk.trash \in TrashOf /\ r \in TrashOf /\ Purge(r, clock) \in TrashOf
    BY ReconcileType, PurgeType DEF TypeOK, Disk
  <2>3. \A id \in IDs(r) : id \in IDs(disk.trash) /\ r[id] = disk.trash[id]
    BY OnlySubset DEF Reconcile
  <2>4. \A id \in IDs(Purge(r, clock)) : id \in IDs(r) /\ Purge(r, clock)[id] = r[id]
    BY OnlySubset DEF Purge
  <2> HIDE DEF r
  <2>5. Dated(Purge(r, clock))
    BY <2>3, <2>4 DEF HonourInv, Dated
  <2> QED
    BY <2>1, <2>2, <2>5
<1> QED
  BY <1>1, <1>2

\* Whatever the files are then, a start finds what was listed: what the document on
\* disk has brought back already holds nothing that it has not.
LEMMA CrashKeeps ==
    ASSUME TypeOK, TypeOK', StoredInv, Crash,
           NEW id \in IDs(Purge(Content.trash, clock'))
    PROVE  id \in IDs(Content'.trash) \cup IDs(Content'.document)
<1> DEFINE t == Purge(served.trash.val, clock)
           left == Reconcile(disk.trash, disk.document)
           aside == IDs(disk.document)
<1>1. /\ served # None /\ served' = None /\ UNCHANGED <<clock, disk>> /\ clock \in Nat
      /\ served \in State /\ disk \in Disk
  BY DEF Crash, TypeOK
<1>2. id \in IDs(t)
  BY <1>1 DEF Content, ValuesOf
<1>3. Content'.trash = Purge(left, clock) /\ Content'.document = disk.document
  BY <1>1 DEF Content, Recovered, Open, OpenTrash, Loaded, ValuesOf
<1>4. /\ served.trash.val \in TrashOf /\ t \in TrashOf /\ left \in TrashOf
      /\ aside \in SUBSET HouseholdID
  BY <1>1, PurgeType, ReconcileType DEF State, Pointer, Disk, IDs
<1>5. \A other \in IDs(t) : t[other] = served.trash.val[other] /\ other \in HouseholdID
  BY OnlySubset DEF Purge, IDs
<1>6. \A other \in HouseholdID : left[other] = IF other \in aside THEN None ELSE disk.trash[other]
  BY DEF Reconcile, Only
<1>7. \A other \in IDs(t) :
         IF other \in aside THEN disk.document[other] = served.trash.val[other].household
         ELSE disk.trash[other] = served.trash.val[other]
  BY <1>1 DEF StoredInv
<1>8. \A other \in aside : Needs(disk.document[other]) \subseteq aside
  BY DEF StoredInv, ReferencesExist
<1>9. IDs(t) \subseteq IDs(Purge(t, clock))
  BY <1>1, <1>4, PurgeTwice
<1> HIDE DEF t, left, aside
<1>10. \A other \in IDs(t) \ aside : left[other] = t[other]
  BY <1>5, <1>6, <1>7
<1>11. \A other \in IDs(t) \cap aside : NeedsOf(t, other) \subseteq aside
  BY <1>5, <1>7, <1>8 DEF NeedsOf
<1>12. IDs(Purge(t, clock)) \ aside \subseteq IDs(Purge(left, clock))
  BY <1>4, <1>10, <1>11, HeldElsewhere
<1> QED
  BY <1>2, <1>3, <1>9, <1>12 DEF aside

\* While the process is down time takes what a purge would take, and no more.
LEMMA DownKeeps ==
    ASSUME TypeOK, TypeOK', Tick \/ StepBack, served = None,
           NEW id \in IDs(Purge(Content.trash, clock'))
    PROVE  id \in IDs(Content'.trash)
<1> DEFINE r == Reconcile(disk.trash, disk.document)
           t == Purge(r, clock)
           later == Purge(r, clock')
<1>1. /\ clock \in Nat /\ clock' \in Nat /\ disk \in Disk
      /\ UNCHANGED <<served, disk>>
  BY DEF Tick, StepBack, TypeOK
<1>2. r \in TrashOf /\ t \in TrashOf
  BY <1>1, ReconcileType, PurgeType DEF Disk
<1>3. Content.trash = t /\ Content'.trash = later
  BY <1>1 DEF Content, Recovered, Open, OpenTrash, Loaded, ValuesOf
<1>4. \A other \in IDs(t) : r[other] = t[other]
  BY OnlySubset DEF Purge
<1> HIDE DEF r
<1>5. IDs(Purge(t, clock')) \subseteq IDs(later)
  BY <1>1, <1>2, <1>4, PurgeKeepsMore
<1> QED
  BY <1>3, <1>5

\* A save swapped in keeps what was listed, or brings it back.
LEMMA CommitKeeps ==
    ASSUME TypeOK, HonourInv, Commit, NEW id \in IDs(Purge(Content.trash, clock'))
    PROVE  id \in IDs(Content'.trash) \cup IDs(Content'.document)
<1>1. /\ job # None /\ served' = job.next /\ job.next \in State /\ clock' = clock
      /\ clock \in Nat /\ served # None
  BY DEF Commit, TypeOK, Job
<1>2. served' # None
  BY <1>1, NilAssumption
<1>3. /\ Content.trash = served.trash.val
      /\ Content'.trash = job.next.trash.val /\ Content'.document = job.next.document.val
  BY <1>1, <1>2 DEF Content, ValuesOf
<1>4. IDs(Purge(job.next.trash.val, clock)) \subseteq IDs(job.next.trash.val)
  BY OnlySubset DEF Purge
<1> QED
  BY <1>1, <1>3, <1>4 DEF HonourInv, HonourJob, Follows, KeepsListed

\* A step takes from what is listed only what a purge would take.
LEMMA StepKeeps ==
    ASSUME TypeOK, TypeOK', HonourInv, StoredInv, [Next]_vars,
           NEW id \in IDs(Purge(Content.trash, clock'))
    PROVE  id \in IDs(Content'.trash) \cup IDs(Content'.document)
<1>1. id \in IDs(Content.trash)
  BY OnlySubset DEF Purge
<1>2. CASE served # None /\ UNCHANGED served
  BY <1>1, <1>2 DEF Content
<1>3. CASE Commit
  BY <1>3, CommitKeeps
<1>4. CASE Crash
  BY <1>4, CrashKeeps
<1>5. CASE Start
  <2>1. /\ served = None /\ served' = Open(disk, clock) /\ disk \in Disk
    BY <1>5 DEF Start, TypeOK
  <2>2. served' # None
    BY <2>1, OpenType, NilAssumption
  <2>3. Content' = Content
    BY <2>1, <2>2 DEF Content, Recovered
  <2> QED
    BY <1>1, <2>3
<1>6. CASE (Tick \/ StepBack) /\ served = None
  BY <1>6, DownKeeps
<1>7. CASE Beginning
  BY <1>2, <1>7 DEF Beginning, Idle
<1>8. CASE (\E file \in File : WriteFile(file)) \/ WriteFails
  BY <1>2, <1>8 DEF WriteFile, WriteFails, TypeOK
<1>9. CASE Tick /\ served # None
  BY <1>2, <1>9 DEF Tick
<1>10. CASE UNCHANGED vars
  BY <1>1, <1>10 DEF vars, Content, Recovered
<1>11. StepBack => served = None
  BY DEF StepBack
<1> QED
  BY <1>3, <1>4, <1>5, <1>6, <1>7, <1>8, <1>9, <1>10, <1>11, Steps

(***************************************************************************)
(* The date Recently deleted shows for a Household is honoured: until then *)
(* no save, Undo, file that cannot be written, crash, start or passing of  *)
(* time takes it away, even with the clock set back.                       *)
(***************************************************************************)
THEOREM ShownDateHonoured == Spec => KeptUntilHonoured
<1>1. Init => BuildInv /\ HonourInv /\ StoredInv
  <2> SUFFICES ASSUME Init
               PROVE  BuildInv /\ HonourInv /\ StoredInv
    OBVIOUS
  <2>1. /\ clock = 0 /\ served = None /\ undo = None /\ job = None
        /\ disk.trash = EmptyTrash /\ disk.document \in Documents
    BY DEF Init
  <2>2. IDs(EmptyTrash) = {}
    BY DEF EmptyTrash, IDs
  <2>3. HonourInv
    BY <2>1, <2>2, LiveAssumption DEF HonourInv, Dated
  <2>4. ReferencesExist(disk.document)
    BY <2>1, LiveAssumption DEF Buildable
  <2> QED
    BY <2>1, <2>3, <2>4 DEF BuildInv, Reversible, StoredInv, Idle
<1>2. TypeOK /\ TypeOK' /\ Inv /\ Inv' /\ BuildInv /\ HonourInv /\ StoredInv /\ [Next]_vars
         => (BuildInv /\ HonourInv /\ StoredInv)'
  BY BuildStep, HonourStep, StoredStep
<1>3. TypeOK /\ TypeOK' /\ HonourInv /\ StoredInv /\ [Next]_vars
         => [\A id \in IDs(Content.trash) :
                clock' < KeptUntil(Content.trash, id) =>
                    id \in IDs(Content'.trash) \cup IDs(Content'.document)]_vars
  <2> SUFFICES ASSUME TypeOK, TypeOK', HonourInv, StoredInv, [Next]_vars,
                      NEW id \in IDs(Content.trash), clock' < KeptUntil(Content.trash, id)
               PROVE  id \in IDs(Content'.trash) \cup IDs(Content'.document)
    OBVIOUS
  <2>1. Content.trash \in TrashOf /\ Dated(Content.trash)
    BY ContentDated
  <2>2. clock' \in Nat
    BY DEF TypeOK
  <2>3. id \in IDs(Purge(Content.trash, clock'))
    BY <2>1, <2>2, KeptUntilThen
  <2> QED
    BY <2>3, StepKeeps
<1>4. Spec => [](TypeOK /\ Inv)
  BY SoundAlways
<1> QED
  BY <1>1, <1>2, <1>3, <1>4, PTL DEF Spec, KeptUntilHonoured

-----------------------------------------------------------------------------
(* What a walk reaches. *)

(***************************************************************************)
(* Where a walk comes to from some of the things it may visit, by way of   *)
(* what is next to each and past nothing it keeps already.  Nothing but    *)
(* next is about the Trash: what an entry needs, or what needs it.         *)
(***************************************************************************)
Reach(next, keep, from) ==
    {x \in DOMAIN next :
        \A xs \in SUBSET DOMAIN next :
            /\ (from \cap DOMAIN next) \ keep \subseteq xs
            /\ \A y \in xs : (next[y] \cap DOMAIN next) \ keep \subseteq xs
            => x \in xs}

LEMMA ReachCloses ==
    ASSUME NEW next, NEW keep, NEW from
    PROVE  /\ Reach(next, keep, from) \subseteq DOMAIN next \ keep
           /\ (from \cap DOMAIN next) \ keep \subseteq Reach(next, keep, from)
           /\ \A y \in Reach(next, keep, from) :
                 (next[y] \cap DOMAIN next) \ keep \subseteq Reach(next, keep, from)
<1>1. Reach(next, keep, from) \subseteq DOMAIN next \ keep
  <2>1. (from \cap DOMAIN next) \ keep \subseteq DOMAIN next \ keep
    OBVIOUS
  <2>2. DOMAIN next \ keep \in SUBSET DOMAIN next
    OBVIOUS
  <2>3. \A y \in DOMAIN next \ keep : (next[y] \cap DOMAIN next) \ keep \subseteq DOMAIN next \ keep
    OBVIOUS
  <2> QED
    BY <2>1, <2>2, <2>3 DEF Reach
<1> QED
  BY <1>1 DEF Reach

LEMMA ReachLeast ==
    ASSUME NEW next, NEW keep, NEW from, NEW xs,
           (from \cap DOMAIN next) \ keep \subseteq xs,
           \A y \in xs : (next[y] \cap DOMAIN next) \ keep \subseteq xs
    PROVE  Reach(next, keep, from) \subseteq xs
<1>1. xs \cap DOMAIN next \in SUBSET DOMAIN next
  OBVIOUS
<1>2. /\ (from \cap DOMAIN next) \ keep \subseteq xs \cap DOMAIN next
      /\ \A y \in xs \cap DOMAIN next :
            (next[y] \cap DOMAIN next) \ keep \subseteq xs \cap DOMAIN next
  OBVIOUS
<1> QED
  BY <1>1, <1>2 DEF Reach

LEMMA ReachNothing ==
    ASSUME NEW next, NEW keep, NEW from, from \cap DOMAIN next \subseteq keep
    PROVE  Reach(next, keep, from) = {}
<1>1. Reach(next, keep, from) \subseteq {}
  <2> DEFINE nothing == {}
  <2>1. /\ (from \cap DOMAIN next) \ keep \subseteq nothing
        /\ \A y \in nothing : (next[y] \cap DOMAIN next) \ keep \subseteq nothing
    OBVIOUS
  <2> HIDE DEF nothing
  <2>2. Reach(next, keep, from) \subseteq nothing
    BY <2>1, ReachLeast
  <2> QED
    BY <2>2 DEF nothing
<1> QED
  BY <1>1

\* Only what can be visited counts.
LEMMA ReachSame ==
    ASSUME NEW next, NEW keep, NEW from, NEW other,
           from \cap DOMAIN next = other \cap DOMAIN next
    PROVE  Reach(next, keep, from) = Reach(next, keep, other)
  BY DEF Reach

\* One thing is visited, then what is next to it.
LEMMA ReachOne ==
    ASSUME NEW next, NEW keep, NEW x \in DOMAIN next \ keep
    PROVE  Reach(next, keep, {x}) = {x} \cup Reach(next, keep \cup {x}, next[x])
<1> DEFINE D == DOMAIN next
           here == Reach(next, keep, {x})
           beyond == Reach(next, keep \cup {x}, next[x])
<1>1. /\ x \in here
      /\ \A y \in here : (next[y] \cap D) \ keep \subseteq here
  BY ReachCloses
<1>2. /\ (next[x] \cap D) \ (keep \cup {x}) \subseteq beyond
      /\ \A y \in beyond : (next[y] \cap D) \ (keep \cup {x}) \subseteq beyond
  BY ReachCloses
<1>3. beyond \subseteq here
  <2>1. (next[x] \cap D) \ (keep \cup {x}) \subseteq here
    BY <1>1
  <2>2. \A y \in here : (next[y] \cap D) \ (keep \cup {x}) \subseteq here
    BY <1>1
  <2> HIDE DEF here
  <2> QED
    BY <2>1, <2>2, ReachLeast
<1>4. here \subseteq {x} \cup beyond
  <2>1. ({x} \cap D) \ keep \subseteq {x} \cup beyond
    OBVIOUS
  <2>2. \A y \in {x} \cup beyond : (next[y] \cap D) \ keep \subseteq {x} \cup beyond
    BY <1>2
  <2> HIDE DEF beyond
  <2> QED
    BY <2>1, <2>2, ReachLeast
<1> QED
  BY <1>1, <1>3, <1>4

\* Some things are visited, then others.
LEMMA ReachBoth ==
    ASSUME NEW next, NEW keep, NEW from, NEW other
    PROVE  Reach(next, keep, from \cup other)
               = Reach(next, keep, from)
                     \cup Reach(next, keep \cup Reach(next, keep, from), other)
<1> DEFINE D == DOMAIN next
           both == Reach(next, keep, from \cup other)
           first == Reach(next, keep, from)
           second == Reach(next, keep \cup first, other)
<1>1. /\ ((from \cup other) \cap D) \ keep \subseteq both
      /\ \A y \in both : (next[y] \cap D) \ keep \subseteq both
  BY ReachCloses
<1>2. /\ (from \cap D) \ keep \subseteq first
      /\ \A y \in first : (next[y] \cap D) \ keep \subseteq first
  BY ReachCloses
<1> HIDE DEF both, first
<1>3. /\ (other \cap D) \ (keep \cup first) \subseteq second
      /\ \A y \in second : (next[y] \cap D) \ (keep \cup first) \subseteq second
  BY ReachCloses
<1>4. first \subseteq both
  <2>1. (from \cap D) \ keep \subseteq both
    BY <1>1
  <2> QED
    BY <1>1, <2>1, ReachLeast DEF first
<1>5. second \subseteq both
  <2>1. (other \cap D) \ (keep \cup first) \subseteq both
    BY <1>1
  <2>2. \A y \in both : (next[y] \cap D) \ (keep \cup first) \subseteq both
    BY <1>1
  <2> QED
    BY <2>1, <2>2, ReachLeast
<1> HIDE DEF second
<1>6. both \subseteq first \cup second
  <2>1. ((from \cup other) \cap D) \ keep \subseteq first \cup second
    BY <1>2, <1>3
  <2>2. \A y \in first \cup second : (next[y] \cap D) \ keep \subseteq first \cup second
    BY <1>2, <1>3
  <2> QED
    BY <2>1, <2>2, ReachLeast DEF both
<1>7. both = first \cup second
  BY <1>4, <1>5, <1>6
<1> QED
  BY <1>7 DEF both, first, second

\* Of some subsets of a finite set one has no other within it.
LEMMA SmallestSubset ==
    ASSUME NEW S, IsFiniteSet(S), NEW Ts \in SUBSET (SUBSET S), Ts # {}
    PROVE  \E T \in Ts : \A U \in Ts : U \subseteq T => U = T
<1> DEFINE R == StrictSubsetOrdering(S)
<1>1. IsWellFoundedOn(R, SUBSET S)
  BY FS_StrictSubsetOrderingWellFounded, FS_FiniteSubsetsOfFinite
<1>2. \A T, U \in SUBSET S : U \subseteq T /\ U # T => <<U, T>> \in R
  BY DEF StrictSubsetOrdering
<1>3. Ts \subseteq SUBSET S
  OBVIOUS
<1> HIDE DEF R
<1>4. PICK T \in Ts : \A U \in Ts : ~ (<<U, T>> \in R)
  BY <1>1, <1>3, WFMin
<1> QED
  BY <1>2, <1>3, <1>4

-----------------------------------------------------------------------------
(* The walk of Purge. *)

\* What an entry needs is next to it.
Needing(t) == [id \in IDs(t) |-> NeedsOf(t, id)]

LEMMA NeedsAre ==
    ASSUME NEW t \in TrashOf, NEW id \in IDs(t)
    PROVE  /\ t[id].household.parent \in HouseholdID \cup {None}
           /\ t[id].household.sharedWith \in HouseholdID \cup {None}
           /\ NeedsOf(t, id) = {t[id].household.parent, t[id].household.sharedWith} \ {None}
           /\ None \notin HouseholdID
<1>1. t[id] \in Entry
  BY DEF IDs, TrashOf
<1>2. t[id].household \in Household
  BY <1>1 DEF Entry
<1> QED
  BY <1>2, NoneAssumption DEF Household, NeedsOf, Needs

\* What an entry needs is reached by way of its parent, then of the Household
\* whose Address it shares.
LEMMA ReachNeeds ==
    ASSUME NEW t \in TrashOf, NEW id \in IDs(t), NEW next, NEW keep,
           id \in DOMAIN next \ keep, DOMAIN next \subseteq IDs(t),
           next[id] = NeedsOf(t, id)
    PROVE  LET parent == Reach(next, keep \cup {id}, {t[id].household.parent})
               shared == Reach(next, keep \cup {id} \cup parent, {t[id].household.sharedWith})
           IN Reach(next, keep, {id}) = {id} \cup parent \cup shared
<1> DEFINE p == t[id].household.parent
           s == t[id].household.sharedWith
           more == keep \cup {id}
<1>1. Reach(next, keep, {id}) = {id} \cup Reach(next, more, next[id])
  BY ReachOne
<1>2. next[id] \cap DOMAIN next = ({p} \cup {s}) \cap DOMAIN next
  BY NeedsAre DEF IDs
<1>3. Reach(next, more, next[id]) = Reach(next, more, {p} \cup {s})
  <2> DEFINE from == next[id]
             other == {p} \cup {s}
  <2>1. from \cap DOMAIN next = other \cap DOMAIN next
    BY <1>2
  <2> HIDE DEF from, other, more
  <2>2. Reach(next, more, from) = Reach(next, more, other)
    BY <2>1, ReachSame
  <2> QED
    BY <2>2 DEF from, other
<1>4. Reach(next, more, {p} \cup {s})
         = Reach(next, more, {p}) \cup Reach(next, more \cup Reach(next, more, {p}), {s})
  <2> DEFINE from == {p}
             other == {s}
  <2> HIDE DEF from, other, more
  <2>1. Reach(next, more, from \cup other)
           = Reach(next, more, from) \cup Reach(next, more \cup Reach(next, more, from), other)
    BY ReachBoth
  <2> QED
    BY <2>1 DEF from, other
<1> QED
  BY <1>1, <1>3, <1>4

\* One call of mark.
MarkOnce(t, mark) ==
    [walk \in (SUBSET IDs(t)) \X (HouseholdID \cup {None}) |->
        LET keep == walk[1]
            id == walk[2]
        IN IF id \in keep \/ id \notin IDs(t) THEN keep
           ELSE mark[<<mark[<<keep \cup {id}, t[id].household.parent>>],
                       t[id].household.sharedWith>>]]

MarkReached(t) ==
    [walk \in (SUBSET IDs(t)) \X (HouseholdID \cup {None}) |->
        walk[1] \cup Reach(Needing(t), walk[1], {walk[2]})]

\* What is reached is what one call makes of it,
LEMMA ReachedIsMarked ==
    ASSUME NEW t \in TrashOf
    PROVE  MarkReached(t) = MarkOnce(t, MarkReached(t))
<1> DEFINE next == Needing(t)
           Walks == (SUBSET IDs(t)) \X (HouseholdID \cup {None})
           reached == MarkReached(t)
<1>1. \A keep \in SUBSET IDs(t), id \in HouseholdID \cup {None} :
         /\ <<keep, id>> \in Walks
         /\ reached[<<keep, id>>] = keep \cup Reach(next, keep, {id})
         /\ reached[<<keep, id>>] \in SUBSET IDs(t)
  <2> TAKE keep \in SUBSET IDs(t), id \in HouseholdID \cup {None}
  <2>1. reached[<<keep, id>>] = keep \cup Reach(next, keep, {id})
    BY DEF MarkReached
  <2>2. Reach(next, keep, {id}) \subseteq DOMAIN next \ keep
    BY ReachCloses
  <2> QED
    BY <2>1, <2>2 DEF Needing
<1> HIDE DEF reached
<1>2. ASSUME NEW keep \in SUBSET IDs(t), NEW id \in HouseholdID \cup {None}
      PROVE  reached[<<keep, id>>]
                = IF id \in keep \/ id \notin IDs(t) THEN keep
                  ELSE reached[<<reached[<<keep \cup {id}, t[id].household.parent>>],
                                 t[id].household.sharedWith>>]
  <2>1. CASE id \in keep \/ id \notin IDs(t)
    <3>1. Reach(next, keep, {id}) = {}
      <4>1. {id} \cap DOMAIN next \subseteq keep
        BY <2>1 DEF Needing
      <4> QED
        BY <4>1, ReachNothing
    <3> HIDE DEF next
    <3>2. reached[<<keep, id>>] = keep \cup Reach(next, keep, {id})
      BY <1>1
    <3>3. reached[<<keep, id>>] = keep \cup {}
      BY <3>1, <3>2
    <3> QED
      BY <2>1, <3>3
  <2>2. CASE id \in IDs(t) \ keep
    <3> DEFINE p == t[id].household.parent
               s == t[id].household.sharedWith
               more == keep \cup {id}
               beyond == Reach(next, more, {p})
               first == reached[<<more, p>>]
    <3>1. p \in HouseholdID \cup {None} /\ s \in HouseholdID \cup {None}
      BY <2>2, NeedsAre
    <3>2. Reach(next, keep, {id}) = {id} \cup beyond \cup Reach(next, more \cup beyond, {s})
      <4>1. /\ DOMAIN next = IDs(t) /\ id \in DOMAIN next \ keep
            /\ next[id] = NeedsOf(t, id)
        BY <2>2 DEF Needing
      <4> HIDE DEF next
      <4> QED
        BY <2>2, <4>1, ReachNeeds
    <3>3. more \in SUBSET IDs(t) /\ more = keep \cup {id}
      BY <2>2
    <3>4. reached[<<keep, id>>] = keep \cup Reach(next, keep, {id})
      BY <1>1
    <3> HIDE DEF more, p, s
    <3>5. first = more \cup beyond /\ first \in SUBSET IDs(t)
      BY <1>1, <3>1, <3>3
    <3> HIDE DEF first, beyond
    <3>6. reached[<<first, s>>] = first \cup Reach(next, first, {s})
      BY <1>1, <3>1, <3>5
    <3>7. reached[<<keep, id>>] = reached[<<first, s>>]
      BY <3>2, <3>3, <3>4, <3>5, <3>6
    <3>8. reached[<<keep, id>>] = reached[<<reached[<<more, p>>], s>>]
      BY <3>7 DEF first
    <3> QED
      BY <2>2, <3>8 DEF more, p, s
  <2> QED
    BY <2>1, <2>2
<1>3. \A walk \in Walks : reached[walk] = MarkOnce(t, reached)[walk]
  BY <1>2 DEF MarkOnce
<1> QED
  BY <1>3 DEF reached, MarkReached, MarkOnce

\* and no other function does that, for every call keeps one more.
LEMMA MarkedOnlyOnce ==
    ASSUME NEW t \in TrashOf, IsFiniteSet(IDs(t)), NEW mark, mark = MarkOnce(t, mark),
           NEW keep \in SUBSET IDs(t), NEW id \in HouseholdID \cup {None}
    PROVE  mark[<<keep, id>>] = keep \cup Reach(Needing(t), keep, {id})
<1> DEFINE reached == MarkReached(t)
           Differs(kept) == \E other \in HouseholdID \cup {None} :
                               mark[<<kept, other>>] # reached[<<kept, other>>]
           left == {IDs(t) \ kept : kept \in {kept \in SUBSET IDs(t) : Differs(kept)}}
<1>1. ASSUME NEW f, f = MarkOnce(t, f), NEW kept \in SUBSET IDs(t),
             NEW other \in HouseholdID \cup {None}
      PROVE  f[<<kept, other>>]
                = IF other \in kept \/ other \notin IDs(t) THEN kept
                  ELSE f[<<f[<<kept \cup {other}, t[other].household.parent>>],
                           t[other].household.sharedWith>>]
  <2>1. MarkOnce(t, f)[<<kept, other>>]
                = IF other \in kept \/ other \notin IDs(t) THEN kept
                  ELSE f[<<f[<<kept \cup {other}, t[other].household.parent>>],
                           t[other].household.sharedWith>>]
    BY DEF MarkOnce
  <2> QED
    BY <1>1, <2>1
<1>2. \A kept \in SUBSET IDs(t), other \in HouseholdID \cup {None} :
         /\ reached[<<kept, other>>] = kept \cup Reach(Needing(t), kept, {other})
         /\ kept \subseteq reached[<<kept, other>>]
         /\ reached[<<kept, other>>] \in SUBSET IDs(t)
  <2> TAKE kept \in SUBSET IDs(t), other \in HouseholdID \cup {None}
  <2>1. reached[<<kept, other>>] = kept \cup Reach(Needing(t), kept, {other})
    BY DEF MarkReached
  <2>2. Reach(Needing(t), kept, {other}) \subseteq DOMAIN Needing(t) \ kept
    BY ReachCloses
  <2> QED
    BY <2>1, <2>2 DEF Needing
<1>3. reached = MarkOnce(t, reached)
  BY ReachedIsMarked
<1> HIDE DEF reached
<1>4. left = {}
  <2> SUFFICES ASSUME left # {}
               PROVE  FALSE
    OBVIOUS
  <2>1. left \in SUBSET (SUBSET IDs(t))
    OBVIOUS
  <2>2. PICK least \in left : \A fewer \in left : fewer \subseteq least => fewer = least
    <3> HIDE DEF left
    <3> QED
      BY <2>1, SmallestSubset
  <2>3. PICK kept \in SUBSET IDs(t) : least = IDs(t) \ kept /\ Differs(kept)
    BY <2>2
  <2>4. PICK other \in HouseholdID \cup {None} : mark[<<kept, other>>] # reached[<<kept, other>>]
    BY <2>3
  <2>5. other \in IDs(t) \ kept
    BY <1>1, <1>3, <2>4
  <2> DEFINE p == t[other].household.parent
             s == t[other].household.sharedWith
             more == kept \cup {other}
             first == reached[<<more, p>>]
  <2>6. p \in HouseholdID \cup {None} /\ s \in HouseholdID \cup {None}
    BY <2>5, NeedsAre
  <2>7. \A further \in SUBSET IDs(t) : more \subseteq further => ~ Differs(further)
    <3> SUFFICES ASSUME NEW further \in SUBSET IDs(t), more \subseteq further, Differs(further)
                 PROVE  FALSE
      OBVIOUS
    <3> HIDE DEF Differs
    <3>1. IDs(t) \ further \in left
      OBVIOUS
    <3>2. IDs(t) \ further \subseteq least /\ IDs(t) \ further # least
      BY <2>3, <2>5
    <3> QED
      BY <2>2, <3>1, <3>2
  <2>8. more \in SUBSET IDs(t) /\ more \subseteq first /\ first \in SUBSET IDs(t)
    <3>1. more \in SUBSET IDs(t)
      BY <2>5
    <3> HIDE DEF more, p
    <3> QED
      BY <1>2, <2>6, <3>1
  <2>9. mark[<<more, p>>] = first
    BY <2>6, <2>7, <2>8
  <2> HIDE DEF first
  <2>10. mark[<<first, s>>] = reached[<<first, s>>]
    BY <2>6, <2>7, <2>8
  <2>11. mark[<<kept, other>>] = mark[<<mark[<<more, p>>], s>>]
    BY <1>1, <2>5
  <2>12. reached[<<kept, other>>] = reached[<<reached[<<more, p>>], s>>]
    BY <1>1, <1>3, <2>5
  <2> QED
    BY <2>4, <2>9, <2>10, <2>11, <2>12 DEF first
<1>5. ~ Differs(keep)
  BY <1>4
<1> QED
  BY <1>2, <1>5

\* mark keeps what is reached.
LEMMA MarkIs ==
    ASSUME NEW t \in TrashOf, IsFiniteSet(IDs(t)),
           NEW keep \in SUBSET IDs(t), NEW id \in HouseholdID \cup {None}
    PROVE  Mark(t)[<<keep, id>>] = keep \cup Reach(Needing(t), keep, {id})
<1> DEFINE chosen == CHOOSE mark : mark = MarkOnce(t, mark)
<1>1. chosen = MarkOnce(t, chosen)
  BY ReachedIsMarked
<1>2. Mark(t) = chosen
  BY DEF Mark, MarkOnce
<1> HIDE DEF chosen
<1> QED
  BY <1>1, <1>2, MarkedOnlyOnce

\* What entries need is what a walk over the entries reaches, and what those need.
LEMMA ClosureIsReached ==
    ASSUME NEW t \in TrashOf, NEW from \in SUBSET HouseholdID
    PROVE  NeedClosure(t, from)
               = from \cup Reach(Needing(t), {}, from)
                      \cup UNION {NeedsOf(t, id) : id \in Reach(Needing(t), {}, from)}
<1> DEFINE next == Needing(t)
           reached == Reach(next, {}, from)
           all == from \cup reached \cup UNION {NeedsOf(t, id) : id \in reached}
           closure == NeedClosure(t, from)
<1>1. /\ DOMAIN next = IDs(t)
      /\ \A id \in IDs(t) : next[id] = NeedsOf(t, id) /\ NeedsOf(t, id) \subseteq HouseholdID
      /\ IDs(t) \subseteq HouseholdID
  BY NeedsAre DEF Needing, IDs
<1>2. /\ closure \subseteq HouseholdID
      /\ from \subseteq closure
      /\ \A id \in closure \cap IDs(t) : NeedsOf(t, id) \subseteq closure
  BY <1>1 DEF NeedClosure
<1> HIDE DEF next
<1>3. /\ reached \subseteq IDs(t)
      /\ from \cap IDs(t) \subseteq reached
      /\ \A id \in reached : NeedsOf(t, id) \cap IDs(t) \subseteq reached
  <2>1. /\ reached \subseteq DOMAIN next \ {}
        /\ (from \cap DOMAIN next) \ {} \subseteq reached
        /\ \A id \in reached : (next[id] \cap DOMAIN next) \ {} \subseteq reached
    BY ReachCloses
  <2> HIDE DEF reached
  <2>2. reached \subseteq IDs(t)
    BY <1>1, <2>1
  <2> QED
    BY <1>1, <2>1, <2>2
<1>4. reached \subseteq closure
  <2> DEFINE xs == closure \cap IDs(t)
  <2>1. (from \cap DOMAIN next) \ {} \subseteq xs
    BY <1>1, <1>2
  <2>2. \A id \in xs : (next[id] \cap DOMAIN next) \ {} \subseteq xs
    BY <1>1, <1>2
  <2> HIDE DEF xs
  <2>3. reached \subseteq xs
    BY <2>1, <2>2, ReachLeast
  <2> QED
    BY <2>3 DEF xs
<1> HIDE DEF reached
<1>5. all \subseteq closure
  BY <1>2, <1>3, <1>4
<1>6. all \in SUBSET HouseholdID
  BY <1>2, <1>5
<1>7. from \subseteq all /\ \A id \in all \cap IDs(t) : NeedsOf(t, id) \subseteq all
  <2> SUFFICES ASSUME NEW id \in all \cap IDs(t)
               PROVE  NeedsOf(t, id) \subseteq all
    OBVIOUS
  <2>1. id \in reached
    BY <1>3
  <2> QED
    BY <2>1
<1> HIDE DEF all
<1>8. closure \subseteq all
  BY <1>6, <1>7 DEF NeedClosure
<1>9. closure = all
  BY <1>5, <1>8
<1> QED
  BY <1>9 DEF closure, all, reached, next

LEMMA ReachedInClosure ==
    ASSUME NEW t \in TrashOf, NEW from \in SUBSET HouseholdID
    PROVE  NeedClosure(t, from) \cap IDs(t) = Reach(Needing(t), {}, from)
<1> DEFINE next == Needing(t)
           reached == Reach(next, {}, from)
<1>1. /\ reached \subseteq DOMAIN next \ {}
      /\ (from \cap DOMAIN next) \ {} \subseteq reached
      /\ \A id \in reached : (next[id] \cap DOMAIN next) \ {} \subseteq reached
  BY ReachCloses
<1>2. DOMAIN next = IDs(t) /\ \A id \in IDs(t) : next[id] = NeedsOf(t, id)
  BY DEF Needing
<1>3. NeedClosure(t, from) = from \cup reached \cup UNION {NeedsOf(t, id) : id \in reached}
  BY ClosureIsReached
<1> HIDE DEF next, reached
<1>4. reached \subseteq IDs(t)
  BY <1>1, <1>2
<1>5. \A id \in reached : NeedsOf(t, id) \cap IDs(t) \subseteq reached
  BY <1>1, <1>2, <1>4
<1>6. NeedClosure(t, from) \cap IDs(t) = reached
  BY <1>1, <1>2, <1>3, <1>4, <1>5
<1> QED
  BY <1>6 DEF next, reached

\* The loop of Purge.
MarkAll(t, now, marked) ==
    [entries \in SUBSET IDs(t) |->
        IF entries = {} THEN {}
        ELSE LET id == CHOOSE id \in entries : TRUE
                 keep == marked[entries \ {id}]
             IN IF now < Expires(t[id]) THEN Mark(t)[<<keep, id>>] ELSE keep]

AllReached(t, now) ==
    [entries \in SUBSET IDs(t) |-> Reach(Needing(t), {}, entries \cap Unexpired(t, now))]

LEMMA AllReachedAreMarked ==
    ASSUME NEW t \in TrashOf, IsFiniteSet(IDs(t)), NEW now
    PROVE  AllReached(t, now) = MarkAll(t, now, AllReached(t, now))
<1> DEFINE next == Needing(t)
           due == Unexpired(t, now)
           reached == AllReached(t, now)
<1>1. \A entries \in SUBSET IDs(t) :
         /\ reached[entries] = Reach(next, {}, entries \cap due)
         /\ reached[entries] \in SUBSET IDs(t)
  <2> TAKE entries \in SUBSET IDs(t)
  <2>1. reached[entries] = Reach(next, {}, entries \cap due)
    BY DEF AllReached
  <2>2. Reach(next, {}, entries \cap due) \subseteq DOMAIN next \ {}
    BY ReachCloses
  <2> QED
    BY <2>1, <2>2 DEF Needing
<1> HIDE DEF reached, next, due
<1>2. ASSUME NEW entries \in SUBSET IDs(t)
      PROVE  reached[entries] = MarkAll(t, now, reached)[entries]
  <2>1. CASE entries = {}
    <3>1. (entries \cap due) \cap DOMAIN next \subseteq {}
      BY <2>1
    <3>2. Reach(next, {}, entries \cap due) = {}
      BY <3>1, ReachNothing
    <3> QED
      BY <1>1, <2>1, <3>2 DEF MarkAll
  <2>2. CASE entries # {}
    <3> DEFINE id == CHOOSE id \in entries : TRUE
               before == entries \ {id}
               keep == reached[before]
    <3>1. id \in entries /\ before \in SUBSET IDs(t) /\ id \in HouseholdID \cup {None}
      BY <2>2 DEF IDs
    <3>2. MarkAll(t, now, reached)[entries]
             = IF now < Expires(t[id]) THEN Mark(t)[<<keep, id>>] ELSE keep
      BY <2>2 DEF MarkAll
    <3>3. id \in due <=> now < Expires(t[id])
      BY <3>1 DEF due, Unexpired
    <3>4. before = entries \ {id}
      OBVIOUS
    <3> HIDE DEF id, before
    <3>5. keep = Reach(next, {}, before \cap due) /\ keep \in SUBSET IDs(t)
      BY <1>1, <3>1
    <3> HIDE DEF keep
    <3>6. CASE id \in due
      <4>1. Mark(t)[<<keep, id>>] = keep \cup Reach(next, keep, {id})
        BY <3>1, <3>5, MarkIs DEF next
      <4>2. entries \cap due = (before \cap due) \cup {id}
        BY <3>1, <3>4, <3>6
      <4>3. Reach(next, {}, (before \cap due) \cup {id}) = keep \cup Reach(next, {} \cup keep, {id})
        <5> DEFINE from == before \cap due
                   other == {id}
                   none == {}
        <5> HIDE DEF from, other, none
        <5>1. Reach(next, none, from \cup other)
                 = Reach(next, none, from) \cup Reach(next, none \cup Reach(next, none, from), other)
          BY ReachBoth
        <5> QED
          BY <3>5, <5>1 DEF from, other, none
      <4>4. {} \cup keep = keep
        OBVIOUS
      <4>5. reached[entries] = Mark(t)[<<keep, id>>]
        BY <1>1, <4>1, <4>2, <4>3, <4>4
      <4> QED
        BY <3>2, <3>3, <3>6, <4>5 DEF keep, before
    <3>7. CASE id \notin due
      <4>1. entries \cap due = before \cap due
        BY <3>4, <3>7
      <4> QED
        BY <1>1, <3>2, <3>3, <3>5, <3>7, <4>1
    <3> QED
      BY <3>6, <3>7
  <2> QED
    BY <2>1, <2>2
<1> QED
  BY <1>2 DEF reached, AllReached, MarkAll

LEMMA AllMarkedOnlyOnce ==
    ASSUME NEW t \in TrashOf, IsFiniteSet(IDs(t)), NEW now,
           NEW marked, marked = MarkAll(t, now, marked)
    PROVE  marked[IDs(t)] = Reach(Needing(t), {}, Unexpired(t, now))
<1> DEFINE reached == AllReached(t, now)
           differ == {entries \in SUBSET IDs(t) : marked[entries] # reached[entries]}
<1>1. ASSUME NEW f, f = MarkAll(t, now, f), NEW entries \in SUBSET IDs(t)
      PROVE  f[entries] = IF entries = {} THEN {}
                          ELSE LET id == CHOOSE id \in entries : TRUE
                                   keep == f[entries \ {id}]
                               IN IF now < Expires(t[id]) THEN Mark(t)[<<keep, id>>] ELSE keep
  <2>1. MarkAll(t, now, f)[entries]
           = IF entries = {} THEN {}
             ELSE LET id == CHOOSE id \in entries : TRUE
                      keep == f[entries \ {id}]
                  IN IF now < Expires(t[id]) THEN Mark(t)[<<keep, id>>] ELSE keep
    BY DEF MarkAll
  <2> QED
    BY <1>1, <2>1
<1>2. reached = MarkAll(t, now, reached)
  BY AllReachedAreMarked
<1> HIDE DEF reached
<1>3. differ = {}
  <2> SUFFICES ASSUME differ # {}
               PROVE  FALSE
    OBVIOUS
  <2>1. differ \in SUBSET (SUBSET IDs(t))
    OBVIOUS
  <2>2. PICK least \in differ : \A fewer \in differ : fewer \subseteq least => fewer = least
    <3> HIDE DEF differ
    <3> QED
      BY <2>1, SmallestSubset
  <2>3. least \in SUBSET IDs(t) /\ marked[least] # reached[least]
    OBVIOUS
  <2>4. least # {}
    BY <1>1, <1>2, <2>3
  <2> DEFINE id == CHOOSE id \in least : TRUE
             before == least \ {id}
  <2>5. id \in least /\ before \in SUBSET IDs(t)
    BY <2>3, <2>4
  <2>6. marked[before] = reached[before]
    BY <2>2, <2>5
  <2>7. /\ marked[least] = IF now < Expires(t[id]) THEN Mark(t)[<<marked[before], id>>] ELSE marked[before]
        /\ reached[least] = IF now < Expires(t[id]) THEN Mark(t)[<<reached[before], id>>] ELSE reached[before]
    BY <1>1, <1>2, <2>3, <2>4
  <2> QED
    BY <2>3, <2>6, <2>7
<1>4. marked[IDs(t)] = reached[IDs(t)]
  BY <1>3
<1>5. IDs(t) \cap Unexpired(t, now) = Unexpired(t, now)
  BY DEF Unexpired
<1>6. reached[IDs(t)] = Reach(Needing(t), {}, Unexpired(t, now))
  BY <1>5 DEF reached, AllReached
<1> QED
  BY <1>4, <1>6

\* Purge's walk keeps what Purge keeps.
LEMMA PurgeWalks ==
    ASSUME NEW t \in TrashOf, IsFiniteSet(IDs(t)), NEW now
    PROVE  PurgeWalk(t, now) = Purge(t, now)
<1> DEFINE chosen == CHOOSE marked : marked = MarkAll(t, now, marked)
           closure == NeedClosure(t, Unexpired(t, now))
<1>1. chosen = MarkAll(t, now, chosen)
  BY AllReachedAreMarked
<1>2. PurgeWalk(t, now) = Only(t, chosen[IDs(t)])
  BY DEF PurgeWalk, MarkAll
<1> HIDE DEF chosen
<1>3. chosen[IDs(t)] = Reach(Needing(t), {}, Unexpired(t, now))
  BY <1>1, AllMarkedOnlyOnce
<1>4. Unexpired(t, now) \in SUBSET HouseholdID
  BY DEF Unexpired, IDs
<1>5. chosen[IDs(t)] = closure \cap IDs(t)
  BY <1>3, <1>4, ReachedInClosure
<1> HIDE DEF closure
<1>6. Only(t, closure \cap IDs(t)) = Only(t, closure)
  BY DEF Only, IDs
<1> QED
  BY <1>2, <1>5, <1>6 DEF Purge, closure

-----------------------------------------------------------------------------
(* The walk of Chain. *)

\* What the walk goes past is in the Trash and not in the document.
Returning(t, doc) == [id \in IDs(t) \ IDs(doc) |-> NeedsOf(t, id)]

\* Nothing a walk comes to is in neither.
Complete(t, doc, seen, id) ==
    /\ id \in IDs(t) \cup IDs(doc) \cup {None}
    /\ \A other \in Reach(Returning(t, doc), seen, {id}) :
          NeedsOf(t, other) \subseteq IDs(t) \cup IDs(doc)

\* One call of visit.
VisitCall(t, doc, visit, seen, id) ==
    IF id = None \/ id \in IDs(doc) \/ id \in seen THEN seen
    ELSE IF id \notin IDs(t) THEN Unrestorable
    ELSE LET first == visit[<<seen \cup {id}, t[id].household.parent>>] IN
         IF first = Unrestorable THEN Unrestorable
         ELSE visit[<<first, t[id].household.sharedWith>>]

VisitOnce(t, doc, visit) ==
    [walk \in (SUBSET IDs(t)) \X (HouseholdID \cup {None}) |->
        VisitCall(t, doc, visit, walk[1], walk[2])]

VisitReached(t, doc) ==
    [walk \in (SUBSET IDs(t)) \X (HouseholdID \cup {None}) |->
        IF Complete(t, doc, walk[1], walk[2])
        THEN walk[1] \cup Reach(Returning(t, doc), walk[1], {walk[2]})
        ELSE Unrestorable]

LEMMA VisitReachedIs ==
    ASSUME NEW t \in TrashOf, NEW doc,
           NEW seen \in SUBSET IDs(t), NEW id \in HouseholdID \cup {None}
    PROVE  LET answer == VisitReached(t, doc)[<<seen, id>>] IN
           /\ answer = IF Complete(t, doc, seen, id)
                       THEN seen \cup Reach(Returning(t, doc), seen, {id}) ELSE Unrestorable
           /\ answer = Unrestorable <=> ~ Complete(t, doc, seen, id)
           /\ answer # Unrestorable => answer \in SUBSET IDs(t) /\ seen \subseteq answer
<1> DEFINE there == seen \cup Reach(Returning(t, doc), seen, {id})
<1>1. VisitReached(t, doc)[<<seen, id>>]
         = IF Complete(t, doc, seen, id) THEN there ELSE Unrestorable
  BY DEF VisitReached
<1>2. there \in SUBSET IDs(t) /\ seen \subseteq there
  <2>1. Reach(Returning(t, doc), seen, {id}) \subseteq DOMAIN Returning(t, doc) \ seen
    BY ReachCloses
  <2> QED
    BY <2>1 DEF Returning
<1>3. there # Unrestorable
  BY <1>2, NoneAssumption DEF Unrestorable, IDs
<1> HIDE DEF there
<1> QED
  BY <1>1, <1>2, <1>3 DEF there

\* What is reached is what one call makes of it,
LEMMA ReachedIsVisited ==
    ASSUME NEW t \in TrashOf, NEW doc
    PROVE  VisitReached(t, doc) = VisitOnce(t, doc, VisitReached(t, doc))
<1> DEFINE next == Returning(t, doc)
           Walks == (SUBSET IDs(t)) \X (HouseholdID \cup {None})
           reached == VisitReached(t, doc)
           known == IDs(t) \cup IDs(doc)
<1>1. \A seen \in SUBSET IDs(t), id \in HouseholdID \cup {None} :
         /\ reached[<<seen, id>>] = IF Complete(t, doc, seen, id)
                                    THEN seen \cup Reach(next, seen, {id}) ELSE Unrestorable
         /\ reached[<<seen, id>>] = Unrestorable <=> ~ Complete(t, doc, seen, id)
         /\ reached[<<seen, id>>] # Unrestorable => reached[<<seen, id>>] \in SUBSET IDs(t)
  BY VisitReachedIs
<1>2. DOMAIN next = IDs(t) \ IDs(doc) /\ \A id \in DOMAIN next : next[id] = NeedsOf(t, id)
  BY DEF Returning
<1>3. \A seen, id :
         Complete(t, doc, seen, id) <=>
             /\ id \in known \cup {None}
             /\ \A other \in Reach(next, seen, {id}) : NeedsOf(t, other) \subseteq known
  BY DEF Complete
<1>4. None \notin IDs(t) \cup IDs(doc)
  BY NoneAssumption DEF IDs
<1> HIDE DEF reached, next
<1>5. ASSUME NEW seen \in SUBSET IDs(t), NEW id \in HouseholdID \cup {None}
      PROVE  reached[<<seen, id>>] = VisitCall(t, doc, reached, seen, id)
  <2>1. CASE id = None \/ id \in IDs(doc) \/ id \in seen
    <3>1. Reach(next, seen, {id}) = {}
      <4>1. {id} \cap DOMAIN next \subseteq seen
        BY <1>2, <1>4, <2>1
      <4> QED
        BY <4>1, ReachNothing
    <3>2. Complete(t, doc, seen, id)
      BY <1>3, <2>1, <3>1
    <3>3. reached[<<seen, id>>] = seen \cup {}
      BY <1>1, <3>1, <3>2
    <3> QED
      BY <2>1, <3>3 DEF VisitCall
  <2>2. CASE ~ (id = None \/ id \in IDs(doc) \/ id \in seen) /\ id \notin IDs(t)
    <3>1. ~ Complete(t, doc, seen, id)
      BY <1>3, <2>2
    <3> QED
      BY <1>1, <2>2, <3>1 DEF VisitCall
  <2>3. CASE id \in IDs(t) /\ id \notin IDs(doc) /\ id \notin seen
    <3> DEFINE p == t[id].household.parent
               s == t[id].household.sharedWith
               more == seen \cup {id}
               parent == Reach(next, more, {p})
               first == reached[<<more, p>>]
               shared == Reach(next, more \cup parent, {s})
    <3>1. /\ p \in HouseholdID \cup {None} /\ s \in HouseholdID \cup {None}
          /\ NeedsOf(t, id) = {p, s} \ {None} /\ id # None
      BY <2>3, NeedsAre DEF IDs
    <3>2. Reach(next, seen, {id}) = {id} \cup parent \cup shared
      <4>1. /\ id \in DOMAIN next \ seen
            /\ next[id] = NeedsOf(t, id) /\ DOMAIN next \subseteq IDs(t)
        BY <1>2, <2>3
      <4> QED
        BY <2>3, <4>1, ReachNeeds
    <3>3. more \in SUBSET IDs(t) /\ more = seen \cup {id}
      BY <2>3
    <3> HIDE DEF more, p, s, parent, shared
    <3>4. Complete(t, doc, seen, id) <=>
             /\ {p, s} \ {None} \subseteq known
             /\ \A other \in parent \cup shared : NeedsOf(t, other) \subseteq known
      BY <1>3, <2>3, <3>1, <3>2
    <3>5. Complete(t, doc, more, p) <=>
             /\ p \in known \cup {None}
             /\ \A other \in parent : NeedsOf(t, other) \subseteq known
      BY <1>3 DEF parent
    <3>6. CASE first = Unrestorable
      <4>1. ~ Complete(t, doc, more, p)
        BY <1>1, <3>1, <3>3, <3>6
      <4>2. ~ Complete(t, doc, seen, id)
        BY <3>4, <3>5, <4>1
      <4>3. reached[<<seen, id>>] = Unrestorable
        BY <1>1, <4>2
      <4> QED
        BY <2>3, <3>1, <3>6, <4>3 DEF more, p, VisitCall
    <3>7. CASE first # Unrestorable
      <4>1. Complete(t, doc, more, p)
        BY <1>1, <3>1, <3>3, <3>7
      <4>2. first = more \cup parent /\ first \in SUBSET IDs(t)
        BY <1>1, <3>1, <3>3, <3>7, <4>1 DEF parent
      <4> HIDE DEF first
      <4>3. Complete(t, doc, first, s) <=>
               /\ s \in known \cup {None}
               /\ \A other \in shared : NeedsOf(t, other) \subseteq known
        BY <1>3, <4>2 DEF shared
      <4>4. Complete(t, doc, seen, id) <=> Complete(t, doc, first, s)
        BY <3>4, <3>5, <4>1, <4>3
      <4>5. reached[<<first, s>>] = IF Complete(t, doc, first, s)
                                    THEN first \cup shared ELSE Unrestorable
        BY <1>1, <3>1, <4>2 DEF shared
      <4>6. reached[<<seen, id>>] = IF Complete(t, doc, seen, id)
                                    THEN seen \cup ({id} \cup parent \cup shared) ELSE Unrestorable
        BY <1>1, <3>2
      <4>7. seen \cup ({id} \cup parent \cup shared) = first \cup shared
        BY <3>3, <4>2
      <4>8. reached[<<seen, id>>] = reached[<<first, s>>]
        BY <4>4, <4>5, <4>6, <4>7
      <4> QED
        BY <2>3, <3>1, <3>7, <4>8 DEF first, more, p, s, VisitCall
    <3> QED
      BY <3>6, <3>7
  <2> QED
    BY <2>1, <2>2, <2>3
<1>6. \A walk \in Walks : reached[walk] = VisitOnce(t, doc, reached)[walk]
  BY <1>5 DEF VisitOnce
<1> QED
  BY <1>6 DEF reached, VisitReached, VisitOnce

\* and no other function does that, for every call has seen one more.
LEMMA VisitedOnlyOnce ==
    ASSUME NEW t \in TrashOf, IsFiniteSet(IDs(t)), NEW doc,
           NEW visit, visit = VisitOnce(t, doc, visit),
           NEW seen \in SUBSET IDs(t), NEW id \in HouseholdID \cup {None}
    PROVE  visit[<<seen, id>>] = VisitReached(t, doc)[<<seen, id>>]
<1> DEFINE reached == VisitReached(t, doc)
           Differs(known) == \E other \in HouseholdID \cup {None} :
                                visit[<<known, other>>] # reached[<<known, other>>]
           left == {IDs(t) \ known : known \in {known \in SUBSET IDs(t) : Differs(known)}}
<1>1. ASSUME NEW f, f = VisitOnce(t, doc, f), NEW known \in SUBSET IDs(t),
             NEW other \in HouseholdID \cup {None}
      PROVE  f[<<known, other>>] = VisitCall(t, doc, f, known, other)
  <2>1. VisitOnce(t, doc, f)[<<known, other>>] = VisitCall(t, doc, f, known, other)
    BY DEF VisitOnce
  <2> QED
    BY <1>1, <2>1
<1>2. \A known \in SUBSET IDs(t), other \in HouseholdID \cup {None} :
         reached[<<known, other>>] # Unrestorable =>
             /\ known \subseteq reached[<<known, other>>]
             /\ reached[<<known, other>>] \in SUBSET IDs(t)
  BY VisitReachedIs
<1>3. reached = VisitOnce(t, doc, reached)
  BY ReachedIsVisited
<1> HIDE DEF reached
<1>4. left = {}
  <2> SUFFICES ASSUME left # {}
               PROVE  FALSE
    OBVIOUS
  <2>1. left \in SUBSET (SUBSET IDs(t))
    OBVIOUS
  <2>2. PICK least \in left : \A fewer \in left : fewer \subseteq least => fewer = least
    <3> HIDE DEF left
    <3> QED
      BY <2>1, SmallestSubset
  <2>3. PICK known \in SUBSET IDs(t) : least = IDs(t) \ known /\ Differs(known)
    BY <2>2
  <2>4. PICK other \in HouseholdID \cup {None} : visit[<<known, other>>] # reached[<<known, other>>]
    BY <2>3
  <2>5. other \in IDs(t) /\ other \notin known /\ other \notin IDs(doc) /\ other # None
    <3>1. /\ visit[<<known, other>>] = VisitCall(t, doc, visit, known, other)
          /\ reached[<<known, other>>] = VisitCall(t, doc, reached, known, other)
      BY <1>1, <1>3
    <3>2. VisitCall(t, doc, visit, known, other) # VisitCall(t, doc, reached, known, other)
      BY <2>4, <3>1
    <3> QED
      BY <3>2 DEF VisitCall
  <2> DEFINE p == t[other].household.parent
             s == t[other].household.sharedWith
             more == known \cup {other}
             first == reached[<<more, p>>]
  <2>6. p \in HouseholdID \cup {None} /\ s \in HouseholdID \cup {None}
    BY <2>5, NeedsAre
  <2>7. \A further \in SUBSET IDs(t) : more \subseteq further => ~ Differs(further)
    <3> SUFFICES ASSUME NEW further \in SUBSET IDs(t), more \subseteq further, Differs(further)
                 PROVE  FALSE
      OBVIOUS
    <3> HIDE DEF Differs
    <3>1. IDs(t) \ further \in left
      OBVIOUS
    <3>2. IDs(t) \ further \subseteq least /\ IDs(t) \ further # least
      BY <2>3, <2>5
    <3> QED
      BY <2>2, <3>1, <3>2
  <2>8. more \in SUBSET IDs(t)
    BY <2>5
  <2>9. visit[<<more, p>>] = first
    BY <2>6, <2>7, <2>8
  <2>10. first # Unrestorable => more \subseteq first /\ first \in SUBSET IDs(t)
    <3> HIDE DEF more, p
    <3> QED
      BY <1>2, <2>6, <2>8
  <2> HIDE DEF first
  <2>11. first # Unrestorable => visit[<<first, s>>] = reached[<<first, s>>]
    BY <2>6, <2>7, <2>10
  <2>12. /\ visit[<<known, other>>]
              = IF visit[<<more, p>>] = Unrestorable THEN Unrestorable
                ELSE visit[<<visit[<<more, p>>], s>>]
         /\ reached[<<known, other>>]
              = IF reached[<<more, p>>] = Unrestorable THEN Unrestorable
                ELSE reached[<<reached[<<more, p>>], s>>]
    <3>1. /\ visit[<<known, other>>] = VisitCall(t, doc, visit, known, other)
          /\ reached[<<known, other>>] = VisitCall(t, doc, reached, known, other)
      BY <1>1, <1>3
    <3> QED
      BY <2>5, <3>1 DEF VisitCall
  <2>13. reached[<<more, p>>] = first
    BY DEF first
  <2> HIDE DEF Differs, left, more, p, s
  <2> QED
    BY <2>4, <2>9, <2>11, <2>12, <2>13
<1>5. ~ Differs(seen)
  BY <1>4
<1> QED
  BY <1>5 DEF reached

LEMMA VisitIs ==
    ASSUME NEW t \in TrashOf, IsFiniteSet(IDs(t)), NEW doc,
           NEW seen \in SUBSET IDs(t), NEW id \in HouseholdID \cup {None}
    PROVE  Visit(t, doc)[<<seen, id>>] = VisitReached(t, doc)[<<seen, id>>]
<1> DEFINE chosen == CHOOSE visit : visit = VisitOnce(t, doc, visit)
<1>1. chosen = VisitOnce(t, doc, chosen)
  BY ReachedIsVisited
<1>2. Visit(t, doc) = chosen
  BY DEF Visit, VisitOnce, VisitCall
<1> HIDE DEF chosen
<1> QED
  BY <1>1, <1>2, VisitedOnlyOnce

\* Chain's walk finds what Chain finds, and fails where nothing can be restored.
LEMMA ChainWalks ==
    ASSUME NEW t \in TrashOf, IsFiniteSet(IDs(t)), NEW doc, NEW id \in HouseholdID
    PROVE  ChainWalk(t, doc, id)
               = IF Restorable(t, doc, id) THEN Chain(t, doc, id) ELSE Unrestorable
<1>1. CASE id \notin IDs(t) \/ id \in IDs(doc)
  BY <1>1 DEF ChainWalk, Restorable
<1>2. CASE id \in IDs(t) /\ id \notin IDs(doc)
  <2> DEFINE next == Returning(t, doc)
             r == Reconcile(t, doc)
             reached == Reach(next, {}, {id})
             known == IDs(t) \cup IDs(doc)
             chain == Chain(t, doc, id)
  <2>1. /\ r \in TrashOf /\ IDs(r) = IDs(t) \ IDs(doc)
        /\ \A other \in IDs(r) : NeedsOf(r, other) = NeedsOf(t, other)
    BY DEF Reconcile, Only, IDs, TrashOf, NeedsOf
  <2>2. Needing(r) = next
    BY <2>1 DEF Needing, Returning
  <2>3. /\ reached \subseteq IDs(t) \ IDs(doc)
        /\ id \in reached
        /\ \A other \in reached : NeedsOf(t, other) \cap (IDs(t) \ IDs(doc)) \subseteq reached
    <3>1. DOMAIN next = IDs(t) \ IDs(doc) /\ \A other \in DOMAIN next : next[other] = NeedsOf(t, other)
      BY DEF Returning
    <3>2. /\ reached \subseteq DOMAIN next \ {}
          /\ ({id} \cap DOMAIN next) \ {} \subseteq reached
          /\ \A other \in reached : (next[other] \cap DOMAIN next) \ {} \subseteq reached
      BY ReachCloses
    <3> HIDE DEF reached, next
    <3> QED
      BY <1>2, <3>1, <3>2
  <2>4. NeedClosure(r, {id}) = {id} \cup reached \cup UNION {NeedsOf(r, other) : other \in reached}
    <3>1. NeedClosure(r, {id})
             = {id} \cup Reach(Needing(r), {}, {id})
                    \cup UNION {NeedsOf(r, other) : other \in Reach(Needing(r), {}, {id})}
      <4> DEFINE from == {id}
      <4>1. from \in SUBSET HouseholdID
        OBVIOUS
      <4> HIDE DEF from, r
      <4>2. NeedClosure(r, from)
               = from \cup Reach(Needing(r), {}, from)
                      \cup UNION {NeedsOf(r, other) : other \in Reach(Needing(r), {}, from)}
        BY <2>1, <4>1, ClosureIsReached
      <4> QED
        BY <4>2 DEF from
    <3> HIDE DEF r
    <3> QED
      BY <2>2, <3>1
  <2>5. chain = NeedClosure(r, {id}) \ IDs(doc)
    BY DEF Chain
  <2>6. Complete(t, doc, {}, id) <=> \A other \in reached : NeedsOf(t, other) \subseteq known
    BY <1>2 DEF Complete
  <2>7. ChainWalk(t, doc, id)
           = IF Complete(t, doc, {}, id) THEN {} \cup reached ELSE Unrestorable
    <3>1. ChainWalk(t, doc, id) = Visit(t, doc)[<<{}, id>>]
      BY <1>2 DEF ChainWalk
    <3>2. {} \in SUBSET IDs(t) /\ id \in HouseholdID \cup {None}
      OBVIOUS
    <3>3. Visit(t, doc)[<<{}, id>>] = VisitReached(t, doc)[<<{}, id>>]
      BY <3>2, VisitIs
    <3>4. VisitReached(t, doc)[<<{}, id>>]
             = IF Complete(t, doc, {}, id) THEN {} \cup reached ELSE Unrestorable
      BY <3>2, VisitReachedIs
    <3> QED
      BY <3>1, <3>3, <3>4
  <2>8. Restorable(t, doc, id) <=> chain \subseteq IDs(t)
    BY <1>2 DEF Restorable
  <2> HIDE DEF reached, r, chain, next
  <2>9. chain = (reached \cup UNION {NeedsOf(t, other) : other \in reached}) \ IDs(doc)
    <3>1. \A other \in reached : NeedsOf(r, other) = NeedsOf(t, other)
      BY <2>1, <2>3
    <3> QED
      BY <2>3, <2>4, <2>5, <3>1
  <2>10. chain \subseteq IDs(t) <=> \A other \in reached : NeedsOf(t, other) \subseteq known
    BY <2>3, <2>9
  <2>11. (\A other \in reached : NeedsOf(t, other) \subseteq known) => chain = reached
    BY <2>3, <2>9
  <2>12. {} \cup reached = reached
    OBVIOUS
  <2> QED
    BY <2>6, <2>7, <2>8, <2>10, <2>11, <2>12 DEF chain
<1> QED
  BY <1>1, <1>2

-----------------------------------------------------------------------------
(* The walk of KeptUntil. *)

\* What needs an entry is next to it.
Holding(t) == [id \in IDs(t) |-> {other \in IDs(t) : id \in NeedsOf(t, other)}]

IsLatest(t, ids, date) ==
    /\ date \in Nat
    /\ \A id \in ids : Expires(t[id]) <= date
    /\ date = 0 \/ \E id \in ids : date = Expires(t[id])

LatestOf(t, ids) == CHOOSE date : IsLatest(t, ids, date)

LEMMA ExpiresLater ==
    ASSUME NEW t \in TrashOf, NEW id \in IDs(t)
    PROVE  Expires(t[id]) \in Nat /\ Expires(t[id]) > 0
<1>1. t[id] \in Entry
  BY DEF IDs, TrashOf
<1>2. t[id].deletedAt \in Nat
  BY <1>1 DEF Entry
<1> QED
  BY <1>2, RetentionAssumption DEF Expires

LEMMA LatestIs ==
    ASSUME NEW t \in TrashOf, NEW ids \in SUBSET IDs(t), NEW date, IsLatest(t, ids, date)
    PROVE  LatestOf(t, ids) = date
<1>1. \A other : IsLatest(t, ids, other) => other = date
  <2> SUFFICES ASSUME NEW other, IsLatest(t, ids, other)
               PROVE  other = date
    OBVIOUS
  <2>1. other \in Nat /\ date \in Nat
    BY DEF IsLatest
  <2>2. other <= date
    BY <2>1 DEF IsLatest
  <2>3. date <= other
    BY <2>1 DEF IsLatest
  <2> QED
    BY <2>1, <2>2, <2>3
<1> QED
  BY <1>1 DEF LatestOf

\* The latest of two sets of entries.
LEMMA LatestOfBoth ==
    ASSUME NEW t \in TrashOf, NEW ids \in SUBSET IDs(t), NEW others \in SUBSET IDs(t),
           NEW date, IsLatest(t, ids, date), NEW other, IsLatest(t, others, other)
    PROVE  IsLatest(t, ids \cup others, Later(date, other))
<1>1. date \in Nat /\ other \in Nat
  BY DEF IsLatest
<1>2. \A id \in ids \cup others : Expires(t[id]) \in Nat
  BY ExpiresLater
<1>3. CASE date < other
  <2>1. Later(date, other) = other
    BY <1>3 DEF Later
  <2>2. \A id \in ids : Expires(t[id]) <= other
    BY <1>1, <1>2, <1>3 DEF IsLatest
  <2> QED
    BY <2>1, <2>2 DEF IsLatest
<1>4. CASE ~ (date < other)
  <2>1. Later(date, other) = date
    BY <1>4 DEF Later
  <2>2. \A id \in others : Expires(t[id]) <= date
    BY <1>1, <1>2, <1>4 DEF IsLatest
  <2> QED
    BY <2>1, <2>2 DEF IsLatest
<1> QED
  BY <1>3, <1>4

LEMMA LatestOfOne ==
    ASSUME NEW t \in TrashOf, NEW id \in IDs(t)
    PROVE  IsLatest(t, {id}, Expires(t[id]))
  BY ExpiresLater DEF IsLatest

LEMMA LatestOfNone ==
    ASSUME NEW t \in TrashOf
    PROVE  IsLatest(t, {}, 0)
  BY DEF IsLatest

LEMMA LatestExists ==
    ASSUME NEW t \in TrashOf, IsFiniteSet(IDs(t)), NEW ids \in SUBSET IDs(t)
    PROVE  IsLatest(t, ids, LatestOf(t, ids))
<1> DEFINE without == {some \in SUBSET IDs(t) : ~ \E date : IsLatest(t, some, date)}
<1>1. without = {}
  <2> SUFFICES ASSUME without # {}
               PROVE  FALSE
    OBVIOUS
  <2>1. without \in SUBSET (SUBSET IDs(t))
    OBVIOUS
  <2>2. PICK least \in without : \A fewer \in without : fewer \subseteq least => fewer = least
    <3> HIDE DEF without
    <3> QED
      BY <2>1, SmallestSubset
  <2>3. least \in SUBSET IDs(t) /\ ~ \E date : IsLatest(t, least, date)
    OBVIOUS
  <2>4. least # {}
    BY <2>3, LatestOfNone
  <2>5. PICK id \in least : TRUE
    BY <2>4
  <2> DEFINE before == least \ {id}
  <2>6. before \in SUBSET IDs(t) /\ before # least /\ before \subseteq least
    BY <2>3, <2>5
  <2>7. PICK date : IsLatest(t, before, date)
    BY <2>2, <2>6
  <2>8. least = {id} \cup before /\ {id} \in SUBSET IDs(t) /\ id \in IDs(t)
    BY <2>3, <2>5
  <2> HIDE DEF before, without
  <2>9. IsLatest(t, {id}, Expires(t[id]))
    BY <2>8, LatestOfOne
  <2>10. IsLatest(t, {id} \cup before, Later(Expires(t[id]), date))
    BY <2>6, <2>7, <2>8, <2>9, LatestOfBoth
  <2> QED
    BY <2>3, <2>8, <2>10
<1>2. \E date : IsLatest(t, ids, date)
  BY <1>1
<1> QED
  BY <1>2 DEF LatestOf

LEMMA LatestOfUnion ==
    ASSUME NEW t \in TrashOf, IsFiniteSet(IDs(t)),
           NEW ids \in SUBSET IDs(t), NEW others \in SUBSET IDs(t)
    PROVE  LatestOf(t, ids \cup others) = Later(LatestOf(t, ids), LatestOf(t, others))
<1>1. IsLatest(t, ids, LatestOf(t, ids)) /\ IsLatest(t, others, LatestOf(t, others))
  BY LatestExists
<1>2. IsLatest(t, ids \cup others, Later(LatestOf(t, ids), LatestOf(t, others)))
  BY <1>1, LatestOfBoth
<1>3. ids \cup others \in SUBSET IDs(t)
  OBVIOUS
<1> QED
  BY <1>2, <1>3, LatestIs

\* One call of latest, for the first of some entries and then for the others.
LatestFrom(t, latest, seen, id) ==
    IF id \in seen THEN [seen |-> seen, best |-> 0]
    ELSE [latest[<<seen \cup {id}, {other \in IDs(t) : id \in NeedsOf(t, other)}>>]
             EXCEPT !.best = Later(Expires(t[id]), @)]

LatestThen(here, rest) == [rest EXCEPT !.best = Later(here.best, @)]

LatestCall(t, latest, seen, entries) ==
    LET id == CHOOSE id \in entries : TRUE
        here == LatestFrom(t, latest, seen, id)
    IN IF entries = {} THEN [seen |-> seen, best |-> 0]
       ELSE LatestThen(here, latest[<<here.seen, entries \ {id}>>])

LatestOnce(t, latest) ==
    [walk \in (SUBSET IDs(t)) \X (SUBSET IDs(t)) |-> LatestCall(t, latest, walk[1], walk[2])]

\* What is found on a walk over some entries.
LatestFound(t, seen, entries) ==
    LET found == Reach(Holding(t), seen, entries) IN
    [seen |-> seen \cup found, best |-> LatestOf(t, found)]

LatestReached(t) ==
    [walk \in (SUBSET IDs(t)) \X (SUBSET IDs(t)) |-> LatestFound(t, walk[1], walk[2])]

LEMMA HoldingReaches ==
    ASSUME NEW t, NEW seen \in SUBSET IDs(t), NEW entries
    PROVE  /\ Reach(Holding(t), seen, entries) \in SUBSET IDs(t)
           /\ seen \cup Reach(Holding(t), seen, entries) \in SUBSET IDs(t)
<1>1. Reach(Holding(t), seen, entries) \subseteq DOMAIN Holding(t) \ seen
  BY ReachCloses
<1> QED
  BY <1>1 DEF Holding

\* What is found from one entry on.
LEMMA LatestHere ==
    ASSUME NEW t \in TrashOf, IsFiniteSet(IDs(t)), NEW latest,
           NEW seen \in SUBSET IDs(t), NEW id \in IDs(t),
           id \notin seen =>
               latest[<<seen \cup {id}, Holding(t)[id]>>] = LatestFound(t, seen \cup {id}, Holding(t)[id])
    PROVE  LatestFrom(t, latest, seen, id) = LatestFound(t, seen, {id})
<1> DEFINE next == Holding(t)
           one == {id}
           found == Reach(next, seen, one)
           above == latest[<<seen \cup {id}, next[id]>>]
<1>1. found \in SUBSET IDs(t)
  BY HoldingReaches
<1>2. LatestFound(t, seen, {id}) = [seen |-> seen \cup found, best |-> LatestOf(t, found)]
  BY DEF LatestFound
<1>3. CASE id \in seen
  <2>1. found = {}
    <3>1. one \cap DOMAIN next \subseteq seen
      BY <1>3
    <3> HIDE DEF one, next
    <3> QED
      BY <3>1, ReachNothing
  <2>2. LatestOf(t, {}) = 0
    BY LatestOfNone, LatestIs
  <2>3. seen \cup {} = seen
    OBVIOUS
  <2> HIDE DEF found
  <2> QED
    BY <1>2, <1>3, <2>1, <2>2, <2>3 DEF LatestFrom
<1>4. CASE id \notin seen
  <2> DEFINE more == seen \cup {id}
             beyond == Reach(next, more, next[id])
  <2>1. above = LatestFound(t, more, next[id])
    BY <1>4
  <2>2. LatestFound(t, more, next[id]) = [seen |-> more \cup beyond, best |-> LatestOf(t, beyond)]
    BY DEF LatestFound
  <2>3. more \in SUBSET IDs(t)
    OBVIOUS
  <2>4. beyond \in SUBSET IDs(t)
    <3> HIDE DEF more
    <3> QED
      BY <2>3, HoldingReaches
  <2>5. found = {id} \cup beyond
    <3>1. id \in DOMAIN next \ seen
      BY <1>4 DEF Holding
    <3> HIDE DEF next
    <3> QED
      BY <3>1, ReachOne
  <2>6. seen \cup found = more \cup beyond
    <3> HIDE DEF found, beyond
    <3> QED
      BY <2>5
  <2>7. LatestOf(t, found) = Later(Expires(t[id]), LatestOf(t, beyond))
    <3>1. LatestOf(t, one) = Expires(t[id])
      BY LatestOfOne, LatestIs
    <3>2. one \in SUBSET IDs(t)
      OBVIOUS
    <3>3. found = one \cup beyond
      BY <2>5
    <3> HIDE DEF one, found, beyond
    <3>4. LatestOf(t, one \cup beyond) = Later(LatestOf(t, one), LatestOf(t, beyond))
      BY <2>4, <3>2, LatestOfUnion
    <3> QED
      BY <3>1, <3>3, <3>4
  <2> HIDE DEF found, beyond, more, next, above
  <2>8. [above EXCEPT !.best = Later(Expires(t[id]), @)]
           = [seen |-> more \cup beyond, best |-> Later(Expires(t[id]), LatestOf(t, beyond))]
    BY <2>1, <2>2
  <2>9. [above EXCEPT !.best = Later(Expires(t[id]), @)] = LatestFound(t, seen, {id})
    BY <1>2, <2>6, <2>7, <2>8
  <2>10. {other \in IDs(t) : id \in NeedsOf(t, other)} = next[id]
    BY DEF next, Holding
  <2> QED
    BY <1>4, <2>9, <2>10 DEF above, LatestFrom
<1> QED
  BY <1>3, <1>4

\* One is visited, then the others.
LEMMA ReachFirst ==
    ASSUME NEW next, NEW keep, NEW from, NEW x \in from
    PROVE  Reach(next, keep, from)
               = Reach(next, keep, {x})
                     \cup Reach(next, keep \cup Reach(next, keep, {x}), from \ {x})
<1> DEFINE one == {x}
           others == from \ {x}
<1>1. from = one \cup others
  OBVIOUS
<1> HIDE DEF one, others
<1>2. Reach(next, keep, one \cup others)
         = Reach(next, keep, one) \cup Reach(next, keep \cup Reach(next, keep, one), others)
  BY ReachBoth
<1>3. Reach(next, keep, from)
         = Reach(next, keep, one) \cup Reach(next, keep \cup Reach(next, keep, one), others)
  BY <1>1, <1>2
<1> QED
  BY <1>3 DEF one, others

\* What is found from one entry on and then from others.
LEMMA LatestRest ==
    ASSUME NEW t \in TrashOf, IsFiniteSet(IDs(t)),
           NEW seen \in SUBSET IDs(t), NEW entries \in SUBSET IDs(t), NEW id \in entries
    PROVE  LET here == LatestFound(t, seen, {id})
               rest == LatestFound(t, here.seen, entries \ {id})
           IN LatestThen(here, rest) = LatestFound(t, seen, entries)
<1>0. Reach(Holding(t), seen, entries)
         = Reach(Holding(t), seen, {id})
               \cup Reach(Holding(t), seen \cup Reach(Holding(t), seen, {id}), entries \ {id})
  BY ReachFirst
<1> DEFINE next == Holding(t)
           one == {id}
           others == entries \ {id}
           first == Reach(next, seen, one)
           second == Reach(next, seen \cup first, others)
           here == LatestFound(t, seen, {id})
           rest == LatestFound(t, here.seen, entries \ {id})
<1>1. first \in SUBSET IDs(t) /\ seen \cup first \in SUBSET IDs(t)
  BY HoldingReaches
<1>2. here = [seen |-> seen \cup first, best |-> LatestOf(t, first)]
  BY DEF LatestFound
<1>3. Reach(next, seen, entries) = first \cup second
  BY <1>0
<1> HIDE DEF here, first, one
<1>5. rest = [seen |-> (seen \cup first) \cup second, best |-> LatestOf(t, second)]
  BY <1>2 DEF LatestFound
<1>6. second \in SUBSET IDs(t)
  BY <1>1, HoldingReaches
<1> HIDE DEF rest, others, second
<1>7. LatestOf(t, first \cup second) = Later(LatestOf(t, first), LatestOf(t, second))
  BY <1>1, <1>6, LatestOfUnion
<1>8. LatestFound(t, seen, entries)
         = [seen |-> seen \cup (first \cup second), best |-> LatestOf(t, first \cup second)]
  BY <1>3 DEF LatestFound
<1>9. [rest EXCEPT !.best = Later(here.best, @)]
         = [seen |-> (seen \cup first) \cup second, best |-> Later(LatestOf(t, first), LatestOf(t, second))]
  BY <1>2, <1>5
<1>10. (seen \cup first) \cup second = seen \cup (first \cup second)
  OBVIOUS
<1>11. [rest EXCEPT !.best = Later(here.best, @)] = LatestFound(t, seen, entries)
  BY <1>7, <1>8, <1>9, <1>10
<1> QED
  BY <1>11 DEF rest, here, LatestThen

\* What is found is what one call makes of it,
LEMMA FoundIsLatest ==
    ASSUME NEW t \in TrashOf, IsFiniteSet(IDs(t))
    PROVE  LatestReached(t) = LatestOnce(t, LatestReached(t))
<1> DEFINE reached == LatestReached(t)
           Walks == (SUBSET IDs(t)) \X (SUBSET IDs(t))
<1>1. \A seen \in SUBSET IDs(t), entries \in SUBSET IDs(t) :
         reached[<<seen, entries>>] = LatestFound(t, seen, entries)
  BY DEF LatestReached
<1> HIDE DEF reached
<1>2. ASSUME NEW seen \in SUBSET IDs(t), NEW entries \in SUBSET IDs(t)
      PROVE  reached[<<seen, entries>>] = LatestCall(t, reached, seen, entries)
  <2>1. CASE entries = {}
    <3>1. Reach(Holding(t), seen, entries) = {}
      <4>1. entries \cap DOMAIN Holding(t) \subseteq seen
        BY <2>1
      <4> QED
        BY <4>1, ReachNothing
    <3>2. LatestOf(t, {}) = 0
      BY LatestOfNone, LatestIs
    <3>3. seen \cup {} = seen
      OBVIOUS
    <3>4. LatestFound(t, seen, entries) = [seen |-> seen, best |-> 0]
      BY <3>1, <3>2, <3>3 DEF LatestFound
    <3> QED
      BY <1>1, <2>1, <3>4 DEF LatestCall
  <2>2. CASE entries # {}
    <3> DEFINE id == CHOOSE id \in entries : TRUE
               here == LatestFrom(t, reached, seen, id)
               rest == reached[<<here.seen, entries \ {id}>>]
    <3>1. id \in entries /\ id \in IDs(t)
      BY <2>2
    <3>2. LatestCall(t, reached, seen, entries) = LatestThen(here, rest)
      BY <2>2 DEF LatestCall
    <3> HIDE DEF id
    <3>3. seen \cup {id} \in SUBSET IDs(t) /\ Holding(t)[id] \in SUBSET IDs(t)
      BY <3>1 DEF Holding
    <3>4. reached[<<seen \cup {id}, Holding(t)[id]>>] = LatestFound(t, seen \cup {id}, Holding(t)[id])
      BY <1>1, <3>3
    <3>5. here = LatestFound(t, seen, {id})
      BY <3>1, <3>4, LatestHere
    <3> HIDE DEF here
    <3>6. here.seen \in SUBSET IDs(t)
      <4>1. here.seen = seen \cup Reach(Holding(t), seen, {id})
        BY <3>5 DEF LatestFound
      <4> QED
        BY <4>1, HoldingReaches
    <3>7. rest = LatestFound(t, here.seen, entries \ {id})
      <4>1. entries \ {id} \in SUBSET IDs(t)
        OBVIOUS
      <4> QED
        BY <1>1, <3>6, <4>1
    <3>8. LatestThen(here, rest) = LatestFound(t, seen, entries)
      BY <3>1, <3>5, <3>7, LatestRest
    <3> QED
      BY <1>1, <3>2, <3>8
  <2> QED
    BY <2>1, <2>2
<1>3. \A walk \in Walks : reached[walk] = LatestOnce(t, reached)[walk]
  BY <1>2 DEF LatestOnce
<1> QED
  BY <1>3 DEF reached, LatestReached, LatestOnce

\* and no other function does that, for every call has seen one more or has one
\* entry less to go to.
LEMMA LatestOnlyOnce ==
    ASSUME NEW t \in TrashOf, IsFiniteSet(IDs(t)),
           NEW latest, latest = LatestOnce(t, latest),
           NEW seen \in SUBSET IDs(t), NEW entries \in SUBSET IDs(t)
    PROVE  latest[<<seen, entries>>] = LatestFound(t, seen, entries)
<1> DEFINE Differs(known, some) == latest[<<known, some>>] # LatestFound(t, known, some)
           left == {IDs(t) \ known : known \in {known \in SUBSET IDs(t) :
                                                   \E some \in SUBSET IDs(t) : Differs(known, some)}}
<1>1. \A known \in SUBSET IDs(t), some \in SUBSET IDs(t) :
         latest[<<known, some>>] = LatestCall(t, latest, known, some)
  <2> TAKE known \in SUBSET IDs(t), some \in SUBSET IDs(t)
  <2>1. LatestOnce(t, latest)[<<known, some>>] = LatestCall(t, latest, known, some)
    BY DEF LatestOnce
  <2> QED
    BY <2>1
<1>2. left = {}
  <2> SUFFICES ASSUME left # {}
               PROVE  FALSE
    OBVIOUS
  <2>1. left \in SUBSET (SUBSET IDs(t))
    OBVIOUS
  <2>2. PICK least \in left : \A fewer \in left : fewer \subseteq least => fewer = least
    <3> HIDE DEF left
    <3> QED
      BY <2>1, SmallestSubset
  <2>3. PICK known \in SUBSET IDs(t) :
           least = IDs(t) \ known /\ \E some \in SUBSET IDs(t) : Differs(known, some)
    BY <2>2
  <2> DEFINE differ == {some \in SUBSET IDs(t) : Differs(known, some)}
  <2>4. PICK some \in differ : \A fewer \in differ : fewer \subseteq some => fewer = some
    <3>1. differ \in SUBSET (SUBSET IDs(t)) /\ differ # {}
      BY <2>3
    <3> HIDE DEF differ
    <3> QED
      BY <3>1, SmallestSubset
  <2>5. some \in SUBSET IDs(t) /\ Differs(known, some)
    OBVIOUS
  <2>6. \A further, others \in SUBSET IDs(t) :
           known \subseteq further /\ further # known => ~ Differs(further, others)
    <3> SUFFICES ASSUME NEW further \in SUBSET IDs(t), NEW others \in SUBSET IDs(t),
                        known \subseteq further, further # known, Differs(further, others)
                 PROVE  FALSE
      OBVIOUS
    <3> HIDE DEF Differs
    <3>1. IDs(t) \ further \in left
      OBVIOUS
    <3>2. IDs(t) \ further \subseteq least /\ IDs(t) \ further # least
      BY <2>3
    <3> HIDE DEF left
    <3> QED
      BY <2>2, <3>1, <3>2
  <2>7. \A others \in SUBSET IDs(t) : others \subseteq some /\ others # some => ~ Differs(known, others)
    BY <2>4
  <2> HIDE DEF Differs, left, differ
  <2>8. LatestCall(t, latest, known, some) = LatestFound(t, known, some)
    <3>1. CASE some = {}
      <4>1. Reach(Holding(t), known, some) = {}
        <5>1. some \cap DOMAIN Holding(t) \subseteq known
          BY <3>1
        <5> QED
          BY <5>1, ReachNothing
      <4>2. LatestOf(t, {}) = 0
        BY LatestOfNone, LatestIs
      <4>3. known \cup {} = known
        OBVIOUS
      <4>4. LatestFound(t, known, some) = [seen |-> known, best |-> 0]
        BY <4>1, <4>2, <4>3 DEF LatestFound
      <4> QED
        BY <3>1, <4>4 DEF LatestCall
    <3>2. CASE some # {}
      <4> DEFINE id == CHOOSE id \in some : TRUE
                 here == LatestFrom(t, latest, known, id)
                 rest == latest[<<here.seen, some \ {id}>>]
      <4>1. id \in some /\ id \in IDs(t)
        BY <2>5, <3>2
      <4>2. LatestCall(t, latest, known, some) = LatestThen(here, rest)
        BY <3>2 DEF LatestCall
      <4> HIDE DEF id
      <4>3. known \cup {id} \in SUBSET IDs(t) /\ Holding(t)[id] \in SUBSET IDs(t)
        BY <4>1 DEF Holding
      <4>4. id \notin known =>
               latest[<<known \cup {id}, Holding(t)[id]>>]
                   = LatestFound(t, known \cup {id}, Holding(t)[id])
        BY <2>6, <4>3 DEF Differs
      <4>5. here = LatestFound(t, known, {id})
        BY <4>1, <4>4, LatestHere
      <4> HIDE DEF here
      <4>6. here.seen \in SUBSET IDs(t) /\ known \subseteq here.seen
        <5>1. here.seen = known \cup Reach(Holding(t), known, {id})
          BY <4>5 DEF LatestFound
        <5> QED
          BY <5>1, HoldingReaches
      <4>7. some \ {id} \in SUBSET IDs(t) /\ some \ {id} \subseteq some /\ some \ {id} # some
        BY <2>5, <4>1
      <4>8. ~ Differs(here.seen, some \ {id})
        BY <2>6, <2>7, <4>6, <4>7
      <4>9. rest = LatestFound(t, here.seen, some \ {id})
        BY <4>8 DEF Differs
      <4>10. LatestThen(here, rest) = LatestFound(t, known, some)
        BY <2>5, <4>1, <4>5, <4>9, LatestRest
      <4> QED
        BY <4>2, <4>10
    <3> QED
      BY <3>1, <3>2
  <2> QED
    BY <1>1, <2>5, <2>8 DEF Differs
<1>3. ~ Differs(seen, entries)
  BY <1>2
<1> QED
  BY <1>3

\* The walk from id against what needs is what it takes to need id.
LEMMA HoldersAreReached ==
    ASSUME NEW t \in TrashOf, NEW id \in IDs(t)
    PROVE  {other \in IDs(t) : id \in NeedClosure(t, {other})} = Reach(Holding(t), {}, {id})
<1> DEFINE next == Holding(t)
           found == Reach(next, {}, {id})
           holders == {other \in IDs(t) : id \in NeedClosure(t, {other})}
<1>1. /\ DOMAIN next = IDs(t) /\ IDs(t) \subseteq HouseholdID
      /\ \A other \in IDs(t) : next[other] = {holder \in IDs(t) : other \in NeedsOf(t, holder)}
      /\ \A other \in IDs(t) : NeedsOf(t, other) \subseteq HouseholdID
  BY NeedsAre DEF Holding, IDs
<1>2. /\ found \subseteq IDs(t) /\ id \in found
      /\ \A other \in found : next[other] \cap IDs(t) \subseteq found
  <2>1. /\ found \subseteq DOMAIN next \ {}
        /\ ({id} \cap DOMAIN next) \ {} \subseteq found
        /\ \A other \in found : (next[other] \cap DOMAIN next) \ {} \subseteq found
    BY ReachCloses
  <2> HIDE DEF found, next
  <2> QED
    BY <1>1, <2>1
<1>3. found \subseteq holders
  <2>1. ({id} \cap DOMAIN next) \ {} \subseteq holders
    BY DEF NeedClosure, IDs
  <2>2. ASSUME NEW other \in holders, NEW holder \in next[other] \cap DOMAIN next
        PROVE  holder \in holders
    <3>1. other \in IDs(t) /\ holder \in IDs(t) /\ other \in NeedsOf(t, holder)
      BY <1>1, <2>2
    <3>2. id \in NeedClosure(t, {other})
      BY <2>2
    <3>3. id \in NeedClosure(t, {holder})
      BY <3>1, <3>2 DEF NeedClosure
    <3> QED
      BY <3>1, <3>3
  <2>3. \A other \in holders : (next[other] \cap DOMAIN next) \ {} \subseteq holders
    BY <2>2
  <2> HIDE DEF holders, next
  <2> QED
    BY <2>1, <2>3, ReachLeast
<1> HIDE DEF found, next
<1>4. ASSUME NEW other \in IDs(t), other \notin found
      PROVE  id \notin NeedClosure(t, {other})
  <2> DEFINE beside == HouseholdID \ found
  <2>1. beside \in SUBSET HouseholdID /\ {other} \subseteq beside /\ id \notin beside
    BY <1>1, <1>2, <1>4
  <2>2. \A holder \in beside \cap IDs(t) : NeedsOf(t, holder) \subseteq beside
    <3> SUFFICES ASSUME NEW holder \in beside \cap IDs(t), NEW need \in NeedsOf(t, holder),
                        need \in found
                 PROVE  FALSE
      BY <1>1
    <3>1. holder \in next[need] \cap IDs(t)
      BY <1>1, <1>2
    <3> QED
      BY <1>2, <3>1
  <2> HIDE DEF beside
  <2> QED
    BY <2>1, <2>2 DEF NeedClosure
<1>5. holders = found
  BY <1>3, <1>4
<1> QED
  BY <1>5 DEF holders, found, next

\* The walk finds the date that Recently deleted shows.
LEMMA KeptUntilWalks ==
    ASSUME NEW t \in TrashOf, IsFiniteSet(IDs(t)), NEW id \in IDs(t)
    PROVE  KeptUntilWalk(t, id) = KeptUntil(t, id)
<1> DEFINE chosen == CHOOSE latest : latest = LatestOnce(t, latest)
           found == Reach(Holding(t), {}, {id})
           dates == {Expires(t[other]) : other \in found}
<1>1. chosen = LatestOnce(t, chosen)
  BY FoundIsLatest
<1>2. Latest(t) = chosen
  BY DEF Latest, LatestOnce, LatestCall, LatestFrom, LatestThen
<1> HIDE DEF chosen
<1>3. {} \in SUBSET IDs(t) /\ {id} \in SUBSET IDs(t)
  OBVIOUS
<1>4. KeptUntilWalk(t, id) = LatestOf(t, found)
  <2>1. chosen[<<{}, {id}>>] = LatestFound(t, {}, {id})
    BY <1>1, <1>3, LatestOnlyOnce
  <2>2. LatestFound(t, {}, {id}).best = LatestOf(t, found)
    BY DEF LatestFound
  <2> QED
    BY <1>2, <2>1, <2>2 DEF KeptUntilWalk
<1>5. found \in SUBSET IDs(t)
  BY <1>3, HoldingReaches
<1>6. {other \in IDs(t) : id \in NeedClosure(t, {other})} = found
  BY HoldersAreReached
<1>7. id \in found
  BY <1>6 DEF NeedClosure, IDs
<1>8. KeptUntil(t, id)
         = CHOOSE date \in dates : \A other \in found : Expires(t[other]) <= date
  BY <1>6 DEF KeptUntil
<1>9. IsLatest(t, found, LatestOf(t, found))
  BY <1>5, LatestExists
<1> HIDE DEF found
<1> DEFINE best == LatestOf(t, found)
<1>10. best \in dates /\ \A other \in found : Expires(t[other]) <= best
  <2>1. best \in Nat /\ Expires(t[id]) <= best /\ Expires(t[id]) \in Nat /\ Expires(t[id]) > 0
    BY <1>7, <1>9, ExpiresLater DEF IsLatest
  <2>2. best # 0
    BY <2>1
  <2> QED
    BY <1>9, <2>2 DEF IsLatest
<1>11. \A date \in dates : (\A other \in found : Expires(t[other]) <= date) => date = best
  <2> SUFFICES ASSUME NEW date \in dates, \A other \in found : Expires(t[other]) <= date
               PROVE  date = best
    OBVIOUS
  <2>1. PICK other \in found : date = Expires(t[other])
    OBVIOUS
  <2>2. PICK last \in found : best = Expires(t[last])
    BY <1>10
  <2>3. date \in Nat /\ best \in Nat
    BY <1>5, <2>1, <2>2, ExpiresLater
  <2>4. best <= date /\ date <= best
    BY <1>10, <2>1, <2>2
  <2> QED
    BY <2>3, <2>4
<1> HIDE DEF best, dates
<1>12. (CHOOSE date \in dates : \A other \in found : Expires(t[other]) <= date) = best
  BY <1>10, <1>11
<1> QED
  BY <1>4, <1>8, <1>12 DEF best

-----------------------------------------------------------------------------
(* The walk of detectCycles. *)

\* From id so many steps can be taken upward, and one more.
Climbs(doc, id, steps) ==
    \E path \in [0 .. steps -> IDs(doc)] :
        /\ path[0] = id
        /\ \A i \in 1 .. steps : path[i] = doc[path[i - 1]].parent
        /\ doc[path[steps]].parent # None

LEMMA ParentsExist ==
    ASSUME NEW doc \in Document, ReferencesExist(doc), NEW id \in IDs(doc),
           doc[id].parent # None
    PROVE  doc[id].parent \in IDs(doc)
  BY DEF ReferencesExist, Needs

LEMMA ClimbsOn ==
    ASSUME NEW doc \in Document, ReferencesExist(doc), NEW id \in IDs(doc), NEW steps \in Nat
    PROVE  Climbs(doc, id, steps) <=>
               /\ doc[id].parent # None
               /\ steps = 0 \/ Climbs(doc, doc[id].parent, steps - 1)
<1> DEFINE parent == doc[id].parent
<1>1. CASE steps = 0
  <2>1. ASSUME Climbs(doc, id, steps)
        PROVE  parent # None
    BY <1>1, <2>1 DEF Climbs
  <2>2. ASSUME parent # None
        PROVE  Climbs(doc, id, steps)
    <3> DEFINE path == [i \in 0 .. 0 |-> id]
    <3>1. path \in [0 .. 0 -> IDs(doc)] /\ path[0] = id /\ 1 .. 0 = {}
      OBVIOUS
    <3> HIDE DEF path
    <3> QED
      BY <1>1, <2>2, <3>1 DEF Climbs
  <2> QED
    BY <1>1, <2>1, <2>2
<1>2. CASE steps # 0
  <2>1. ASSUME Climbs(doc, id, steps)
        PROVE  parent # None /\ Climbs(doc, parent, steps - 1)
    <3>1. PICK path \in [0 .. steps -> IDs(doc)] :
             /\ path[0] = id
             /\ \A i \in 1 .. steps : path[i] = doc[path[i - 1]].parent
             /\ doc[path[steps]].parent # None
      BY <2>1 DEF Climbs
    <3> DEFINE further == [i \in 0 .. (steps - 1) |-> path[i + 1]]
    <3>2. path[1] = parent /\ path[1] \in IDs(doc)
      <4>1. 1 \in 1 .. steps /\ 1 \in 0 .. steps /\ 1 - 1 = 0
        BY <1>2
      <4> QED
        BY <3>1, <4>1
    <3>3. \A i \in 0 .. (steps - 1) : i + 1 \in 0 .. steps /\ further[i] = path[i + 1]
      OBVIOUS
    <3>4. further \in [0 .. (steps - 1) -> IDs(doc)]
      BY <3>3
    <3>5. steps - 1 \in 0 .. (steps - 1) /\ 0 \in 0 .. (steps - 1) /\ (steps - 1) + 1 = steps
      BY <1>2
    <3>6. \A i \in 1 .. (steps - 1) : further[i] = doc[further[i - 1]].parent
      <4> TAKE i \in 1 .. (steps - 1)
      <4>1. i \in 0 .. (steps - 1) /\ i - 1 \in 0 .. (steps - 1) /\ (i - 1) + 1 = i
            /\ i + 1 \in 1 .. steps /\ (i + 1) - 1 = i
        OBVIOUS
      <4>2. further[i] = path[i + 1] /\ further[i - 1] = path[i]
        BY <3>3, <4>1
      <4> QED
        BY <3>1, <4>1, <4>2
    <3>7. further[0] = parent /\ doc[further[steps - 1]].parent # None
      BY <3>1, <3>2, <3>3, <3>5
    <3>8. parent # None
      BY <3>2, NoneAssumption DEF IDs
    <3> HIDE DEF further
    <3>9. Climbs(doc, parent, steps - 1)
      BY <3>4, <3>6, <3>7 DEF Climbs
    <3> QED
      BY <3>8, <3>9
  <2>2. ASSUME parent # None, Climbs(doc, parent, steps - 1)
        PROVE  Climbs(doc, id, steps)
    <3>1. PICK path \in [0 .. (steps - 1) -> IDs(doc)] :
             /\ path[0] = parent
             /\ \A i \in 1 .. (steps - 1) : path[i] = doc[path[i - 1]].parent
             /\ doc[path[steps - 1]].parent # None
      BY <2>2 DEF Climbs
    <3> DEFINE longer == [i \in 0 .. steps |-> IF i = 0 THEN id ELSE path[i - 1]]
    <3>2. \A i \in 1 .. steps :
             i - 1 \in 0 .. (steps - 1) /\ i \in 0 .. steps /\ longer[i] = path[i - 1]
      OBVIOUS
    <3>3. longer[0] = id
      OBVIOUS
    <3>4. longer \in [0 .. steps -> IDs(doc)]
      <4>1. \A i \in 0 .. steps : i # 0 => path[i - 1] \in IDs(doc)
        BY <3>2
      <4> QED
        BY <4>1
    <3>5. \A i \in 1 .. steps : longer[i] = doc[longer[i - 1]].parent
      <4> TAKE i \in 1 .. steps
      <4>1. CASE i = 1
        BY <3>1, <3>2, <3>3, <4>1
      <4>2. CASE i # 1
        <5>1. i - 1 \in 1 .. steps /\ i - 1 \in 1 .. (steps - 1)
          BY <4>2
        <5>2. longer[i] = path[i - 1] /\ longer[i - 1] = path[(i - 1) - 1]
          BY <3>2, <5>1
        <5> QED
          BY <3>1, <5>1, <5>2
      <4> QED
        BY <4>1, <4>2
    <3>6. doc[longer[steps]].parent # None
      <4>1. steps \in 1 .. steps
        BY <1>2
      <4> QED
        BY <3>1, <3>2, <4>1
    <3> HIDE DEF longer
    <3> QED
      BY <3>3, <3>4, <3>5, <3>6 DEF Climbs
  <2> QED
    BY <1>2, <2>1, <2>2
<1> QED
  BY <1>1, <1>2

\* One step of the walk.
WalksOnOnce(doc, walksOn) ==
    [walk \in IDs(doc) \X (0 .. Cardinality(IDs(doc)) + 1) |->
        /\ doc[walk[1]].parent # None
        /\ \/ walk[2] > Cardinality(IDs(doc))
           \/ walksOn[<<doc[walk[1]].parent, walk[2] + 1>>]]

Climbing(doc) ==
    [walk \in IDs(doc) \X (0 .. Cardinality(IDs(doc)) + 1) |->
        Climbs(doc, walk[1], Cardinality(IDs(doc)) + 1 - walk[2])]

LEMMA ClimbingIsWalkingOn ==
    ASSUME NEW doc \in Document, ReferencesExist(doc), IsFiniteSet(IDs(doc))
    PROVE  Climbing(doc) = WalksOnOnce(doc, Climbing(doc))
<1> DEFINE n == Cardinality(IDs(doc))
           Walks == IDs(doc) \X (0 .. n + 1)
           climbing == Climbing(doc)
<1>1. n \in Nat
  BY FS_CardinalityType
<1> HIDE DEF n
<1>2. \A id \in IDs(doc), steps \in 0 .. n + 1 :
         climbing[<<id, steps>>] = Climbs(doc, id, n + 1 - steps)
  BY DEF Climbing, n
<1> HIDE DEF climbing
<1>3. ASSUME NEW id \in IDs(doc), NEW steps \in 0 .. n + 1
      PROVE  climbing[<<id, steps>>]
                = (/\ doc[id].parent # None
                   /\ steps > n \/ climbing[<<doc[id].parent, steps + 1>>])
  <2> DEFINE left == n + 1 - steps
             parent == doc[id].parent
  <2>1. left \in Nat /\ (left = 0 <=> steps > n)
    BY <1>1
  <2>2. climbing[<<id, steps>>] = Climbs(doc, id, left)
    BY <1>2
  <2> HIDE DEF left
  <2>3. Climbs(doc, id, left) <=> parent # None /\ (left = 0 \/ Climbs(doc, parent, left - 1))
    BY <2>1, ClimbsOn
  <2>4. parent # None /\ ~ (steps > n) =>
           climbing[<<parent, steps + 1>>] = Climbs(doc, parent, left - 1)
    <3> SUFFICES ASSUME parent # None, ~ (steps > n)
                 PROVE  climbing[<<parent, steps + 1>>] = Climbs(doc, parent, left - 1)
      OBVIOUS
    <3>1. steps + 1 \in 0 .. n + 1 /\ n + 1 - (steps + 1) = left - 1
      BY <1>1 DEF left
    <3>2. parent \in IDs(doc)
      BY ParentsExist
    <3> QED
      BY <1>2, <3>1, <3>2
  <2> HIDE DEF parent
  <2>5. Climbs(doc, id, left) \in BOOLEAN
    BY DEF Climbs
  <2>6. Climbs(doc, id, left) <=>
           parent # None /\ (steps > n \/ climbing[<<parent, steps + 1>>])
    BY <2>1, <2>3, <2>4
  <2>7. Climbs(doc, id, left) =
           (parent # None /\ (steps > n \/ climbing[<<parent, steps + 1>>]))
    BY <2>5, <2>6
  <2> QED
    BY <2>2, <2>7 DEF parent
<1>4. \A walk \in Walks : climbing[walk] = WalksOnOnce(doc, climbing)[walk]
  <2> TAKE walk \in Walks
  <2>1. PICK id \in IDs(doc), steps \in 0 .. n + 1 : walk = <<id, steps>>
    OBVIOUS
  <2>2. walk[1] = id /\ walk[2] = steps
    BY <2>1
  <2>3. WalksOnOnce(doc, climbing)[walk]
           = (/\ doc[walk[1]].parent # None
              /\ walk[2] > n \/ climbing[<<doc[walk[1]].parent, walk[2] + 1>>])
    BY Zenon DEF WalksOnOnce, n
  <2> HIDE DEF Walks
  <2> QED
    BY <1>3, <2>1, <2>2, <2>3
<1> QED
  BY <1>4 DEF climbing, Climbing, WalksOnOnce, n

\* A walk that goes on for ever, or as long as the code looks.
LEMMA WalksOnIs ==
    ASSUME NEW doc \in Document, ReferencesExist(doc), IsFiniteSet(IDs(doc))
    PROVE  \A id \in IDs(doc), steps \in 0 .. Cardinality(IDs(doc)) + 1 :
              WalksOn(doc)[<<id, steps>>] <=>
                  /\ doc[id].parent # None
                  /\ \/ steps > Cardinality(IDs(doc))
                     \/ WalksOn(doc)[<<doc[id].parent, steps + 1>>]
<1> DEFINE chosen == CHOOSE walksOn : walksOn = WalksOnOnce(doc, walksOn)
<1>1. chosen = WalksOnOnce(doc, chosen)
  BY ClimbingIsWalkingOn
<1>2. WalksOn(doc) = chosen
  BY DEF WalksOn, WalksOnOnce
<1> HIDE DEF chosen
<1>3. \A id \in IDs(doc), steps \in 0 .. Cardinality(IDs(doc)) + 1 :
         WalksOnOnce(doc, chosen)[<<id, steps>>] <=>
                  /\ doc[id].parent # None
                  /\ \/ steps > Cardinality(IDs(doc))
                     \/ chosen[<<doc[id].parent, steps + 1>>]
  BY DEF WalksOnOnce
<1> QED
  BY <1>1, <1>2, <1>3

(***************************************************************************)
(* detectCycles refuses exactly the circles of parents, in any document: a *)
(* walk longer than there are Households has come to one of them twice.    *)
(***************************************************************************)
THEOREM CyclesDetected ==
    ASSUME NEW doc \in Document, ReferencesExist(doc), IsFiniteSet(IDs(doc))
    PROVE  DetectsCycle(doc) <=> ~ Acyclic(doc)
<1> DEFINE n == Cardinality(IDs(doc))
           on == WalksOn(doc)
<1>1. n \in Nat
  BY FS_CardinalityType
<1>2. \A id \in IDs(doc), steps \in 0 .. n + 1 :
         on[<<id, steps>>] <=>
             /\ doc[id].parent # None
             /\ steps > n \/ on[<<doc[id].parent, steps + 1>>]
  BY WalksOnIs
<1>3. DetectsCycle(doc) <=> \E id \in IDs(doc) : on[<<id, 0>>]
  BY DEF DetectsCycle
<1> HIDE DEF on
<1>4. ASSUME NEW id \in IDs(doc), on[<<id, 0>>]
      PROVE  ~ Acyclic(doc)
  <2> DEFINE short == {steps \in 0 .. n + 1 :
                          \E other \in IDs(doc) :
                              on[<<other, steps>>] /\ ~ Climbs(doc, other, n + 1 - steps)}
  <2>1. short = {}
    <3> SUFFICES ASSUME short # {}
                 PROVE  FALSE
      OBVIOUS
    <3>1. short \in SUBSET Nat /\ \A steps \in short : steps <= n + 1
      OBVIOUS
    <3>2. n + 1 \in Nat
      BY <1>1
    <3>3. PICK last \in short : \A steps \in short : steps <= last
      <4> HIDE DEF short
      <4> QED
        BY <3>1, <3>2, GreatestNumber
    <3>4. PICK other \in IDs(doc) : on[<<other, last>>] /\ ~ Climbs(doc, other, n + 1 - last)
      BY <3>3
    <3> DEFINE left == n + 1 - last
               parent == doc[other].parent
    <3>5. last \in 0 .. n + 1 /\ left \in Nat /\ (left = 0 <=> last > n)
      BY <1>1
    <3>6. parent # None /\ (last > n \/ on[<<parent, last + 1>>])
      BY <1>2, <3>4, <3>5
    <3>7. Climbs(doc, other, left) <=> parent # None /\ (left = 0 \/ Climbs(doc, parent, left - 1))
      <4> HIDE DEF left
      <4> QED
        BY <3>5, ClimbsOn
    <3>8. CASE last > n
      BY <3>4, <3>5, <3>6, <3>7, <3>8
    <3>9. CASE ~ (last > n)
      <4>1. last + 1 \in 0 .. n + 1 /\ n + 1 - (last + 1) = left - 1 /\ ~ (last + 1 <= last)
        BY <1>1, <3>5, <3>9
      <4>2. parent \in IDs(doc)
        BY <3>6, ParentsExist
      <4>3. last + 1 \notin short
        BY <3>3, <4>1
      <4>4. Climbs(doc, parent, n + 1 - (last + 1))
        BY <3>6, <3>9, <4>1, <4>2, <4>3
      <4>5. Climbs(doc, parent, left - 1)
        BY <4>1, <4>4
      <4> QED
        BY <3>4, <3>6, <3>7, <4>5
    <3> QED
      BY <3>8, <3>9
  <2>2. Climbs(doc, id, n + 1)
    <3>1. 0 \in 0 .. n + 1 /\ n + 1 - 0 = n + 1
      BY <1>1
    <3>2. Climbs(doc, id, n + 1 - 0)
      BY <1>4, <2>1, <3>1
    <3> QED
      BY <3>1, <3>2
  <2>3. PICK path \in [0 .. n + 1 -> IDs(doc)] :
           \A i \in 1 .. n + 1 : path[i] = doc[path[i - 1]].parent
    BY <2>2 DEF Climbs
  <2>4. PICK i \in 0 .. n + 1, j \in 0 .. n + 1 : i < j /\ path[i] = path[j]
    <3> DEFINE S == 0 .. n + 1
    <3>1. IsFiniteSet(S) /\ Cardinality(S) = n + 2
      <4>1. 0 \in Int /\ n + 1 \in Int /\ ~ (0 > n + 1) /\ (n + 1) - 0 + 1 = n + 2
        BY <1>1
      <4> QED
        BY <4>1, FS_Interval
    <3>2. Cardinality(IDs(doc)) < Cardinality(S)
      BY <1>1, <3>1
    <3>3. \E x, y \in S : x # y /\ path[x] = path[y]
      <4> HIDE DEF S
      <4>1. path \in [S -> IDs(doc)]
        BY DEF S
      <4> QED
        BY <3>1, <3>2, <4>1, FS_PigeonHole
    <3>4. PICK x \in S, y \in S : x # y /\ path[x] = path[y]
      BY <3>3
    <3>5. x < y \/ y < x
      BY <3>4
    <3> QED
      BY <3>4, <3>5
  <2> DEFINE circle == {path[k] : k \in i .. (j - 1)}
  <2>5. /\ \A k \in i .. (j - 1) : k \in 0 .. n + 1 /\ k + 1 \in 1 .. n + 1 /\ (k + 1) - 1 = k
        /\ i \in i .. (j - 1)
    BY <1>1, <2>4
  <2>6. circle \in (SUBSET IDs(doc)) \ {{}}
    BY <2>5
  <2>7. ASSUME NEW other \in circle
        PROVE  doc[other].parent \in circle
    <3>1. PICK k \in i .. (j - 1) : other = path[k]
      OBVIOUS
    <3>2. doc[other].parent = path[k + 1]
      BY <2>3, <2>5, <3>1
    <3>3. CASE k + 1 = j
      BY <2>4, <2>5, <3>2, <3>3
    <3>4. CASE k + 1 # j
      <4>1. k + 1 \in i .. (j - 1)
        BY <3>4
      <4> QED
        BY <3>2, <4>1
    <3> QED
      BY <3>3, <3>4
  <2> HIDE DEF circle
  <2> QED
    BY <2>6, <2>7 DEF Acyclic
<1>5. ASSUME ~ Acyclic(doc)
      PROVE  \E id \in IDs(doc) : on[<<id, 0>>]
  <2>1. PICK circle \in (SUBSET IDs(doc)) \ {{}} : \A id \in circle : doc[id].parent \in circle
    BY <1>5 DEF Acyclic
  <2>2. \A id \in circle : doc[id].parent \in circle /\ doc[id].parent # None /\ id \in IDs(doc)
    BY <2>1, NoneAssumption DEF IDs
  <2> DEFINE ends == {steps \in 0 .. n + 1 : \E id \in circle : ~ on[<<id, steps>>]}
  <2>3. ends = {}
    <3> SUFFICES ASSUME ends # {}
                 PROVE  FALSE
      OBVIOUS
    <3>1. ends \in SUBSET Nat /\ \A steps \in ends : steps <= n + 1
      OBVIOUS
    <3>2. n + 1 \in Nat
      BY <1>1
    <3>3. PICK last \in ends : \A steps \in ends : steps <= last
      <4> HIDE DEF ends
      <4> QED
        BY <3>1, <3>2, GreatestNumber
    <3>4. PICK id \in circle : ~ on[<<id, last>>]
      BY <3>3
    <3>5. last \in 0 .. n + 1
      OBVIOUS
    <3>6. ~ (last > n) /\ ~ on[<<doc[id].parent, last + 1>>]
      BY <1>2, <2>2, <3>4, <3>5
    <3>7. last + 1 \in 0 .. n + 1 /\ ~ (last + 1 <= last)
      BY <1>1, <3>5, <3>6
    <3>8. last + 1 \in ends
      BY <2>2, <3>6, <3>7
    <3> QED
      BY <3>3, <3>7, <3>8
  <2>4. 0 \in 0 .. n + 1
    BY <1>1
  <2> QED
    BY <2>1, <2>3, <2>4
<1> QED
  BY <1>3, <1>4, <1>5

(***************************************************************************)
(* The walks of Purge, Chain and KeptUntil end and find what the closures  *)
(* say that Trash gives in their stead, in any Trash and beside any        *)
(* document: circles of needs, and needs that are nowhere, included.       *)
(***************************************************************************)
THEOREM WalksAlwaysAgree ==
    ASSUME NEW t \in TrashOf, IsFiniteSet(IDs(t)), NEW doc \in Document, NEW now
    PROVE  WalksAgree(t, doc, now)
  BY PurgeWalks, ChainWalks, KeptUntilWalks DEF WalksAgree

(***************************************************************************)
(* So they do in the files that the service is first started with,         *)
(* whatever was made of those by hand.                                     *)
(***************************************************************************)
THEOREM WalksAreExact == Spec => []WalksFindWhatIsNeeded
<1>1. WalksFindWhatIsNeeded
  <2>1. \A t \in Repaired, doc \in Present : WalksAgree(t, doc, Retention)
    <3> TAKE t \in Repaired, doc \in Present
    <3>1. t \in TrashOf /\ IsFiniteSet(IDs(t)) /\ doc \in Document
      BY WalksAssumption
    <3> QED
      BY <3>1, WalksAlwaysAgree
  <2>2. \A doc \in Parented : DetectsCycle(doc) <=> ~ Acyclic(doc)
    <3> TAKE doc \in Parented
    <3>1. doc \in Document /\ IsFiniteSet(IDs(doc)) /\ ReferencesExist(doc)
      BY WalksAssumption
    <3> QED
      BY <3>1, CyclesDetected
  <2> QED
    BY <2>1, <2>2 DEF WalksFindWhatIsNeeded
<1> QED
  BY <1>1, PTL
=============================================================================
