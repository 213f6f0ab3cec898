----------------------------- MODULE LiveProofs -----------------------------
(***************************************************************************)
(* Theorems about Live, for every set of Households, People, titles,       *)
(* documents and forms, whether or not writes fail and the clock steps     *)
(* back.                                                                   *)
(***************************************************************************)
EXTENDS Live, ApplyProofs

-----------------------------------------------------------------------------
(* Types of the operators. *)

\* Keeping some of a document or of the Trash leaves a document or a Trash.
LEMMA OnlyType ==
    ASSUME NEW S, NEW f \in [HouseholdID -> S \cup {None}], NEW ids
    PROVE  Only(f, ids) \in [HouseholdID -> S \cup {None}]
  BY DEF Only

LEMMA PurgeType ==
    ASSUME NEW t \in TrashOf, NEW now
    PROVE  Purge(t, now) \in TrashOf
  BY OnlyType DEF Purge, TrashOf

LEMMA ReconcileType ==
    ASSUME NEW t \in TrashOf, NEW doc
    PROVE  Reconcile(t, doc) \in TrashOf
  BY OnlyType DEF Reconcile, TrashOf

LEMMA OpenTrashType ==
    ASSUME NEW d \in Disk, NEW now
    PROVE  OpenTrash(d, now) \in TrashOf
  BY PurgeType, ReconcileType DEF OpenTrash, Disk

LEMMA OpenType ==
    ASSUME NEW d \in Disk, NEW now
    PROVE  Open(d, now) \in State
  BY OpenTrashType DEF Open, Loaded, State, Pointer, Disk

LEMMA DeleteType ==
    ASSUME NEW t \in TrashOf, NEW doc \in Document, NEW id \in IDs(doc), NEW now \in Nat
    PROVE  Delete(t, doc, id, now) \in [document : Document, trash : TrashOf]
  <1>1. doc[id] \in Household
    BY DEF Document, IDs
  <1>2. [doc EXCEPT ![id] = None] \in Document
    BY DEF Document
  <1>3. [deletedAt |-> now, household |-> doc[id]] \in Entry
    BY <1>1 DEF Entry
  <1>4. [t EXCEPT ![id] = [deletedAt |-> now, household |-> doc[id]]] \in TrashOf
    BY <1>3 DEF TrashOf
  <1>5. QED
    BY <1>2, <1>4 DEF Delete

LEMMA RestoreType ==
    ASSUME NEW t \in TrashOf, NEW doc \in Document, NEW id \in HouseholdID,
           Restorable(t, doc, id)
    PROVE  Restore(t, doc, id) \in [document : Document, trash : TrashOf]
  <1> DEFINE chain == Chain(t, doc, id)
             restored == [back \in HouseholdID |->
                             IF back \in chain THEN t[back].household ELSE doc[back]]
  <1>1. \A back \in chain : back \in HouseholdID /\ t[back].household \in Household
    BY DEF Restorable, IDs, TrashOf, Entry
  <1>2. restored \in Document
    BY <1>1 DEF Document
  <1>3. Only(t, HouseholdID \ chain) \in TrashOf
    BY OnlyType DEF TrashOf
  <1>4. QED
    BY <1>2, <1>3 DEF Restore

-----------------------------------------------------------------------------
(* Type correctness. *)

LEMMA PurgedType ==
    ASSUME TypeOK, Idle, NEW next \in State
    PROVE  PurgedIfChanged(next) \in State
  BY PurgeType DEF PurgedIfChanged, State, Pointer, TypeOK, Idle

\* A save that has begun is well typed if what it will serve is.
LEMMA UpdateType ==
    ASSUME TypeOK, NEW next \in State, Update(next)
    PROVE  TypeOK'
  <1> DEFINE purged == PurgedIfChanged(next)
             point == [token |-> saves + 1, before |-> served]
  <1>1. purged \in State
    BY PurgedType DEF Update
  <1>2. served \in State
    BY DEF TypeOK, Update, Idle
  <1>3. point \in UndoPoint
    BY <1>2 DEF UndoPoint, TypeOK
  <1>4. job' \in Job
    BY <1>1, <1>3 DEF Update, Begin, Job, FirstFile, Changed, File
  <1>5. QED
    BY <1>4 DEF Update, TypeOK, Idle

LEMMA NewType ==
    ASSUME TypeOK, NEW S, NEW value \in S
    PROVE  New(value) \in Pointer(S)
  BY DEF New, Pointer, TypeOK

LEMMA TypeStep == TypeOK /\ [Next]_vars => TypeOK'
  <1> SUFFICES ASSUME TypeOK, [Next]_vars
               PROVE  TypeOK'
    OBVIOUS
  <1>1. ASSUME NEW id \in HouseholdID, NEW form \in Submissions, Save(id, form)
        PROVE  TypeOK'
    <2> DEFINE doc == served.document.val
               sub == ParseSubmission(doc[id], form)
    <2>1. served \in State /\ doc \in Document /\ id \in IDs(doc)
      BY <1>1 DEF Save, Idle, TypeOK, State, Pointer
    <2>2. sub \in Submission
      BY LiveAssumption DEF ParseSubmission, Submission
    <2>3. PICK mint \in MintedFor(doc[id], sub, HouseholdID \ InUse) :
             Update([served EXCEPT !.document = New(ApplySubmission(doc, id, sub, mint))])
      BY <1>1 DEF Save
    <2>4. ApplySubmission(doc, id, sub, mint) \in Document
      BY <2>1, <2>2, ApplyType
    <2>5. New(ApplySubmission(doc, id, sub, mint)) \in Pointer(Document)
      BY <2>4, NewType
    <2>6. [served EXCEPT !.document = New(ApplySubmission(doc, id, sub, mint))] \in State
      BY <2>1, <2>5 DEF State
    <2>7. QED
      BY <2>3, <2>6, UpdateType
  <1>2. ASSUME NEW id \in HouseholdID, DeleteHousehold(id)
        PROVE  TypeOK'
    <2> DEFINE deleted == Delete(served.trash.val, served.document.val, id, clock)
               next == [served EXCEPT !.document = New(deleted.document),
                                      !.trash = New(deleted.trash)]
    <2>1. /\ served \in State
          /\ served.document.val \in Document
          /\ served.trash.val \in TrashOf
          /\ id \in IDs(served.document.val)
          /\ clock \in Nat
      BY <1>2 DEF DeleteHousehold, Deletable, Idle, TypeOK, State, Pointer
    <2>2. deleted \in [document : Document, trash : TrashOf]
      BY <2>1, DeleteType
    <2>3. New(deleted.document) \in Pointer(Document) /\ New(deleted.trash) \in Pointer(TrashOf)
      BY <2>2, NewType
    <2>4. next \in State
      BY <2>1, <2>3 DEF State
    <2>5. Update(next)
      BY <1>2 DEF DeleteHousehold
    <2>6. QED
      BY <2>4, <2>5, UpdateType
  <1>3. ASSUME NEW id \in HouseholdID, RestoreHousehold(id)
        PROVE  TypeOK'
    <2> DEFINE restored == Restore(served.trash.val, served.document.val, id)
               next == [served EXCEPT !.document = New(restored.document),
                                      !.trash = New(restored.trash)]
    <2>1. /\ served \in State
          /\ served.document.val \in Document
          /\ served.trash.val \in TrashOf
      BY <1>3 DEF RestoreHousehold, Idle, TypeOK, State, Pointer
    <2>2. restored \in [document : Document, trash : TrashOf]
      BY <1>3, <2>1, RestoreType DEF RestoreHousehold
    <2>3. New(restored.document) \in Pointer(Document) /\ New(restored.trash) \in Pointer(TrashOf)
      BY <2>2, NewType
    <2>4. next \in State
      BY <2>1, <2>3 DEF State
    <2>5. Update(next)
      BY <1>3 DEF RestoreHousehold
    <2>6. QED
      BY <2>4, <2>5, UpdateType
  <1>4. ASSUME NEW title \in Title, SetTitle(title)
        PROVE  TypeOK'
    <2>1. served \in State
      BY <1>4 DEF SetTitle, Idle, TypeOK
    <2>2. [served EXCEPT !.settings = New(title)] \in State
      BY <2>1, NewType DEF State
    <2>3. QED
      BY <1>4, <2>2, UpdateType DEF SetTitle
  <1>5. ASSUME NEW token \in 1..saves, Undo(token)
        PROVE  TypeOK'
    <2>1. undo \in UndoPoint
      BY <1>5 DEF Undo, TokenCurrent, TypeOK
    <2>2. undo.before \in State
      BY <2>1 DEF UndoPoint
    <2>3. job' \in Job
      BY <1>5, <2>2 DEF Undo, Begin, Job, FirstFile, Changed, File
    <2>4. QED
      BY <1>5, <2>3 DEF Undo, TypeOK, Idle
  <1>6. ASSUME NEW file \in File, WriteFile(file)
        PROVE  TypeOK'
    <2>1. job \in Job
      BY <1>6 DEF WriteFile, TypeOK
    <2>2. disk' \in Disk
      BY <1>6, <2>1 DEF WriteFile, TypeOK, Job, State, Pointer, Disk, File
    <2>3. job' \in Job
      BY <1>6, <2>1 DEF WriteFile, Job
    <2>4. served # None
      BY <1>6 DEF WriteFile, TypeOK
    <2>5. QED
      BY <1>6, <2>2, <2>3, <2>4 DEF WriteFile, TypeOK
  <1>7. CASE WriteFails
    BY <1>7 DEF WriteFails, TypeOK
  <1>8. CASE Commit
    <2>1. job \in Job
      BY <1>8 DEF Commit, TypeOK
    <2>2. served' \in State /\ undo' \in UndoPoint \cup {None}
      BY <1>8, <2>1 DEF Commit, Job
    <2>3. served' # None
      BY <2>2, NilAssumption
    <2>4. QED
      BY <1>8, <2>2, <2>3 DEF Commit, TypeOK
  <1>9. CASE Crash
    BY <1>9 DEF Crash, TypeOK
  <1>10. CASE Start
    <2>1. served' \in State
      BY <1>10, OpenType DEF Start, TypeOK
    <2>2. disk' \in Disk
      BY <1>10, OpenTrashType DEF Start, TypeOK, Disk
    <2>3. QED
      BY <1>10, <2>1, <2>2 DEF Start, TypeOK
  <1>11. CASE Tick
    BY <1>11 DEF Tick, TypeOK
  <1>12. CASE StepBack
    BY <1>12 DEF StepBack, TypeOK
  <1>13. CASE UNCHANGED vars
    BY <1>13 DEF vars, TypeOK
  <1>14. QED
    BY <1>1, <1>2, <1>3, <1>4, <1>5, <1>6, <1>7, <1>8, <1>9, <1>10, <1>11, <1>12, <1>13
       DEF Next

LEMMA TypeInit == Init => TypeOK
  BY LiveAssumption DEF Init, TypeOK, Disk, EmptyTrash, TrashOf

\* Every reachable state is well typed, and a process that is down holds neither
\* an Undo nor a save in progress.
THEOREM TypeCorrect == Spec => []TypeOK
  BY TypeInit, TypeStep, PTL DEF Spec
-----------------------------------------------------------------------------
(***************************************************************************)
(* No Household is lost.  The invariant says how the files on disk compare *)
(* with what is served: the document on disk holds every Household served, *)
(* as served, until a save has written both its files; and whatever a save *)
(* or an Undo takes out of the document goes into the Trash, in a save     *)
(* that takes nothing the other way.                                       *)
(***************************************************************************)

\* doc holds every Household of base, as base has it.
Holds(doc, base) == \A id \in IDs(base) : doc[id] = base[id]

\* A Household the document loses between the two states is in the Trash.
KeptBetween(from, to) ==
    \A id \in IDs(from.document.val) :
        \/ to.document.val[id] = from.document.val[id]
        \/ /\ id \in IDs(to.trash.val)
           /\ to.trash.val[id].household = from.document.val[id]

\* The document does not both gain and lose.
OneWay(from, to) ==
    \/ IDs(to.document.val) \subseteq IDs(from.document.val)
    \/ Holds(to.document.val, from.document.val)

\* What changes both files moves Households between them.
Transfer(from, to) == to.trash # from.trash => KeptBetween(from, to) /\ OneWay(from, to)

Disjoint(state) == IDs(state.document.val) \cap IDs(state.trash.val) = {}

UndoSound(state, point) ==
    point # None => Disjoint(point.before) /\ Transfer(state, point.before)

\* The save in progress: what has been written of it, and what has not.
JobSound ==
    /\ Disjoint(job.next)
    /\ Transfer(served, job.next)
    /\ ~ MixedSave(served, job.next)
    /\ job.first = FirstFile(served, job.next)
    /\ job.todo \subseteq Changed(served, job.next)
    /\ UndoSound(job.next, job.undo)
    /\ job.todo # {} => Holds(disk.document, served.document.val)
    /\ "document" \notin job.todo => Holds(disk.document, job.next.document.val)
    /\ "trash" \notin job.todo /\ job.next.trash # served.trash =>
          disk.trash = job.next.trash.val

Inv ==
    /\ served # None => Disjoint(served)
    /\ Idle => Holds(disk.document, served.document.val)
    /\ UndoSound(served, undo)
    /\ job # None => JobSound

-----------------------------------------------------------------------------
(* Facts about the Trash. *)

\* Purge keeps an unexpired entry as it is.
LEMMA PurgeKeepsUnexpired ==
    ASSUME NEW t \in TrashOf, NEW now, NEW id \in Unexpired(t, now)
    PROVE  Purge(t, now)[id] = t[id]
  <1>1. id \in HouseholdID
    BY DEF Unexpired, IDs
  <1>2. id \in NeedClosure(t, Unexpired(t, now))
    BY <1>1 DEF NeedClosure
  <1>3. QED
    BY <1>1, <1>2 DEF Purge, Only

\* Keeping some of a partial function adds nothing to it.
LEMMA OnlySubset ==
    ASSUME NEW f, NEW ids
    PROVE  /\ IDs(Only(f, ids)) \subseteq IDs(f) \cap ids
           /\ \A id \in IDs(Only(f, ids)) : Only(f, ids)[id] = f[id]
  BY DEF Only, IDs

\* What is restored is not in the document, and is in the Trash.
LEMMA ChainMoves ==
    ASSUME NEW t, NEW doc, NEW id, Restorable(t, doc, id)
    PROVE  Chain(t, doc, id) \subseteq IDs(t) \ IDs(doc)
  BY DEF Restorable, Chain

\* The state an Update writes differs from what was built in its Trash only.
LEMMA PurgedFields ==
    ASSUME TypeOK, Idle, NEW next \in State
    PROVE  LET purged == PurgedIfChanged(next) IN
           /\ purged \in State
           /\ purged.document = next.document
           /\ IDs(purged.trash.val) \subseteq IDs(next.trash.val)
           /\ next.trash = served.trash => purged.trash = served.trash
           /\ next.trash # served.trash => purged.trash.val = Purge(next.trash.val, clock)
  <1>1. PurgedIfChanged(next) \in State
    BY PurgedType
  <1>2. CASE next.trash = served.trash
    BY <1>1, <1>2 DEF PurgedIfChanged
  <1>3. CASE next.trash # served.trash
    <2>1. PurgedIfChanged(next) =
             [next EXCEPT !.trash = [ref |-> next.trash.ref, val |-> Purge(next.trash.val, clock)]]
      BY <1>3 DEF PurgedIfChanged, State, Pointer
    <2>2. IDs(Purge(next.trash.val, clock)) \subseteq IDs(next.trash.val)
      BY OnlySubset DEF Purge
    <2>3. QED
      BY <1>1, <1>3, <2>1, <2>2 DEF State
  <1>4. QED
    BY <1>2, <1>3

-----------------------------------------------------------------------------
(* Each action preserves the invariant. *)

\* A save begins.
LEMMA BeginSound ==
    ASSUME TypeOK, Inv, Idle, NEW next \in State, NEW point, Begin(next, point),
           UNCHANGED <<served, undo, disk>>,
           Disjoint(next), Transfer(served, next), UndoSound(next, point)
    PROVE  Inv'
  <1>1. /\ job'.next = next /\ job'.undo = point
        /\ job'.first = FirstFile(served, next) /\ job'.todo = Changed(served, next)
        /\ ~ MixedSave(served, next)
    BY DEF Begin
  <1>2. Holds(disk.document, served.document.val)
    BY DEF Inv
  <1>3. "document" \notin Changed(served, next) => next.document = served.document
    BY DEF Changed, File
  <1>4. "trash" \notin Changed(served, next) => next.trash = served.trash
    BY DEF Changed, File
  <1>5. JobSound'
    BY <1>1, <1>2, <1>3, <1>4
       DEF JobSound, Disjoint, Transfer, KeptBetween, OneWay, UndoSound, MixedSave, Changed,
           FirstFile, GainsHousehold, Holds
  <1>6. QED
    BY <1>2, <1>5 DEF Inv, Idle, Disjoint, UndoSound, Transfer, KeptBetween, OneWay, Holds

\* A save of a new state begins, if Undo could take it back.
LEMMA UpdateSound ==
    ASSUME TypeOK, Inv, NEW next \in State, Update(next),
           Disjoint(PurgedIfChanged(next)),
           Transfer(served, PurgedIfChanged(next)),
           Transfer(PurgedIfChanged(next), served)
    PROVE  Inv'
  <1> DEFINE purged == PurgedIfChanged(next)
             point == [token |-> saves + 1, before |-> served]
  <1>1. Idle /\ Begin(purged, point) /\ UNCHANGED <<served, undo, disk>>
    BY DEF Update
  <1>2. purged \in State
    BY <1>1, PurgedFields
  <1>3. Disjoint(served)
    BY <1>1 DEF Inv, Idle
  <1>4. UndoSound(purged, point)
    BY <1>3 DEF UndoSound
  <1>5. QED
    BY <1>1, <1>2, <1>4, BeginSound

LEMMA SaveSound ==
    ASSUME TypeOK, Inv, NEW id \in HouseholdID, NEW form \in Submissions, Save(id, form)
    PROVE  Inv'
  <1> DEFINE doc == served.document.val
             sub == ParseSubmission(doc[id], form)
  <1>1. served \in State /\ doc \in Document /\ id \in IDs(doc) /\ Idle
    BY DEF Save, Idle, TypeOK, State, Pointer
  <1>2. sub \in Submission
    BY LiveAssumption DEF ParseSubmission, Submission
  <1>3. PICK mint \in MintedFor(doc[id], sub, HouseholdID \ InUse) :
           Update([served EXCEPT !.document = New(ApplySubmission(doc, id, sub, mint))])
    BY DEF Save
  <1> DEFINE applied == ApplySubmission(doc, id, sub, mint)
             next == [served EXCEPT !.document = New(applied)]
             purged == PurgedIfChanged(next)
  <1>4. applied \in Document
    BY <1>1, <1>2, ApplyType
  <1>5. New(applied) \in Pointer(Document) /\ New(applied).val = applied
    BY <1>4, NewType DEF New
  <1>6. next \in State /\ next.document.val = applied /\ next.trash = served.trash
    BY <1>1, <1>5 DEF State
  <1>7. purged.document.val = applied /\ purged.trash = served.trash
    BY <1>1, <1>6, PurgedFields
  <1>8. \A other \in IDs(applied) : other \in IDs(doc) \/ other \notin IDs(served.trash.val)
    <2>1. \A p \in DOMAIN mint : mint[p] \notin InUse
      BY DEF MintedFor, Injection
    <2>2. \A other \in HouseholdID :
             other \in {mint[p] : p \in DOMAIN mint} \/ applied[other] = doc[other] \/ other = id
      BY DEF ApplySubmission
    <2>3. QED
      BY <1>1, <2>1, <2>2 DEF IDs, InUse
  <1>9. Disjoint(purged)
    BY <1>1, <1>7, <1>8 DEF Disjoint, Inv, Idle
  <1>10. Transfer(served, purged) /\ Transfer(purged, served)
    BY <1>7 DEF Transfer
  <1>11. QED
    BY <1>3, <1>6, <1>9, <1>10, UpdateSound

LEMMA DeleteSound ==
    ASSUME TypeOK, Inv, NEW id \in HouseholdID, DeleteHousehold(id)
    PROVE  Inv'
  <1> DEFINE doc == served.document.val
             t == served.trash.val
             deleted == Delete(t, doc, id, clock)
             next == [served EXCEPT !.document = New(deleted.document),
                                    !.trash = New(deleted.trash)]
             purged == PurgedIfChanged(next)
  <1>1. /\ Idle
        /\ served \in State /\ doc \in Document /\ t \in TrashOf
        /\ id \in IDs(doc) /\ clock \in Nat
    BY DEF DeleteHousehold, Deletable, Idle, TypeOK, State, Pointer
  <1>2. deleted \in [document : Document, trash : TrashOf]
    BY <1>1, DeleteType
  <1>3. /\ next \in State
        /\ next.document.val = deleted.document
        /\ next.trash.val = deleted.trash
    <2>1. New(deleted.document) \in Pointer(Document) /\ New(deleted.trash) \in Pointer(TrashOf)
      BY <1>2, NewType
    <2>2. New(deleted.document).val = deleted.document /\ New(deleted.trash).val = deleted.trash
      BY DEF New
    <2>3. QED
      BY <1>1, <2>1, <2>2 DEF State
  <1>4. /\ deleted.document = [doc EXCEPT ![id] = None]
        /\ deleted.trash = [t EXCEPT ![id] = [deletedAt |-> clock, household |-> doc[id]]]
    BY DEF Delete
  <1>5. deleted.trash[id] = [deletedAt |-> clock, household |-> doc[id]]
    BY <1>1, <1>4 DEF TrashOf
  <1>6. id \in Unexpired(deleted.trash, clock)
    <2>1. deleted.trash[id] \in Entry
      BY <1>1, <1>5 DEF Entry, Document, IDs
    <2>2. deleted.trash[id] # None
      BY <2>1, NoEntryAssumption
    <2>3. clock < Expires(deleted.trash[id])
      BY <1>1, <1>5, RetentionAssumption DEF Expires
    <2>4. QED
      BY <2>2, <2>3 DEF Unexpired, IDs
  <1>7. next.trash # served.trash
    <2>1. t[id] = None
      BY <1>1 DEF Inv, Idle, Disjoint, IDs
    <2>2. deleted.trash[id] # None
      BY <1>6 DEF Unexpired, IDs
    <2>3. QED
      BY <1>3, <2>1, <2>2
  <1>8. /\ purged \in State
        /\ purged.document.val = deleted.document
        /\ purged.trash.val = Purge(deleted.trash, clock)
        /\ IDs(purged.trash.val) \subseteq IDs(deleted.trash)
    BY <1>1, <1>3, <1>7, PurgedFields
  <1>9. purged.trash.val[id] = deleted.trash[id]
    BY <1>2, <1>6, <1>8, PurgeKeepsUnexpired
  <1>10. IDs(deleted.document) = IDs(doc) \ {id}
    BY <1>1, <1>4 DEF IDs, Document
  <1>11. \A other \in IDs(deleted.document) : deleted.document[other] = doc[other]
    BY <1>1, <1>4, <1>10 DEF Document, IDs
  <1>12. Disjoint(purged)
    <2>1. IDs(deleted.trash) \subseteq IDs(t) \cup {id}
      BY <1>1, <1>4 DEF IDs, TrashOf
    <2>2. IDs(doc) \cap IDs(t) = {}
      BY <1>1 DEF Inv, Idle, Disjoint
    <2>3. QED
      BY <1>8, <1>10, <2>1, <2>2 DEF Disjoint
  <1>13. Transfer(served, purged)
    <2>1. id \in IDs(purged.trash.val)
      BY <1>6, <1>9 DEF Unexpired, IDs
    <2>2. purged.trash.val[id].household = doc[id]
      BY <1>5, <1>9
    <2>3. KeptBetween(served, purged)
      BY <1>8, <1>10, <1>11, <2>1, <2>2 DEF KeptBetween
    <2>4. OneWay(served, purged)
      BY <1>8, <1>10 DEF OneWay
    <2>5. QED
      BY <2>3, <2>4 DEF Transfer
  <1>14. Transfer(purged, served)
    BY <1>8, <1>11 DEF Transfer, KeptBetween, OneWay, Holds
  <1>15. Update(next)
    BY DEF DeleteHousehold
  <1>16. QED
    BY <1>3, <1>12, <1>13, <1>14, <1>15, UpdateSound

LEMMA RestoreSound ==
    ASSUME TypeOK, Inv, NEW id \in HouseholdID, RestoreHousehold(id)
    PROVE  Inv'
  <1> DEFINE doc == served.document.val
             t == served.trash.val
             chain == Chain(t, doc, id)
             restored == Restore(t, doc, id)
             next == [served EXCEPT !.document = New(restored.document),
                                    !.trash = New(restored.trash)]
             purged == PurgedIfChanged(next)
  <1>1. /\ Idle
        /\ served \in State /\ doc \in Document /\ t \in TrashOf
        /\ Restorable(t, doc, id)
    BY DEF RestoreHousehold, Idle, TypeOK, State, Pointer
  <1>2. restored \in [document : Document, trash : TrashOf]
    BY <1>1, RestoreType
  <1>3. /\ next \in State
        /\ next.document.val = restored.document
        /\ next.trash.val = restored.trash
    <2>1. New(restored.document) \in Pointer(Document) /\ New(restored.trash) \in Pointer(TrashOf)
      BY <1>2, NewType
    <2>2. New(restored.document).val = restored.document /\ New(restored.trash).val = restored.trash
      BY DEF New
    <2>3. QED
      BY <1>1, <2>1, <2>2 DEF State
  <1>4. chain \subseteq IDs(t) \ IDs(doc)
    BY <1>1, ChainMoves
  <1>5. /\ \A other \in IDs(doc) : restored.document[other] = doc[other]
        /\ IDs(doc) \subseteq IDs(restored.document)
        /\ \A other \in IDs(restored.document) :
              \/ restored.document[other] = doc[other]
              \/ /\ other \in IDs(t) \ IDs(doc)
                 /\ restored.document[other] = t[other].household
    BY <1>1, <1>4 DEF Restore, IDs
  <1>6. IDs(restored.trash) \subseteq IDs(t) \ chain
    BY OnlySubset DEF Restore, IDs
  <1>7. /\ purged \in State
        /\ purged.document.val = restored.document
        /\ IDs(purged.trash.val) \subseteq IDs(restored.trash)
    BY <1>1, <1>3, PurgedFields
  <1>8. Disjoint(purged)
    <2>1. IDs(restored.document) \subseteq IDs(doc) \cup chain
      BY <1>1 DEF Restore, IDs
    <2>2. IDs(doc) \cap IDs(t) = {}
      BY <1>1 DEF Inv, Idle, Disjoint
    <2>3. QED
      BY <1>6, <1>7, <2>1, <2>2 DEF Disjoint
  <1>9. Transfer(served, purged)
    BY <1>5, <1>7 DEF Transfer, KeptBetween, OneWay, Holds
  <1>10. Transfer(purged, served)
    BY <1>5, <1>7 DEF Transfer, KeptBetween, OneWay
  <1>11. Update(next)
    BY DEF RestoreHousehold
  <1>12. QED
    BY <1>3, <1>8, <1>9, <1>10, <1>11, UpdateSound

LEMMA SetTitleSound ==
    ASSUME TypeOK, Inv, NEW title \in Title, SetTitle(title)
    PROVE  Inv'
  <1> DEFINE next == [served EXCEPT !.settings = New(title)]
             purged == PurgedIfChanged(next)
  <1>1. Idle /\ served \in State
    BY DEF SetTitle, Idle, TypeOK
  <1>2. next \in State /\ next.document = served.document /\ next.trash = served.trash
    BY <1>1, NewType DEF State
  <1>3. purged.document = served.document /\ purged.trash = served.trash
    BY <1>1, <1>2, PurgedFields
  <1>4. Disjoint(purged)
    BY <1>1, <1>3 DEF Disjoint, Inv, Idle
  <1>5. Transfer(served, purged) /\ Transfer(purged, served)
    BY <1>3 DEF Transfer
  <1>6. QED
    BY <1>2, <1>4, <1>5, UpdateSound DEF SetTitle

LEMMA UndoBeginsSound ==
    ASSUME TypeOK, Inv, NEW token, Undo(token)
    PROVE  Inv'
  <1>1. Idle /\ undo # None /\ undo.before \in State
    BY DEF Undo, TokenCurrent, Idle, TypeOK, UndoPoint
  <1>2. Disjoint(undo.before) /\ Transfer(served, undo.before)
    BY <1>1 DEF Inv, UndoSound
  <1>3. UndoSound(undo.before, None)
    BY DEF UndoSound
  <1>4. QED
    BY <1>1, <1>2, <1>3, BeginSound DEF Undo

\* A file is written.  The document goes before the Trash only when it gains,
\* and then, being one-way, it still holds every Household served.
LEMMA WriteFileSound ==
    ASSUME TypeOK, Inv, NEW file \in File, WriteFile(file)
    PROVE  Inv'
  <1> DEFINE next == job.next
  <1>1. /\ job \in Job /\ JobSound /\ disk \in Disk
        /\ file \in job.todo
        /\ job.first \in job.todo => file = job.first
        /\ disk' = [disk EXCEPT ![file] = next[file].val]
        /\ job' = [job EXCEPT !.todo = @ \ {file}]
        /\ UNCHANGED <<served, undo>>
    BY DEF WriteFile, Inv, TypeOK
  <1>2. /\ job'.next = next /\ job'.undo = job.undo /\ job'.first = job.first
        /\ job'.todo = job.todo \ {file}
    BY <1>1 DEF Job
  <1> DEFINE Written ==
               /\ job'.todo # {} => Holds(disk'.document, served.document.val)
               /\ "document" \notin job'.todo => Holds(disk'.document, next.document.val)
               /\ "trash" \notin job'.todo /\ next.trash # served.trash =>
                     disk'.trash = next.trash.val
  <1>3. Written
    <2>1. CASE file = "document"
      <3>1. disk'.document = next.document.val /\ disk'.trash = disk.trash
        BY <1>1, <2>1 DEF Disk
      <3>2. Holds(disk'.document, next.document.val)
        BY <3>1 DEF Holds
      <3>3. job'.todo # {} => Holds(disk'.document, served.document.val)
        <4> SUFFICES ASSUME job'.todo # {}
                     PROVE  Holds(next.document.val, served.document.val)
          BY <3>1
        <4>1. job.todo \subseteq {"document", "trash"}
          BY <1>1, <2>1 DEF JobSound, MixedSave, Changed, File
        <4>2. "trash" \in job.todo
          BY <4>1, <1>2, <2>1
        <4>3. next.trash # served.trash
          BY <1>1, <4>2 DEF JobSound, Changed
        <4>4. job.first = "document"
          BY <1>1, <2>1, <4>2 DEF JobSound, FirstFile
        <4>5. GainsHousehold(served, next)
          BY <1>1, <4>4 DEF JobSound, FirstFile
        <4>6. QED
          BY <1>1, <4>3, <4>5 DEF JobSound, Transfer, OneWay, GainsHousehold
      <3>4. "trash" \notin job'.todo => "trash" \notin job.todo
        BY <1>2, <2>1
      <3>5. QED
        BY <1>1, <3>1, <3>2, <3>3, <3>4 DEF JobSound
    <2>2. CASE file = "trash"
      <3>1. disk'.document = disk.document /\ disk'.trash = next.trash.val
        BY <1>1, <2>2 DEF Disk
      <3>2. "document" \notin job'.todo => "document" \notin job.todo
        BY <1>2, <2>2
      <3>3. QED
        BY <1>1, <3>1, <3>2 DEF JobSound
    <2>3. CASE file = "settings"
      <3>1. disk'.document = disk.document /\ disk'.trash = disk.trash
        BY <1>1, <2>3 DEF Disk
      <3>2. /\ "document" \notin job'.todo => "document" \notin job.todo
            /\ "trash" \notin job'.todo => "trash" \notin job.todo
        BY <1>2, <2>3
      <3>3. QED
        BY <1>1, <3>1, <3>2 DEF JobSound
    <2>4. QED
      BY <2>1, <2>2, <2>3 DEF File
  <1>4. job'.todo \subseteq Changed(served, next)
    BY <1>1, <1>2 DEF JobSound
  <1>5. JobSound'
    <2> HIDE DEF next
    <2>1. /\ Disjoint(job.next) /\ Transfer(served, job.next) /\ ~ MixedSave(served, job.next)
          /\ job.first = FirstFile(served, job.next) /\ UndoSound(job.next, job.undo)
      BY <1>1 DEF JobSound
    <2>2. QED
      BY <1>1, <1>2, <1>3, <1>4, <2>1
         DEF JobSound, next, Disjoint, UndoSound, Transfer, KeptBetween, OneWay, MixedSave, Changed,
             FirstFile, GainsHousehold, Holds
  <1>6. job' # None
    BY <1>1, NilAssumption DEF Job
  <1>7. QED
    BY <1>1, <1>5, <1>6
       DEF Inv, Idle, Disjoint, UndoSound, Transfer, KeptBetween, OneWay

\* What is served after the swap is what both files hold.
LEMMA CommitSound ==
    ASSUME TypeOK, Inv, Commit
    PROVE  Inv'
  <1>1. /\ JobSound
        /\ job.todo = {}
        /\ served' = job.next /\ undo' = job.undo /\ job' = None
        /\ disk' = disk
    BY DEF Commit, Inv
  <1>2. Disjoint(job.next) /\ UndoSound(job.next, job.undo)
    BY <1>1 DEF JobSound
  <1>3. Holds(disk.document, job.next.document.val)
    BY <1>1 DEF JobSound
  <1>4. Disjoint(served)' /\ UndoSound(served, undo)' /\ Holds(disk.document, served.document.val)'
    BY <1>1, <1>2, <1>3 DEF Disjoint, UndoSound, Transfer, KeptBetween, OneWay, Holds
  <1>5. QED
    BY <1>1, <1>4 DEF Inv

\* A failed save leaves the document on disk with every Household served.
LEMMA WriteFailsSound ==
    ASSUME TypeOK, Inv, WriteFails
    PROVE  Inv'
  <1>1. Holds(disk.document, served.document.val)
    BY DEF WriteFails, Inv, JobSound
  <1>2. QED
    BY <1>1
       DEF WriteFails, Inv, Idle, Disjoint, UndoSound, Transfer, KeptBetween, OneWay, Holds

LEMMA StartSound ==
    ASSUME TypeOK, Inv, Start
    PROVE  Inv'
  <1> DEFINE opened == Open(disk, clock)
  <1>1. /\ served' = opened /\ undo' = None /\ job' = None
        /\ disk'.document = disk.document
    BY DEF Start, TypeOK, Disk
  <1>2. opened.document.val = disk.document
    BY DEF Open, Loaded
  <1>3. IDs(opened.trash.val) \cap IDs(disk.document) = {}
    <2>1. opened.trash.val = Purge(Reconcile(disk.trash, disk.document), clock)
      BY DEF Open, Loaded, OpenTrash
    <2>2. IDs(opened.trash.val) \subseteq IDs(Reconcile(disk.trash, disk.document))
      BY <2>1, OnlySubset DEF Purge
    <2>3. QED
      BY <2>2, OnlySubset DEF Reconcile
  <1>4. QED
    BY <1>1, <1>2, <1>3 DEF Inv, Disjoint, Holds, UndoSound

LEMMA InvStep == TypeOK /\ Inv /\ [Next]_vars => Inv'
  <1> SUFFICES ASSUME TypeOK, Inv, [Next]_vars
               PROVE  Inv'
    OBVIOUS
  <1>1. ASSUME NEW id \in HouseholdID, NEW form \in Submissions, Save(id, form)
        PROVE  Inv'
    BY <1>1, SaveSound
  <1>2. ASSUME NEW id \in HouseholdID, DeleteHousehold(id)
        PROVE  Inv'
    BY <1>2, DeleteSound
  <1>3. ASSUME NEW id \in HouseholdID, RestoreHousehold(id)
        PROVE  Inv'
    BY <1>3, RestoreSound
  <1>4. ASSUME NEW title \in Title, SetTitle(title)
        PROVE  Inv'
    BY <1>4, SetTitleSound
  <1>5. ASSUME NEW token \in 1..saves, Undo(token)
        PROVE  Inv'
    BY <1>5, UndoBeginsSound
  <1>6. ASSUME NEW file \in File, WriteFile(file)
        PROVE  Inv'
    BY <1>6, WriteFileSound
  <1>7. CASE WriteFails
    BY <1>7, WriteFailsSound
  <1>8. CASE Commit
    BY <1>8, CommitSound
  <1>9. CASE Crash
    BY <1>9 DEF Crash, Inv, Idle, UndoSound
  <1>10. CASE Start
    BY <1>10, StartSound
  <1>11. CASE UNCHANGED <<served, undo, job, disk>>
    BY <1>11 DEF Inv, JobSound, Idle, Disjoint, UndoSound, Transfer, KeptBetween, OneWay, Holds,
                 MixedSave, Changed, FirstFile, GainsHousehold
  <1>12. QED
    BY <1>1, <1>2, <1>3, <1>4, <1>5, <1>6, <1>7, <1>8, <1>9, <1>10, <1>11
       DEF Next, Tick, StepBack, vars

LEMMA InvInit == Init => Inv
  BY DEF Init, Inv, Idle, UndoSound

-----------------------------------------------------------------------------
(* The theorems. *)

LEMMA InvNeverLost == TypeOK /\ Inv => NeverLost
  <1> SUFFICES ASSUME TypeOK, Inv, served # None, NEW id \in IDs(served.document.val)
               PROVE  OnDisk(id, served.document.val[id]) \/ Settled(id)
    BY DEF NeverLost
  <1>1. CASE job = None
    BY <1>1 DEF Inv, Idle, Holds, OnDisk
  <1>2. CASE job # None /\ job.todo # {}
    BY <1>2 DEF Inv, JobSound, Holds, OnDisk
  <1>3. CASE job # None /\ job.todo = {}
    <2>1. /\ Holds(disk.document, job.next.document.val)
          /\ job.next.trash # served.trash => disk.trash = job.next.trash.val
          /\ Transfer(served, job.next)
          /\ IDs(served.document.val) \cap IDs(served.trash.val) = {}
      BY <1>3 DEF Inv, JobSound, Disjoint
    <2>2. CASE job.next.trash = served.trash
      BY <1>3, <2>1, <2>2 DEF Settled, Holds, OnDisk
    <2>3. CASE job.next.trash # served.trash
      <3>1. CASE job.next.document.val[id] = served.document.val[id]
        BY <2>1, <3>1 DEF Holds, OnDisk, IDs
      <3>2. CASE /\ id \in IDs(job.next.trash.val)
                 /\ job.next.trash.val[id].household = served.document.val[id]
        BY <2>1, <2>3, <3>2 DEF OnDisk
      <3>3. QED
        BY <2>1, <2>3, <3>1, <3>2 DEF Transfer, KeptBetween
    <2>4. QED
      BY <2>2, <2>3
  <1>4. QED
    BY <1>1, <1>2, <1>3

\* Whichever file cannot be written, whenever the process dies and however the
\* clock behaves, every Household served is on disk, in the document or in the
\* Trash, as it is served, or the save in progress has settled what becomes of
\* it.
THEOREM NoHouseholdLost == Spec => []NeverLost
  <1>1. Init => TypeOK /\ Inv
    BY TypeInit, InvInit
  <1>2. TypeOK /\ Inv /\ [Next]_vars => (TypeOK /\ Inv)'
    BY TypeStep, InvStep
  <1>3. TypeOK /\ Inv => NeverLost
    BY InvNeverLost
  <1>4. QED
    BY <1>1, <1>2, <1>3, PTL DEF Spec
=============================================================================
