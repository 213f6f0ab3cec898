-------------------------------- MODULE Live --------------------------------
(***************************************************************************)
(* The Directory being served, how it changes and what a restart finds     *)
(* (internal/live/live.go, with the write handlers of internal/web and the *)
(* files of internal/store).                                               *)
(*                                                                         *)
(* A write holds Copy.mu from its Snapshot to its answer, so there is at   *)
(* most one: a handler's action decides the whole save (build, purge, tree *)
(* check) and leaves it in job; the files are then renamed one at a time,  *)
(* and only then is the result served.  The process may die between any    *)
(* two of these steps, and a file may fail to be written.                  *)
(*                                                                         *)
(* A request that is refused, or that changes nothing, changes no state:   *)
(* it is a stuttering step and has no action.                              *)
(***************************************************************************)
EXTENDS Apply, Store

CONSTANTS
    Documents,          \* the documents the Operator may start the service on
    Untitled,           \* the title of a Directory nobody has titled
    Submissions,        \* the forms the Editor may post
    WritesMayFail,      \* whether writing a file may fail (a full disk)
    ClockMayStepBack,   \* whether the clock may be behind after a restart
    MaxTime,            \* bound: the clock stops here
    MaxSaves            \* bound: how many saves may begin

ASSUME LiveAssumption ==
    /\ \A doc \in Documents : doc \in Document /\ Buildable(doc)
    /\ Untitled \in Title
    /\ Submissions \subseteq Submission
    /\ \A form \in Submissions : form.newAdult = form.newDependent => form.newAdult = None
    /\ WritesMayFail \in BOOLEAN
    /\ ClockMayStepBack \in BOOLEAN
    /\ MaxTime \in Nat
    /\ MaxSaves \in Nat

VARIABLES
    clock,      \* the time
    served,     \* what Copy.current points at; None while the process is down
    undo,       \* the save Undo can reverse: its token and the state before it
    job,        \* the save in progress, holding Copy.mu
    disk,       \* directory.json, trash.json, settings.json
    saves       \* how many saves have begun, in any process: save n has token n

vars == <<clock, served, undo, job, disk, saves>>

UndoPoint == [token : Nat, before : State]

Job ==
    [next  : State,                     \* what will be served
     undo  : UndoPoint \cup {None},     \* the undo point that goes with it
     first : File,                      \* the file to be written before others
     todo  : SUBSET File]               \* the files still to be written

\* nil points at nothing.
ASSUME NilAssumption == None \notin State \cup Job \cup UndoPoint

TypeOK ==
    /\ clock \in Nat
    /\ served \in State \cup {None}
    /\ undo \in UndoPoint \cup {None}
    /\ job \in Job \cup {None}
    /\ disk \in Disk
    /\ saves \in Nat
    /\ served = None => undo = None /\ job = None

\* The Operator has placed a document and the service has not run yet.
Init ==
    /\ clock = 0
    /\ served = None
    /\ undo = None
    /\ job = None
    /\ disk \in [document : Documents, trash : {EmptyTrash}, settings : {Untitled}]
    /\ saves = 0

-----------------------------------------------------------------------------
(* Copy.Update and Copy.Undo, up to the first write. *)

Idle == served # None /\ job = None

\* A variant that trusts the build to have made a tree.
BeginUnchecked(next, undoPoint) ==
    /\ ~ MixedSave(served, next)
    /\ job' = [next  |-> next,
               undo  |-> undoPoint,
               first |-> FirstFile(served, next),
               todo  |-> Changed(served, next)]

\* write: a document that does not build is refused before anything is written.
Begin(next, undoPoint) ==
    /\ Buildable(next.document.val)
    /\ ~ MixedSave(served, next)
    /\ job' = [next  |-> next,
               undo  |-> undoPoint,
               first |-> FirstFile(served, next),
               todo  |-> Changed(served, next)]

New(value) == [ref |-> saves + 1, val |-> value]

\* A variant that purges on every save.
PurgedAlways(next) ==
    LET purged == Purge(next.trash.val, clock) IN
    IF purged = next.trash.val THEN next ELSE [next EXCEPT !.trash = New(purged)]

\* A Trash that a build replaced is purged; one it left alone is not.
PurgedIfChanged(next) ==
    IF next.trash = served.trash THEN next
    ELSE [next EXCEPT !.trash.val = Purge(@, clock)]

\* next is the state a build handed back, with what it left nil as served.
Update(next) ==
    /\ Idle
    /\ saves < MaxSaves
    /\ Begin(PurgedIfChanged(next), [token |-> saves + 1, before |-> served])
    /\ saves' = saves + 1
    /\ UNCHANGED <<clock, served, undo, disk>>

\* An ID is fresh when nothing in memory or on disk bears it.
InUse ==
    LET inState(state) == IDs(state.document.val) \cup IDs(state.trash.val) IN
    IDs(disk.document) \cup IDs(disk.trash) \cup inState(served)
        \cup (IF undo = None THEN {} ELSE inState(undo.before))

PeopleInUse ==
    LET inTrash(t) == UNION {People(t[id].household) : id \in IDs(t)}
        inState(state) == PeopleOf(state.document.val) \cup inTrash(state.trash.val)
    IN  PeopleOf(disk.document) \cup inTrash(disk.trash) \cup inState(served)
            \cup (IF undo = None THEN {} ELSE inState(undo.before))

\* commit (handleSave).  Every save is a new document, changed or not.
Save(id, form) ==
    LET doc == served.document.val
        sub == ParseSubmission(doc[id], form)
    IN  /\ Idle
        /\ id \in IDs(doc)
        /\ Applicable(doc, id, sub)
        /\ NewPeople(sub) \cap PeopleInUse = {}
        /\ \E mint \in MintedFor(doc[id], sub, HouseholdID \ InUse) :
              Update([served EXCEPT !.document = New(ApplySubmission(doc, id, sub, mint))])

\* deleteHousehold (handleDelete).
DeleteHousehold(id) ==
    /\ Idle
    /\ Deletable(served.document.val, id)
    /\ LET deleted == Delete(served.trash.val, served.document.val, id, clock) IN
       Update([served EXCEPT !.document = New(deleted.document),
                             !.trash = New(deleted.trash)])

\* restoreHousehold (handleRestore), from the Trash as stored: an expired entry
\* still in it may be restored from a page that listed it.
RestoreHousehold(id) ==
    /\ Idle
    /\ Restorable(served.trash.val, served.document.val, id)
    /\ LET restored == Restore(served.trash.val, served.document.val, id) IN
       Update([served EXCEPT !.document = New(restored.document),
                             !.trash = New(restored.trash)])

\* setTitle (handleTitle): an unchanged title is not a save.
SetTitle(title) ==
    /\ Idle
    /\ title # served.settings.val
    /\ Update([served EXCEPT !.settings = New(title)])

\* A token names the save Undo may reverse only until the next save, Undo or
\* restart.
TokenCurrent(token) == undo # None /\ token = undo.token

\* Copy.Undo (handleUndo), with any token a page may still be showing.
Undo(token) ==
    /\ Idle
    /\ TokenCurrent(token)
    /\ Begin(undo.before, None)
    /\ UNCHANGED <<clock, served, undo, disk, saves>>

-----------------------------------------------------------------------------
(* The writes, the swap, and what may interrupt them. *)

\* One file renamed into place: each is replaced whole or not at all.
WriteFile(file) ==
    /\ job # None
    /\ file \in job.todo
    /\ job.first \in job.todo => file = job.first
    /\ disk' = [disk EXCEPT ![file] = job.next[file].val]
    /\ job' = [job EXCEPT !.todo = @ \ {file}]
    /\ UNCHANGED <<clock, served, undo, saves>>

\* A file could not be written: what is served, and its Undo, stay as they were.
WriteFails ==
    /\ WritesMayFail
    /\ job # None
    /\ job.todo # {}
    /\ job' = None
    /\ UNCHANGED <<clock, served, undo, disk, saves>>

\* A variant that keeps the undo point of the save before.
CommitKeepingUndo ==
    /\ job # None
    /\ job.todo = {}
    /\ served' = job.next
    /\ undo' = IF job.undo = None THEN undo ELSE job.undo
    /\ job' = None
    /\ UNCHANGED <<clock, disk, saves>>

\* current.Store: the result is served, and the lock released.
Commit ==
    /\ job # None
    /\ job.todo = {}
    /\ served' = job.next
    /\ undo' = job.undo
    /\ job' = None
    /\ UNCHANGED <<clock, disk, saves>>

\* A variant in which the write was handed to a goroutine and escapes.
CrashLeavingJob ==
    /\ served # None
    /\ served' = None
    /\ undo' = None
    /\ UNCHANGED <<clock, job, disk, saves>>

\* The process dies: everything in memory is lost, a save in progress too.
Crash ==
    /\ served # None
    /\ served' = None
    /\ undo' = None
    /\ job' = None
    /\ UNCHANGED <<clock, disk, saves>>

\* A variant that does not write the Trash back.
StartWithoutSaving ==
    /\ served = None
    /\ Buildable(disk.document)
    /\ served' = Open(disk, clock)
    /\ UNCHANGED <<clock, undo, job, disk, saves>>

\* store.Open and live.New, with OpenTrash's one write.  A document that does
\* not build is refused, and the service does not start.
Start ==
    /\ served = None
    /\ Buildable(disk.document)
    /\ served' = Open(disk, clock)
    /\ disk' = [disk EXCEPT !.trash = OpenTrash(disk, clock)]
    /\ UNCHANGED <<clock, undo, job, saves>>

Tick ==
    /\ clock < MaxTime
    /\ clock' = clock + 1
    /\ UNCHANGED <<served, undo, job, disk, saves>>

\* The host's clock was set back before the service is started again.
StepBack ==
    /\ ClockMayStepBack
    /\ served = None
    /\ clock > 0
    /\ clock' = clock - 1
    /\ UNCHANGED <<served, undo, job, disk, saves>>

Next ==
    \/ \E id \in HouseholdID, form \in Submissions : Save(id, form)
    \/ \E id \in HouseholdID : DeleteHousehold(id)
    \/ \E id \in HouseholdID : RestoreHousehold(id)
    \/ \E title \in Title : SetTitle(title)
    \/ \E token \in 1..saves : Undo(token)
    \/ \E file \in File : WriteFile(file)
    \/ WriteFails
    \/ Commit
    \/ Crash
    \/ Start
    \/ Tick
    \/ StepBack

\* The supervisor restarts the process (deploy/compose.yaml, restart:
\* unless-stopped); nothing else is assumed to go on.
Fairness == WF_vars(Start)

Spec == Init /\ [][Next]_vars /\ Fairness
-----------------------------------------------------------------------------
(* Safety. *)

\* What the service would serve if it were started on the files as they are.
Recovered == Open(disk, clock)

(***************************************************************************)
(* Persist orders its writes so that a crash, or a file that cannot be     *)
(* written, "can only ever duplicate a Household, never lose one": every   *)
(* Household served is on disk as served, except one the save in progress  *)
(* replaces or, by undoing a promotion, takes back.                        *)
(***************************************************************************)
OnDisk(id, h) ==
    \/ disk.document[id] = h
    \/ id \in IDs(disk.trash) /\ disk.trash[id].household = h

Settled(id) ==
    /\ job # None
    /\ id \notin IDs(job.next.trash.val)
    /\ id \in IDs(job.next.document.val) => OnDisk(id, job.next.document.val[id])

NeverLost ==
    served # None =>
        \A id \in IDs(served.document.val) :
            OnDisk(id, served.document.val[id]) \/ Settled(id)

(***************************************************************************)
(* The same of every Household Recently deleted lists: neither the writes  *)
(* of a restore, in whichever order an Undo or a failure leaves them, nor  *)
(* a purge that was to be written with a deletion that then failed, takes  *)
(* it from the disk while it can be restored.                              *)
(***************************************************************************)
DeletedNeverLost ==
    served # None =>
        \A id \in IDs(Purge(served.trash.val, clock)) :
            OnDisk(id, served.trash.val[id].household) \/ Settled(id)

(***************************************************************************)
(* "The retention rule in Purge prevents this; only a hand edit produces   *)
(* it" (ErrUnrestorable): whatever failed or was interrupted, a Household  *)
(* is in the document or in the Trash but not in both, and what an entry   *)
(* needs is in one of them: in the running process, in the state Undo      *)
(* returns to, and after a restart.                                        *)
(***************************************************************************)
Coherent(doc, t) ==
    /\ IDs(doc) \cap IDs(t) = {}
    /\ \A id \in IDs(t) : NeedsOf(t, id) \subseteq IDs(doc) \cup IDs(t)

CoherentState(state) == Coherent(state.document.val, state.trash.val)

NeverUnrestorable ==
    /\ served # None => CoherentState(served)
    /\ undo # None => CoherentState(undo.before)
    /\ CoherentState(Recovered)

(***************************************************************************)
(* Every entry the Recently deleted page lists comes back when the Editor  *)
(* asks, in the running process and after a restart at any moment: its     *)
(* chain is whole, and the document it returns to builds, so that nobody   *)
(* in it is in another Household by then (handleRestore answers 500).      *)
(***************************************************************************)
ListedEntriesRestore(state) ==
    LET doc == state.document.val
        t == state.trash.val
    IN  \A id \in IDs(Purge(t, clock)) :
            Restorable(t, doc, id) /\ Buildable(Restore(t, doc, id).document)

EverythingListedCanBeRestored ==
    /\ served # None => ListedEntriesRestore(served)
    /\ ListedEntriesRestore(Recovered)

(***************************************************************************)
(* "A failed save leaves the served Directory matching the disk" (live.go, *)
(* package comment): between saves, what is served is what is stored.      *)
(***************************************************************************)
ServedMatchesDisk == Idle => disk = ValuesOf(served)

(***************************************************************************)
(* ErrMixedSave: "No save does that today, and Persist relies on it".  A   *)
(* title can always be set, though entries may have expired since the      *)
(* Trash was last written, and an offered Undo is never refused.           *)
(***************************************************************************)
NoSaveIsMixed ==
    Idle =>
        /\ \A title \in Title :
              ~ MixedSave(served, PurgedIfChanged([served EXCEPT !.settings = New(title)]))
        /\ undo # None =>
              ~ MixedSave(served, undo.before) /\ Buildable(undo.before.document.val)

\* The Directory a reader sees, or will see once the service is up again.
Content == IF served # None THEN ValuesOf(served) ELSE ValuesOf(Recovered)

(***************************************************************************)
(* The date Recently deleted shows for an entry (KeptUntil) is honoured:   *)
(* until then no save, Undo, crash, restart or passing of time takes the   *)
(* Household away, though its own 30 days may have ended before.           *)
(***************************************************************************)
KeptUntilHonoured ==
    [][\A id \in IDs(Content.trash) :
          clock' < KeptUntil(Content.trash, id) =>
              id \in IDs(Content'.trash) \cup IDs(Content'.document)]_vars

-----------------------------------------------------------------------------
(* Liveness. *)

\* Whatever is on disk when the process dies is a document the service starts
\* on again.
ServedAgain == served = None ~> served # None
=============================================================================
