-------------------------------- MODULE Store --------------------------------
(***************************************************************************)
(* The three files and the order they are written and read in              *)
(* (internal/store/state.go).                                              *)
(*                                                                         *)
(* What the service holds in memory are pointers to values that are never  *)
(* mutated, and a change is told by comparing pointers.  A pointer is the  *)
(* value with the number of the save that built it, 0 for a value loaded   *)
(* from disk.                                                              *)
(***************************************************************************)
EXTENDS Trash

CONSTANT Title          \* Directory Titles

Pointer(S) == [ref : Nat, val : S]

State == [document : Pointer(Document), trash : Pointer(TrashOf), settings : Pointer(Title)]

Disk == [document : Document, trash : TrashOf, settings : Title]

File == {"document", "trash", "settings"}

ValuesOf(state) ==
    [document |-> state.document.val, trash |-> state.trash.val, settings |-> state.settings.val]

-----------------------------------------------------------------------------
(* Persist: which files a save writes, and in which order. *)

Changed(prev, next) == {file \in File : next[file] # prev[file]}

\* ErrMixedSave: the settings are only ever written on their own.
MixedSave(prev, next) == "settings" \in Changed(prev, next) /\ Changed(prev, next) # {"settings"}

GainsHousehold(prev, next) ==
    ~ (IDs(next.document.val) \subseteq IDs(prev.document.val))

\* A variant that always writes the document before the Trash.
DocumentFirst(prev, next) == "document"

\* A variant that always writes the Trash before the document.
TrashFirst(prev, next) == "trash"

\* The file that must be on disk before the other: a Household that arrives in
\* the document is leaving the Trash.
FirstFile(prev, next) == IF GainsHousehold(prev, next) THEN "document" ELSE "trash"

-----------------------------------------------------------------------------
(* Open: what a start serves. *)

\* OpenTrash reconciles, then purges.
OpenTrash(disk, now) == Purge(Reconcile(disk.trash, disk.document), now)

Loaded(value) == [ref |-> 0, val |-> value]

Open(disk, now) ==
    [document |-> Loaded(disk.document),
     trash    |-> Loaded(OpenTrash(disk, now)),
     settings |-> Loaded(disk.settings)]
=============================================================================
