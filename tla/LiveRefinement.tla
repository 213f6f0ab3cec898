--------------------------- MODULE LiveRefinement ---------------------------
(***************************************************************************)
(* Live implements Directory: the content is what is served while the      *)
(* process is up, and what a start would recover from the files while it   *)
(* is down.                                                                *)
(***************************************************************************)
EXTENDS Live

UndoPointValues == [token : Nat, before : Disk]

JobValues == [next : Disk, undo : UndoPointValues \cup {None}]

\* Nothing is neither the values of an undo point nor those of a save.
ASSUME NilValuesAssumption == None \notin UndoPointValues \cup JobValues

UndoValues(point) ==
    IF point = None THEN None
    ELSE [token |-> point.token, before |-> ValuesOf(point.before)]

Pending ==
    IF job = None THEN None
    ELSE [next |-> ValuesOf(job.next), undo |-> UndoValues(job.undo)]

Promise ==
    INSTANCE Directory WITH
        content <- Content,
        undo <- UndoValues(undo),
        pending <- Pending,
        tokens <- saves

(***************************************************************************)
(* A save is atomic however the process dies: every reader, and every      *)
(* start after a crash between any two file writes, sees the Directory     *)
(* before the save or after it and nothing in between; an Undo returns to  *)
(* exactly the content before the latest save, once, and not across a      *)
(* restart; and an entry leaves the Trash only by a restore, an Undo, or   *)
(* because it has expired and nothing unexpired needs it.                  *)
(***************************************************************************)
ImplementsDirectory == Promise!Spec
=============================================================================
