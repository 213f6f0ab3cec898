----------------------------- MODULE AtomicFile -----------------------------
(***************************************************************************)
(* Saving one file (writeFileAtomic, internal/store/atomic.go): a          *)
(* temporary file is written, flushed and renamed over the target.  Live's *)
(* WriteFile and WriteFails take a save of a file to be all or nothing;    *)
(* this module is why.                                                     *)
(*                                                                         *)
(* The filesystem is external: a rename takes effect at once for readers   *)
(* and reaches the platter at some later time, and what was written to a   *)
(* file and not flushed may be partly or wholly missing after a power      *)
(* loss.  Each save creates a temporary file of a new name, so one left by *)
(* a process that died is never written again.                             *)
(***************************************************************************)
EXTENDS Naturals

CONSTANTS
    Content,    \* what may be saved
    Torn,       \* contents that are not all there
    None

ASSUME ContentAssumption == Torn \notin Content

VARIABLES
    file,       \* the file a reader of the path finds
    older,      \* the file the path names on the platter, when not that one
    tmp,        \* the temporary file of the save in progress
    step,       \* what the save in progress does next
    next,       \* what it saves
    before,     \* what the path held when it began
    answer      \* how the latest save ended

vars == <<file, older, tmp, step, next, before, answer>>

Stored == [data : Content \cup {Torn}, flushed : BOOLEAN]

\* None is where there is no file.
ASSUME NoFileAssumption == None \notin Stored

Step == {"idle", "create", "write", "sync", "rename"}

TypeOK ==
    /\ file \in Stored
    /\ older \in Stored \cup {None}
    /\ tmp \in Stored \cup {None}
    /\ step \in Step
    /\ next \in Content
    /\ before \in Content \cup {Torn}
    /\ answer \in {"none", "saved", "failed"}
    /\ tmp # None <=> step \in {"write", "sync", "rename"}

Init ==
    /\ file \in [data : Content, flushed : {TRUE}]
    /\ older = None
    /\ tmp = None
    /\ step = "idle"
    /\ next = file.data
    /\ before = file.data
    /\ answer = "none"

Begin(content) ==
    /\ step = "idle"
    /\ next' = content
    /\ before' = file.data
    /\ step' = "create"
    /\ answer' = "none"
    /\ UNCHANGED <<file, older, tmp>>

\* os.CreateTemp and Chmod.
Create ==
    /\ step = "create"
    /\ tmp' = [data |-> Torn, flushed |-> FALSE]
    /\ step' = "write"
    /\ UNCHANGED <<file, older, next, before, answer>>

\* A variant that goes on to the rename without flushing.
WriteWithoutSync ==
    /\ step = "write"
    /\ tmp' = [data |-> next, flushed |-> FALSE]
    /\ step' = "rename"
    /\ UNCHANGED <<file, older, next, before, answer>>

Write ==
    /\ step = "write"
    /\ tmp' = [data |-> next, flushed |-> FALSE]
    /\ step' = "sync"
    /\ UNCHANGED <<file, older, next, before, answer>>

\* A variant that renames first and flushes after.
RenameThenSync ==
    /\ step = "sync"
    /\ file' = tmp
    /\ older' = IF older = None THEN file ELSE older
    /\ tmp' = [tmp EXCEPT !.flushed = TRUE]
    /\ step' = "rename"
    /\ UNCHANGED <<next, before, answer>>

\* Sync and Close.
Sync ==
    /\ step = "sync"
    /\ tmp' = [tmp EXCEPT !.flushed = TRUE]
    /\ step' = "rename"
    /\ UNCHANGED <<file, older, next, before, answer>>

Rename ==
    /\ step = "rename"
    /\ file' = tmp
    /\ older' = IF older = None THEN file ELSE older
    /\ tmp' = None
    /\ step' = "idle"
    /\ answer' = "saved"
    /\ UNCHANGED <<next, before>>

\* A variant that returns the error and leaves the temporary file behind.
FailLeavingTemp ==
    /\ step # "idle"
    /\ step' = "idle"
    /\ answer' = "failed"
    /\ UNCHANGED <<file, older, tmp, next, before>>

\* Any step may fail: the temporary file is removed and the error returned.
Fail ==
    /\ step # "idle"
    /\ tmp' = None
    /\ step' = "idle"
    /\ answer' = "failed"
    /\ UNCHANGED <<file, older, next, before>>

\* The process dies.  The temporary file stays, under a name nothing reads; what
\* was renamed is still the kernel's to flush.
Crash ==
    /\ step # "idle"
    /\ tmp' = None
    /\ step' = "idle"
    /\ UNCHANGED <<file, older, next, before, answer>>

\* The kernel writes the directory back.
DirectoryReachesPlatter ==
    /\ older # None
    /\ older' = None
    /\ UNCHANGED <<file, tmp, step, next, before, answer>>

\* What a file holds after a power loss.
Survivor(stored) ==
    [data : IF stored.flushed THEN {stored.data} ELSE {stored.data, Torn}, flushed : {TRUE}]

\* The power fails: the path names what it names on the platter.
PowerLoss ==
    /\ file' \in Survivor(IF older = None THEN file ELSE older)
    /\ older' = None
    /\ tmp' = None
    /\ step' = "idle"
    /\ answer' = "none"
    /\ UNCHANGED <<next, before>>

Next ==
    \/ \E content \in Content : Begin(content)
    \/ Create
    \/ Write
    \/ Sync
    \/ Rename
    \/ Fail
    \/ Crash
    \/ DirectoryReachesPlatter
    \/ PowerLoss

Spec == Init /\ [][Next]_vars

-----------------------------------------------------------------------------

(***************************************************************************)
(* "A reader sees either the previous contents or the complete new         *)
(* contents, never a partial write", and so does a start after the power   *)
(* failed at any moment.                                                   *)
(***************************************************************************)
NeverTorn == file.data # Torn

(***************************************************************************)
(* A save that is answered with an error has changed nothing: one of       *)
(* several files failing leaves that file, and only the others, as it was. *)
(***************************************************************************)
FailedSaveChangesNothing == answer = "failed" => file.data = before
=============================================================================
