-------------------------- MODULE AtomicFileProofs --------------------------
(* Theorems about AtomicFile, whatever is saved and however often. *)
EXTENDS AtomicFile, TLAPS

-----------------------------------------------------------------------------
(* Types. *)

LEMMA FileTypeInit == Init => TypeOK
  BY DEF Init, TypeOK, Stored, Step

\* What is left of a file after a power loss is a file.
LEMMA SurvivorType ==
    ASSUME NEW stored \in Stored
    PROVE  Survivor(stored) \subseteq Stored
  BY DEF Survivor, Stored

LEMMA FileTypeStep == TypeOK /\ [Next]_vars => TypeOK'
  <1> SUFFICES ASSUME TypeOK, [Next]_vars
               PROVE  TypeOK'
    OBVIOUS
  <1> USE NoFileAssumption DEF TypeOK, Step
  <1>1. ASSUME NEW content \in Content, Begin(content)
        PROVE  TypeOK'
    BY <1>1 DEF Begin, Stored
  <1>2. CASE Create
    <2>1. tmp' \in Stored
      BY <1>2 DEF Create, Stored
    <2>2. QED
      BY <1>2, <2>1 DEF Create
  <1>3. CASE Write
    <2>1. tmp' \in Stored
      BY <1>3 DEF Write, Stored
    <2>2. QED
      BY <1>3, <2>1 DEF Write
  <1>4. CASE Sync
    BY <1>4 DEF Sync, Stored
  <1>5. CASE Rename
    BY <1>5 DEF Rename
  <1>6. CASE Fail
    BY <1>6 DEF Fail
  <1>7. CASE Crash
    BY <1>7 DEF Crash
  <1>8. CASE DirectoryReachesPlatter
    BY <1>8 DEF DirectoryReachesPlatter
  <1>9. CASE PowerLoss
    <2>1. file' \in Stored
      BY <1>9, SurvivorType DEF PowerLoss
    <2>2. QED
      BY <1>9, <2>1 DEF PowerLoss
  <1>10. CASE UNCHANGED vars
    BY <1>10 DEF vars
  <1>11. QED
    BY <1>1, <1>2, <1>3, <1>4, <1>5, <1>6, <1>7, <1>8, <1>9, <1>10 DEF Next

(***************************************************************************)
(* Every variable of a file being saved has its type, and there is a       *)
(* temporary file exactly while writeFileAtomic is using one.              *)
(***************************************************************************)
THEOREM FileTypeCorrect == Spec => []TypeOK
  BY FileTypeInit, FileTypeStep, PTL DEF Spec

-----------------------------------------------------------------------------
(* Nothing but a whole and flushed file ever bears the path. *)

Whole(stored) == stored.flushed /\ stored.data # Torn

\* What the path names, for a reader and on the platter, is whole; so is the
\* temporary file once it is next to be renamed.
WholeFiles ==
    /\ Whole(file)
    /\ older # None => Whole(older)
    /\ step = "sync" => tmp.data # Torn
    /\ step = "rename" => Whole(tmp)

LEMMA WholeInit == Init => WholeFiles
  BY ContentAssumption DEF Init, WholeFiles, Whole

\* A whole file survives a power loss as it was.
LEMMA WholeSurvives ==
    ASSUME NEW stored, Whole(stored), NEW left \in Survivor(stored)
    PROVE  Whole(left)
  BY DEF Whole, Survivor

LEMMA WholeStep == TypeOK /\ WholeFiles /\ [Next]_vars => WholeFiles'
  <1> SUFFICES ASSUME TypeOK, WholeFiles, [Next]_vars
               PROVE  WholeFiles'
    OBVIOUS
  <1> USE ContentAssumption DEF WholeFiles, Whole
  <1>1. ASSUME NEW content \in Content, Begin(content)
        PROVE  WholeFiles'
    BY <1>1 DEF Begin
  <1>2. CASE Create
    BY <1>2 DEF Create
  <1>3. CASE Write
    BY <1>3 DEF Write, TypeOK
  <1>4. CASE Sync
    BY <1>4 DEF Sync, TypeOK, Stored
  <1>5. CASE Rename
    BY <1>5 DEF Rename
  <1>6. CASE Fail
    BY <1>6 DEF Fail
  <1>7. CASE Crash
    BY <1>7 DEF Crash
  <1>8. CASE DirectoryReachesPlatter
    BY <1>8 DEF DirectoryReachesPlatter
  <1>9. CASE PowerLoss
    <2>1. PICK stored : Whole(stored) /\ file' \in Survivor(stored)
      BY <1>9 DEF PowerLoss
    <2>2. Whole(file)'
      BY <2>1, WholeSurvives
    <2>3. QED
      BY <1>9, <2>2 DEF PowerLoss
  <1>10. CASE UNCHANGED vars
    BY <1>10 DEF vars
  <1>11. QED
    BY <1>1, <1>2, <1>3, <1>4, <1>5, <1>6, <1>7, <1>8, <1>9, <1>10 DEF Next

(***************************************************************************)
(* A reader, and a start after the power failed at any moment, finds a     *)
(* complete file (writeFileAtomic: "never a partial write").               *)
(***************************************************************************)
THEOREM FileNeverTorn == Spec => []NeverTorn
  <1>1. WholeFiles => NeverTorn
    BY DEF WholeFiles, Whole, NeverTorn
  <1>2. QED
    BY <1>1, WholeInit, WholeStep, FileTypeCorrect, PTL DEF Spec

-----------------------------------------------------------------------------
(* A save that failed changed nothing. *)

\* Until the rename, the path holds what it held when the save began.
Untouched == step # "idle" \/ answer = "failed" => file.data = before

LEMMA UntouchedStep == TypeOK /\ Untouched /\ [Next]_vars => Untouched'
  <1> SUFFICES ASSUME TypeOK, Untouched, [Next]_vars
               PROVE  Untouched'
    OBVIOUS
  <1> USE DEF Untouched
  <1>1. ASSUME NEW content \in Content, Begin(content)
        PROVE  Untouched'
    BY <1>1 DEF Begin
  <1>2. CASE Create
    BY <1>2 DEF Create
  <1>3. CASE Write
    BY <1>3 DEF Write
  <1>4. CASE Sync
    BY <1>4 DEF Sync
  <1>5. CASE Rename
    BY <1>5 DEF Rename
  <1>6. CASE Fail
    BY <1>6 DEF Fail
  <1>7. CASE Crash
    BY <1>7 DEF Crash
  <1>8. CASE DirectoryReachesPlatter
    BY <1>8 DEF DirectoryReachesPlatter
  <1>9. CASE PowerLoss
    BY <1>9 DEF PowerLoss
  <1>10. CASE UNCHANGED vars
    BY <1>10 DEF vars
  <1>11. QED
    BY <1>1, <1>2, <1>3, <1>4, <1>5, <1>6, <1>7, <1>8, <1>9, <1>10 DEF Next

(***************************************************************************)
(* A save answered with an error left the file as it was: Persist, and the *)
(* handlers' claim that a refused save changed nothing, rest on it.        *)
(***************************************************************************)
THEOREM FailedFileUnchanged == Spec => []FailedSaveChangesNothing
  <1>1. Init => Untouched
    BY DEF Init, Untouched
  <1>2. Untouched => FailedSaveChangesNothing
    BY DEF Untouched, FailedSaveChangesNothing
  <1>3. QED
    BY <1>1, <1>2, UntouchedStep, FileTypeCorrect, PTL DEF Spec
=============================================================================
