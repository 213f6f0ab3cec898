-------------------------------- MODULE Trash --------------------------------
(***************************************************************************)
(* The Trash: where a deleted Household waits out its retention            *)
(* (internal/store/trash.go).                                              *)
(*                                                                         *)
(* The Trash is a partial function from the ID of a deleted Household to   *)
(* its entry.  The Path an entry records is only displayed and is left     *)
(* out.  The code walks an entry's needs with recursive closures guarded   *)
(* by a visited set; here the same set is the least one closed under       *)
(* needs.                                                                  *)
(***************************************************************************)
EXTENDS Rolo, Naturals

CONSTANT Retention      \* TrashRetention, in clock ticks

ASSUME RetentionAssumption == Retention \in Nat \ {0}

Entry == [deletedAt : Nat, household : Household]

ASSUME NoEntryAssumption == None \notin Entry

TrashOf == [HouseholdID -> Entry \cup {None}]

EmptyTrash == [id \in HouseholdID |-> None]

Expires(entry) == entry.deletedAt + Retention

NeedsOf(t, id) == Needs(t[id].household)

\* What the entries from need to be restorable, directly or through another
\* entry: the walk goes on from IDs that t holds and stops at the others.
NeedClosure(t, from) ==
    {id \in HouseholdID :
        \A ids \in SUBSET HouseholdID :
            /\ from \subseteq ids
            /\ \A other \in ids \cap IDs(t) : NeedsOf(t, other) \subseteq ids
            => id \in ids}

Unexpired(t, now) == {id \in IDs(t) : now < Expires(t[id])}

\* A variant that drops an entry as soon as its own time is up.
PurgeExpiredOnly(t, now) == Only(t, Unexpired(t, now))

\* Purge keeps an expired entry while an unexpired one needs it.
Purge(t, now) == Only(t, NeedClosure(t, Unexpired(t, now)))

\* A variant of Reconcile that leaves what a crash duplicated.
ReconcileNothing(t, doc) == t

\* Reconcile: the document wins over an entry a crash left in both files.
Reconcile(t, doc) == Only(t, HouseholdID \ IDs(doc))

\* Chain: everything that must come back for id to come back.  What is in the
\* document already needs nothing.
Chain(t, doc, id) == NeedClosure(Reconcile(t, doc), {id}) \ IDs(doc)

\* Chain refuses an entry that is not in the Trash, or is a stale duplicate of
\* a Household in the document (ErrNotInTrash), or whose needs are in neither
\* (ErrUnrestorable).
Restorable(t, doc, id) ==
    /\ id \in IDs(t) \ IDs(doc)
    /\ Chain(t, doc, id) \subseteq IDs(t)

Restore(t, doc, id) ==
    LET chain == Chain(t, doc, id) IN
    [document |-> [back \in HouseholdID |->
                      IF back \in chain THEN t[back].household ELSE doc[back]],
     trash    |-> Only(t, HouseholdID \ chain)]

\* Delete refuses a Household that is not in the document (ErrNotInDocument)
\* and one something depends on (ErrBlocked).
Deletable(doc, id) == id \in IDs(doc) /\ ~ DeleteBlocked(doc, id)

Delete(t, doc, id, now) ==
    [document |-> [doc EXCEPT ![id] = None],
     trash    |-> [t EXCEPT ![id] = [deletedAt |-> now, household |-> doc[id]]]]

-----------------------------------------------------------------------------
(* KeptUntil, the date the Recently deleted page shows for an entry. *)

KeptUntil(t, id) ==
    LET holders == {other \in IDs(t) : id \in NeedClosure(t, {other})} IN
    CHOOSE date \in {Expires(t[other]) : other \in holders} :
        \A other \in holders : Expires(t[other]) <= date
=============================================================================
