-------------------------------- MODULE Rolo --------------------------------
(***************************************************************************)
(* Households, the documents they form and the tree a document must build  *)
(* (pkg/rolo).                                                             *)
(*                                                                         *)
(* A document is a flat slice of Households whose IDs are distinct; its    *)
(* order only matters to display, so a document is a partial function from *)
(* HouseholdID.  A Person is their ID: the only attribute of a Person that *)
(* decides whether an operation is allowed is being deceased, which the    *)
(* Household carries as the set dead.                                      *)
(*                                                                         *)
(* A partial function from HouseholdID, here and in Trash, is a function   *)
(* that is None where there is nothing.                                    *)
(***************************************************************************)
EXTENDS FiniteSets, Functions

CONSTANTS
    HouseholdID,    \* Household IDs
    PersonID,       \* Person IDs
    None            \* the empty ID, and "absent" for optional values

Household ==
    [parent     : HouseholdID \cup {None},
     sharedWith : HouseholdID \cup {None},
     adults     : SUBSET PersonID,
     dependents : SUBSET PersonID,
     dead       : SUBSET PersonID]

\* The empty string is nobody's ID, and nil is no Household.
ASSUME NoneAssumption == None \notin HouseholdID \cup PersonID \cup Household

Document == [HouseholdID -> Household \cup {None}]

\* liveIDs: what a partial function holds.
IDs(f) == {id \in HouseholdID : f[id] # None}

Only(f, ids) == [id \in HouseholdID |-> IF id \in ids THEN f[id] ELSE None]

People(h) == h.adults \cup h.dependents

PeopleOf(doc) == UNION {People(doc[id]) : id \in IDs(doc)}

\* The Households h cannot exist without: the parent that anchors its Path and
\* the Household whose Address it shares.
Needs(h) == {h.parent, h.sharedWith} \ {None}

-----------------------------------------------------------------------------
(* Building the tree.  BuildTree refuses a document that fails any of these. *)

\* index: every Household has an adult.
HasAdults(doc) == \A id \in IDs(doc) : doc[id].adults # {}

\* index: a Person belongs to exactly one group of exactly one Household.
PersonsUnique(doc) ==
    /\ \A id \in IDs(doc) : doc[id].adults \cap doc[id].dependents = {}
    /\ \A id, other \in IDs(doc) :
          id # other => People(doc[id]) \cap People(doc[other]) = {}

\* checkSharedAddresses and link: what a Household refers to is in the document.
ReferencesExist(doc) == \A id \in IDs(doc) : Needs(doc[id]) \subseteq IDs(doc)

\* detectCycles: every Household reaches a root by following parent links.
\* Sharing an Address may be circular; being beneath one another may not.
Acyclic(doc) ==
    \A ids \in (SUBSET IDs(doc)) \ {{}} : \E id \in ids : doc[id].parent \notin ids

Buildable(doc) ==
    /\ HasAdults(doc)
    /\ PersonsUnique(doc)
    /\ ReferencesExist(doc)
    /\ Acyclic(doc)

-----------------------------------------------------------------------------
(* Deleting a Household that something depends on is refused. *)

IsMemorial(h) == h.adults # {} /\ h.adults \subseteq h.dead

Children(doc, id) == {child \in IDs(doc) : doc[child].parent = id}

Sharers(doc, id) == {sharer \in IDs(doc) : doc[sharer].sharedWith = id}

DeleteBlocked(doc, id) ==
    \/ IsMemorial(doc[id])
    \/ Children(doc, id) # {}
    \/ Sharers(doc, id) # {}
=============================================================================
