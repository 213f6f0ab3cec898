-------------------------------- MODULE Apply --------------------------------
(***************************************************************************)
(* What saving a Household's form does to the document                     *)
(* (internal/web/apply.go).                                                *)
(*                                                                         *)
(* A submission carries, for each Person its form named, whether to remove *)
(* them, whether to give them a Household of their own, and every field.   *)
(* Names, dates of birth, contact details and the Address lines change no  *)
(* decision and are left out; a date of death does, through IsMemorial.    *)
(* Nothing in a form changes a Household's parent or whose Address it      *)
(* shares.                                                                 *)
(***************************************************************************)
EXTENDS Rolo, Naturals

Submission ==
    [named        : SUBSET PersonID,            \* people the form carries
     removed      : SUBSET PersonID,            \* "Remove from the directory"
     promoted     : SUBSET PersonID,            \* "a household of their own"
     dead         : SUBSET PersonID,            \* those with a date of death
     newAdult     : PersonID \cup {None},       \* the ID minted for each filled
     newDependent : PersonID \cup {None}]       \* blank slot

\* parseSubmission: keys naming a Person who is not in the Household are ignored,
\* as a form posted from a page the document has moved past may carry.
ParseSubmission(h, sub) == [sub EXCEPT !.named = @ \cap People(h)]

MaxAdults == 2

Removed(sub) == sub.removed \cap sub.named

Promoted(sub) == sub.promoted \cap sub.named

\* A variant that counts the slots left blank.
NewSlots(sub) == {sub.newAdult, sub.newDependent}

NewPeople(sub) == {sub.newAdult, sub.newDependent} \ {None}

\* applyPerson: a named Person's fields are overwritten, another's are kept.
DeadAfter(h, sub) == (h.dead \ sub.named) \cup (sub.dead \cap (sub.named \cup NewPeople(sub)))

\* A variant that lets an adult's Promote take them out of the group.
DropPromotedAdults(people, sub, promotable) == people \ (Removed(sub) \cup Promoted(sub))

\* applyToGroup: Promote means something for a Dependent only.
ApplyToGroup(people, sub, promotable) ==
    {p \in people : ~ (p \in Removed(sub)) /\ ~ (promotable /\ p \in Promoted(sub))}

\* promote reads the Dependents as the document holds them, whether or not they
\* are also to be removed.
Promotions(h, sub) == h.dependents \cap Promoted(sub)

AdultsAfter(h, sub) ==
    ApplyToGroup(h.adults, sub, FALSE) \cup ({sub.newAdult} \ {None})

DependentsAfter(h, sub) ==
    ApplyToGroup(h.dependents, sub, TRUE) \cup ({sub.newDependent} \ {None})

\* A variant that is off by one.
RoomForOneMore(h, sub) ==
    sub.newAdult # None => Cardinality(ApplyToGroup(h.adults, sub, FALSE)) <= MaxAdults

\* Room for a new adult is what the removals of the same save leave.
RoomForNewAdult(h, sub) ==
    sub.newAdult # None => Cardinality(ApplyToGroup(h.adults, sub, FALSE)) < MaxAdults

\* The submissions applySubmission does not refuse.
Applicable(doc, id, sub) ==
    /\ id \in IDs(doc)
    /\ RoomForNewAdult(doc[id], sub)
    /\ AdultsAfter(doc[id], sub) # {}

\* A variant that leaves the new Household at the root.
PromotedToRoot(id, p, dead) ==
    [parent |-> None, sharedWith |-> None,
     adults |-> {p}, dependents |-> {}, dead |-> dead \cap {p}]

\* The Household of a promoted Person: theirs alone, beneath the one they left.
PromotedHousehold(id, p, dead) ==
    [parent |-> id, sharedWith |-> None,
     adults |-> {p}, dependents |-> {}, dead |-> dead \cap {p}]

\* mint is the new Household ID of each promoted Person.
ApplySubmission(doc, id, sub, mint) ==
    LET h == doc[id]
        dead == DeadAfter(h, sub)
        adults == AdultsAfter(h, sub)
        dependents == DependentsAfter(h, sub)
        minted == {mint[p] : p \in DOMAIN mint}
    IN  [other \in HouseholdID |->
            IF other \in minted
            THEN PromotedHousehold(id, CHOOSE p \in DOMAIN mint : mint[p] = other, dead)
            ELSE IF other = id
            THEN [h EXCEPT !.adults = adults,
                           !.dependents = dependents,
                           !.dead = dead \cap (adults \cup dependents)]
            ELSE doc[other]]

\* Identities the newPersonID and newHouseholdID generators may return: drawn at
\* random, so taken to be none that is in use.
MintedFor(h, sub, fresh) == Injection(Promotions(h, sub), fresh)
=============================================================================
