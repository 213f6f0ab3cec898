----------------------------- MODULE ApplyProofs -----------------------------
(***************************************************************************)
(* What saving a form makes of any document that builds: a document that   *)
(* builds, with the same Households and one more for each Person promoted. *)
(***************************************************************************)
EXTENDS Apply, FiniteSetTheorems, TLAPS

\* What applySubmission needs of a form and of the IDs minted for it.
Accepted(doc, id, sub, mint) ==
    /\ id \in IDs(doc)
    /\ sub \in Submission
    /\ mint \in MintedFor(doc[id], sub, HouseholdID \ IDs(doc))
    /\ Applicable(doc, id, sub)
    /\ NewPeople(sub) \cap PeopleOf(doc) = {}
    /\ sub.newAdult = sub.newDependent => sub.newAdult = None

Minted(mint) == {mint[p] : p \in DOMAIN mint}

LEMMA ApplyType ==
    ASSUME NEW doc \in Document, NEW id \in IDs(doc), NEW sub \in Submission,
           NEW fresh \in SUBSET HouseholdID, NEW mint \in MintedFor(doc[id], sub, fresh)
    PROVE  ApplySubmission(doc, id, sub, mint) \in Document
<1> DEFINE h == doc[id]
           dead == DeadAfter(h, sub)
           minted == {mint[p] : p \in DOMAIN mint}
           adults == AdultsAfter(h, sub)
           dependents == DependentsAfter(h, sub)
           who(other) == CHOOSE p \in DOMAIN mint : mint[p] = other
           kept == [h EXCEPT !.adults = adults, !.dependents = dependents,
                             !.dead = dead \cap (adults \cup dependents)]
<1>1. id \in HouseholdID /\ h \in Household
  BY DEF Document, IDs
<1>2. adults \in SUBSET PersonID /\ dependents \in SUBSET PersonID
  BY <1>1 DEF AdultsAfter, DependentsAfter, ApplyToGroup, Household, Submission
<1>3. dead \in SUBSET PersonID
  BY <1>1 DEF DeadAfter, NewPeople, Household, Submission
<1>4. kept \in Household
  BY <1>1, <1>2, <1>3 DEF Household
<1>5. ASSUME NEW other \in minted
      PROVE  PromotedHousehold(id, who(other), dead) \in Household
  <2>1. mint \in [Promotions(h, sub) -> fresh]
    BY DEF MintedFor, Injection
  <2>2. DOMAIN mint = Promotions(h, sub)
    BY <2>1
  <2>3. who(other) \in DOMAIN mint
    BY <1>5
  <2>4. who(other) \in PersonID
    BY <2>2, <2>3, <1>1 DEF Promotions, Household
  <2> QED
    BY <2>4, <1>1, <1>3 DEF PromotedHousehold, Household
<1> QED
  BY <1>1, <1>4, <1>5 DEF ApplySubmission, Document

-----------------------------------------------------------------------------
(* The new document, Household by Household. *)

\* Each Person promoted gets an ID of their own, which no Household has.
LEMMA MintedApart ==
    ASSUME NEW doc \in Document, NEW id, NEW sub, NEW mint, Accepted(doc, id, sub, mint)
    PROVE  /\ DOMAIN mint = Promotions(doc[id], sub)
           /\ Minted(mint) \subseteq HouseholdID \ IDs(doc)
           /\ \A p, q \in Promotions(doc[id], sub) : mint[p] = mint[q] => p = q
<1>1. mint \in Injection(Promotions(doc[id], sub), HouseholdID \ IDs(doc))
  BY DEF Accepted, MintedFor
<1> QED
  BY <1>1 DEF Injection, IsInjective, Minted

LEMMA AfterSave ==
    ASSUME NEW doc \in Document, NEW id, NEW sub, NEW mint, Accepted(doc, id, sub, mint),
           NEW after, after = ApplySubmission(doc, id, sub, mint),
           NEW h, h = doc[id]
    PROVE  /\ \A other \in HouseholdID \ (Minted(mint) \cup {id}) : after[other] = doc[other]
           /\ after[id] \in Household
           /\ after[id].parent = h.parent /\ after[id].sharedWith = h.sharedWith
           /\ after[id].adults = AdultsAfter(h, sub)
           /\ after[id].dependents = DependentsAfter(h, sub)
           /\ \A p \in Promotions(h, sub) :
                 /\ after[mint[p]].parent = id /\ after[mint[p]].sharedWith = None
                 /\ after[mint[p]].adults = {p} /\ after[mint[p]].dependents = {}
           /\ IDs(after) = IDs(doc) \cup Minted(mint)
<1> DEFINE dead == DeadAfter(h, sub)
           adults == AdultsAfter(h, sub)
           dependents == DependentsAfter(h, sub)
           kept == [h EXCEPT !.adults = adults, !.dependents = dependents,
                             !.dead = dead \cap (adults \cup dependents)]
<1>1. id \in IDs(doc) /\ id \in HouseholdID /\ h \in Household /\ sub \in Submission
  BY DEF Accepted, Document, IDs
<1>2. after \in Document
  BY <1>1, ApplyType DEF Accepted
<1>3. id \notin Minted(mint)
  BY <1>1, MintedApart
<1>4. \A other \in HouseholdID \ (Minted(mint) \cup {id}) : after[other] = doc[other]
  BY DEF ApplySubmission, Minted
<1>5. after[id] = kept
  BY <1>1, <1>3 DEF ApplySubmission, Minted
<1>6. ASSUME NEW p \in Promotions(h, sub)
      PROVE  after[mint[p]] = PromotedHousehold(id, p, dead)
  <2>1. mint[p] \in Minted(mint) /\ p \in DOMAIN mint
    BY MintedApart DEF Minted
  <2>2. mint[p] \in HouseholdID
    BY <2>1, MintedApart
  <2>3. after[mint[p]] =
           PromotedHousehold(id, CHOOSE q \in DOMAIN mint : mint[q] = mint[p], dead)
    BY <2>1, <2>2 DEF ApplySubmission, Minted
  <2>4. (CHOOSE q \in DOMAIN mint : mint[q] = mint[p]) = p
    BY <2>1, MintedApart
  <2> QED
    BY <2>3, <2>4
<1>7. after[id].parent = h.parent /\ after[id].sharedWith = h.sharedWith
      /\ after[id].adults = adults /\ after[id].dependents = dependents
  BY <1>1, <1>5 DEF Household
<1>8. kept \in Household
  <2>1. adults \in SUBSET PersonID /\ dependents \in SUBSET PersonID
    BY <1>1 DEF AdultsAfter, DependentsAfter, ApplyToGroup, Household, Submission
  <2>2. dead \in SUBSET PersonID
    BY <1>1 DEF DeadAfter, NewPeople, Household, Submission
  <2> QED
    BY <1>1, <2>1, <2>2 DEF Household
<1>9. ASSUME NEW other \in Minted(mint)
      PROVE  after[other] # None
  <2>1. PICK p \in Promotions(h, sub) : other = mint[p]
    BY MintedApart DEF Minted
  <2>2. p \in PersonID
    BY <1>1 DEF Promotions, Household
  <2>3. dead \in SUBSET PersonID
    BY <1>1 DEF DeadAfter, NewPeople, Household, Submission
  <2>4. PromotedHousehold(id, p, dead) \in Household
    BY <1>1, <2>2, <2>3 DEF PromotedHousehold, Household
  <2> QED
    BY <1>6, <2>1, <2>4, NoneAssumption
<1>10. IDs(after) = IDs(doc) \cup Minted(mint)
  <2>1. Minted(mint) \subseteq HouseholdID
    BY MintedApart
  <2>2. after[id] # None
    BY <1>5, <1>8, NoneAssumption
  <2> QED
    BY <1>1, <1>4, <1>9, <2>1, <2>2 DEF IDs
<1>11. \A p \in Promotions(h, sub) :
          /\ after[mint[p]].parent = id /\ after[mint[p]].sharedWith = None
          /\ after[mint[p]].adults = {p} /\ after[mint[p]].dependents = {}
  <2> TAKE p \in Promotions(h, sub)
  <2>1. after[mint[p]] = PromotedHousehold(id, p, dead)
    BY <1>6
  <2> HIDE DEF dead
  <2> QED
    BY <2>1 DEF PromotedHousehold
<1> HIDE DEF kept, adults, dependents
<1>12. after[id] \in Household
  BY <1>5, <1>8
<1> USE DEF adults, dependents
<1> QED
  BY <1>4, <1>7, <1>10, <1>11, <1>12

\* Whom the document has after the save, where they were or are added.
LEMMA WhoIsWhere ==
    ASSUME NEW doc \in Document, NEW id, NEW sub, NEW mint, Accepted(doc, id, sub, mint)
    PROVE  LET h == doc[id] IN
           /\ AdultsAfter(h, sub) \subseteq (h.adults \cup NewPeople(sub))
           /\ DependentsAfter(h, sub) \subseteq (h.dependents \cup NewPeople(sub))
           /\ Promotions(h, sub) \subseteq h.dependents
           /\ Promotions(h, sub) \cap DependentsAfter(h, sub) = {}
           /\ \A p \in h.dependents : p \notin NewPeople(sub)
           /\ \A p \in h.adults : p \notin NewPeople(sub)
<1>1. id \in IDs(doc) /\ NewPeople(sub) \cap PeopleOf(doc) = {}
  BY DEF Accepted
<1>2. People(doc[id]) \subseteq PeopleOf(doc)
  BY <1>1 DEF PeopleOf
<1> QED
  BY <1>1, <1>2 DEF AdultsAfter, DependentsAfter, ApplyToGroup, Promotions, NewPeople, People

-----------------------------------------------------------------------------
(* The document builds. *)

LEMMA StillUnique ==
    ASSUME NEW doc \in Document, NEW id, NEW sub, NEW mint, Accepted(doc, id, sub, mint),
           NEW after, after = ApplySubmission(doc, id, sub, mint),
           PersonsUnique(doc)
    PROVE  PersonsUnique(after)
<1> DEFINE h == doc[id]
           minted == Minted(mint)
<1>1. id \in IDs(doc) /\ NewPeople(sub) \cap PeopleOf(doc) = {}
  BY DEF Accepted
<1>2. /\ \A other \in HouseholdID \ (minted \cup {id}) : after[other] = doc[other]
      /\ after[id].adults = AdultsAfter(h, sub)
      /\ after[id].dependents = DependentsAfter(h, sub)
      /\ \A p \in Promotions(h, sub) :
            after[mint[p]].adults = {p} /\ after[mint[p]].dependents = {}
      /\ IDs(after) = IDs(doc) \cup minted
  BY AfterSave
<1>3. minted = {mint[p] : p \in Promotions(h, sub)} /\ minted \subseteq HouseholdID \ IDs(doc)
  BY MintedApart DEF Minted
<1>4. /\ AdultsAfter(h, sub) \subseteq (h.adults \cup NewPeople(sub))
      /\ DependentsAfter(h, sub) \subseteq (h.dependents \cup NewPeople(sub))
      /\ Promotions(h, sub) \subseteq h.dependents
      /\ Promotions(h, sub) \cap DependentsAfter(h, sub) = {}
      /\ \A p \in h.dependents : p \notin NewPeople(sub)
      /\ \A p \in h.adults : p \notin NewPeople(sub)
  BY WhoIsWhere
<1>5. AdultsAfter(h, sub) \cap DependentsAfter(h, sub) = {}
  <2>1. h.adults \cap h.dependents = {}
    BY <1>1 DEF PersonsUnique
  <2>2. sub.newAdult = sub.newDependent => sub.newAdult = None
    BY DEF Accepted
  <2>3. \A p \in AdultsAfter(h, sub) : p \in h.adults \/ (p = sub.newAdult /\ p # None)
    BY DEF AdultsAfter, ApplyToGroup
  <2>4. \A p \in DependentsAfter(h, sub) :
           p \in h.dependents \/ (p = sub.newDependent /\ p # None)
    BY DEF DependentsAfter, ApplyToGroup
  <2> QED
    BY <1>4, <2>1, <2>2, <2>3, <2>4 DEF NewPeople
<1>6. \A other \in IDs(doc) \ {id} : after[other] = doc[other]
  BY <1>2, <1>3 DEF IDs
<1>7. People(after[id]) \cap Promotions(h, sub) = {}
  <2>1. h.adults \cap h.dependents = {}
    BY <1>1 DEF PersonsUnique
  <2> QED
    BY <1>2, <1>4, <2>1 DEF People
<1>8. \A other \in IDs(doc) \ {id} :
         People(doc[other]) \cap (People(h) \cup NewPeople(sub)) = {}
  <2>1. \A other \in IDs(doc) \ {id} : People(doc[other]) \cap People(h) = {}
    BY <1>1 DEF PersonsUnique
  <2>2. \A other \in IDs(doc) : People(doc[other]) \subseteq PeopleOf(doc)
    BY DEF PeopleOf
  <2> QED
    BY <1>1, <2>1, <2>2
<1>9. People(after[id]) \subseteq (People(h) \cup NewPeople(sub))
  BY <1>2, <1>4 DEF People
<1>10. Promotions(h, sub) \subseteq People(h)
  BY <1>4 DEF People
<1>11. \A p \in Promotions(h, sub) : People(after[mint[p]]) = {p}
  BY <1>2 DEF People
<1> HIDE DEF h, minted
<1>12. ASSUME NEW other \in IDs(after)
       PROVE  after[other].adults \cap after[other].dependents = {}
  <2>1. CASE other \in minted
    BY <1>2, <1>3, <2>1
  <2>2. CASE other = id
    BY <1>2, <1>5, <2>2
  <2>3. CASE other \in IDs(doc) \ {id}
    BY <1>6, <2>3 DEF PersonsUnique
  <2> QED
    BY <1>2, <2>1, <2>2, <2>3
<1>13. ASSUME NEW one \in IDs(after), NEW other \in IDs(after), one # other
       PROVE  People(after[one]) \cap People(after[other]) = {}
  <2>1. CASE one \in minted /\ other \in minted
    <3>1. PICK p \in Promotions(h, sub) : one = mint[p]
      BY <1>3, <2>1
    <3>2. PICK q \in Promotions(h, sub) : other = mint[q]
      BY <1>3, <2>1
    <3>3. p # q
      BY <1>13, <3>1, <3>2
    <3> QED
      BY <1>11, <3>1, <3>2, <3>3
  <2>2. CASE (one \in minted /\ other = id) \/ (one = id /\ other \in minted)
    BY <1>3, <1>7, <1>11, <2>2
  <2>3. CASE \/ one \in minted /\ other \in IDs(doc) \ {id}
             \/ one \in IDs(doc) \ {id} /\ other \in minted
    BY <1>3, <1>6, <1>8, <1>10, <1>11, <2>3
  <2>4. CASE \/ one = id /\ other \in IDs(doc) \ {id}
             \/ one \in IDs(doc) \ {id} /\ other = id
    BY <1>6, <1>8, <1>9, <2>4
  <2>5. CASE one \in IDs(doc) \ {id} /\ other \in IDs(doc) \ {id}
    BY <1>6, <1>13, <2>5 DEF PersonsUnique
  <2> QED
    BY <1>2, <1>13, <2>1, <2>2, <2>3, <2>4, <2>5
<1> QED
  BY <1>12, <1>13 DEF PersonsUnique

LEMMA StillRefers ==
    ASSUME NEW doc \in Document, NEW id, NEW sub, NEW mint, Accepted(doc, id, sub, mint),
           NEW after, after = ApplySubmission(doc, id, sub, mint),
           ReferencesExist(doc), Acyclic(doc)
    PROVE  ReferencesExist(after) /\ Acyclic(after)
<1> DEFINE minted == Minted(mint)
<1>1. id \in IDs(doc) /\ IDs(doc) \subseteq HouseholdID
  BY DEF Accepted, IDs
<1>2. /\ \A other \in IDs(doc) :
            after[other].parent = doc[other].parent /\ after[other].sharedWith = doc[other].sharedWith
      /\ \A other \in minted : after[other].parent = id /\ after[other].sharedWith = None
      /\ IDs(after) = IDs(doc) \cup minted
  <2>1. /\ \A other \in HouseholdID \ (minted \cup {id}) : after[other] = doc[other]
        /\ after[id].parent = doc[id].parent /\ after[id].sharedWith = doc[id].sharedWith
        /\ \A p \in Promotions(doc[id], sub) :
              after[mint[p]].parent = id /\ after[mint[p]].sharedWith = None
        /\ IDs(after) = IDs(doc) \cup minted
    BY AfterSave
  <2>2. minted = {mint[p] : p \in Promotions(doc[id], sub)} /\ minted \cap IDs(doc) = {}
    BY MintedApart DEF Minted
  <2> HIDE DEF minted
  <2> QED
    BY <1>1, <2>1, <2>2
<1> HIDE DEF minted
<1>3. ReferencesExist(after)
  BY <1>1, <1>2 DEF ReferencesExist, Needs
<1>4. ASSUME NEW ids \in (SUBSET IDs(after)) \ {{}}
      PROVE  \E x \in ids : after[x].parent \notin ids
  <2>1. CASE ids \cap IDs(doc) = {}
    BY <1>1, <1>2, <2>1
  <2>2. CASE ids \cap IDs(doc) # {}
    <3>1. PICK x \in ids \cap IDs(doc) : doc[x].parent \notin ids \cap IDs(doc)
      BY <2>2 DEF Acyclic
    <3>2. doc[x].parent \in IDs(doc) \/ doc[x].parent = None
      BY <3>1 DEF ReferencesExist, Needs
    <3>3. None \notin ids
      <4>1. ids \subseteq HouseholdID
        BY DEF IDs
      <4> QED
        BY <4>1, NoneAssumption
    <3> QED
      BY <1>2, <3>1, <3>2, <3>3
  <2> QED
    BY <2>1, <2>2
<1> QED
  BY <1>3, <1>4 DEF Acyclic

(***************************************************************************)
(* A form that applySubmission accepts leaves a document that builds.      *)
(***************************************************************************)
LEMMA StillBuilds ==
    ASSUME NEW doc \in Document, NEW id, NEW sub, NEW mint, Accepted(doc, id, sub, mint),
           NEW after, after = ApplySubmission(doc, id, sub, mint),
           Buildable(doc)
    PROVE  Buildable(after)
<1>1. HasAdults(after)
  <2>1. /\ \A other \in HouseholdID \ (Minted(mint) \cup {id}) : after[other] = doc[other]
        /\ after[id].adults = AdultsAfter(doc[id], sub)
        /\ \A p \in Promotions(doc[id], sub) : after[mint[p]].adults = {p}
        /\ IDs(after) = IDs(doc) \cup Minted(mint)
    BY AfterSave
  <2>2. Minted(mint) = {mint[p] : p \in Promotions(doc[id], sub)}
    BY MintedApart DEF Minted
  <2>3. AdultsAfter(doc[id], sub) # {}
    BY DEF Accepted, Applicable
  <2> QED
    BY <2>1, <2>2, <2>3 DEF HasAdults, Buildable, IDs
<1>2. PersonsUnique(after)
  BY StillUnique DEF Buildable
<1>3. ReferencesExist(after) /\ Acyclic(after)
  BY StillRefers DEF Buildable
<1> QED
  BY <1>1, <1>2, <1>3 DEF Buildable

-----------------------------------------------------------------------------
(* A Household has two adults at most. *)

FewAdults(h) == IsFiniteSet(h.adults) /\ Cardinality(h.adults) <= MaxAdults

LEMMA StillFew ==
    ASSUME NEW doc \in Document, NEW id, NEW sub, NEW mint, Accepted(doc, id, sub, mint),
           NEW after, after = ApplySubmission(doc, id, sub, mint),
           \A other \in IDs(doc) : FewAdults(doc[other])
    PROVE  \A other \in IDs(after) : FewAdults(after[other])
<1> DEFINE group == ApplyToGroup(doc[id].adults, sub, FALSE)
<1>1. /\ \A other \in HouseholdID \ (Minted(mint) \cup {id}) : after[other] = doc[other]
      /\ after[id].adults = AdultsAfter(doc[id], sub)
      /\ \A p \in Promotions(doc[id], sub) : after[mint[p]].adults = {p}
      /\ IDs(after) = IDs(doc) \cup Minted(mint)
  BY AfterSave
<1>2. Minted(mint) = {mint[p] : p \in Promotions(doc[id], sub)}
  BY MintedApart DEF Minted
<1>3. id \in IDs(doc) /\ FewAdults(doc[id]) /\ RoomForNewAdult(doc[id], sub)
  BY DEF Accepted, Applicable
<1>4. group \subseteq doc[id].adults
  BY DEF ApplyToGroup
<1>5. IsFiniteSet(group) /\ Cardinality(group) <= Cardinality(doc[id].adults)
      /\ Cardinality(group) \in Nat /\ Cardinality(doc[id].adults) \in Nat
  BY <1>3, <1>4, FS_Subset, FS_CardinalityType DEF FewAdults
<1> HIDE DEF group
<1>6. FewAdults(after[id])
  <2>1. CASE sub.newAdult = None
    <3>1. after[id].adults = group
      BY <1>1, <2>1 DEF AdultsAfter, group
    <3>2. Cardinality(doc[id].adults) <= MaxAdults /\ MaxAdults \in Nat
      BY <1>3 DEF FewAdults, MaxAdults
    <3>3. Cardinality(group) <= MaxAdults
      BY <1>5, <3>2
    <3> QED
      BY <1>5, <3>1, <3>3 DEF FewAdults
  <2>2. CASE sub.newAdult # None
    <3> DEFINE grown == group \cup {sub.newAdult}
    <3>1. after[id].adults = grown
      BY <1>1, <2>2 DEF AdultsAfter, group
    <3>2. Cardinality(group) < MaxAdults
      BY <1>3, <2>2 DEF RoomForNewAdult, group
    <3>3. /\ IsFiniteSet(grown)
          /\ \/ Cardinality(grown) = Cardinality(group)
             \/ Cardinality(grown) = Cardinality(group) + 1
      <4>1. IsFiniteSet(group)
        BY <1>5
      <4>2. /\ IsFiniteSet(grown)
            /\ Cardinality(grown) = IF sub.newAdult \in group THEN Cardinality(group)
                                    ELSE Cardinality(group) + 1
        BY <4>1, FS_AddElement
      <4> QED
        BY <4>2
    <3> HIDE DEF grown
    <3>4. Cardinality(grown) <= MaxAdults
      BY <1>5, <3>2, <3>3 DEF MaxAdults
    <3> QED
      BY <3>1, <3>3, <3>4 DEF FewAdults
  <2> QED
    BY <2>1, <2>2
<1>7. ASSUME NEW other \in Minted(mint)
      PROVE  FewAdults(after[other])
  <2>1. PICK p \in Promotions(doc[id], sub) : other = mint[p]
    BY <1>2
  <2>2. after[other].adults = {p}
    BY <1>1, <2>1
  <2>3. IsFiniteSet({p}) /\ Cardinality({p}) = 1
    BY FS_Singleton
  <2>4. 1 <= MaxAdults
    BY DEF MaxAdults
  <2> QED
    BY <2>2, <2>3, <2>4 DEF FewAdults
<1> QED
  BY <1>1, <1>6, <1>7 DEF IDs
=============================================================================
