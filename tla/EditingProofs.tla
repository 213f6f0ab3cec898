---------------------------- MODULE EditingProofs ----------------------------
(***************************************************************************)
(* Theorems about Editing, for any documents that build and any forms: a   *)
(* save never breaks the document, and nobody leaves or moves but as the   *)
(* Editor asked.                                                           *)
(***************************************************************************)
EXTENDS Editing, ApplyProofs

\* The invariant: a document of the right type that builds, whose Households
\* have two adults at most.
Sound ==
    /\ TypeOK
    /\ Buildable(doc)
    /\ \A id \in IDs(doc) : FewAdults(doc[id])

\* What a save of the form does, in the terms of ApplyProofs.
LEMMA SaveApplies ==
    ASSUME TypeOK, NEW id \in HouseholdID, NEW form \in Submissions, Save(id, form)
    PROVE  \E sub \in Submission : \E mint :
              /\ Accepted(doc, id, sub, mint)
              /\ doc' = ApplySubmission(doc, id, sub, mint)
              /\ asked' = [removed |-> Removed(sub), promoted |-> Promoted(sub)]
              /\ said' \in Announcements(doc[id], sub)
<1> DEFINE sub == ParseSubmission(doc[id], form)
<1>1. form \in Submission /\ (form.newAdult = form.newDependent => form.newAdult = None)
  BY EditingAssumption
<1>2. sub = [form EXCEPT !.named = @ \cap People(doc[id])]
  BY DEF ParseSubmission
<1>3. /\ sub \in Submission
      /\ sub.newAdult = form.newAdult /\ sub.newDependent = form.newDependent
  BY <1>1, <1>2 DEF Submission
<1>4. PICK mint \in MintedFor(doc[id], sub, HouseholdID \ IDs(doc)) :
         doc' = ApplySubmission(doc, id, sub, mint)
  BY DEF Save
<1>5. /\ id \in IDs(doc) /\ Applicable(doc, id, sub)
      /\ NewPeople(sub) \cap PeopleOf(doc) = {}
      /\ asked' = [removed |-> Removed(sub), promoted |-> Promoted(sub)]
      /\ said' \in Announcements(doc[id], sub)
  BY DEF Save
<1> HIDE DEF sub
<1>6. Accepted(doc, id, sub, mint)
  BY <1>1, <1>3, <1>4, <1>5 DEF Accepted
<1> QED
  BY <1>3, <1>4, <1>5, <1>6

LEMMA SaidType ==
    ASSUME NEW h \in Household, NEW sub \in Submission, NEW what \in Announcements(h, sub)
    PROVE  /\ what \in [kind : {"removed", "promoted", "added", "saved"},
                        person : PersonID \cup {None}]
           /\ what.kind = "saved" <=> what.person = None
<1> DEFINE removals == People(h) \cap Removed(sub)
           promotions == Promotions(h, sub)
<1>1. removals \subseteq PersonID /\ promotions \subseteq PersonID
      /\ NewPeople(sub) \subseteq PersonID
  BY DEF People, Household, Promotions, NewPeople, Submission
<1>2. \/ \E p \in removals : what = [kind |-> "removed", person |-> p]
      \/ \E p \in promotions : what = [kind |-> "promoted", person |-> p]
      \/ \E p \in NewPeople(sub) : what = [kind |-> "added", person |-> p]
      \/ what = [kind |-> "saved", person |-> None]
  BY DEF Announcements
<1> HIDE DEF removals, promotions
<1> QED
  BY <1>1, <1>2, NoneAssumption

LEMMA SoundStep == Sound /\ [Next]_vars => Sound'
<1> SUFFICES ASSUME Sound, [Next]_vars
             PROVE  Sound'
  OBVIOUS
<1>1. ASSUME NEW id \in HouseholdID, NEW form \in Submissions, Save(id, form)
      PROVE  Sound'
  <2>1. TypeOK /\ doc \in Document
    BY DEF Sound, TypeOK
  <2>2. PICK sub \in Submission : \E mint :
              /\ Accepted(doc, id, sub, mint)
              /\ doc' = ApplySubmission(doc, id, sub, mint)
              /\ asked' = [removed |-> Removed(sub), promoted |-> Promoted(sub)]
              /\ said' \in Announcements(doc[id], sub)
    BY <1>1, <2>1, SaveApplies
  <2>3. PICK mint :
              /\ Accepted(doc, id, sub, mint)
              /\ doc' = ApplySubmission(doc, id, sub, mint)
              /\ asked' = [removed |-> Removed(sub), promoted |-> Promoted(sub)]
              /\ said' \in Announcements(doc[id], sub)
    BY <2>2
  <2>4. id \in IDs(doc) /\ doc[id] \in Household
    BY <2>1, <2>3 DEF Accepted, IDs, Document
  <2>5. doc' \in Document
    BY <2>1, <2>3, <2>4, ApplyType DEF Accepted
  <2>6. Buildable(doc')
    BY <2>1, <2>3, StillBuilds DEF Sound
  <2>7. \A other \in IDs(doc') : FewAdults(doc'[other])
    BY <2>1, <2>3, StillFew DEF Sound
  <2>8. asked' \in [removed : SUBSET PersonID, promoted : SUBSET PersonID]
    BY <2>3 DEF Removed, Promoted, Submission
  <2>9. /\ said' \in [kind : {"removed", "promoted", "added", "saved"},
                      person : PersonID \cup {None}]
        /\ said'.kind = "saved" <=> said'.person = None
    BY <2>3, <2>4, SaidType
  <2> QED
    BY <2>5, <2>6, <2>7, <2>8, <2>9 DEF Sound, TypeOK
<1>2. CASE UNCHANGED vars
  BY <1>2 DEF vars, Sound, TypeOK
<1> QED
  BY <1>1, <1>2 DEF Next

LEMMA SoundInit == Init => Sound
<1> SUFFICES ASSUME Init
             PROVE  Sound
  OBVIOUS
<1>1. /\ doc \in Document /\ Buildable(doc)
      /\ \A id \in IDs(doc) : FewAdults(doc[id])
  BY EditingAssumption DEF Init, FewAdults
<1>2. asked \in [removed : SUBSET PersonID, promoted : SUBSET PersonID]
  BY DEF Init
<1>3. /\ said \in [kind : {"removed", "promoted", "added", "saved"},
                   person : PersonID \cup {None}]
      /\ said.kind = "saved" <=> said.person = None
  BY DEF Init
<1> QED
  BY <1>1, <1>2, <1>3 DEF Sound, TypeOK

LEMMA SoundAlways == Spec => []Sound
  BY SoundInit, SoundStep, PTL DEF Spec

(***************************************************************************)
(* A form, however stale, makes a document of Households and people.       *)
(***************************************************************************)
THEOREM TypeCorrect == Spec => []TypeOK
<1>1. Sound => TypeOK
  BY DEF Sound
<1> QED
  BY <1>1, SoundAlways, PTL

(***************************************************************************)
(* Whatever the Editor asks of whichever page, what is accepted builds:    *)
(* the tree check of a write never fails on a save of the form, and no     *)
(* Household gains a third adult.                                          *)
(***************************************************************************)
THEOREM SavesAlwaysBuild == Spec => []SavesBuild
<1>1. Sound => SavesBuild
  BY DEF Sound, SavesBuild, FewAdults
<1> QED
  BY <1>1, SoundAlways, PTL

-----------------------------------------------------------------------------
(* Where the people are before and after. *)

\* Whoever was in the document and was not to be removed still is.
LEMMA Stay ==
    ASSUME NEW d \in Document, NEW id, NEW sub, NEW mint, Accepted(d, id, sub, mint),
           NEW after, after = ApplySubmission(d, id, sub, mint)
    PROVE  PeopleOf(d) \ PeopleOf(after) \subseteq Removed(sub)
<1> SUFFICES ASSUME NEW p \in PeopleOf(d), p \notin Removed(sub)
             PROVE  p \in PeopleOf(after)
  OBVIOUS
<1>1. PICK home \in IDs(d) : p \in People(d[home])
  BY DEF PeopleOf
<1> DEFINE h == d[id]
<1>2. /\ \A other \in HouseholdID \ (Minted(mint) \cup {id}) : after[other] = d[other]
      /\ after[id].adults = AdultsAfter(h, sub)
      /\ after[id].dependents = DependentsAfter(h, sub)
      /\ \A q \in Promotions(h, sub) : after[mint[q]].adults = {q}
      /\ IDs(after) = IDs(d) \cup Minted(mint)
  BY AfterSave
<1>3. /\ Minted(mint) = {mint[q] : q \in Promotions(h, sub)}
      /\ Minted(mint) \subseteq HouseholdID \ IDs(d)
      /\ id \in IDs(d) /\ home \in HouseholdID
  <2>1. id \in IDs(d) /\ home \in HouseholdID
    BY DEF Accepted, IDs
  <2> QED
    BY <2>1, MintedApart DEF Minted
<1>4. \E other \in IDs(after) : p \in People(after[other])
  <2>1. CASE home # id
    BY <1>1, <1>2, <1>3, <2>1
  <2>2. CASE home = id /\ p \in Promotions(h, sub)
    <3>1. mint[p] \in IDs(after) /\ after[mint[p]].adults = {p}
      BY <1>2, <1>3, <2>2
    <3> QED
      BY <3>1 DEF People
  <2>3. CASE home = id /\ p \notin Promotions(h, sub)
    <3>1. p \in h.adults => p \in AdultsAfter(h, sub)
      BY DEF AdultsAfter, ApplyToGroup
    <3>2. p \in h.dependents => p \in DependentsAfter(h, sub)
      BY <2>3 DEF DependentsAfter, ApplyToGroup, Promotions
    <3>3. p \in h.adults \/ p \in h.dependents
      BY <1>1, <2>3 DEF People
    <3> QED
      BY <1>2, <1>3, <3>1, <3>2, <3>3 DEF People
  <2> QED
    BY <2>1, <2>2, <2>3
<1> QED
  BY <1>4 DEF PeopleOf

(***************************************************************************)
(* Nobody leaves the Directory but a Person the Editor asked to remove.    *)
(***************************************************************************)
THEOREM NobodyEverVanishes == Spec => NobodyVanishes
<1>1. Sound /\ [Next]_vars => [PeopleOf(doc) \ PeopleOf(doc)' \subseteq asked'.removed]_vars
  <2> SUFFICES ASSUME Sound, NEW id \in HouseholdID, NEW form \in Submissions, Save(id, form)
               PROVE  PeopleOf(doc) \ PeopleOf(doc)' \subseteq asked'.removed
    BY DEF Next
  <2>1. TypeOK /\ doc \in Document
    BY DEF Sound, TypeOK
  <2>2. PICK sub \in Submission : \E mint :
              /\ Accepted(doc, id, sub, mint)
              /\ doc' = ApplySubmission(doc, id, sub, mint)
              /\ asked' = [removed |-> Removed(sub), promoted |-> Promoted(sub)]
    BY <2>1, SaveApplies
  <2>3. PeopleOf(doc) \ PeopleOf(doc') \subseteq Removed(sub)
    BY <2>1, <2>2, Stay
  <2> QED
    BY <2>2, <2>3
<1> QED
  BY <1>1, SoundAlways, PTL DEF Spec, NobodyVanishes

\* Whoever is in the document before and after is where they were, in the group
\* they were in, or is a Dependent who was promoted.
LEMMA Moves ==
    ASSUME NEW d \in Document, NEW id, NEW sub, NEW mint, Accepted(d, id, sub, mint),
           NEW after, after = ApplySubmission(d, id, sub, mint), PersonsUnique(d),
           NEW p, NEW old \in IDs(d), p \in People(d[old]),
           NEW new \in IDs(after), p \in People(after[new])
    PROVE  IF new = old
           THEN p \in d[old].adults <=> p \in after[new].adults
           ELSE /\ p \in d[old].dependents \cap Promoted(sub)
                /\ new \notin IDs(d)
                /\ after[new].parent = old
                /\ after[new].adults = {p} /\ after[new].dependents = {}
<1> DEFINE h == d[id]
<1>1. /\ \A other \in HouseholdID \ (Minted(mint) \cup {id}) : after[other] = d[other]
      /\ after[id].adults = AdultsAfter(h, sub)
      /\ after[id].dependents = DependentsAfter(h, sub)
      /\ \A q \in Promotions(h, sub) :
            /\ after[mint[q]].parent = id
            /\ after[mint[q]].adults = {q} /\ after[mint[q]].dependents = {}
      /\ IDs(after) = IDs(d) \cup Minted(mint)
  BY AfterSave
<1>2. /\ Minted(mint) = {mint[q] : q \in Promotions(h, sub)}
      /\ Minted(mint) \subseteq HouseholdID \ IDs(d)
      /\ id \in IDs(d)
  BY MintedApart DEF Minted, Accepted
<1>3. p \notin NewPeople(sub)
  BY DEF Accepted, PeopleOf
<1>4. \A other \in IDs(d) : p \in People(d[other]) => other = old
  BY DEF PersonsUnique
<1>5. CASE new \in Minted(mint)
  <2>1. PICK q \in Promotions(h, sub) : new = mint[q]
    BY <1>2, <1>5
  <2>2. p = q
    BY <1>1, <2>1 DEF People
  <2>3. p \in h.dependents /\ p \in Promoted(sub)
    BY <2>1, <2>2 DEF Promotions
  <2>4. old = id
    BY <1>2, <1>4, <2>3 DEF People
  <2> QED
    BY <1>1, <1>2, <1>5, <2>1, <2>2, <2>3, <2>4
<1>6. CASE new = id
  <2>1. p \in AdultsAfter(h, sub) \/ p \in DependentsAfter(h, sub)
    BY <1>1, <1>6 DEF People
  <2>2. /\ p \in AdultsAfter(h, sub) => p \in h.adults
        /\ p \in DependentsAfter(h, sub) => p \in h.dependents
    BY <1>3, WhoIsWhere
  <2>3. old = id
    BY <1>2, <1>4, <2>1, <2>2 DEF People
  <2>4. h.adults \cap h.dependents = {}
    BY <1>2 DEF PersonsUnique
  <2> QED
    BY <1>1, <1>6, <2>1, <2>2, <2>3, <2>4
<1>7. CASE new \notin Minted(mint) /\ new # id
  <2>1. new \in IDs(d) /\ after[new] = d[new]
    BY <1>1, <1>2, <1>7 DEF IDs
  <2> QED
    BY <1>4, <2>1
<1> QED
  BY <1>5, <1>6, <1>7

LEMMA HomeIs ==
    ASSUME NEW d, NEW p \in PeopleOf(d)
    PROVE  HomeOf(d, p) \in IDs(d) /\ p \in People(d[HomeOf(d, p)])
  BY DEF HomeOf, PeopleOf

(***************************************************************************)
(* A Person whose Household changes was a Dependent the Editor promoted,   *)
(* and now heads a Household beneath the one they left; nobody else moves  *)
(* between Households or between the adults and the Dependents.            *)
(***************************************************************************)
THEOREM OnlyPromotionEverMoves == Spec => OnlyPromotionMoves
<1>1. Sound /\ [Next]_vars =>
         [\A p \in PeopleOf(doc) \cap PeopleOf(doc)' :
             LET old == HomeOf(doc, p)
                 new == HomeOf(doc', p)
             IN  IF new = old
                 THEN p \in doc[old].adults <=> p \in doc'[new].adults
                 ELSE /\ p \in doc[old].dependents \cap asked'.promoted
                      /\ new \notin IDs(doc)
                      /\ doc'[new].parent = old
                      /\ doc'[new].adults = {p} /\ doc'[new].dependents = {}]_vars
  <2> SUFFICES ASSUME Sound, NEW id \in HouseholdID, NEW form \in Submissions, Save(id, form),
                      NEW p \in PeopleOf(doc) \cap PeopleOf(doc')
               PROVE  LET old == HomeOf(doc, p)
                          new == HomeOf(doc', p)
                      IN  IF new = old
                          THEN p \in doc[old].adults <=> p \in doc'[new].adults
                          ELSE /\ p \in doc[old].dependents \cap asked'.promoted
                               /\ new \notin IDs(doc)
                               /\ doc'[new].parent = old
                               /\ doc'[new].adults = {p} /\ doc'[new].dependents = {}
    BY DEF Next
  <2>1. TypeOK /\ doc \in Document /\ PersonsUnique(doc)
    BY DEF Sound, TypeOK, Buildable
  <2>2. PICK sub \in Submission : \E mint :
              /\ Accepted(doc, id, sub, mint)
              /\ doc' = ApplySubmission(doc, id, sub, mint)
              /\ asked' = [removed |-> Removed(sub), promoted |-> Promoted(sub)]
    BY <2>1, SaveApplies
  <2>3. PICK mint :
              Accepted(doc, id, sub, mint) /\ doc' = ApplySubmission(doc, id, sub, mint)
    BY <2>2
  <2>4. asked'.promoted = Promoted(sub)
    BY <2>2
  <2>5. /\ HomeOf(doc, p) \in IDs(doc) /\ p \in People(doc[HomeOf(doc, p)])
        /\ HomeOf(doc', p) \in IDs(doc') /\ p \in People(doc'[HomeOf(doc', p)])
    BY HomeIs
  <2> QED
    BY <2>1, <2>3, <2>4, <2>5, Moves
<1> QED
  BY <1>1, SoundAlways, PTL DEF Spec, OnlyPromotionMoves
=============================================================================
