------------------------------- MODULE Editing -------------------------------
(***************************************************************************)
(* A document under one save of a Household's form after another, and what *)
(* the page says each save did (applySubmission, redirectAfterSave).  The  *)
(* form may be stale: posted from a page that showed an earlier document.  *)
(***************************************************************************)
EXTENDS Apply

CONSTANTS Documents, Submissions

ASSUME EditingAssumption ==
    /\ \A d \in Documents :
          /\ d \in Document /\ Buildable(d)
          /\ \A id \in IDs(d) : IsFiniteSet(d[id].adults) /\ Cardinality(d[id].adults) <= MaxAdults
    /\ Submissions \subseteq Submission
    /\ \A form \in Submissions : form.newAdult = form.newDependent => form.newAdult = None

VARIABLES
    doc,    \* the document
    asked,  \* whom the latest form asked to remove and to promote
    said    \* what the page announces: a kind of change and the Person changed

vars == <<doc, asked, said>>

TypeOK ==
    /\ doc \in Document
    /\ asked \in [removed : SUBSET PersonID, promoted : SUBSET PersonID]
    /\ said \in [kind : {"removed", "promoted", "added", "saved"}, person : PersonID \cup {None}]
    /\ said.kind = "saved" <=> said.person = None

Init ==
    /\ doc \in Documents
    /\ asked = [removed |-> {}, promoted |-> {}]
    /\ said = [kind |-> "saved", person |-> None]

\* Only the first change is announced: removals come before promotions, and
\* those before additions.
Announcements(h, sub) ==
    LET removals == People(h) \cap Removed(sub)
        promotions == Promotions(h, sub)
        announce(kind, people) == {[kind |-> kind, person |-> p] : p \in people}
    IN  IF removals # {} THEN announce("removed", removals)
        ELSE IF promotions # {} THEN announce("promoted", promotions)
        ELSE IF NewPeople(sub) # {} THEN announce("added", NewPeople(sub))
        ELSE announce("saved", {None})

\* A save is what applySubmission makes of the form, or a refusal.
Save(id, form) ==
    LET sub == ParseSubmission(doc[id], form) IN
    /\ id \in IDs(doc)
    /\ Applicable(doc, id, sub)
    /\ NewPeople(sub) \cap PeopleOf(doc) = {}
    /\ \E mint \in MintedFor(doc[id], sub, HouseholdID \ IDs(doc)) :
          doc' = ApplySubmission(doc, id, sub, mint)
    /\ asked' = [removed |-> Removed(sub), promoted |-> Promoted(sub)]
    /\ said' \in Announcements(doc[id], sub)

Next == \E id \in HouseholdID, form \in Submissions : Save(id, form)

Spec == Init /\ [][Next]_vars

-----------------------------------------------------------------------------

\* The Household a Person is in.
HomeOf(d, p) == CHOOSE id \in IDs(d) : p \in People(d[id])

(***************************************************************************)
(* "An error means the submission would produce a document the store could *)
(* not load" (applySubmission): what it does accept always builds, so the  *)
(* tree check before a write never turns an Editor's save into a failure.  *)
(* Nor does a Household gain a third adult.                                *)
(***************************************************************************)
SavesBuild ==
    /\ Buildable(doc)
    /\ \A id \in IDs(doc) : Cardinality(doc[id].adults) <= MaxAdults

(***************************************************************************)
(* Nobody leaves the Directory but a Person the Editor asked to remove:    *)
(* not one the form does not name, not an adult ticked for promotion, not  *)
(* a Dependent promoted.                                                   *)
(***************************************************************************)
NobodyVanishes ==
    [][PeopleOf(doc) \ PeopleOf(doc)' \subseteq asked'.removed]_vars

(***************************************************************************)
(* Promotion moves a Dependent and nobody else: a Person whose Household   *)
(* changes was a Dependent and now heads a Household of their own, beneath *)
(* the one they left; and an adult never becomes a Dependent.              *)
(***************************************************************************)
OnlyPromotionMoves ==
    [][\A p \in PeopleOf(doc) \cap PeopleOf(doc)' :
          LET old == HomeOf(doc, p)
              new == HomeOf(doc', p)
          IN  IF new = old
              THEN p \in doc[old].adults <=> p \in doc'[new].adults
              ELSE /\ p \in doc[old].dependents \cap asked'.promoted
                   /\ new \notin IDs(doc)
                   /\ doc'[new].parent = old
                   /\ doc'[new].adults = {p} /\ doc'[new].dependents = {}]_vars

(***************************************************************************)
(* "The UI to say plainly what happened" (apply.go): a Person announced as *)
(* removed from the directory is not in the Directory.                     *)
(***************************************************************************)
AnnouncementTrue == said.kind = "removed" => said.person \notin PeopleOf(doc)
=============================================================================
