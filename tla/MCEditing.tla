------------------------------ MODULE MCEditing ------------------------------
(* Instances of Editing for TLC. *)
EXTENDS Editing

CONSTANTS h1, h2, h3, p1, p2, p3, p4, p5

\* A Household of a couple with a Dependent, alone or with a single parent's
\* beneath it at the same Address.
Couple ==
    [parent |-> None, sharedWith |-> None,
     adults |-> {p1, p2}, dependents |-> {p3}, dead |-> {}]

Beneath ==
    [parent |-> h1, sharedWith |-> h1,
     adults |-> {p4}, dependents |-> {p5}, dead |-> {}]

Nothing == [id \in HouseholdID |-> None]

MCDocuments ==
    {[Nothing EXCEPT ![h1] = Couple],
     [Nothing EXCEPT ![h1] = Couple, ![h2] = Beneath]}

\* Every form that asks to remove or promote at most two people, or both; that
\* leaves a Dependent out, as a page older than they are does, or does not; that
\* records a death or only moves people; and whose blank slot is filled or not.
AtMost(n, S) == {T \in SUBSET S : Cardinality(T) <= n}

MCSubmissions ==
    {form \in [named : {PersonID, PersonID \ {p3}},
               removed : AtMost(2, PersonID),
               promoted : AtMost(2, PersonID),
               dead : {{}, {p1}},
               newAdult : {None, p5},
               newDependent : {None, p5}] :
        /\ Cardinality(form.removed \cup form.promoted) <= 2
        /\ form.dead # {} => form.removed \cup form.promoted = {}
        /\ form.newAdult = form.newDependent => form.newAdult = None}
=============================================================================
