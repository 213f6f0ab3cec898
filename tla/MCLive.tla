------------------------------- MODULE MCLive -------------------------------
(* Instances of Live for TLC. *)
EXTENDS LiveRefinement

CONSTANTS h1, h2, h3, p1, p2, p3

EmptyDocument == [id \in HouseholdID |-> None]

\* A couple's Household with a child who may be promoted, and a Household
\* beneath it at the same Address.
Family ==
    [EmptyDocument EXCEPT
        ![h1] = [parent |-> None, sharedWith |-> None,
                 adults |-> {p1}, dependents |-> {p2}, dead |-> {}],
        ![h2] = [parent |-> h1, sharedWith |-> h1,
                 adults |-> {p3}, dependents |-> {}, dead |-> {}]]

\* A chain of needs: h3 is beneath h2, which shares the Address of h1.
Chained ==
    [EmptyDocument EXCEPT
        ![h1] = [parent |-> None, sharedWith |-> None,
                 adults |-> {p1}, dependents |-> {}, dead |-> {}],
        ![h2] = [parent |-> None, sharedWith |-> h1,
                 adults |-> {p2}, dependents |-> {}, dead |-> {}],
        ![h3] = [parent |-> h2, sharedWith |-> None,
                 adults |-> {p3}, dependents |-> {}, dead |-> {}]]

MCDocuments == {Family, Chained}

Plain ==
    [named |-> {}, removed |-> {}, promoted |-> {}, dead |-> {},
     newAdult |-> None, newDependent |-> None]

\* A plain edit and a promotion.
MCSubmissions ==
    {Plain,
     [Plain EXCEPT !.named = {p2}, !.promoted = {p2}]}
=============================================================================
