------------------------------- MODULE MCWalks -------------------------------
(* The walks of the Trash and of the tree on instances for TLC. *)
EXTENDS MCLive, TrashWalks

Alone == [parent |-> None, sharedWith |-> None, adults |-> {p1}, dependents |-> {}, dead |-> {}]

\* Whatever three Households may need of each other, or of what is nowhere, in
\* files repaired by hand: in circles too.
Linked ==
    {<<parent, shared>> \in (HouseholdID \cup {None}) \X (HouseholdID \cup {None}) :
        parent = None => shared = None}

MCRepaired ==
    {[id \in HouseholdID |->
         IF links[id] = "none" THEN None
         ELSE [deletedAt |-> IF id = h1 THEN 1 ELSE 0,
               household |-> [Alone EXCEPT !.parent = links[id][1], !.sharedWith = links[id][2]]]] :
        links \in [HouseholdID -> Linked \cup {"none"}]}

MCParented ==
    {[id \in HouseholdID |-> [Alone EXCEPT !.parent = parents[id]]] :
        parents \in [HouseholdID -> HouseholdID \cup {None}]}

\* The document may hold what is in the Trash too, or what the Trash only needs.
MCPresent == {[id \in HouseholdID |-> IF id \in ids THEN Alone ELSE None] : ids \in SUBSET {h2, h3}}
=============================================================================
