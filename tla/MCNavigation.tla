---------------------------- MODULE MCNavigation ----------------------------
(* An instance of Navigation for TLC: three generations and a second root. *)
EXTENDS Navigation

CONSTANTS h1, h2, h3, h4

\* h3 is beneath h2 beneath h1; h4 is a root.
MCParent == [id \in HouseholdID |-> CASE id = h2 -> h1 [] id = h3 -> h2 [] OTHER -> None]

\* Addresses that ask for a Branch, for all of them, and for a Household without
\* any beneath it.
MCBookmarks == {{}, {h2}, {h1, h2}, {h1, h4}}
=============================================================================
