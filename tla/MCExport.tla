------------------------------ MODULE MCExport ------------------------------
(***************************************************************************)
(* Directories for TLC: every Person the filter can tell apart, at home    *)
(* with a living and with a dead adult; and every way three Households     *)
(* can have, share and withhold their Addresses, circles included.         *)
(***************************************************************************)
EXTENDS Export, TLC

CONSTANTS h0, h1, h2, h3, alive, dead, someone

Day(y, m, d) == [year |-> y, month |-> m, day |-> d]

\* The day before an eighteenth birthday, the day itself, and a later one.
MCDays == {Day(2026, 3, 11), Day(2026, 3, 12), Day(2026, 12, 31)}

Births ==
    {Unknown, Day(2008, 0, 0), Day(2008, 3, 0), Day(2008, 3, 12), Day(2012, 3, 12), Day(0, 3, 12)}

Someone ==
    [birth : Births, death : {Unknown, Day(2020, 1, 2)},
     phone : {{}, {<<"phone", someone>>}}, email : {{<<"email", someone>>}},
     hidden : SUBSET {"birth", "phone", "email"}]

Plain(death) ==
    [birth |-> Day(1950, 5, 0), death |-> death, phone |-> {}, email |-> {}, hidden |-> {}]

Home(adults, dependents) ==
    [lines |-> {<<"line", h0>>}, sharedWith |-> None, hidden |-> FALSE,
     anniversary |-> Day(1990, 6, 1), adults |-> adults, dependents |-> dependents]

OfPeople ==
    {[people |-> alive :> Plain(Unknown) @@ dead :> Plain(Day(2020, 1, 2)) @@ someone :> p,
      households |-> h0 :> home] :
        p \in Someone,
        home \in {Home({someone}, {}), Home({alive}, {someone}), Home({dead}, {someone})}}

\* A Household's own lines, none, or another's, lived in or not.
Addresses(id) ==
    {[lines |-> own[1], sharedWith |-> own[2], hidden |-> hidden, anniversary |-> Unknown,
      adults |-> adults, dependents |-> {}] :
        own \in {<<{<<"line", id>>}, None>>} \cup ({{}} \X {h1, h2, h3, None}),
        hidden \in BOOLEAN, adults \in {{alive}, {dead}}}

OfAddresses ==
    {[people |-> alive :> Plain(Unknown) @@ dead :> Plain(Day(2020, 1, 2)),
      households |-> h1 :> a @@ h2 :> b @@ h3 :> c] :
        a \in Addresses(h1), b \in Addresses(h2), c \in Addresses(h3)}

MCDirectories == OfPeople \cup OfAddresses

Symmetry == Permutations({h1, h2, h3})
=============================================================================
