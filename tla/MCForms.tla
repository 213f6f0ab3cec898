------------------------------- MODULE MCForms -------------------------------
(* Instances of Forms for TLC. *)
EXTENDS Forms, TLC

CONSTANTS p1, p2, p3, p4, p5, Ann, Bob, Mill, Ford

Two(n) == Digits(2, n)

\* Numbers of two digits: one in other punctuation with a country code and
\* one abroad.
WithCode == [digits |-> <<1, 5, 5>>, dress |-> "punctuation", plus |-> TRUE, several |-> FALSE]
Abroad == [digits |-> <<4, 4>>, dress |-> "punctuation", plus |-> TRUE, several |-> FALSE]

Capitals == [at |-> TRUE, capitals |-> TRUE, parsed |-> "plain"]

Empty == [p \in PersonID |-> None]

Parent ==
    [given |-> Ann, phone |-> WithCode, email |-> Capitals,
     birth |-> [year |-> 1960, month |-> 6, day |-> 0], death |-> Unknown,
     hidden |-> {"phone"}]

Child ==
    [given |-> Bob, phone |-> Abroad, email |-> NoEmail,
     birth |-> [year |-> 2004, month |-> 2, day |-> 29],
     death |-> [year |-> 1990, month |-> 0, day |-> 0],
     hidden |-> {}]

\* A parent with a child, as a hand has written them.
MCHouseholds ==
    {[adults |-> {p1}, dependents |-> {p2},
      person |-> [Empty EXCEPT ![p1] = Parent, ![p2] = Child],
      anniversary |-> [year |-> 1950, month |-> 0, day |-> 0],
      lines |-> <<Mill>>, addressHidden |-> TRUE]}

\* A day that is not in its month, and one written too short.
NoSuchDay == <<Digits(4, 2003), Two(2), Two(29)>>
TooShort == <<Digits(2, 98)>>

MCTypings ==
    {[field |-> "given", value |-> Ann],
     [field |-> "birth", value |-> NoSuchDay], [field |-> "birth", value |-> <<Digits(4, 1998)>>],
     [field |-> "hidden", value |-> {"birth"}]}

MCFacts ==
    {[field |-> "anniversary", value |-> TooShort],
     [field |-> "lines", value |-> <<Mill, None, Ford>>]}

\* IDs that nobody has yet.
Symmetry == Permutations({p3, p4, p5})

MCArrivals == {[Child EXCEPT !.phone = NoPhone, !.death = Unknown]}

MCChanges == {[field |-> "email", value |-> Capitals]}
=============================================================================
