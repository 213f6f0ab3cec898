-------------------------------- MODULE Dates --------------------------------
(***************************************************************************)
(* Dates of partial precision (pkg/rolo/date.go): what an Editor may type  *)
(* for one, what is understood by it, and how it is shown again.           *)
(*                                                                         *)
(* A text is the components between its hyphens, the surrounding blanks    *)
(* gone; of a component, its width and the number it reads as decide.      *)
(***************************************************************************)
EXTENDS Naturals, Sequences

\* time.Date, which has a year 0, and it a leap year.
IsLeap(year) == year % 4 = 0 /\ (year % 100 # 0 \/ year % 400 = 0)

DaysIn(year, month) ==
    IF month = 2 THEN (IF IsLeap(year) THEN 29 ELSE 28)
    ELSE IF month \in {4, 6, 9, 11} THEN 30
    ELSE 31

\* A variant that takes any day of a month to be in every month.
ExistsInAnyMonth(d) == d.month <= 12 /\ d.day <= 31

\* A day needs its month, and must be in it.
Exists(d) ==
    /\ d.month <= 12
    /\ d.day # 0 => d.month # 0 /\ d.day <= DaysIn(d.year, d.month)

\* A Date knows its year, month and day as far as they are not 0.  No other is
\* loaded, or read from a form.
Date == {d \in [year : Nat, month : 0 .. 12, day : 0 .. 31] : Exists(d)}
Unknown == [year |-> 0, month |-> 0, day |-> 0]

\* dateLess: a part that is unknown comes before any that is known.
Before(a, b) ==
    \/ a.year < b.year
    \/ a.year = b.year /\ a.month < b.month
    \/ a.year = b.year /\ a.month = b.month /\ a.day < b.day

-----------------------------------------------------------------------------
(* Reading a Date. *)

Widths == <<4, 2, 2>>

\* Atoi takes a sign, so a component may read as a number shorter than its width.
Component == [width : Nat, isNumber : BOOLEAN, number : Nat]

DateText == Seq(Component)
NoText == <<>>

\* The number of a component that is not there is 0: a part that is unknown.
Part(text, i) == IF i <= Len(text) THEN text[i].number ELSE 0

\* What the text says, whether or not there is such a day.
ParseDate(text) == [year |-> Part(text, 1), month |-> Part(text, 2), day |-> Part(text, 3)]

\* The texts ParseDate reads.
Readable(text) ==
    /\ Len(text) <= 3
    /\ \A i \in 1 .. Len(text) : text[i].isNumber /\ text[i].width = Widths[i]
    /\ Exists(ParseDate(text))

-----------------------------------------------------------------------------
(* Showing one (String). *)

Digits(width, number) == [width |-> width, isNumber |-> TRUE, number |-> number]

\* A variant that prints no month without a day.
StringOfYear(d) ==
    IF d = Unknown THEN NoText
    ELSE IF d.day = 0 THEN <<Digits(4, d.year)>>
    ELSE <<Digits(4, d.year), Digits(2, d.month), Digits(2, d.day)>>

String(d) ==
    IF d = Unknown THEN NoText
    ELSE IF d.month = 0 THEN <<Digits(4, d.year)>>
    ELSE IF d.day = 0 THEN <<Digits(4, d.year), Digits(2, d.month)>>
    ELSE <<Digits(4, d.year), Digits(2, d.month), Digits(2, d.day)>>
=============================================================================
