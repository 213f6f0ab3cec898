----------------------------- MODULE FormsProofs -----------------------------
(***************************************************************************)
(* Theorems about Forms, for any people, names, typing and other tabs:     *)
(*                                                                         *)
(*   TypeCorrect                []TypeOK                                   *)
(*   NamesAlwaysDistinct        []NamesDistinct                            *)
(*   MistakesAlwaysRemarked     []MistakesRemarked                         *)
(*   OthersAlwaysKept           OthersKept                                 *)
(*   RefusalAlwaysExplained     RefusalExplained                           *)
(*   SavesAreAsTyped            SavedAsTyped                               *)
(*   UntouchedSavesKeep         UntouchedSaveKeeps                         *)
(*                                                                         *)
(* They rest on FormsInv, and on what Dates, Contacts and the lines of an  *)
(* Address become when they are shown, posted and read again: DateSurvives,*)
(* AcceptedDateSurvives, HouseStyleStable, SplitKeeps.                     *)
(***************************************************************************)
EXTENDS Forms, FiniteSetTheorems, WellFoundedInduction, TLAPS

-----------------------------------------------------------------------------
(* Dates. *)

LEMMA PartsAreNumbers ==
    ASSUME NEW text \in DateText
    PROVE  \A i \in Nat \ {0} : Part(text, i) \in Nat
<1> TAKE i \in Nat \ {0}
<1>1. CASE i <= Len(text)
  <2>1. text[i] \in Component
    BY <1>1 DEF DateText
  <2>2. text[i].number \in Nat
    BY <2>1 DEF Component
  <2> QED
    BY <1>1, <2>2 DEF Part
<1>2. CASE ~ (i <= Len(text))
  BY <1>2 DEF Part
<1> QED
  BY <1>1, <1>2

LEMMA DaysAreFew ==
    ASSUME NEW year, NEW month
    PROVE  DaysIn(year, month) \in 28 .. 31
  BY DEF DaysIn

\* What reads is a Date that exists.
LEMMA ParseType ==
    ASSUME NEW text \in DateText, Readable(text)
    PROVE  ParseDate(text) \in Date
<1> DEFINE d == ParseDate(text)
<1>1. d.year \in Nat /\ d.month \in Nat /\ d.day \in Nat
  BY PartsAreNumbers DEF ParseDate
<1>2. d.month <= 12 /\ (d.day # 0 => d.month # 0 /\ d.day <= DaysIn(d.year, d.month))
  BY DEF Readable, Exists
<1>3. d.day <= 31
  BY <1>1, <1>2, DaysAreFew
<1>4. d = [year |-> d.year, month |-> d.month, day |-> d.day]
  BY DEF ParseDate
<1> HIDE DEF d
<1>5. d \in [year : Nat, month : 0 .. 12, day : 0 .. 31]
  BY <1>1, <1>2, <1>3, <1>4
<1> QED
  BY <1>2, <1>5 DEF d, Exists, Date

LEMMA StringType ==
    ASSUME NEW d \in Date
    PROVE  String(d) \in DateText
<1>1. d.year \in Nat /\ d.month \in Nat /\ d.day \in Nat
  BY DEF Date
<1>2. /\ Digits(4, d.year) \in Component
      /\ Digits(2, d.month) \in Component /\ Digits(2, d.day) \in Component
  BY <1>1 DEF Digits, Component
<1> QED
  BY <1>2 DEF String, DateText, NoText

(***************************************************************************)
(* A Date survives being shown and read again: what String prints of it is *)
(* read back as that Date (ParseDate, String; MarshalJSON stores what      *)
(* String prints, and a page shows it).                                    *)
(***************************************************************************)
THEOREM DateSurvives ==
    ASSUME NEW d \in Date
    PROVE  Readable(String(d)) /\ ParseDate(String(d)) = d
<1>1. d.year \in Nat /\ d.month \in 0 .. 12 /\ d.day \in 0 .. 31
      /\ d = [year |-> d.year, month |-> d.month, day |-> d.day]
  BY DEF Date
<1>2. Exists(d) /\ (d.day # 0 => d.month # 0)
  BY DEF Date, Exists
<1>3. ParseDate(String(d)) = d
  <2>1. CASE d = Unknown
    <3>1. String(d) = <<>>
      BY <2>1 DEF String, NoText
    <3> QED
      BY <2>1, <3>1 DEF ParseDate, Part, Unknown
  <2>2. CASE d # Unknown /\ d.month = 0
    <3>1. String(d) = <<Digits(4, d.year)>>
      BY <2>2 DEF String
    <3>2. /\ Part(String(d), 1) = d.year /\ Part(String(d), 2) = 0 /\ Part(String(d), 3) = 0
      BY <3>1 DEF Part, Digits
    <3> QED
      BY <1>1, <1>2, <2>2, <3>2 DEF ParseDate
  <2>3. CASE d # Unknown /\ d.month # 0 /\ d.day = 0
    <3>1. String(d) = <<Digits(4, d.year), Digits(2, d.month)>>
      BY <2>3 DEF String
    <3>2. /\ Part(String(d), 1) = d.year /\ Part(String(d), 2) = d.month
          /\ Part(String(d), 3) = 0
      BY <3>1 DEF Part, Digits
    <3> QED
      BY <1>1, <2>3, <3>2 DEF ParseDate
  <2>4. CASE d # Unknown /\ d.month # 0 /\ d.day # 0
    <3>1. String(d) = <<Digits(4, d.year), Digits(2, d.month), Digits(2, d.day)>>
      BY <2>4 DEF String
    <3>2. /\ Part(String(d), 1) = d.year /\ Part(String(d), 2) = d.month
          /\ Part(String(d), 3) = d.day
      BY <3>1 DEF Part, Digits
    <3> QED
      BY <1>1, <3>2 DEF ParseDate
  <2> QED
    BY <2>1, <2>2, <2>3, <2>4
<1>4. Len(String(d)) <= 3
  BY DEF String, NoText
<1>5. \A i \in 1 .. Len(String(d)) : String(d)[i].isNumber /\ String(d)[i].width = Widths[i]
  BY DEF String, NoText, Digits, Widths
<1> QED
  BY <1>2, <1>3, <1>4, <1>5 DEF Readable

(***************************************************************************)
(* So a form opened and posted untouched refuses no Date and changes none: *)
(* whatever an Editor once typed and had accepted, the page shows a text   *)
(* that is accepted again and means the same.                              *)
(***************************************************************************)
THEOREM AcceptedDateSurvives ==
    ASSUME NEW text \in DateText, Readable(text)
    PROVE  LET shown == String(ParseDate(text)) IN
           Readable(shown) /\ ParseDate(shown) = ParseDate(text)
  BY ParseType, DateSurvives

-----------------------------------------------------------------------------
(* Contacts. *)

(***************************************************************************)
(* House style is stable: a number that a save rewrote is left alone by    *)
(* the next one, so that saves do not go on changing what is printed.      *)
(***************************************************************************)
THEOREM HouseStyleStable ==
    ASSUME NEW phone \in Phone
    PROVE  NormalizePhone(NormalizePhone(phone)) = NormalizePhone(phone)
<1>1. CASE ~ IsOneNumber(phone)
  BY <1>1 DEF NormalizePhone
<1>2. CASE IsOneNumber(phone)
  <2> DEFINE digits == National(phone.digits)
  <2>1. NormalizePhone(phone) = HouseStyle(digits) /\ Len(digits) = PhoneDigits
    BY <1>2 DEF NormalizePhone, IsOneNumber
  <2> HIDE DEF digits
  <2>2. National(digits) = digits
    BY <2>1, PhoneDigitsAssumption DEF National
  <2> QED
    BY <2>1, <2>2 DEF NormalizePhone, HouseStyle
<1> QED
  BY <1>1, <1>2

LEMMA PhoneType ==
    ASSUME NEW phone \in Phone
    PROVE  NormalizePhone(phone) \in Phone
<1>1. National(phone.digits) \in Seq(0 .. 9)
  BY DEF National, BeginsWithOne, Phone
<1> QED
  BY <1>1 DEF NormalizePhone, HouseStyle, Phone, Dress

LEMMA NormalizePersonType ==
    ASSUME NEW person \in Person
    PROVE  /\ NormalizePerson(person) \in Person
           /\ NormalizePerson(person).birth = person.birth
           /\ NormalizePerson(person).death = person.death
<1>1. NormalizePhone(person.phone) \in Phone
  BY PhoneType DEF Person
<1>2. NormalizeEmail(person.email) \in Email
  BY DEF NormalizeEmail, Email, Person
<1> QED
  BY <1>1, <1>2 DEF NormalizePerson, Person

-----------------------------------------------------------------------------
(* What splitLines computes. *)

\* Induction, on a set of natural numbers.
LEMMA EveryNumber ==
    ASSUME NEW ns, 0 \in ns, \A n \in Nat : n \in ns => n + 1 \in ns
    PROVE  Nat \subseteq ns
<1> SUFFICES ASSUME ~ (Nat \subseteq ns)
             PROVE  FALSE
  OBVIOUS
<1> DEFINE R == {pair \in Nat \X Nat : pair[1] < pair[2]}
<1>1. IsWellFoundedOn(R, Nat)
  BY NatLessThanWellFounded DEF OpToRel
<1>2. \A x, y \in Nat : x < y => <<x, y>> \in R
  OBVIOUS
<1> HIDE DEF R
<1>3. PICK least \in Nat \ ns : \A n \in Nat \ ns : ~ (<<n, least>> \in R)
  BY <1>1, WFMin
<1>4. least - 1 \in Nat /\ least - 1 < least
  BY <1>3
<1>5. least - 1 \in ns
  BY <1>2, <1>3, <1>4
<1> QED
  BY <1>3, <1>4, <1>5

\* The lines of what precedes line n.
SplitsTo(text, lines, last) ==
    lines = [n \in 0 .. last |->
                IF n = 0 THEN <<>>
                ELSE IF text[n] = None THEN lines[n - 1]
                ELSE Append(lines[n - 1], text[n])]

LEMMA SplitsExist ==
    ASSUME NEW text
    PROVE  \A last \in Nat : \E lines : SplitsTo(text, lines, last)
<1> DEFINE ns == {last \in Nat : \E lines : SplitsTo(text, lines, last)}
<1>1. 0 \in ns
  <2> DEFINE lines == [n \in 0 .. 0 |-> <<>>]
  <2>1. SplitsTo(text, lines, 0)
    BY DEF SplitsTo
  <2> QED
    BY <2>1
<1>2. ASSUME NEW last \in Nat, last \in ns
      PROVE  last + 1 \in ns
  <2>1. PICK lines : SplitsTo(text, lines, last)
    BY <1>2
  <2> DEFINE next == IF text[last + 1] = None THEN lines[last]
                     ELSE Append(lines[last], text[last + 1])
             further == [n \in 0 .. last + 1 |-> IF n = last + 1 THEN next ELSE lines[n]]
             body == [n \in 0 .. last + 1 |->
                        IF n = 0 THEN <<>>
                        ELSE IF text[n] = None THEN further[n - 1]
                        ELSE Append(further[n - 1], text[n])]
  <2>2. further[last] = lines[last] /\ further[last + 1] = next
    OBVIOUS
  <2>3. \A n \in 0 .. last : further[n] = lines[n]
    OBVIOUS
  <2>4. \A n \in 0 .. last : 
          lines[n] = IF n = 0 THEN <<>>
                ELSE IF text[n] = None THEN lines[n - 1]
                ELSE Append(lines[n - 1], text[n])
    BY <2>1 DEF SplitsTo
  <2>5. ASSUME NEW n \in 0 .. last + 1
        PROVE  further[n] = body[n]
    <3>1. CASE n = last + 1
      BY <2>2, <3>1
    <3>2. CASE n # last + 1
      <4>1. n \in 0 .. last /\ (n # 0 => n - 1 \in 0 .. last)
        BY <3>2
      <4> HIDE DEF further
      <4> QED
        BY <2>3, <2>4, <4>1
    <3> QED
      BY <3>1, <3>2
  <2>6. further = body
    <3> HIDE DEF next
    <3>1. DOMAIN further = DOMAIN body
      OBVIOUS
    <3> QED
      BY <2>5, <3>1
  <2>7. SplitsTo(text, further, last + 1)
    BY <2>6 DEF SplitsTo
  <2> QED
    BY <2>7
<1> HIDE DEF ns
<1>3. Nat \subseteq ns
  BY <1>1, <1>2, EveryNumber
<1> QED
  BY <1>3 DEF ns

LEMMA SplitsOn ==
    ASSUME NEW text, NEW last \in Nat, NEW lines, SplitsTo(text, lines, last),
           NEW n \in Nat, n + 1 <= last
    PROVE  lines[n + 1] = IF text[n + 1] = None THEN lines[n] ELSE Append(lines[n], text[n + 1])
<1>1. n + 1 \in 0 .. last /\ n + 1 # 0 /\ (n + 1) - 1 = n
  OBVIOUS
<1>2. \A m \in 0 .. last :
         lines[m] = IF m = 0 THEN <<>>
                    ELSE IF text[m] = None THEN lines[m - 1]
                    ELSE Append(lines[m - 1], text[m])
  BY DEF SplitsTo
<1> QED
  BY <1>1, <1>2

LEMMA SplitIs ==
    ASSUME NEW text, Len(text) \in Nat
    PROVE  \E lines : SplitsTo(text, lines, Len(text)) /\ SplitLines(text) = lines[Len(text)]
<1> DEFINE chosen == CHOOSE lines : lines = [n \in 0 .. Len(text) |->
                IF n = 0 THEN <<>>
                ELSE IF text[n] = None THEN lines[n - 1]
                ELSE Append(lines[n - 1], text[n])]
<1>1. \E lines : SplitsTo(text, lines, Len(text))
  BY SplitsExist
<1>2. SplitsTo(text, chosen, Len(text))
  BY <1>1, Zenon DEF SplitsTo
<1>3. SplitLines(text) = chosen[Len(text)]
  BY DEF SplitLines
<1> QED
  BY <1>2, <1>3

\* Nothing of what is left is blank.
LEMMA SplitType ==
    ASSUME NEW text \in Seq(Line \cup {None})
    PROVE  SplitLines(text) \in Seq(Line)
<1>1. PICK lines : SplitsTo(text, lines, Len(text)) /\ SplitLines(text) = lines[Len(text)]
  BY SplitIs
<1> DEFINE ns == {n \in Nat : n <= Len(text) => lines[n] \in Seq(Line)}
<1>2. 0 \in ns
  BY <1>1 DEF SplitsTo
<1>3. ASSUME NEW n \in Nat, n \in ns
      PROVE  n + 1 \in ns
  <2> SUFFICES ASSUME n + 1 <= Len(text)
               PROVE  lines[n + 1] \in Seq(Line)
    OBVIOUS
  <2>1. lines[n] \in Seq(Line)
    BY <1>3
  <2>2. text[n + 1] = None \/ text[n + 1] \in Line
    OBVIOUS
  <2>3. lines[n + 1] = IF text[n + 1] = None THEN lines[n] ELSE Append(lines[n], text[n + 1])
    BY <1>1, SplitsOn
  <2> QED
    BY <2>1, <2>2, <2>3
<1> HIDE DEF ns
<1>4. Nat \subseteq ns
  BY <1>2, <1>3, EveryNumber
<1> QED
  BY <1>1, <1>4 DEF ns

\* Where nothing is blank everything is left.
LEMMA SplitKeeps ==
    ASSUME NEW text \in Seq(Line)
    PROVE  SplitLines(text) = text
<1>1. PICK lines : SplitsTo(text, lines, Len(text)) /\ SplitLines(text) = lines[Len(text)]
  BY SplitIs
<1> DEFINE ns == {n \in Nat : n <= Len(text) =>
                     /\ lines[n] \in Seq(Line) /\ Len(lines[n]) = n
                     /\ \A i \in 1 .. n : lines[n][i] = text[i]}
<1>2. 0 \in ns
  BY <1>1 DEF SplitsTo
<1>3. ASSUME NEW n \in Nat, n \in ns
      PROVE  n + 1 \in ns
  <2> SUFFICES ASSUME n + 1 <= Len(text)
               PROVE  /\ lines[n + 1] \in Seq(Line) /\ Len(lines[n + 1]) = n + 1
                      /\ \A i \in 1 .. n + 1 : lines[n + 1][i] = text[i]
    OBVIOUS
  <2>1. lines[n] \in Seq(Line) /\ Len(lines[n]) = n /\ \A i \in 1 .. n : lines[n][i] = text[i]
    BY <1>3
  <2>2. text[n + 1] \in Line /\ None \notin Line
    BY FormsAssumption
  <2>3. lines[n + 1] = IF text[n + 1] = None THEN lines[n] ELSE Append(lines[n], text[n + 1])
    BY <1>1, SplitsOn
  <2>4. lines[n + 1] = Append(lines[n], text[n + 1])
    BY <2>2, <2>3
  <2> QED
    BY <2>1, <2>2, <2>4
<1> HIDE DEF ns
<1>4. Nat \subseteq ns
  BY <1>2, <1>3, EveryNumber
<1>5. LET last == lines[Len(text)] IN
      /\ last \in Seq(Line) /\ Len(last) = Len(text)
      /\ \A i \in 1 .. Len(text) : last[i] = text[i]
  BY <1>4 DEF ns
<1> QED
  BY <1>1, <1>5

-----------------------------------------------------------------------------
(***************************************************************************)
(* The invariant: the Household has the people its groups name, nobody in  *)
(* both, and one adult or two; the page is one, each row under a key of    *)
(* its own; the Editor sees what the page holds; and a refusal that is not *)
(* yet answered is about the page as it was posted.                        *)
(***************************************************************************)

HouseOK(h) ==
    /\ h \in Stored
    /\ \A p \in PersonID : h.person[p] # None <=> p \in People(h)

GroupsOK(h) ==
    /\ h.adults \cap h.dependents = {}
    /\ IsFiniteSet(h.adults) /\ Cardinality(h.adults) \in 1 .. MaxAdults

PageOK(pg) ==
    /\ pg \in Page
    /\ \A row, other \in pg.rows : row.key = other.key => row = other

RefusalOK ==
    /\ page # None
    /\ answer.carried \subseteq Keys(page)
    /\ answer.errors = IF Unreadable(page, answer.carried) # {}
                       THEN FieldErrors(page, answer.carried) ELSE {<<None, "form">>}

FormsInv ==
    /\ stored # None => HouseOK(stored) /\ GroupsOK(stored) /\ People(stored) \subseteq used
    /\ page # None => PageOK(page)
    /\ typed = IF page = None THEN None ELSE Seen(page)
    /\ answer # None /\ answer.kind = "refused" => RefusalOK

\* Whoever is in a Household is a Person of whom something is known.
LEMMA PersonIs ==
    ASSUME NEW h, HouseOK(h), NEW p \in People(h)
    PROVE  p \in PersonID /\ h.person[p] \in Person
<1>1. p \in PersonID
  BY DEF HouseOK, Stored, People
<1> QED
  BY <1>1 DEF HouseOK, Stored

-----------------------------------------------------------------------------
(* A page of a Household. *)

LEMMA RowType ==
    ASSUME NEW p \in PersonID, NEW person \in Person, NEW isAdult \in BOOLEAN
    PROVE  RowOf(p, person, isAdult) \in Row /\ RowOf(p, person, isAdult).key = p
<1>1. String(person.birth) \in DateText /\ String(person.death) \in DateText
  BY StringType DEF Person
<1> QED
  BY <1>1 DEF RowOf, Row, Person, Key

LEMMA SlotType ==
    ASSUME NEW slot \in Slot
    PROVE  BlankSlot(slot) \in Row /\ BlankSlot(slot).key = slot
<1>1. NoPhone \in Phone /\ NoEmail \in Email /\ NoText \in DateText
  BY DEF NoPhone, Phone, Dress, NoEmail, Email, NoText, DateText
<1> QED
  BY <1>1 DEF BlankSlot, Row, Slot, Key

LEMMA FindingsType ==
    ASSUME NEW h, HouseOK(h)
    PROVE  Findings(h) \subseteq
              ((PersonID \cup {None}) \X {"phone", "email", "death", "anniversary"})
<1>1. People(h) \subseteq PersonID /\ h.adults \subseteq PersonID
  BY DEF HouseOK, Stored, People
<1> QED
  BY <1>1 DEF Findings

LEMMA PageType ==
    ASSUME NEW rows \in SUBSET Row, NEW anniversary \in DateText,
           NEW lines \in Seq(Line \cup {None}), NEW addressHidden \in BOOLEAN,
           NEW refused \in BOOLEAN,
           NEW errors \in SUBSET ((PersonID \cup {None})
                                     \X {"birth", "death", "anniversary", "form"}),
           NEW findings \in SUBSET ((PersonID \cup {None})
                                       \X {"phone", "email", "death", "anniversary"})
    PROVE  [rows |-> rows, anniversary |-> anniversary, lines |-> lines,
            addressHidden |-> addressHidden, refused |-> refused, errors |-> errors,
            findings |-> findings] \in Page
  BY DEF Page

LEMMA ViewOK ==
    ASSUME NEW h, HouseOK(h)
    PROVE  PageOK(FormViewFromHousehold(h))
<1> DEFINE pg == FormViewFromHousehold(h)
           slots == {s \in Slot : s = "new1" => Cardinality(h.adults) < MaxAdults}
<1>1. /\ pg.rows = {RowOf(p, h.person[p], p \in h.adults) : p \in People(h)}
                     \cup {BlankSlot(slot) : slot \in slots}
      /\ pg = [rows |-> pg.rows, anniversary |-> String(h.anniversary), lines |-> h.lines,
                addressHidden |-> h.addressHidden, refused |-> FALSE, errors |-> {},
                findings |-> Findings(h)]
  BY DEF FormViewFromHousehold
<1>2. \A p \in People(h) :
         /\ RowOf(p, h.person[p], p \in h.adults) \in Row
         /\ RowOf(p, h.person[p], p \in h.adults).key = p /\ p \in PersonID
  <2> TAKE p \in People(h)
  <2>1. p \in PersonID /\ h.person[p] \in Person /\ (p \in h.adults) \in BOOLEAN
    BY PersonIs
  <2> QED
    BY <2>1, RowType
<1>3. \A slot \in slots : BlankSlot(slot) \in Row /\ BlankSlot(slot).key = slot /\ slot \in Slot
  BY SlotType
<1>4. PersonID \cap Slot = {}
  BY FormsAssumption
<1>5. /\ String(h.anniversary) \in DateText /\ h.addressHidden \in BOOLEAN
      /\ h.lines \in Seq(Line \cup {None})
  BY StringType DEF HouseOK, Stored
<1> HIDE DEF pg, slots
<1>6. pg.rows \subseteq Row
  BY <1>1, <1>2, <1>3
<1>7. ASSUME NEW row \in pg.rows, NEW other \in pg.rows, row.key = other.key
      PROVE  row = other
  <2>1. \/ \E p \in People(h) : row = RowOf(p, h.person[p], p \in h.adults)
        \/ \E slot \in slots : row = BlankSlot(slot)
    BY <1>1
  <2>2. \/ \E p \in People(h) : other = RowOf(p, h.person[p], p \in h.adults)
        \/ \E slot \in slots : other = BlankSlot(slot)
    BY <1>1
  <2> QED
    BY <1>2, <1>3, <1>4, <1>7, <2>1, <2>2
<1>8. pg \in Page
  <2> DEFINE rows == pg.rows
             findings == Findings(h)
  <2>1. rows \in SUBSET Row
    BY <1>6
  <2>2. findings \in SUBSET ((PersonID \cup {None})
                                \X {"phone", "email", "death", "anniversary"})
    BY FindingsType
  <2>3. pg = [rows |-> rows, anniversary |-> String(h.anniversary), lines |-> h.lines,
              addressHidden |-> h.addressHidden, refused |-> FALSE, errors |-> {},
              findings |-> findings]
    BY <1>1
  <2> HIDE DEF rows, findings
  <2> QED
    BY <1>5, <2>1, <2>2, <2>3, PageType
<1> QED
  BY <1>7, <1>8 DEF PageOK, pg

\* With one row for each key, that row is what is posted.
LEMMA PostedIs ==
    ASSUME NEW pg, PageOK(pg), NEW row \in pg.rows
    PROVE  Posted(pg, row.key) = row
<1> DEFINE rows == {other \in pg.rows : other.key = row.key}
           first == CHOOSE r \in rows : \A other \in rows : r.group <= other.group
           last == CHOOSE r \in rows : \A other \in rows : r.group >= other.group
<1>1. rows = {row}
  BY DEF PageOK, Page
<1>2. row \in Row /\ row.group \in Nat
  BY DEF PageOK, Page, Row
<1> HIDE DEF rows
<1>3. first = row /\ last = row
  BY <1>1, <1>2
<1>4. Posted(pg, row.key) = [first EXCEPT !.hidden = last.hidden, !.ticks = last.ticks]
  BY DEF Posted, rows
<1> HIDE DEF first, last
<1>5. [row EXCEPT !.hidden = row.hidden, !.ticks = row.ticks] = row
  BY <1>2 DEF Row
<1> QED
  BY <1>3, <1>4, <1>5

LEMMA PostedType ==
    ASSUME NEW pg, PageOK(pg), NEW key \in Keys(pg)
    PROVE  Posted(pg, key) \in Row /\ Posted(pg, key).key = key
<1>1. PICK row \in pg.rows : row.key = key
  BY DEF Keys
<1>2. Posted(pg, key) = row /\ row \in Row
  BY <1>1, PostedIs DEF PageOK, Page
<1> QED
  BY <1>1, <1>2

-----------------------------------------------------------------------------
(* What a save stores. *)

LEMMA ApplyPersonType ==
    ASSUME NEW row \in Row, Readable(row.birth), Readable(row.death), NEW old
    PROVE  ApplyPerson(row, old) \in Person
<1>1. row.birth \in DateText /\ row.death \in DateText
  BY DEF Row
<1>2. ParseDate(row.birth) \in Date /\ ParseDate(row.death) \in Date
  BY <1>1, ParseType
<1> QED
  BY <1>2 DEF ApplyPerson, Person, Row

LEMMA NormalizeOK ==
    ASSUME NEW h, HouseOK(h)
    PROVE  /\ HouseOK(Normalize(h))
           /\ Normalize(h).adults = h.adults /\ Normalize(h).dependents = h.dependents
           /\ \A p \in People(h) : Normalize(h).person[p] = NormalizePerson(h.person[p])
           /\ \A p \in PersonID \ People(h) : Normalize(h).person[p] = None
           /\ Normalize(h).anniversary = h.anniversary /\ Normalize(h).lines = h.lines
           /\ Normalize(h).addressHidden = h.addressHidden
<1> DEFINE person == [p \in PersonID |->
                         IF h.person[p] = None THEN None ELSE NormalizePerson(h.person[p])]
           after == Normalize(h)
<1>1. h \in Stored /\ SplitLines(h.lines) = h.lines
  BY SplitKeeps DEF HouseOK, Stored
<1>2. after = [h EXCEPT !.person = person, !.lines = h.lines]
  BY <1>1 DEF Stored, Normalize
<1>3. None \notin Person
  BY FormsAssumption
<1>4. \A p \in PersonID :
         IF h.person[p] = None THEN person[p] = None
         ELSE person[p] = NormalizePerson(h.person[p]) /\ person[p] \in Person
  BY NormalizePersonType DEF HouseOK, Stored
<1>5. person \in [PersonID -> Person \cup {None}]
  BY <1>4
<1> HIDE DEF person, after
<1>6. /\ after.adults = h.adults /\ after.dependents = h.dependents
      /\ after.anniversary = h.anniversary /\ after.person = person
      /\ after.lines = h.lines /\ after.addressHidden = h.addressHidden
  BY <1>1, <1>2 DEF Stored
<1>7. after \in Stored
  BY <1>1, <1>2, <1>5 DEF Stored
<1>8. \A p \in PersonID : after.person[p] # None <=> p \in People(after)
  BY <1>3, <1>4, <1>6 DEF HouseOK, People
<1>9. HouseOK(after)
  BY <1>7, <1>8 DEF HouseOK
<1>10. \A p \in People(h) : after.person[p] = NormalizePerson(h.person[p])
  BY <1>3, <1>4, <1>6, PersonIs
<1>11. \A p \in PersonID \ People(h) : after.person[p] = None
  BY <1>4, <1>6 DEF HouseOK
<1> QED
  BY <1>6, <1>9, <1>10, <1>11 DEF after

\* A form as it is posted, with the IDs minted for its slots.
Posting(h, pg, carried, minted, inUse) ==
    /\ HouseOK(h) /\ PageOK(pg)
    /\ carried = Carried(pg, h)
    /\ Unreadable(pg, carried) = {}
    /\ People(h) \subseteq inUse
    /\ minted \in Injection(Slot \cap carried, PersonID \ inUse)

LEMMA CarriedIs ==
    ASSUME NEW pg, PageOK(pg), NEW h, HouseOK(h)
    PROVE  Carried(pg, h) \subseteq Keys(pg) /\ Carried(pg, h) \subseteq (People(h) \cup Slot)
  BY DEF Carried

LEMMA PostedReads ==
    ASSUME NEW pg, PageOK(pg), NEW carried \in SUBSET Keys(pg), Unreadable(pg, carried) = {}
    PROVE  /\ \A key \in carried : \A old : ApplyPerson(Posted(pg, key), old) \in Person
           /\ ParseDate(pg.anniversary) \in Date
<1>1. \A key \in carried, field \in {"birth", "death"} : Readable(Posted(pg, key)[field])
  <2> TAKE key \in carried, field \in {"birth", "death"}
  <2>1. <<key, field>> \in carried \X {"birth", "death"}
    OBVIOUS
  <2>2. <<key, field>> \notin Unreadable(pg, carried)
    OBVIOUS
  <2> QED
    BY <2>1, <2>2 DEF Unreadable
<1>2. Readable(pg.anniversary)
  BY DEF Unreadable
<1>3. ASSUME NEW key \in carried, NEW old
      PROVE  ApplyPerson(Posted(pg, key), old) \in Person
  <2>1. Posted(pg, key) \in Row
    BY PostedType
  <2>2. Readable(Posted(pg, key).birth) /\ Readable(Posted(pg, key).death)
    BY <1>1
  <2> QED
    BY <2>1, <2>2, ApplyPersonType
<1>4. ParseDate(pg.anniversary) \in Date
  BY <1>2, ParseType DEF PageOK, Page
<1> QED
  BY <1>3, <1>4

\* Who is in the Household after the save: those who were and are not removed or
\* promoted, and those the slots named.
LEMMA GroupsAfter ==
    ASSUME NEW h, NEW pg, NEW carried, NEW minted, NEW inUse,
           Posting(h, pg, carried, minted, inUse)
    PROVE  LET sub == SubmissionOf(pg, carried, minted)
               adults == AdultsAfter(h, sub)
               dependents == DependentsAfter(h, sub)
               new == {minted[slot] : slot \in Slot \cap carried}
           IN  /\ adults \subseteq (h.adults \cup new)
               /\ dependents \subseteq (h.dependents \cup new)
               /\ new \subseteq (adults \cup dependents)
               /\ new \subseteq PersonID \ inUse
               /\ \A p \in h.adults \ carried : p \in adults
               /\ \A p \in h.dependents \ carried : p \in dependents
<1> DEFINE sub == SubmissionOf(pg, carried, minted)
           new == {minted[slot] : slot \in Slot \cap carried}
<1>1. minted \in [Slot \cap carried -> PersonID \ inUse]
  BY DEF Posting, Injection
<1>2. new \subseteq PersonID \ inUse
  BY <1>1
<1>3. None \notin PersonID
  BY NoneAssumption
<1>4. /\ sub.newAdult = IF "new1" \in carried THEN minted["new1"] ELSE None
      /\ sub.newDependent = IF "new2" \in carried THEN minted["new2"] ELSE None
      /\ sub.removed \subseteq carried /\ sub.promoted \subseteq carried
  BY DEF SubmissionOf
<1> HIDE DEF sub
<1>5. /\ {sub.newAdult} \ {None} \subseteq new
      /\ {sub.newDependent} \ {None} \subseteq new
      /\ new \subseteq ({sub.newAdult, sub.newDependent} \ {None})
  BY <1>1, <1>3, <1>4 DEF Slot
<1> HIDE DEF new
<1>6. /\ AdultsAfter(h, sub) \subseteq (h.adults \cup new)
      /\ DependentsAfter(h, sub) \subseteq (h.dependents \cup new)
      /\ new \subseteq (AdultsAfter(h, sub) \cup DependentsAfter(h, sub))
  BY <1>5 DEF AdultsAfter, DependentsAfter, ApplyToGroup
<1>7. /\ \A p \in h.adults \ carried : p \in AdultsAfter(h, sub)
      /\ \A p \in h.dependents \ carried : p \in DependentsAfter(h, sub)
  BY <1>4 DEF AdultsAfter, DependentsAfter, ApplyToGroup, Removed, Promoted
<1> QED
  BY <1>2, <1>6, <1>7 DEF sub, new

LEMMA AppliedOK ==
    ASSUME NEW h, NEW pg, NEW carried, NEW minted, NEW inUse,
           Posting(h, pg, carried, minted, inUse),
           NEW after, after = Applied(h, pg, carried, minted)
    PROVE  /\ HouseOK(after)
           /\ \A p \in People(after) \ carried : p \in People(h) => after.person[p] = h.person[p]
<1> DEFINE sub == SubmissionOf(pg, carried, minted)
           adults == AdultsAfter(h, sub)
           dependents == DependentsAfter(h, sub)
           new == {minted[slot] : slot \in Slot \cap carried}
           keyOf(p) == IF \E slot \in Slot \cap carried : minted[slot] = p
                       THEN CHOOSE slot \in Slot \cap carried : minted[slot] = p ELSE p
           person == [p \in PersonID |->
                         IF p \in adults \cup dependents
                         THEN PersonAfter(h, pg, carried, keyOf(p), p) ELSE None]
<1>1. /\ after.adults = adults /\ after.dependents = dependents /\ after.person = person
      /\ after = [adults |-> adults, dependents |-> dependents, person |-> person,
                   anniversary |-> ParseDate(pg.anniversary),
                   lines |-> SplitLines(pg.lines), addressHidden |-> pg.addressHidden]
  BY DEF Applied
<1>2. HouseOK(h) /\ PageOK(pg) /\ carried \subseteq Keys(pg) /\ Unreadable(pg, carried) = {}
      /\ People(h) \subseteq inUse
  BY CarriedIs DEF Posting
<1>3. /\ adults \subseteq (h.adults \cup new) /\ dependents \subseteq (h.dependents \cup new)
      /\ new \subseteq PersonID \ inUse
  BY GroupsAfter
<1>4. adults \subseteq PersonID /\ dependents \subseteq PersonID
  BY <1>2, <1>3 DEF HouseOK, Stored
<1>5. /\ \A key \in carried : \A old : ApplyPerson(Posted(pg, key), old) \in Person
      /\ ParseDate(pg.anniversary) \in Date
  BY <1>2, PostedReads
<1>6. SplitLines(pg.lines) \in Seq(Line) /\ pg.addressHidden \in BOOLEAN
  BY <1>2, SplitType DEF PageOK, Page
<1>7. \A p \in new : keyOf(p) \in carried
  <2> TAKE p \in new
  <2>1. \E slot \in Slot \cap carried : minted[slot] = p
    OBVIOUS
  <2> QED
    BY <2>1
<1>8. \A p : p \notin new => keyOf(p) = p
  OBVIOUS
<1> HIDE DEF adults, dependents, new, keyOf
<1>9. ASSUME NEW p \in adults \cup dependents
      PROVE  PersonAfter(h, pg, carried, keyOf(p), p) \in Person
  <2>1. CASE keyOf(p) \in carried
    BY <1>5, <2>1 DEF PersonAfter
  <2>2. CASE keyOf(p) \notin carried
    <3>1. p \in People(h)
      BY <1>3, <1>7, <1>9, <2>2 DEF People
    <3> QED
      BY <1>2, <2>2, <3>1, PersonIs DEF PersonAfter
  <2> QED
    BY <2>1, <2>2
<1>10. None \notin Person
  BY FormsAssumption
<1>11. /\ person \in [PersonID -> Person \cup {None}]
       /\ \A p \in PersonID : person[p] # None <=> p \in adults \cup dependents
  BY <1>9, <1>10
<1>12. ASSUME NEW p \in People(after) \ carried, p \in People(h)
       PROVE  after.person[p] = h.person[p]
  <2>1. p \notin new /\ p \in adults \cup dependents /\ p \in PersonID
    BY <1>1, <1>2, <1>3, <1>4, <1>12 DEF People
  <2>2. keyOf(p) = p
    BY <1>8, <2>1
  <2>3. after.person[p] = PersonAfter(h, pg, carried, keyOf(p), p)
    BY <1>1, <2>1
  <2> QED
    BY <1>12, <2>2, <2>3 DEF PersonAfter
<1> HIDE DEF person
<1>13. after \in Stored
  BY <1>1, <1>4, <1>5, <1>11, <1>6 DEF Stored
<1> QED
  BY <1>1, <1>11, <1>12, <1>13 DEF HouseOK, People

-----------------------------------------------------------------------------
(* The steps. *)

LEMMA ShowOK ==
    ASSUME FormsInv, NEW h, h # None => HouseOK(h), Show(PageOf(h))
    PROVE  /\ page' # None => PageOK(page')
           /\ typed' = IF page' = None THEN None ELSE Seen(page')
<1>1. page' = PageOf(h)
  BY DEF Show
<1>2. page' # None => PageOK(page')
  <2>1. CASE h = None
    BY <1>1, <2>1 DEF PageOf
  <2>2. CASE h # None
    BY <1>1, <2>2, ViewOK DEF PageOf
  <2> QED
    BY <2>1, <2>2
<1>3. typed' = IF page' = None THEN None ELSE Seen(page')
  <2>1. typed' = IF PageOf(h) = None THEN None ELSE Seen(PageOf(h))
    BY DEF Show
  <2> QED
    BY <1>1, <2>1
<1> QED
  BY <1>2, <1>3

\* A row that changes but in its key leaves every key to one row.
LEMMA RowChangedOK ==
    ASSUME NEW pg, PageOK(pg), NEW row \in pg.rows, NEW changed \in Row, changed.key = row.key,
           NEW after, after = [pg EXCEPT !.rows = (@ \ {row}) \cup {changed}]
    PROVE  PageOK(after)
<1>1. /\ after \in Page
      /\ after.rows = (pg.rows \ {row}) \cup {changed}
  BY DEF PageOK, Page
<1>2. after.rows \subseteq Row
  BY <1>1 DEF PageOK, Page
<1>3. ASSUME NEW one \in after.rows, NEW other \in after.rows, one.key = other.key
      PROVE  one = other
  <2>1. one = changed \/ (one \in pg.rows /\ one # row)
    BY <1>1
  <2>2. other = changed \/ (other \in pg.rows /\ other # row)
    BY <1>1
  <2> QED
    BY <1>3, <2>1, <2>2 DEF PageOK, Page
<1> QED
  BY <1>1, <1>2, <1>3 DEF PageOK

\* What the Editor reads and types of a row.
TextsOf(row) == [field \in Texts |-> row[field]]

\* What the Editor sees of each row is what would be posted of it.
LEMMA SeenIs ==
    ASSUME NEW pg, PageOK(pg)
    PROVE  /\ Seen(pg) = [people |-> Seen(pg).people, facts |-> Seen(pg).facts]
           /\ DOMAIN Seen(pg).people = Keys(pg)
           /\ \A row \in pg.rows : Seen(pg).people[row.key] = TextsOf(row)
<1>1. \A row \in pg.rows : row.key \in Keys(pg) /\ Posted(pg, row.key) = row
  BY PostedIs DEF Keys
<1> QED
  BY <1>1 DEF Seen, TextsOf

LEMMA RowChangedSeen ==
    ASSUME NEW pg, PageOK(pg), NEW row \in pg.rows, NEW changed \in Row, changed.key = row.key,
           NEW after, after = [pg EXCEPT !.rows = (@ \ {row}) \cup {changed}]
    PROVE  Seen(after) =
              [Seen(pg) EXCEPT !.people[row.key] = TextsOf(changed)]
<1>1. PageOK(after)
  BY RowChangedOK
<1>2. after.rows = (pg.rows \ {row}) \cup {changed}
  BY DEF PageOK, Page
<1>3. Keys(after) = Keys(pg)
  BY <1>2 DEF Keys
<1> DEFINE people == [Seen(pg).people EXCEPT ![row.key] = TextsOf(changed)]
<1>4. Seen(after).people = people
  <2>1. ASSUME NEW key \in Keys(pg)
        PROVE  Seen(after).people[key] = people[key]
    <3>1. CASE key = row.key
      <4>1. changed \in after.rows
        BY <1>2
      <4>2. Seen(after).people[key] = TextsOf(changed)
        BY <1>1, <3>1, <4>1, SeenIs
      <4>3. row.key \in DOMAIN Seen(pg).people
        BY SeenIs DEF Keys
      <4> QED
        BY <3>1, <4>2, <4>3
    <3>2. CASE key # row.key
      <4>1. PICK other \in pg.rows : other.key = key
        BY DEF Keys
      <4>2. other \in after.rows
        BY <1>2, <3>2, <4>1
      <4>3. Seen(after).people[key] = TextsOf(other)
        BY <1>1, <4>1, <4>2, SeenIs
      <4>4. Seen(pg).people[key] = TextsOf(other)
        BY <4>1, SeenIs
      <4>5. people[key] = Seen(pg).people[key]
        <5>1. key \in DOMAIN Seen(pg).people
          BY SeenIs
        <5> HIDE DEF Seen
        <5> QED
          BY <3>2, <5>1
      <4> QED
        BY <4>3, <4>4, <4>5
    <3> QED
      BY <3>1, <3>2
  <2>2. DOMAIN people = Keys(pg) /\ DOMAIN Seen(after).people = Keys(pg)
    BY <1>1, <1>3, SeenIs
  <2>3. Seen(after).people = [key \in Keys(pg) |-> Seen(after).people[key]]
    BY <1>3 DEF Seen
  <2>4. people = [key \in Keys(pg) |-> people[key]]
    BY <2>2
  <2> HIDE DEF people
  <2> QED
    BY <2>1, <2>3, <2>4
<1>5. Seen(after).facts = Seen(pg).facts
  <2>1. /\ after.anniversary = pg.anniversary /\ after.lines = pg.lines
        /\ after.addressHidden = pg.addressHidden
    BY DEF PageOK, Page
  <2>2. \A field \in {"anniversary", "lines", "addressHidden"} : after[field] = pg[field]
    BY <2>1
  <2> QED
    BY <2>2 DEF Seen
<1>6. [Seen(pg) EXCEPT !.people = people] = [people |-> people, facts |-> Seen(pg).facts]
  <2> HIDE DEF people
  <2>1. Seen(pg) = [people |-> Seen(pg).people, facts |-> Seen(pg).facts]
    BY SeenIs
  <2> QED
    BY <2>1
<1>7. Seen(after) = [people |-> people, facts |-> Seen(pg).facts]
  BY <1>1, <1>4, <1>5, SeenIs
<1>8. [Seen(pg) EXCEPT !.people[row.key] = TextsOf(changed)]
         = [Seen(pg) EXCEPT !.people = people]
  OBVIOUS
<1> QED
  BY <1>6, <1>7, <1>8

LEMMA TypedRow ==
    ASSUME NEW row \in Row, NEW typing \in Typings
    PROVE  /\ [row EXCEPT ![typing.field] = typing.value] \in Row
           /\ [row EXCEPT ![typing.field] = typing.value].key = row.key
<1>1. typing.field \in Texts /\ [BlankSlot("new1") EXCEPT ![typing.field] = typing.value] \in Row
  BY FormsAssumption
<1> DEFINE tried == [BlankSlot("new1") EXCEPT ![typing.field] = typing.value]
<1>2. tried[typing.field] = typing.value /\ tried \in Row
  BY <1>1 DEF BlankSlot, Texts
<1> HIDE DEF tried
<1> DEFINE changed == [row EXCEPT ![typing.field] = typing.value]
<1>3. CASE typing.field = "given"
  <2>1. changed = [row EXCEPT !.given = typing.value] /\ typing.value \in Name \cup {None}
    BY <1>2, <1>3 DEF Row
  <2> QED
    BY <2>1 DEF Row
<1>4. CASE typing.field = "phone"
  <2>1. changed = [row EXCEPT !.phone = typing.value] /\ typing.value \in Phone
    BY <1>2, <1>4 DEF Row
  <2> QED
    BY <2>1 DEF Row
<1>5. CASE typing.field = "email"
  <2>1. changed = [row EXCEPT !.email = typing.value] /\ typing.value \in Email
    BY <1>2, <1>5 DEF Row
  <2> QED
    BY <2>1 DEF Row
<1>6. CASE typing.field = "birth"
  <2>1. changed = [row EXCEPT !.birth = typing.value] /\ typing.value \in DateText
    BY <1>2, <1>6 DEF Row
  <2> QED
    BY <2>1 DEF Row
<1>7. CASE typing.field = "death"
  <2>1. changed = [row EXCEPT !.death = typing.value] /\ typing.value \in DateText
    BY <1>2, <1>7 DEF Row
  <2> QED
    BY <2>1 DEF Row
<1>8. CASE typing.field = "hidden"
  <2>1. /\ changed = [row EXCEPT !.hidden = typing.value]
        /\ typing.value \in SUBSET {"birth", "phone", "email"}
    BY <1>2, <1>8 DEF Row
  <2> QED
    BY <2>1 DEF Row
<1> QED
  BY <1>1, <1>3, <1>4, <1>5, <1>6, <1>7, <1>8 DEF Texts

LEMMA TypeStep ==
    ASSUME FormsInv, page # None, NEW row \in page.rows, NEW typing \in Typings,
           Type(row, typing.field, typing.value)
    PROVE  FormsInv'
<1> DEFINE field == typing.field
           value == typing.value
           changed == [row EXCEPT ![field] = value]
<1>1. /\ page' = [page EXCEPT !.rows = (@ \ {row}) \cup {changed}]
      /\ typed' = [typed EXCEPT !.people[row.key][field] = value]
      /\ UNCHANGED <<stored, answer, used>> /\ answer = None
  BY DEF Type, Editing
<1>2. PageOK(page) /\ row \in Row /\ typed = Seen(page)
  BY DEF FormsInv, PageOK, Page
<1>3. changed \in Row /\ changed.key = row.key /\ field \in Texts
  BY <1>2, TypedRow, FormsAssumption
<1>4. [TextsOf(row) EXCEPT ![field] = value] = TextsOf(changed)
  <2>1. \A f \in Texts : f \in DOMAIN row
    BY <1>2 DEF Row, Texts
  <2>2. \A f \in Texts : changed[f] = IF f = field THEN value ELSE row[f]
    BY <2>1
  <2> HIDE DEF changed
  <2> QED
    BY <2>2 DEF TextsOf
<1> HIDE DEF changed
<1>5. PageOK(page')
  BY <1>1, <1>2, <1>3, RowChangedOK
<1>6. Seen(page') = [Seen(page) EXCEPT !.people[row.key] = TextsOf(changed)]
  BY <1>1, <1>2, <1>3, RowChangedSeen
<1>7. Seen(page).people[row.key] = TextsOf(row)
  BY <1>2, SeenIs
<1>8. typed' = Seen(page')
  BY <1>1, <1>2, <1>4, <1>6, <1>7
<1>9. page' # None
  BY <1>5, FormsAssumption DEF PageOK
<1> QED
  BY <1>1, <1>5, <1>8, <1>9 DEF FormsInv

LEMMA TickStep ==
    ASSUME FormsInv, page # None, NEW row \in page.rows, NEW box \in {"remove", "promote"},
           Tick(row, box)
    PROVE  FormsInv'
<1> DEFINE changed == [row EXCEPT !.ticks = @ \cup {box}]
<1>1. /\ page' = [page EXCEPT !.rows = (@ \ {row}) \cup {changed}]
      /\ UNCHANGED <<stored, answer, used, typed>> /\ answer = None
  BY DEF Tick, Editing
<1>2. PageOK(page) /\ row \in Row /\ typed = Seen(page)
  BY DEF FormsInv, PageOK, Page
<1>3. changed \in Row /\ changed.key = row.key
  BY <1>2 DEF Row
<1>4. TextsOf(row) = TextsOf(changed)
  BY <1>2 DEF Row, Texts, TextsOf
<1> HIDE DEF changed
<1>5. PageOK(page')
  BY <1>1, <1>2, <1>3, RowChangedOK
<1>6. Seen(page') = [Seen(page) EXCEPT !.people[row.key] = TextsOf(changed)]
  BY <1>1, <1>2, <1>3, RowChangedSeen
<1>7. Seen(page).people[row.key] = TextsOf(row)
  BY <1>2, SeenIs
<1>8. Seen(page') = Seen(page)
  <2>1. Seen(page) = [people |-> Seen(page).people, facts |-> Seen(page).facts]
    BY <1>2, SeenIs
  <2>2. [Seen(page).people EXCEPT ![row.key] = TextsOf(changed)] = Seen(page).people
    BY <1>4, <1>7 DEF Seen
  <2> QED
    BY <1>6, <2>1, <2>2
<1>9. page' # None
  BY <1>5, FormsAssumption DEF PageOK
<1> QED
  BY <1>1, <1>2, <1>5, <1>8, <1>9 DEF FormsInv

LEMMA TypeFactStep ==
    ASSUME FormsInv, page # None, NEW fact \in Facts, TypeFact(fact.field, fact.value)
    PROVE  FormsInv'
<1> DEFINE field == fact.field
           value == fact.value
<1>1. /\ page' = [page EXCEPT ![field] = value]
      /\ typed' = [typed EXCEPT !.facts[field] = value]
      /\ UNCHANGED <<stored, answer, used>> /\ answer = None
  BY DEF TypeFact, Editing
<1>2. /\ field \in {"anniversary", "lines", "addressHidden"}
      /\ field = "anniversary" => value \in DateText
      /\ field = "lines" => value \in Seq(Line \cup {None})
      /\ field = "addressHidden" => value \in BOOLEAN
  BY FormsAssumption
<1>3. PageOK(page) /\ typed = Seen(page)
  BY DEF FormsInv
<1> HIDE DEF field, value
<1>4. page' \in Page /\ page'.rows = page.rows
  <2>1. CASE field = "anniversary"
    <3>1. page' = [page EXCEPT !.anniversary = value]
      BY <1>1, <2>1
    <3> QED
      BY <1>2, <1>3, <2>1, <3>1 DEF PageOK, Page
  <2>2. CASE field = "lines"
    <3>1. page' = [page EXCEPT !.lines = value]
      BY <1>1, <2>2
    <3> QED
      BY <1>2, <1>3, <2>2, <3>1 DEF PageOK, Page
  <2>3. CASE field = "addressHidden"
    <3>1. page' = [page EXCEPT !.addressHidden = value]
      BY <1>1, <2>3
    <3> QED
      BY <1>2, <1>3, <2>3, <3>1 DEF PageOK, Page
  <2> QED
    BY <1>2, <2>1, <2>2, <2>3
<1>5. PageOK(page')
  BY <1>3, <1>4 DEF PageOK
<1>6. Seen(page').people = Seen(page).people
  BY <1>4 DEF Seen, Keys, Posted
<1>7. Seen(page').facts = [Seen(page).facts EXCEPT ![field] = value]
  <2>1. \A f \in {"anniversary", "lines", "addressHidden"} :
           page'[f] = IF f = field THEN value ELSE page[f]
    BY <1>1, <1>3 DEF PageOK, Page
  <2> QED
    BY <1>2, <2>1 DEF Seen
<1>8. typed' = Seen(page')
  <2>1. Seen(page') = [people |-> Seen(page').people, facts |-> Seen(page').facts]
    BY <1>5, SeenIs
  <2>2. Seen(page) = [people |-> Seen(page).people, facts |-> Seen(page).facts]
    BY <1>3, SeenIs
  <2> QED
    BY <1>1, <1>3, <1>6, <1>7, <2>1, <2>2
<1>9. page' # None
  BY <1>5, FormsAssumption DEF PageOK
<1> QED
  BY <1>1, <1>5, <1>8, <1>9 DEF FormsInv

\* A request that is refused, or finds the Household gone.
LEMMA RefusingStep ==
    ASSUME FormsInv, PostGone \/ PostUnreadable \/ PostUnloadable
    PROVE  FormsInv'
<1>1. CASE PostGone
  <2>1. answer'.kind = "gone" /\ UNCHANGED <<stored, page, used, typed>>
    BY <1>1 DEF PostGone, Decide, Gone
  <2> QED
    BY <2>1 DEF FormsInv
<1> DEFINE carried == Carried(page, stored)
<1>2. ASSUME page # None, stored # None
      PROVE  carried \subseteq Keys(page)
  BY <1>2, CarriedIs DEF FormsInv
<1>3. CASE PostUnreadable
  <2>1. /\ page # None /\ stored # None /\ Unreadable(page, carried) # {}
        /\ answer'.carried = carried /\ answer'.errors = FieldErrors(page, carried)
        /\ UNCHANGED <<stored, page, used, typed>>
    BY <1>3 DEF PostUnreadable, Decide, Refusal
  <2>2. RefusalOK'
    BY <1>2, <2>1 DEF RefusalOK
  <2> QED
    BY <2>1, <2>2 DEF FormsInv
<1>4. CASE PostUnloadable
  <2>1. /\ page # None /\ stored # None /\ Unreadable(page, carried) = {}
        /\ answer'.carried = carried /\ answer'.errors = {<<None, "form">>}
        /\ UNCHANGED <<stored, page, used, typed>>
    BY <1>4 DEF PostUnloadable, Decide, Refusal
  <2>2. RefusalOK'
    BY <1>2, <2>1 DEF RefusalOK
  <2> QED
    BY <2>1, <2>2 DEF FormsInv
<1> QED
  BY <1>1, <1>3, <1>4

\* What a save is, in the terms of the lemmas above.
LEMMA SavedIs ==
    ASSUME FormsInv, PostSaved
    PROVE  \E minted :
              /\ Posting(stored, page, Carried(page, stored), minted, used)
              /\ stored' = Normalize(Applied(stored, page, Carried(page, stored), minted))
              /\ used' = used \cup {minted[slot] : slot \in Slot \cap Carried(page, stored)}
              /\ answer' = Saved(Carried(page, stored), minted)
              /\ UNCHANGED <<page, typed>>
              /\ LET sub == SubmissionOf(page, Carried(page, stored), minted) IN
                 RoomForNewAdult(stored, sub) /\ AdultsAfter(stored, sub) # {}
<1> DEFINE carried == Carried(page, stored)
<1>1. page # None /\ stored # None /\ Unreadable(page, carried) = {}
  BY DEF PostSaved
<1>2. PICK minted \in Mints(carried) :
         /\ stored' = Normalize(Applied(stored, page, carried, minted))
         /\ used' = used \cup {minted[slot] : slot \in DOMAIN minted}
         /\ Decide(Saved(carried, minted))
         /\ LET sub == SubmissionOf(page, carried, minted) IN
            RoomForNewAdult(stored, sub) /\ AdultsAfter(stored, sub) # {}
  BY DEF PostSaved
<1>3. minted \in Injection(Slot \cap carried, PersonID \ used)
  BY <1>2 DEF Mints
<1>4. DOMAIN minted = Slot \cap carried
  BY <1>3 DEF Injection
<1>5. HouseOK(stored) /\ PageOK(page) /\ People(stored) \subseteq used
  BY <1>1 DEF FormsInv
<1>6. Posting(stored, page, carried, minted, used)
  BY <1>1, <1>3, <1>5 DEF Posting
<1> QED
  BY <1>2, <1>4, <1>6 DEF Decide

\* The groups after a save: two adults at most, one at least, and nobody twice.
LEMMA GroupsKept ==
    ASSUME NEW h, NEW pg, NEW carried, NEW minted, NEW inUse,
           Posting(h, pg, carried, minted, inUse), GroupsOK(h),
           NEW sub, sub = SubmissionOf(pg, carried, minted),
           RoomForNewAdult(h, sub), AdultsAfter(h, sub) # {}
    PROVE  /\ AdultsAfter(h, sub) \cap DependentsAfter(h, sub) = {}
           /\ IsFiniteSet(AdultsAfter(h, sub))
           /\ Cardinality(AdultsAfter(h, sub)) \in 1 .. MaxAdults
<1> DEFINE stay == ApplyToGroup(h.adults, sub, FALSE)
           adults == AdultsAfter(h, sub)
<1>1. stay \subseteq h.adults /\ adults = stay \cup ({sub.newAdult} \ {None})
  BY DEF ApplyToGroup, AdultsAfter
<1>2. RoomForNewAdult(h, sub) => (sub.newAdult # None => Cardinality(stay) < MaxAdults)
  BY DEF RoomForNewAdult
<1>3. DependentsAfter(h, sub) \subseteq (h.dependents \cup ({sub.newDependent} \ {None}))
  BY DEF ApplyToGroup, DependentsAfter
<1> HIDE DEF stay, adults
<1>4. /\ IsFiniteSet(stay) /\ Cardinality(stay) \in Nat /\ Cardinality(stay) <= MaxAdults
  <2>1. IsFiniteSet(h.adults) /\ Cardinality(h.adults) <= MaxAdults
    BY DEF GroupsOK, MaxAdults
  <2>2. IsFiniteSet(stay) /\ Cardinality(stay) <= Cardinality(h.adults)
    BY <1>1, <2>1, FS_Subset
  <2>3. Cardinality(stay) \in Nat /\ Cardinality(h.adults) \in Nat
    BY <2>1, <2>2, FS_CardinalityType
  <2> QED
    BY <2>1, <2>2, <2>3 DEF MaxAdults
<1>5. IsFiniteSet(adults) /\ Cardinality(adults) <= MaxAdults
  <2>1. CASE sub.newAdult = None
    <3>1. adults = stay
      BY <1>1, <2>1
    <3> QED
      BY <1>4, <3>1
  <2>2. CASE sub.newAdult # None
    <3>1. adults = stay \cup {sub.newAdult}
      BY <1>1, <2>2
    <3>2. /\ IsFiniteSet(adults)
          /\ Cardinality(adults) = Cardinality(stay) \/ Cardinality(adults) = Cardinality(stay) + 1
      BY <1>4, <3>1, FS_AddElement
    <3>3. Cardinality(stay) < MaxAdults
      BY <1>2, <2>2
    <3> QED
      BY <1>4, <3>2, <3>3 DEF MaxAdults
  <2> QED
    BY <2>1, <2>2
<1>6. Cardinality(adults) \in Nat /\ Cardinality(adults) # 0
  BY <1>5, FS_CardinalityType, FS_EmptySet DEF adults
<1>7. ASSUME NEW p \in adults, p \in DependentsAfter(h, sub)
      PROVE  FALSE
  <2>1. minted \in [Slot \cap carried -> PersonID \ inUse]
        /\ \A a, b \in Slot \cap carried : minted[a] = minted[b] => a = b
    BY DEF Posting, Injection, IsInjective
  <2>2. h.adults \subseteq inUse /\ h.dependents \subseteq inUse
        /\ h.adults \cap h.dependents = {}
    BY DEF Posting, GroupsOK, People
  <2>3. /\ sub.newAdult = IF "new1" \in carried THEN minted["new1"] ELSE None
        /\ sub.newDependent = IF "new2" \in carried THEN minted["new2"] ELSE None
    BY DEF SubmissionOf
  <2>4. /\ sub.newAdult # None => "new1" \in carried /\ sub.newAdult = minted["new1"]
                                 /\ sub.newAdult \notin inUse
        /\ sub.newDependent # None => "new2" \in carried /\ sub.newDependent = minted["new2"]
                                     /\ sub.newDependent \notin inUse
    BY <2>1, <2>3 DEF Slot
  <2>5. ~ (sub.newAdult # None /\ sub.newDependent # None /\ sub.newAdult = sub.newDependent)
    BY <2>1, <2>4 DEF Slot
  <2> QED
    BY <1>1, <1>3, <1>7, <2>2, <2>4, <2>5
<1> QED
  BY <1>5, <1>6, <1>7 DEF adults, MaxAdults

LEMMA SavingStep ==
    ASSUME FormsInv, PostSaved
    PROVE  FormsInv'
<1> DEFINE carried == Carried(page, stored)
<1>1. PICK minted :
         /\ Posting(stored, page, carried, minted, used)
         /\ stored' = Normalize(Applied(stored, page, carried, minted))
         /\ used' = used \cup {minted[slot] : slot \in Slot \cap carried}
         /\ answer' = Saved(carried, minted)
         /\ UNCHANGED <<page, typed>>
         /\ LET sub == SubmissionOf(page, carried, minted) IN
            RoomForNewAdult(stored, sub) /\ AdultsAfter(stored, sub) # {}
  BY SavedIs
<1> DEFINE applied == Applied(stored, page, carried, minted)
           sub == SubmissionOf(page, carried, minted)
           new == {minted[slot] : slot \in Slot \cap carried}
<1>2. HouseOK(applied)
  BY <1>1, AppliedOK
<1>3. /\ AdultsAfter(stored, sub) \subseteq (stored.adults \cup new)
      /\ DependentsAfter(stored, sub) \subseteq (stored.dependents \cup new)
  BY <1>1, GroupsAfter
<1>4. applied.adults = AdultsAfter(stored, sub) /\ applied.dependents = DependentsAfter(stored, sub)
  BY DEF Applied
<1>5. People(stored) \subseteq used /\ GroupsOK(stored)
  <2>1. stored # None
    BY DEF PostSaved
  <2> QED
    BY <2>1 DEF FormsInv
<1>6. /\ AdultsAfter(stored, sub) \cap DependentsAfter(stored, sub) = {}
       /\ IsFiniteSet(AdultsAfter(stored, sub))
       /\ Cardinality(AdultsAfter(stored, sub)) \in 1 .. MaxAdults
  BY <1>1, <1>5, GroupsKept
<1> HIDE DEF applied, new, sub
<1>7. HouseOK(stored')
  BY <1>1, <1>2, NormalizeOK DEF applied
<1>8. stored'.adults = applied.adults /\ stored'.dependents = applied.dependents
  BY <1>1, <1>2, NormalizeOK DEF applied
<1>9. used' = used \cup new
  BY <1>1 DEF new
<1>10. People(stored') \subseteq used'
  BY <1>3, <1>4, <1>5, <1>8, <1>9 DEF People
<1>11. answer'.kind = "saved"
  BY <1>1 DEF Saved
<1>12. GroupsOK(stored')
  BY <1>4, <1>8, <1>6 DEF GroupsOK
<1>13. page # None /\ typed = Seen(page)
  BY DEF PostSaved, FormsInv
<1> QED
  BY <1>1, <1>7, <1>10, <1>11, <1>12, <1>13 DEF FormsInv

LEMMA AnswerSavedStep ==
    ASSUME FormsInv, AnswerSaved
    PROVE  FormsInv'
<1> DEFINE h == IF answer.kind = "saved" THEN stored ELSE None
<1>1. Show(PageOf(h)) /\ answer' = None /\ UNCHANGED <<stored, used>>
  BY DEF AnswerSaved, PageOf, Show
<1>2. h # None => HouseOK(h)
  BY DEF FormsInv
<1> HIDE DEF h
<1>3. /\ page' # None => PageOK(page')
      /\ typed' = IF page' = None THEN None ELSE Seen(page')
  BY <1>1, <1>2, ShowOK
<1> QED
  BY <1>1, <1>3 DEF FormsInv

\* The rows of a refused form: what was carried as it was posted, under the same
\* keys, and slots under keys that were not carried.
LEMMA RefusedRowsOK ==
    ASSUME NEW pg, PageOK(pg), NEW carried \in SUBSET Keys(pg)
    PROVE  /\ RefusedRows(pg, carried) \subseteq Row
           /\ {row.key : row \in RefusedRows(pg, carried)} = carried \cup Slot
           /\ \A row, other \in RefusedRows(pg, carried) : row.key = other.key => row = other
<1> DEFINE back(key) == [Posted(pg, key) EXCEPT !.group = 1, !.ticks = {}]
           rows == RefusedRows(pg, carried)
<1>1. ASSUME NEW key \in carried
      PROVE  back(key) \in Row /\ back(key).key = key
  <2> DEFINE row == Posted(pg, key)
  <2>1. row \in Row /\ row.key = key
    BY PostedType
  <2> HIDE DEF row
  <2>2. 1 \in 1 .. 4 /\ {} \in SUBSET {"remove", "promote"}
    OBVIOUS
  <2>3. [row EXCEPT !.group = 1, !.ticks = {}].key = key
    BY <2>1 DEF Row
  <2>4. [row EXCEPT !.group = 1, !.ticks = {}] \in Row
    BY <2>1, <2>2 DEF Row
  <2> QED
    BY <2>3, <2>4 DEF row
<1>2. \A slot \in Slot \ carried : BlankSlot(slot) \in Row /\ BlankSlot(slot).key = slot
  BY SlotType
<1>3. rows = {back(key) : key \in carried} \cup {BlankSlot(slot) : slot \in Slot \ carried}
  BY DEF RefusedRows
<1> HIDE DEF back, rows
<1>4. rows \subseteq Row
  BY <1>1, <1>2, <1>3
<1>5. {row.key : row \in rows} = carried \cup Slot
  BY <1>1, <1>2, <1>3
<1>6. ASSUME NEW row \in rows, NEW other \in rows, row.key = other.key
      PROVE  row = other
  <2>1. \/ \E key \in carried : row = back(key)
        \/ \E slot \in Slot \ carried : row = BlankSlot(slot)
    BY <1>3
  <2>2. \/ \E key \in carried : other = back(key)
        \/ \E slot \in Slot \ carried : other = BlankSlot(slot)
    BY <1>3
  <2> QED
    BY <1>1, <1>2, <1>6, <2>1, <2>2
<1> QED
  BY <1>4, <1>5, <1>6 DEF rows

Errors == (PersonID \cup {None}) \X {"birth", "death", "anniversary", "form"}

\* The page that gives a form back.
GivenBack(back, pg, carried, errors) ==
    /\ PageOK(back)
    /\ Keys(back) = carried \cup Slot
    /\ back.errors = errors
    /\ back.anniversary = pg.anniversary /\ back.lines = SplitLines(pg.lines)
    /\ back.addressHidden = pg.addressHidden
    /\ \A key \in carried : TextsOf(Posted(back, key)) = TextsOf(Posted(pg, key))

LEMMA RefusedPageIs ==
    ASSUME NEW pg, PageOK(pg), NEW carried \in SUBSET Keys(pg), NEW errors \in SUBSET Errors
    PROVE  GivenBack(FormViewFromSubmission(pg, carried, errors), pg, carried, errors)
<1> DEFINE back == FormViewFromSubmission(pg, carried, errors)
<1>1. back = [pg EXCEPT !.rows = RefusedRows(pg, carried), !.lines = SplitLines(pg.lines),
                        !.refused = TRUE, !.errors = errors, !.findings = {}]
  BY DEF FormViewFromSubmission, PageOK, Page
<1>2. /\ back.rows = RefusedRows(pg, carried)
      /\ back.anniversary = pg.anniversary /\ back.lines = SplitLines(pg.lines)
      /\ back.addressHidden = pg.addressHidden
      /\ back.errors = errors
  BY <1>1 DEF PageOK, Page
<1>3. PageOK(back)
  <2> DEFINE lines == SplitLines(pg.lines)
             rows == RefusedRows(pg, carried)
  <2>1. lines \in Seq(Line \cup {None}) /\ rows \in SUBSET Row
    BY SplitType, RefusedRowsOK DEF PageOK, Page
  <2>2. back = [pg EXCEPT !.rows = rows, !.lines = lines, !.refused = TRUE, !.errors = errors,
                          !.findings = {}]
    BY <1>1
  <2> HIDE DEF lines, rows
  <2>3. back \in Page
    BY <2>1, <2>2 DEF PageOK, Page, Errors
  <2> QED
    BY <1>2, <2>3, RefusedRowsOK DEF PageOK
<1>4. Keys(back) = carried \cup Slot
  BY <1>2, RefusedRowsOK DEF Keys
<1>5. ASSUME NEW key \in carried
      PROVE  TextsOf(Posted(back, key)) = TextsOf(Posted(pg, key))
  <2> DEFINE row == Posted(pg, key)
             given == [row EXCEPT !.group = 1, !.ticks = {}]
  <2>1. row \in Row /\ row.key = key
    BY PostedType
  <2>2. given \in back.rows
    BY <1>2, <1>5 DEF RefusedRows
  <2> HIDE DEF row
  <2>3. given.key = key /\ TextsOf(given) = TextsOf(row)
    BY <2>1 DEF Row, Texts, TextsOf
  <2> HIDE DEF given
  <2>4. Posted(back, key) = given
    BY <1>3, <2>2, <2>3, PostedIs
  <2> QED
    BY <2>3, <2>4 DEF row
<1> HIDE DEF back
<1> QED
  BY <1>2, <1>3, <1>4, <1>5 DEF GivenBack, back

\* The errors that a refusal files are about people and the form.
LEMMA ErrorsType ==
    ASSUME RefusalOK, PageOK(page)
    PROVE  answer.errors \in SUBSET Errors
<1>1. answer.carried \subseteq PersonID \cup Slot
  BY DEF RefusalOK, Keys, PageOK, Page, Row, Key
<1>2. \A e \in Unreadable(page, answer.carried) :
         /\ e[1] \in PersonID \cup Slot \cup {None}
         /\ e[2] \in {"birth", "death", "anniversary"}
  BY <1>1 DEF Unreadable
<1> QED
  BY <1>2 DEF RefusalOK, FieldErrors, Errors

LEMMA AnswerRefusedStep ==
    ASSUME FormsInv, AnswerRefused
    PROVE  FormsInv'
<1> DEFINE carried == answer.carried
           back == FormViewFromSubmission(page, carried, answer.errors)
<1>1. /\ answer # None /\ answer.kind = "refused"
      /\ answer' = None /\ UNCHANGED <<stored, used>>
  BY DEF AnswerRefused
<1>2. /\ PageOK(page) /\ carried \in SUBSET Keys(page) /\ RefusalOK
      /\ typed = Seen(page)
  BY <1>1 DEF FormsInv, RefusalOK
<1>3. answer.errors \in SUBSET Errors
  BY <1>2, ErrorsType
<1>4. GivenBack(back, page, carried, answer.errors)
  BY <1>2, <1>3, RefusedPageIs
<1>5. CASE stored = None
  <2>1. page' = None /\ typed' = None
    BY <1>1, <1>5 DEF AnswerRefused, Show
  <2> QED
    BY <1>1, <1>5, <2>1 DEF FormsInv
<1>6. CASE stored # None
  <2> DEFINE people == [key \in Keys(back) |->
                          IF key \in carried THEN typed.people[key] ELSE Seen(back).people[key]]
             facts == [typed.facts EXCEPT !.lines = SplitLines(typed.facts.lines)]
  <2>1. page' = back
    BY <1>6 DEF AnswerRefused
  <2>2. typed' = [typed EXCEPT !.people = people, !.facts = facts]
    BY <1>1, <1>6 DEF AnswerRefused
  <2>3. people = Seen(back).people
    <3>1. ASSUME NEW key \in carried
          PROVE  Seen(back).people[key] = typed.people[key]
      <4>1. Seen(back).people[key] = TextsOf(Posted(back, key))
        BY <1>4 DEF GivenBack, Seen, TextsOf
      <4>2. typed.people[key] = TextsOf(Posted(page, key))
        BY <1>2 DEF Seen, TextsOf
      <4> QED
        BY <1>4, <4>1, <4>2 DEF GivenBack
    <3>2. Seen(back).people = [key \in Keys(back) |-> Seen(back).people[key]]
      BY DEF Seen
    <3> QED
      BY <3>1, <3>2
  <2>4. facts = Seen(back).facts
    BY <1>2, <1>4 DEF GivenBack, Seen
  <2>5. Seen(back) = [people |-> Seen(back).people, facts |-> Seen(back).facts]
    BY DEF Seen
  <2>6. typed = [people |-> typed.people, facts |-> typed.facts]
    BY <1>2, SeenIs
  <2> HIDE DEF people, facts, back
  <2>7. typed' = Seen(back)
    BY <2>2, <2>3, <2>4, <2>5, <2>6
  <2>8. back # None
    BY <1>4, FormsAssumption DEF GivenBack, PageOK
  <2> QED
    BY <1>1, <1>4, <2>1, <2>7, <2>8 DEF FormsInv, GivenBack
<1> QED
  BY <1>5, <1>6

\* A change in one group.
LEMMA WithFieldOK ==
    ASSUME FormsInv, stored # None, NEW p \in People(stored), NEW change \in Changes
    PROVE  LET h == WithField(p, change.field, change.value) IN
           HouseOK(h) /\ GroupsOK(h)
<1> DEFINE changed == [stored.person[p] EXCEPT ![change.field] = change.value]
           h == [stored EXCEPT !.person = [stored.person EXCEPT ![p] = changed]]
<1>1. HouseOK(stored) /\ GroupsOK(stored)
  BY DEF FormsInv
<1>2. p \in PersonID /\ stored.person[p] \in Person
  BY <1>1, PersonIs
<1>3. changed \in Person
  <2> DEFINE tried == [Nobody EXCEPT ![change.field] = change.value]
  <2>1. change.field \in Texts /\ tried \in Person
    BY FormsAssumption
  <2>2. tried[change.field] = change.value
    BY <2>1 DEF Nobody, Texts
  <2> HIDE DEF tried
  <2>3. change.field = "given" => change.value \in Name \cup {None}
    BY <2>1, <2>2 DEF Person
  <2>4. change.field = "phone" => change.value \in Phone
    BY <2>1, <2>2 DEF Person
  <2>5. change.field = "email" => change.value \in Email
    BY <2>1, <2>2 DEF Person
  <2>6. change.field \in {"birth", "death"} => change.value \in Date
    BY <2>1, <2>2 DEF Person
  <2>7. change.field = "hidden" => change.value \in SUBSET {"birth", "phone", "email"}
    BY <2>1, <2>2 DEF Person
  <2> QED
    BY <1>2, <2>1, <2>3, <2>4, <2>5, <2>6, <2>7 DEF Person, Texts
<1> HIDE DEF changed
<1>4. None \notin Person
  BY FormsAssumption
<1>5. /\ h \in Stored /\ h.adults = stored.adults /\ h.dependents = stored.dependents
      /\ \A q \in PersonID : h.person[q] # None <=> stored.person[q] # None
  BY <1>1, <1>2, <1>3, <1>4 DEF HouseOK, Stored
<1>6. WithField(p, change.field, change.value) = Normalize(h)
  BY <1>1, <1>2 DEF WithField, changed, HouseOK, Stored
<1> HIDE DEF h
<1>7. HouseOK(h)
  BY <1>1, <1>5 DEF HouseOK, People
<1>8. HouseOK(Normalize(h)) /\ GroupsOK(Normalize(h))
  BY <1>1, <1>5, <1>7, NormalizeOK DEF GroupsOK
<1> QED
  BY <1>6, <1>8

\* Someone added, where there is room.
LEMMA WithOK ==
    ASSUME FormsInv, stored # None, NEW p \in PersonID \ used, NEW person \in Arrivals,
           Cardinality(stored.adults) < MaxAdults
    PROVE  LET h == With(p, person) IN HouseOK(h) /\ GroupsOK(h)
<1> DEFINE h == [stored EXCEPT !.adults = @ \cup {p}, !.person[p] = person]
<1>1. HouseOK(stored) /\ GroupsOK(stored) /\ People(stored) \subseteq used
  BY DEF FormsInv
<1>2. person \in Person /\ None \notin Person
  BY FormsAssumption
<1>3. /\ h \in Stored /\ h.adults = stored.adults \cup {p}
      /\ h.dependents = stored.dependents
      /\ \A q \in PersonID : h.person[q] # None <=> q = p \/ stored.person[q] # None
  BY <1>1, <1>2 DEF HouseOK, Stored
<1>4. With(p, person) = Normalize(h)
  BY DEF With
<1> HIDE DEF h
<1>5. HouseOK(h)
  BY <1>1, <1>3 DEF HouseOK, People
<1>6. GroupsOK(h)
  <2>1. IsFiniteSet(stored.adults) /\ Cardinality(stored.adults) \in Nat
    BY <1>1, FS_CardinalityType DEF GroupsOK
  <2>2. p \notin stored.adults /\ p \notin stored.dependents
    BY <1>1 DEF People
  <2>3. IsFiniteSet(h.adults) /\ Cardinality(h.adults) = Cardinality(stored.adults) + 1
    <3>1. /\ IsFiniteSet(stored.adults \cup {p})
          /\ Cardinality(stored.adults \cup {p}) = Cardinality(stored.adults) + 1
      BY <2>1, <2>2, FS_AddElement
    <3> QED
      BY <1>3, <3>1
  <2>4. h.adults \cap h.dependents = {}
    BY <1>1, <1>3, <2>2 DEF GroupsOK
  <2> QED
    BY <2>1, <2>3, <2>4 DEF GroupsOK, MaxAdults
<1>7. HouseOK(Normalize(h)) /\ GroupsOK(Normalize(h))
  BY <1>5, <1>6, NormalizeOK DEF GroupsOK
<1> QED
  BY <1>4, <1>7

\* Someone removed who is not the last adult.
LEMMA WithoutOK ==
    ASSUME FormsInv, stored # None, NEW p \in People(stored), stored.adults # {p}
    PROVE  LET h == Without(p) IN HouseOK(h) /\ GroupsOK(h)
<1> DEFINE h == [stored EXCEPT !.adults = @ \ {p}, !.dependents = @ \ {p}, !.person[p] = None]
<1>1. HouseOK(stored) /\ GroupsOK(stored)
  BY DEF FormsInv
<1>2. p \in PersonID
  BY <1>1, PersonIs
<1>3. /\ h \in Stored /\ h.adults = stored.adults \ {p}
      /\ h.dependents = stored.dependents \ {p}
      /\ \A q \in PersonID : h.person[q] # None <=> q # p /\ stored.person[q] # None
  BY <1>1, <1>2 DEF HouseOK, Stored
<1>4. Without(p) = Normalize(h)
  BY DEF Without
<1> HIDE DEF h
<1>5. HouseOK(h)
  BY <1>1, <1>3 DEF HouseOK, People
<1>6. GroupsOK(h)
  <2>1. IsFiniteSet(stored.adults) /\ Cardinality(stored.adults) <= MaxAdults
        /\ Cardinality(stored.adults) \in Nat
    BY <1>1, FS_CardinalityType DEF GroupsOK
  <2>2. IsFiniteSet(h.adults) /\ Cardinality(h.adults) <= Cardinality(stored.adults)
        /\ Cardinality(h.adults) \in Nat
    <3>1. h.adults \in SUBSET stored.adults
      BY <1>3
    <3>2. IsFiniteSet(h.adults) /\ Cardinality(h.adults) <= Cardinality(stored.adults)
      BY <2>1, <3>1, FS_Subset
    <3> QED
      BY <3>2, FS_CardinalityType
  <2>3. stored.adults # {}
    BY <1>1, FS_EmptySet DEF GroupsOK
  <2>4. h.adults # {}
    BY <1>3, <2>3
  <2>5. Cardinality(h.adults) # 0
    BY <2>2, <2>4, FS_EmptySet
  <2>6. h.adults \cap h.dependents = {}
    BY <1>1, <1>3 DEF GroupsOK
  <2> QED
    BY <2>1, <2>2, <2>5, <2>6 DEF GroupsOK, MaxAdults
<1>7. HouseOK(Normalize(h)) /\ GroupsOK(Normalize(h))
  BY <1>5, <1>6, NormalizeOK DEF GroupsOK
<1> QED
  BY <1>4, <1>7

\* Another tab's save.
LEMMA ElsewhereStep ==
    ASSUME FormsInv, ChangedElsewhere
    PROVE  FormsInv'
<1>1. stored # None
  BY DEF ChangedElsewhere, Elsewhere
<1>2. ASSUME NEW h, Elsewhere(h), h # None => HouseOK(h) /\ GroupsOK(h)
      PROVE  FormsInv'
  <2>1. /\ stored' = h /\ UNCHANGED <<page, answer, typed>>
        /\ used' = IF h = None THEN used ELSE used \cup People(h)
    BY <1>2 DEF Elsewhere
  <2>2. answer' # None /\ answer'.kind = "refused" => RefusalOK'
    BY <2>1 DEF FormsInv, RefusalOK
  <2>3. typed' = IF page' = None THEN None ELSE Seen(page')
    BY <2>1 DEF FormsInv
  <2> QED
    BY <1>2, <2>1, <2>2, <2>3 DEF FormsInv
<1>3. CASE Elsewhere(None)
  BY <1>2, <1>3
<1>4. ASSUME NEW p \in People(stored), NEW change \in Changes,
             Elsewhere(WithField(p, change.field, change.value))
      PROVE  FormsInv'
  BY <1>1, <1>2, <1>4, WithFieldOK
<1>5. ASSUME NEW p \in PersonID \ used, NEW person \in Arrivals,
             Cardinality(stored.adults) < MaxAdults, Elsewhere(With(p, person))
      PROVE  FormsInv'
  BY <1>1, <1>2, <1>5, WithOK
<1>6. ASSUME NEW p \in People(stored), stored.adults # {p}, Elsewhere(Without(p))
      PROVE  FormsInv'
  BY <1>1, <1>2, <1>6, WithoutOK
<1> QED
  BY <1>3, <1>4, <1>5, <1>6 DEF ChangedElsewhere

LEMMA FormsInvInit == Init => FormsInv
<1> SUFFICES ASSUME Init
             PROVE  FormsInv
  OBVIOUS
<1>1. /\ IsHousehold(stored) /\ page = PageOf(stored) /\ typed = Seen(page)
      /\ answer = None /\ used = People(stored)
  BY FormsAssumption DEF Init
<1>2. HouseOK(stored) /\ GroupsOK(stored) /\ stored # None
  BY <1>1, FormsAssumption DEF IsHousehold, HouseOK, GroupsOK
<1>3. page = FormViewFromHousehold(stored) /\ PageOK(page)
  BY <1>1, <1>2, ViewOK DEF PageOf
<1>4. page # None
  BY <1>3, FormsAssumption DEF PageOK
<1> QED
  BY <1>1, <1>2, <1>3, <1>4 DEF FormsInv

LEMMA FormsInvStep == FormsInv /\ [Next]_vars => FormsInv'
<1> SUFFICES ASSUME FormsInv, [Next]_vars
             PROVE  FormsInv'
  OBVIOUS
<1>1. CASE Open
  <2>1. Show(PageOf(stored)) /\ answer' = None /\ UNCHANGED <<stored, used>>
    BY <1>1 DEF Open
  <2>2. stored # None => HouseOK(stored)
    BY DEF FormsInv
  <2>3. /\ page' # None => PageOK(page')
        /\ typed' = IF page' = None THEN None ELSE Seen(page')
    BY <2>1, <2>2, ShowOK
  <2> QED
    BY <2>1, <2>3 DEF FormsInv
<1>2. ASSUME page # None, NEW row \in page.rows, NEW typing \in Typings,
             Type(row, typing.field, typing.value)
      PROVE  FormsInv'
  BY <1>2, TypeStep
<1>3. ASSUME page # None, NEW fact \in Facts, TypeFact(fact.field, fact.value)
      PROVE  FormsInv'
  BY <1>3, TypeFactStep
<1>4. ASSUME page # None, NEW row \in page.rows, NEW box \in {"remove", "promote"},
             Tick(row, box)
      PROVE  FormsInv'
  BY <1>4, TickStep
<1>5. CASE PostGone \/ PostUnreadable \/ PostUnloadable
  BY <1>5, RefusingStep
<1>6. CASE PostSaved
  BY <1>6, SavingStep
<1>7. CASE AnswerSaved
  BY <1>7, AnswerSavedStep
<1>8. CASE AnswerRefused
  BY <1>8, AnswerRefusedStep
<1>9. CASE ChangedElsewhere
  BY <1>9, ElsewhereStep
<1>10. CASE UNCHANGED vars
  <2>1. UNCHANGED <<stored, page, answer, used, typed>>
    BY <1>10 DEF vars
  <2>2. answer' # None /\ answer'.kind = "refused" => RefusalOK'
    BY <2>1 DEF FormsInv, RefusalOK
  <2>3. typed' = IF page' = None THEN None ELSE Seen(page')
    BY <2>1 DEF FormsInv
  <2> QED
    BY <2>1, <2>2, <2>3 DEF FormsInv
<1> QED
  BY <1>1, <1>2, <1>3, <1>4, <1>5, <1>6, <1>7, <1>8, <1>9, <1>10 DEF Next

LEMMA FormsInvAlways == Spec => []FormsInv
  BY FormsInvInit, FormsInvStep, PTL DEF Spec

\* What counts, and what a request may have decided.
CountsInv ==
    /\ answer = None \/ answer.kind \in {"gone", "saved", "refused"}
    /\ edits \in 0 .. MaxEdits
    /\ used \subseteq PersonID
    /\ saves \in 0 .. MaxSaves

LEMMA CountsInvStep == FormsInv /\ FormsInv' /\ CountsInv /\ [Next]_vars => CountsInv'
<1> SUFFICES ASSUME FormsInv, FormsInv', CountsInv, [Next]_vars
             PROVE  CountsInv'
  OBVIOUS
<1> USE FormsAssumption DEF CountsInv
<1>1. CASE Open \/ AnswerSaved \/ AnswerRefused
  <2>1. UNCHANGED <<edits, used, saves>> /\ (answer' = answer \/ answer' = None)
    BY <1>1 DEF Open, AnswerSaved, AnswerRefused
  <2> QED
    BY <2>1
<1>2. ASSUME Editing
      PROVE  CountsInv'
  <2>1. UNCHANGED <<answer, used, saves>> /\ edits < MaxEdits /\ edits' = edits + 1
    BY <1>2 DEF Editing
  <2>2. edits' \in 0 .. MaxEdits
    BY <2>1
  <2> QED
    BY <2>1, <2>2
<1>3. CASE PostGone \/ PostUnreadable \/ PostUnloadable
  <2>1. UNCHANGED <<edits, used, saves>> /\ answer'.kind \in {"gone", "refused"}
    BY <1>3 DEF PostGone, PostUnreadable, PostUnloadable, Decide, Gone, Refusal
  <2> QED
    BY <2>1
<1>4. CASE PostSaved
  <2>1. PICK minted :
           /\ Posting(stored, page, Carried(page, stored), minted, used)
           /\ used' = used \cup {minted[slot] : slot \in Slot \cap Carried(page, stored)}
           /\ answer' = Saved(Carried(page, stored), minted)
    BY <1>4, SavedIs
  <2>2. {minted[slot] : slot \in Slot \cap Carried(page, stored)} \subseteq PersonID
    BY <2>1, GroupsAfter
  <2>3. edits' = edits /\ saves < MaxSaves /\ saves' = saves + 1 /\ answer'.kind = "saved"
    BY <1>4, <2>1 DEF PostSaved, Decide, Saved
  <2>4. saves' \in 0 .. MaxSaves
    BY <2>3
  <2>5. used' \subseteq PersonID
    BY <2>1, <2>2
  <2> QED
    BY <2>3, <2>4, <2>5
<1>5. ASSUME NEW h, Elsewhere(h)
      PROVE  CountsInv'
  <2>1. /\ UNCHANGED <<answer, edits>> /\ saves < MaxSaves /\ saves' = saves + 1
        /\ stored' = h /\ used' = IF h = None THEN used ELSE used \cup People(h)
    BY <1>5 DEF Elsewhere
  <2>2. h # None => People(h) \subseteq PersonID
    BY <2>1 DEF FormsInv, HouseOK, Stored, People
  <2>3. saves' \in 0 .. MaxSaves /\ used' \subseteq PersonID
    BY <2>1, <2>2
  <2> QED
    BY <2>1, <2>3
<1>6. CASE UNCHANGED vars
  BY <1>6 DEF vars
<1> QED
  BY <1>1, <1>2, <1>3, <1>4, <1>5, <1>6 DEF Next, Type, TypeFact, Tick, ChangedElsewhere

-----------------------------------------------------------------------------
(* The theorems. *)

(***************************************************************************)
(* The types hold: a Household that is saved, here or elsewhere, has one   *)
(* adult or two, nobody in both groups, a Person for each of them, Dates   *)
(* that exist and an Address of lines that are not blank; and the Editor   *)
(* sees every row of the page.                                             *)
(***************************************************************************)
THEOREM TypeCorrect == Spec => []TypeOK
<1>1. Init => CountsInv
  <2> SUFFICES ASSUME Init
               PROVE  CountsInv
    OBVIOUS
  <2>1. used = People(stored) /\ stored \in Stored
    BY FormsAssumption DEF Init, IsHousehold
  <2> QED
    BY <2>1, FormsAssumption DEF Init, CountsInv, Stored, People
<1>2. Spec => []CountsInv
  BY <1>1, CountsInvStep, FormsInvAlways, PTL DEF Spec
<1>3. FormsInv /\ CountsInv => TypeOK
  <2> SUFFICES ASSUME FormsInv, CountsInv
               PROVE  TypeOK
    OBVIOUS
  <2>1. stored # None => IsHousehold(stored)
    BY DEF FormsInv, HouseOK, GroupsOK, IsHousehold
  <2>2. page # None => page \in Page /\ DOMAIN typed.people = Keys(page)
    BY SeenIs DEF FormsInv, PageOK
  <2>3. page = None => typed = None
    BY DEF FormsInv
  <2>4. stored # None => People(stored) \subseteq used
    BY DEF FormsInv
  <2> QED
    BY <2>1, <2>2, <2>3, <2>4 DEF CountsInv, TypeOK
<1> QED
  BY <1>2, <1>3, FormsInvAlways, PTL

(***************************************************************************)
(* A field is posted once: no page, refused or not, has two rows under one *)
(* key.                                                                    *)
(***************************************************************************)
THEOREM NamesAlwaysDistinct == Spec => []NamesDistinct
<1>1. FormsInv => NamesDistinct
  BY DEF FormsInv, PageOK, Page, NamesDistinct
<1> QED
  BY <1>1, FormsInvAlways, PTL

\* A Date certainly before another is before it.
LEMMA CertainlyIsBefore ==
    ASSUME NEW a \in Date, NEW b \in Date, CertainlyBefore(a, b)
    PROVE  Unknown \notin {a, b} /\ Before(a, b)
<1>1. /\ a.year \in Nat /\ a.month \in 0 .. 12 /\ a.day \in 0 .. 31
      /\ b.year \in Nat /\ b.month \in 0 .. 12 /\ b.day \in 0 .. 31
      /\ a.year # 0 /\ b.year # 0
      /\ b.month = 0 => b.day = 0
  BY DEF Date, Exists, CertainlyBefore
<1>2. /\ Latest(a).year = a.year
      /\ Latest(a).month = IF a.month = 0 THEN 12 ELSE a.month
      /\ Latest(a).day = IF a.day = 0 THEN 31 ELSE a.day
  BY DEF Latest, Date
<1>3. /\ Earliest(b).year = b.year
      /\ Earliest(b).month = IF b.month = 0 THEN 1 ELSE b.month
      /\ Earliest(b).day = IF b.day = 0 THEN 1 ELSE b.day
  BY DEF Earliest, Date
<1>4. Before(Latest(a), Earliest(b))
  BY DEF CertainlyBefore
<1>5. Before(a, b)
  <2>1. \/ a.year < b.year
        \/ a.year = b.year /\ Latest(a).month < Earliest(b).month
        \/ a.year = b.year /\ Latest(a).month = Earliest(b).month
           /\ Latest(a).day < Earliest(b).day
    BY <1>2, <1>3, <1>4 DEF Before
  <2>2. Latest(a).month < Earliest(b).month => a.month < b.month
    BY <1>1, <1>2, <1>3
  <2>3. ASSUME Latest(a).month = Earliest(b).month, Latest(a).day < Earliest(b).day
        PROVE  a.month < b.month \/ (a.month = b.month /\ a.day < b.day)
    BY <1>1, <1>2, <1>3, <2>3
  <2> QED
    BY <1>1, <2>1, <2>2, <2>3 DEF Before
<1> QED
  BY <1>1, <1>5 DEF Unknown

(***************************************************************************)
(* What is certainly a mistake, on any day the Dates may be, is remarked   *)
(* on, and so is a number that will be printed as it was typed.            *)
(***************************************************************************)
THEOREM MistakesAlwaysRemarked == Spec => []MistakesRemarked
<1>1. FormsInv => MistakesRemarked
  <2> SUFFICES ASSUME FormsInv, stored # None
               PROVE  MistakesRemarked
    BY DEF MistakesRemarked
  <2>1. HouseOK(stored)
    BY DEF FormsInv
  <2>2. ASSUME NEW p \in People(stored),
               CertainlyBefore(stored.person[p].death, stored.person[p].birth)
        PROVE  <<p, "death">> \in Findings(stored)
    <3>1. stored.person[p].death \in Date /\ stored.person[p].birth \in Date
      BY <2>1, PersonIs DEF Person
    <3>2. /\ Unknown \notin {stored.person[p].birth, stored.person[p].death}
          /\ Before(stored.person[p].death, stored.person[p].birth)
      BY <2>2, <3>1, CertainlyIsBefore
    <3> QED
      BY <3>2 DEF Findings
  <2>3. ASSUME NEW p \in People(stored),
               NormalizePhone(stored.person[p].phone).dress \notin {"empty", "house"}
        PROVE  <<p, "phone">> \in Findings(stored)
    <3>1. ~ IsOneNumber(stored.person[p].phone)
      BY <2>3 DEF NormalizePhone, HouseStyle
    <3>2. stored.person[p].phone # NoPhone
      BY <2>3, <3>1 DEF NormalizePhone, NoPhone
    <3> QED
      BY <3>1, <3>2 DEF Findings, Recognized
  <2>4. ASSUME NEW p \in stored.adults,
               CertainlyBefore(stored.anniversary, stored.person[p].birth)
        PROVE  <<None, "anniversary">> \in Findings(stored)
    <3>1. stored.anniversary \in Date /\ stored.person[p].birth \in Date
      BY <2>1, PersonIs DEF HouseOK, Stored, Person, People
    <3>2. /\ Unknown \notin {stored.anniversary, stored.person[p].birth}
          /\ Before(stored.anniversary, stored.person[p].birth)
      BY <2>4, <3>1, CertainlyIsBefore
    <3> QED
      BY <3>2 DEF Findings
  <2> QED
    BY <2>2, <2>3, <2>4 DEF MistakesRemarked
<1> QED
  BY <1>1, FormsInvAlways, PTL

\* Only PostSaved decides that a form is saved.
LEMMA SavesOnly ==
    ASSUME Next, IsSave
    PROVE  PostSaved
<1>1. answer = None /\ answer' # None /\ answer'.kind = "saved"
  BY DEF IsSave
<1>2. ~ (Open \/ AnswerSaved \/ AnswerRefused)
  BY <1>1 DEF Open, AnswerSaved, AnswerRefused
<1>3. \A row, field, value : ~ Type(row, field, value)
  BY <1>1 DEF Type, Editing
<1>4. \A field, value : ~ TypeFact(field, value)
  BY <1>1 DEF TypeFact, Editing
<1>5. \A row, box : ~ Tick(row, box)
  BY <1>1 DEF Tick, Editing
<1>6. ~ PostGone
  BY <1>1 DEF PostGone, Decide, Gone
<1>7. ~ PostUnreadable
  <2> SUFFICES ASSUME PostUnreadable
               PROVE  FALSE
    OBVIOUS
  <2>1. answer'.kind = "refused"
    BY DEF PostUnreadable, Decide, Refusal
  <2> QED
    BY <1>1, <2>1
<1>8. ~ PostUnloadable
  <2> SUFFICES ASSUME PostUnloadable
               PROVE  FALSE
    OBVIOUS
  <2>1. answer'.kind = "refused"
    BY DEF PostUnloadable, Decide, Refusal
  <2> QED
    BY <1>1, <2>1
<1>9. ~ ChangedElsewhere
  <2>1. \A h : ~ Elsewhere(h)
    BY <1>1 DEF Elsewhere
  <2> QED
    BY <2>1 DEF ChangedElsewhere
<1> QED
  BY <1>2, <1>3, <1>4, <1>5, <1>6, <1>7, <1>8, <1>9 DEF Next

(***************************************************************************)
(* A stale form blanks nobody, moves nobody and brings nobody back: who is *)
(* not on it keeps place and values, and who joins was named in a slot.    *)
(***************************************************************************)
THEOREM OthersAlwaysKept == Spec => OthersKept
<1>1. FormsInv /\ [Next]_vars =>
         [IsSave =>
             /\ \A p \in People(stored) \ Keys(page) :
                   /\ stored'.person[p] = NormalizePerson(stored.person[p])
                   /\ p \in stored'.adults <=> p \in stored.adults
             /\ People(stored') \ People(stored) =
                   {answer'.minted[slot] : slot \in Slot \cap answer'.carried}]_vars
  <2> SUFFICES ASSUME FormsInv, Next, IsSave
               PROVE  /\ \A p \in People(stored) \ Keys(page) :
                            /\ stored'.person[p] = NormalizePerson(stored.person[p])
                            /\ p \in stored'.adults <=> p \in stored.adults
                      /\ People(stored') \ People(stored) =
                            {answer'.minted[slot] : slot \in Slot \cap answer'.carried}
    OBVIOUS
  <2>1. PostSaved
    BY SavesOnly
  <2> DEFINE carried == Carried(page, stored)
  <2>2. PICK minted :
           /\ Posting(stored, page, carried, minted, used)
           /\ stored' = Normalize(Applied(stored, page, carried, minted))
           /\ answer' = Saved(carried, minted)
    BY <2>1, SavedIs
  <2> DEFINE applied == Applied(stored, page, carried, minted)
             sub == SubmissionOf(page, carried, minted)
             new == {minted[slot] : slot \in Slot \cap carried}
  <2>3. /\ HouseOK(applied)
        /\ \A p \in People(applied) \ carried :
              p \in People(stored) => applied.person[p] = stored.person[p]
    BY <2>2, AppliedOK
  <2>4. /\ AdultsAfter(stored, sub) \subseteq (stored.adults \cup new)
        /\ DependentsAfter(stored, sub) \subseteq (stored.dependents \cup new)
        /\ new \subseteq (AdultsAfter(stored, sub) \cup DependentsAfter(stored, sub))
        /\ new \subseteq PersonID \ used
        /\ \A p \in stored.adults \ carried : p \in AdultsAfter(stored, sub)
        /\ \A p \in stored.dependents \ carried : p \in DependentsAfter(stored, sub)
    BY <2>2, GroupsAfter
  <2>5. applied.adults = AdultsAfter(stored, sub)
        /\ applied.dependents = DependentsAfter(stored, sub)
    BY DEF Applied
  <2>6. People(stored) \subseteq used /\ carried \subseteq Keys(page)
    BY <2>2, CarriedIs DEF Posting
  <2>7. answer'.minted = minted /\ answer'.carried = carried
    BY <2>2 DEF Saved
  <2> HIDE DEF applied, sub, carried
  <2>8. /\ stored'.adults = applied.adults /\ stored'.dependents = applied.dependents
        /\ \A p \in People(applied) : stored'.person[p] = NormalizePerson(applied.person[p])
    BY <2>2, <2>3, NormalizeOK DEF applied, carried
  <2>9. \A p \in People(stored) \ Keys(page) :
           /\ stored'.person[p] = NormalizePerson(stored.person[p])
           /\ p \in stored'.adults <=> p \in stored.adults
    <3> TAKE p \in People(stored) \ Keys(page)
    <3>1. p \notin carried /\ p \notin new
      BY <2>4, <2>6
    <3>2. p \in People(applied) /\ (p \in applied.adults <=> p \in stored.adults)
      BY <2>4, <2>5, <3>1 DEF People
    <3> QED
      BY <2>3, <2>8, <3>1, <3>2
  <2>10. People(stored') \ People(stored) = new
    BY <2>4, <2>5, <2>6, <2>8 DEF People
  <2> QED
    BY <2>7, <2>9, <2>10
<1> QED
  BY <1>1, FormsInvAlways, PTL DEF Spec, OthersKept

(***************************************************************************)
(* A refused form comes back with an error shown beside every field that   *)
(* could not be read, of a Person already in the Household or of the       *)
(* Household itself, and with one shown at its top when all could be read. *)
(***************************************************************************)
THEOREM RefusalAlwaysExplained == Spec => RefusalExplained
<1>1. FormsInv /\ [Next]_vars =>
         [IsRefusal =>
             LET unreadable == Unreadable(page, answer.carried) IN
             /\ \A e \in unreadable : e[1] \notin Slot => e \in ErrorsShown(page')
             /\ unreadable = {} => ErrorsShown(page') # {}]_vars
  <2> SUFFICES ASSUME FormsInv, Next, IsRefusal
               PROVE  LET unreadable == Unreadable(page, answer.carried) IN
                      /\ \A e \in unreadable : e[1] \notin Slot => e \in ErrorsShown(page')
                      /\ unreadable = {} => ErrorsShown(page') # {}
    OBVIOUS
  <2>1. AnswerRefused
    BY DEF IsRefusal, Next, Open, Type, TypeFact, Tick, Editing, PostGone, PostUnreadable,
           PostUnloadable, PostSaved, AnswerSaved, ChangedElsewhere, Elsewhere
  <2> DEFINE carried == answer.carried
             unreadable == Unreadable(page, carried)
  <2>2. PageOK(page) /\ RefusalOK /\ carried \in SUBSET Keys(page)
    BY DEF FormsInv, RefusalOK, IsRefusal
  <2>3. page' = FormViewFromSubmission(page, carried, answer.errors)
    BY <2>1 DEF AnswerRefused, IsRefusal, Show
  <2>4. page'.errors = answer.errors /\ Keys(page') = carried \cup Slot
    <3>1. answer.errors \in SUBSET Errors
      BY <2>2, ErrorsType
    <3>2. GivenBack(page', page, carried, answer.errors)
      BY <2>2, <2>3, <3>1, RefusedPageIs
    <3> QED
      BY <3>2 DEF GivenBack
  <2>5. ASSUME unreadable = {}
        PROVE  ErrorsShown(page') # {}
    <3>1. <<None, "form">> \in page'.errors
      BY <2>2, <2>4, <2>5 DEF RefusalOK
    <3> QED
      BY <3>1 DEF ErrorsShown
  <2>6. ASSUME NEW e \in unreadable, e[1] \notin Slot
        PROVE  e \in ErrorsShown(page')
    <3>1. e \in carried \X {"birth", "death"} \/ e = <<None, "anniversary">>
      BY <2>6 DEF Unreadable
    <3>2. e = <<e[1], e[2]>>
      BY <3>1
    <3>3. e \in page'.errors
      BY <2>2, <2>4, <2>6, <3>2 DEF RefusalOK, FieldErrors
    <3>4. CASE e = <<None, "anniversary">>
      BY <3>3, <3>4 DEF ErrorsShown
    <3>5. CASE e \in carried \X {"birth", "death"}
      <4>1. e[1] \in Keys(page') \cap PersonID
        <5>1. e[1] \in Key
          BY <2>2, <3>5 DEF Keys, PageOK, Page, Row
        <5> QED
          BY <2>4, <2>6, <3>5, <5>1 DEF Key
      <4> QED
        BY <3>2, <3>3, <3>5, <4>1 DEF ErrorsShown
    <3> QED
      BY <3>1, <3>4, <3>5
  <2> QED
    BY <2>5, <2>6
<1> QED
  BY <1>1, FormsInvAlways, PTL DEF Spec, RefusalExplained

\* Whom a save gives the values posted under a key: who was in the Household, or
\* who was minted for the slot.
LEMMA AppliedPerson ==
    ASSUME NEW h, NEW pg, NEW carried, NEW minted, NEW inUse,
           Posting(h, pg, carried, minted, inUse),
           NEW key \in carried
    PROVE  LET after == Applied(h, pg, carried, minted)
               p == IF key \in Slot THEN minted[key] ELSE key
           IN  p \in People(after) =>
                  \E old : after.person[p] = ApplyPerson(Posted(pg, key), old)
<1> DEFINE after == Applied(h, pg, carried, minted)
           p == IF key \in Slot THEN minted[key] ELSE key
           named(q) == \E slot \in Slot \cap carried : minted[slot] = q
           keyOf(q) == IF named(q) THEN CHOOSE slot \in Slot \cap carried : minted[slot] = q ELSE q
<1> SUFFICES ASSUME p \in People(after)
             PROVE  \E old : after.person[p] = ApplyPerson(Posted(pg, key), old)
  OBVIOUS
<1>1. /\ minted \in [Slot \cap carried -> PersonID \ inUse]
      /\ \A a, b \in Slot \cap carried : minted[a] = minted[b] => a = b
      /\ People(h) \subseteq inUse /\ carried \subseteq (People(h) \cup Slot)
      /\ People(h) \subseteq PersonID
  <2>1. PageOK(pg) /\ HouseOK(h) /\ carried = Carried(pg, h)
    BY DEF Posting
  <2>2. carried \subseteq (People(h) \cup Slot)
    BY <2>1, CarriedIs
  <2>3. People(h) \subseteq PersonID
    BY <2>1 DEF HouseOK, Stored, People
  <2> QED
    BY <2>2, <2>3 DEF Posting, Injection, IsInjective
<1>2. keyOf(p) = key
  <2>1. CASE key \in Slot
    <3>1. key \in Slot \cap carried /\ minted[key] = p
      BY <2>1
    <3>2. \A slot \in Slot \cap carried : minted[slot] = p => slot = key
      BY <1>1, <3>1
    <3> HIDE DEF p
    <3> QED
      BY <3>1, <3>2
  <2>2. CASE key \notin Slot
    <3>1. p = key /\ key \in inUse
      BY <1>1, <2>2
    <3>2. ~ named(p)
      BY <1>1, <3>1
    <3> HIDE DEF p, named
    <3> QED
      BY <3>1, <3>2
  <2> QED
    BY <2>1, <2>2
<1>3. p \in PersonID
  BY <1>1
<1> DEFINE adults == AdultsAfter(h, SubmissionOf(pg, carried, minted))
           dependents == DependentsAfter(h, SubmissionOf(pg, carried, minted))
<1>4. /\ after.adults = adults /\ after.dependents = dependents
      /\ after.person = [q \in PersonID |-> IF q \in adults \cup dependents
                                            THEN PersonAfter(h, pg, carried, keyOf(q), q) ELSE None]
  BY DEF Applied
<1> HIDE DEF after, p, keyOf, adults, dependents
<1>5. p \in adults \cup dependents
  BY <1>4 DEF People
<1>6. after.person[p] = PersonAfter(h, pg, carried, key, p)
  BY <1>2, <1>3, <1>4, <1>5
<1>7. after.person[p] = ApplyPerson(Posted(pg, key), h.person[p])
  BY <1>6 DEF PersonAfter
<1> QED
  BY <1>7

\* What a form means is what is stored of it.
LEMMA MeantIs ==
    ASSUME NEW row \in Row, NEW old
    PROVE  NormalizePerson(ApplyPerson(row, old)) = Meant(TextsOf(row))
<1> DEFINE texts == TextsOf(row)
           read == [field \in Texts |->
                      IF field \in {"birth", "death"} THEN ParseDate(texts[field])
                      ELSE texts[field]]
           applied == ApplyPerson(row, old)
<1>1. \A field \in Texts : texts[field] = row[field]
  BY DEF TextsOf
<1>2. DOMAIN applied = Texts /\ applied = [field \in DOMAIN applied |-> applied[field]]
  BY DEF ApplyPerson, Texts
<1>3. \A field \in Texts :
         applied[field] = IF field \in {"birth", "death"} THEN ParseDate(row[field]) ELSE row[field]
  BY DEF ApplyPerson, Texts
<1> HIDE DEF texts, applied
<1>4. applied = read
  BY <1>1, <1>2, <1>3
<1> QED
  BY <1>4 DEF Meant, texts, applied

(***************************************************************************)
(* What a save stores, of every Person and of the Household, is what the   *)
(* Editor saw and typed in each field since opening the page: through the  *)
(* refusals in between, whatever was saved elsewhere, and whichever IDs    *)
(* were minted for the people who join.                                    *)
(***************************************************************************)
THEOREM SavesAreAsTyped == Spec => SavedAsTyped
<1>1. FormsInv /\ [Next]_vars =>
         [IsSave =>
             /\ \A key \in answer'.carried :
                   LET p == IF key \in Slot THEN answer'.minted[key] ELSE key IN
                   p \in People(stored') => stored'.person[p] = Meant(typed.people[key])
             /\ stored'.anniversary = ParseDate(typed.facts.anniversary)
             /\ stored'.lines = SplitLines(typed.facts.lines)
             /\ stored'.addressHidden = typed.facts.addressHidden]_vars
  <2> SUFFICES ASSUME FormsInv, Next, IsSave
               PROVE  /\ \A key \in answer'.carried :
                            LET p == IF key \in Slot THEN answer'.minted[key] ELSE key IN
                            p \in People(stored') => stored'.person[p] = Meant(typed.people[key])
                      /\ stored'.anniversary = ParseDate(typed.facts.anniversary)
                      /\ stored'.lines = SplitLines(typed.facts.lines)
                      /\ stored'.addressHidden = typed.facts.addressHidden
    OBVIOUS
  <2>1. PostSaved
    BY SavesOnly
  <2> DEFINE carried == Carried(page, stored)
  <2>2. PICK minted :
           /\ Posting(stored, page, carried, minted, used)
           /\ stored' = Normalize(Applied(stored, page, carried, minted))
           /\ answer' = Saved(carried, minted)
    BY <2>1, SavedIs
  <2> DEFINE applied == Applied(stored, page, carried, minted)
  <2>3. PageOK(page) /\ typed = Seen(page) /\ carried \subseteq Keys(page)
    <3>1. page # None /\ stored # None
      BY <2>1 DEF PostSaved
    <3> QED
      BY <3>1, CarriedIs DEF FormsInv
  <2>4. HouseOK(applied)
    BY <2>2, AppliedOK
  <2>5. /\ applied.anniversary = ParseDate(page.anniversary)
        /\ applied.lines = SplitLines(page.lines)
        /\ applied.addressHidden = page.addressHidden
    BY DEF Applied
  <2>6. answer'.minted = minted /\ answer'.carried = carried
    BY <2>2 DEF Saved
  <2>7. ASSUME NEW key \in carried
        PROVE  LET p == IF key \in Slot THEN minted[key] ELSE key IN
               p \in People(stored') => stored'.person[p] = Meant(typed.people[key])
    <3> DEFINE p == IF key \in Slot THEN minted[key] ELSE key
    <3>1. p \in People(applied) =>
             \E old : applied.person[p] = ApplyPerson(Posted(page, key), old)
      BY <2>2, <2>7, AppliedPerson
    <3>2. Posted(page, key) \in Row
      BY <2>3, <2>7, PostedType
    <3>3. typed.people[key] = TextsOf(Posted(page, key))
      BY <2>3, <2>7 DEF Seen, TextsOf
    <3> HIDE DEF applied, p
    <3>4. /\ People(stored') = People(applied)
          /\ \A q \in People(applied) : stored'.person[q] = NormalizePerson(applied.person[q])
      BY <2>2, <2>4, NormalizeOK DEF applied, People
    <3>5. ASSUME p \in People(stored')
          PROVE  stored'.person[p] = Meant(typed.people[key])
      <4>1. PICK old : applied.person[p] = ApplyPerson(Posted(page, key), old)
        BY <3>1, <3>4, <3>5
      <4>2. stored'.person[p] = NormalizePerson(ApplyPerson(Posted(page, key), old))
        BY <3>4, <3>5, <4>1
      <4> QED
        BY <3>2, <3>3, <4>2, MeantIs
    <3> QED
      BY <3>5 DEF p
  <2>8. /\ stored'.anniversary = ParseDate(typed.facts.anniversary)
        /\ stored'.lines = SplitLines(typed.facts.lines)
        /\ stored'.addressHidden = typed.facts.addressHidden
    <3>1. /\ typed.facts.anniversary = page.anniversary /\ typed.facts.lines = page.lines
          /\ typed.facts.addressHidden = page.addressHidden
      BY <2>3 DEF Seen
    <3> HIDE DEF applied
    <3>2. /\ stored'.anniversary = applied.anniversary /\ stored'.lines = applied.lines
          /\ stored'.addressHidden = applied.addressHidden
      BY <2>2, <2>4, NormalizeOK DEF applied
    <3> QED
      BY <2>5, <3>1, <3>2
  <2> HIDE DEF carried
  <2> QED
    BY <2>6, <2>7, <2>8
<1> QED
  BY <1>1, FormsInvAlways, PTL DEF Spec, SavedAsTyped

\* A form as its page shows it: everyone is carried, as stored, and moved nowhere.
LEMMA UntouchedRows ==
    ASSUME NEW h, HouseOK(h)
    PROVE  LET pg == FormViewFromHousehold(h) IN
           /\ PageOK(pg)
           /\ \A p \in People(h) : /\ p \in Keys(pg)
                                   /\ Posted(pg, p) = RowOf(p, h.person[p], p \in h.adults)
           /\ \A slot \in Slot \cap Keys(pg) : Posted(pg, slot) = BlankSlot(slot)
           /\ Keys(pg) \subseteq (People(h) \cup Slot)
<1> DEFINE pg == FormViewFromHousehold(h)
           slots == {s \in Slot : s = "new1" => Cardinality(h.adults) < MaxAdults}
<1>1. pg.rows = {RowOf(p, h.person[p], p \in h.adults) : p \in People(h)}
                  \cup {BlankSlot(slot) : slot \in slots}
  BY DEF FormViewFromHousehold
<1>2. PageOK(pg)
  BY ViewOK
<1> HIDE DEF pg, slots
<1>3. ASSUME NEW p \in People(h)
      PROVE  /\ p \in Keys(pg)
             /\ Posted(pg, p) = RowOf(p, h.person[p], p \in h.adults)
  <2> DEFINE row == RowOf(p, h.person[p], p \in h.adults)
  <2>1. row \in pg.rows
    BY <1>1
  <2>2. row.key = p
    BY DEF RowOf
  <2> HIDE DEF row
  <2>3. Posted(pg, p) = row
    BY <1>2, <2>1, <2>2, PostedIs
  <2> QED
    BY <2>1, <2>2, <2>3 DEF Keys, row
<1>4. \A row \in pg.rows : \/ \E p \in People(h) : row = RowOf(p, h.person[p], p \in h.adults)
                           \/ \E slot \in slots : row = BlankSlot(slot)
  BY <1>1
<1>5. ASSUME NEW row \in pg.rows
      PROVE  row.key \in People(h) \/ (row.key \in Slot /\ row = BlankSlot(row.key))
  <2>1. CASE \E p \in People(h) : row = RowOf(p, h.person[p], p \in h.adults)
    BY <2>1 DEF RowOf
  <2>2. CASE \E slot \in slots : row = BlankSlot(slot)
    BY <2>2, SlotType DEF slots
  <2> QED
    BY <1>4, <2>1, <2>2
<1>6. PersonID \cap Slot = {} /\ People(h) \subseteq PersonID
  BY FormsAssumption DEF HouseOK, Stored, People
<1>7. ASSUME NEW slot \in Slot \cap Keys(pg)
      PROVE  Posted(pg, slot) = BlankSlot(slot)
  <2>1. PICK row \in pg.rows : row.key = slot
    BY DEF Keys
  <2>2. Posted(pg, slot) = row
    BY <1>2, <2>1, PostedIs
  <2>3. row = BlankSlot(slot)
    BY <1>5, <1>6, <2>1
  <2> QED
    BY <2>2, <2>3
<1>8. Keys(pg) \subseteq (People(h) \cup Slot)
  BY <1>5 DEF Keys
<1> QED
  BY <1>2, <1>3, <1>7, <1>8 DEF pg

LEMMA UntouchedReads ==
    ASSUME NEW h, HouseOK(h)
    PROVE  LET pg == FormViewFromHousehold(h) IN
           Carried(pg, h) = People(h) /\ Unreadable(pg, People(h)) = {}
<1> DEFINE pg == FormViewFromHousehold(h)
<1>1. /\ \A p \in People(h) : /\ p \in Keys(pg)
                              /\ Posted(pg, p) = RowOf(p, h.person[p], p \in h.adults)
      /\ \A slot \in Slot \cap Keys(pg) : Posted(pg, slot) = BlankSlot(slot)
      /\ Keys(pg) \subseteq (People(h) \cup Slot)
  BY UntouchedRows
<1>2. pg.anniversary = String(h.anniversary)
  BY DEF FormViewFromHousehold
<1>3. PersonID \cap Slot = {} /\ People(h) \subseteq PersonID /\ h.anniversary \in Date
  BY FormsAssumption DEF HouseOK, Stored, People
<1> HIDE DEF pg
<1>4. Carried(pg, h) = People(h)
  <2>1. \A slot \in Slot \cap Keys(pg) : Posted(pg, slot).given = None
    BY <1>1 DEF BlankSlot
  <2> QED
    BY <1>1, <1>3, <2>1 DEF Carried
<1>5. ASSUME NEW p \in People(h), NEW field \in {"birth", "death"}
      PROVE  Readable(Posted(pg, p)[field])
  <2>1. h.person[p].birth \in Date /\ h.person[p].death \in Date
    BY PersonIs DEF Person
  <2>2. /\ Posted(pg, p).birth = String(h.person[p].birth)
        /\ Posted(pg, p).death = String(h.person[p].death)
    BY <1>1 DEF RowOf
  <2> QED
    BY <2>1, <2>2, DateSurvives
<1>6. Readable(pg.anniversary)
  BY <1>2, <1>3, DateSurvives
<1>7. Unreadable(pg, People(h)) = {}
  BY <1>5, <1>6 DEF Unreadable
<1> QED
  BY <1>4, <1>7 DEF pg

LEMMA UntouchedGroups ==
    ASSUME NEW h, HouseOK(h), GroupsOK(h), NEW minted
    PROVE  LET sub == SubmissionOf(FormViewFromHousehold(h), People(h), minted) IN
           /\ AdultsAfter(h, sub) = h.adults /\ DependentsAfter(h, sub) = h.dependents
           /\ RoomForNewAdult(h, sub) /\ AdultsAfter(h, sub) # {}
<1> DEFINE pg == FormViewFromHousehold(h)
           sub == SubmissionOf(pg, People(h), minted)
<1>1. \A p \in People(h) : Posted(pg, p) = RowOf(p, h.person[p], p \in h.adults)
  BY UntouchedRows
<1>2. "new1" \notin People(h) /\ "new2" \notin People(h)
  BY FormsAssumption DEF HouseOK, Stored, People, Slot
<1>3. \A p \in People(h) : Posted(pg, p).ticks = {}
  BY <1>1 DEF RowOf
<1> HIDE DEF pg
<1>4. sub.removed = {} /\ sub.promoted = {} /\ sub.newAdult = None /\ sub.newDependent = None
  BY <1>2, <1>3 DEF SubmissionOf
<1> HIDE DEF sub
<1>5. AdultsAfter(h, sub) = h.adults /\ DependentsAfter(h, sub) = h.dependents
  BY <1>4 DEF AdultsAfter, DependentsAfter, ApplyToGroup, Removed, Promoted
<1>6. RoomForNewAdult(h, sub)
  BY <1>4 DEF RoomForNewAdult
<1>7. h.adults # {}
  BY FS_EmptySet DEF GroupsOK
<1> QED
  BY <1>5, <1>6, <1>7 DEF sub, pg

LEMMA UntouchedPerson ==
    ASSUME NEW p, NEW person \in Person, NEW isAdult, NEW old
    PROVE  ApplyPerson(RowOf(p, person, isAdult), old) = person
<1> DEFINE row == RowOf(p, person, isAdult)
<1>1. /\ row.given = person.given /\ row.phone = person.phone /\ row.email = person.email
      /\ row.birth = String(person.birth) /\ row.death = String(person.death)
      /\ row.hidden = person.hidden
  BY DEF RowOf
<1>2. ParseDate(row.birth) = person.birth /\ ParseDate(row.death) = person.death
  BY <1>1, DateSurvives DEF Person
<1> HIDE DEF row
<1>3. ApplyPerson(row, old) = [given |-> person.given, phone |-> person.phone,
                               email |-> person.email, birth |-> person.birth,
                               death |-> person.death, hidden |-> person.hidden]
  BY <1>1, <1>2 DEF ApplyPerson
<1> QED
  BY <1>3 DEF row, Person

LEMMA UntouchedApplied ==
    ASSUME NEW h, HouseOK(h), GroupsOK(h), NEW minted
    PROVE  Applied(h, FormViewFromHousehold(h), People(h), minted) = h
<1> DEFINE pg == FormViewFromHousehold(h)
           after == Applied(h, pg, People(h), minted)
           keyOf(p) == IF \E slot \in Slot \cap People(h) : minted[slot] = p
                       THEN CHOOSE slot \in Slot \cap People(h) : minted[slot] = p ELSE p
           adults == AdultsAfter(h, SubmissionOf(pg, People(h), minted))
           dependents == DependentsAfter(h, SubmissionOf(pg, People(h), minted))
           person == [p \in PersonID |-> IF p \in adults \cup dependents
                                         THEN PersonAfter(h, pg, People(h), keyOf(p), p) ELSE None]
<1>1. adults = h.adults /\ dependents = h.dependents
  BY UntouchedGroups
<1>2. after = [adults |-> adults, dependents |-> dependents, person |-> person,
               anniversary |-> ParseDate(pg.anniversary),
               lines |-> SplitLines(pg.lines), addressHidden |-> pg.addressHidden]
  BY DEF Applied
<1>3. /\ pg.anniversary = String(h.anniversary) /\ pg.lines = h.lines
      /\ pg.addressHidden = h.addressHidden
  BY DEF FormViewFromHousehold
<1>4. ParseDate(pg.anniversary) = h.anniversary /\ SplitLines(pg.lines) = h.lines
  BY <1>3, DateSurvives, SplitKeeps DEF HouseOK, Stored
<1>5. Slot \cap People(h) = {}
  BY FormsAssumption DEF HouseOK, Stored, People
<1>6. \A p : keyOf(p) = p
  BY <1>5
<1>7. \A p \in People(h) : Posted(pg, p) = RowOf(p, h.person[p], p \in h.adults)
  BY UntouchedRows
<1> HIDE DEF adults, dependents, keyOf, pg
<1>8. ASSUME NEW p \in PersonID
      PROVE  person[p] = h.person[p]
  <2>1. CASE p \in People(h)
    <3>1. person[p] = PersonAfter(h, pg, People(h), p, p)
      BY <1>1, <1>6, <2>1 DEF People
    <3>2. PersonAfter(h, pg, People(h), p, p) = ApplyPerson(Posted(pg, p), h.person[p])
      BY <2>1 DEF PersonAfter
    <3>3. h.person[p] \in Person
      BY <2>1, PersonIs
    <3> QED
      BY <1>7, <2>1, <3>1, <3>2, <3>3, UntouchedPerson
  <2>2. CASE p \notin People(h)
    BY <1>1, <2>2 DEF HouseOK, People
  <2> QED
    BY <2>1, <2>2
<1>9. person = h.person
  <2>1. person = [p \in PersonID |-> person[p]] /\ h.person = [p \in PersonID |-> h.person[p]]
    BY DEF HouseOK, Stored
  <2> HIDE DEF person
  <2> QED
    BY <1>8, <2>1
<1> HIDE DEF person, after
<1>10. after = [adults |-> h.adults, dependents |-> h.dependents, person |-> h.person,
                anniversary |-> h.anniversary, lines |-> h.lines,
                addressHidden |-> h.addressHidden]
  BY <1>1, <1>2, <1>3, <1>4, <1>9
<1>11. after = h
  BY <1>10 DEF HouseOK, Stored
<1> QED
  BY <1>11 DEF after, pg

\* House style is stable, of a whole Household.
LEMMA NormalizeStable ==
    ASSUME NEW h, HouseOK(h)
    PROVE  Normalize(Normalize(h)) = Normalize(h)
<1> DEFINE once == Normalize(h)
           twice == Normalize(once)
<1>1. HouseOK(once) /\ HouseOK(twice)
  BY NormalizeOK
<1>2. \A p \in People(h) : once.person[p] = NormalizePerson(h.person[p])
  BY NormalizeOK
<1>3. People(once) = People(h)
  BY NormalizeOK DEF People
<1> HIDE DEF once
<1>4. /\ twice.adults = once.adults /\ twice.dependents = once.dependents
      /\ twice.anniversary = once.anniversary /\ twice.lines = once.lines
      /\ twice.addressHidden = once.addressHidden
      /\ \A p \in People(once) : twice.person[p] = NormalizePerson(once.person[p])
      /\ \A p \in PersonID \ People(once) : twice.person[p] = None
  BY <1>1, NormalizeOK
<1> HIDE DEF twice
<1>5. ASSUME NEW p \in PersonID
      PROVE  twice.person[p] = once.person[p]
  <2>1. CASE p \in People(once)
    <3> DEFINE person == h.person[p]
    <3>1. person \in Person
      BY <1>3, <2>1, PersonIs
    <3>2. twice.person[p] = NormalizePerson(NormalizePerson(person))
      BY <1>2, <1>3, <1>4, <2>1
    <3> HIDE DEF person
    <3>3. NormalizePhone(NormalizePhone(person.phone)) = NormalizePhone(person.phone)
      BY <3>1, HouseStyleStable DEF Person
    <3>4. NormalizeEmail(NormalizeEmail(person.email)) = NormalizeEmail(person.email)
      BY <3>1 DEF Person, Email, NormalizeEmail
    <3>5. /\ NormalizePerson(person) = [person EXCEPT !.phone = NormalizePhone(person.phone),
                                                      !.email = NormalizeEmail(person.email)]
          /\ NormalizePerson(person).phone = NormalizePhone(person.phone)
          /\ NormalizePerson(person).email = NormalizeEmail(person.email)
      BY <3>1 DEF NormalizePerson, Person
    <3> DEFINE new == NormalizePerson(person)
    <3>6. new \in Person
      BY <3>1, NormalizePersonType
    <3>7. NormalizePerson(new) = [new EXCEPT !.phone = NormalizePhone(new.phone),
                                             !.email = NormalizeEmail(new.email)]
      BY DEF NormalizePerson
    <3>8. NormalizePhone(new.phone) = new.phone /\ NormalizeEmail(new.email) = new.email
      BY <3>3, <3>4, <3>5
    <3> HIDE DEF new
    <3>9. NormalizePerson(new) = new
      BY <3>6, <3>7, <3>8 DEF Person
    <3> QED
      BY <1>2, <1>3, <2>1, <3>2, <3>9 DEF new, person
  <2>2. CASE p \notin People(once)
    BY <1>1, <1>4, <2>2 DEF HouseOK
  <2> QED
    BY <2>1, <2>2
<1>6. twice.person = once.person
  BY <1>1, <1>5 DEF HouseOK, Stored
<1>7. twice = once
  BY <1>1, <1>4, <1>6 DEF HouseOK, Stored
<1> QED
  BY <1>7 DEF twice, once

(***************************************************************************)
(* Opening a form and saving it untouched is never refused and changes     *)
(* nothing but into house style, whatever the Household, its Dates, its    *)
(* telephone numbers and its Address; and house style is stable, so that a *)
(* second save changes nothing at all.                                     *)
(***************************************************************************)
THEOREM UntouchedSavesKeep == Spec => UntouchedSaveKeeps
<1>1. FormsInv /\ [Next]_vars =>
         [answer' # answer /\ answer = None /\ page # None /\ page = PageOf(stored) =>
             /\ IsSave
             /\ stored' = Normalize(stored)
             /\ Normalize(stored') = stored']_vars
  <2> SUFFICES ASSUME FormsInv, Next, answer' # answer, answer = None, page # None,
                      page = PageOf(stored)
               PROVE  /\ IsSave
                      /\ stored' = Normalize(stored)
                      /\ Normalize(stored') = stored'
    OBVIOUS
  <2>1. stored # None /\ HouseOK(stored) /\ GroupsOK(stored)
    BY DEF FormsInv, PageOf
  <2>2. page = FormViewFromHousehold(stored)
    BY <2>1 DEF PageOf
  <2>3. Carried(page, stored) = People(stored) /\ Unreadable(page, People(stored)) = {}
    BY <2>1, <2>2, UntouchedReads
  <2>4. \A minted : LET sub == SubmissionOf(page, People(stored), minted) IN
                    RoomForNewAdult(stored, sub) /\ AdultsAfter(stored, sub) # {}
    BY <2>1, <2>2, UntouchedGroups
  <2>5. PostSaved
    <3>1. ~ (Open \/ AnswerSaved \/ AnswerRefused)
      BY DEF Open, AnswerSaved, AnswerRefused
    <3>2. ~ Editing
      BY DEF Editing
    <3>3. ~ ChangedElsewhere
      <4>1. \A h : ~ Elsewhere(h)
        BY DEF Elsewhere
      <4> QED
        BY <4>1 DEF ChangedElsewhere
    <3>4. ~ PostGone /\ ~ PostUnreadable
      BY <2>1, <2>3 DEF PostGone, PostUnreadable
    <3>5. ~ PostUnloadable
      BY <2>3, <2>4 DEF PostUnloadable
    <3> QED
      BY <3>1, <3>2, <3>3, <3>4, <3>5 DEF Next, Type, TypeFact, Tick
  <2>6. PICK minted :
           /\ stored' = Normalize(Applied(stored, page, People(stored), minted))
           /\ answer' = Saved(People(stored), minted)
    BY <2>3, <2>5, SavedIs
  <2>7. Applied(stored, page, People(stored), minted) = stored
    BY <2>1, <2>2, UntouchedApplied
  <2>8. IsSave
    BY <2>6 DEF IsSave, Saved
  <2> QED
    BY <2>1, <2>6, <2>7, <2>8, NormalizeStable
<1> QED
  BY <1>1, FormsInvAlways, PTL DEF Spec, UntouchedSaveKeeps
=============================================================================
