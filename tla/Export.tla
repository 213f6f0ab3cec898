------------------------------- MODULE Export -------------------------------
(***************************************************************************)
(* What an exported Directory prints for its audience: the tier filter     *)
(* (internal/render/build.go, tier.go, birthdays.go), with the ages it is  *)
(* gated on (pkg/rolo/person.go).                                          *)
(*                                                                         *)
(* What a field prints is the set of facts a reader learns from it, so     *)
(* that "prints no more than" is set inclusion; names print in every tier  *)
(* and are left out, and so are the order and the layout of the page.      *)
(***************************************************************************)
EXTENDS Dates, FiniteSets

CONSTANTS
    HouseholdID,
    PersonID,
    None,           \* no Household
    Directories,    \* the Directories to export
    Days,           \* the dates of the exports
    FullAvailable   \* whether the family passphrase is set up

ASSUME ConstantsAssumption == None \notin HouseholdID /\ FullAvailable \in BOOLEAN

Tier == 1 .. 4
Mail == 1
Call == 2
Digital == 3
Full == 4

Facts == SUBSET ({"year", "month", "day", "phone", "email", "line", "private"}
                 \X (Nat \cup HouseholdID \cup PersonID))
Private == {<<"private", 0>>}

Person ==
    [birth : Date, death : Date, phone : Facts, email : Facts,
     hidden : SUBSET {"birth", "phone", "email"}]

Household ==
    [lines : Facts, sharedWith : HouseholdID \cup {None}, hidden : BOOLEAN, anniversary : Date,
     adults : SUBSET PersonID, dependents : SUBSET PersonID]

\* What the builder accepts of the Households that share an Address.  A fact is
\* told of one Household: that two live in one place is two facts.
IsDirectory(d) ==
    /\ d.people \in [DOMAIN d.people -> Person]
    /\ DOMAIN d.households \subseteq HouseholdID
    /\ IsFiniteSet(DOMAIN d.households)
    /\ d.households \in [DOMAIN d.households -> Household]
    /\ \A id \in DOMAIN d.households :
          /\ d.households[id].lines \subseteq {<<"line", id>>}
          /\ d.households[id].sharedWith \in DOMAIN d.households \cup {None}
          /\ d.households[id].adults # {}
          /\ d.households[id].adults \cup d.households[id].dependents \subseteq DOMAIN d.people

ASSUME InputsAssumption == (\A d \in Directories : IsDirectory(d)) /\ Days \subseteq Date

VARIABLES
    directory,
    page            \* the latest export, None before the first

vars == <<directory, page>>

-----------------------------------------------------------------------------
(* Dates and ages. *)

IsDeceased(p) == p.death # Unknown

IsMemorial(d, id) == \A adult \in d.households[id].adults : IsDeceased(d.people[adult])

\* A variant that reads the year alone.
EighteenthOfYear(birth) == [year |-> birth.year + 18, month |-> 1, day |-> 1]

\* A partial date is read at its earliest.  A 29 February that is not there is
\* the 1 March that follows, which no date falls between.
Eighteenth(birth) ==
    [year |-> birth.year + 18,
     month |-> IF birth.month = 0 THEN 1 ELSE birth.month,
     day |-> IF birth.day = 0 THEN 1 ELSE birth.day]

IsMinor(p, asOf) == p.birth = Unknown \/ Before(asOf, Eighteenth(p.birth))

WholeDate(date) == {<<part, date[part]>> : part \in {x \in DOMAIN date : date[x] # 0}}

\* The day of a month that is unknown is unknown.
TruncatedDate(date) == {fact \in WholeDate(date) : fact[1] # "year"}

PrintedDate(tier, date, concernsOnlyTheDead) ==
    IF concernsOnlyTheDead \/ tier = Full THEN WholeDate(date) ELSE TruncatedDate(date)

-----------------------------------------------------------------------------
(* A Person's row. *)

\* A variant that marks what was never recorded.
WithholdAlways(value, hidden) == IF hidden THEN Private ELSE value

Withhold(value, hidden) == IF hidden /\ value # {} THEN Private ELSE value

\* A variant with the threshold as an equality.
AdmitsPhoneInCall(tier) == tier = Call

AdmitsPhone(tier) == tier >= Call
AdmitsEmail(tier) == tier >= Digital

Row(d, name, memorial, tier, asOf) ==
    LET p == d.people[name]
        reachable == ~memorial /\ ~IsDeceased(p) /\ (tier = Full \/ ~IsMinor(p, asOf))
    IN [birth |-> Withhold(PrintedDate(tier, p.birth, IsDeceased(p)), "birth" \in p.hidden),
        death |-> WholeDate(p.death),
        phone |-> IF reachable /\ AdmitsPhone(tier)
                  THEN Withhold(p.phone, "phone" \in p.hidden) ELSE {},
        email |-> IF reachable /\ AdmitsEmail(tier)
                  THEN Withhold(p.email, "email" \in p.hidden) ELSE {}]

-----------------------------------------------------------------------------
(* A Household's block. *)

SharesAddress(h) == h.sharedWith # None

\* A variant that forgets that a Memorial Household prints no Address.
PrintsLinesOrMemorial(d, id) ==
    LET h == d.households[id] IN ~SharesAddress(h) /\ ~h.hidden /\ h.lines # {}

PrintsOwnLines(d, id) ==
    LET h == d.households[id] IN
    ~IsMemorial(d, id) /\ ~SharesAddress(h) /\ ~h.hidden /\ h.lines # {}

\* A variant that looks at the first Household's mark only.
ResolveMarkedFirst(d, id) ==
    LET lines[seen \in SUBSET DOMAIN d.households] ==
            [hop \in DOMAIN d.households |->
                LET h == d.households[hop] IN
                IF ~SharesAddress(h) THEN h.lines
                ELSE IF hop \in seen THEN {}
                ELSE lines[seen \cup {hop}][h.sharedWith]]
    IN Withhold(lines[{}][id], d.households[id].hidden)

\* resolve: the lines an Address stands for, withheld by any Household on the way
\* to them; nothing when the references go round in a circle.
Resolve(d, id) ==
    LET lines[seen \in SUBSET DOMAIN d.households] ==
            [hop \in DOMAIN d.households |->
                LET h == d.households[hop] IN
                IF SharesAddress(h) /\ hop \in seen THEN {}
                ELSE Withhold(IF SharesAddress(h) THEN lines[seen \cup {hop}][h.sharedWith]
                              ELSE h.lines,
                              h.hidden)]
    IN lines[{}][id]

\* A variant that prints the lines beside the back-reference too.
AddressTwice(d, id) ==
    LET h == d.households[id]
        refers == SharesAddress(h) /\ ~h.hidden /\ PrintsOwnLines(d, h.sharedWith)
    IN [lines |-> IF IsMemorial(d, id) THEN {} ELSE Resolve(d, id),
        reference |-> IF refers /\ ~IsMemorial(d, id) THEN h.sharedWith ELSE None]

Address(d, id) ==
    LET h == d.households[id]
        refers == SharesAddress(h) /\ ~h.hidden /\ PrintsOwnLines(d, h.sharedWith)
    IN [lines |-> IF refers \/ IsMemorial(d, id) THEN {} ELSE Resolve(d, id),
        reference |-> IF refers /\ ~IsMemorial(d, id) THEN h.sharedWith ELSE None]

Block(d, id, tier, asOf) ==
    LET h == d.households[id]
        memorial == IsMemorial(d, id)
    IN [address |-> Address(d, id),
        anniversary |-> PrintedDate(tier, h.anniversary, memorial),
        rows |-> [name \in h.adults \cup h.dependents |-> Row(d, name, memorial, tier, asOf)]]

Listed(d) == UNION {h.adults \cup h.dependents : h \in {d.households[id] : id \in DOMAIN d.households}}

\* A variant that lists a withheld birthday.
BirthdaysOfAll(d) ==
    [name \in {n \in Listed(d) : ~IsDeceased(d.people[n]) /\ d.people[n].birth.month # 0} |->
        TruncatedDate(d.people[name].birth)]

\* The Birthday Calendar, the same in every tier.
Birthdays(d) ==
    [name \in {n \in Listed(d) : /\ ~IsDeceased(d.people[n])
                                 /\ "birth" \notin d.people[n].hidden
                                 /\ d.people[n].birth.month # 0} |->
        TruncatedDate(d.people[name].birth)]

Build(d, tier, asOf) ==
    [tier |-> tier, asOf |-> asOf, birthdays |-> Birthdays(d),
     blocks |-> [id \in DOMAIN d.households |-> Block(d, id, tier, asOf)]]

-----------------------------------------------------------------------------

Init ==
    /\ directory \in Directories
    /\ page = None

\* handleExportPDF: a Directory for one audience, on the day it is asked for.
Export(tier, asOf) ==
    /\ tier = Full => FullAvailable
    /\ page' = Build(directory, tier, asOf)
    /\ UNCHANGED directory

Next == \E tier \in Tier, asOf \in Days : Export(tier, asOf)

Spec == Init /\ [][Next]_vars

-----------------------------------------------------------------------------

RowType == [birth : Facts, death : Facts, phone : Facts, email : Facts]

\* What the builder made is complete: every Household has its block, every Person
\* in it a row, and an Address is printed or referred to, never both.
TypeOK ==
    /\ directory \in Directories
    /\ page # None =>
          /\ page.tier \in Tier /\ page.asOf \in Days
          /\ DOMAIN page.blocks = DOMAIN directory.households
          /\ DOMAIN page.birthdays \subseteq DOMAIN directory.people
          /\ \A id \in DOMAIN page.blocks :
                LET block == page.blocks[id] IN
                /\ block.address.lines \in Facts
                /\ block.address.reference \in DOMAIN directory.households \cup {None}
                /\ block.address.reference # None => block.address.lines = {}
                /\ block.rows \in [DOMAIN block.rows -> RowType]

\* The Households that a Household's Address leads through, itself included.
Hops(d, id) ==
    {hop \in DOMAIN d.households :
        \A hops \in SUBSET DOMAIN d.households :
            /\ id \in hops
            /\ \A h \in hops : d.households[h].sharedWith \in hops \cup {None}
            => hop \in hops}

(***************************************************************************)
(* The reader finds the Address a Household has: its block, or the block   *)
(* its back-reference names, prints the lines at the end of its references *)
(* if nobody on the way withholds them, [private] if somebody does, and    *)
(* nothing if there are none or the references are circular (address,      *)
(* resolve).  In particular no back-reference leads to a block without     *)
(* lines of its own.                                                       *)
(***************************************************************************)
ReaderFindsAddress ==
    page # None =>
        \A id \in DOMAIN page.blocks :
            LET address == page.blocks[id].address
                found == IF address.reference = None THEN address.lines
                         ELSE page.blocks[address.reference].address.lines
                hops == {directory.households[hop] : hop \in Hops(directory, id)}
                lines == UNION {h.lines : h \in {hop \in hops : ~SharesAddress(hop)}}
            IN found = IF IsMemorial(directory, id) \/ lines = {} THEN {}
                       ELSE IF \E h \in hops : h.hidden THEN Private
                       ELSE lines

(***************************************************************************)
(* Nothing the Editor has withheld is printed anywhere, for anybody: not   *)
(* an Address in the block of one who shares it, not a birthday in the     *)
(* Calendar, not a Person's own phone, email or birth date, in any tier.   *)
(***************************************************************************)
NothingWithheldPrinted ==
    page # None =>
        /\ \A id \in DOMAIN page.blocks :
              directory.households[id].hidden =>
                  \A other \in DOMAIN page.blocks :
                      page.blocks[other].address.lines \cap directory.households[id].lines = {}
        /\ \A id \in DOMAIN page.blocks : \A name \in DOMAIN page.blocks[id].rows :
              \A field \in directory.people[name].hidden :
                  page.blocks[id].rows[name][field] \subseteq Private
        /\ \A name \in DOMAIN page.birthdays : "birth" \notin directory.people[name].hidden

Unhidden(d) ==
    [people |-> [name \in DOMAIN d.people |-> [d.people[name] EXCEPT !.hidden = {}]],
     households |-> [id \in DOMAIN d.households |-> [d.households[id] EXCEPT !.hidden = FALSE]]]

(***************************************************************************)
(* [private] stands for something: it is printed only where the same       *)
(* audience would have read a value, had the Editor withheld nothing       *)
(* (person, withhold, resolve).                                            *)
(***************************************************************************)
MarkerStandsForSomething ==
    page # None =>
        LET open == Build(Unhidden(directory), page.tier, page.asOf) IN
        \A id \in DOMAIN page.blocks :
            /\ page.blocks[id].address.lines = Private =>
                  open.blocks[id].address.lines # {} \/ open.blocks[id].address.reference # None
            /\ \A name \in DOMAIN page.blocks[id].rows :
                  \A field \in {"birth", "phone", "email"} :
                      page.blocks[id].rows[name][field] = Private =>
                          open.blocks[id].rows[name][field] # {}

(***************************************************************************)
(* "Tiers are progressive: each admits everything the one before it does"  *)
(* (tier.go): what a lesser tier would have printed, on the same day, this *)
(* one prints too, in every block, and the Calendar is the same.           *)
(***************************************************************************)
EachTierAddsToTheLast ==
    page # None =>
        \A tier \in 1 .. page.tier :
            LET lesser == Build(directory, tier, page.asOf) IN
            /\ lesser.birthdays = page.birthdays
            /\ \A id \in DOMAIN page.blocks :
                  /\ lesser.blocks[id].address = page.blocks[id].address
                  /\ lesser.blocks[id].anniversary \subseteq page.blocks[id].anniversary
                  /\ \A name \in DOMAIN page.blocks[id].rows :
                        \A field \in {"birth", "death", "phone", "email"} :
                            lesser.blocks[id].rows[name][field]
                                \subseteq page.blocks[id].rows[name][field]

(***************************************************************************)
(* The Birthday Calendar tells nothing that the Person's own row does not, *)
(* in the same Directory (birthdays: "a row shows a month and day, which   *)
(* is exactly what a Truncated Date already shows everywhere").            *)
(***************************************************************************)
CalendarTellsNothingNew ==
    page # None =>
        \A name \in DOMAIN page.birthdays :
            \E id \in DOMAIN page.blocks :
                /\ name \in DOMAIN page.blocks[id].rows
                /\ page.birthdays[name] \subseteq page.blocks[id].rows[name].birth

\* The days on which a birth may have been, as far as its date is known.
MayBe(birth) ==
    {day \in [year : {birth.year}, month : 1 .. 12, day : 1 .. 31] :
        Exists(day) /\ birth.month \in {0, day.month} /\ birth.day \in {0, day.day}}

\* Whoever was born on a day has had so many birthdays by another.
HadBirthdays(number, born, asOf) ==
    LET come == born.month * 100 + born.day <= asOf.month * 100 + asOf.day
    IN born.year + number + (IF come THEN 0 ELSE 1) <= asOf.year

(***************************************************************************)
(* Outside Full, whose phone or email a page gives has a birth date, and   *)
(* if its year is known: is eighteen on the date of the page, when it is   *)
(* known to the day; may be eighteen and is seventeen on whichever day it  *)
(* was, when only the year or the month is known (build.go; IsMinor, "the  *)
(* generous reading").  So the latter may be a minor for some months yet,  *)
(* where section 5.2 of the design says "18+ only".                        *)
(***************************************************************************)
ContactsByAge ==
    page # None /\ page.tier # Full =>
        \A id \in DOMAIN page.blocks : \A name \in DOMAIN page.blocks[id].rows :
            LET birth == directory.people[name].birth IN
            page.blocks[id].rows[name].phone \cup page.blocks[id].rows[name].email # {} =>
                /\ birth # Unknown
                /\ birth.year # 0 =>
                      /\ \E born \in MayBe(birth) : HadBirthdays(18, born, page.asOf)
                      /\ \A born \in MayBe(birth) : HadBirthdays(17, born, page.asOf)

(***************************************************************************)
(* Ages "only apply where a year is known" (IsMinor): outside Full, a page *)
(* gives the phone or the email of nobody whose year of birth is unknown.  *)
(* Does not hold: a birth of 0000-03-12 is not the unknown date.           *)
(***************************************************************************)
UnknownYearFailsClosed ==
    page # None /\ page.tier # Full =>
        \A id \in DOMAIN page.blocks : \A name \in DOMAIN page.blocks[id].rows :
            directory.people[name].birth.year = 0 =>
                page.blocks[id].rows[name].phone \cup page.blocks[id].rows[name].email = {}
=============================================================================
