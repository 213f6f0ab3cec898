-------------------------------- MODULE Forms --------------------------------
(***************************************************************************)
(* The detail pane: one Editor's form for one Household, from the page     *)
(* that renders it to the save that stores it, or the refusal that gives   *)
(* it back (internal/web/form.go, submission.go, save.go, the template     *)
(* _detail.html).                                                          *)
(*                                                                         *)
(* A request is two steps, as in the code: the Update that decides, and    *)
(* the answer rendered from a Snapshot taken after it.  Other tabs save in *)
(* between, and while the Editor types.                                    *)
(*                                                                         *)
(* Surname, birth name and nickname travel as the given name does and are  *)
(* left out; so is a promoted Person's new Household, which Editing has.   *)
(* The empty string, in any field, is None.                                *)
(***************************************************************************)
EXTENDS Apply, Dates, Contacts

CONSTANTS
    Name,       \* given names
    Line,       \* lines of an Address
    Households, \* the Household as the Editor first finds it
    Typings,    \* what the Editor may put into a field of a Person
    Facts,      \* what the Editor may put into a field of the Household
    Changes,    \* what another tab may put into a field of a Person
    Arrivals,   \* whom another tab may add, as an adult
    MaxEdits,   \* bound: fields altered and boxes ticked
    MaxSaves    \* bound: saves, the other tabs' included

Slot == {"new1", "new2"}    \* newAdultSlotKey, newDependentSlotKey
Key == PersonID \cup Slot

Texts == {"given", "phone", "email", "birth", "death", "hidden"}

Person ==
    [given : Name \cup {None}, phone : Phone, email : Email, birth : Date, death : Date,
     hidden : SUBSET {"birth", "phone", "email"}]

\* A Person of whom nothing is known.
Nobody ==
    [given |-> None, phone |-> NoPhone, email |-> NoEmail, birth |-> Unknown, death |-> Unknown,
     hidden |-> {}]

Stored ==
    [adults : SUBSET PersonID, dependents : SUBSET PersonID,
     person : [PersonID -> Person \cup {None}],
     anniversary : Date, lines : Seq(Line), addressHidden : BOOLEAN]

\* Persons a Household does not have are None; it has one adult or two.
IsHousehold(h) ==
    /\ h \in Stored
    /\ h.adults \cap h.dependents = {}
    /\ IsFiniteSet(h.adults) /\ Cardinality(h.adults) \in 1 .. MaxAdults
    /\ \A p \in PersonID : h.person[p] # None <=> p \in People(h)

VARIABLES
    stored,     \* the Household in the document, None once it is not there
    page,       \* the Editor's page as it stands; None when it shows no form
    answer,     \* what a request has decided and not yet answered
    typed,      \* what the Editor sees in every field, having typed some of it
    edits,      \* how much of it was typed
    used,       \* Person IDs that have been minted
    saves

vars == <<stored, page, answer, typed, edits, used, saves>>

-----------------------------------------------------------------------------
(* Normalisation. *)

NormalizePerson(p) ==
    [p EXCEPT !.phone = NormalizePhone(@), !.email = NormalizeEmail(@)]

\* The lines that are not blank, in their order.
SplitLines(text) ==
    LET lines[n \in 0 .. Len(text)] ==
            IF n = 0 THEN <<>>
            ELSE IF text[n] = None THEN lines[n - 1]
            ELSE Append(lines[n - 1], text[n])
    IN  lines[Len(text)]

Normalize(h) ==
    [h EXCEPT !.person = [p \in PersonID |-> IF @[p] = None THEN None ELSE NormalizePerson(@[p])],
              !.lines = SplitLines(@)]

-----------------------------------------------------------------------------
(* Validation: it observes, and never refuses. *)

\* A variant that looks at adults only.
FindingsOfAdults(h) == {<<p, "phone">> : p \in {q \in h.adults : ~Recognized(h.person[q].phone)}}

Findings(h) ==
    {<<p, "phone">> : p \in {q \in People(h) : ~Recognized(h.person[q].phone)}}
    \cup {<<p, "email">> : p \in {q \in People(h) : Suspect(h.person[q].email)}}
    \cup {<<p, "death">> : p \in {q \in People(h) :
             /\ Unknown \notin {h.person[q].birth, h.person[q].death}
             /\ Before(h.person[q].death, h.person[q].birth)}}
    \cup {<<None, "anniversary">> : p \in {q \in h.adults :
             /\ Unknown \notin {h.anniversary, h.person[q].birth}
             /\ Before(h.anniversary, h.person[q].birth)}}

-----------------------------------------------------------------------------
(* Rendering. *)

\* The groups in the order the page has them: adults, their slot, Dependents,
\* their slot.
Row ==
    [key : Key, group : 1 .. 4, given : Name \cup {None}, phone : Phone, email : Email,
     birth : DateText, death : DateText, hidden : SUBSET {"birth", "phone", "email"},
     isAdult : BOOLEAN, ticks : SUBSET {"remove", "promote"}]

\* errors: the fields refused, of a Person or, with None, of the whole form.
Page ==
    [rows : SUBSET Row, anniversary : DateText, lines : Seq(Line \cup {None}),
     addressHidden : BOOLEAN, refused : BOOLEAN,
     errors : SUBSET ((PersonID \cup {None}) \X {"birth", "death", "anniversary", "form"}),
     findings : SUBSET ((PersonID \cup {None}) \X {"phone", "email", "death", "anniversary"})]

\* personFormViews.  A row is never rendered with a box of its own ticked.
RowOf(p, person, isAdult) ==
    [key |-> p, group |-> IF isAdult THEN 1 ELSE 3, given |-> person.given,
     phone |-> person.phone, email |-> person.email,
     birth |-> String(person.birth), death |-> String(person.death),
     hidden |-> person.hidden, isAdult |-> isAdult, ticks |-> {}]

BlankSlot(key) ==
    [key |-> key, group |-> IF key = "new1" THEN 2 ELSE 4, given |-> None,
     phone |-> NoPhone, email |-> NoEmail, birth |-> NoText, death |-> NoText,
     hidden |-> {}, isAdult |-> key = "new1", ticks |-> {}]

\* The slot of an adult is there while there is room for one.
FormViewFromHousehold(h) ==
    [rows |-> {RowOf(p, h.person[p], p \in h.adults) : p \in People(h)}
                \cup {BlankSlot(slot) :
                        slot \in {s \in Slot : s = "new1" => Cardinality(h.adults) < MaxAdults}},
     anniversary |-> String(h.anniversary), lines |-> h.lines,
     addressHidden |-> h.addressHidden, refused |-> FALSE, errors |-> {},
     findings |-> Findings(h)]

\* A page of a Snapshot, which may not have the Household by then.
PageOf(h) == IF h = None THEN None ELSE FormViewFromHousehold(h)

-----------------------------------------------------------------------------
(* Parsing what a page posts. *)

Keys(pg) == {row.key : row \in pg.rows}

\* A field of a name that occurs twice is read where it occurs first, a box
\* where it occurs last.
Posted(pg, key) ==
    LET rows == {row \in pg.rows : row.key = key}
        first == CHOOSE row \in rows : \A other \in rows : row.group <= other.group
        last == CHOOSE row \in rows : \A other \in rows : row.group >= other.group
    IN  [first EXCEPT !.hidden = last.hidden, !.ticks = last.ticks]

\* parseSubmission: those who are in the Household, and the slots with a name.
Carried(pg, h) ==
    {key \in Keys(pg) : IF key \in Slot THEN Posted(pg, key).given # None ELSE key \in People(h)}

\* The dates that cannot be read, by the key they were posted under.
Unreadable(pg, carried) ==
    {e \in carried \X {"birth", "death"} : ~Readable(Posted(pg, e[1])[e[2]])}
        \cup (IF Readable(pg.anniversary) THEN {} ELSE {<<None, "anniversary">>})

\* A variant that files every error under the form as a whole.
FieldErrorsOfForm(pg, carried) == {<<None, e[2]>> : e \in Unreadable(pg, carried)}

\* A new person has no ID yet for an error to be filed under.
FieldErrors(pg, carried) ==
    {<<IF e[1] \in Slot THEN None ELSE e[1], e[2]>> : e \in Unreadable(pg, carried)}

\* What the submission means for the groups (Apply), once the IDs are minted.
SubmissionOf(pg, carried, minted) ==
    [named |-> carried \cap PersonID,
     removed |-> {key \in carried : "remove" \in Posted(pg, key).ticks},
     promoted |-> {key \in carried : "promote" \in Posted(pg, key).ticks},
     dead |-> {},
     newAdult |-> IF "new1" \in carried THEN minted["new1"] ELSE None,
     newDependent |-> IF "new2" \in carried THEN minted["new2"] ELSE None]

\* A variant that does not write what is withheld.
ApplyTextsOnly(row, old) ==
    [given |-> row.given, phone |-> row.phone, email |-> row.email,
     birth |-> ParseDate(row.birth), death |-> ParseDate(row.death),
     hidden |-> IF old = None THEN row.hidden ELSE old.hidden]

\* applyPerson: every field the form carries is written.
ApplyPerson(row, old) ==
    [given |-> row.given, phone |-> row.phone, email |-> row.email,
     birth |-> ParseDate(row.birth), death |-> ParseDate(row.death),
     hidden |-> row.hidden]

\* A variant that clears whom the form leaves out.
PersonOfForm(h, pg, carried, key, p) ==
    ApplyPerson(IF key \in carried THEN Posted(pg, key) ELSE BlankSlot("new1"), h.person[p])

\* Whoever the form does not carry keeps what the document holds.
PersonAfter(h, pg, carried, key, p) ==
    IF key \in carried THEN ApplyPerson(Posted(pg, key), h.person[p]) ELSE h.person[p]

\* applySubmission, for the Household itself.
Applied(h, pg, carried, minted) ==
    LET sub == SubmissionOf(pg, carried, minted)
        adults == AdultsAfter(h, sub)
        dependents == DependentsAfter(h, sub)
        keyOf(p) == IF \E slot \in Slot \cap carried : minted[slot] = p
                    THEN CHOOSE slot \in Slot \cap carried : minted[slot] = p ELSE p
    IN  [adults |-> adults, dependents |-> dependents,
         person |-> [p \in PersonID |->
            IF p \in adults \cup dependents THEN PersonAfter(h, pg, carried, keyOf(p), p) ELSE None],
         anniversary |-> ParseDate(pg.anniversary),
         lines |-> SplitLines(pg.lines), addressHidden |-> pg.addressHidden]

-----------------------------------------------------------------------------
(* A refused form given back. *)

\* A variant that always offers both slots.
RefusedRowsAndSlots(pg, carried) ==
    {[Posted(pg, key) EXCEPT !.group = 1, !.ticks = {}] : key \in carried}
        \cup {BlankSlot(slot) : slot \in Slot}

\* Everyone is in the first group; a box that moves someone is not ticked again;
\* a slot that was not carried is offered blank.
RefusedRows(pg, carried) ==
    {[Posted(pg, key) EXCEPT !.group = 1, !.ticks = {}] : key \in carried}
        \cup {BlankSlot(slot) : slot \in Slot \ carried}

FormViewFromSubmission(pg, carried, errors) ==
    [pg EXCEPT !.rows = RefusedRows(pg, carried), !.lines = SplitLines(@),
               !.refused = TRUE, !.errors = errors, !.findings = {}]

\* The template shows an error beside a row of the Household or at its top.
ErrorsShown(pg) ==
    pg.errors \cap ({<<None, "form">>, <<None, "anniversary">>}
                        \cup ((Keys(pg) \cap PersonID) \X {"birth", "death"}))

\* A field holds what it should: put into a form, or into a Person, it fits.
ASSUME FormsAssumption ==
    /\ None \notin Name \cup Line \cup Key \cup Person \cup Stored \cup Page
    /\ PersonID \cap Slot = {}
    /\ \A h \in Households : IsHousehold(h)
    /\ Arrivals \subseteq Person
    /\ \A typing \in Typings :
          /\ typing.field \in Texts
          /\ [BlankSlot("new1") EXCEPT ![typing.field] = typing.value] \in Row
    /\ \A fact \in Facts :
          /\ fact.field \in {"anniversary", "lines", "addressHidden"}
          /\ fact.field = "anniversary" => fact.value \in DateText
          /\ fact.field = "lines" => fact.value \in Seq(Line \cup {None})
          /\ fact.field = "addressHidden" => fact.value \in BOOLEAN
    /\ \A change \in Changes :
          /\ change.field \in Texts
          /\ [Nobody EXCEPT ![change.field] = change.value] \in Person
    /\ MaxEdits \in Nat /\ MaxSaves \in Nat

-----------------------------------------------------------------------------
(* The steps. *)

\* What the Editor reads off a page: every field, but no box that moves someone.
Seen(pg) ==
    [people |-> [key \in Keys(pg) |->
                    [field \in Texts |-> Posted(pg, key)[field]]],
     facts |-> [field \in {"anniversary", "lines", "addressHidden"} |-> pg[field]]]

Show(pg) ==
    /\ page' = pg
    /\ typed' = IF pg = None THEN None ELSE Seen(pg)

Init ==
    /\ stored \in Households
    /\ page = PageOf(stored)
    /\ typed = Seen(page)
    /\ edits = 0
    /\ answer = None
    /\ used = People(stored)
    /\ saves = 0

\* handleDirectory, whatever the page showed before.
Open ==
    /\ answer = None
    /\ Show(PageOf(stored))
    /\ UNCHANGED <<stored, answer, edits, used, saves>>

\* The Editor alters the form while nothing has been posted.
Editing ==
    /\ page # None /\ answer = None
    /\ edits < MaxEdits
    /\ edits' = edits + 1
    /\ UNCHANGED <<stored, answer, used, saves>>

Type(row, field, value) ==
    /\ Editing
    /\ row[field] # value
    /\ page' = [page EXCEPT !.rows = (@ \ {row}) \cup {[row EXCEPT ![field] = value]}]
    /\ typed' = [typed EXCEPT !.people[row.key][field] = value]

TypeFact(field, value) ==
    /\ Editing
    /\ page[field] # value
    /\ page' = [page EXCEPT ![field] = value]
    /\ typed' = [typed EXCEPT !.facts[field] = value]

\* The boxes that move someone: promotion is offered for a Dependent.
Tick(row, box) ==
    /\ Editing
    /\ row.key \notin Slot
    /\ box = "promote" => ~row.isAdult
    /\ box \notin row.ticks
    /\ page' = [page EXCEPT !.rows = (@ \ {row}) \cup {[row EXCEPT !.ticks = @ \cup {box}]}]
    /\ UNCHANGED typed

\* A variant that may give two slots one ID.
MintsApart(carried) == [Slot \cap carried -> PersonID \ used]

\* The IDs minted for the slots that are filled.
Mints(carried) == Injection(Slot \cap carried, PersonID \ used)

Gone == [kind |-> "gone"]
Refusal(carried, errors) == [kind |-> "refused", carried |-> carried, errors |-> errors]
Saved(carried, minted) == [kind |-> "saved", carried |-> carried, minted |-> minted]

Decide(decision) ==
    /\ answer' = decision
    /\ UNCHANGED <<page, typed, edits>>

\* commit: the Update of one POST.
PostGone ==
    /\ page # None /\ answer = None /\ stored = None
    /\ Decide(Gone)
    /\ UNCHANGED <<stored, used, saves>>

PostUnreadable ==
    /\ page # None /\ answer = None /\ stored # None
    /\ LET carried == Carried(page, stored) IN
       /\ Unreadable(page, carried) # {}
       /\ Decide(Refusal(carried, FieldErrors(page, carried)))
    /\ UNCHANGED <<stored, used, saves>>

\* A document the store could not load: two adults at most, and one at least.
PostUnloadable ==
    /\ page # None /\ answer = None /\ stored # None
    /\ LET carried == Carried(page, stored) IN
       /\ Unreadable(page, carried) = {}
       /\ \E minted \in Mints(carried) :
             LET sub == SubmissionOf(page, carried, minted) IN
             ~RoomForNewAdult(stored, sub) \/ AdultsAfter(stored, sub) = {}
       /\ Decide(Refusal(carried, {<<None, "form">>}))
    /\ UNCHANGED <<stored, used, saves>>

PostSaved ==
    /\ page # None /\ answer = None /\ stored # None
    /\ saves < MaxSaves
    /\ LET carried == Carried(page, stored) IN
       /\ Unreadable(page, carried) = {}
       /\ \E minted \in Mints(carried) :
             LET sub == SubmissionOf(page, carried, minted) IN
             /\ RoomForNewAdult(stored, sub) /\ AdultsAfter(stored, sub) # {}
             /\ stored' = Normalize(Applied(stored, page, carried, minted))
             /\ used' = used \cup {minted[slot] : slot \in DOMAIN minted}
             /\ Decide(Saved(carried, minted))
    /\ saves' = saves + 1

\* The redirect after a save, and renderNotFound: what there is by then.
AnswerSaved ==
    /\ answer # None /\ answer.kind \in {"saved", "gone"}
    /\ Show(IF answer.kind = "saved" THEN PageOf(stored) ELSE None)
    /\ answer' = None
    /\ UNCHANGED <<stored, edits, used, saves>>

\* refuse: the submission again, unless the Household is not there by then.  A
\* person who was not carried, and a slot without a name, are not in it.
AnswerRefused ==
    /\ answer # None /\ answer.kind = "refused"
    /\ LET back == FormViewFromSubmission(page, answer.carried, answer.errors) IN
       IF stored = None THEN Show(None)
       ELSE /\ page' = back
            /\ typed' = [typed EXCEPT
                  !.people = [key \in Keys(back) |->
                                 IF key \in answer.carried THEN @[key] ELSE Seen(back).people[key]],
                  !.facts.lines = SplitLines(@)]
    /\ answer' = None
    /\ UNCHANGED <<stored, edits, used, saves>>

\* Another tab saves: a field of a Person, someone added or removed, or the
\* Household deleted.
Elsewhere(h) ==
    /\ stored # None /\ h # stored
    /\ saves < MaxSaves
    /\ stored' = h
    /\ used' = IF h = None THEN used ELSE used \cup People(h)
    /\ saves' = saves + 1
    /\ UNCHANGED <<page, answer, typed, edits>>

WithField(p, field, value) == Normalize([stored EXCEPT !.person[p][field] = value])

With(p, person) == Normalize([stored EXCEPT !.adults = @ \cup {p}, !.person[p] = person])

Without(p) ==
    Normalize([stored EXCEPT !.adults = @ \ {p}, !.dependents = @ \ {p}, !.person[p] = None])

ChangedElsewhere ==
    \/ Elsewhere(None)
    \/ stored # None /\ \E p \in People(stored), change \in Changes :
          Elsewhere(WithField(p, change.field, change.value))
    \/ stored # None /\ \E p \in PersonID \ used, person \in Arrivals :
          Cardinality(stored.adults) < MaxAdults /\ Elsewhere(With(p, person))
    \/ stored # None /\ \E p \in People(stored) :
          stored.adults # {p} /\ Elsewhere(Without(p))

Next ==
    \/ Open
    \/ page # None /\ \E row \in page.rows, typing \in Typings :
          Type(row, typing.field, typing.value)
    \/ page # None /\ \E fact \in Facts : TypeFact(fact.field, fact.value)
    \/ page # None /\ \E row \in page.rows, box \in {"remove", "promote"} : Tick(row, box)
    \/ PostGone
    \/ PostUnreadable
    \/ PostUnloadable
    \/ PostSaved
    \/ AnswerSaved
    \/ AnswerRefused
    \/ ChangedElsewhere

Spec == Init /\ [][Next]_vars

TypeOK ==
    /\ stored = None \/ IsHousehold(stored)
    /\ page = None \/ page \in Page
    /\ IF page = None THEN typed = None ELSE DOMAIN typed.people = Keys(page)
    /\ answer = None \/ answer.kind \in {"gone", "saved", "refused"}
    /\ edits \in 0 .. MaxEdits
    /\ used \subseteq PersonID
    /\ saves \in 0 .. MaxSaves
    /\ stored # None => People(stored) \subseteq used

-----------------------------------------------------------------------------

(***************************************************************************)
(* A field is posted once: no two rows of a page, refused or not, have a   *)
(* key in common, or one would be read and the other silently dropped      *)
(* (formViewFromSubmission: "a second slot with the same field names would *)
(* collide").                                                              *)
(***************************************************************************)
NamesDistinct ==
    page # None => \A row, other \in page.rows : row.key = other.key => row = other

IsSave == answer = None /\ answer' # None /\ answer'.kind = "saved"
IsRefusal == answer # None /\ answer.kind = "refused" /\ answer' = None /\ page' # None

(***************************************************************************)
(* Opening a form and saving it untouched changes nothing but into house   *)
(* style, and a second time nothing at all: every value survives being     *)
(* shown, posted and read again (formViewFromHousehold, parseSubmission,   *)
(* "every field the form model carries must appear as a named input").     *)
(***************************************************************************)
UntouchedSaveKeeps ==
    [][answer' # answer /\ answer = None /\ page # None /\ page = PageOf(stored) =>
          /\ IsSave
          /\ stored' = Normalize(stored)
          /\ Normalize(stored') = stored']_vars

\* What a field of a form is stored as.
Meant(texts) ==
    NormalizePerson([field \in Texts |->
        IF field \in {"birth", "death"} THEN ParseDate(texts[field]) ELSE texts[field]])

(***************************************************************************)
(* What a save stores of a Person, and of the Household, is what the       *)
(* Editor last saw and typed in each field since opening the page, through *)
(* however many refusals, and whatever other tabs saved meanwhile          *)
(* (handleSave; refuse: "give back the submission unchanged").             *)
(***************************************************************************)
SavedAsTyped ==
    [][IsSave =>
          /\ \A key \in answer'.carried :
                LET p == IF key \in Slot THEN answer'.minted[key] ELSE key IN
                p \in People(stored') => stored'.person[p] = Meant(typed.people[key])
          /\ stored'.anniversary = ParseDate(typed.facts.anniversary)
          /\ stored'.lines = SplitLines(typed.facts.lines)
          /\ stored'.addressHidden = typed.facts.addressHidden]_vars

(***************************************************************************)
(* "A stale form cannot silently blank someone", nor bring back someone    *)
(* another tab has removed: a Person the form does not carry keeps place   *)
(* and values, and nobody joins but who a slot named (parseSubmission).    *)
(***************************************************************************)
OthersKept ==
    [][IsSave =>
          /\ \A p \in People(stored) \ Keys(page) :
                /\ stored'.person[p] = NormalizePerson(stored.person[p])
                /\ p \in stored'.adults <=> p \in stored.adults
          /\ People(stored') \ People(stored) =
                {answer'.minted[slot] : slot \in Slot \cap answer'.carried}]_vars

(***************************************************************************)
(* A refused form comes back with "an explanation against each field that  *)
(* could not be read" (refuse), for the people who were in the Household   *)
(* and the Household itself.  It does not for someone being added, who has *)
(* no ID to file it under: then nothing at all may be shown.               *)
(***************************************************************************)
RefusalExplained ==
    [][IsRefusal =>
          LET unreadable == Unreadable(page, answer.carried) IN
          /\ \A e \in unreadable : e[1] \notin Slot => e \in ErrorsShown(page')
          /\ unreadable = {} => ErrorsShown(page') # {}]_vars

\* The first and the last day that a Date may be.
Earliest(d) == [d EXCEPT !.month = IF @ = 0 THEN 1 ELSE @, !.day = IF @ = 0 THEN 1 ELSE @]
Latest(d) == [d EXCEPT !.month = IF @ = 0 THEN 12 ELSE @, !.day = IF @ = 0 THEN 31 ELSE @]

CertainlyBefore(a, b) == a.year # 0 /\ b.year # 0 /\ Before(Latest(a), Earliest(b))

(***************************************************************************)
(* What a page shows is remarked on when it is certainly a mistake, of     *)
(* adults and Dependents alike: dead before born on any day the two Dates  *)
(* may be, married before being born, a number that will print as it was   *)
(* typed (ValidateHouseholds).                                             *)
(***************************************************************************)
MistakesRemarked ==
    stored # None =>
        /\ \A p \in People(stored) :
              LET person == stored.person[p] IN
              /\ CertainlyBefore(person.death, person.birth) => <<p, "death">> \in Findings(stored)
              /\ NormalizePhone(person.phone).dress \notin {"empty", "house"}
                    => <<p, "phone">> \in Findings(stored)
        /\ \A p \in stored.adults :
              CertainlyBefore(stored.anniversary, stored.person[p].birth)
                => <<None, "anniversary">> \in Findings(stored)
=============================================================================
