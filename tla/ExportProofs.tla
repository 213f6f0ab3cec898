---------------------------- MODULE ExportProofs ----------------------------
(***************************************************************************)
(* What Export promises of its pages, for every document, whatever the     *)
(* number of its Households and people, and on every day:                  *)
(*                                                                         *)
(*   TypeCorrect                []TypeOK                                   *)
(*   ReaderAlwaysFindsAddress   []ReaderFindsAddress                       *)
(*   NothingWithheldIsPrinted   []NothingWithheldPrinted                   *)
(*   MarkersStandForSomething   []MarkerStandsForSomething                 *)
(*   TiersAreProgressive        []EachTierAddsToTheLast                    *)
(*   ContactsGoByAge            []ContactsByAge                            *)
(*   CalendarIsOnTheRows        []CalendarTellsNothingNew                  *)
(*                                                                         *)
(* Those about Addresses rest on ResolveIs, which says what the recursion  *)
(* of resolve computes: the lines at the end of the way that the shared    *)
(* Addresses make.  The recursion has a solution, for that is one; and no  *)
(* other, for a least number of Households not yet seen at which two would *)
(* differ leads to a smaller one.                                          *)
(***************************************************************************)
EXTENDS Export, FiniteSetTheorems, WellFoundedInduction, TLAPS

Fields == {"birth", "death", "phone", "email"}

-----------------------------------------------------------------------------
(* What the helpers of the filter print. *)

\* A Truncated Date tells no more than the Whole one, so a higher tier prints
\* at least as much of any date.
LEMMA DatesGrow ==
    ASSUME NEW lo \in Tier, NEW hi \in Tier, lo <= hi, NEW date, NEW dead
    PROVE  PrintedDate(lo, date, dead) \subseteq PrintedDate(hi, date, dead)
<1>1. TruncatedDate(date) \subseteq WholeDate(date)
  BY DEF TruncatedDate
<1>2. lo = Full => hi = Full
  BY DEF Tier, Full
<1>. QED  BY <1>1, <1>2 DEF PrintedDate

\* Withholding keeps the order of what is withheld.
LEMMA WithholdGrows ==
    ASSUME NEW less, NEW more, less \subseteq more, NEW hidden
    PROVE  Withhold(less, hidden) \subseteq Withhold(more, hidden)
BY DEF Withhold

\* A row of a higher tier prints at least as much in every field.
LEMMA RowsGrow ==
    ASSUME NEW lo \in Tier, NEW hi \in Tier, lo <= hi,
           NEW d, NEW name, NEW memorial, NEW asOf, NEW field \in Fields
    PROVE  Row(d, name, memorial, lo, asOf)[field] \subseteq Row(d, name, memorial, hi, asOf)[field]
<1>. DEFINE p == d.people[name]
            reachable(tier) == /\ ~memorial
                               /\ ~IsDeceased(p)
                               /\ (tier = Full \/ ~IsMinor(p, asOf))
<1>1. reachable(lo) => reachable(hi)
  BY DEF Tier, Full
<1>2. AdmitsPhone(lo) => AdmitsPhone(hi)
  BY DEF Tier, AdmitsPhone, Call
<1>3. AdmitsEmail(lo) => AdmitsEmail(hi)
  BY DEF Tier, AdmitsEmail, Digital
<1>4. CASE field = "birth"
  <2>1. PrintedDate(lo, p.birth, IsDeceased(p)) \subseteq PrintedDate(hi, p.birth, IsDeceased(p))
    BY DatesGrow
  <2>2. Withhold(PrintedDate(lo, p.birth, IsDeceased(p)), "birth" \in p.hidden)
          \subseteq Withhold(PrintedDate(hi, p.birth, IsDeceased(p)), "birth" \in p.hidden)
    BY <2>1, WithholdGrows
  <2>. QED  BY <1>4, <2>2 DEF Row
<1>5. CASE field = "death"
  BY <1>5 DEF Row
<1>6. CASE field = "phone"
  BY <1>6, <1>1, <1>2 DEF Row
<1>7. CASE field = "email"
  BY <1>7, <1>1, <1>3 DEF Row
<1>. QED  BY <1>4, <1>5, <1>6, <1>7 DEF Fields

-----------------------------------------------------------------------------
(* What resolve finds. *)

\* A set of natural numbers that is not empty has a least one.
LEMMA LeastNumber ==
    ASSUME NEW ns \in SUBSET Nat, ns # {}
    PROVE  \E least \in ns : \A n \in ns : least <= n
<1>. DEFINE R == {pair \in Nat \X Nat : pair[1] < pair[2]}
<1>1. IsWellFoundedOn(R, Nat)
  BY NatLessThanWellFounded DEF OpToRel
<1>2. \A x, y \in Nat : x < y => <<x, y>> \in R
  OBVIOUS
<1>. HIDE DEF R
<1>3. PICK least \in ns : \A n \in ns : ~ (<<n, least>> \in R)
  BY <1>1, WFMin
<1>4. \A n \in ns : ~ (n < least)
  BY <1>2, <1>3
<1>. QED  BY <1>4

\* The Households on the way of an Address, when it goes no further than one that
\* was seen before.
GoesOn(d, seen, hop) == SharesAddress(d.households[hop]) /\ hop \notin seen

IsWayOf(d, seen, hop, hops) ==
    /\ hop \in hops
    /\ \A h \in hops : GoesOn(d, seen, h) => d.households[h].sharedWith \in hops

Way(d, seen, hop) ==
    {h \in DOMAIN d.households :
        \A hops \in SUBSET DOMAIN d.households : IsWayOf(d, seen, hop, hops) => h \in hops}

LinesOn(d, hops) ==
    UNION {h.lines : h \in {hop \in {d.households[id] : id \in hops} : ~SharesAddress(hop)}}

FoundOn(d, hops) ==
    IF LinesOn(d, hops) = {} THEN {}
    ELSE IF \E id \in hops : d.households[id].hidden THEN Private
    ELSE LinesOn(d, hops)

\* One call of resolve, which calls lines further on.
Resolving(d, lines) ==
    [seen \in SUBSET DOMAIN d.households |->
        [hop \in DOMAIN d.households |->
            LET h == d.households[hop] IN
            IF SharesAddress(h) /\ hop \in seen THEN {}
            ELSE Withhold(IF SharesAddress(h) THEN lines[seen \cup {hop}][h.sharedWith]
                          ELSE h.lines,
                          h.hidden)]]

\* Who shares an Address shares that of a Household that is there.
LEMMA GoesOnThere ==
    ASSUME NEW d, IsDirectory(d), NEW hop \in DOMAIN d.households,
           SharesAddress(d.households[hop])
    PROVE  d.households[hop].sharedWith \in DOMAIN d.households
  BY DEF IsDirectory, SharesAddress

LEMMA WayIsWay ==
    ASSUME NEW d, IsDirectory(d), NEW seen, NEW hop \in DOMAIN d.households
    PROVE  /\ Way(d, seen, hop) \subseteq DOMAIN d.households
           /\ IsWayOf(d, seen, hop, Way(d, seen, hop))
           /\ \A hops \in SUBSET DOMAIN d.households :
                 IsWayOf(d, seen, hop, hops) => Way(d, seen, hop) \subseteq hops
<1>1. ASSUME NEW h \in Way(d, seen, hop), GoesOn(d, seen, h)
      PROVE  d.households[h].sharedWith \in Way(d, seen, hop)
  <2>1. d.households[h].sharedWith \in DOMAIN d.households
    BY <1>1, GoesOnThere DEF Way, GoesOn
  <2>. QED  BY <1>1, <2>1 DEF Way, IsWayOf
<1>. QED  BY <1>1 DEF Way, IsWayOf

\* The way of an Address that goes no further.
LEMMA WayEnds ==
    ASSUME NEW d, IsDirectory(d), NEW seen, NEW hop \in DOMAIN d.households,
           ~GoesOn(d, seen, hop)
    PROVE  Way(d, seen, hop) = {hop}
<1>1. IsWayOf(d, seen, hop, {hop})
  BY DEF IsWayOf
<1>2. Way(d, seen, hop) \subseteq {hop}
  BY <1>1, WayIsWay
<1>3. hop \in Way(d, seen, hop)
  BY WayIsWay DEF IsWayOf
<1>. QED  BY <1>2, <1>3

\* The way of one that does: what it has seen is not on the rest of the way, unless
\* it goes round in a circle.
LEMMA WayGoesOn ==
    ASSUME NEW d, IsDirectory(d), NEW seen \in SUBSET DOMAIN d.households,
           NEW hop \in DOMAIN d.households, GoesOn(d, seen, hop)
    PROVE  Way(d, seen, hop)
             = {hop} \cup Way(d, seen \cup {hop}, d.households[hop].sharedWith)
<1>. DEFINE next == d.households[hop].sharedWith
            more == seen \cup {hop}
            all == Way(d, seen, hop)
            rest == Way(d, more, next)
<1>1. next \in DOMAIN d.households
  BY GoesOnThere DEF GoesOn
<1>2. /\ all \in SUBSET DOMAIN d.households /\ IsWayOf(d, seen, hop, all)
      /\ \A hops \in SUBSET DOMAIN d.households : IsWayOf(d, seen, hop, hops) => all \subseteq hops
  BY WayIsWay
<1>3. /\ rest \in SUBSET DOMAIN d.households /\ IsWayOf(d, more, next, rest)
      /\ \A hops \in SUBSET DOMAIN d.households : IsWayOf(d, more, next, hops) => rest \subseteq hops
  BY <1>1, WayIsWay
<1>4. \A h : GoesOn(d, seen, h) <=> GoesOn(d, more, h) \/ h = hop
  BY DEF GoesOn
<1>. HIDE DEF more, all, rest
<1>5. IsWayOf(d, seen, hop, {hop} \cup rest)
  BY <1>3, <1>4 DEF IsWayOf
<1>6. IsWayOf(d, more, next, all)
  BY <1>2, <1>4 DEF IsWayOf
<1>7. all = {hop} \cup rest
  <2>1. {hop} \cup rest \in SUBSET DOMAIN d.households
    BY <1>3
  <2>2. all \subseteq {hop} \cup rest
    BY <2>1, <1>2, <1>5
  <2>3. hop \in all /\ rest \subseteq all
    BY <1>2, <1>3, <1>6 DEF IsWayOf
  <2>. QED  BY <2>2, <2>3
<1>. QED  BY <1>7 DEF more, all, rest

\* What is found on the way of an Address is what resolve computes a hop at a time.
LEMMA FoundByHops ==
    ASSUME NEW d, IsDirectory(d), NEW seen \in SUBSET DOMAIN d.households,
           NEW hop \in DOMAIN d.households
    PROVE  LET h == d.households[hop] IN
           FoundOn(d, Way(d, seen, hop)) =
               IF SharesAddress(h) /\ hop \in seen THEN {}
               ELSE Withhold(IF SharesAddress(h)
                             THEN FoundOn(d, Way(d, seen \cup {hop}, h.sharedWith))
                             ELSE h.lines, h.hidden)
<1>. DEFINE h == d.households[hop]
            found == FoundOn(d, Way(d, seen, hop))
            further == FoundOn(d, Way(d, seen \cup {hop}, h.sharedWith))
<1>1. CASE ~GoesOn(d, seen, hop)
  <2>1. Way(d, seen, hop) = {hop}
    BY <1>1, WayEnds
  <2>2. LinesOn(d, {hop}) = IF SharesAddress(h) THEN {} ELSE h.lines
    BY DEF LinesOn
  <2>3. (\E id \in {hop} : d.households[id].hidden) <=> h.hidden
    OBVIOUS
  <2>4. found = IF LinesOn(d, {hop}) = {} THEN {}
                ELSE IF h.hidden THEN Private ELSE LinesOn(d, {hop})
    BY <2>1, <2>3 DEF FoundOn
  <2>. QED  BY <1>1, <2>2, <2>4 DEF Withhold, GoesOn
<1>2. CASE GoesOn(d, seen, hop)
  <2>. DEFINE rest == Way(d, seen \cup {hop}, h.sharedWith)
  <2>1. Way(d, seen, hop) = {hop} \cup rest
    BY <1>2, WayGoesOn
  <2>2. SharesAddress(h) /\ hop \notin seen
    BY <1>2 DEF GoesOn
  <2>. HIDE DEF rest
  <2>3. LinesOn(d, {hop} \cup rest) = LinesOn(d, rest)
    BY <2>2 DEF LinesOn
  <2>4. (\E id \in {hop} \cup rest : d.households[id].hidden)
          <=> h.hidden \/ \E id \in rest : d.households[id].hidden
    OBVIOUS
  <2>5. further = IF LinesOn(d, rest) = {} THEN {}
                  ELSE IF \E id \in rest : d.households[id].hidden THEN Private
                  ELSE LinesOn(d, rest)
    BY DEF FoundOn, rest
  <2>6. found = IF LinesOn(d, rest) = {} THEN {}
                ELSE IF h.hidden \/ \E id \in rest : d.households[id].hidden THEN Private
                ELSE LinesOn(d, rest)
    BY <2>1, <2>3, <2>4 DEF FoundOn
  <2>7. Private # {}
    BY DEF Private
  <2>8. found = Withhold(further, h.hidden)
    BY <2>5, <2>6, <2>7 DEF Withhold
  <2>. QED  BY <2>2, <2>8
<1>. QED  BY <1>1, <1>2

\* What one call returns.
LEMMA OneCall ==
    ASSUME NEW d, NEW lines, NEW seen \in SUBSET DOMAIN d.households,
           NEW hop \in DOMAIN d.households
    PROVE  LET h == d.households[hop] IN
           Resolving(d, lines)[seen][hop] =
               IF SharesAddress(h) /\ hop \in seen THEN {}
               ELSE Withhold(IF SharesAddress(h) THEN lines[seen \cup {hop}][h.sharedWith]
                             ELSE h.lines, h.hidden)
  BY DEF Resolving

\* So there is a function that calls itself the way resolve does,
FoundFrom(d) ==
    [seen \in SUBSET DOMAIN d.households |->
        [hop \in DOMAIN d.households |-> FoundOn(d, Way(d, seen, hop))]]

LEMMA FoundIsResolving ==
    ASSUME NEW d, IsDirectory(d)
    PROVE  FoundFrom(d) = Resolving(d, FoundFrom(d))
<1>. DEFINE D == DOMAIN d.households
            found == FoundFrom(d)
<1>1. ASSUME NEW seen \in SUBSET D, NEW hop \in D
      PROVE  found[seen][hop] = Resolving(d, found)[seen][hop]
  <2>. DEFINE h == d.households[hop]
              further == FoundOn(d, Way(d, seen \cup {hop}, h.sharedWith))
  <2>1. found[seen][hop] = FoundOn(d, Way(d, seen, hop))
    BY DEF FoundFrom
  <2>2. SharesAddress(h) => found[seen \cup {hop}][h.sharedWith] = further
    BY GoesOnThere DEF FoundFrom
  <2>3. FoundOn(d, Way(d, seen, hop)) =
           IF SharesAddress(h) /\ hop \in seen THEN {}
           ELSE Withhold(IF SharesAddress(h) THEN further ELSE h.lines, h.hidden)
    BY FoundByHops
  <2>. HIDE DEF found, further
  <2>4. Resolving(d, found)[seen][hop] =
           IF SharesAddress(h) /\ hop \in seen THEN {}
           ELSE Withhold(IF SharesAddress(h) THEN found[seen \cup {hop}][h.sharedWith]
                         ELSE h.lines, h.hidden)
    BY OneCall
  <2>. QED  BY <2>1, <2>2, <2>3, <2>4
<1>. DEFINE again == Resolving(d, found)
<1>2. /\ found = [seen \in SUBSET D |-> found[seen]]
      /\ \A seen \in SUBSET D : found[seen] = [hop \in D |-> found[seen][hop]]
  BY DEF FoundFrom
<1>3. /\ again = [seen \in SUBSET D |-> again[seen]]
      /\ \A seen \in SUBSET D : again[seen] = [hop \in D |-> again[seen][hop]]
  BY DEF Resolving
<1>. HIDE DEF found, again
<1>4. ASSUME NEW seen \in SUBSET D
      PROVE  found[seen] = again[seen]
  <2>1. \A hop \in D : found[seen][hop] = again[seen][hop]
    BY <1>1 DEF again
  <2>. QED  BY <2>1, <1>2, <1>3
<1>5. found = again
  BY <1>2, <1>3, <1>4
<1>. QED  BY <1>5 DEF found, again

\* and no other, for it has seen one Household more with every call.
LEMMA ResolvingUnique ==
    ASSUME NEW d, IsDirectory(d), NEW f, f = Resolving(d, f), NEW g, g = Resolving(d, g),
           NEW id \in DOMAIN d.households
    PROVE  f[{}][id] = g[{}][id]
<1>. DEFINE D == DOMAIN d.households
            Differs(n) == \E seen \in SUBSET D, hop \in D :
                             Cardinality(D \ seen) = n /\ f[seen][hop] # g[seen][hop]
            ns == {n \in Nat : Differs(n)}
<1>1. IsFiniteSet(D)
  BY DEF IsDirectory
<1>2. \A seen \in SUBSET D : IsFiniteSet(D \ seen) /\ Cardinality(D \ seen) \in Nat
  <2>. TAKE seen \in SUBSET D
  <2>1. IsFiniteSet(D \ seen)
    BY <1>1, FS_Subset
  <2>. QED  BY <2>1, FS_CardinalityType
<1>3. ASSUME NEW n \in Nat, Differs(n)
      PROVE  \E m \in Nat : m < n /\ Differs(m)
  <2>1. PICK seen \in SUBSET D, hop \in D :
           Cardinality(D \ seen) = n /\ f[seen][hop] # g[seen][hop]
    BY <1>3
  <2>. DEFINE h == d.households[hop]
              more == seen \cup {hop}
  <2>2. /\ f[seen][hop] = IF SharesAddress(h) /\ hop \in seen THEN {}
                          ELSE Withhold(IF SharesAddress(h) THEN f[more][h.sharedWith]
                                        ELSE h.lines, h.hidden)
        /\ g[seen][hop] = IF SharesAddress(h) /\ hop \in seen THEN {}
                          ELSE Withhold(IF SharesAddress(h) THEN g[more][h.sharedWith]
                                        ELSE h.lines, h.hidden)
    BY OneCall
  <2>3. SharesAddress(h) /\ hop \notin seen /\ f[more][h.sharedWith] # g[more][h.sharedWith]
    BY <2>1, <2>2
  <2>4. h.sharedWith \in D
    BY <2>3, GoesOnThere
  <2>5. Cardinality(D \ more) = n - 1 /\ n # 0
    <3>1. D \ more = (D \ seen) \ {hop} /\ hop \in D \ seen
      BY <2>3
    <3>2. Cardinality((D \ seen) \ {hop}) = Cardinality(D \ seen) - 1
      BY <1>2, <3>1, FS_RemoveElement
    <3>3. Cardinality(D \ seen) # 0
      BY <1>2, <3>1, FS_EmptySet
    <3>. QED  BY <2>1, <3>1, <3>2, <3>3
  <2>6. more \in SUBSET D /\ n - 1 \in Nat /\ n - 1 < n
    BY <2>5
  <2>. QED  BY <2>3, <2>4, <2>5, <2>6
<1>4. ns = {}
  <2>. SUFFICES ASSUME ns # {}
                PROVE  FALSE
    OBVIOUS
  <2>1. ns \in SUBSET Nat
    OBVIOUS
  <2>2. PICK least \in ns : \A n \in ns : least <= n
    BY <2>1, LeastNumber
  <2>. HIDE DEF Differs
  <2>3. PICK m \in Nat : m < least /\ Differs(m)
    BY <2>2, <1>3
  <2>4. m \in ns /\ least \in Nat
    BY <2>3
  <2>. QED  BY <2>2, <2>3, <2>4
<1>5. Cardinality(D \ {}) \in Nat
  BY <1>2
<1>. QED  BY <1>4, <1>5

(***************************************************************************)
(* resolve finds what is at the end of an Address's way, withheld if       *)
(* anybody on it withholds it, and stops where the way is a circle.        *)
(***************************************************************************)
LEMMA ResolveIs ==
    ASSUME NEW d, IsDirectory(d), NEW id \in DOMAIN d.households
    PROVE  Resolve(d, id) = FoundOn(d, Way(d, {}, id))
<1>. DEFINE chosen == CHOOSE lines : lines = Resolving(d, lines)
<1>1. chosen = Resolving(d, chosen)
  BY FoundIsResolving
<1>2. Resolve(d, id) = chosen[{}][id]
  BY DEF Resolve, Resolving
<1>. HIDE DEF chosen
<1>3. chosen[{}][id] = FoundFrom(d)[{}][id]
  BY <1>1, FoundIsResolving, ResolvingUnique
<1>4. FoundFrom(d)[{}][id] = FoundOn(d, Way(d, {}, id))
  BY DEF FoundFrom
<1>. QED  BY <1>2, <1>3, <1>4

-----------------------------------------------------------------------------
(* A page is what Build made of the document: the document does not change. *)

PageIsBuilt ==
    /\ directory \in Directories
    /\ page # None =>
          /\ page.tier \in Tier /\ page.asOf \in Days
          /\ page = Build(directory, page.tier, page.asOf)

LEMMA PageBuilt == Spec => []PageIsBuilt
<1>1. Init => PageIsBuilt
  BY DEF Init, PageIsBuilt
<1>2. PageIsBuilt /\ [Next]_vars => PageIsBuilt'
  <2>. SUFFICES ASSUME PageIsBuilt, [Next]_vars
                PROVE  PageIsBuilt'
    OBVIOUS
  <2>1. ASSUME NEW tier \in Tier, NEW asOf \in Days, Export(tier, asOf)
        PROVE  PageIsBuilt'
    <3>1. page' = Build(directory, tier, asOf) /\ directory' = directory
      BY <2>1 DEF Export
    <3>2. page'.tier = tier /\ page'.asOf = asOf
      BY <3>1 DEF Build
    <3>. QED  BY <3>1, <3>2 DEF PageIsBuilt
  <2>2. CASE UNCHANGED vars
    BY <2>2 DEF vars, PageIsBuilt
  <2>. QED  BY <2>1, <2>2 DEF Next
<1>. QED  BY <1>1, <1>2, PTL DEF Spec

(***************************************************************************)
(* Tiers are progressive (tier.go), for every document and day.            *)
(***************************************************************************)
THEOREM TiersAreProgressive == Spec => []EachTierAddsToTheLast
<1>1. PageIsBuilt => EachTierAddsToTheLast
  <2>. SUFFICES ASSUME PageIsBuilt, page # None, NEW tier \in 1 .. page.tier
                PROVE  LET lesser == Build(directory, tier, page.asOf) IN
                       /\ lesser.birthdays = page.birthdays
                       /\ \A id \in DOMAIN page.blocks :
                             /\ lesser.blocks[id].address = page.blocks[id].address
                             /\ lesser.blocks[id].anniversary \subseteq page.blocks[id].anniversary
                             /\ \A name \in DOMAIN page.blocks[id].rows :
                                   \A field \in Fields :
                                       lesser.blocks[id].rows[name][field]
                                           \subseteq page.blocks[id].rows[name][field]
    BY DEF EachTierAddsToTheLast, Fields
  <2>. DEFINE d == directory
              hi == page.tier
              asOf == page.asOf
              lesser == Build(d, tier, asOf)
  <2>1. hi \in Tier /\ tier \in Tier /\ tier <= hi /\ page = Build(d, hi, asOf)
    BY DEF PageIsBuilt, Tier
  <2>2. lesser.birthdays = page.birthdays
    BY <2>1 DEF Build
  <2>3. ASSUME NEW id \in DOMAIN page.blocks
        PROVE  /\ lesser.blocks[id].address = page.blocks[id].address
               /\ lesser.blocks[id].anniversary \subseteq page.blocks[id].anniversary
               /\ \A name \in DOMAIN page.blocks[id].rows :
                     \A field \in Fields :
                         lesser.blocks[id].rows[name][field]
                             \subseteq page.blocks[id].rows[name][field]
    <3>1. /\ id \in DOMAIN d.households
          /\ page.blocks[id] = Block(d, id, hi, asOf)
          /\ lesser.blocks[id] = Block(d, id, tier, asOf)
      BY <2>1 DEF Build
    <3>2. Block(d, id, tier, asOf).address = Block(d, id, hi, asOf).address
      BY DEF Block
    <3>3. Block(d, id, tier, asOf).anniversary \subseteq Block(d, id, hi, asOf).anniversary
      BY <2>1, DatesGrow DEF Block
    <3>4. ASSUME NEW name \in DOMAIN Block(d, id, hi, asOf).rows, NEW field \in Fields
          PROVE  Block(d, id, tier, asOf).rows[name][field]
                     \subseteq Block(d, id, hi, asOf).rows[name][field]
      <4>1. /\ Block(d, id, hi, asOf).rows[name] = Row(d, name, IsMemorial(d, id), hi, asOf)
            /\ Block(d, id, tier, asOf).rows[name] = Row(d, name, IsMemorial(d, id), tier, asOf)
        BY <3>4 DEF Block
      <4>2. Row(d, name, IsMemorial(d, id), tier, asOf)[field]
              \subseteq Row(d, name, IsMemorial(d, id), hi, asOf)[field]
        BY <2>1, RowsGrow
      <4>. QED  BY <4>1, <4>2
    <3>. QED  BY <3>1, <3>2, <3>3, <3>4
  <2>. QED  BY <2>2, <2>3
<1>. QED  BY <1>1, PageBuilt, PTL

\* The row that a page has for a Person.
LEMMA RowOnPage ==
    ASSUME PageIsBuilt, page # None,
           NEW id \in DOMAIN page.blocks, NEW name \in DOMAIN page.blocks[id].rows
    PROVE  /\ directory.people[name] \in Person
           /\ page.blocks[id].rows[name]
                = Row(directory, name, IsMemorial(directory, id), page.tier, page.asOf)
<1>. DEFINE h == directory.households[id]
<1>1. page = Build(directory, page.tier, page.asOf)
  BY DEF PageIsBuilt
<1>2. /\ id \in DOMAIN directory.households
      /\ page.blocks[id] = Block(directory, id, page.tier, page.asOf)
  BY <1>1 DEF Build
<1>3. /\ name \in h.adults \cup h.dependents
      /\ page.blocks[id].rows[name]
           = Row(directory, name, IsMemorial(directory, id), page.tier, page.asOf)
  BY <1>2 DEF Block
<1>4. IsDirectory(directory)
  BY InputsAssumption DEF PageIsBuilt
<1>5. h.adults \cup h.dependents \subseteq DOMAIN directory.people
  BY <1>2, <1>4 DEF IsDirectory
<1>6. directory.people[name] \in Person
  BY <1>3, <1>4, <1>5 DEF IsDirectory
<1>. QED  BY <1>3, <1>6

\* Days of one year in the order of their months and days.
LEMMA DaysInOrder ==
    ASSUME NEW m \in 0 .. 12, NEW d \in 0 .. 31, NEW m2 \in 0 .. 12, NEW d2 \in 0 .. 31,
           ~(m2 < m), m2 = m => ~(d2 < d)
    PROVE  m * 100 + d <= m2 * 100 + d2
<1>1. CASE m2 = m
  BY <1>1
<1>2. CASE m + 1 <= m2
  <2>1. (m + 1) * 100 <= m2 * 100
    BY <1>2
  <2>. QED  BY <2>1
<1>. QED  BY <1>1, <1>2

\* The earliest day of a birth is one of the days it may be.
LEMMA EarliestMayBe ==
    ASSUME NEW birth \in Date
    PROVE  [Eighteenth(birth) EXCEPT !.year = birth.year] \in MayBe(birth)
<1>. DEFINE month == IF birth.month = 0 THEN 1 ELSE birth.month
            day == IF birth.day = 0 THEN 1 ELSE birth.day
            first == [year |-> birth.year, month |-> month, day |-> day]
<1>1. /\ birth.year \in Nat /\ birth.month \in 0 .. 12 /\ birth.day \in 0 .. 31
      /\ Exists(birth)
  BY DEF Date
<1>2. [Eighteenth(birth) EXCEPT !.year = birth.year] = first
  BY DEF Eighteenth
<1>3. month \in 1 .. 12 /\ day \in 1 .. 31
  BY <1>1
<1>4. Exists(first)
  BY <1>1 DEF Exists, DaysIn
<1>5. birth.month \in {0, month} /\ birth.day \in {0, day}
  OBVIOUS
<1>. HIDE DEF month, day
<1>. QED  BY <1>2, <1>3, <1>4, <1>5 DEF MayBe

\* Whoever is not a minor on a day has had eighteen birthdays by then, if born on
\* the earliest day the birth may be.
LEMMA EighteenBirthdays ==
    ASSUME NEW birth \in Date, NEW asOf \in Date, ~Before(asOf, Eighteenth(birth)),
           NEW first, first = [Eighteenth(birth) EXCEPT !.year = birth.year]
    PROVE  HadBirthdays(18, first, asOf)
<1>1. /\ birth.year \in Nat /\ birth.month \in 0 .. 12 /\ birth.day \in 0 .. 31
      /\ asOf.year \in Nat /\ asOf.month \in 0 .. 12 /\ asOf.day \in 0 .. 31
  BY DEF Date
<1>2. /\ first.year = birth.year /\ first.month \in 0 .. 12 /\ first.day \in 0 .. 31
      /\ ~(asOf.year < first.year + 18)
      /\ ~(asOf.year = first.year + 18 /\ asOf.month < first.month)
      /\ ~(asOf.year = first.year + 18 /\ asOf.month = first.month /\ asOf.day < first.day)
  BY <1>1 DEF Before, Eighteenth
<1>3. CASE asOf.year = first.year + 18
  <2>1. first.month * 100 + first.day <= asOf.month * 100 + asOf.day
    BY <1>1, <1>2, <1>3, DaysInOrder
  <2>. QED  BY <2>1, <1>1, <1>2, <1>3 DEF HadBirthdays
<1>4. CASE asOf.year # first.year + 18
  <2>1. first.year + 18 + 1 <= asOf.year
    BY <1>1, <1>2, <1>4
  <2>. QED  BY <2>1, <1>1, <1>2 DEF HadBirthdays
<1>. QED  BY <1>3, <1>4

\* ... and seventeen whichever day of the year or the month it was.
LEMMA SeventeenBirthdays ==
    ASSUME NEW birth \in Date, NEW asOf \in Date, ~Before(asOf, Eighteenth(birth)),
           NEW born \in MayBe(birth)
    PROVE  HadBirthdays(17, born, asOf)
<1>1. born.year = birth.year /\ birth.year \in Nat /\ asOf.year \in Nat
  BY DEF MayBe, Date
<1>2. birth.year + 18 <= asOf.year
  BY <1>1 DEF Before, Eighteenth
<1>. QED  BY <1>1, <1>2 DEF HadBirthdays

(***************************************************************************)
(* Outside Full no page gives the contacts of one whose birth date, known  *)
(* to the day, is not eighteen years ago, nor of one whose birth, known in *)
(* part, cannot be, or may be less than seventeen (build.go, person.go),   *)
(* for every document and day.                                             *)
(***************************************************************************)
THEOREM ContactsGoByAge == Spec => []ContactsByAge
<1>1. PageIsBuilt => ContactsByAge
  <2>. SUFFICES ASSUME PageIsBuilt, page # None, page.tier # Full,
                       NEW id \in DOMAIN page.blocks, NEW name \in DOMAIN page.blocks[id].rows,
                       page.blocks[id].rows[name].phone \cup page.blocks[id].rows[name].email # {}
                PROVE  LET birth == directory.people[name].birth IN
                       /\ birth # Unknown
                       /\ \E born \in MayBe(birth) : HadBirthdays(18, born, page.asOf)
                       /\ \A born \in MayBe(birth) : HadBirthdays(17, born, page.asOf)
    BY DEF ContactsByAge
  <2>. DEFINE p == directory.people[name]
              first == [Eighteenth(p.birth) EXCEPT !.year = p.birth.year]
  <2>1. p \in Person /\ page.blocks[id].rows[name]
          = Row(directory, name, IsMemorial(directory, id), page.tier, page.asOf)
    BY RowOnPage
  <2>2. ~IsMinor(p, page.asOf)
    BY <2>1 DEF Row
  <2>3. p.birth # Unknown /\ ~Before(page.asOf, Eighteenth(p.birth))
    BY <2>2 DEF IsMinor
  <2>4. p.birth \in Date /\ page.asOf \in Date
    BY <2>1, InputsAssumption DEF Person, PageIsBuilt
  <2>5. first \in MayBe(p.birth)
    BY <2>4, EarliestMayBe
  <2>6. HadBirthdays(18, first, page.asOf)
    BY <2>3, <2>4, EighteenBirthdays
  <2>7. \A born \in MayBe(p.birth) : HadBirthdays(17, born, page.asOf)
    BY <2>3, <2>4, SeventeenBirthdays
  <2>. HIDE DEF first
  <2>. QED  BY <2>3, <2>5, <2>6, <2>7
<1>. QED  BY <1>1, PageBuilt, PTL

(***************************************************************************)
(* The Birthday Calendar tells nothing that the Person's own row does not  *)
(* (birthdays.go), for every document, tier and day.                       *)
(***************************************************************************)
THEOREM CalendarIsOnTheRows == Spec => []CalendarTellsNothingNew
<1>1. PageIsBuilt => CalendarTellsNothingNew
  <2>. SUFFICES ASSUME PageIsBuilt, page # None, NEW name \in DOMAIN page.birthdays
                PROVE  \E id \in DOMAIN page.blocks :
                           /\ name \in DOMAIN page.blocks[id].rows
                           /\ page.birthdays[name] \subseteq page.blocks[id].rows[name].birth
    BY DEF CalendarTellsNothingNew
  <2>. DEFINE p == directory.people[name]
  <2>1. page = Build(directory, page.tier, page.asOf)
    BY DEF PageIsBuilt
  <2>2. name \in DOMAIN Birthdays(directory) /\ page.birthdays = Birthdays(directory)
    BY <2>1 DEF Build
  <2>3. /\ name \in Listed(directory) /\ ~IsDeceased(p) /\ "birth" \notin p.hidden
        /\ page.birthdays[name] = TruncatedDate(p.birth)
    BY <2>2 DEF Birthdays
  <2>4. PICK id \in DOMAIN directory.households :
           name \in directory.households[id].adults \cup directory.households[id].dependents
    BY <2>3 DEF Listed
  <2>5. id \in DOMAIN page.blocks /\ page.blocks[id] = Block(directory, id, page.tier, page.asOf)
    BY <2>1 DEF Build
  <2>6. name \in DOMAIN page.blocks[id].rows
    BY <2>4, <2>5 DEF Block
  <2>7. page.blocks[id].rows[name].birth = PrintedDate(page.tier, p.birth, FALSE)
    <3>1. page.blocks[id].rows[name]
            = Row(directory, name, IsMemorial(directory, id), page.tier, page.asOf)
      BY <2>5, <2>6, RowOnPage
    <3>2. page.blocks[id].rows[name].birth
            = Withhold(PrintedDate(page.tier, p.birth, IsDeceased(p)), "birth" \in p.hidden)
      BY <3>1 DEF Row
    <3>3. Withhold(PrintedDate(page.tier, p.birth, IsDeceased(p)), "birth" \in p.hidden)
            = PrintedDate(page.tier, p.birth, IsDeceased(p))
      BY <2>3 DEF Withhold
    <3>4. PrintedDate(page.tier, p.birth, IsDeceased(p)) = PrintedDate(page.tier, p.birth, FALSE)
      BY <2>3 DEF PrintedDate
    <3>. QED  BY <3>2, <3>3, <3>4
  <2>8. TruncatedDate(p.birth) \subseteq PrintedDate(page.tier, p.birth, FALSE)
    BY DEF PrintedDate, TruncatedDate
  <2>. QED  BY <2>3, <2>5, <2>6, <2>7, <2>8
<1>. QED  BY <1>1, PageBuilt, PTL

-----------------------------------------------------------------------------
(* Where a reader finds an Address. *)

LEMMA WayIsHops ==
    ASSUME NEW d, IsDirectory(d), NEW id \in DOMAIN d.households
    PROVE  Way(d, {}, id) = Hops(d, id)
<1>1. ASSUME NEW hops \in SUBSET DOMAIN d.households, NEW h \in hops
      PROVE  (GoesOn(d, {}, h) => d.households[h].sharedWith \in hops)
                <=> d.households[h].sharedWith \in hops \cup {None}
  <2>1. None \notin hops
    BY ConstantsAssumption DEF IsDirectory
  <2>. QED  BY <2>1 DEF GoesOn, SharesAddress
<1>2. \A hops \in SUBSET DOMAIN d.households :
         IsWayOf(d, {}, id, hops) <=> /\ id \in hops
                                      /\ \A h \in hops : d.households[h].sharedWith \in hops \cup {None}
  BY <1>1 DEF IsWayOf
<1>. QED  BY <1>2 DEF Way, Hops

(***************************************************************************)
(* A block prints the lines its Household's Address leads to, or names a   *)
(* block that does.                                                        *)
(***************************************************************************)
LEMMA AddressIs ==
    ASSUME NEW d, IsDirectory(d), NEW id \in DOMAIN d.households
    PROVE  LET address == Address(d, id)
               found == IF IsMemorial(d, id) THEN {} ELSE FoundOn(d, Hops(d, id))
           IN /\ address.reference = None => address.lines = found
              /\ address.reference # None =>
                    /\ address.reference \in DOMAIN d.households
                    /\ address.lines = {}
                    /\ Address(d, address.reference).lines = found
<1>. DEFINE h == d.households[id]
            target == h.sharedWith
            refers == SharesAddress(h) /\ ~h.hidden /\ PrintsOwnLines(d, target)
            address == Address(d, id)
            found == FoundOn(d, Hops(d, id))
<1>1. /\ address.lines = IF refers \/ IsMemorial(d, id) THEN {} ELSE Resolve(d, id)
      /\ address.reference = IF refers /\ ~IsMemorial(d, id) THEN target ELSE None
  BY DEF Address
<1>2. Resolve(d, id) = found
  BY ResolveIs, WayIsHops
<1>3. CASE refers
  <2>1. target \in DOMAIN d.households /\ target # None
    BY <1>3, GoesOnThere DEF SharesAddress
  <2>. DEFINE there == d.households[target]
  <2>2. ~IsMemorial(d, target) /\ ~SharesAddress(there) /\ ~there.hidden /\ there.lines # {}
    BY <1>3 DEF PrintsOwnLines
  <2>3. Address(d, target).lines = Resolve(d, target)
    BY <2>2 DEF Address
  <2>4. Resolve(d, target) = FoundOn(d, {target})
    <3>1. ~GoesOn(d, {}, target)
      BY <2>2 DEF GoesOn
    <3>2. Way(d, {}, target) = {target}
      BY <2>1, <3>1, WayEnds
    <3>. QED  BY <2>1, <3>2, ResolveIs
  <2>5. Hops(d, id) = {id, target}
    <3>1. GoesOn(d, {}, id)
      BY <1>3 DEF GoesOn
    <3>2. Way(d, {}, id) = {id} \cup Way(d, {} \cup {id}, target)
      BY <3>1, WayGoesOn
    <3>3. ~GoesOn(d, {} \cup {id}, target)
      BY <2>2 DEF GoesOn
    <3>4. Way(d, {} \cup {id}, target) = {target}
      BY <2>1, <3>3, WayEnds
    <3>. QED  BY <3>2, <3>4, WayIsHops
  <2>6. LinesOn(d, {target}) = there.lines /\ LinesOn(d, {id, target}) = there.lines
    BY <1>3, <2>2 DEF LinesOn
  <2>7. FoundOn(d, {target}) = there.lines /\ FoundOn(d, {id, target}) = there.lines
    BY <1>3, <2>2, <2>6 DEF FoundOn
  <2>8. Address(d, target).lines = found
    BY <2>3, <2>4, <2>5, <2>7
  <2>. QED  BY <1>1, <1>3, <2>1, <2>8
<1>4. CASE ~refers
  BY <1>1, <1>2, <1>4
<1>. QED  BY <1>3, <1>4

\* What is on a page, a Household at a time.
LEMMA BlockOnPage ==
    ASSUME PageIsBuilt, page # None
    PROVE  /\ IsDirectory(directory)
           /\ DOMAIN page.blocks = DOMAIN directory.households
           /\ \A id \in DOMAIN page.blocks :
                 /\ page.blocks[id] = Block(directory, id, page.tier, page.asOf)
                 /\ page.blocks[id].address = Address(directory, id)
<1>1. page = Build(directory, page.tier, page.asOf) /\ directory \in Directories
  BY DEF PageIsBuilt
<1>2. \A id \in DOMAIN directory.households :
         page.blocks[id] = Block(directory, id, page.tier, page.asOf)
  BY <1>1 DEF Build
<1>3. \A id : Block(directory, id, page.tier, page.asOf).address = Address(directory, id)
  BY DEF Block
<1>4. DOMAIN page.blocks = DOMAIN directory.households
  BY <1>1 DEF Build
<1>. QED  BY <1>1, <1>2, <1>3, <1>4, InputsAssumption

(***************************************************************************)
(* The reader finds the Address of every Household, in its own block or in *)
(* the one its back-reference names (build.go, address, resolve), for      *)
(* every way Households can share Addresses, circles included.             *)
(***************************************************************************)
THEOREM ReaderAlwaysFindsAddress == Spec => []ReaderFindsAddress
<1>1. PageIsBuilt => ReaderFindsAddress
  <2>. SUFFICES ASSUME PageIsBuilt, page # None, NEW id \in DOMAIN page.blocks
                PROVE  LET address == page.blocks[id].address
                           found == IF address.reference = None THEN address.lines
                                    ELSE page.blocks[address.reference].address.lines
                           hops == {directory.households[hop] : hop \in Hops(directory, id)}
                           lines == UNION {h.lines : h \in {hop \in hops : ~SharesAddress(hop)}}
                       IN found = IF IsMemorial(directory, id) \/ lines = {} THEN {}
                                  ELSE IF \E h \in hops : h.hidden THEN Private
                                  ELSE lines
    BY DEF ReaderFindsAddress
  <2>. DEFINE d == directory
              address == page.blocks[id].address
              found == IF address.reference = None THEN address.lines
                       ELSE page.blocks[address.reference].address.lines
              hops == {d.households[hop] : hop \in Hops(d, id)}
              lines == UNION {h.lines : h \in {hop \in hops : ~SharesAddress(hop)}}
              end == IF IsMemorial(d, id) THEN {} ELSE FoundOn(d, Hops(d, id))
  <2>1. /\ IsDirectory(d) /\ id \in DOMAIN d.households
        /\ address = Address(d, id)
        /\ \A other \in DOMAIN d.households : page.blocks[other].address = Address(d, other)
    BY BlockOnPage
  <2>2. /\ address.reference = None => address.lines = end
        /\ address.reference # None =>
              /\ address.reference \in DOMAIN d.households
              /\ Address(d, address.reference).lines = end
    BY <2>1, AddressIs
  <2>3. found = end
    <3>. HIDE DEF end, address
    <3>. QED  BY <2>1, <2>2
  <2>4. LinesOn(d, Hops(d, id)) = lines
    BY DEF LinesOn
  <2>5. (\E h \in hops : h.hidden) <=> \E hop \in Hops(d, id) : d.households[hop].hidden
    OBVIOUS
  <2>6. FoundOn(d, Hops(d, id)) = IF lines = {} THEN {}
                                  ELSE IF \E h \in hops : h.hidden THEN Private
                                  ELSE lines
    <3>. HIDE DEF lines, hops
    <3>. QED  BY <2>4, <2>5 DEF FoundOn, hops
  <2>7. found = IF IsMemorial(d, id) \/ lines = {} THEN {}
                ELSE IF \E h \in hops : h.hidden THEN Private
                ELSE lines
    <3>. HIDE DEF found, lines, hops
    <3>. QED  BY <2>3, <2>6
  <2>. QED  BY <2>7
<1>. QED  BY <1>1, PageBuilt, PTL

(***************************************************************************)
(* Nothing the Editor has withheld is printed, in any tier, for every      *)
(* document (build.go, withhold, resolve; birthdays.go).                   *)
(***************************************************************************)
THEOREM NothingWithheldIsPrinted == Spec => []NothingWithheldPrinted
<1>1. PageIsBuilt => NothingWithheldPrinted
  <2>. SUFFICES ASSUME PageIsBuilt, page # None
                PROVE  NothingWithheldPrinted
    BY DEF NothingWithheldPrinted
  <2>. DEFINE d == directory
  <2>1. /\ IsDirectory(d) /\ DOMAIN page.blocks = DOMAIN d.households
        /\ page = Build(d, page.tier, page.asOf)
        /\ \A id \in DOMAIN d.households : page.blocks[id].address = Address(d, id)
    BY BlockOnPage DEF PageIsBuilt
  <2>2. ASSUME NEW id \in DOMAIN d.households, d.households[id].hidden,
               NEW other \in DOMAIN d.households
        PROVE  page.blocks[other].address.lines \cap d.households[id].lines = {}
    <3>. DEFINE lines == Address(d, other).lines
                hops == Hops(d, other)
    <3>1. lines = {} \/ lines = FoundOn(d, hops)
      BY <2>1, AddressIs
    <3>2. Private \cap d.households[id].lines = {}
      BY <2>1 DEF IsDirectory, Private
    <3>3. CASE id \in hops
      BY <2>1, <2>2, <3>1, <3>2, <3>3 DEF FoundOn
    <3>4. CASE id \notin hops
      <4>1. LinesOn(d, hops) \cap d.households[id].lines = {}
        BY <2>1, <3>4 DEF LinesOn, Hops, IsDirectory
      <4>. QED  BY <2>1, <3>1, <3>2, <4>1 DEF FoundOn
    <3>. QED  BY <3>3, <3>4
  <2>3. ASSUME NEW id \in DOMAIN page.blocks, NEW name \in DOMAIN page.blocks[id].rows,
               NEW field \in d.people[name].hidden
        PROVE  page.blocks[id].rows[name][field] \subseteq Private
    <3>1. /\ d.people[name] \in Person
          /\ page.blocks[id].rows[name] = Row(d, name, IsMemorial(d, id), page.tier, page.asOf)
      BY <2>3, RowOnPage
    <3>2. field \in {"birth", "phone", "email"}
      BY <3>1, <2>3 DEF Person
    <3>3. CASE field = "birth"
      BY <2>3, <3>1, <3>3 DEF Row, Withhold
    <3>4. CASE field = "phone"
      BY <2>3, <3>1, <3>4 DEF Row, Withhold
    <3>5. CASE field = "email"
      BY <2>3, <3>1, <3>5 DEF Row, Withhold
    <3>. QED  BY <3>2, <3>3, <3>4, <3>5
  <2>4. \A name \in DOMAIN page.birthdays : "birth" \notin d.people[name].hidden
    BY <2>1 DEF Build, Birthdays
  <2>. QED  BY <2>1, <2>2, <2>3, <2>4 DEF NothingWithheldPrinted
<1>. QED  BY <1>1, PageBuilt, PTL

-----------------------------------------------------------------------------
(* Rows and Addresses have their types. *)

\* The facts a date tells.
LEMMA DateFacts ==
    ASSUME NEW date \in Date, NEW tier, NEW dead
    PROVE  /\ WholeDate(date) \in Facts
           /\ PrintedDate(tier, date, dead) \in Facts
<1>1. ASSUME NEW fact \in WholeDate(date)
      PROVE  fact \in {"year", "month", "day"} \X Nat
  <2>1. PICK part \in {"year", "month", "day"} : fact = <<part, date[part]>>
    BY DEF WholeDate, Date
  <2>2. date[part] \in Nat
    BY <2>1 DEF Date
  <2>. QED  BY <2>1, <2>2
<1>2. WholeDate(date) \in Facts
  BY <1>1 DEF Facts
<1>3. TruncatedDate(date) \subseteq WholeDate(date)
  BY DEF TruncatedDate
<1>4. PrintedDate(tier, date, dead) \subseteq WholeDate(date)
  BY <1>3 DEF PrintedDate
<1>. QED  BY <1>2, <1>4 DEF Facts

LEMMA WithheldFacts ==
    ASSUME NEW value \in Facts, NEW hidden
    PROVE  Withhold(value, hidden) \in Facts
<1>1. Private \in Facts
  BY DEF Private, Facts
<1>. QED  BY <1>1 DEF Withhold

LEMMA RowHasType ==
    ASSUME NEW d, NEW name, d.people[name] \in Person, NEW memorial, NEW tier, NEW asOf
    PROVE  Row(d, name, memorial, tier, asOf) \in RowType
<1>. DEFINE p == d.people[name]
            row == Row(d, name, memorial, tier, asOf)
            birth == Withhold(PrintedDate(tier, p.birth, IsDeceased(p)), "birth" \in p.hidden)
            phone == Withhold(p.phone, "phone" \in p.hidden)
            email == Withhold(p.email, "email" \in p.hidden)
<1>1. p.birth \in Date /\ p.death \in Date /\ p.phone \in Facts /\ p.email \in Facts
  BY DEF Person
<1>2. birth \in Facts /\ WholeDate(p.death) \in Facts /\ phone \in Facts /\ email \in Facts
  <2>1. PrintedDate(tier, p.birth, IsDeceased(p)) \in Facts /\ WholeDate(p.death) \in Facts
    BY <1>1, DateFacts
  <2>. QED  BY <1>1, <2>1, WithheldFacts
<1>3. {} \in Facts
  BY DEF Facts
<1>. DEFINE reachable == ~memorial /\ ~IsDeceased(p) /\ (tier = Full \/ ~IsMinor(p, asOf))
            printedPhone == IF reachable /\ AdmitsPhone(tier) THEN phone ELSE {}
            printedEmail == IF reachable /\ AdmitsEmail(tier) THEN email ELSE {}
<1>4. row = [birth |-> birth, death |-> WholeDate(p.death),
             phone |-> printedPhone, email |-> printedEmail]
  BY DEF Row
<1>5. printedPhone \in Facts /\ printedEmail \in Facts
  BY <1>2, <1>3
<1>. HIDE DEF birth, phone, email, printedPhone, printedEmail, row
<1>6. row \in RowType
  BY <1>2, <1>4, <1>5 DEF RowType
<1>. QED  BY <1>6 DEF row

LEMMA FoundFacts ==
    ASSUME NEW d, IsDirectory(d), NEW hops \in SUBSET DOMAIN d.households
    PROVE  FoundOn(d, hops) \in Facts
<1>1. \A id \in hops : d.households[id].lines \in Facts
  BY DEF IsDirectory, Household
<1>2. LinesOn(d, hops) \in Facts
  BY <1>1 DEF LinesOn, Facts
<1>3. Private \in Facts /\ {} \in Facts
  BY DEF Private, Facts
<1>. QED  BY <1>2, <1>3 DEF FoundOn

(***************************************************************************)
(* Every page is complete, and prints an Address or refers to one, never   *)
(* both.                                                                   *)
(***************************************************************************)
THEOREM TypeCorrect == Spec => []TypeOK
<1>1. PageIsBuilt => TypeOK
  <2>. SUFFICES ASSUME PageIsBuilt, page # None
                PROVE  TypeOK
    BY DEF PageIsBuilt, TypeOK
  <2>. DEFINE d == directory
  <2>1. /\ IsDirectory(d) /\ d \in Directories
        /\ page.tier \in Tier /\ page.asOf \in Days
        /\ page = Build(d, page.tier, page.asOf)
        /\ DOMAIN page.blocks = DOMAIN d.households
    BY BlockOnPage DEF PageIsBuilt
  <2>2. DOMAIN page.birthdays \subseteq DOMAIN d.people
    <3>1. page.birthdays = Birthdays(d)
      BY <2>1 DEF Build
    <3>2. DOMAIN Birthdays(d) \subseteq Listed(d)
      BY DEF Birthdays
    <3>3. Listed(d) \subseteq DOMAIN d.people
      BY <2>1 DEF Listed, IsDirectory
    <3>. QED  BY <3>1, <3>2, <3>3
  <2>3. ASSUME NEW id \in DOMAIN page.blocks
        PROVE  LET block == page.blocks[id] IN
               /\ block.address.lines \in Facts
               /\ block.address.reference \in DOMAIN d.households \cup {None}
               /\ block.address.reference # None => block.address.lines = {}
               /\ block.rows \in [DOMAIN block.rows -> RowType]
    <3>. DEFINE block == page.blocks[id]
    <3>1. /\ block = Block(d, id, page.tier, page.asOf)
          /\ block.address = Address(d, id)
          /\ id \in DOMAIN d.households
      BY <2>1, BlockOnPage
    <3>2. /\ Address(d, id).lines = {} \/ Address(d, id).lines = FoundOn(d, Hops(d, id))
          /\ Address(d, id).reference \in DOMAIN d.households \cup {None}
          /\ Address(d, id).reference # None => Address(d, id).lines = {}
      BY <2>1, <3>1, AddressIs
    <3>3. Address(d, id).lines \in Facts
      <4>1. Hops(d, id) \in SUBSET DOMAIN d.households
        BY DEF Hops
      <4>2. FoundOn(d, Hops(d, id)) \in Facts
        BY <2>1, <4>1, FoundFacts
      <4>3. {} \in Facts
        BY DEF Facts
      <4>. QED  BY <3>2, <4>2, <4>3
    <3>4. \A name \in DOMAIN block.rows : block.rows[name] \in RowType
      <4>. TAKE name \in DOMAIN block.rows
      <4>. QED  BY RowOnPage, RowHasType
    <3>5. block.rows = [name \in DOMAIN block.rows |-> block.rows[name]]
      BY <3>1 DEF Block
    <3>. HIDE DEF block
    <3>6. block.rows \in [DOMAIN block.rows -> RowType]
      BY <3>4, <3>5
    <3>. QED  BY <3>1, <3>2, <3>3, <3>6 DEF block
  <2>. QED  BY <2>1, <2>2, <2>3 DEF TypeOK
<1>. QED  BY <1>1, PageBuilt, PTL

-----------------------------------------------------------------------------
(* The document as it would be if nothing were withheld. *)

LEMMA UnhiddenIs ==
    ASSUME NEW d, IsDirectory(d)
    PROVE  LET u == Unhidden(d) IN
           /\ IsDirectory(u)
           /\ DOMAIN u.households = DOMAIN d.households
           /\ DOMAIN u.people = DOMAIN d.people
           /\ \A id \in DOMAIN d.households :
                 u.households[id] = [d.households[id] EXCEPT !.hidden = FALSE]
           /\ \A name \in DOMAIN d.people :
                 u.people[name] = [d.people[name] EXCEPT !.hidden = {}]
<1>. DEFINE u == Unhidden(d)
            households == [id \in DOMAIN d.households |-> [d.households[id] EXCEPT !.hidden = FALSE]]
            people == [name \in DOMAIN d.people |-> [d.people[name] EXCEPT !.hidden = {}]]
<1>1. u.households = households /\ u.people = people
  BY DEF Unhidden
<1>2. DOMAIN households = DOMAIN d.households /\ DOMAIN people = DOMAIN d.people
  OBVIOUS
<1>3. ASSUME NEW id \in DOMAIN d.households
      PROVE  /\ households[id] \in Household
             /\ households[id].lines = d.households[id].lines
             /\ households[id].sharedWith = d.households[id].sharedWith
             /\ households[id].adults = d.households[id].adults
             /\ households[id].dependents = d.households[id].dependents
  <2>1. d.households[id] \in Household
    BY DEF IsDirectory
  <2>. QED  BY <2>1 DEF Household
<1>4. ASSUME NEW name \in DOMAIN d.people
      PROVE  people[name] \in Person
  <2>1. d.people[name] \in Person
    BY DEF IsDirectory
  <2>. QED  BY <2>1 DEF Person
<1>5. /\ households \in [DOMAIN d.households -> Household]
      /\ people \in [DOMAIN d.people -> Person]
  <2>1. households \in [DOMAIN d.households -> Household]
    BY <1>3
  <2>2. people \in [DOMAIN d.people -> Person]
    BY <1>4
  <2>. QED  BY <2>1, <2>2
<1>6. IsDirectory(u)
  <2>. HIDE DEF u, households, people
  <2>. QED  BY <1>1, <1>2, <1>3, <1>5 DEF IsDirectory
<1>. QED  BY <1>1, <1>2, <1>6

\* Withholding changes neither who lives in a Household nor where its Address leads.
LEMMA UnhiddenAddress ==
    ASSUME NEW d, IsDirectory(d), NEW id \in DOMAIN d.households, NEW u, u = Unhidden(d)
    PROVE  /\ IsMemorial(u, id) <=> IsMemorial(d, id)
           /\ FoundOn(u, Hops(u, id)) = LinesOn(d, Hops(d, id))
<1>1. /\ DOMAIN u.households = DOMAIN d.households
      /\ \A hop \in DOMAIN d.households :
            /\ u.households[hop].sharedWith = d.households[hop].sharedWith
            /\ u.households[hop].lines = d.households[hop].lines
            /\ u.households[hop].adults = d.households[hop].adults
            /\ ~u.households[hop].hidden
  <2>1. \A hop \in DOMAIN d.households :
           /\ d.households[hop] \in Household
           /\ u.households[hop] = [d.households[hop] EXCEPT !.hidden = FALSE]
    BY UnhiddenIs DEF IsDirectory
  <2>. QED  BY <2>1, UnhiddenIs DEF Household
<1>2. IsMemorial(u, id) <=> IsMemorial(d, id)
  <2>1. \A adult \in d.households[id].adults : u.people[adult].death = d.people[adult].death
    <3>. TAKE adult \in d.households[id].adults
    <3>1. adult \in DOMAIN d.people /\ d.people[adult] \in Person
      BY DEF IsDirectory
    <3>2. u.people[adult] = [d.people[adult] EXCEPT !.hidden = {}]
      BY <3>1, UnhiddenIs
    <3>. QED  BY <3>1, <3>2 DEF Person
  <2>. QED  BY <1>1, <2>1 DEF IsMemorial, IsDeceased
<1>3. Hops(u, id) = Hops(d, id)
  BY <1>1 DEF Hops
<1>4. LinesOn(u, Hops(d, id)) = LinesOn(d, Hops(d, id))
  <2>1. Hops(d, id) \subseteq DOMAIN d.households
    BY DEF Hops
  <2>. QED  BY <1>1, <2>1 DEF LinesOn, SharesAddress
<1>5. ~ \E hop \in Hops(d, id) : u.households[hop].hidden
  BY <1>1 DEF Hops
<1>6. FoundOn(u, Hops(d, id)) = LinesOn(u, Hops(d, id))
  BY <1>5 DEF FoundOn
<1>. QED  BY <1>2, <1>3, <1>4, <1>6

\* A value that is withheld would have been printed.
LEMMA UnhiddenRow ==
    ASSUME NEW d, IsDirectory(d), NEW name \in DOMAIN d.people, NEW u, u = Unhidden(d),
           NEW memorial, NEW tier, NEW asOf, NEW field \in {"birth", "phone", "email"},
           Row(d, name, memorial, tier, asOf)[field] = Private
    PROVE  Row(u, name, memorial, tier, asOf)[field] # {}
<1>. DEFINE p == d.people[name]
            q == u.people[name]
            reachable == ~memorial /\ ~IsDeceased(p) /\ (tier = Full \/ ~IsMinor(p, asOf))
            birth == PrintedDate(tier, p.birth, IsDeceased(p))
<1>1. /\ q.birth = p.birth /\ q.death = p.death /\ q.phone = p.phone /\ q.email = p.email
      /\ q.hidden = {}
  <2>1. p \in Person /\ q = [p EXCEPT !.hidden = {}]
    BY UnhiddenIs DEF IsDirectory
  <2>. QED  BY <2>1 DEF Person
<1>2. IsDeceased(q) <=> IsDeceased(p)
  BY <1>1 DEF IsDeceased
<1>3. IsMinor(q, asOf) <=> IsMinor(p, asOf)
  BY <1>1 DEF IsMinor
<1>4. PrintedDate(tier, q.birth, IsDeceased(q)) = birth
  BY <1>1, <1>2 DEF PrintedDate
<1>5. Private # {}
  BY DEF Private
<1>6. CASE field = "birth"
  <2>1. Row(d, name, memorial, tier, asOf).birth = Withhold(birth, "birth" \in p.hidden)
    BY DEF Row
  <2>2. Row(u, name, memorial, tier, asOf).birth = Withhold(birth, "birth" \in q.hidden)
    BY <1>4 DEF Row
  <2>. HIDE DEF p, q, birth
  <2>3. birth # {}
    BY <1>5, <1>6, <2>1 DEF Withhold
  <2>. QED  BY <1>1, <1>6, <2>2, <2>3 DEF Withhold
<1>7. CASE field = "phone"
  <2>1. /\ reachable /\ AdmitsPhone(tier)
        /\ Withhold(p.phone, "phone" \in p.hidden) = Private
    BY <1>5, <1>7 DEF Row
  <2>2. p.phone # {}
    BY <1>5, <2>1 DEF Withhold
  <2>3. Row(u, name, memorial, tier, asOf).phone = Withhold(q.phone, "phone" \in q.hidden)
    BY <1>2, <1>3, <2>1 DEF Row
  <2>. HIDE DEF p, q
  <2>. QED  BY <1>1, <1>7, <2>2, <2>3 DEF Withhold
<1>8. CASE field = "email"
  <2>1. /\ reachable /\ AdmitsEmail(tier)
        /\ Withhold(p.email, "email" \in p.hidden) = Private
    BY <1>5, <1>8 DEF Row
  <2>2. p.email # {}
    BY <1>5, <2>1 DEF Withhold
  <2>3. Row(u, name, memorial, tier, asOf).email = Withhold(q.email, "email" \in q.hidden)
    BY <1>2, <1>3, <2>1 DEF Row
  <2>. HIDE DEF p, q
  <2>. QED  BY <1>1, <1>8, <2>2, <2>3 DEF Withhold
<1>. QED  BY <1>6, <1>7, <1>8

(***************************************************************************)
(* [private] is printed only in place of something (build.go, withhold,    *)
(* resolve), for every document, tier and day.                             *)
(***************************************************************************)
THEOREM MarkersStandForSomething == Spec => []MarkerStandsForSomething
<1>1. PageIsBuilt => MarkerStandsForSomething
  <2>. SUFFICES ASSUME PageIsBuilt, page # None, NEW id \in DOMAIN page.blocks
                PROVE  LET open == Build(Unhidden(directory), page.tier, page.asOf) IN
                       /\ page.blocks[id].address.lines = Private =>
                             open.blocks[id].address.lines # {} \/ open.blocks[id].address.reference # None
                       /\ \A name \in DOMAIN page.blocks[id].rows :
                             \A field \in {"birth", "phone", "email"} :
                                 page.blocks[id].rows[name][field] = Private =>
                                     open.blocks[id].rows[name][field] # {}
    BY DEF MarkerStandsForSomething
  <2>. DEFINE d == directory
              u == Unhidden(d)
              open == Build(u, page.tier, page.asOf)
  <2>1. /\ IsDirectory(d) /\ id \in DOMAIN d.households
        /\ page.blocks[id] = Block(d, id, page.tier, page.asOf)
        /\ page.blocks[id].address = Address(d, id)
    BY BlockOnPage
  <2>2. /\ IsDirectory(u) /\ id \in DOMAIN u.households
        /\ u.households[id] = [d.households[id] EXCEPT !.hidden = FALSE]
        /\ d.households[id] \in Household
    BY <2>1, UnhiddenIs DEF IsDirectory
  <2>3. /\ open.blocks[id] = Block(u, id, page.tier, page.asOf)
        /\ open.blocks[id].address = Address(u, id)
    <3>1. open.blocks[id] = Block(u, id, page.tier, page.asOf)
      BY <2>2 DEF Build
    <3>. QED  BY <3>1 DEF Block
  <2>4. IsMemorial(u, id) <=> IsMemorial(d, id)
    BY <2>1, UnhiddenAddress
  <2>5. ASSUME Address(d, id).lines = Private
        PROVE  Address(u, id).lines # {} \/ Address(u, id).reference # None
    <3>1. Private # {}
      BY DEF Private
    <3>2. ~IsMemorial(d, id) /\ FoundOn(d, Hops(d, id)) = Private
      BY <2>1, <2>5, <3>1, AddressIs
    <3>3. LinesOn(d, Hops(d, id)) # {}
      BY <3>1, <3>2 DEF FoundOn
    <3>4. FoundOn(u, Hops(u, id)) # {}
      BY <2>1, <3>3, UnhiddenAddress
    <3>. HIDE DEF u
    <3>. QED  BY <2>2, <2>4, <3>2, <3>4, AddressIs
  <2>6. ASSUME NEW name \in DOMAIN page.blocks[id].rows,
               NEW field \in {"birth", "phone", "email"},
               page.blocks[id].rows[name][field] = Private
        PROVE  open.blocks[id].rows[name][field] # {}
    <3>. DEFINE h == d.households[id]
                memorial == IsMemorial(d, id)
    <3>1. name \in h.adults \cup h.dependents
      BY <2>1 DEF Block
    <3>2. page.blocks[id].rows[name] = Row(d, name, memorial, page.tier, page.asOf)
      BY RowOnPage
    <3>3. u.households[id].adults = h.adults /\ u.households[id].dependents = h.dependents
      BY <2>2 DEF Household
    <3>4. open.blocks[id].rows[name]
            = Row(u, name, IsMemorial(u, id), page.tier, page.asOf)
      <4>. HIDE DEF u
      <4>. QED  BY <2>3, <3>1, <3>3 DEF Block
    <3>5. name \in DOMAIN d.people
      BY <2>1, <3>1 DEF IsDirectory
    <3>6. Row(u, name, memorial, page.tier, page.asOf)[field] # {}
      BY <2>1, <2>6, <3>2, <3>5, UnhiddenRow
    <3>7. Row(u, name, IsMemorial(u, id), page.tier, page.asOf)
            = Row(u, name, memorial, page.tier, page.asOf)
      BY <2>4 DEF Row
    <3>. QED  BY <3>4, <3>6, <3>7
  <2>. QED  BY <2>1, <2>3, <2>5, <2>6
<1>. QED  BY <1>1, PageBuilt, PTL
=============================================================================
