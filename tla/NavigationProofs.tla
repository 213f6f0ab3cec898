--------------------------- MODULE NavigationProofs ---------------------------
(***************************************************************************)
(* Theorems about Navigation, for every forest of Households, every set of *)
(* bookmarks and every way other tabs change the document:                 *)
(*                                                                         *)
(*   TypeCorrect        []TypeOK                                           *)
(*   SelectionAlways    []SelectionShown                                   *)
(*   ViewAlwaysKept     []ViewKept                                         *)
(*   NothingEverOpens   []NothingOpensByItself                             *)
(*   AnswersFit         AnswerFits                                         *)
(*   TogglesFlipOne     ToggleFlipsOne                                     *)
(*                                                                         *)
(* They rest on one inductive invariant, Inv.  Beside the types it says    *)
(* that a page which nobody has toggled carries, in its form, its deletion *)
(* link and its Undo, what its tree pane shows and no more (Carries); that *)
(* a confirmation and a decision still carry what the Editor left and no   *)
(* more (Brings); and that a decision names a page of the document it was  *)
(* made on (Fits).                                                         *)
(***************************************************************************)
EXTENDS Navigation, TLAPS

(***************************************************************************)
(* A page opens what leads to its selection, its form names the ancestors  *)
(* of its Household, and both the form and the Undo carry what is open,    *)
(* unless a toggle has replaced the pane beside them.  A form may lack its *)
(* own Household, or carry what is no Branch any more, when it has been    *)
(* refused: it is then older than the page it is on.                       *)
(***************************************************************************)
Carries ==
    /\ Path(pane.of, pane.selected) \subseteq pane.open
    /\ form # None =>
          /\ form.open \subseteq Branches(HouseholdID)
          /\ Chain[form.id] \ {form.id} \subseteq form.open
    /\ form # None /\ by # "toggle" =>
          /\ form.shut = shut
          /\ OpenList(pane.of, pane.open) \subseteq form.open \cup {form.id}
          /\ by # "refusal" => form.open \subseteq OpenList(pane.of, pane.open)
          /\ form.link # None => form.link = OpenList(pane.of, pane.open)
    /\ undo # None /\ by # "toggle" =>
          /\ undo.shut = shut
          /\ undo.open = OpenList(pane.of, pane.open)

(***************************************************************************)
(* What the Editor left is still carried, on the way to the page it        *)
(* returns to, and nothing else, unless a refused form was sent again.     *)
(***************************************************************************)
Brings ==
    /\ asked # None /\ ~left.toggled =>
          /\ asked.shut = left.shut
          /\ asked.open = left.open
    /\ answer # None /\ answer.kind # "gone" /\ ~left.toggled =>
          /\ answer.shut = left.shut
          /\ left.open \subseteq answer.open \cup
                (IF answer.kind \in {"save", "refusal"} THEN {answer.to} ELSE {})
          /\ \/ answer.kind \in {"save", "refusal"} /\ left.refused
             \/ answer.open \subseteq left.open

(***************************************************************************)
(* A decision is about what was on screen, and its page is one of the      *)
(* document it was made on.                                                *)
(***************************************************************************)
Fits ==
    answer # None =>
        /\ answer.kind \in {"save", "refusal"} => answer.to \in answer.of
        /\ answer.kind = "refusal" =>
              /\ form # None /\ form.id = answer.to /\ asked = None
              /\ answer.open = form.open /\ answer.shut = form.shut
        /\ answer.kind = "blocked" =>
              /\ asked # None /\ answer.to \in answer.of
              /\ Children(answer.of, answer.to) # {}
        /\ answer.kind \in {"delete", "undo"} => answer.to \in answer.of \cup {None}

\* What the Editor finds on coming back is what was left.
Returns == ViewKept /\ NothingOpensByItself

Inv == TypeOK /\ Carries /\ Brings /\ Fits /\ Returns

-----------------------------------------------------------------------------
(* Households and their ancestors. *)

(***************************************************************************)
(* A document that has a Household has its ancestors.                      *)
(***************************************************************************)
LEMMA ChainInDocument ==
    ASSUME NEW ids \in Document, NEW id \in ids
    PROVE  /\ Chain[id] \subseteq ids
           /\ id \in Chain[id]
<1>1. id \in HouseholdID /\ ids \subseteq HouseholdID
  BY DEF Document
<1> QED
  BY <1>1 DEF Chain

(***************************************************************************)
(* A Household of a document and its ancestors are a document themselves.  *)
(***************************************************************************)
LEMMA ChainIsDocument ==
    ASSUME NEW ids \in Document, NEW id \in ids
    PROVE  Chain[id] \in Document
<1>1. id \in HouseholdID
  BY DEF Document
<1>2. ASSUME NEW a \in Chain[id]
      PROVE  Parent[a] \in Chain[id] \cup {None}
  <2>1. a \in HouseholdID
    BY <1>1 DEF Chain
  <2>2. Parent[a] \in HouseholdID \cup {None}
    BY <2>1, ParentAssumption
  <2>3. ASSUME NEW other \in Document, id \in other, Parent[a] # None
        PROVE  Parent[a] \in other
    BY <1>1, <2>1, <2>3 DEF Chain, Document
  <2> QED
    BY <1>1, <2>2, <2>3 DEF Chain
<1> QED
  BY <1>1, <1>2 DEF Chain, Document

(***************************************************************************)
(* Every ancestor is a Branch: what leads to a Household has one beneath.  *)
(***************************************************************************)
LEMMA AncestorsAreBranches ==
    ASSUME NEW ids \in Document, NEW id \in ids
    PROVE  Chain[id] \ {id} \subseteq Branches(ids)
<1> SUFFICES ASSUME NEW a \in Chain[id], a # id, Children(ids, a) = {}
             PROVE  FALSE
  BY ChainInDocument DEF Branches
<1> DEFINE rest == Chain[id] \ {a}
<1>1. rest \in Document
  <2>1. \A child \in rest : Parent[child] # a
    BY ChainInDocument DEF Children
  <2> QED
    BY <2>1, ChainIsDocument DEF Document
<1>2. id \in rest
  BY ChainInDocument
<1> QED
  BY <1>1, <1>2 DEF Chain, Document

-----------------------------------------------------------------------------
(* What the pieces of a page are, for any request. *)

LEMMA Subsets ==
    ASSUME NEW ids \in Document, NEW id
    PROVE  /\ ids \subseteq HouseholdID
           /\ Path(ids, id) \subseteq ids
           /\ Branches(ids) \subseteq Branches(HouseholdID)
  BY ChainInDocument DEF Document, Path, Branches, Children

(***************************************************************************)
(* treeView shows what was asked for and what leads to the selection, and  *)
(* nothing that is not in the document.                                    *)
(***************************************************************************)
LEMMA TreeViewIs ==
    ASSUME NEW ids \in Document, NEW id \in HouseholdID \cup {None},
           NEW open \in SUBSET HouseholdID, NEW closing
    PROVE  LET p == TreeView(ids, id, open, closing) IN
           /\ p.of = ids /\ p.selected = id
           /\ p.open = ((open \cap ids) \ closing) \cup Path(ids, id)
  BY DEF TreeView

LEMMA TreeViewType ==
    ASSUME NEW ids \in Document, NEW id \in HouseholdID \cup {None},
           NEW open \in SUBSET HouseholdID, NEW closing
    PROVE  LET p == TreeView(ids, id, open, closing) IN
           /\ p \in Pane
           /\ p.open \subseteq ids
<1> DEFINE shown == ((open \cap ids) \ closing) \cup Path(ids, id)
<1>1. TreeView(ids, id, open, closing) = [of |-> ids, selected |-> id, open |-> shown]
  BY DEF TreeView
<1>2. shown \subseteq ids /\ shown \in SUBSET HouseholdID
  BY Subsets
<1> HIDE DEF shown
<1> QED
  BY <1>1, <1>2 DEF Pane

(***************************************************************************)
(* openSet gives the form of a Household what the pane beside it shows.    *)
(***************************************************************************)
LEMMA FormIs ==
    ASSUME NEW ids \in Document, NEW id \in HouseholdID \cup {None},
           NEW open \in SUBSET HouseholdID, NEW hidden \in BOOLEAN,
           NEW p, p = TreeView(ids, id, open, {}),
           NEW f, f = FormOf(ids, id, open, hidden)
    PROVE  /\ f \in Form \cup {None}
           /\ id \in ids => f # None
           /\ f # None =>
                /\ id \in ids /\ f.id = id /\ f.shut = hidden
                /\ f.open = OpenList(ids, p.open)
                /\ f.link # None => f.link = f.open
                /\ f.open \subseteq Branches(HouseholdID)
                /\ Chain[id] \ {id} \subseteq f.open
<1>1. CASE id \notin ids
  BY <1>1 DEF FormOf
<1>2. CASE id \in ids
  <2> DEFINE carried == OpenList(ids, p.open)
             link == IF Children(ids, id) = {} THEN carried ELSE None
  <2>1. p.open = (open \cap ids) \cup Path(ids, id)
    BY TreeViewIs
  <2>2. f = [id |-> id, open |-> carried, shut |-> hidden, link |-> link]
    BY <1>2, <2>1 DEF FormOf
  <2>3. carried \subseteq Branches(ids) /\ carried \in SUBSET HouseholdID
    BY Subsets DEF OpenList, Branches
  <2>4. id \in HouseholdID
    BY <1>2, Subsets
  <2>5. f \in Form
    <3>1. link \in (SUBSET HouseholdID) \cup {None}
      BY <2>3
    <3> HIDE DEF carried, link
    <3> QED
      BY <2>2, <2>3, <2>4, <3>1 DEF Form
  <2>6. f # None
    BY <2>5, NothingAssumption
  <2>7. Chain[id] \ {id} \subseteq carried
    BY <1>2, <2>1, AncestorsAreBranches DEF OpenList, Path
  <2> HIDE DEF carried
  <2> QED
    BY <1>2, <2>2, <2>3, <2>5, <2>6, <2>7, Subsets DEF carried
<1> QED
  BY <1>1, <1>2

(***************************************************************************)
(* The Undo of an announcement carries what the pane beside it shows.      *)
(***************************************************************************)
LEMMA UndoIs ==
    ASSUME NEW ids \in Document, NEW id \in HouseholdID \cup {None},
           NEW open \in SUBSET HouseholdID, NEW hidden \in BOOLEAN,
           NEW back \in Document \cup {None},
           NEW p, p = TreeView(ids, id, open, {}),
           NEW u, u = Announced(ids, id, open, hidden, back)
    PROVE  /\ u \in UndoForm \cup {None}
           /\ u # None => u.shut = hidden /\ u.open = OpenList(ids, p.open)
<1>1. CASE back = None
  BY <1>1 DEF Announced
<1>2. CASE back # None
  <2> DEFINE carried == OpenList(ids, p.open)
  <2>1. u = [at |-> id, open |-> carried, shut |-> hidden, back |-> back]
    BY <1>2 DEF Announced
  <2>2. carried \in SUBSET HouseholdID
    BY TreeViewIs, Subsets DEF OpenList
  <2> HIDE DEF carried
  <2> QED
    BY <2>1, <2>2 DEF UndoForm, carried
<1> QED
  BY <1>1, <1>2

-----------------------------------------------------------------------------
(* The steps. *)

Ways == {"address", "link", "toggle", "pane", "ask", "keep", "save", "refusal",
         "delete", "blocked", "undo", "gone"}

Lefts == [open : SUBSET HouseholdID, shut : BOOLEAN, toggled : BOOLEAN, refused : BOOLEAN]

(***************************************************************************)
(* directoryView: a whole page, whatever was asked for, carries what it    *)
(* shows, and leaves no confirmation and no decision behind.               *)
(***************************************************************************)
LEMMA LoadStep ==
    ASSUME TypeOK, NEW how \in Ways, NEW id \in HouseholdID \cup {None},
           NEW open \in SUBSET HouseholdID, NEW hidden \in BOOLEAN,
           NEW back \in Document \cup {None},
           Load(how, id, open, hidden, back), left' \in Lefts
    PROVE  /\ TypeOK' /\ Carries' /\ Brings' /\ Fits'
           /\ pane'.of = there' /\ pane'.selected = id /\ shut' = hidden /\ by' = how
           /\ pane'.open = (open \cap there') \cup Path(there', id)
<1> USE DEF TypeOK, Load
<1>1. there \in Document /\ there' = there
  OBVIOUS
<1>2. /\ pane' \in Pane
      /\ pane'.of = there /\ pane'.selected = id
      /\ pane'.open = (open \cap there) \cup Path(there, id)
      /\ pane'.open \subseteq there
  <2> DEFINE nothing == {}
  <2>1. pane' = TreeView(there, id, open, nothing)
    OBVIOUS
  <2>4. ((open \cap there) \ nothing) \cup Path(there, id) = (open \cap there) \cup Path(there, id)
    OBVIOUS
  <2> HIDE DEF TypeOK, Load, nothing
  <2>2. pane' \in Pane /\ pane'.open \subseteq there
    BY <1>1, <2>1, TreeViewType
  <2>3. /\ pane'.of = there /\ pane'.selected = id
        /\ pane'.open = (open \cap there) \cup Path(there, id)
    BY <1>1, <2>1, <2>4 DEF TreeView
  <2> QED
    BY <2>2, <2>3
<1>3. /\ form' \in Form \cup {None}
      /\ form' # None =>
            /\ form'.id = id /\ form'.shut = hidden
            /\ form'.open = OpenList(there, pane'.open)
            /\ form'.link # None => form'.link = form'.open
            /\ form'.open \subseteq Branches(HouseholdID)
            /\ Chain[id] \ {id} \subseteq form'.open
  BY <1>1, FormIs
<1>4. /\ undo' \in UndoForm \cup {None}
      /\ undo' # None => undo'.shut = hidden /\ undo'.open = OpenList(there, pane'.open)
  BY <1>1, UndoIs
<1>5. asked' = None /\ answer' = None /\ by' = how /\ shut' = hidden
  OBVIOUS
<1>6. TypeOK'
  BY <1>1, <1>2, <1>3, <1>4, <1>5 DEF Ways, Lefts
<1>7. Carries'
  BY <1>1, <1>2, <1>3, <1>4, <1>5 DEF Carries
<1>8. Brings' /\ Fits'
  BY <1>5 DEF Brings, Fits
<1> QED
  BY <1>1, <1>2, <1>5, <1>6, <1>7, <1>8

(***************************************************************************)
(* What a page that nobody has toggled carries is what the Editor leaves.  *)
(***************************************************************************)
LEMMA LeaveStep ==
    ASSUME Inv, Leave
    PROVE  /\ left' \in Lefts
           /\ left'.open = Expanded(pane) /\ left'.shut = shut
           /\ left'.open \subseteq pane.open
           /\ left'.refused = (by = "refusal")
           /\ form # None /\ ~left'.toggled =>
                 /\ form.shut = left'.shut
                 /\ left'.open \subseteq form.open \cup {form.id}
                 /\ left'.refused \/ form.open \subseteq left'.open
                 /\ form.link # None => form.link = left'.open
           /\ undo # None /\ ~left'.toggled =>
                 /\ undo.shut = left'.shut
                 /\ undo.open = left'.open
<1> DEFINE carried == Expanded(pane)
<1>1. left' = [open |-> carried, shut |-> shut,
               toggled |-> by = "toggle", refused |-> by = "refusal"]
  BY DEF Leave
<1>2. carried \subseteq pane.open /\ carried \in SUBSET HouseholdID
  BY DEF Expanded, Inv, TypeOK, Pane
<1>3. shut \in BOOLEAN /\ (by = "toggle") \in BOOLEAN /\ (by = "refusal") \in BOOLEAN
  BY DEF Inv, TypeOK
<1>4. carried = OpenList(pane.of, pane.open)
  BY DEF Expanded, OpenList
<1> HIDE DEF carried
<1>5. /\ left' \in Lefts
      /\ left'.open = carried /\ left'.shut = shut
      /\ left'.toggled = (by = "toggle") /\ left'.refused = (by = "refusal")
  BY <1>1, <1>2, <1>3, Zenon DEF Lefts
<1>6. form # None /\ by # "toggle" =>
        /\ form.shut = shut
        /\ carried \subseteq form.open \cup {form.id}
        /\ by = "refusal" \/ form.open \subseteq carried
        /\ form.link # None => form.link = carried
  BY <1>4 DEF Inv, Carries
<1>7. undo # None /\ by # "toggle" => undo.shut = shut /\ undo.open = carried
  BY <1>4 DEF Inv, Carries
<1> QED
  BY <1>2, <1>5, <1>6, <1>7 DEF carried

(***************************************************************************)
(* A request that has been decided leaves the page as it was.              *)
(***************************************************************************)
LEMMA DecideStep ==
    ASSUME Inv, there' \in Document, left' \in Lefts,
           NEW kind \in {"save", "refusal", "delete", "blocked", "undo", "gone"},
           NEW to \in HouseholdID \cup {None}, NEW posted,
           posted.open \in SUBSET HouseholdID, posted.shut \in BOOLEAN,
           NEW back \in Document \cup {None},
           Decide(kind, to, posted, back)
    PROVE  /\ TypeOK' /\ Carries'
           /\ answer'.kind = kind /\ answer'.to = to /\ answer'.of = there'
           /\ answer'.open = posted.open /\ answer'.shut = posted.shut
<1>1. /\ answer' = [kind |-> kind, to |-> to, open |-> posted.open,
                    shut |-> posted.shut, back |-> back, of |-> there']
      /\ UNCHANGED <<pane, shut, form, undo, asked, by>>
  BY DEF Decide
<1>2. answer' \in Decision
  BY <1>1 DEF Decision
<1>3. TypeOK'
  BY <1>1, <1>2 DEF Inv, TypeOK, Lefts
<1>4. Carries'
  BY <1>1 DEF Inv, Carries
<1> QED
  BY <1>1, <1>3, <1>4

(***************************************************************************)
(* Where the Editor is taken back to a page, everything that was open and  *)
(* still has Households beneath it is, and nothing else but the way to the *)
(* selection.                                                              *)
(***************************************************************************)
LEMMA ReturnStep ==
    ASSUME Inv, there \in Document, NEW id,
           NEW open \in SUBSET HouseholdID,
           pane'.of = there, pane'.selected = id,
           pane'.open = (open \cap there) \cup Path(there, id),
           ~left.toggled =>
              /\ left.open \subseteq open \cup {id}
              /\ shut' = left.shut
              /\ \/ by' \in {"save", "refusal"} /\ left.refused
                 \/ open \subseteq left.open,
           left' = left
    PROVE  Returns'
<1>1. ViewKept'
  <2> SUFFICES ASSUME ~left.toggled, NEW a \in left.open, a \in Branches(there)
               PROVE  a \in pane'.open
    BY DEF ViewKept
  <2>1. a \in there
    BY DEF Branches
  <2>2. CASE a = id
    BY <2>1, <2>2, ChainInDocument DEF Path
  <2> QED
    BY <2>1, <2>2
<1>2. NothingOpensByItself'
  <2>1. ASSUME open \subseteq left.open
        PROVE  Expanded(pane') \subseteq left.open \cup Pinned(pane')
    BY <2>1 DEF Expanded, Pinned
  <2> QED
    BY <2>1 DEF NothingOpensByItself
<1> QED
  BY <1>1, <1>2 DEF Returns

LEMMA InvInit == Init => Inv
<1> SUFFICES ASSUME Init
             PROVE  Inv
  OBVIOUS
<1>1. /\ there \in Document /\ pane = TreeView(there, None, {}, {})
      /\ None \in HouseholdID \cup {None} /\ {} \in SUBSET HouseholdID
  BY DEF Init
<1>2. /\ pane \in Pane
      /\ pane.of = there /\ pane.selected = None /\ pane.open \subseteq there
      /\ Path(there, None) \subseteq pane.open
  <2> DEFINE nothing == {}
  <2>1. nothing \in SUBSET HouseholdID /\ pane = TreeView(there, None, nothing, nothing)
    BY <1>1
  <2> HIDE DEF Init, nothing
  <2> QED
    BY <1>1, <2>1, TreeViewIs, TreeViewType
<1>3. TypeOK
  BY <1>1, <1>2 DEF TypeOK, Init
<1>4. Carries
  BY <1>2 DEF Carries, Init
<1>5. Brings /\ Fits /\ Returns
  BY DEF Brings, Fits, Returns, ViewKept, NothingOpensByItself, Init
<1> QED
  BY <1>3, <1>4, <1>5 DEF Inv

(***************************************************************************)
(* Pages: the requests that decide nothing.                                *)
(***************************************************************************)
LEMMA PageStep ==
    ASSUME Inv,
           \/ \E id \in HouseholdID \cup {None}, open \in Bookmarks, hidden \in BOOLEAN :
                 Visit(id, open, hidden)
           \/ \E id \in HouseholdID : Follow(id)
           \/ TogglePane
           \/ KeepIt
    PROVE  Inv'
<1> USE DEF Inv
<1>1. left \in Lefts
  BY DEF TypeOK, Lefts
<1>2. ASSUME NEW id \in HouseholdID \cup {None}, NEW open \in Bookmarks,
             NEW hidden \in BOOLEAN, Visit(id, open, hidden)
      PROVE  Inv'
  <2>1. /\ open \in SUBSET HouseholdID /\ None \in Document \cup {None}
        /\ "address" \in Ways /\ left' \in Lefts
        /\ Load("address", id, open, hidden, None)
    BY <1>1, <1>2, ParentAssumption DEF Visit, Ways
  <2>2. TypeOK' /\ Carries' /\ Brings' /\ Fits' /\ by' = "address"
    BY <2>1, LoadStep
  <2> QED
    BY <2>2 DEF Returns, ViewKept, NothingOpensByItself
<1>3. ASSUME NEW id \in HouseholdID, Follow(id)
      PROVE  Inv'
  <2>1. /\ {} \in SUBSET HouseholdID /\ None \in Document \cup {None}
        /\ "link" \in Ways /\ left' \in Lefts /\ FALSE \in BOOLEAN
        /\ Load("link", id, {}, FALSE, None)
    BY <1>1, <1>3 DEF Follow, Ways
  <2>2. TypeOK' /\ Carries' /\ Brings' /\ Fits' /\ by' = "link"
    BY <2>1, LoadStep
  <2> QED
    BY <2>2 DEF Returns, ViewKept, NothingOpensByItself
<1>4. CASE TogglePane
  <2>1. /\ {} \in SUBSET HouseholdID /\ None \in Document \cup {None}
        /\ "pane" \in Ways /\ left' \in Lefts
        /\ Load("pane", pane.selected, {}, ~shut, None)
    BY <1>1, <1>4 DEF TogglePane, Ways
  <2>3. pane.selected \in HouseholdID \cup {None} /\ (~shut) \in BOOLEAN
    BY DEF TypeOK, Pane
  <2>2. TypeOK' /\ Carries' /\ Brings' /\ Fits' /\ by' = "pane"
    BY <2>1, <2>3, LoadStep
  <2> QED
    BY <2>2 DEF Returns, ViewKept, NothingOpensByItself
<1>5. CASE KeepIt
  <2>1. /\ asked \in Confirmation /\ None \in Document \cup {None}
        /\ "keep" \in Ways /\ left' \in Lefts /\ left' = left
        /\ Load("keep", asked.id, asked.open, asked.shut, None)
    BY <1>1, <1>5 DEF KeepIt, Ways, TypeOK
  <2>2. /\ asked.id \in HouseholdID \cup {None} /\ asked.open \in SUBSET HouseholdID
        /\ asked.shut \in BOOLEAN
    BY <2>1 DEF Confirmation
  <2>3. /\ TypeOK' /\ Carries' /\ Brings' /\ Fits' /\ by' = "keep"
        /\ pane'.of = there' /\ pane'.selected = asked.id /\ shut' = asked.shut
        /\ pane'.open = (asked.open \cap there') \cup Path(there', asked.id)
    <3> HIDE DEF Inv
    <3>1. TypeOK
      BY DEF Inv
    <3> QED
      BY <2>1, <2>2, <3>1, LoadStep
  <2>4. there' = there /\ there \in Document
    BY <2>1 DEF Load, TypeOK
  <2>5. ~left.toggled => asked.open = left.open /\ shut' = left.shut
    BY <1>5, <2>3 DEF Brings, KeepIt
  <2>6. Returns'
    BY <2>1, <2>2, <2>3, <2>4, <2>5, ReturnStep
  <2> QED
    BY <2>3, <2>6
<1> QED
  BY <1>2, <1>3, <1>4, <1>5

(***************************************************************************)
(* A toggle replaces the tree pane alone.                                  *)
(***************************************************************************)
LEMMA ToggleStep ==
    ASSUME Inv, NEW id \in HouseholdID, Toggle(id)
    PROVE  Inv'
<1> USE DEF Inv
<1> DEFINE url == ToggleURL(pane, id)
           open == url.open
           close == url.close
<1>1. /\ there' = there /\ there \in Document /\ by' = "toggle"
      /\ pane' = TreeView(there, pane.selected, open, close)
      /\ UNCHANGED <<shut, form, undo, asked, answer, left>>
  BY DEF Toggle, TypeOK
<1>2. /\ pane.selected \in HouseholdID \cup {None}
      /\ open \in SUBSET HouseholdID
  BY DEF TypeOK, Pane, ToggleURL, OpenList
<1> HIDE DEF url, open, close, Inv
<1>3. /\ pane' \in Pane
      /\ pane'.of = there /\ pane'.selected = pane.selected
      /\ pane'.open = ((open \cap there) \ close) \cup Path(there, pane.selected)
      /\ pane'.open \subseteq there
  <2>1. pane' \in Pane /\ pane'.open \subseteq there
    BY <1>1, <1>2, TreeViewType
  <2> QED
    BY <1>1, <1>2, <2>1, TreeViewIs
<1> USE DEF Inv
<1>4. TypeOK'
  BY <1>1, <1>3 DEF TypeOK
<1>5. Carries'
  BY <1>1, <1>3 DEF Carries
<1>6. Brings'
  BY <1>1 DEF Brings
<1>7. Fits'
  BY <1>1 DEF Fits
<1>8. Returns'
  BY <1>1 DEF Returns, ViewKept, NothingOpensByItself
<1> QED
  BY <1>4, <1>5, <1>6, <1>7, <1>8

(***************************************************************************)
(* The confirmation page carries what the Editor left.                     *)
(***************************************************************************)
LEMMA AskStep ==
    ASSUME Inv, AskDelete
    PROVE  Inv'
<1> USE DEF Inv
<1>1. /\ form \in Form /\ form # None /\ form.link # None /\ answer = None
      /\ form.link \in SUBSET HouseholdID
      /\ Leave /\ left' \in Lefts
  BY LeaveStep DEF AskDelete, AtPanes, TypeOK, Form
<1>2. CASE form.id \notin there
  <2>1. /\ {} \in SUBSET HouseholdID /\ None \in Document \cup {None}
        /\ "gone" \in Ways /\ FALSE \in BOOLEAN
        /\ Load("gone", None, {}, FALSE, None)
    BY <1>2 DEF AskDelete, Ways
  <2>2. TypeOK' /\ Carries' /\ Brings' /\ Fits' /\ by' = "gone"
    BY <1>1, <2>1, LoadStep
  <2> QED
    BY <2>2 DEF Returns, ViewKept, NothingOpensByItself
<1>3. CASE form.id \in there
  <2>1. /\ asked' = DeleteView(there, form.id, form.link, form.shut)
        /\ form' = None /\ undo' = None /\ by' = "ask"
        /\ UNCHANGED <<there, pane, shut, answer>>
    BY <1>3 DEF AskDelete
  <2>2. /\ asked'.open = form.link /\ asked'.shut = form.shut
        /\ asked' \in Confirmation
    BY <1>1, <2>1 DEF DeleteView, Confirmation, Form
  <2>3. TypeOK'
    BY <1>1, <2>1, <2>2 DEF TypeOK, Lefts
  <2>4. Carries'
    BY <2>1 DEF Carries
  <2>5. ~left'.toggled => form.shut = left'.shut /\ left'.open = form.link
    BY <1>1, LeaveStep
  <2>6. Brings' /\ Fits' /\ Returns'
    BY <1>1, <2>1, <2>2, <2>5 DEF Brings, Fits, Returns, ViewKept, NothingOpensByItself
  <2> QED
    BY <2>3, <2>4, <2>6
<1> QED
  BY <1>2, <1>3

(***************************************************************************)
(* The decisions: each carries on what the Editor left, about a page of    *)
(* the document as the decision made it.                                   *)
(***************************************************************************)
LEMMA DecisionStep ==
    ASSUME Inv, Save \/ Refuse \/ SaveGone \/ Delete \/ DeleteBlocked \/ DeleteGone \/ Undo
    PROVE  Inv'
<1> USE DEF Inv
<1>1. there \in Document /\ left \in Lefts /\ None \in Document \cup {None}
  BY DEF TypeOK, Lefts
<1>2. form # None =>
        /\ form.id \in HouseholdID \cup {None}
        /\ form.open \in SUBSET HouseholdID /\ form.shut \in BOOLEAN
  BY DEF TypeOK, Form
<1>3. asked # None =>
        /\ asked.id \in HouseholdID /\ Parent[asked.id] \in HouseholdID \cup {None}
        /\ asked.open \in SUBSET HouseholdID /\ asked.shut \in BOOLEAN
  BY ParentAssumption DEF TypeOK, Confirmation
<1>4. CASE Save
  <2>1. /\ form # None /\ form.id \in there /\ asked = None /\ Leave
        /\ Decide("save", form.id, form, there)
    BY <1>4 DEF Save, AtPanes
  <2>2. there' \in Document /\ form.id \in there'
    <3>1. PICK new \in SUBSET Children(HouseholdID \ there, form.id) : there' = there \cup new
      BY <1>4 DEF Save
    <3>2. \A id \in new : id \in HouseholdID /\ Parent[id] = form.id
      BY DEF Children
    <3> QED
      BY <1>1, <2>1, <3>1, <3>2 DEF Document
  <2>3. /\ left' \in Lefts /\ left'.open \subseteq pane.open
        /\ left'.shut = shut
        /\ left'.open = Expanded(pane)
        /\ ~left'.toggled =>
              /\ form.shut = left'.shut
              /\ left'.open \subseteq form.open \cup {form.id}
              /\ left'.refused \/ form.open \subseteq left'.open
    BY <2>1, LeaveStep
  <2>4. /\ TypeOK' /\ Carries'
        /\ answer'.kind = "save" /\ answer'.to = form.id /\ answer'.of = there'
        /\ answer'.open = form.open /\ answer'.shut = form.shut
    BY <1>1, <1>2, <2>1, <2>2, <2>3, DecideStep
  <2>5. UNCHANGED <<pane, shut, form, asked>>
    BY <2>1 DEF Decide
  <2>6. Returns'
    BY <2>3, <2>5 DEF Returns, ViewKept, NothingOpensByItself, Expanded
  <2>7. Brings'
    BY <2>1, <2>3, <2>4, <2>5 DEF Brings
  <2>8. Fits'
    BY <2>1, <2>2, <2>3, <2>4, <2>5 DEF Fits
  <2> QED
    BY <2>4, <2>6, <2>7, <2>8
<1>5. CASE Refuse
  <2>1. /\ form # None /\ form.id \in there /\ asked = None /\ Leave /\ there' = there
        /\ Decide("refusal", form.id, form, None)
    BY <1>5 DEF Refuse, AtPanes
  <2>3. /\ left' \in Lefts /\ left'.open \subseteq pane.open
        /\ left'.shut = shut
        /\ left'.open = Expanded(pane)
        /\ ~left'.toggled =>
              /\ form.shut = left'.shut
              /\ left'.open \subseteq form.open \cup {form.id}
              /\ left'.refused \/ form.open \subseteq left'.open
    BY <2>1, LeaveStep
  <2>4. /\ TypeOK' /\ Carries'
        /\ answer'.kind = "refusal" /\ answer'.to = form.id /\ answer'.of = there'
        /\ answer'.open = form.open /\ answer'.shut = form.shut
    BY <1>1, <1>2, <2>1, <2>3, DecideStep
  <2>5. UNCHANGED <<pane, shut, form, asked>>
    BY <2>1 DEF Decide
  <2>6. Returns'
    BY <2>3, <2>5 DEF Returns, ViewKept, NothingOpensByItself, Expanded
  <2>7. Brings'
    BY <2>1, <2>3, <2>4, <2>5 DEF Brings
  <2>8. Fits'
    BY <2>1, <2>3, <2>4, <2>5 DEF Fits
  <2> QED
    BY <2>4, <2>6, <2>7, <2>8
<1>6. CASE SaveGone
  <2>1. /\ form # None /\ asked = None /\ Leave /\ there' = there
        /\ Decide("gone", None, form, None)
    BY <1>6 DEF SaveGone, AtPanes
  <2>3. /\ left' \in Lefts /\ left'.open \subseteq pane.open
        /\ left'.open = Expanded(pane) /\ left'.shut = shut
    BY <2>1, LeaveStep
  <2>4. TypeOK' /\ Carries' /\ answer'.kind = "gone"
    BY <1>1, <1>2, <2>1, <2>3, DecideStep
  <2>5. UNCHANGED <<pane, shut, form, asked>>
    BY <2>1 DEF Decide
  <2>6. Brings' /\ Fits' /\ Returns'
    BY <2>1, <2>3, <2>4, <2>5 DEF Brings, Fits, Returns, ViewKept, NothingOpensByItself
  <2> QED
    BY <2>4, <2>6
<1>7. CASE Delete
  <2>1. /\ asked # None /\ asked.id \in there /\ Children(there, asked.id) = {}
        /\ there' = there \ {asked.id} /\ left' = left
        /\ Decide("delete", Parent[asked.id], asked, there)
    BY <1>7 DEF Delete
  <2>2. there' \in Document /\ Parent[asked.id] \in there' \cup {None}
    <3>1. \A id \in there : Parent[id] # asked.id
      BY <2>1 DEF Children
    <3>2. Parent[asked.id] \in there \cup {None}
      BY <1>1, <2>1 DEF Document
    <3> QED
      BY <1>1, <2>1, <3>1, <3>2 DEF Document
  <2>4. /\ TypeOK' /\ Carries'
        /\ answer'.kind = "delete" /\ answer'.to = Parent[asked.id] /\ answer'.of = there'
        /\ answer'.open = asked.open /\ answer'.shut = asked.shut
    BY <1>1, <1>3, <2>1, <2>2, DecideStep
  <2>5. UNCHANGED <<pane, shut, form, asked, by>>
    BY <2>1 DEF Decide
  <2>6. Brings' /\ Fits' /\ Returns'
    BY <2>1, <2>2, <2>4, <2>5 DEF Brings, Fits, Returns, ViewKept, NothingOpensByItself
  <2> QED
    BY <2>4, <2>6
<1>8. CASE DeleteBlocked
  <2>1. /\ asked # None /\ asked.id \in there /\ Children(there, asked.id) # {}
        /\ there' = there /\ left' = left
        /\ Decide("blocked", asked.id, asked, None)
    BY <1>8 DEF DeleteBlocked
  <2>4. /\ TypeOK' /\ Carries'
        /\ answer'.kind = "blocked" /\ answer'.to = asked.id /\ answer'.of = there'
        /\ answer'.open = asked.open /\ answer'.shut = asked.shut
    BY <1>1, <1>3, <2>1, DecideStep
  <2>5. UNCHANGED <<pane, shut, form, asked, by>>
    BY <2>1 DEF Decide
  <2>6. Brings' /\ Fits' /\ Returns'
    BY <2>1, <2>4, <2>5 DEF Brings, Fits, Returns, ViewKept, NothingOpensByItself
  <2> QED
    BY <2>4, <2>6
<1>9. CASE DeleteGone
  <2>1. /\ asked # None /\ there' = there /\ left' = left
        /\ Decide("gone", None, asked, None)
    BY <1>9 DEF DeleteGone
  <2>4. TypeOK' /\ Carries' /\ answer'.kind = "gone"
    BY <1>1, <1>3, <2>1, DecideStep
  <2>5. UNCHANGED <<pane, shut, form, asked, by>>
    BY <2>1 DEF Decide
  <2>6. Brings' /\ Fits' /\ Returns'
    BY <2>1, <2>4, <2>5 DEF Brings, Fits, Returns, ViewKept, NothingOpensByItself
  <2> QED
    BY <2>4, <2>6
<1>10. CASE Undo
  <2>1. /\ undo # None /\ undo \in UndoForm /\ asked = None /\ Leave
        /\ there' = IF undo.back = None THEN there ELSE undo.back
        /\ Decide("undo", Landing(there', undo.at), undo, None)
    BY <1>10 DEF Undo, AtPanes, TypeOK
  <2>2. /\ there' \in Document
        /\ Landing(there', undo.at) \in HouseholdID \cup {None}
        /\ Landing(there', undo.at) \in there' \cup {None}
        /\ undo.open \in SUBSET HouseholdID /\ undo.shut \in BOOLEAN
    BY <1>1, <2>1 DEF UndoForm, Landing
  <2>3. /\ left' \in Lefts /\ left'.open \subseteq pane.open
        /\ left'.shut = shut
        /\ left'.open = Expanded(pane)
        /\ ~left'.toggled => undo.shut = left'.shut /\ left'.open = undo.open
    BY <2>1, LeaveStep
  <2>4. /\ TypeOK' /\ Carries'
        /\ answer'.kind = "undo" /\ answer'.to = Landing(there', undo.at)
        /\ answer'.of = there'
        /\ answer'.open = undo.open /\ answer'.shut = undo.shut
    BY <1>1, <2>1, <2>2, <2>3, DecideStep
  <2>5. UNCHANGED <<pane, shut, form, asked>>
    BY <2>1 DEF Decide
  <2>6. Brings' /\ Fits' /\ Returns'
    BY <2>1, <2>2, <2>3, <2>4, <2>5 DEF Brings, Fits, Returns, ViewKept, NothingOpensByItself
  <2> QED
    BY <2>4, <2>6
<1> QED
  BY <1>4, <1>5, <1>6, <1>7, <1>8, <1>9, <1>10

LEMMA DecisionIs ==
    ASSUME Inv, answer # None
    PROVE  /\ answer.to \in HouseholdID \cup {None}
           /\ answer.open \in SUBSET HouseholdID /\ answer.shut \in BOOLEAN
           /\ answer.back \in Document \cup {None} /\ answer.of \in Document
  BY DEF Inv, TypeOK, Decision

(***************************************************************************)
(* Every answer shows what the Editor left, as far as it is still there.   *)
(***************************************************************************)
LEMMA AnswerStep ==
    ASSUME Inv, Redirected \/ RefusedPage \/ BlockedPage \/ NotFoundPage
    PROVE  Inv'
<1> USE DEF Inv
<1>1. there \in Document /\ left \in Lefts /\ None \in Document \cup {None}
  BY DEF TypeOK, Lefts
<1>2. answer # None =>
        /\ answer.to \in HouseholdID \cup {None}
        /\ answer.open \in SUBSET HouseholdID /\ answer.shut \in BOOLEAN
        /\ answer.back \in Document \cup {None}
  BY DecisionIs
<1>3. CASE Redirected
  <2>1. /\ answer # None /\ answer.kind \in {"save", "delete", "undo"}
        /\ answer.kind \in Ways /\ left' = left
        /\ Load(answer.kind, answer.to, answer.open, answer.shut, answer.back)
    BY <1>3 DEF Redirected, Ways
  <2>2. /\ TypeOK' /\ Carries' /\ Brings' /\ Fits'
        /\ pane'.of = there' /\ pane'.selected = answer.to
        /\ shut' = answer.shut /\ by' = answer.kind
        /\ pane'.open = (answer.open \cap there') \cup Path(there', answer.to)
    <3> DEFINE how == answer.kind
               to == answer.to
               open == answer.open
               hidden == answer.shut
               back == answer.back
    <3>1. /\ TypeOK /\ how \in Ways /\ to \in HouseholdID \cup {None}
          /\ open \in SUBSET HouseholdID /\ hidden \in BOOLEAN
          /\ back \in Document \cup {None} /\ left' \in Lefts
          /\ Load(how, to, open, hidden, back)
      BY <1>1, <1>2, <2>1
    <3> HIDE DEF Inv, how, to, open, hidden, back
    <3>2. /\ TypeOK' /\ Carries' /\ Brings' /\ Fits'
          /\ pane'.of = there' /\ pane'.selected = to
          /\ shut' = hidden /\ by' = how
          /\ pane'.open = (open \cap there') \cup Path(there', to)
      BY <3>1, LoadStep
    <3> QED
      BY <3>2 DEF how, to, open, hidden
  <2>3. there' = there
    BY <2>1 DEF Load
  <2>4. ~left.toggled =>
          /\ left.open \subseteq answer.open \cup {answer.to}
          /\ shut' = left.shut
          /\ \/ by' \in {"save", "refusal"} /\ left.refused
             \/ answer.open \subseteq left.open
    BY <2>1, <2>2 DEF Brings
  <2>5. Returns'
    BY <1>1, <1>2, <2>1, <2>2, <2>3, <2>4, ReturnStep
  <2> QED
    BY <2>2, <2>5
<1>4. CASE RefusedPage
  <2> DEFINE rendered == FormOf(there, answer.to, answer.open, answer.shut)
             shown == TreeView(there, answer.to, answer.open, {})
  <2>1. /\ answer # None /\ answer.kind = "refusal"
        /\ form' = IF rendered = None THEN None ELSE [form EXCEPT !.link = rendered.link]
        /\ pane' = shown /\ shut' = answer.shut
        /\ undo' = None /\ by' = "refusal" /\ answer' = None
        /\ UNCHANGED <<there, asked, left>>
    BY <1>4 DEF RefusedPage
  <2>2. /\ form \in Form /\ form # None /\ form.id = answer.to /\ asked = None
        /\ answer.open = form.open /\ answer.shut = form.shut
    BY <2>1 DEF Fits, TypeOK
  <2>3. /\ shown.of = there /\ shown.selected = answer.to
        /\ shown.open = (answer.open \cap there) \cup Path(there, answer.to)
    BY DEF TreeView
  <2>4. shown \in Pane /\ shown.open \subseteq there
    BY <1>1, <1>2, <2>1, TreeViewType
  <2>5. /\ rendered \in Form \cup {None}
        /\ rendered # None =>
              /\ answer.to \in there
              /\ rendered.link # None => rendered.link = OpenList(there, shown.open)
    BY <1>1, <1>2, <2>1, FormIs
  <2> HIDE DEF rendered, shown
  <2>6. form' # None =>
          /\ form' \in Form /\ form'.id = form.id /\ form'.shut = form.shut
          /\ form'.open = form.open /\ form'.link = rendered.link
    BY <2>1, <2>2, <2>5 DEF Form
  <2>7. TypeOK'
    BY <1>1, <1>2, <2>1, <2>2, <2>3, <2>4, <2>6 DEF TypeOK
  <2>8. Carries'
    <3>1. Path(there, answer.to) \subseteq shown.open
      BY <2>3
    <3>2. /\ form.open \subseteq Branches(HouseholdID)
          /\ Chain[form.id] \ {form.id} \subseteq form.open
      BY <2>2 DEF Carries
    <3>3. shown.open \subseteq form.open \cup {form.id}
      BY <2>2, <2>3, <3>2 DEF Path
    <3>4. OpenList(there, shown.open) \subseteq form.open \cup {form.id}
      BY <3>3 DEF OpenList
    <3> QED
      BY <2>1, <2>2, <2>3, <2>5, <2>6, <3>1, <3>2, <3>4 DEF Carries
  <2>9. Brings' /\ Fits'
    BY <2>1, <2>2 DEF Brings, Fits
  <2>10. Returns'
    <3>1. ~left.toggled =>
            /\ left.open \subseteq answer.open \cup {answer.to}
            /\ shut' = left.shut
            /\ \/ by' \in {"save", "refusal"} /\ left.refused
               \/ answer.open \subseteq left.open
      BY <2>1 DEF Brings
    <3> QED
      BY <1>1, <1>2, <2>1, <2>3, <3>1, ReturnStep
  <2> QED
    BY <2>7, <2>8, <2>9, <2>10
<1>5. CASE BlockedPage
  <2>1. /\ answer # None /\ answer.kind = "blocked" /\ answer.to \in there
        /\ asked' = DeleteView(there, answer.to, answer.open, answer.shut)
        /\ by' = "blocked" /\ answer' = None
        /\ UNCHANGED <<there, pane, shut, form, undo, left>>
    BY <1>5 DEF BlockedPage
  <2>2. asked # None /\ form = None /\ undo = None
    BY <2>1 DEF Fits, TypeOK
  <2>3. /\ asked' \in Confirmation
        /\ asked'.open = answer.open /\ asked'.shut = answer.shut
    BY <1>1, <1>2, <2>1 DEF DeleteView, Confirmation, Document
  <2>4. TypeOK'
    BY <2>1, <2>2, <2>3 DEF TypeOK
  <2>5. Carries'
    BY <2>1, <2>2 DEF Carries
  <2>6. Brings' /\ Fits' /\ Returns'
    BY <2>1, <2>3 DEF Brings, Fits, Returns, ViewKept, NothingOpensByItself
  <2> QED
    BY <2>4, <2>5, <2>6
<1>6. CASE NotFoundPage
  <2>1. /\ {} \in SUBSET HouseholdID /\ "gone" \in Ways /\ FALSE \in BOOLEAN
        /\ left' = left
        /\ Load("gone", None, {}, FALSE, None)
    BY <1>6 DEF NotFoundPage, Ways
  <2>2. TypeOK' /\ Carries' /\ Brings' /\ Fits' /\ by' = "gone"
    BY <1>1, <2>1, LoadStep
  <2> QED
    BY <2>2 DEF Returns, ViewKept, NothingOpensByItself
<1> QED
  BY <1>3, <1>4, <1>5, <1>6

(***************************************************************************)
(* Other tabs change the document under the page, and retire its Undo.     *)
(***************************************************************************)
LEMMA ElsewhereStep ==
    ASSUME Inv, ChangedElsewhere
    PROVE  Inv'
<1> USE DEF Inv
<1>1. /\ there' \in Document
      /\ undo' = IF undo = None THEN None ELSE [undo EXCEPT !.back = None]
      /\ answer' = IF answer = None THEN None ELSE [answer EXCEPT !.back = None]
      /\ UNCHANGED <<pane, shut, form, asked, by, left>>
  BY DEF ChangedElsewhere
<1>2. /\ undo' \in UndoForm \cup {None}
      /\ undo' # None => undo # None /\ undo'.shut = undo.shut /\ undo'.open = undo.open
      /\ undo = None => undo' = None
  BY <1>1 DEF TypeOK, UndoForm
<1>3. /\ answer' \in Decision \cup {None}
      /\ answer' # None =>
            /\ answer # None /\ answer'.kind = answer.kind /\ answer'.to = answer.to
            /\ answer'.open = answer.open /\ answer'.shut = answer.shut
            /\ answer'.of = answer.of
  BY <1>1 DEF TypeOK, Decision
<1>4. TypeOK'
  BY <1>1, <1>2, <1>3 DEF TypeOK
<1>5. Carries'
  BY <1>1, <1>2 DEF Carries
<1>6. Brings'
  BY <1>1, <1>3 DEF Brings
<1>7. Fits'
  BY <1>1, <1>3 DEF Fits
<1>8. Returns'
  BY <1>1 DEF Returns, ViewKept, NothingOpensByItself
<1> QED
  BY <1>4, <1>5, <1>6, <1>7, <1>8

LEMMA InvStep == Inv /\ [Next]_vars => Inv'
<1>1. Inv /\ Next => Inv'
  BY PageStep, ToggleStep, AskStep, DecisionStep, AnswerStep, ElsewhereStep DEF Next
<1>2. Inv /\ UNCHANGED vars => Inv'
  BY DEF vars, Inv, TypeOK, Carries, Brings, Fits, Returns, ViewKept, NothingOpensByItself
<1> QED
  BY <1>1, <1>2

LEMMA InvAlways == Spec => []Inv
  BY InvInit, InvStep, PTL DEF Spec

-----------------------------------------------------------------------------
(* The theorems. *)

(***************************************************************************)
(* Every page, form, confirmation and decision has its type; in particular *)
(* a form is of the Household its page shows, and nothing is open that was *)
(* not in the document the page was rendered from.                         *)
(***************************************************************************)
THEOREM TypeCorrect == Spec => []TypeOK
<1>1. Inv => TypeOK
  BY DEF Inv
<1> QED
  BY InvAlways, <1>1, PTL

(***************************************************************************)
(* The tree never hides the Household the detail pane shows.               *)
(***************************************************************************)
THEOREM SelectionAlways == Spec => []SelectionShown
<1>1. Inv => SelectionShown
  BY DEF Inv, Carries, SelectionShown, Shown
<1> QED
  BY InvAlways, <1>1, PTL

(***************************************************************************)
(* An Editor who has toggled nothing comes back to what was left, whatever *)
(* other tabs changed on the way.                                          *)
(***************************************************************************)
THEOREM ViewAlwaysKept == Spec => []ViewKept
<1>1. Inv => ViewKept
  BY DEF Inv, Returns
<1> QED
  BY InvAlways, <1>1, PTL

(***************************************************************************)
(* No Branch is expanded on coming back that was not on leaving, nor leads *)
(* to the selection, whatever children other tabs took away and gave back. *)
(***************************************************************************)
THEOREM NothingEverOpens == Spec => []NothingOpensByItself
<1>1. Inv => NothingOpensByItself
  BY DEF Inv, Returns
<1> QED
  BY InvAlways, <1>1, PTL

(***************************************************************************)
(* An answer fits what was decided, whatever other tabs do between the     *)
(* decision and its page, unless they take away what it was about.         *)
(***************************************************************************)
THEOREM AnswersFit == Spec => AnswerFits
<1> DEFINE Fitting ==
      answer # None /\ answer' = None /\ answer.to \notin answer.of \ there =>
          /\ answer.kind \in {"save", "refusal"} => form' # None /\ form'.id = answer.to
          /\ answer.kind = "blocked" =>
                /\ asked' # None /\ asked'.id = answer.to
                /\ Children(answer.of, answer.to) \cap there # {} => asked'.blocked
          /\ answer.kind \in {"delete", "undo"} => pane'.selected \in there \cup {None}
<1>1. ASSUME Inv, Next
      PROVE  Fitting
  <2> SUFFICES ASSUME answer # None, answer' = None, answer.to \notin answer.of \ there
               PROVE  /\ answer.kind \in {"save", "refusal"} => form' # None /\ form'.id = answer.to
                      /\ answer.kind = "blocked" =>
                            /\ asked' # None /\ asked'.id = answer.to
                            /\ Children(answer.of, answer.to) \cap there # {} => asked'.blocked
                      /\ answer.kind \in {"delete", "undo"} => pane'.selected \in there \cup {None}
    OBVIOUS
  <2>1. /\ there \in Document /\ Fits
        /\ answer.to \in HouseholdID \cup {None}
        /\ answer.open \in SUBSET HouseholdID /\ answer.shut \in BOOLEAN
    BY <1>1, DecisionIs DEF Inv, TypeOK
  <2>2. CASE Redirected
    <3>1. /\ form' = FormOf(there, answer.to, answer.open, answer.shut)
          /\ pane' = TreeView(there, answer.to, answer.open, {})
          /\ answer.kind # "blocked" /\ answer.kind # "refusal"
      BY <2>2 DEF Redirected, Load
    <3>2. pane'.selected = answer.to
      BY <3>1 DEF TreeView
    <3>3. answer.to \in there => form' # None /\ form'.id = answer.to
      BY <2>1, <3>1, FormIs
    <3> QED
      BY <2>1, <3>1, <3>2, <3>3 DEF Fits
  <2>3. CASE RefusedPage
    <3> DEFINE rendered == FormOf(there, answer.to, answer.open, answer.shut)
               shown == TreeView(there, answer.to, answer.open, {})
    <3>1. /\ answer.kind = "refusal"
          /\ form' = IF rendered = None THEN None ELSE [form EXCEPT !.link = rendered.link]
      BY <2>3 DEF RefusedPage
    <3>2. form \in Form /\ form.id = answer.to /\ answer.to \in there
      BY <1>1, <2>1, <3>1 DEF Fits, Inv, TypeOK
    <3>3. rendered \in Form \cup {None} /\ rendered # None
      <4>1. /\ rendered = FormOf(there, answer.to, answer.open, answer.shut)
            /\ shown = TreeView(there, answer.to, answer.open, {})
        OBVIOUS
      <4> HIDE DEF rendered, shown
      <4> QED
        BY <2>1, <3>2, <4>1, FormIs
    <3> HIDE DEF rendered
    <3>4. form' \in Form /\ form'.id = answer.to
      BY <3>1, <3>2, <3>3 DEF Form
    <3> QED
      BY <3>1, <3>4, NothingAssumption
  <2>4. CASE BlockedPage
    <3>1. /\ answer.kind = "blocked" /\ answer.to \in there
          /\ asked' = DeleteView(there, answer.to, answer.open, answer.shut)
      BY <2>4 DEF BlockedPage
    <3>2. /\ asked' \in Confirmation /\ asked'.id = answer.to
          /\ asked'.blocked = (Children(there, answer.to) # {})
      <4> DEFINE blocked == Children(there, answer.to) # {}
      <4>1. asked' = [id |-> answer.to, open |-> answer.open, shut |-> answer.shut,
                      blocked |-> blocked]
        BY <3>1 DEF DeleteView
      <4>2. answer.to \in HouseholdID /\ blocked \in BOOLEAN
        BY <2>1, <3>1 DEF Document
      <4> HIDE DEF blocked
      <4>3. asked' \in Confirmation /\ asked'.id = answer.to /\ asked'.blocked = blocked
        BY <2>1, <4>1, <4>2, Zenon DEF Confirmation
      <4> QED
        BY <4>3 DEF blocked
    <3>3. Children(answer.of, answer.to) \cap there \subseteq Children(there, answer.to)
      BY DEF Children
    <3> QED
      BY <3>1, <3>2, <3>3, NothingAssumption
  <2>5. CASE NotFoundPage
    BY <2>1, <2>5 DEF NotFoundPage, Fits
  <2>6. CASE ChangedElsewhere
    <3>1. answer \in Decision /\ answer' = [answer EXCEPT !.back = None]
      BY <1>1, <2>6 DEF ChangedElsewhere, Inv, TypeOK
    <3>2. answer' \in Decision
      BY <3>1 DEF Decision
    <3> QED
      BY <3>2, NothingAssumption
  <2> QED
    BY <1>1, <2>2, <2>3, <2>4, <2>5, <2>6
       DEF Next, AtPanes, Visit, Follow, TogglePane, Toggle, AskDelete, KeepIt, Save,
           Refuse, SaveGone, Delete, DeleteBlocked, DeleteGone, Undo
<1>2. Inv /\ [Next]_vars => [Fitting]_vars
  BY <1>1
<1> QED
  BY InvAlways, <1>2, PTL DEF Spec, AnswerFits

(***************************************************************************)
(* A control expands or collapses its own row and no other, when the page  *)
(* is of the document as it still is: what a link closes is never pinned,  *)
(* and what it leaves out of the open set is no Branch (toggleURL).        *)
(***************************************************************************)
THEOREM TogglesFlipOne == Spec => ToggleFlipsOne
<1> DEFINE Flips ==
      \A id \in HouseholdID :
          Toggle(id) /\ pane.of = there =>
              /\ id \in pane'.open <=> id \notin pane.open
              /\ OpenList(pane.of, pane.open)' \ {id} = OpenList(pane.of, pane.open) \ {id}
<1>1. ASSUME Inv
      PROVE  Flips
  <2> SUFFICES ASSUME NEW id \in HouseholdID, Toggle(id), pane.of = there
               PROVE  /\ id \in pane'.open <=> id \notin pane.open
                      /\ OpenList(pane.of, pane.open)' \ {id} = OpenList(pane.of, pane.open) \ {id}
    OBVIOUS
  <2> DEFINE branches == Branches(there)
             pinned == Path(there, pane.selected)
             url == ToggleURL(pane, id)
             open == url.open
             close == url.close
  <2>1. /\ there \in Document
        /\ pane.selected \in HouseholdID \cup {None}
        /\ pane.open \subseteq there
        /\ pinned \subseteq pane.open
    BY <1>1 DEF Inv, TypeOK, Carries, Pane
  <2>2. branches \subseteq there /\ there \subseteq HouseholdID
    BY <2>1 DEF Branches, Document
  <2>3. id \in branches /\ id \notin pinned
    BY DEF Toggle, Toggles, Pinned
  <2>4. pane' = TreeView(there, pane.selected, open, close) /\ there' = there
    BY DEF Toggle
  <2>5. /\ id \in pane.open => open = pane.open \cap branches /\ close = {id}
        /\ id \notin pane.open => open = (pane.open \cap branches) \cup {id} /\ close = {}
    BY DEF ToggleURL, OpenList
  <2>6. pane'.of = there /\ pane'.open = ((open \cap there) \ close) \cup pinned
    BY <2>4 DEF TreeView
  <2>7. /\ OpenList(pane.of, pane.open)' = pane'.open \cap branches
        /\ OpenList(pane.of, pane.open) = pane.open \cap branches
    BY <2>4, <2>6 DEF OpenList, Branches, Children
  <2> HIDE DEF branches, pinned, url, open, close
  <2>8. id \in pane'.open <=> id \notin pane.open
    BY <2>2, <2>3, <2>5, <2>6
  <2>9. (pane'.open \cap branches) \ {id} = (pane.open \cap branches) \ {id}
    BY <2>1, <2>2, <2>5, <2>6
  <2> QED
    BY <2>7, <2>8, <2>9
<1> QED
  BY <1>1, InvAlways, PTL DEF ToggleFlipsOne
=============================================================================
