----------------------------- MODULE Navigation -----------------------------
(***************************************************************************)
(* One Editor's browser: which Branches of the tree pane are expanded,     *)
(* whether that pane is hidden, and how both travel from page to page in   *)
(* URLs and forms (internal/web/view.go, tree.go, household.go, save.go,   *)
(* delete.go, undo.go; ADR-0008).                                          *)
(*                                                                         *)
(* Nothing is kept on the server.  A page is what a request rendered, from *)
(* the document as it was then: a toggle replaces the tree pane alone      *)
(* (hx-target="#tree"), everything else loads the whole page.  A request   *)
(* that changes the document takes two steps, as in the code: the Update   *)
(* that decides, and a page rendered from a Snapshot taken after it.       *)
(* Other tabs change the document in between, and whenever else.           *)
(*                                                                         *)
(* No operation moves a Household beneath another, so a document is the    *)
(* set of Households that are there; what blocks a deletion is here what   *)
(* is beneath a Household.                                                 *)
(***************************************************************************)
EXTENDS Naturals, FiniteSets

CONSTANTS
    HouseholdID,
    Parent,     \* the parent of each Household, None for a root
    Bookmarks,  \* the sets that an address may ask to be open
    None        \* no Household, nothing there

ASSUME ParentAssumption ==
    /\ None \notin HouseholdID
    /\ Parent \in [HouseholdID -> HouseholdID \cup {None}]
    /\ Bookmarks \subseteq SUBSET HouseholdID

VARIABLES
    there,      \* the document: the Households that are in it
    pane,       \* the tree pane as rendered, or as it was left
    shut,       \* whether it is hidden (?pane=closed)
    form,       \* the detail pane's form
    undo,       \* the Undo beside an announcement
    asked,      \* the page that asks before a deletion, in place of the panes
    answer,     \* what a request has decided and not yet answered
    by,         \* how the Editor came to what the page shows
    left        \* the panes as the Editor left them

vars == <<there, pane, shut, form, undo, asked, answer, by, left>>

\* What the builder accepts: a Household's parent is there.
Document == {ids \in SUBSET HouseholdID : \A id \in ids : Parent[id] \in ids \cup {None}}

Children(ids, id) == {child \in ids : Parent[child] = id}

Branches(ids) == {id \in ids : Children(ids, id) # {}}

\* A Household and its ancestors: the least set that has it and every parent.
Chain ==
    [id \in HouseholdID |->
        {a \in HouseholdID :
            \A ids \in Document : id \in ids => a \in ids}]

\* selectionChain: a Household and its ancestors; nothing for no selection, or
\* one that is not in the document.
Path(ids, id) == IF id \in ids THEN Chain[id] ELSE {}

-----------------------------------------------------------------------------
(* The tree pane. *)

Pane == [of : Document, selected : HouseholdID \cup {None}, open : SUBSET HouseholdID]

\* A variant that does not open what leads to the selection.
TreeViewAsAsked(ids, selected, open, closing) ==
    [of |-> ids, selected |-> selected, open |-> (open \cap ids) \ closing]

\* A variant that believes every ID a stale link asks for.
TreeViewUnchecked(ids, selected, open, closing) ==
    [of |-> ids, selected |-> selected, open |-> (open \ closing) \cup Path(ids, selected)]

\* treeView: what a link asks for, less what it closes, and the selection's chain.
TreeView(ids, selected, open, closing) ==
    [of |-> ids, selected |-> selected,
     open |-> ((open \cap ids) \ closing) \cup Path(ids, selected)]

\* A variant that carries the selection though it has no Households beneath it.
OpenListWithLeaves(ids, open) == open

\* joinIDsOrdered: the open set as links carry it.
OpenList(ids, open) == open \cap Branches(ids)

\* treeNodes: a row is rendered when everything above it is open.
Shown(p) == {id \in p.of : Path(p.of, id) \ {id} \subseteq p.open}

Pinned(p) == Path(p.of, p.selected)

\* The Branches on which the pane, as rendered, says "expanded".
Expanded(p) == p.open \cap Branches(p.of)

\* The rows that have a control to expand or collapse them.
Toggles(p) == (Shown(p) \cap Branches(p.of)) \ Pinned(p)

\* A variant whose links carry only the rows on screen.
ToggleURLOfShown(p, id) ==
    LET open == OpenList(p.of, p.open) \cap Shown(p) IN
    IF id \in p.open THEN [open |-> open, close |-> {id}]
    ELSE [open |-> open \cup {id}, close |-> {}]

\* toggleURL: closing is "everything open, minus this one".
ToggleURL(p, id) ==
    IF id \in p.open THEN [open |-> OpenList(p.of, p.open), close |-> {id}]
    ELSE [open |-> OpenList(p.of, p.open) \cup {id}, close |-> {}]

-----------------------------------------------------------------------------
(* The forms of a page. *)

\* The form of a Household, and the link to its deletion, None when blocked.
Form ==
    [id : HouseholdID, open : SUBSET HouseholdID, shut : BOOLEAN,
     link : (SUBSET HouseholdID) \cup {None}]

\* openSet, and the hidden inputs of the form that posts it back.
FormOf(ids, id, open, hidden) ==
    LET carried == OpenList(ids, (open \cap ids) \cup Path(ids, id)) IN
    IF id \notin ids THEN None
    ELSE [id |-> id, open |-> carried, shut |-> hidden,
          link |-> IF Children(ids, id) = {} THEN carried ELSE None]

\* The Undo of an announcement: where it leads, and the document it brings back,
\* None once a later save has retired its token.
UndoForm ==
    [at : HouseholdID \cup {None}, open : SUBSET HouseholdID, shut : BOOLEAN,
     back : Document \cup {None}]

\* A variant that returns to a tree with nothing expanded.
AnnouncedAlone(ids, id, open, hidden, back) ==
    IF back = None THEN None
    ELSE [at |-> id, open |-> {}, shut |-> hidden, back |-> back]

\* announcementFor: no Undo where there would be nothing to undo.
Announced(ids, id, open, hidden, back) ==
    IF back = None THEN None
    ELSE [at |-> id, open |-> OpenList(ids, TreeView(ids, id, open, {}).open),
          shut |-> hidden, back |-> back]

Confirmation ==
    [id : HouseholdID, open : SUBSET HouseholdID, shut : BOOLEAN, blocked : BOOLEAN]

\* deleteView: what it asks, or why it does not.
DeleteView(ids, id, open, hidden) ==
    [id |-> id, open |-> open, shut |-> hidden, blocked |-> Children(ids, id) # {}]

\* A decision: the page it leads to, what an Undo of it brings back, and the
\* document it was made on.
Decision ==
    [kind : {"save", "refusal", "delete", "blocked", "undo", "gone"},
     to : HouseholdID \cup {None}, open : SUBSET HouseholdID, shut : BOOLEAN,
     back : Document \cup {None}, of : Document]

\* "Nothing there" is none of the things that may be there.
ASSUME NothingAssumption ==
    None \notin Form \cup UndoForm \cup Confirmation \cup Decision

-----------------------------------------------------------------------------

TypeOK ==
    /\ there \in Document
    /\ pane \in Pane
    /\ pane.open \subseteq pane.of
    /\ shut \in BOOLEAN
    /\ form \in Form \cup {None}
    /\ form # None => form.id = pane.selected
    /\ undo \in UndoForm \cup {None}
    /\ asked \in Confirmation \cup {None}
    /\ asked # None => form = None /\ undo = None
    /\ answer \in Decision \cup {None}
    /\ by \in {"address", "link", "toggle", "pane", "ask", "keep", "save", "refusal",
              "delete", "blocked", "undo", "gone"}
    /\ left \in [open : SUBSET HouseholdID, shut : BOOLEAN, toggled : BOOLEAN, refused : BOOLEAN]

\* The Editor's first visit.
Init ==
    /\ there \in Document
    /\ pane = TreeView(there, None, {}, {})
    /\ shut = FALSE
    /\ form = None /\ undo = None /\ asked = None /\ answer = None
    /\ by = "address"
    /\ left = [open |-> {}, shut |-> FALSE, toggled |-> FALSE, refused |-> FALSE]

\* directoryView: the whole page, of the document as it is by then.
Load(how, id, open, hidden, back) ==
    /\ pane' = TreeView(there, id, open, {})
    /\ shut' = hidden
    /\ form' = FormOf(there, id, open, hidden)
    /\ undo' = Announced(there, id, open, hidden, back)
    /\ asked' = None
    /\ by' = how
    /\ answer' = None
    /\ UNCHANGED there

\* The two panes are on screen, and no request is under way.
AtPanes == asked = None /\ answer = None

Leave ==
    left' = [open |-> Expanded(pane), shut |-> shut,
             toggled |-> by = "toggle", refused |-> by = "refusal"]

\* A bookmark, a search result or the browser's history.
Visit(id, open, hidden) ==
    /\ answer = None
    /\ Load("address", id, open, hidden, None)
    /\ UNCHANGED left

\* The labels of rows and the crumbs link to /h/{id}, and to nothing more.
Follow(id) ==
    /\ AtPanes
    /\ id \in (IF shut THEN {} ELSE Shown(pane)) \cup (IF form = None THEN {} ELSE Pinned(pane))
    /\ Load("link", id, {}, FALSE, None)
    /\ UNCHANGED left

\* paneToggleURL keeps the selection, and nothing of what is open.
TogglePane ==
    /\ AtPanes
    /\ Load("pane", pane.selected, {}, ~shut, None)
    /\ UNCHANGED left

\* htmx fetches /tree and swaps the tree pane; the rest of the page stays.
Toggle(id) ==
    /\ AtPanes /\ ~shut
    /\ id \in Toggles(pane)
    /\ LET url == ToggleURL(pane, id) IN
       pane' = TreeView(there, pane.selected, url.open, url.close)
    /\ by' = "toggle"
    /\ UNCHANGED <<there, shut, form, undo, asked, answer, left>>

\* handleDeleteConfirm, at the link beside the form.
AskDelete ==
    /\ AtPanes /\ form # None /\ form.link # None
    /\ Leave
    /\ IF form.id \notin there THEN Load("gone", None, {}, FALSE, None)
       ELSE /\ asked' = DeleteView(there, form.id, form.link, form.shut)
            /\ form' = None /\ undo' = None
            /\ by' = "ask"
            /\ UNCHANGED <<there, pane, shut, answer>>

\* "Keep it", or the way back from a page that only says why not.
KeepIt ==
    /\ asked # None /\ answer = None
    /\ Load("keep", asked.id, asked.open, asked.shut, None)
    /\ UNCHANGED left

-----------------------------------------------------------------------------
(* The requests that change the document: the Update of each. *)

Decide(kind, to, posted, back) ==
    /\ answer' = [kind |-> kind, to |-> to, open |-> posted.open, shut |-> posted.shut,
                  back |-> back, of |-> there']
    /\ UNCHANGED <<pane, shut, form, undo, asked, by>>

\* handleSave; the save may have put promoted Households beneath this one.
Save ==
    /\ AtPanes /\ form # None /\ form.id \in there
    /\ \E new \in SUBSET Children(HouseholdID \ there, form.id) : there' = there \cup new
    /\ Decide("save", form.id, form, there)
    /\ Leave

Refuse ==
    /\ AtPanes /\ form # None /\ form.id \in there
    /\ UNCHANGED there
    /\ Decide("refusal", form.id, form, None)
    /\ Leave

SaveGone ==
    /\ AtPanes /\ form # None /\ form.id \notin there
    /\ UNCHANGED there
    /\ Decide("gone", None, form, None)
    /\ Leave

\* deleteHousehold: it lands on the parent, or the root of the page.
Delete ==
    /\ asked # None /\ answer = None /\ ~asked.blocked
    /\ asked.id \in there /\ Children(there, asked.id) = {}
    /\ there' = there \ {asked.id}
    /\ Decide("delete", Parent[asked.id], asked, there)
    /\ UNCHANGED left

DeleteBlocked ==
    /\ asked # None /\ answer = None /\ ~asked.blocked
    /\ asked.id \in there /\ Children(there, asked.id) # {}
    /\ UNCHANGED <<there, left>>
    /\ Decide("blocked", asked.id, asked, None)

DeleteGone ==
    /\ asked # None /\ answer = None /\ ~asked.blocked
    /\ asked.id \notin there
    /\ UNCHANGED <<there, left>>
    /\ Decide("gone", None, asked, None)

\* A variant that returns wherever the Editor was.
LandingAnywhere(ids, at) == at

\* "Undoing a restore or a promotion can remove the very Household the Editor was
\* looking at."
Landing(ids, at) == IF at \in ids THEN at ELSE None

\* handleUndo: the latest save reversed, or only a sentence that it cannot be.
Undo ==
    /\ AtPanes /\ undo # None
    /\ there' = IF undo.back = None THEN there ELSE undo.back
    /\ Decide("undo", Landing(there', undo.at), undo, None)
    /\ Leave

-----------------------------------------------------------------------------
(* Their answers, each from a Snapshot of its own. *)

\* The redirect: a page of the document as it is when the browser asks for it.
Redirected ==
    /\ answer # None /\ answer.kind \in {"save", "delete", "undo"}
    /\ Load(answer.kind, answer.to, answer.open, answer.shut, answer.back)
    /\ UNCHANGED left

\* refuse: the page again, with the form as it was submitted, if there is one.
RefusedPage ==
    /\ answer # None /\ answer.kind = "refusal"
    /\ LET rendered == FormOf(there, answer.to, answer.open, answer.shut) IN
       form' = IF rendered = None THEN None ELSE [form EXCEPT !.link = rendered.link]
    /\ pane' = TreeView(there, answer.to, answer.open, {})
    /\ shut' = answer.shut
    /\ undo' = None
    /\ by' = "refusal"
    /\ answer' = None
    /\ UNCHANGED <<there, asked, left>>

\* A blocked deletion is explained on the page that asked.
BlockedPage ==
    /\ answer # None /\ answer.kind = "blocked"
    /\ answer.to \in there
    /\ asked' = DeleteView(there, answer.to, answer.open, answer.shut)
    /\ by' = "blocked"
    /\ answer' = None
    /\ UNCHANGED <<there, pane, shut, form, undo, left>>

\* renderNotFound.
NotFoundPage ==
    /\ answer # None
    /\ \/ answer.kind = "gone"
       \/ answer.kind = "blocked" /\ answer.to \notin there
    /\ Load("gone", None, {}, FALSE, None)
    /\ UNCHANGED left

\* Other tabs promote, restore, delete and undo, one Household at a time, and
\* retire the Undo of what was saved before.
ChangedElsewhere ==
    /\ there' \in Document \ {there}
    /\ Cardinality(there' \ there) + Cardinality(there \ there') = 1
    /\ undo' = IF undo = None THEN None ELSE [undo EXCEPT !.back = None]
    /\ answer' = IF answer = None THEN None ELSE [answer EXCEPT !.back = None]
    /\ UNCHANGED <<pane, shut, form, asked, by, left>>

Next ==
    \/ \E id \in HouseholdID \cup {None}, open \in Bookmarks, hidden \in BOOLEAN :
          Visit(id, open, hidden)
    \/ \E id \in HouseholdID : Follow(id)
    \/ \E id \in HouseholdID : Toggle(id)
    \/ TogglePane
    \/ AskDelete
    \/ KeepIt
    \/ Save
    \/ Refuse
    \/ SaveGone
    \/ Delete
    \/ DeleteBlocked
    \/ DeleteGone
    \/ Undo
    \/ Redirected
    \/ RefusedPage
    \/ BlockedPage
    \/ NotFoundPage
    \/ ChangedElsewhere

Spec == Init /\ [][Next]_vars

-----------------------------------------------------------------------------

(***************************************************************************)
(* "The tree can never hide the Household the detail pane is showing"      *)
(* (view.go, treeNodes): whatever the URL asked to close, or a stale page  *)
(* still offers to, every row above the selection is open.                 *)
(***************************************************************************)
SelectionShown == pane.selected \in pane.of => pane.selected \in Shown(pane)

(***************************************************************************)
(* A control does what it says and nothing else: when the document has not *)
(* changed since the page was rendered, following it expands or collapses  *)
(* its row and leaves every other Branch, on screen or not, as it was      *)
(* (toggleURL; ADR-0008: the back button retraces expansions exactly).     *)
(***************************************************************************)
ToggleFlipsOne ==
    [][\A id \in HouseholdID :
          Toggle(id) /\ pane.of = there =>
              /\ id \in pane'.open <=> id \notin pane.open
              /\ OpenList(pane.of, pane.open)' \ {id} = OpenList(pane.of, pane.open) \ {id}]_vars

(***************************************************************************)
(* An Editor who has toggled nothing since the page was loaded comes back  *)
(* to what was left: after a save, a refusal, a deletion kept or gone      *)
(* through with, or an Undo, every Branch that was expanded is, and a      *)
(* hidden tree pane stays hidden, whatever other tabs changed meanwhile    *)
(* (directoryView: "returns the Editor to the same expansion").            *)
(***************************************************************************)
ViewKept ==
    by \in {"save", "refusal", "keep", "delete", "undo"} /\ ~left.toggled =>
        /\ left.open \cap Branches(pane.of) \subseteq pane.open
        /\ shut = left.shut

(***************************************************************************)
(* Nothing opens by itself: an Editor who has toggled nothing since the    *)
(* page was loaded comes back to no Branch expanded but those that were,   *)
(* and those that lead to the selection.  A Household that has lost its    *)
(* last child, or was asked to be open and has none, is not carried from   *)
(* the page that showed it so, and stays closed though another tab puts a  *)
(* child beneath it on the way (joinIDsOrdered: of a leaf "nothing could   *)
(* ever remove it again").  Not said of what a refused page posts: its     *)
(* form keeps the open set it was posted with, of an earlier document.     *)
(***************************************************************************)
NothingOpensByItself ==
    /\ by \in {"keep", "delete", "undo"} /\ ~left.toggled =>
          Expanded(pane) \subseteq left.open \cup Pinned(pane)
    /\ by \in {"save", "refusal"} /\ ~left.toggled /\ ~left.refused =>
          Expanded(pane) \subseteq left.open \cup Pinned(pane)

(***************************************************************************)
(* An answer rendered from a second Snapshot fits what was decided on the  *)
(* first, whatever other tabs save between the two: a save or a refusal    *)
(* shows the form it came from, a blocked deletion says why, a deletion or *)
(* an Undo does not land on "a dead link" (refuse, handleDelete,           *)
(* handleUndo).  It fails to only where another tab has in between deleted *)
(* the Household it is about, or everything that blocked the deletion.     *)
(***************************************************************************)
AnswerFits ==
    [][answer # None /\ answer' = None /\ answer.to \notin answer.of \ there =>
          /\ answer.kind \in {"save", "refusal"} => form' # None /\ form'.id = answer.to
          /\ answer.kind = "blocked" =>
                /\ asked' # None /\ asked'.id = answer.to
                /\ Children(answer.of, answer.to) \cap there # {} => asked'.blocked
          /\ answer.kind \in {"delete", "undo"} => pane'.selected \in there \cup {None}]_vars

(***************************************************************************)
(* "It keeps the tree exactly as they left it" (redirectAfterSave): a      *)
(* Branch that was expanded when the Editor saved is expanded after.  Does *)
(* not hold: a toggle refreshes the tree pane, not the form beside it.     *)
(***************************************************************************)
SaveKeepsExpansion ==
    by = "save" => left.open \cap Branches(pane.of) \subseteq pane.open
=============================================================================
