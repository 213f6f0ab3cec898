# Verification of wherefolk

TLA+ models of the wherefolk service (`src/`), the TLC configurations that
model-check them on small instances, and TLAPS proofs of their most important
theorems. wherefolk serves one family's Directory: a document of Households in
a tree, which one Editor changes through web forms and exports for relatives.

## 1. Inventory

| Part | State | Operations | Hard behaviour |
|---|---|---|---|
| `pkg/rolo`: Households, tree | none; a `Tree` is derived from a document | `BuildTree`, `DeleteBlock`, `IsMemorial`, `Path`, `Walk` | cycles of parents, cycles of Shared Addresses, one Person in two Households |
| `internal/store/trash.go` | the Trash: entries waiting out 30 days | `Delete`, `Restore`, `Chain`, `Purge`, `Reconcile`, `KeptUntil`, `OpenTrash` | entries that need each other, expiry at different times |
| `pkg/rolo`: dates, normalisation, validation | none | `ParseDate`, `Date.String`, `Normalize`, `ValidateHouseholds` | partial dates, numbers in foreign form, what a save rewrites and the next save reads |
| `internal/store/state.go` | `directory.json`, `trash.json`, `settings.json` | `Persist`, `Open` | three files, no rename of two at once; a crash or a failure between two writes |
| `internal/store/atomic.go` | one file and its temporary file | `writeFileAtomic` | power loss, failure at any step |
| `internal/store/id.go` | none | `NewPersonID`, `NewHouseholdID` | collision |
| `internal/live` | the served state, the undo point, a lock | `Update`, `Undo`, `Snapshot`, `New` | readers without a lock, a write that fails, stale tokens, time passing between saves |
| `internal/web`: writes | none; page state rides in the URL | save, delete, restore, undo, title | stale forms, a second Snapshot after the write |
| `internal/web`: the form | none; the page holds what was read and typed | render, parse, refuse, give back | fields posted under one name, a page older than the document, a refusal rendered from a second Snapshot |
| `internal/web`: reads | none | tree, search, household, export pages | an open set in the URL that outlives what it names |
| `internal/render` | none | `Build` for a tier, Markup, Typst, encryption | what each audience may see; circular Shared Addresses |
| `main.go`, `internal/config` | process, configuration | start, serve, shutdown | a save in flight when the shutdown times out |

How they interact. A write handler calls `live.Copy.Update` with a function
from the current Snapshot to the next `store.State`. Under `Copy.mu`, `Update`
runs that function, purges the Trash if it was replaced, builds the tree, calls
`store.Persist` with the state before and after, and only then swaps the result
in (`current.Store`) and records the state before as the one Undo. `Persist`
writes the files whose pointers changed, document or Trash first as the change
requires, each through `writeFileAtomic`. A start (`store.Open`, `live.New`)
loads the document, reconciles and purges the Trash against it, loads the
settings and refuses a document that builds no tree. Readers load the current
pointer and take no lock.

What makes each part correct, and where it is stated:

- tree: an accepted document builds, and no accepted change makes one that does
  not (`SavesBuild`, `ServedAgain`);
- Trash: nothing needed goes before what needs it, the date shown is kept, and the
  walks find what is needed (`NeverUnrestorable`, `EverythingListedCanBeRestored`,
  `KeptUntilHonoured`, `WalksFindWhatIsNeeded`);
- files: no crash or failure loses a Household (`NeverLost`, `DeletedNeverLost`), one file is old
  or new (`NeverTorn`, `FailedSaveChangesNothing`);
- the served Directory: a save is atomic to every reader and every restart,
  Undo is exact and is one step (`ImplementsDirectory`), memory and disk agree
  between saves (`ServedMatchesDisk`), no save is refused as mixed
  (`NoSaveIsMixed`);
- saves: nobody vanishes, nobody moves but by promotion, and the page says what
  happened (`NobodyVanishes`, `OnlyPromotionMoves`, `AnnouncementTrue`);
- forms: what is stored is what was typed, whoever the form does not carry is
  left alone, a refusal gives the typing back explained, a mistake is remarked
  on (`UntouchedSaveKeeps`, `SavedAsTyped`, `OthersKept`, `RefusalExplained`,
  `NamesDistinct`, `MistakesRemarked`);
- pages: the tree shows what the page is about, its controls do what they say,
  what was open comes back and nothing else opens, and an answer fits what was
  decided (`SelectionShown`, `ToggleFlipsOne`, `ViewKept`,
  `NothingOpensByItself`, `AnswerFits`);
- exports: each audience reads what it may, finds every Address it may, and
  nothing withheld (`EachTierAddsToTheLast`, `ReaderFindsAddress`,
  `NothingWithheldPrinted`, `MarkerStandsForSomething`, `ContactsByAge`,
  `CalendarTellsNothingNew`).

`PROJECT.json` lists every component with its status, and under `hazards` each
place where the code could go wrong beyond the reach of a test, with the
properties that would show it.

## 2. Modules

```
Rolo ── Trash ── Store ─┐
  └──── Apply ──────────┴─ Live ── LiveRefinement ── MCLive
          │                 ├── TrashWalks ── MCWalks    (with MCLive)
          │                 └── LiveProofs ── LiveStorageProofs
          │                                   (with LiveRefinement and TrashWalks)
          ├── Editing ── MCEditing
          ├── ApplyProofs           (used by EditingProofs and LiveStorageProofs)
          │     └── EditingProofs
          └── Forms ── MCForms      (with Dates and Contacts)
                └── FormsProofs
Directory (abstract: Apply, Trash)  ← refined by Live in LiveRefinement
AtomicFile ── AtomicFileProofs      (why one file write is one step of Live)
Navigation ── MCNavigation          (one Editor's browser)
  └────────── NavigationProofs
Export ── MCExport                  (one document and its printed pages; Dates)
  └────── ExportProofs
```

**Rolo** (`pkg/rolo/tree.go`, `household.go`). A document is a function from
Household ID to a Household or `None`; `Buildable` is the conjunction of what
`BuildTree` refuses: a Household with no adult, a Person twice, a reference to
nothing, a cycle of parents. `detectCycles` walks upward with a bound; the
model says instead that every set of Households has one whose parent is outside
it. A Person is an ID; being deceased is the one attribute that decides
anything (`IsMemorial`), so a Household carries the set `dead`. A Person of
empty ID, which `index` skips, is left out: the service mints IDs for everyone
it adds, and only a hand-written document has any.

**Trash** (`internal/store/trash.go`). The walks of `Purge`, `Chain` and
`KeptUntil` are recursive closures over `needs` with a visited set; the model
gives the set they visit as the least one closed under `needs`
(`NeedClosure`). `Chain` walks the entries that are not also in the document.
`KeptUntil` is the latest expiry among the entries that need the one asked for.

**TrashWalks** has the walks themselves (`mark`, `visit`, `latest`, and the
upward walk of `detectCycles`) as recursive functions, each with the visited set
or the bound that ends it in the code, and what they should agree with
(`WalksAgree`). Its constants are the files that the agreement is asked of.

**Apply** (`internal/web/apply.go`, `submission.go`). What one submitted form
does to the document: `parseSubmission` drops people who are not in the
Household; `applyToGroup`, `promote` and the additions follow the order of
`applySubmission`, so that `promote` sees Dependents that are also to be
removed. A form with a date that does not parse is refused and changes nothing;
it is a stuttering step.

**Store** (`internal/store/state.go`). States hold pointers, compared by
identity to tell what changed. A pointer is a value with the number of the save
that made it, so that a save that changes nothing (every form posted makes a
new document) still writes and an Undo still restores the old pointer.

**Live** (`internal/live/live.go` with the write handlers and the start). State:

| Variable | In the code |
|---|---|
| `served` | `Copy.current`'s state; `None` while the process is down |
| `undo` | `served.undo`: token and state before the latest save |
| `job` | the write in progress, between taking `Copy.mu` and releasing it |
| `disk` | the three files |
| `clock`, `saves` | time, and how many saves have begun (a bound, and the source of tokens) |

`Save`, `DeleteHousehold`, `RestoreHousehold`, `SetTitle` and `Undo` are the
handlers up to the first write: one action each, because `Copy.mu` is held and
nothing else writes. `WriteFile` is one rename; `WriteFails` is a write that
returns an error; `Commit` is the swap. `Crash` may come between any two of
them. `Start` is `store.Open` and `live.New` in one step: between its one write
(`OpenTrash`) and serving nothing is readable, and a crash there leaves what
`Start` followed by `Crash` leaves. `Tick` is time passing at any moment and
`StepBack` a host clock set back while the service is down.

A refused request, and a title set to what it was, change no state and are
stuttering. What is not in the model cannot disturb it: reads take a pointer
and change nothing.

**Directory** is the abstract specification: `content` (document, Trash,
title) changes as a whole, `undo` holds exactly the content before the latest
change, and entries leave the Trash only by restore, Undo or expiry. It has no
files, no order of writes and no restart. **LiveRefinement** maps Live to it:
the content is what is served while the process is up and what a start would
recover while it is down.

**Editing** runs `Apply` alone, one form after another, with all combinations
of the ticks of one form, and keeps what the page announces.

**AtomicFile** is `writeFileAtomic` against a filesystem in which a rename
reaches the platter later and unflushed contents may be lost. It is why `Live`
may take a file write to be one step that happens or does not.

**Navigation** (`internal/web/view.go`, `tree.go`, `household.go`, `save.go`,
`delete.go`, `undo.go`, the templates). The server keeps nothing of a page, so
the state is the page: the tree pane as it was rendered and of which document
(`pane`), whether it is hidden (`shut`), the form beside it or the page that
asks before a deletion (`form`, `asked`), the Undo beside an announcement
(`undo`), and the document as it is by now (`there`). `Toggle` is htmx replacing
the tree pane alone; every other action loads a whole page. Links are what they
carry: `Follow` nothing, `ToggleURL` the open set and what to close, a save, a
refusal and a deletion the form's open set, an Undo the page it was offered on.

A request that writes is two actions, because its answer is rendered from a
Snapshot taken after the Update has returned: `Save`, `Refuse`, `Delete`,
`DeleteBlocked`, `Undo` and the two for a Household that has gone decide and
leave an `answer`; `Redirected`, `RefusedPage`, `BlockedPage` and
`NotFoundPage` render it. `ChangedElsewhere` is another tab, between the two
and at any other moment. No operation of the service gives a Household another
parent, so a document is the set of Households in it. `by` and `left` are
history: how the Editor came here, and what was expanded, and whether it had
been toggled or was a refusal, when the page before was left.

**Dates** (`pkg/rolo/date.go`). A Date knows its year, month and day as far as
they are not 0. A text is its components between hyphens, each a width and the
number it reads as; `Readable` is what `ParseDate` accepts, `ParseDate` what it
makes of it, `String` what a page shows.

**Contacts** (`pkg/rolo/normalize.go`, `validate.go`). A telephone number is
its digits, what surrounds them (`Dress`), a plus sign and whether it is several
numbers. The number of digits in house style is a constant so that TLC can take
two for ten.

**Forms** (`internal/web/form.go`, `submission.go`, `apply.go`, `save.go`,
`templates/_detail.html`, `rolo`'s `Normalize` and `Validate`). One Household's
form with the values in it. `stored` is the Household as stored, `page` what the
browser shows, row by row, and `typed` what the Editor means by it: the texts
seen when the page loaded, with everything altered since. `Type`, `TypeFact` and
`Tick` alter the page; `PostSaved`, `PostUnreadable`, `PostUnloadable` and
`PostGone` are the Update of one POST; `AnswerSaved` and `AnswerRefused` the page
rendered afterwards; `ChangedElsewhere` another tab's save, addition, removal or
deletion, at any moment. Fields that travel alike are represented by one.
The choice of a Household of one's own is in `Apply` and left out here.

**Export** (`internal/render/build.go`, `tier.go`, `birthdays.go`, `dates.go`,
with `IsMinor`). `Build` is an operator of the same shape as the code's
`Build`. A printed field is the set of facts a reader learns from it (a date's
year, month and day are three facts), so that a Truncated Date prints a subset
of a Whole one; `[private]` is a fact of its own. The recursion of `resolve`
with its `seen` set is a recursive function of the same two arguments. Its
action exports the document for any tier the service offers, on any day.

## 3. What the runs check

| Run | Instance | Shows |
|---|---|---|
| `live_crash` | `MCWalks`: writes succeed, clock may step back | `TypeOK`; `EverythingListedCanBeRestored`: every entry Recently deleted lists comes back and the result builds, now and after a restart at any moment; `ServedMatchesDisk`: no save in progress, served equals stored; `KeptUntilHonoured`: no step takes an entry away before the date shown for it; `WalksFindWhatIsNeeded`: the recursive walks agree with the closures, and `detectCycles` with `Acyclic`, on every Trash and document of three Households, circular ones too |
| `live_failures` | writes may fail, clock may step back | `NeverLost`, `DeletedNeverLost`: every Household in the document served, and every one Recently deleted lists, is on disk; `NeverUnrestorable`: in memory, in the state Undo returns to and after a restart, no Household is in both places and no entry needs what is nowhere; `NoSaveIsMixed`: a title can be set whatever has expired, an offered Undo is never refused; `ServedAgain`: after every crash the service is up again |
| `live_directory` | neither | `ImplementsDirectory` |
| `live_failed_save` | writes may fail | violates `ServedMatchesDisk` (finding 1) |
| `editing` | all forms | `SavesBuild`, `NobodyVanishes`, `OnlyPromotionMoves` |
| `editing_announcement` | all forms | violates `AnnouncementTrue` (finding 2) |
| `atomic_file` | three contents | `NeverTorn`, `FailedSaveChangesNothing` |
| `forms` | a parent and a child, other tabs changing them | `NamesDistinct`: no two fields of a page post under one name; `UntouchedSaveKeeps`: a form posted as it was opened changes nothing but house style; `SavedAsTyped`; `OthersKept`: nobody the form does not carry is changed, moved or brought back; `RefusalExplained`; `MistakesRemarked` |
| `navigation` | four Households, other tabs changing the document between a decision and its page and whenever else | `SelectionShown`, `ToggleFlipsOne`; `ViewKept`: what was expanded comes back after a save, a refusal, a deletion, an Undo; `NothingOpensByItself`: and nothing else does, so a Household that had lost its last child, or was gone, is not open again when another tab puts it or a child back (but for a refused form sent again, which keeps the open set it was posted with, `form.go:146`); `AnswerFits`: the page answered fits what was decided, whatever other tabs save before it is rendered, unless they delete the Household it is about or everything that blocked its deletion |
| `navigation_save` | the same | violates `SaveKeepsExpansion` (finding 3) |
| `export` | 576 one-household documents, 8000 of three that share Addresses | `ReaderFindsAddress`: a block, or the one its back-reference names, prints the Address the Household has, checked against the end of the chain of references; `NothingWithheldPrinted`; `MarkerStandsForSomething`; `EachTierAddsToTheLast`; `CalendarTellsNothingNew`; `ContactsByAge`: who is not eighteen is not reached, as far as the birth date tells |
| `export_unknown_year` | the one-household documents | violates `UnknownYearFailsClosed` (finding 4) |

Every property of a passing run has a mutant in `PROJECT.json`: a plausible bug
in one definition, written beside it as "a variant", that makes TLC find the
property violated.

**Bounds.** Three Households and three people give each shape that matters: a
parent with a child beneath that shares its Address (`Family`), and a chain of
needs of length two through both kinds of need (`Chained`), with a third ID
free for a promotion in the first. `Retention = 2` and `MaxTime = 3` let an
entry expire while a younger one needs it and while the process is down.
`MaxSaves = 4` allows delete, delete, restore, and a save that purges; an Undo
is not counted. Titles are two: unset and set. Forms in `live_*` are a plain
edit and a promotion, the two that differ for the files (the document gains a
Household or does not); `editing` has the rest. In `editing` two Households and
five people, at most two of them ticked in one form, cover every pair of a
removal and a promotion in and across groups, forms that name everybody or are
older than a Dependent, and both blank slots.

`navigation` has three generations and a second root: an ancestor to pin, a
Branch beside and one beneath the selection, and a leaf. `export` has a Person
with every combination of fields, marks and dates, at home with a living or a
dead adult or alone; births on either side of a birthday, known to the day, the
month or the year, or not; and three Households with lines, without, or sharing
with any of the three, withheld or not, Memorial or not: chains of two
references, circles of one to three and chains into a circle. The Households
of the second kind are interchangeable, hence the symmetry set.

`navigation` takes four addresses an Editor may have kept (`Bookmarks`): nothing
open, one Branch, two, and a leaf that never was one. `forms` allows three
alterations (`MaxEdits`) and two saves (`MaxSaves`), another tab's included:
enough for a mistake and a second field in one form, a refusal, the mistake put
right and the save, with another tab in between. The Household holds a Date
known to the month, one on a leap day, a death before the birth, a number with a
country code and one abroad, a capitalised e-mail address; the Editor may type a
day that is not in its month, a year too short, a year alone, a blank line in
the Address. Two digits stand for the ten of house style. The three IDs nobody
has yet are interchangeable (they are only ever minted), hence its symmetry set.

`WalksFindWhatIsNeeded` is evaluated once, before the first start, over all ways
in which three entries may need each other or what is nowhere, one of them
younger than the others: the walks take the same arguments whatever state the
service is in.

**Fairness.** Only `WF_vars(Start)`: `deploy/compose.yaml` restarts the process
(`restart: unless-stopped`). It assumes that the disk lets `OpenTrash` write
once in a while. Nothing assumes that a handler finishes, that an Editor acts or
that time passes. `Navigation`, `Forms` and `Export` promise nothing
of time. `Editing` stops when no form changes anything that is
applicable, so its runs do not check deadlock; all others do.

### Findings

1. *A failed save can leave the disk different from what is served.* The package
   comment of `live.go` (and `save.go:123`) says it cannot. `Persist` returns
   the error of its second file with the first renamed: after a deletion whose
   document could not be written, `trash.json` has an entry that the served
   Trash has not. `NeverLost` and `NeverUnrestorable` still hold (the order of
   writes and the reconciliation of the next start see to it), but
   `EverythingListedCanBeRestored` does not: if the Household had just been
   created by a promotion, and the promotion is then undone, a restart lists the
   entry, and restoring it puts the same Person in two Households and is
   answered with an error. `live_crash` therefore checks it with writes that
   succeed.
2. *A Dependent ticked for both "Give them a household of their own" and "Remove
   from the directory"* is announced as removed and is promoted. Both boxes are
   on the form together.
3. *A save can collapse what the Editor expanded.* `redirectAfterSave` says the
   save "keeps the tree exactly as they left it", but it returns to the open set
   in the form, which is that of the page's load: toggles since then replaced the
   tree pane and not the form. (The labels of the tree carry no open set at all,
   although the comment on `treeView` says they do; see `Follow`.)
4. *A birth of unknown year counts as an adult's.* `ParseDate` accepts
   `0000-03-12`, and `IsMinor` treats only the wholly unknown date as a minor's.
   `ContactsByAge` is therefore stated for births of known year.

Smaller disagreements met while modelling, for which no run of their own is
kept:

- A date that cannot be read, typed for someone *being added*, is refused with
  nothing on the page that says so: `formViewFromSubmission` files errors under
  the ID of a Person (`form.go:221-224`) and a blank slot has none.
  `RefusalExplained` states the exception.
- A refusal gives back the texts but not the ticks for removal and promotion,
  nor what was typed into a slot without a given name (`submission.go:179-184`),
  although `form.go:131-133` says that it is "to give back the submission
  unchanged".
- `NormalizePhone` takes ten digits out of a field whatever words stand beside
  them (and nine digits after `+1`), although `normalize.go:11-16` says that
  normalisation "never destroys input". `SavedAsTyped` compares with what
  `NormalizePhone` does.
- `validate.go:107-109` says that a birth and a death in the same year are not
  backwards; a birth known to the month and a death known to the year alone are,
  since an unknown month counts as 0.
- The page of a refusal offers a slot for another adult when there are two
  already (`form.go:204-206` against `form.go:117-118`).
- A birth known to the year or the month is read at its earliest ("the generous
  reading", `person.go:69-72`), so the telephone number of one born in `2008` is
  printed from 1 January 2026 although they may be seventeen until December; the
  design says "18+ only" (`high-level-design.md:431-432`). `ContactsByAge` says
  how far it goes: one whose birth is known to the day is eighteen, of another it
  is possible, and seventeen they are on any day it may have been.
- The reason on the page of a blocked deletion is read from a second Snapshot
  and may have gone by then (`delete.go:173-174`), and the Household whose form
  is refused may have gone before the refusal is rendered (`save.go:182`), which
  then shows none of the typing. `AnswerFits` says that these two are the only
  ways an answer fails to fit: what is answered must still be there, and so
  must something that blocked.
- Labels, crumbs and the link that hides the tree pane drop the open set.
- Save pressed twice with a filled slot adds the Person twice.

## 4. What is proved

`LiveProofs`, for all sets of Households, people, titles, starting documents and
forms, any retention and any bound on time and saves, with or without failing
writes and a clock set back. The assumptions are the named `ASSUME`s of `Rolo`,
`Trash` and `Live`: `None` is no ID, Household, entry, state, undo point or job;
starting documents build; a form's two blank slots get different IDs.

- `TypeCorrect`: `Spec => []TypeOK`. The lemmas say what each operator of
  `Rolo`, `Trash`, `Apply` and `Store` returns; the step has one case for each
  action.
- `NoHouseholdLost`: `Spec => []NeverLost`. `NeverLost` is not inductive: it
  does not know what the files held when a save began, nor that what an Undo
  returns to is on disk. `Inv` adds that. While idle, each Household served is on
  disk as served (`Holds`); during a save, the files that are already renamed
  hold the next state and the others what they held, and for each Household the
  order of the two renames keeps it in one of them throughout (`KeptBetween`,
  `OneWay`, `Transfer`); a Household is not in both places of one state
  (`Disjoint`); and the same holds between the state served and the one Undo
  returns to (`UndoSound`), which is what makes an exact Undo as safe as a save.
  One lemma for each handler shows that it begins a sound job, one for each of
  the writes and the swap that the job stays so.

`AtomicFileProofs`, for any contents and any number of saves:

- `FileTypeCorrect`; `FileNeverTorn`, by the invariant that what the path
  names, for a reader and on the platter, is whole and flushed, and so is the
  temporary file once its rename is next; `FailedFileUnchanged`, by the
  invariant that the path keeps what it held until the rename.

`LiveStorageProofs` continues `LiveProofs`, under the same assumptions and
faults unless said otherwise. Each theorem has its own inductive invariant,
proved with that of `LiveProofs` at hand:

- `NeverMixed`: what is served, and what Undo returns to, build and differ in a
  way `Persist` accepts (`BuildInv`: `Reversible`), because an Undo goes back
  over exactly one save and a purge rides only on a save that replaces the Trash.
- `ServedIsStored` (writes that succeed): each file holds the value of the state
  before the save or, once written, of the next (`FilesMatch`).
- `DeletedHouseholdsKept`: the counterpart of `NoHouseholdLost` for entries
  (`TrashInv`). Time passes between a save and the Undo of it, so the invariant
  speaks of what `Purge` would keep now and relies on `Purge` keeping less as the
  clock goes on (`PurgeKeepsMore`, `TransferLater`); the clock may be
  set back only while nothing is served.
- `NothingUnrestorable`: `CoherentInv` says of the state served, of the one Undo
  returns to, of the two ends of a save and of the files in each of its stages
  that what an entry needs is in the document or the Trash (`Weak`), and that the
  document written first keeps what the other file's entries stand on (`Stands`).
- `EveryEntryHasItsChain` follows: a closed set of needs without gaps is what
  `Chain` returns.
- `ListedEntriesComeBack` (writes that succeed): the document with the whole
  Trash put back builds, at all times (`WholeInv`). Restoring one chain makes a
  part of that document which keeps what it needs, and such a part of a document
  that builds builds (`PartBuilds`). Deleting moves a
  Household within the whole; a form adds to it only what is new.
- `LiveImplementsDirectory` (writes that succeed, a clock that goes on):
  `Spec => ImplementsDirectory`, with `LiveRefinement`'s assumption that `None`
  is not the values of an undo point or of a job. Each action of a handler is
  `Directory`'s action of the same name, a file renamed and a start are stutters,
  the swap is `Change`. The argument is in the crash. `HalfwayInv` says that of
  the two states of a save, and of the one served and the one Undo returns to,
  the document of one with the Trash of the other, in the order in which
  `Persist` writes them, starts as one of the two: what a reconcile and a purge
  leave of that Trash is entries of that state, with every one it would list
  (`StartsAs`). `FilesOf` then gives the state a start finds at any moment. While
  the process is down time passes, and a purge made later takes no less than one
  made on top of an earlier one (`PurgeTwice`).
- `ShownDateHonoured`: no step takes an entry away before the date shown for it,
  with writes that fail and a clock set back too, which is more than the run
  that checks it. `KeptUntil` is the latest date of the entries that need one;
  there is a latest because dates are bounded (`Dated`, `GreatestNumber`), and a
  purge until then keeps the entry (`KeptUntilThen`). `HonourInv` says that what
  is served, what a save makes of it and what Undo returns to agree on the
  entries they share and list what they hold (`Agrees`, `KeepsListed`).
  `StoredInv` says that an entry that is listed is in the files with its date,
  or its Household in the document, at every stage of a save and after a failed
  one: what a start reads back lists it with no earlier date.
- `WalksAlwaysAgree`, `CyclesDetected` and, of the files of the run,
  `WalksAreExact` (`WalksAssumption`: typed, finite, and parents that exist
  where `detectCycles` runs). These are about no state of `Live`, but carry the
  theorems above to the code: what these say of the least closed set of needs
  holds of what the walks find. `Reach` is what a walk comes to past what it
  keeps. A walk that visits a thing and then what is next to it, or some things
  and then others, comes to the same (`ReachOne`, `ReachBoth`): so the function
  that gives what is reached solves the recursion, whatever the order, and no
  other does, since each call leaves fewer to see (`SmallestSubset`). The dates
  of `KeptUntil` go against the needs, and find the same holders
  (`HoldersAreReached`). A walk upward of more steps than there are Households
  comes to one of them twice.

`ApplyProofs` and `EditingProofs`, for any document that builds and any form:

- `ApplyProofs` has the lemmas on `applySubmission`: what it returns has its
  type, builds, keeps every other Household, and has one more for each Person
  promoted. `LiveStorageProofs` uses them for `Save`.
- `TypeCorrect`, `SavesAlwaysBuild`, `NobodyEverVanishes`,
  `OnlyPromotionEverMoves`. The invariant `Sound` adds to the types that the
  document builds and that no Household has more than two adults.

`NavigationProofs`, for every forest of Households, every set of bookmarks and
every way other tabs change the document:

- `TypeCorrect`, `SelectionAlways`, `ViewAlwaysKept`, `NothingEverOpens`,
  `AnswersFit`, `TogglesFlipOne`. `ViewKept` and `NothingOpensByItself` are not
  inductive, since they speak only of the page after a write. `Inv` adds that a
  page nobody has toggled carries in its form, its deletion link and its Undo
  what its pane shows and no more (`Carries`), that a confirmation and a decision
  still bring what the Editor left and no more (`Brings`), and that a decision
  names a page of the document it was made on (`Fits`). "No more" is not said
  of a refused page's form, which is why the theorem excepts it.

`FormsProofs`, for any people, names, typing and other tabs (`FormsAssumption`:
what is typed and what other tabs store is of the field's type, the first
Household is one a document may hold, nobody arrives without a name, `None` is
none of the values):

- `TypeCorrect`, `SavesAreAsTyped`, `UntouchedSavesKeep`, `NamesAlwaysDistinct`,
  `OthersAlwaysKept`, `RefusalAlwaysExplained`, `MistakesAlwaysRemarked`.
  `FormsInv` says that what is stored has one or two adults who are nobody's
  Dependent, that a page has one row for each key, that what the Editor has
  typed since opening the page is what it shows (`Seen`), and that a refusal
  carries only keys of the page, with an error for each (`HouseOK`, `PageOK`,
  `RefusalOK`). `CertainlyBefore` compares the latest day of one Date with the
  earliest of another, `Before` the Dates part by part; that the first implies
  the second is a lemma.
- `DateSurvives`, `AcceptedDateSurvives`, `HouseStyleStable`: what a page shows
  reads as what is stored, and normalising twice is normalising once. The lines
  of an Address are split by a recursive function, which `SplitKeeps` shows to
  give the lines back: the least length at which it did not would have a shorter
  one (`EveryNumber`).

`ExportProofs`, for any documents the builder accepts, any days and any number
of Households and people (`InputsAssumption`: documents and days are typed, a
document is finite, shares Addresses of Households it has, and no two Households
have a line in common):

- `TypeCorrect`, `ReaderAlwaysFindsAddress`, `NothingWithheldIsPrinted`,
  `MarkersStandForSomething`: they rest on `ResolveIs`, what the recursion of
  `resolve` comes to. The function that gives the lines at the end of the way
  satisfies the recursion, and no other does, by the least number of Households
  not yet seen at which two would differ.
- `TiersAreProgressive`, `ContactsGoByAge`, `CalendarIsOnTheRows`. The
  invariant is that a page is what `Build` makes of the document (`PageIsBuilt`);
  the properties follow from lemmas on the filter: a Truncated Date is part of
  the Whole one (`DatesGrow`), withholding keeps an inclusion (`WithholdGrows`),
  so each field of a row grows with the tier (`RowsGrow`); the day `IsMinor`
  reads a partial birth as is one of those it may be (`EarliestMayBe`); and its comparison of dates part by part agrees with
  counting the birthdays had since (`EighteenBirthdays`, `SeventeenBirthdays`).

Only model-checked: `ServedAgain`, which is liveness and beyond the prover.

## 5. What is not modelled

The zero tier, which no request can name. Previews and the export page's title
form (its save is `SetTitle`). Display: names, Paths, the order of siblings,
wording. The JSON files' format and schema versions. Search and its ranking, the
status page, routing and middleware: reads of one Snapshot, with nothing to
interleave with. Typst, markup and PDF encryption: text in, a file out. Parsing
of the configuration. The shutdown's five seconds: a save that outlives them is
a `Crash`. Uploads larger than the limit.

Collisions of minted IDs: `BuildTree` refuses one with a Household in the
document, but one with an entry in the Trash is seen by nobody and loses the
entry at the next start; an ID is one of a billion. The order in which the two
renames of a save reach the platter: `AtomicFile` shows one file old or new after
a power loss, and which of two is new is the filesystem's choice. The temporary
files a dead process leaves, which nothing reads. Hand edits of the files while
the service is down, beyond the starting documents and the Trashes of
`WalksFindWhatIsNeeded`.

One scenario of the code's own comment (`trash.go:223`: a parent deleted three
weeks before the Household beneath it) cannot arise from deletions alone:
`DeleteBlock` refuses to delete a Household with others beneath it or sharing
its Address. An entry therefore expires after those it needs unless the clock
was set back between the deletions (or a file was edited by hand), which is why
`live_crash` and `live_failures` let the clock step back: the closure in
`Purge`, and `KeptUntil` beyond an entry's own 30 days, matter only there.

## 6. What could come next

1. `PowerLoss`: `AtomicFile` for two files composed with `Live`'s order of
   writes, when the two renames reach the platter in either order.
2. Collisions of IDs in `Live`, with the loss of the entry as its finding.
