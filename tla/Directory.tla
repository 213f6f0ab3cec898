------------------------------ MODULE Directory ------------------------------
(***************************************************************************)
(* What the service promises about the Directory, with no files, no order  *)
(* of writes and no restart in sight: one content that changes as a whole, *)
(* one step of Undo, and a Trash from which nothing goes but by its time.  *)
(*                                                                         *)
(* Live implements it when no write fails and the clock is not set back    *)
(* (MCDirectory).                                                          *)
(***************************************************************************)
EXTENDS Apply, Trash

CONSTANTS Documents, Title, Untitled, Submissions

VARIABLES
    clock,      \* the time
    content,    \* the document, the Trash and the title
    undo,       \* the token of the latest change and the content before it
    pending,    \* a change that has been asked for: its content and its undo
    tokens      \* how many tokens have been issued

vars == <<clock, content, undo, pending, tokens>>

Init ==
    /\ clock = 0
    /\ content \in [document : Documents, trash : {EmptyTrash}, settings : {Untitled}]
    /\ undo = None
    /\ pending = None
    /\ tokens = 0

\* Expired entries that no unexpired one needs may go, or stay for now.
Faded(c, now) ==
    {[c EXCEPT !.trash = Only(c.trash, ids)] :
        ids \in {ids \in SUBSET IDs(c.trash) : IDs(Purge(c.trash, now)) \subseteq ids}}

Ask(next, token) ==
    /\ pending = None
    /\ Buildable(next.document)
    /\ pending' = [next |-> next, undo |-> [token |-> token, before |-> content]]
    /\ tokens' = token
    /\ UNCHANGED <<clock, content, undo>>

InUse == IDs(content.document) \cup IDs(content.trash)

AskSave(id, form) ==
    LET sub == ParseSubmission(content.document[id], form) IN
    /\ id \in IDs(content.document)
    /\ Applicable(content.document, id, sub)
    /\ NewPeople(sub) \cap PeopleOf(content.document) = {}
    /\ \E mint \in MintedFor(content.document[id], sub, HouseholdID \ InUse) :
          Ask([content EXCEPT !.document = ApplySubmission(@, id, sub, mint)], tokens + 1)

AskDelete(id) ==
    /\ Deletable(content.document, id)
    /\ LET deleted == Delete(content.trash, content.document, id, clock) IN
       Ask([content EXCEPT !.document = deleted.document,
                           !.trash = Purge(deleted.trash, clock)], tokens + 1)

AskRestore(id) ==
    /\ Restorable(content.trash, content.document, id)
    /\ LET restored == Restore(content.trash, content.document, id) IN
       Ask([content EXCEPT !.document = restored.document,
                           !.trash = Purge(restored.trash, clock)], tokens + 1)

AskTitle(title) ==
    /\ title # content.settings
    /\ Ask([content EXCEPT !.settings = title], tokens + 1)

\* Undo is exact: the content before the latest change, whatever has expired.
AskUndo ==
    /\ pending = None
    /\ undo # None
    /\ pending' = [next |-> undo.before, undo |-> None]
    /\ UNCHANGED <<clock, content, undo, tokens>>

\* The change asked for is made, whole.
Change ==
    /\ pending # None
    /\ content' = pending.next
    /\ undo' = pending.undo
    /\ pending' = None
    /\ UNCHANGED <<clock, tokens>>

\* An interruption leaves the content as it was, or as it was to be, and nothing
\* to undo.
Interrupt ==
    /\ \/ content' \in Faded(content, clock)
       \/ pending # None /\ content' \in Faded(pending.next, clock)
    /\ undo' = None
    /\ pending' = None
    /\ UNCHANGED <<clock, tokens>>

Tick ==
    /\ clock' = clock + 1
    /\ content' \in Faded(content, clock')
    /\ UNCHANGED <<undo, pending, tokens>>

Next ==
    \/ \E id \in HouseholdID, form \in Submissions : AskSave(id, form)
    \/ \E id \in HouseholdID : AskDelete(id)
    \/ \E id \in HouseholdID : AskRestore(id)
    \/ \E title \in Title : AskTitle(title)
    \/ AskUndo
    \/ Change
    \/ Interrupt
    \/ Tick

Spec == Init /\ [][Next]_vars
=============================================================================
