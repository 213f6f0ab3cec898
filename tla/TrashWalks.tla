----------------------------- MODULE TrashWalks -----------------------------
(***************************************************************************)
(* The walks over what entries need as the code makes them                 *)
(* (internal/store/trash.go), and the walk upward that refuses a cycle of  *)
(* parents (pkg/rolo/tree.go): recursive, each with the visited set or the *)
(* bound that ends it, against the closures Trash and Rolo give in their   *)
(* stead.                                                                  *)
(*                                                                         *)
(* The code's closures share one visited set per call, so a walk is handed *)
(* that set and hands it back; a loop over the entries takes them in any   *)
(* order.                                                                  *)
(***************************************************************************)
EXTENDS Live

CONSTANTS
    Repaired,       \* Trashes whose file an Operator has edited by hand
    Present,        \* documents they are found beside
    Parented        \* documents that may have circles of parents

ASSUME WalksAssumption ==
    /\ \A t \in Repaired : t \in TrashOf /\ IsFiniteSet(IDs(t))
    /\ Present \subseteq Document
    /\ \A doc \in Parented :
          doc \in Document /\ IsFiniteSet(IDs(doc)) /\ ReferencesExist(doc)

-----------------------------------------------------------------------------
(* Purge. *)

\* A variant that follows parents only.
MarkParents(t) ==
    LET mark[walk \in (SUBSET IDs(t)) \X (HouseholdID \cup {None})] ==
            LET keep == walk[1]
                id == walk[2]
            IN IF id \in keep \/ id \notin IDs(t) THEN keep
               ELSE mark[<<keep \cup {id}, t[id].household.parent>>]
    IN mark

\* mark: id is to be kept, and what it needs; the empty ID is nothing's to keep.
Mark(t) ==
    LET mark[walk \in (SUBSET IDs(t)) \X (HouseholdID \cup {None})] ==
            LET keep == walk[1]
                id == walk[2]
            IN IF id \in keep \/ id \notin IDs(t) THEN keep
               ELSE mark[<<mark[<<keep \cup {id}, t[id].household.parent>>],
                           t[id].household.sharedWith>>]
    IN mark

\* The entries before are marked already.
PurgeWalk(t, now) ==
    LET marked[entries \in SUBSET IDs(t)] ==
            IF entries = {} THEN {}
            ELSE LET id == CHOOSE id \in entries : TRUE
                     keep == marked[entries \ {id}]
                 IN IF now < Expires(t[id]) THEN Mark(t)[<<keep, id>>] ELSE keep
    IN Only(t, marked[IDs(t)])

-----------------------------------------------------------------------------
(* Chain. *)

\* An error: no set of IDs.
Unrestorable == {None}

\* visit: what is seen is the chain so far, and an error ends the walk.
Visit(t, doc) ==
    LET visit[walk \in (SUBSET IDs(t)) \X (HouseholdID \cup {None})] ==
            LET seen == walk[1]
                id == walk[2]
            IN IF id = None \/ id \in IDs(doc) \/ id \in seen THEN seen
               ELSE IF id \notin IDs(t) THEN Unrestorable
               ELSE LET first == visit[<<seen \cup {id}, t[id].household.parent>>] IN
                    IF first = Unrestorable THEN Unrestorable
                    ELSE visit[<<first, t[id].household.sharedWith>>]
    IN visit

ChainWalk(t, doc, id) ==
    IF id \notin IDs(t) \/ id \in IDs(doc) THEN Unrestorable ELSE Visit(t, doc)[<<{}, id>>]

-----------------------------------------------------------------------------
(* KeptUntil. *)

Later(date, other) == IF date < other THEN other ELSE date

\* latest, called for each of some entries in turn: the zero time for those seen
\* before.  The loop of a call is over the entries that need its own.
Latest(t) ==
    LET latest[walk \in (SUBSET IDs(t)) \X (SUBSET IDs(t))] ==
            LET seen == walk[1]
                entries == walk[2]
                id == CHOOSE id \in entries : TRUE
                others == {other \in IDs(t) : id \in NeedsOf(t, other)}
                above == latest[<<seen \cup {id}, others>>]
                here == IF id \in seen THEN [seen |-> seen, best |-> 0]
                        ELSE [above EXCEPT !.best = Later(Expires(t[id]), @)]
                rest == latest[<<here.seen, entries \ {id}>>]
            IN IF entries = {} THEN [seen |-> seen, best |-> 0]
               ELSE [rest EXCEPT !.best = Later(here.best, @)]
    IN latest

KeptUntilWalk(t, id) == Latest(t)[<<{}, {id}>>].best

-----------------------------------------------------------------------------
(* detectCycles. *)

\* The walk from current goes on past as many steps as there are Households.
WalksOn(doc) ==
    LET n == Cardinality(IDs(doc))
        walksOn[walk \in IDs(doc) \X (0 .. n + 1)] ==
            LET current == walk[1]
                steps == walk[2]
            IN /\ doc[current].parent # None
               /\ steps > n \/ walksOn[<<doc[current].parent, steps + 1>>]
    IN walksOn

DetectsCycle(doc) == \E id \in IDs(doc) : WalksOn(doc)[<<id, 0>>]

-----------------------------------------------------------------------------
(* The walks and the closures agree. *)

WalksAgree(t, doc, now) ==
    /\ PurgeWalk(t, now) = Purge(t, now)
    /\ \A id \in HouseholdID :
          ChainWalk(t, doc, id) = IF Restorable(t, doc, id) THEN Chain(t, doc, id) ELSE Unrestorable
    /\ \A id \in IDs(t) : KeptUntilWalk(t, id) = KeptUntil(t, id)

(***************************************************************************)
(* The recursive walks of Purge, Chain and KeptUntil find exactly what is  *)
(* needed, whatever entry they come to first and whatever an Operator made *)
(* of the file by hand, and detectCycles refuses exactly the circles of    *)
(* parents.  At the first start, and at the time when an entry of one tick *)
(* is unexpired and an older one is not.                                   *)
(***************************************************************************)
WalksFindWhatIsNeeded ==
    clock = 0 /\ saves = 0 /\ served = None =>
        /\ \A t \in Repaired, doc \in Present : WalksAgree(t, doc, Retention)
        /\ \A doc \in Parented : DetectsCycle(doc) <=> ~ Acyclic(doc)
=============================================================================
