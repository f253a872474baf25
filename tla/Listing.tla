------------------------------ MODULE Listing ------------------------------
(***************************************************************************)
(* The Collection listing of one Service, page by page (pgo/caches.go,     *)
(* httpapi/pgo_collections.go) and the command line's walk over it         *)
(* (cmd/profgate/collect.go).  Each page is answered by any replica from   *)
(* its own watched cache, which lags behind the store; between two pages   *)
(* records appear, change state and are swept.  A cursor is a position and *)
(* the filters it was minted under, and no replica remembers it.           *)
(***************************************************************************)
EXTENDS Naturals, Sequences, FiniteSets, Functions

CONSTANTS
    Serving,         \* the replicas
    Records,         \* identifiers, numbers in their lexical order
    CreatedAt,       \* [Records -> Nat]: two may share an instant
    Origin,          \* [Records -> {"api", "schedule"}]
    Filters,         \* the filter sets a client sends: [states, since, origin]
    Limits,          \* the page lengths a client asks for
    MaxStoreWrites   \* bound: writes to the Service's records

ASSUME ListingAssumption ==
    /\ CreatedAt \in [Records -> Nat \ {0}] /\ Records \subseteq Nat \ {0} /\ IsFiniteSet(Records)
    /\ Limits \subseteq Nat \ {0} /\ MaxStoreWrites \in Nat

VARIABLES
    history,  \* the Service's records after each write to the store
    applied,  \* how much of history each replica's cache has applied
    walk      \* one client's walk

listVars == <<history, applied, walk>>

Missing == "missing"
RecordStates == {"pending", "completed"}
Head0  == 0    \* the zero position: the head of the listing
AnyOrigin == "any"   \* the empty origin filter

\* steady is history only: the records that were there, and passed, at every
\* page answered under the filters in use.
NoWalk == [pc |-> "idle", filter |-> [states |-> {}, since |-> 0, origin |-> AnyOrigin],
           cursor |-> Head0, minted |-> [states |-> {}, since |-> 0, origin |-> AnyOrigin],
           requested |-> {}, rows |-> <<>>, steady |-> Records]

ListInit ==
    /\ history \in {<<h>> : h \in [Records -> RecordStates \cup {Missing}]}
    /\ applied = [r \in Serving |-> 1]
    /\ walk = NoWalk

View(r) == history[applied[r]]

-----------------------------------------------------------------------------
(* The store and the watches.                                              *)

StoreWrite(id, s) ==
    LET now == history[Len(history)] IN
    /\ Len(history) <= MaxStoreWrites /\ now[id] # s
    /\ s = "pending" => now[id] = Missing
    /\ now[id] = Missing => s = "pending" /\ \A i \in DOMAIN history : history[i][id] = Missing
    /\ history' = Append(history, [now EXCEPT ![id] = s])
    /\ UNCHANGED <<applied, walk>>

WatchDelivers(r) ==
    /\ applied[r] < Len(history)
    /\ applied' = [applied EXCEPT ![r] = @ + 1]
    /\ UNCHANGED <<history, walk>>

-----------------------------------------------------------------------------
(* Caches.Collections.                                                     *)

\* A filter that is empty keeps every record.
admits(f, id, s) ==
    /\ f.states # {} => s \in f.states
    /\ CreatedAt[id] >= f.since
    /\ f.origin # AnyOrigin => Origin[id] = f.origin

\* Without the identifier.
SortsAfterInstant(a, b) == CreatedAt[a] < CreatedAt[b]

\* compareListing: newest first, the identifier breaking ties.
SortsAfter(a, b) == \/ CreatedAt[a] < CreatedAt[b]
                    \/ CreatedAt[a] = CreatedAt[b] /\ a < b

Listed(r, f) == {id \in Records : View(r)[id] # Missing /\ admits(f, id, View(r)[id])}

\* All that lies behind a position, in the order of the listing.
Page(r, f, after) ==
    LET behind == {id \in Listed(r, f) : after = Head0 \/ SortsAfter(id, after)} IN
    CHOOSE s \in [1 .. Cardinality(behind) -> behind] :
        \A i, j \in DOMAIN s : i < j => s[i] # s[j] /\ ~SortsAfter(s[i], s[j])

-----------------------------------------------------------------------------
(* One client: its filters, page after page.                               *)

Begins(f) ==
    /\ walk.pc = "idle"
    /\ walk' = [NoWalk EXCEPT !.pc = "page", !.filter = f]
    /\ UNCHANGED <<history, applied>>

\* The next request presents the cursor beside other filters.
Refilters(f) ==
    /\ walk.pc = "page" /\ walk.cursor # Head0 /\ walk.filter = walk.minted /\ f # walk.filter
    /\ walk' = [walk EXCEPT !.filter = f, !.steady = Records]
    /\ UNCHANGED <<history, applied>>

\* The filters are not compared.
CursorHonouredAny(w) == TRUE

\* parseCollectionList: a position is a place in one filtered listing.
CursorHonoured(w) == w.cursor # Head0 => w.minted = w.filter

\* serveCollectionList, and what walkCollections does with the answer: a cursor
\* that was requested before ends the walk.
Served(r, limit) ==
    LET all  == Page(r, walk.filter, walk.cursor)
        page == SubSeq(all, 1, IF Len(all) > limit THEN limit ELSE Len(all))
        more == Len(all) > limit
        next == page[Len(page)]
    IN
    /\ walk.pc = "page" /\ CursorHonoured(walk)
    /\ walk' = [walk EXCEPT
                  !.rows = @ \o page,
                  !.steady = @ \cap Listed(r, walk.filter),
                  !.cursor = IF more THEN next ELSE @,
                  !.minted = walk.filter,
                  !.requested = IF more THEN @ \cup {next} ELSE @,
                  !.pc = IF ~more THEN "whole" ELSE IF next \in walk.requested THEN "failed" ELSE "page"]
    /\ UNCHANGED <<history, applied>>

\* malformed_parameter for the cursor; or the replica's job cache has lost its
\* generation.  Nothing of the pages before is shown.
PageRefused ==
    /\ walk.pc = "page" /\ ~CursorHonoured(walk)
    /\ walk' = [NoWalk EXCEPT !.pc = "failed"]
    /\ UNCHANGED <<history, applied>>

Unsynced ==
    /\ walk.pc = "page"
    /\ walk' = [NoWalk EXCEPT !.pc = "failed"]
    /\ UNCHANGED <<history, applied>>

ListNext ==
    \/ \E id \in Records, s \in RecordStates \cup {Missing} : StoreWrite(id, s)
    \/ \E r \in Serving : WatchDelivers(r) \/ \E l \in Limits : Served(r, l)
    \/ \E f \in Filters : Begins(f) \/ Refilters(f)
    \/ PageRefused \/ Unsynced

ListSpec == ListInit /\ [][ListNext]_listVars

-----------------------------------------------------------------------------
\* A walk shows no record twice and none before a newer one, and a walk that
\* ended shows every record that was there, and passed its filters, whenever a
\* page was answered under them.
WalkIsWhole ==
    /\ \A i, j \in DOMAIN walk.rows :
          i < j => /\ walk.rows[i] # walk.rows[j]
                   /\ CreatedAt[walk.rows[i]] >= CreatedAt[walk.rows[j]]
    /\ walk.pc = "whole" => walk.steady \subseteq Range(walk.rows)
=============================================================================
