------------------------------ MODULE HistoryView -----------------------------
(***************************************************************************)
(* The explorer's history lists: a node that stores rows and announces     *)
(* them on its event stream (commit_finalized, api.rs events), the paged   *)
(* queries (api.rs blocks and transactions), and the browser's             *)
(* usePaginatedResource, which keeps one growing list out of a first page  *)
(* that is fetched again on every event and of older pages loaded on       *)
(* demand.  Requests take time and may fail, the stream drops events to a  *)
(* slow reader and may be reconnected, and the list may be reset while     *)
(* requests are under way.  A row is the number of rows up to it, so       *)
(* rows 1, 2, ... are the block heights, or the height:index positions of  *)
(* transactions in order; 0 is a missing cursor.                           *)
(***************************************************************************)
EXTENDS Integers, Sequences, SequencesExt, FiniteSetsExt

CONSTANTS
    PageLimit,      \* rows of a page (25)
    Capacity,       \* events the stream keeps for a reader (1024)
    MaxBatch,       \* bound: rows a finalized block adds
    MaxRows,        \* bound: rows in a behaviour
    MaxUpsets       \* bound: resets, failed requests, reconnections, admissions

ASSUME HistoryAssumption ==
    /\ PageLimit \in Nat \ {0} /\ Capacity \in Nat \ {0}
    /\ MaxBatch \in Nat \ {0} /\ MaxRows \in Nat /\ MaxUpsets \in Nat

VARIABLES
    stored,     \* rows in the store
    announced,  \* rows whose event has been sent
    stream,     \* events this browser has not consumed
    list,       \* items, nextCursor, loadedBeyondFirst, initialized
    first,      \* the request for the first page after a reset
    refresh,    \* the request for the first page after an event
    older,      \* the request of loadMore
    promised,   \* history: rows announced while the list was initialized
    gap,        \* history: more than a page of rows arrived between two refreshes
    upsets

historyVars ==
    <<stored, announced, stream, list, first, refresh, older, promised, gap, upsets>>

Idle == [state |-> "idle", cursor |-> 0, page |-> [items |-> <<>>, next |-> 0]]
Asked(cursor) == [Idle EXCEPT !.state = "asked", !.cursor = cursor]

EmptyList == [items |-> <<>>, cursor |-> 0, beyond |-> FALSE, ready |-> FALSE]

HistoryInit ==
    /\ stored = 0 /\ announced = 0 /\ stream = <<>>
    /\ list = EmptyList
    /\ first = Asked(0) /\ refresh = Idle /\ older = Idle
    /\ promised = 0 /\ gap = FALSE /\ upsets = 0

Newest == IF list.items = <<>> THEN 0 ELSE Head(list.items)

-------------------------------------------------------------------------------
(* The node *)

\* persist_finalized: the rows of a block become visible together.
StoreRows(n) ==
    /\ announced = stored /\ stored + n <= MaxRows
    /\ stored' = stored + n
    /\ UNCHANGED <<announced, stream, list, first, refresh, older, promised, gap, upsets>>

\* A broadcast channel overwrites its oldest event; the reader's Lagged error is
\* skipped.
Sent(s, event) == Append(IF Len(s) < Capacity THEN s ELSE Tail(s), event)

\* The events of the block (one stands for all: they are sent together), after
\* its rows are stored and the actor's snapshot is published.
Announce ==
    /\ announced < stored
    /\ announced' = stored
    /\ stream' = Sent(stream, stored)
    /\ promised' = IF list.ready THEN stored ELSE promised
    /\ UNCHANGED <<stored, list, first, refresh, older, gap, upsets>>

\* Events without a row share the stream, and may push out the event of a row.
SendWithoutRow(event) ==
    /\ stream' = Sent(stream, event)
    /\ promised' = IF Len(stream) = Capacity /\ Head(stream) = promised THEN 0 ELSE promised
    /\ UNCHANGED <<stored, announced, list, first, refresh, older, gap>>

\* publish_snapshot: a validator_status event (0), which the lists ignore.
SendStatus == SendWithoutRow(0) /\ UNCHANGED upsets

\* accept_transaction: a transaction event (-1) that comes before the row of the
\* transaction, and makes the lists refresh.
AdmitTransaction ==
    /\ announced = stored
    /\ upsets < MaxUpsets /\ upsets' = upsets + 1
    /\ SendWithoutRow(-1)

\* list_blocks and list_transactions: the newest rows below the cursor.
ListRows(before, limit) ==
    LET top == IF before = 0 THEN stored ELSE Min({stored, before - 1})
    IN [i \in 1 .. Min({limit, top}) |-> top - i + 1]

\* blocks and transactions: one more row than the page tells whether there is
\* an older page.
PageBelow(cursor) ==
    LET rows == ListRows(cursor, PageLimit + 1)
        items == SubSeq(rows, 1, Min({PageLimit, Len(rows)}))
    IN [items |-> items, next |-> IF Len(rows) > PageLimit THEN Last(items) ELSE 0]

Answered(request) == [request EXCEPT !.state = "answered", !.page = PageBelow(request.cursor)]

ServeFirst ==
    /\ first.state = "asked" /\ first' = Answered(first)
    /\ UNCHANGED <<stored, announced, stream, list, refresh, older, promised, gap, upsets>>

ServeRefresh ==
    /\ refresh.state = "asked" /\ refresh' = Answered(refresh)
    /\ UNCHANGED <<stored, announced, stream, list, first, older, promised, gap, upsets>>

ServeOlder ==
    /\ older.state = "asked" /\ older' = Answered(older)
    /\ UNCHANGED <<stored, announced, stream, list, first, refresh, promised, gap, upsets>>

-------------------------------------------------------------------------------
(* The browser *)

\* The items that are not among those shown, in their order.
Without(items, shown) ==
    LET kept[i \in 0 .. Len(items)] ==
            IF i = 0 THEN <<>>
            ELSE IF items[i] \in ToSet(shown) THEN kept[i - 1] ELSE Append(kept[i - 1], items[i])
    IN kept[Len(items)]

\* Wrong on purpose: a refresh under way is left to finish.
RefreshOnce == IF refresh.state = "idle" THEN Asked(0) ELSE refresh

\* A new refresh aborts the one under way.
RefreshAgain == Asked(0)

\* consumeEvent bumps historyRevision for all but status events; the effect does
\* nothing before the first page has arrived.
Consume ==
    /\ stream # <<>>
    /\ stream' = Tail(stream)
    /\ refresh' = IF Head(stream) # 0 /\ list.ready THEN RefreshAgain ELSE refresh
    /\ UNCHANGED <<stored, announced, list, first, older, promised, gap, upsets>>

ShowFirst ==
    /\ first.state = "answered"
    /\ first' = Idle
    /\ list' = [items |-> first.page.items, cursor |-> first.page.next,
                beyond |-> FALSE, ready |-> TRUE]
    /\ UNCHANGED <<stored, announced, stream, refresh, older, promised, gap, upsets>>

\* Fresh rows in front of the rows shown; the cursor stays once older pages
\* have been loaded.
Refreshed(l, page) ==
    [l EXCEPT !.items = page.items \o Without(@, page.items),
              !.cursor = IF l.beyond THEN @ ELSE page.next]

ShowRefresh ==
    /\ refresh.state = "answered"
    /\ refresh' = Idle
    /\ list' = Refreshed(list, refresh.page)
    /\ gap' = (gap \/ (refresh.page.items # <<>> /\ Last(refresh.page.items) > Newest + 1))
    /\ UNCHANGED <<stored, announced, stream, first, older, promised, upsets>>

LoadMore ==
    /\ list.cursor # 0 /\ older.state = "idle"
    /\ older' = Asked(list.cursor)
    /\ UNCHANGED <<stored, announced, stream, list, first, refresh, promised, gap, upsets>>

Extended(l, page) ==
    [l EXCEPT !.items = @ \o Without(page.items, @), !.cursor = page.next, !.beyond = TRUE]

ShowOlder ==
    /\ older.state = "answered"
    /\ older' = Idle
    /\ list' = Extended(list, older.page)
    /\ UNCHANGED <<stored, announced, stream, first, refresh, promised, gap, upsets>>

\* Wrong on purpose: the answers of requests made before a reset still count.
OlderAfterReset == older

\* The generation moves on: what was asked before is ignored when it arrives.
OlderForgotten == Idle

\* reload, or another transport: an empty list and a new first page.
Reset ==
    /\ upsets < MaxUpsets /\ upsets' = upsets + 1
    /\ list' = EmptyList
    /\ first' = Asked(0) /\ refresh' = Idle /\ older' = OlderForgotten
    /\ promised' = 0 /\ gap' = FALSE
    /\ UNCHANGED <<stored, announced, stream>>

\* A request fails and the list stays as it is.  A failed first page leaves the
\* list uninitialized until it is reset.
RequestFails ==
    /\ upsets < MaxUpsets /\ upsets' = upsets + 1
    /\ \/ first.state # "idle" /\ first' = Idle /\ UNCHANGED <<refresh, older, promised>>
       \/ refresh.state # "idle" /\ refresh' = Idle /\ promised' = 0 /\ UNCHANGED <<first, older>>
       \/ older.state # "idle" /\ older' = Idle /\ UNCHANGED <<first, refresh, promised>>
    /\ UNCHANGED <<stored, announced, stream, list, gap>>

\* The EventSource reconnects: the new subscription starts with later events.
Reconnect ==
    /\ upsets < MaxUpsets /\ upsets' = upsets + 1
    /\ stream' = <<>> /\ promised' = 0
    /\ UNCHANGED <<stored, announced, list, first, refresh, older, gap>>

HistoryNext ==
    \/ \E n \in 1 .. MaxBatch : StoreRows(n)
    \/ Announce \/ SendStatus \/ AdmitTransaction
    \/ ServeFirst \/ ServeRefresh \/ ServeOlder
    \/ Consume \/ ShowFirst \/ ShowRefresh \/ LoadMore \/ ShowOlder
    \/ Reset \/ RequestFails \/ Reconnect

\* The actor finishes what it began; requests and events are delivered.
HistoryFairness ==
    /\ WF_historyVars(Announce) /\ WF_historyVars(Consume)
    /\ WF_historyVars(ServeFirst) /\ WF_historyVars(ServeRefresh) /\ WF_historyVars(ServeOlder)
    /\ WF_historyVars(ShowFirst) /\ WF_historyVars(ShowRefresh) /\ WF_historyVars(ShowOlder)

HistorySpec == HistoryInit /\ [][HistoryNext]_historyVars /\ HistoryFairness

-------------------------------------------------------------------------------
(* Properties *)

\* The list shows no row twice.  As long as no more than a page of rows arrives
\* between two refreshes, it is an unbroken piece of the history, newest first,
\* and what is older can still be loaded: whatever refreshes, older pages and
\* resets overlap.
ListIsHistory ==
    /\ IsInjective(list.items)
    /\ (list.ready /\ ~gap) =>
        /\ \A i \in DOMAIN list.items : list.items[i] = Newest - i + 1
        /\ (list.items # <<>> /\ Last(list.items) > 1) => list.cursor >= Last(list.items)

\* A row announced to an initialized list is shown sooner or later, also when
\* later rows push its event out of the stream: unless the list is reset, a
\* refresh fails, the stream reconnects or events without a row push it out.
AnnouncedRowsAppear ==
    \A k \in 1 .. MaxRows : (promised = k) ~> (Newest >= k \/ promised = 0)
===============================================================================
