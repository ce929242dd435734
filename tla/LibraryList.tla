----------------------------- MODULE LibraryList -----------------------------
(***************************************************************************)
(* The library of one account as one tab sees it: pages of GET /media in   *)
(* the query cache (media-library.tsx, TanStack Query), which events, the  *)
(* answers of other calls and GET /media/:id change in place               *)
(* (apps/web/src/lib/media/cache.ts), against MediaService.list, whose     *)
(* cursor is the (created_at, id) of the last row.                         *)
(*                                                                         *)
(* Of a row the model has what the filter looks at: its state.  A page is  *)
(* the rows on it, without their order: an upsert may put one before those *)
(* that are newer, and nothing looks at the order but the cursor, which the*)
(* answer brings.  An event is published after its commit and reaches the  *)
(* tab in order, or is lost with the stream.                               *)
(***************************************************************************)
EXTENDS Naturals, Sequences, FiniteSets, SequencesExt

CONSTANTS Assets,        \* ids: numbers, as the ties of created_at are broken by id
          CreatedAt,     \* media_assets.created_at, in microseconds
          PageSize,      \* limit
          MaxEvents, MaxDetails, \* bounds: events and GET /media/:id under way
          MaxChanges     \* bound: changes of rows

ASSUME LibraryListAssumption ==
    /\ Assets \subseteq Nat /\ IsFiniteSet(Assets) /\ CreatedAt \in [Assets -> Nat]
    /\ PageSize \in Nat \ {0} /\ {MaxEvents, MaxDetails, MaxChanges} \subseteq Nat

VARIABLES
    row,       \* per asset, its row: absent, deleted, or the state
    changes,   \* how many times rows have changed
    filter,    \* the filter of the list: a state, or "all"
    pages,     \* data.pages of the list: of each, the ids on it and their states
    cursor,    \* next_cursor of the last page
    fetch,     \* the fetch under way: pages to go, whether it is for one more,
               \* pages so far, cursor
    untouched, \* for `pages` and for `fetch`: rows there when page 1 was read
               \* that nothing has been done to or said about since
    events,    \* events on their way to the tab
    details    \* answers of GET /media/:id on their way

listVars == <<row, changes, filter, pages, cursor, fetch, untouched, events, details>>

States == {"processing", "ready", "failed"}
Start == "start"   \* no cursor: the first page
End == "end"       \* next_cursor is null
NoListFetch == [left |-> 0, more |-> FALSE, got |-> <<>>, cursor |-> [at |-> Start]]

Matches(state, f) == f = "all" \/ state = f
Visible(r, f) == {a \in Assets : r[a] \in States /\ Matches(r[a], f)}

\* ORDER BY created_at DESC, id DESC
Newer(a, b) == CreatedAt[a] > CreatedAt[b] \/ (CreatedAt[a] = CreatedAt[b] /\ a > b)

\* Mutant: a cursor on created_at alone.
AfterInstant(a, c) == c.at = Start \/ CreatedAt[c.row] > CreatedAt[a]

\* The cursor as the next request sends it: everything, or what is older.
AfterCursor(a, c) == c.at = Start \/ Newer(c.row, a)

\* MediaService.list: the newest, and one row more to know if there is a next.
ListPage(c) ==
    LET found == {a \in Visible(row, filter) : AfterCursor(a, c)}
        page == {a \in found : Cardinality({b \in found : Newer(b, a)}) < PageSize}
        oldest == CHOOSE a \in page : \A b \in page \ {a} : Newer(b, a)
    IN  [items |-> [a \in page |-> row[a]],
         next |-> IF page # found THEN [at |-> "row", row |-> oldest] ELSE [at |-> End]]

\* The pages an asset is on: two, when it changed and a later page brings it.
Places(a) == {k \in DOMAIN pages : a \in DOMAIN pages[k]}

LibraryListTypeOK ==
    /\ row \in [Assets -> States \cup {"absent", "deleted"}]
    /\ filter \in States \cup {"all"} /\ changes \in 0 .. MaxChanges
    /\ \A k \in DOMAIN pages : \A a \in DOMAIN pages[k] : a \in Assets /\ Matches(pages[k][a], filter)
    /\ cursor.at \in {Start, "row", End} /\ fetch.left \in Nat
    /\ Len(events) <= MaxEvents /\ Len(details) <= MaxDetails

LibraryListInit ==
    /\ row \in [Assets -> {"absent", "processing", "failed"}]
    /\ changes = 0
    /\ filter \in {"all", "processing"}
    /\ pages = <<>> /\ cursor = [at |-> Start]
    /\ fetch = [NoListFetch EXCEPT !.left = 1]
    /\ untouched = [pages |-> {}, fetch |-> Assets]
    /\ events = <<>> /\ details = <<>>
-----------------------------------------------------------------------------
(* The cache. *)

Forget(a) == untouched' = [pages |-> untouched.pages \ {a}, fetch |-> untouched.fetch \ {a}]

\* removeAsset
PagesWithout(a) == [k \in DOMAIN pages |-> Restrict(pages[k], DOMAIN pages[k] \ {a})]

\* upsertAsset: in its place, or on top of the first page, or out.
PagesWith(a, state) ==
    LET holders == IF Places(a) = {} THEN {1} ELSE Places(a)
        on(k) == DOMAIN pages[k] \cup {a}
    IN  [k \in DOMAIN pages |->
            IF k \in holders THEN [b \in on(k) |-> IF b = a THEN state ELSE pages[k][b]]
            ELSE pages[k]]

Upserted(a, state) == IF Matches(state, filter) THEN PagesWith(a, state) ELSE PagesWithout(a)
-----------------------------------------------------------------------------
(* Reading the list. *)

\* The sentinel is on screen and there is a next page: a fetch of all is
\* cancelled, and the page will go after the ones there are now.
FetchNextPage ==
    /\ pages # <<>> /\ cursor.at = "row" /\ ~fetch.more
    /\ fetch' = [left |-> 1, more |-> TRUE, got |-> pages, cursor |-> cursor]
    /\ untouched' = [untouched EXCEPT !.fetch = untouched.pages]
    /\ UNCHANGED <<row, changes, filter, pages, cursor, events, details>>

\* The list is read again from the first page: it is stale, or invalidated.
Refetched == /\ fetch' = [left |-> Len(pages), more |-> FALSE, got |-> <<>>, cursor |-> [at |-> Start]]
             /\ untouched' = [untouched EXCEPT !.fetch = Assets]

RefetchList ==
    /\ pages # <<>> /\ fetch.left = 0
    /\ Refetched
    /\ UNCHANGED <<row, changes, filter, pages, cursor, events, details>>

\* A page is answered; the last of a fetch replaces the data, and what was
\* changed in place meanwhile.
PageArrives ==
    LET page == ListPage(fetch.cursor)
        got == Append(fetch.got, page.items)
        since == IF fetch.cursor.at = Start THEN untouched.fetch \cap Visible(row, filter) ELSE untouched.fetch
    IN  /\ fetch.left > 0
        /\ IF fetch.left = 1 \/ page.next.at = End
           THEN /\ pages' = got /\ cursor' = page.next
                /\ fetch' = NoListFetch
                /\ untouched' = [pages |-> since, fetch |-> {}]
           ELSE /\ fetch' = [fetch EXCEPT !.left = @ - 1, !.got = got, !.cursor = page.next]
                /\ untouched' = [untouched EXCEPT !.fetch = since]
                /\ UNCHANGED <<pages, cursor>>
        /\ UNCHANGED <<row, changes, filter, events, details>>

\* A fetch that fails leaves the list as it was.
FetchFails ==
    /\ fetch.left > 0 /\ pages # <<>>
    /\ fetch' = NoListFetch
    /\ UNCHANGED <<row, changes, filter, pages, cursor, untouched, events, details>>
-----------------------------------------------------------------------------
(* The rows, and what the tab hears of them. *)

Change(a, state) ==
    /\ changes < MaxChanges /\ changes' = changes + 1
    /\ row' = [row EXCEPT ![a] = state]
    /\ Forget(a)
    /\ UNCHANGED <<filter, cursor, fetch, details>>

Publish(a) ==
    /\ Len(events) < MaxEvents
    /\ events' = Append(events, [id |-> a, state |-> row'[a]])

\* An upload of this tab (its answer goes into the list) or of another one.
Insert(a) ==
    /\ row[a] = "absent"
    /\ Change(a, "processing")
    /\ pages' \in {pages, Upserted(a, "processing")}
    /\ UNCHANGED events

\* The worker ends its job.
Process(a) ==
    /\ row[a] = "processing"
    /\ \E state \in {"ready", "failed"} : Change(a, state)
    /\ Publish(a)
    /\ UNCHANGED pages

\* RetryButton, here or in another tab.
RetryAsset(a) ==
    /\ row[a] = "failed"
    /\ Change(a, "processing")
    /\ pages' \in {pages, Upserted(a, "processing")}
    /\ Publish(a)

\* DeleteSection, here or in another tab.
Delete(a) ==
    /\ row[a] \in States
    /\ Change(a, "deleted")
    /\ pages' \in {pages, PagesWithout(a)}
    /\ UNCHANGED events

\* EditForm: updateMedia, and its answer.
Rename(a) ==
    /\ row[a] \in States
    /\ Upserted(a, row[a]) # pages
    /\ pages' = Upserted(a, row[a])
    /\ Forget(a)
    /\ UNCHANGED <<row, changes, filter, cursor, fetch, events, details>>

\* applyMediaEvent: an item of the list takes the state of the event; an end
\* asks for the whole asset.
EventArrives ==
    LET e == Head(events)
        ask == e.state \in {"ready", "failed"} /\ row[e.id] \in States
    IN  /\ events # <<>>
        /\ events' = Tail(events)
        /\ pages' = IF Places(e.id) # {} THEN Upserted(e.id, e.state) ELSE pages
        /\ ask => Len(details) < MaxDetails
        /\ details' = IF ask THEN Append(details, [id |-> e.id, state |-> row[e.id]]) ELSE details
        /\ Forget(e.id)
        /\ UNCHANGED <<row, changes, filter, cursor, fetch>>

\* GET /media/:id is answered, in any order, or fails.
DetailArrives ==
    \E k \in DOMAIN details :
        /\ details' = RemoveAt(details, k)
        /\ pages' \in {pages, Upserted(details[k].id, details[k].state)}
        /\ Forget(details[k].id)
        /\ UNCHANGED <<row, changes, filter, cursor, fetch, events>>

\* The stream drops, and on its return the lists are invalidated: a fetch
\* under way is cancelled.
Reconnect ==
    /\ pages # <<>>
    /\ events' = <<>>
    /\ Refetched
    /\ UNCHANGED <<row, changes, filter, pages, cursor, details>>

LibraryListNext ==
    \/ FetchNextPage \/ RefetchList \/ PageArrives \/ FetchFails
    \/ \E a \in Assets :
         Insert(a) \/ Process(a) \/ RetryAsset(a) \/ Delete(a) \/ Rename(a)
    \/ EventArrives \/ DetailArrives \/ Reconnect

LibraryListSpec == LibraryListInit /\ [][LibraryListNext]_listVars
-----------------------------------------------------------------------------
(* Properties. *)

\* Scrolled to its end, the list shows exactly once each row that matches and
\* that nothing was done to or said about since its first page was read,
\* whatever was inserted, deleted or changed around it meanwhile (list: a
\* cursor on created_at alone, or in ms, "repetiria ou pularia linhas").
PagesAreComplete == cursor.at = End =>
    \A a \in untouched.pages : \E k \in Places(a) : Places(a) = {k}
=============================================================================
