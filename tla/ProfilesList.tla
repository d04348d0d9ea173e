----------------------------- MODULE ProfilesList -----------------------------
(***************************************************************************)
(* The list side of the profile widget (components/ProfilesWidgetCore.tsx): *)
(* it loads pages of profiles for a search, keeps a selection over them,    *)
(* decides where the card of the selected profile is mounted, and reloads   *)
(* after the card's writes.  The card itself is ProfileDetail; here it is   *)
(* where it is mounted, whether its create form is open, and its writes.    *)
(*                                                                         *)
(* The server is external: a page is any sequence of profiles, since rows   *)
(* come, go and move between two pages.  The search and the type filter are *)
(* one parameter of the request, the query.                                 *)
(***************************************************************************)
EXTENDS Naturals, Sequences, FiniteSets

CONSTANTS
    Profiles,     \* profiles
    NoProfile,    \* null
    Queries,      \* searches and filters
    NoQuery,      \* of no request
    PageSize,     \* pageSize, a bound on a page
    Requests,     \* names for requests in flight
    NoRequest     \* no request was made

ASSUME ListAssumption ==
    /\ NoProfile \notin Profiles /\ NoQuery \notin Queries /\ NoRequest \notin Requests
    /\ PageSize \in Nat \ {0}

VARIABLES
    query,            \* query and filterTypeId
    items,            \* items: each a profile and the query it was listed for
    nextCursor,       \* nextCursor is set
    selected,         \* selectedEntityId
    preferred,        \* preferredSelectionRef
    request,          \* request[r]: a call of provider.list in flight
    latest,           \* listRequestIdRef: the request whose answer counts
    listLoading,      \* the widget is replaced by a loader
    listLoadingMore,  \* a loader is shown under the list
    listError,        \* listErrorMessage is set
    view,             \* cardListView
    session,          \* gridCreateSession
    pending,          \* pendingGridOpenCreate
    creating,         \* the card's create form: not there, asked for, open
    write,            \* a write of the card in flight, with its closure's query
    narrow,           \* the viewport is narrow; it stays so
    autoSelectFirst,  \* option of the host; it stays so
    outdated          \* history: the list was last reloaded by a write of the card,
                      \* for the query of the write and not the one on screen

loadVars == <<items, nextCursor, request, latest, listLoading, listLoadingMore, listError,
              outdated>>
viewVars == <<view, session, pending, creating>>
hostVars == <<narrow, autoSelectFirst>>
vars == <<query, loadVars, selected, preferred, viewVars, write, hostVars>>

Item == [id : Profiles, query : Queries]
Ids(list) == {list[i].id : i \in DOMAIN list}
Free == [stage |-> "free", query |-> NoQuery, append |-> FALSE]
NoWrite == [kind |-> "none", query |-> NoQuery]

\* The types and ranges of the list's state; the rows are keyed by their
\* profile, so however pages overlap none is listed twice.
TypeOK ==
    /\ query \in Queries
    /\ items \in Seq(Item)
    /\ \A i, j \in DOMAIN items : items[i].id = items[j].id => i = j
    /\ nextCursor \in BOOLEAN
    /\ selected \in Profiles \cup {NoProfile} /\ preferred \in Profiles \cup {NoProfile}
    /\ request \in [Requests -> [stage : {"free", "sent"}, query : Queries \cup {NoQuery},
                             append : BOOLEAN]]
    /\ latest \in Requests \cup {NoRequest}
    /\ listLoading \in BOOLEAN /\ listLoadingMore \in BOOLEAN /\ listError \in BOOLEAN
    /\ view \in {"list", "grid"}
    /\ session \in BOOLEAN /\ pending \in BOOLEAN
    /\ creating \in {"no", "asked", "open"}
    /\ write \in [kind : {"none", "create", "update", "delete"},
                  query : Queries \cup {NoQuery}]
    /\ narrow \in BOOLEAN /\ autoSelectFirst \in BOOLEAN
    /\ outdated \in BOOLEAN

\* Mounted: the first effect has asked for the first page.
Init ==
    /\ query \in Queries
    /\ items = <<>> /\ nextCursor = FALSE
    /\ selected = NoProfile /\ preferred = NoProfile
    /\ latest \in Requests
    /\ request = [r \in Requests |->
           IF r = latest THEN [stage |-> "sent", query |-> query, append |-> FALSE] ELSE Free]
    /\ listLoading = TRUE /\ listLoadingMore = FALSE /\ listError = FALSE
    /\ view = "list" /\ session = FALSE /\ pending = FALSE /\ creating = "no"
    /\ write = NoWrite
    /\ narrow \in BOOLEAN /\ autoSelectFirst \in BOOLEAN
    /\ outdated = FALSE

-----------------------------------------------------------------------------
\* Where the card is: beside the list, in a modal or a sheet over it, or, on a
\* narrow screen with nothing to show, out of sight.
isGridLayout == view = "grid"
gridViewStackOverlay == isGridLayout /\ (selected # NoProfile \/ session)
narrowListCreateOverlay == narrow /\ ~isGridLayout /\ session /\ selected = NoProfile
narrowListDetailOpened == narrow /\ ~isGridLayout /\ selected # NoProfile
gridFlowOverlayOpened == gridViewStackOverlay \/ narrowListCreateOverlay
CardMount ==
    CASE listLoading -> "none"
      [] ~listLoading /\ narrow /\ (gridFlowOverlayOpened \/ narrowListDetailOpened) -> "sheet"
      [] ~listLoading /\ ~narrow /\ gridViewStackOverlay -> "modal"
      [] ~listLoading /\ ~narrow /\ ~isGridLayout -> "inline"
      [] ~listLoading /\ narrow /\ ~isGridLayout
            /\ ~narrowListDetailOpened /\ ~narrowListCreateOverlay -> "unseen"
      [] OTHER -> "none"
Covered == CardMount \in {"sheet", "modal"}

\* The card's create form is lost when the card is mounted elsewhere.
Creating(form) == creating' = IF CardMount' = CardMount THEN form ELSE "no"

-----------------------------------------------------------------------------
\* loadList: the request before is aborted and no longer the latest; nobody
\* hears of it any more.
LoadList(forQuery, append) ==
    /\ \E r \in Requests :
          /\ request[r].stage = "free"
          /\ request' = [request EXCEPT ![r] =
                 [stage |-> "sent", query |-> forQuery, append |-> append]]
          /\ latest' = r
    /\ listLoading' = (listLoading \/ (~append /\ items = <<>>))
    /\ listLoadingMore' = (listLoadingMore \/ append \/ items # <<>>)
    /\ listError' = (listError /\ append)
    /\ UNCHANGED <<items, nextCursor>>

\* The search box or the filter, which a write of the card does not block; the
\* effect reloads.
ChangeQuery(q) ==
    /\ q # query /\ ~listLoading /\ ~Covered
    /\ query' = q
    /\ LoadList(q, FALSE) /\ outdated' = FALSE
    /\ UNCHANGED <<selected, preferred, view, session, pending, write, hostVars>>
    /\ Creating(creating)

\* The host renders with another tenant, provider or page size.
Rerun ==
    /\ LoadList(query, FALSE) /\ outdated' = FALSE
    /\ UNCHANGED <<query, selected, preferred, view, session, pending, write, hostVars>>
    /\ Creating(creating)

\* Scrolled to the end.
onReachListEnd ==
    /\ ~listLoading /\ nextCursor /\ ~listLoadingMore
    /\ LoadList(query, TRUE) /\ UNCHANGED outdated
    /\ UNCHANGED <<query, selected, preferred, viewVars, write, hostVars>>

Tagged(page, q) == [i \in DOMAIN page |-> [id |-> page[i], query |-> q]]

\* Mutant: the page is appended as it is.
AppendedRaw(page, q) == items \o Tagged(page, q)
\* Rows that are already there are not repeated; the others keep their order.
New(page) == {i \in DOMAIN page : page[i] \notin Ids(items)}
Place(i, page) == Cardinality({j \in New(page) : j <= i})
NewRows(page) ==
    [k \in 1..Cardinality(New(page)) |->
        page[CHOOSE i \in New(page) : Place(i, page) = k]]
Appended(page, q) == items \o Tagged(NewRows(page), q)

\* Mutant: the selection is kept although it left the list.
SelectionKept(next) ==
    IF preferred # NoProfile /\ preferred \in Ids(next) THEN preferred
    ELSE IF selected # NoProfile THEN selected
    ELSE IF autoSelectFirst /\ next # <<>> THEN next[1].id ELSE NoProfile
\* A preferred row, else the row selected, else the first, if they are there.
SelectionAfter(next) ==
    IF preferred # NoProfile /\ preferred \in Ids(next) THEN preferred
    ELSE IF selected # NoProfile /\ selected \in Ids(next) THEN selected
    ELSE IF autoSelectFirst /\ next # <<>> THEN next[1].id ELSE NoProfile

\* Mutant: any answer counts.
AnyCounts(r) == TRUE
\* The guard after every await of loadList.
Counts(r) == r = latest

\* Mutant: an error leaves the loader under the list.
MoreAfterError(r, ok) == listLoadingMore /\ ~(r = latest /\ ok)
MoreAfter(r, ok) == listLoadingMore /\ r # latest

\* A page arrives.
Listed(r, page, more) ==
    /\ request[r].stage = "sent"
    /\ IF Counts(r)
       THEN /\ items' = IF request[r].append THEN Appended(page, request[r].query)
                        ELSE Tagged(page, request[r].query)
            /\ nextCursor' = more
            /\ selected' = SelectionAfter(items')
            /\ preferred' = IF preferred # NoProfile /\ preferred \in Ids(items')
                            THEN NoProfile ELSE preferred
       ELSE UNCHANGED <<items, nextCursor, selected, preferred>>
    /\ listLoading' = (listLoading /\ r # latest)
    /\ listLoadingMore' = MoreAfter(r, TRUE)
    /\ request' = [request EXCEPT ![r] = Free]
    /\ UNCHANGED <<query, latest, listError, view, session, pending, write, hostVars, outdated>>
    /\ Creating(creating)

\* The request fails.
ListFails(r) ==
    /\ request[r].stage = "sent"
    /\ listError' = (listError \/ Counts(r))
    /\ listLoading' = (listLoading /\ r # latest)
    /\ listLoadingMore' = MoreAfter(r, FALSE)
    /\ request' = [request EXCEPT ![r] = Free]
    /\ UNCHANGED <<query, items, nextCursor, selected, preferred, latest, view, session,
                   pending, write, hostVars, outdated>>
    /\ Creating(creating)

-----------------------------------------------------------------------------
handleSelectProfileFromList(p) ==
    /\ ~listLoading /\ ~Covered /\ p \in Ids(items)
    /\ selected' = p
    /\ UNCHANGED <<query, loadVars, preferred, view, session, pending, write, hostVars>>
    /\ Creating(creating)

\* closeCreate: an open form closes, one that was asked for still comes.
Closed == IF creating = "open" THEN "no" ELSE creating

\* The grid shows no card until a row is pressed.
handleCardListViewChange(v) ==
    /\ v # view /\ ~listLoading /\ ~Covered
    /\ view' = v /\ session' = FALSE /\ pending' = FALSE
    /\ selected' = IF v = "grid" THEN NoProfile ELSE selected
    /\ UNCHANGED <<query, loadVars, preferred, write, hostVars>>
    /\ Creating(IF v = "grid" THEN Closed ELSE creating)

handleGridProfileModalClose ==
    /\ Covered
    /\ selected' = NoProfile /\ session' = FALSE /\ pending' = FALSE
    /\ UNCHANGED <<query, loadVars, preferred, view, write, hostVars>>
    /\ Creating(Closed)

\* Add: where the card is not beside the list, its overlay opens first.
onAddItem ==
    /\ ~listLoading /\ ~Covered
    /\ UNCHANGED <<query, loadVars, selected, preferred, view, write, hostVars>>
    /\ IF isGridLayout \/ narrow
       THEN session' = TRUE /\ pending' = TRUE /\ Creating(creating)
       ELSE UNCHANGED <<session, pending>> /\ creating' = "asked"

\* The next animation frame after the overlay is there.
OpenInOverlay ==
    /\ pending /\ gridFlowOverlayOpened
    /\ pending' = FALSE
    /\ creating' = IF CardMount # "none" THEN "asked" ELSE creating
    /\ UNCHANGED <<query, loadVars, selected, preferred, view, session, write, hostVars>>

\* The card has its entity types, or has not got them: the form opens.
FormOpens ==
    /\ creating = "asked" /\ creating' = "open"
    /\ UNCHANGED <<query, loadVars, selected, preferred, view, session, pending, write, hostVars>>

CancelCreate ==
    /\ creating = "open" /\ creating' = "no"
    /\ UNCHANGED <<query, loadVars, selected, preferred, view, session, pending, write, hostVars>>

-----------------------------------------------------------------------------
\* The card writes.  Its handler keeps the callbacks of this render, and with
\* them this query, until the answer.
Write(kind) ==
    /\ write = NoWrite
    /\ IF kind = "create" THEN creating = "open"
       ELSE selected # NoProfile /\ CardMount \in {"inline", "sheet", "modal"}
    /\ write' = [kind |-> kind, query |-> query]
    /\ UNCHANGED <<query, loadVars, selected, preferred, viewVars, hostVars>>

\* The answer: the handlers of the card call back two or three times, and each
\* time the list is loaded; of these requests the last one counts.
Written(p) ==
    /\ write # NoWrite
    /\ write' = NoWrite
    /\ LoadList(write.query, FALSE) /\ outdated' = (write.query # query)
    /\ preferred' = CASE write.kind = "create" -> p
                      [] write.kind = "delete" -> NoProfile
                      [] OTHER -> preferred
    /\ selected' = IF write.kind = "delete" THEN NoProfile ELSE selected
    /\ session' = (session /\ write.kind # "create")
    /\ UNCHANGED <<query, view, pending, hostVars>>
    /\ Creating(IF write.kind = "create" THEN Closed ELSE creating)

WriteRefused ==
    /\ write # NoWrite
    /\ write' = NoWrite
    /\ UNCHANGED <<query, loadVars, selected, preferred, viewVars, hostVars>>

\* A page is of at most pageSize rows and names no profile twice.
Pages == {page \in UNION {[1..n -> Profiles] : n \in 0..PageSize} :
             \A i, j \in DOMAIN page : page[i] = page[j] => i = j}

Next ==
    \/ \E q \in Queries : ChangeQuery(q)
    \/ Rerun \/ onReachListEnd
    \/ \E r \in Requests :
          \/ \E page \in Pages, more \in BOOLEAN : Listed(r, page, more)
          \/ ListFails(r)
    \/ \E p \in Profiles : handleSelectProfileFromList(p) \/ Written(p)
    \/ \E v \in {"list", "grid"} : handleCardListViewChange(v)
    \/ handleGridProfileModalClose
    \/ onAddItem \/ OpenInOverlay \/ FormOpens \/ CancelCreate
    \/ \E kind \in {"create", "update", "delete"} : Write(kind)
    \/ WriteRefused

Spec == Init /\ [][Next]_vars

-----------------------------------------------------------------------------
\* Without an error shown and with nothing loading, the rows are those of the
\* search and filter on screen.  Violated: a write that ends after the search
\* was changed reloads the list for the search before.
OneQuery ==
    ~listLoading /\ ~listLoadingMore /\ ~listError =>
        \A i \in DOMAIN items : items[i].query = query

\* Among loads the number of the latest is enough: no page of an earlier search
\* replaces or joins the rows of a later one, whichever answer comes first.  Only
\* a write of the card, whose callbacks reload for the query it was made under,
\* brings other rows, until the next load of the list from its start.
OneQueryUnlessOutdated == ~outdated => OneQuery

\* The selected profile is a row of the list, so that the card has its item:
\* after reloads that drop it, deletions, pages of another search.
SelectedIsListed == selected # NoProfile => selected \in Ids(items)

\* A loader turns only while the latest request runs; the whole widget is
\* replaced by one only while it has no rows.
LoaderIsAwaited ==
    /\ listLoading \/ listLoadingMore =>
          latest # NoRequest /\ request[latest].stage = "sent"
    /\ listLoading => items = <<>>
=============================================================================
