--------------------------- MODULE EntityTypesWidget ---------------------------
(***************************************************************************)
(* The entity types widget: the list of families                            *)
(* (components/EntityTypesWidgetCore.tsx) and the card of the selected one   *)
(* (components/EntityTypesWidgetDetailCore.tsx): its draft, its revisions,  *)
(* the profiles to upgrade.  While the list loads, which every successful   *)
(* change makes it do, a loader takes the place of the whole widget: the    *)
(* card is unmounted, and mounted anew afterwards.                           *)
(*                                                                         *)
(* A request is handled by the server when its answer arrives; what others  *)
(* change between the two is as if they did it later (SavedElsewhere).  A   *)
(* draft is known by the family and the version it was read from, profiles  *)
(* by the family they were listed for.  The editor of the draft is          *)
(* DraftEditor.                                                             *)
(***************************************************************************)
EXTENDS Naturals, FiniteSets

CONSTANTS
    Families,     \* families of entity types, those to be created included
    NoFamily,     \* null
    Created,      \* the families there are when the widget mounts
    Requests,     \* names for requests in flight
    MaxVersion,   \* bound: draft_schema_version of each family
    MaxRevisions  \* bound: published revisions of each family

ASSUME WidgetAssumption ==
    /\ NoFamily \notin Families /\ Created \subseteq Families
    /\ Requests \subseteq Nat /\ 0 \notin Requests /\ Requests # {}
    /\ MaxVersion \in [Families -> Nat \ {0}] /\ MaxRevisions \in [Families -> Nat]

VARIABLES
    version,      \* the server: draft_schema_version of a family, 0 without one
    gone,         \* the server: families that were deleted; an id is not used again
    published,    \* the server: how many revisions a family has
    families,     \* families: the rows of the list
    listLoading,  \* the widget is replaced by a loader
    latestList,   \* listRequestIdRef: the request whose answer counts
    selected,     \* selectedFamilyId
    createOpened, \* the dialog for a new family
    createBusy,   \* from its press to the end of the reload after it
    card,         \* the state of the mounted card
    request       \* request[r]: a call of the provider in flight

serverVars == <<version, gone, published>>
listVars == <<families, listLoading, latestList, selected>>
createVars == <<createOpened, createBusy>>
vars == <<serverVars, listVars, createVars, card, request>>

NoName == 0
Version == {0} \cup UNION {0 .. MaxVersion[f] : f \in Families}
Revisions == {0} \cup UNION {0 .. MaxRevisions[f] : f \in Families}
Family == Families \cup {NoFamily}
Draft == [of : Family, version : Version]
NoDraft == [of |-> NoFamily, version |-> 0]
Upgrade == {"single", "batch", "behind"}
Write == {"save", "publish", "patch", "delete"} \cup Upgrade
Card == [detail : Draft,              \* familyDetail
         draft : Draft,               \* draftSchema, draftSourceText
         revisionsOf : Family,        \* revisions
         revisions : Revisions,
         latest : Requests \cup {NoName},  \* detailRequestIdRef
         loading : BOOLEAN, revisionsLoading : BOOLEAN,
         failed : BOOLEAN,            \* detailErrorMessage
         conflict : BOOLEAN,          \* draftConflict
         tab : {"draft", "revisions", "upgrade"},
         rows : SUBSET Families,      \* upgradeEntities
         picked : SUBSET Families,    \* selectedEntityIds
         paging : SUBSET {"first", "more"},  \* upgradeLoading, upgradeLoadingMore
         dialog : {"none", "patch", "delete"},
         busy : Write \cup {"none", "reload"},
         strayed : SUBSET {"draft", "rows"}]
\* strayed is history, read by no action: what the answer of a request for another
\* family than the selected has filled in, since the draft was last loaded, or
\* the rows last cleared.
Fresh == [detail |-> NoDraft, draft |-> NoDraft, revisionsOf |-> NoFamily, revisions |-> 0,
          latest |-> NoName, loading |-> FALSE, revisionsLoading |-> FALSE,
          failed |-> FALSE, conflict |-> FALSE, tab |-> "draft",
          rows |-> {}, picked |-> {}, paging |-> {},
          dialog |-> "none", busy |-> "none", strayed |-> {}]
Request == [kind : Write \cup {"none", "list", "create", "detail", "page", "reload"},
            family : Family,          \* of a list: to be selected when it ends
            stage : {"sent", "revisions"},
            draft : Draft,            \* what a save sends
            if : Version,             \* ifDraftSchemaVersion
            append : BOOLEAN,
            names : SUBSET Families,  \* the profiles to upgrade
            mounted : BOOLEAN]        \* the card that sent it still is
None == [kind |-> "none", family |-> NoFamily, stage |-> "sent", draft |-> NoDraft,
         if |-> 0, append |-> FALSE, names |-> {}, mounted |-> TRUE]

\* The types and ranges of the widget's state.
TypeOK ==
    /\ version \in [Families -> Version]
    /\ gone \subseteq Families
    /\ published \in [Families -> Revisions]
    /\ families \subseteq Families
    /\ listLoading \in BOOLEAN /\ latestList \in Requests
    /\ selected \in Family
    /\ createOpened \in BOOLEAN /\ createBusy \in BOOLEAN
    /\ card \in Card
    /\ request \in [Requests -> Request]

\* Mounted: the families are asked for.
Init ==
    /\ version = [f \in Families |-> IF f \in Created THEN 1 ELSE 0]
    /\ gone = {} /\ published = [f \in Families |-> 0]
    /\ families = {} /\ listLoading = TRUE /\ selected = NoFamily
    /\ createOpened = FALSE /\ createBusy = FALSE
    /\ card = Fresh
    /\ latestList = CHOOSE r \in Requests : TRUE
    /\ request = [r \in Requests |->
           IF r = latestList THEN [None EXCEPT !.kind = "list"] ELSE None]

-----------------------------------------------------------------------------
Idle(r) == request[r].kind = "none"
\* Names are alike: a new request takes the least free one, the next request of
\* a handler the name of the one it awaited.
FreeName == {r \in Requests : Idle(r) /\ \A q \in Requests : q < r => ~Idle(q)}

\* The card is gone: its reads and upgrades reach nobody any more, the answers
\* of its other writes still reload the list.
Orphaned ==
    [q \in Requests |->
        IF request[q].kind \in {"detail", "page", "reload"} \cup Upgrade THEN None
        ELSE IF request[q].kind \in Write THEN [request[q] EXCEPT !.mounted = FALSE]
        ELSE request[q]]

\* loadFamilies, as request r; then: the family to be selected when it ends.
LoadFamilies(r, then) ==
    /\ request' = [Orphaned EXCEPT ![r] = [None EXCEPT !.kind = "list", !.family = then]]
    /\ latestList' = r /\ listLoading' = TRUE
    /\ card' = Fresh
    /\ UNCHANGED families

\* loadFamilyDetail(f), as request r, by the card c.
Loading(c, r) ==
    [c EXCEPT !.latest = r, !.loading = TRUE, !.failed = FALSE,
              !.revisionsOf = NoFamily, !.revisions = 0, !.revisionsLoading = TRUE]
Detail(f) == [None EXCEPT !.kind = "detail", !.family = f]
Page(f, append) == [None EXCEPT !.kind = "page", !.family = f, !.append = append]

\* Mutant: what was listed and picked for another family stays.
ClearedNot(c) == [c EXCEPT !.paging = @ \cup {"first"}, !.strayed = @ \ {"rows"}]
\* The effect of the upgrade tab and of the family: clear, load the first page.
Cleared(c) ==
    [c EXCEPT !.rows = {}, !.picked = {}, !.paging = @ \cup {"first"},
              !.strayed = @ \ {"rows"}]

\* The effects of the selection, the request of the details as r.
SelectedBecomes(r, f) ==
    /\ selected' = f
    /\ IF f = NoFamily
       THEN /\ card' = [card EXCEPT !.detail = NoDraft, !.draft = NoDraft, !.rows = {},
                            !.picked = {}, !.revisionsOf = NoFamily,
                            !.revisions = 0, !.tab = "draft"]
            /\ request' = [request EXCEPT ![r] = None]
       ELSE IF card.tab = "upgrade"
       THEN \E p \in Requests \ {r} :
               /\ Idle(p)
               /\ request' = [request EXCEPT ![r] = Detail(f), ![p] = Page(f, FALSE)]
               /\ card' = [Cleared(Loading(card, r)) EXCEPT !.tab = "draft"]
       ELSE /\ request' = [request EXCEPT ![r] = Detail(f)]
            /\ card' = [Loading(card, r) EXCEPT !.tab = "draft"]

\* A row of the list is pressed: selected, or no longer.
Select(f) ==
    /\ ~listLoading /\ card.dialog = "none" /\ ~createOpened
    /\ f # selected /\ (f # NoFamily => f \in families)
    /\ \E r \in FreeName : SelectedBecomes(r, f)
    /\ UNCHANGED <<serverVars, families, listLoading, latestList, createVars>>

\* The host renders with another tenant, provider or observer.
Rerun ==
    /\ \E r \in FreeName : LoadFamilies(r, NoFamily)
    /\ UNCHANGED <<serverVars, selected, createVars>>

\* Mutant: a list that fails keeps the loader.
LoadingAfterError(r, ok) == listLoading /\ ~(r = latestList /\ ok)
\* The finally of loadFamilies.
LoadingAfter(r, ok) == listLoading /\ r # latestList

\* The answer of listFamilies; the dialog's handler then selects what it made.
FamiliesArrive(r) ==
    /\ request[r].kind = "list"
    /\ \E ok \in BOOLEAN :
          /\ families' = IF ok /\ r = latestList THEN {f \in Families : version[f] > 0}
                         ELSE families
          /\ listLoading' = LoadingAfter(r, ok)
          /\ LET then == request[r].family
                 next == IF then = NoFamily THEN selected ELSE then
             IN  /\ createBusy' = (createBusy /\ then = NoFamily)
                 /\ IF listLoading' \/ (~listLoading /\ next = selected)
                    THEN /\ selected' = next
                         /\ request' = [request EXCEPT ![r] = None]
                         /\ UNCHANGED card
                    ELSE IF listLoading /\ next = NoFamily
                    THEN /\ selected' = next
                         /\ request' = [request EXCEPT ![r] = None]
                         /\ card' = Fresh
                    ELSE IF listLoading
                    THEN /\ selected' = next
                         /\ request' = [request EXCEPT ![r] = Detail(next)]
                         /\ card' = Loading(Fresh, r)
                    ELSE SelectedBecomes(r, next)
    /\ UNCHANGED <<serverVars, latestList, createOpened>>

-----------------------------------------------------------------------------
\* Mutant: the user keeps his edits and gets the new version.
KeepDraft(c, f) ==
    [c EXCEPT !.detail = [of |-> f, version |-> version[f]], !.conflict = FALSE,
              !.draft = IF c.draft.of = f THEN c.draft ELSE [of |-> f, version |-> version[f]]]
applyFamilyDetail(c, f) ==
    [c EXCEPT !.detail = [of |-> f, version |-> version[f]],
              !.draft = [of |-> f, version |-> version[f]], !.conflict = FALSE]
\* Mutant: the revision to be published next is counted too.
WithNext(c, f) == [c EXCEPT !.revisionsOf = f, !.revisions = published[f] + 1]
WithRevisions(c, f) == [c EXCEPT !.revisionsOf = f, !.revisions = published[f]]

\* History: an answer for family f is applied to part of the card.
Strays(c, f, part) == [c EXCEPT !.strayed = IF f = selected THEN @ ELSE @ \cup {part}]

\* Mutant: any answer counts.
AnyCounts(r) == TRUE
\* The guard of loadFamilyDetail.
Counts(r) == r = card.latest

\* The details and the revisions are both there, or one of them failed.  A
\* request whose signal was aborted comes back as an error with no special name.
DetailArrives(r) ==
    LET f == request[r].family
        ended == [card EXCEPT !.loading = FALSE, !.revisionsLoading = FALSE]
        loaded == [ended EXCEPT !.strayed = @ \ {"draft"}]
    IN  /\ request[r].kind = "detail"
        /\ request' = [request EXCEPT ![r] = None]
        /\ IF Counts(r)
           THEN \/ version[f] > 0 /\ card' = WithRevisions(applyFamilyDetail(loaded, f), f)
                \/ card' = [ended EXCEPT !.failed = TRUE, !.detail = NoDraft]
           ELSE UNCHANGED card
        /\ UNCHANGED <<serverVars, listVars, createVars>>

\* What is on screen when a card is shown.
Panel ==
    /\ ~listLoading /\ selected # NoFamily
    /\ ~card.loading /\ ~card.failed /\ card.detail # NoDraft
Pressable == Panel /\ card.dialog = "none" /\ ~createOpened

OpenTab(tab) ==
    /\ Pressable /\ tab # card.tab
    /\ IF tab = "upgrade"
       THEN \E r \in FreeName :
               /\ request' = [request EXCEPT ![r] = Page(selected, FALSE)]
               /\ card' = [Cleared(card) EXCEPT !.tab = tab]
       ELSE card' = [card EXCEPT !.tab = tab] /\ UNCHANGED request
    /\ UNCHANGED <<serverVars, listVars, createVars>>

\* The server may always have given a cursor for more.
LoadMore ==
    /\ Pressable /\ card.tab = "upgrade" /\ card.rows # {} /\ "more" \notin card.paging
    /\ \E r \in FreeName : request' = [request EXCEPT ![r] = Page(selected, TRUE)]
    /\ card' = [card EXCEPT !.paging = @ \cup {"more"}]
    /\ UNCHANGED <<serverVars, listVars, createVars>>

\* A page of profiles, for whatever family is selected now.
PageArrives(r) ==
    /\ request[r].kind = "page"
    /\ request' = [request EXCEPT ![r] = None]
    /\ \/ \E page \in {{}, {request[r].family}} :
             card' = [Strays(card, request[r].family, "rows") EXCEPT
                         !.rows = IF request[r].append THEN @ \cup page ELSE page,
                         !.paging = {}]
       \/ card' = [card EXCEPT !.paging = {}]
    /\ UNCHANGED <<serverVars, listVars, createVars>>

toggleEntitySelected(f) ==
    /\ Pressable /\ card.tab = "upgrade" /\ "first" \notin card.paging /\ f \in card.rows
    /\ card' = [card EXCEPT !.picked = IF f \in @ THEN @ \ {f} ELSE @ \cup {f}]
    /\ UNCHANGED <<serverVars, listVars, createVars, request>>

Dialog(dialog) ==
    /\ dialog # card.dialog
    /\ IF card.dialog = "none" THEN Pressable ELSE ~listLoading /\ dialog = "none"
    /\ card' = [card EXCEPT !.dialog = dialog]
    /\ UNCHANGED <<serverVars, listVars, createVars, request>>

-----------------------------------------------------------------------------
\* A write starts; its own button shows a loader, the others do not.  To upgrade
\* one profile there is a button in each row.
Send(kind, rec) ==
    /\ card.busy # kind \/ kind = "single"
    /\ \E r \in FreeName :
          request' = [request EXCEPT ![r] = [rec EXCEPT !.kind = kind, !.family = selected]]
    /\ card' = [card EXCEPT !.busy = kind, !.conflict = @ /\ kind # "save"]
    /\ UNCHANGED <<serverVars, listVars, createVars>>

handleSaveDraft ==
    /\ Pressable /\ card.tab = "draft"
    /\ Send("save", [None EXCEPT !.draft = card.draft, !.if = card.detail.version])
handlePublish == Pressable /\ card.tab = "draft" /\ Send("publish", None)
handleReloadDraftFromServer ==
    Pressable /\ card.tab = "draft" /\ card.conflict /\ Send("reload", None)
handlePatchFamily ==
    ~listLoading /\ card.dialog = "patch" /\ selected # NoFamily /\ Send("patch", None)
handleDeleteFamily ==
    ~listLoading /\ card.dialog = "delete" /\ selected # NoFamily /\ Send("delete", None)
HasTarget == Pressable /\ card.tab = "upgrade" /\ card.revisions > 0
handleSingleUpgrade(f) ==
    /\ HasTarget /\ "first" \notin card.paging /\ f \in card.rows
    /\ Send("single", [None EXCEPT !.names = {f}])
handleBatchUpgradeSelected ==
    /\ HasTarget /\ card.picked # {}
    /\ Send("batch", [None EXCEPT !.names = card.picked])
handleBatchUpgradeBehind == HasTarget /\ Send("behind", None)

\* The catch and the finally of a write, if its card is still there.
Freed(r) == IF request[r].mounted THEN [card EXCEPT !.busy = "none"] ELSE card
Failed(r, c) ==
    /\ card' = c
    /\ request' = [request EXCEPT ![r] = None]
    /\ UNCHANGED <<listVars, createVars>>

\* A change that succeeded reloads the list, and so unmounts the card; what its
\* handler does to the card before or after is never seen.
CatalogReload(r) == LoadFamilies(r, NoFamily) /\ UNCHANGED <<selected, createVars>>

\* The server takes a save only for the version it names.
SaveArrives(r) ==
    LET f == request[r].family
        taken == version[f] > 0 /\ version[f] = request[r].if /\ version[f] < MaxVersion[f]
        stored == [version EXCEPT ![f] = @ + 1]
    IN  /\ request[r].kind = "save" /\ UNCHANGED <<gone, published>>
        /\ \/ taken /\ version' = stored /\ CatalogReload(r)
           \/ taken /\ version' = stored /\ Failed(r, Freed(r))  \* the answer is lost
           \/ /\ version[f] \notin {0, request[r].if} /\ UNCHANGED version
              /\ Failed(r, IF request[r].mounted THEN [Freed(r) EXCEPT !.conflict = TRUE]
                           ELSE card)
           \/ UNCHANGED version /\ Failed(r, Freed(r))

\* Publishing, then the revisions, whatever comes of them, then the list.
PublishArrives(r) ==
    LET f == request[r].family
        taken == version[f] > 0 /\ published[f] < MaxRevisions[f]
        stored == [published EXCEPT ![f] = @ + 1]
    IN  /\ request[r].kind = "publish" /\ UNCHANGED <<version, gone>>
        /\ IF request[r].stage = "revisions"
           THEN CatalogReload(r) /\ UNCHANGED published
           ELSE \/ /\ taken /\ published' = stored
                   /\ request' = [request EXCEPT ![r].stage = "revisions"]
                   /\ card' = IF request[r].mounted
                              THEN [applyFamilyDetail(Strays(card, f, "draft"), f) EXCEPT
                                       !.revisionsLoading = TRUE]
                              ELSE card
                   /\ UNCHANGED <<listVars, createVars>>
                \/ taken /\ published' = stored /\ Failed(r, Freed(r))
                \/ UNCHANGED published /\ Failed(r, Freed(r))

\* The draft, then the revisions, for whatever family is selected now.
ReloadArrives(r) ==
    LET f == request[r].family
        strayed == Strays(card, f, "draft")
        ended == [Freed(r) EXCEPT !.revisionsLoading = FALSE]
    IN  /\ request[r].kind = "reload" /\ UNCHANGED serverVars
        /\ IF request[r].stage = "revisions"
           THEN Failed(r, WithRevisions(Strays(ended, f, "draft"), f)) \/ Failed(r, [ended EXCEPT !.failed = TRUE])
           ELSE \/ /\ version[f] > 0
                   /\ request' = [request EXCEPT ![r].stage = "revisions"]
                   /\ card' = [applyFamilyDetail(strayed, f) EXCEPT !.revisionsLoading = TRUE]
                   /\ UNCHANGED <<listVars, createVars>>
                \/ Failed(r, Freed(r))

PatchArrives(r) ==
    /\ request[r].kind = "patch" /\ UNCHANGED serverVars
    /\ CatalogReload(r) \/ Failed(r, Freed(r))

\* The server keeps a family with revisions.
DeleteArrives(r) ==
    LET f == request[r].family
        taken == version[f] > 0 /\ published[f] = 0
        stored == version' = [version EXCEPT ![f] = 0] /\ gone' = gone \cup {f}
    IN  /\ request[r].kind = "delete" /\ UNCHANGED published
        /\ \/ /\ taken /\ stored
              /\ LoadFamilies(r, NoFamily)
              /\ selected' = NoFamily /\ UNCHANGED createVars
           \/ taken /\ stored /\ Failed(r, Freed(r))
           \/ UNCHANGED <<version, gone>> /\ Failed(r, Freed(r))

\* After an upgrade the first page comes again; what is listed stays meanwhile.
UpgradeArrives(r) ==
    /\ request[r].kind \in Upgrade /\ UNCHANGED serverVars
    /\ \/ /\ request' = [request EXCEPT ![r] = Page(request[r].family, FALSE)]
          /\ card' = [Freed(r) EXCEPT !.paging = @ \cup {"first"},
                          !.picked = IF request[r].kind = "batch" THEN {} ELSE @]
          /\ UNCHANGED <<listVars, createVars>>
       \/ Failed(r, Freed(r))

-----------------------------------------------------------------------------
OpenCreate ==
    /\ ~listLoading /\ card.dialog = "none" /\ ~createOpened
    /\ createOpened' = TRUE
    /\ UNCHANGED <<serverVars, listVars, createBusy, card, request>>

CancelCreate ==
    /\ ~listLoading /\ createOpened
    /\ createOpened' = FALSE
    /\ UNCHANGED <<serverVars, listVars, createBusy, card, request>>

handleCreateFamily ==
    /\ ~listLoading /\ createOpened /\ ~createBusy
    /\ \E r \in FreeName : request' = [request EXCEPT ![r] = [None EXCEPT !.kind = "create"]]
    /\ createBusy' = TRUE
    /\ UNCHANGED <<serverVars, listVars, createOpened, card>>

CreateArrives(r) ==
    /\ request[r].kind = "create" /\ UNCHANGED <<gone, published>>
    /\ \/ \E f \in Families :
             /\ version[f] = 0 /\ f \notin gone
             /\ version' = [version EXCEPT ![f] = 1]
             /\ \/ /\ LoadFamilies(r, f)
                   /\ createOpened' = FALSE
                   /\ UNCHANGED <<selected, createBusy>>
                \/ /\ createBusy' = FALSE  \* the answer is lost
                   /\ request' = [request EXCEPT ![r] = None]
                   /\ UNCHANGED <<listVars, createOpened, card>>
       \/ /\ createBusy' = FALSE
          /\ request' = [request EXCEPT ![r] = None]
          /\ UNCHANGED <<version, listVars, createOpened, card>>

\* Another administrator saves the draft.
SavedElsewhere(f) ==
    /\ version[f] \in 1 .. MaxVersion[f] - 1
    /\ version' = [version EXCEPT ![f] = @ + 1]
    /\ UNCHANGED <<gone, published, listVars, createVars, card, request>>

\* The user, or the host.
Press ==
    \/ \E f \in Family : Select(f)
    \/ Rerun
    \/ \E tab \in {"draft", "revisions", "upgrade"} : OpenTab(tab)
    \/ LoadMore
    \/ \E f \in Families : toggleEntitySelected(f) \/ handleSingleUpgrade(f)
    \/ \E dialog \in {"none", "patch", "delete"} : Dialog(dialog)
    \/ handleSaveDraft \/ handlePublish \/ handleReloadDraftFromServer
    \/ handlePatchFamily \/ handleDeleteFamily
    \/ handleBatchUpgradeSelected \/ handleBatchUpgradeBehind
    \/ OpenCreate \/ CancelCreate \/ handleCreateFamily

Arrives(r) ==
    \/ FamiliesArrive(r) \/ DetailArrives(r) \/ PageArrives(r)
    \/ SaveArrives(r) \/ PublishArrives(r) \/ ReloadArrives(r)
    \/ PatchArrives(r) \/ DeleteArrives(r) \/ UpgradeArrives(r) \/ CreateArrives(r)

\* What goes on when nobody presses anything.
Unpressed ==
    \/ \E r \in Requests : Arrives(r)
    \/ \E f \in Families : SavedElsewhere(f)

Next == Press \/ Unpressed

\* As long as requests are in flight the browser ends one of them, with an answer
\* or with an error.  The widget sets no timeout of its own and relies on that.
Fairness == WF_vars(\E r \in Requests : Arrives(r))
Spec == Init /\ [][Next]_vars /\ Fairness

-----------------------------------------------------------------------------
\* The family on screen, its draft and its revisions are those of the selected
\* row.  Violated: the answer of a Publish for the row before fills the card.
ShownIsSelected ==
    Panel =>
        /\ card.detail.of = selected /\ card.draft.of = selected
        /\ ~card.revisionsLoading => card.revisionsOf = selected

\* However fast rows are pressed and whichever load of the details answers first,
\* the card shows the selected row: only the answer of "Reload draft" or of
\* "Publish", pressed for another row, fills in anything else, and the next load
\* of the details takes that away.
ShownUnlessStrayed == "draft" \notin card.strayed => ShownIsSelected

\* "Save draft (optimistic concurrency)": what a save that the server takes
\* replaces is of the version its user had before him - not one saved elsewhere
\* meanwhile, and after a conflict neither.
NoBlindOverwrite ==
    [][\A r \in Requests :
          request[r].kind = "save" /\ request'[r].kind # "save" /\ version' # version =>
              request[r].draft.version = version[request[r].family]]_vars

\* What a save that the server takes replaces a draft with was read from the same
\* family.  Violated: the answer of a Publish for another family can be saved.
NoForeignOverwrite ==
    [][\A r \in Requests :
          request[r].kind = "save" /\ request'[r].kind # "save" /\ version' # version =>
              request[r].draft.of = request[r].family]_vars

\* What is listed and picked in the upgrade tab is of the selected family, through
\* changes of family and of tab, upgrades and reloads: only a page that was asked
\* for another family brings others, until the tab is opened anew.
RowsUnlessStrayed ==
    card.tab = "upgrade" /\ "rows" \notin card.strayed =>
        card.rows \subseteq {selected} /\ card.picked \subseteq {selected}

\* Only profiles listed for the family are sent to be upgraded to a revision of
\* it, whatever was listed and picked before.  Violated: by a page for another
\* family that arrives late.
UpgradesItsOwn ==
    \A r \in Requests : request[r].kind \in Upgrade => request[r].names \subseteq {request[r].family}

\* Once nobody presses anything, every loader goes away and every button can
\* be pressed again: no order of answers, errors and reloads leaves one behind, and
\* no remount that orphans reads and writes.
Settles ==
    <>[][Unpressed]_vars =>
        <>[](/\ ~listLoading /\ ~card.loading /\ ~card.revisionsLoading
             /\ card.paging = {} /\ card.busy = "none" /\ ~createBusy)
=============================================================================
