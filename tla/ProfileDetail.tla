----------------------------- MODULE ProfileDetail -----------------------------
(***************************************************************************)
(* The card of one profile in the profile widget                            *)
(* (components/ProfilesWidgetProfileDetailCore.tsx): it loads the selected  *)
(* profile and its older versions, shows one of them, lets a user edit,     *)
(* save, save an old version as new, and delete.  Requests are answered in  *)
(* any order; what guards the card against a late answer is the number of   *)
(* the latest load (detailsRequestIdRef) and the abort of the one before -  *)
(* for loads.  The answer of a write is applied whatever is selected then.  *)
(*                                                                         *)
(* A document is known by the profile and the version it was read from,     *)
(* which the code cannot see: it tells a draft of one profile from a draft  *)
(* of another.  Typing changes what a draft says and not what it is a draft *)
(* of, and is no step.                                                      *)
(***************************************************************************)
EXTENDS Naturals

CONSTANTS
    Entities,    \* profiles
    NoEntity,    \* nothing is selected
    Loads,       \* names for loads in flight
    Writes,      \* names for writes in flight
    NoLoad,      \* no load was started
    MaxVersion   \* bound: versions of one profile

ASSUME CardAssumption ==
    /\ NoEntity \notin Entities /\ NoLoad \notin Loads
    /\ MaxVersion \in Nat \ {0}

VARIABLES
    store,            \* the server: how many versions profile e has, 0 if deleted
    selected,         \* entityId
    card,             \* selectedDocument, headVersion, viewedVersion,
                      \* versionDetailsByNum, editMode, editDraftValue
    load,             \* load[r]: a load of a profile, then of its versions
    latest,           \* detailsRequestIdRef: the load whose answer counts
    detailsLoading,   \* a loader is shown instead of the document
    versionsLoading,  \* a loader is shown beside the versions
    failed,           \* detailsErrorMessage is set
    write,            \* write[w]: a write, then the load of the versions
    busy,             \* busyEntityId
    strayed           \* history: since the card was last asked to load, the answer
                      \* of a save to another profile than the selected was applied

requestVars == <<load, latest, write>>
shownVars == <<card, detailsLoading, versionsLoading, failed, strayed>>
vars == <<store, selected, shownVars, requestVars, busy>>

Version == 0 .. MaxVersion  \* 0: null
Document == [of : Entities \cup {NoEntity}, version : Version]
NoDocument == [of |-> NoEntity, version |-> 0]
Maps == UNION {[1 .. n -> Document] : n \in Version}
Answer == {"awaited", "ok", "error"}

NoneLoading == [entity |-> NoEntity, stage |-> "free", aborted |-> FALSE,
                answer |-> "awaited", result |-> NoDocument]
NoneWriting == [kind |-> "none", entity |-> NoEntity, stage |-> "free",
                document |-> NoDocument, load |-> NoLoad,
                answer |-> "awaited", result |-> NoDocument]

\* The types and ranges of the card's state.
TypeOK ==
    /\ store \in [Entities -> Version]
    /\ selected \in Entities \cup {NoEntity}
    /\ card \in [document : Document, head : Version, viewed : Version,
                 versions : Maps, editing : BOOLEAN, draft : Document]
    /\ \A r \in Loads :
          /\ load[r].stage \in {"free", "profile", "versions"}
          /\ load[r].entity \in Entities \cup {NoEntity}
          /\ load[r].result \in Document /\ load[r].answer \in Answer
          /\ load[r].aborted \in BOOLEAN
    /\ latest \in Loads \cup {NoLoad}
    /\ detailsLoading \in BOOLEAN /\ versionsLoading \in BOOLEAN /\ failed \in BOOLEAN
    /\ \A w \in Writes :
          /\ write[w].stage \in {"free", "sent", "versions", "list"}
          /\ write[w].kind \in {"none", "update", "history", "delete", "create"}
          /\ write[w].result \in Document /\ write[w].answer \in Answer
          /\ write[w].document \in Document /\ write[w].load \in Loads \cup {NoLoad}
    /\ busy \in Entities \cup {NoEntity, "create"}
    /\ strayed \in BOOLEAN

NoVersions == [v \in 1 .. 0 |-> NoDocument]

Init ==
    /\ store = [e \in Entities |-> 1]
    /\ selected = NoEntity
    /\ card = [document |-> NoDocument, head |-> 0, viewed |-> 0, versions |-> NoVersions,
               editing |-> FALSE, draft |-> NoDocument]
    /\ load = [r \in Loads |-> NoneLoading] /\ latest = NoLoad
    /\ detailsLoading = FALSE /\ versionsLoading = FALSE /\ failed = FALSE
    /\ write = [w \in Writes |-> NoneWriting]
    /\ busy = NoEntity
    /\ strayed = FALSE

historicalView == card.viewed > 0 /\ card.head > 0 /\ card.viewed < card.head

-----------------------------------------------------------------------------
applyDetailsSnapshot(snapshot) ==
    [card EXCEPT !.document = snapshot, !.head = snapshot.version,
                 !.viewed = snapshot.version, !.draft = snapshot,
                 !.editing = FALSE]

\* The load before is aborted; its number is no longer the latest.
Aborted == [r \in Loads |->
    IF r = latest /\ load[r].stage # "free" THEN [load[r] EXCEPT !.aborted = TRUE] ELSE load[r]]

\* Names are used again, when nothing in flight holds them.
FreeLoad == {r \in Loads :
    load[r].stage = "free" /\ \A w \in Writes : write[w].load # r}

\* The effect on the selection.  The card keeps what it shows, and the draft,
\* until an answer comes.
Load(entity) ==
    \E r \in FreeLoad :
        /\ load' = [Aborted EXCEPT ![r] =
               [NoneLoading EXCEPT !.entity = entity, !.stage = "profile"]]
        /\ latest' = r
        /\ detailsLoading' = TRUE /\ failed' = FALSE /\ strayed' = FALSE
        /\ card' = [card EXCEPT !.versions = NoVersions]
        /\ UNCHANGED versionsLoading

\* Nothing is selected: the card is emptied but for the draft, and the load in
\* flight, though aborted, stays the latest.
Unload ==
    /\ load' = Aborted
    /\ card' = [card EXCEPT !.document = NoDocument, !.head = 0, !.viewed = 0,
                            !.versions = NoVersions, !.editing = FALSE]
    /\ failed' = FALSE /\ versionsLoading' = FALSE /\ strayed' = FALSE
    /\ UNCHANGED <<latest, detailsLoading>>

SelectedBecomes(entity) ==
    /\ selected' = entity
    /\ IF entity = selected THEN UNCHANGED <<shownVars, load, latest>>
       ELSE IF entity = NoEntity THEN Unload ELSE Load(entity)

\* The user or the list selects another profile, or none.
Select(entity) ==
    /\ entity # selected
    /\ SelectedBecomes(entity)
    /\ UNCHANGED <<store, write, busy>>

\* The host renders with another request id or observer: the effect runs again.
Rerun ==
    /\ selected # NoEntity
    /\ Load(selected)
    /\ UNCHANGED <<store, selected, write, busy>>

\* The server answers the read, or the request fails (always if aborted).
Read(r) ==
    /\ load[r].stage = "profile" /\ load[r].answer = "awaited"
    /\ \/ /\ store[load[r].entity] # 0
          /\ load' = [load EXCEPT ![r].answer = "ok", ![r].result =
                 [of |-> load[r].entity, version |-> store[load[r].entity]]]
       \/ load' = [load EXCEPT ![r].answer = "error"]
    /\ UNCHANGED <<store, selected, shownVars, latest, write, busy>>

\* Mutant: any answer counts.
AnyCounts(r) == TRUE
\* Both guards of the handlers: the latest load, not aborted.
Counts(r) == r = latest /\ ~load[r].aborted

\* Older versions are asked for, one request each, and awaited together.
AsksVersions(snapshot) == snapshot.version > 1
\* Mutant: versions count from 0.
MapFromZero(snapshot) ==
    [v \in 0 .. snapshot.version - 1 |-> [of |-> snapshot.of, version |-> v + 1]]
MapOf(snapshot) == [v \in 1 .. snapshot.version |-> [of |-> snapshot.of, version |-> v]]

\* The finally of a load: only the latest takes the loader away.
LoadingAfter(r) == detailsLoading /\ r # latest

\* The answer of get is in: then, catch and finally.
Loaded(r) ==
    /\ load[r].stage = "profile" /\ load[r].answer # "awaited"
    /\ LET snapshot == load[r].result
           ok == load[r].answer = "ok"
       IN  IF ok /\ Counts(r)
           THEN /\ load' = IF AsksVersions(snapshot) THEN [load EXCEPT ![r].stage = "versions"]
                           ELSE [load EXCEPT ![r] = NoneLoading]
                /\ card' = IF AsksVersions(snapshot) THEN applyDetailsSnapshot(snapshot)
                           ELSE [applyDetailsSnapshot(snapshot) EXCEPT
                                    !.versions = MapOf(snapshot)]
                /\ versionsLoading' = (versionsLoading \/ AsksVersions(snapshot))
                /\ detailsLoading' = IF AsksVersions(snapshot) THEN detailsLoading ELSE LoadingAfter(r)
                /\ UNCHANGED failed
           ELSE /\ load' = [load EXCEPT ![r] = NoneLoading]
                /\ failed' = (failed \/ (~ok /\ Counts(r)))
                /\ detailsLoading' = LoadingAfter(r)
                /\ UNCHANGED <<card, versionsLoading>>
    /\ UNCHANGED <<store, selected, latest, write, busy, strayed>>

\* loadVersionMap ends, for the load numbered number; silent: its signal was
\* aborted.  A later load keeps the loader of this one turning.
VersionsShown(snapshot, number, silent) ==
    /\ \/ /\ store[snapshot.of] >= snapshot.version
          /\ card' = IF number = latest /\ ~silent
                     THEN [card EXCEPT !.versions = MapOf(snapshot)]
                     ELSE card
          /\ UNCHANGED failed
       \/ /\ failed' = (failed \/ (number = latest /\ ~silent))
          /\ UNCHANGED card
    /\ versionsLoading' = (versionsLoading /\ number # latest)

VersionsLoaded(r) ==
    /\ load[r].stage = "versions"
    /\ VersionsShown(load[r].result, r, load[r].aborted)
    /\ load' = [load EXCEPT ![r] = NoneLoading]
    /\ detailsLoading' = LoadingAfter(r)
    /\ UNCHANGED <<store, selected, latest, write, busy, strayed>>

-----------------------------------------------------------------------------
\* Mutant: the version is named but its document is not shown.
NameOnly(v) == [card EXCEPT !.viewed = v, !.draft = card.versions[v], !.editing = FALSE]
Viewing(v) ==
    [card EXCEPT !.viewed = v, !.document = card.versions[v],
                 !.draft = card.versions[v], !.editing = FALSE]

onSelectVersion(v) ==
    /\ selected # NoEntity /\ ~detailsLoading
    /\ v \in DOMAIN card.versions
    /\ card' = Viewing(v)
    /\ UNCHANGED <<store, selected, requestVars, busy>>
    /\ UNCHANGED <<detailsLoading, versionsLoading, failed, strayed>>

\* The draft starts from the document shown, if there is one.
Drafted == IF card.document = NoDocument THEN card
           ELSE [card EXCEPT !.draft = card.document]

EditProfile ==
    /\ selected # NoEntity /\ ~card.editing /\ ~historicalView
    /\ card' = [Drafted EXCEPT !.editing = TRUE]
    /\ UNCHANGED <<store, selected, requestVars, busy>>
    /\ UNCHANGED <<detailsLoading, versionsLoading, failed, strayed>>

CancelEditing ==
    /\ selected # NoEntity /\ card.editing /\ ~historicalView
    /\ card' = [Drafted EXCEPT !.editing = FALSE]
    /\ UNCHANGED <<store, selected, requestVars, busy>>
    /\ UNCHANGED <<detailsLoading, versionsLoading, failed, strayed>>

-----------------------------------------------------------------------------
\* A write starts: setBusyEntityId, then the request.
Send(kind, entity, document, mark) ==
    /\ \E w \in Writes :
          /\ write[w].stage = "free"
          /\ write' = [write EXCEPT ![w] =
                 [NoneWriting EXCEPT !.kind = kind, !.entity = entity,
                                     !.stage = "sent", !.document = document]]
    /\ busy' = mark

\* The buttons show a loader while busyEntityId is the selected profile; nothing
\* else blocks them, not a load in flight nor a write to another profile.
Pressable == selected # NoEntity /\ busy # selected

handleUpdate ==
    /\ Pressable /\ card.editing /\ ~historicalView
    /\ Send("update", selected, card.draft, selected)
    /\ UNCHANGED <<store, selected, shownVars, load, latest>>

handleSaveHistoricalAsNew ==
    /\ Pressable /\ historicalView /\ card.document # NoDocument
    /\ Send("history", selected, card.document, selected)
    /\ UNCHANGED <<store, selected, shownVars, load, latest>>

handleDelete ==
    /\ Pressable
    /\ Send("delete", selected, NoDocument, selected)
    /\ UNCHANGED <<store, selected, shownVars, load, latest>>

\* The create dialog shares busyEntityId with the card.
handleCreate ==
    /\ busy # "create"
    /\ Send("create", NoEntity, NoDocument, "create")
    /\ UNCHANGED <<store, selected, shownVars, load, latest>>

\* Mutant: only success gives the buttons back.
BusyAfterError(w) == IF write[w].answer = "error" THEN busy ELSE NoEntity
\* The finally of every write, whoever else is busy.
BusyAfter(w) == NoEntity

\* The server stores an update as a new version, and deletes a profile.
Stored(w) ==
    CASE write[w].kind \in {"update", "history"} -> [store EXCEPT ![write[w].entity] = @ + 1]
      [] write[w].kind = "delete" -> [store EXCEPT ![write[w].entity] = 0]
      [] OTHER -> store
Storable(w) ==
    LET versions == store[write[w].entity]
    IN  CASE write[w].kind = "create" -> TRUE
          [] write[w].kind = "delete" -> versions # 0
          [] OTHER -> versions \in 1 .. MaxVersion - 1

\* Its answer arrives, or is lost on the way, or the request fails.
Serve(w) ==
    /\ write[w].stage = "sent" /\ write[w].answer = "awaited"
    /\ \/ /\ Storable(w) /\ store' = Stored(w)
          /\ write' = [write EXCEPT ![w].answer = "ok", ![w].result =
                 IF write[w].kind \in {"update", "history"}
                 THEN [of |-> write[w].entity, version |-> store'[write[w].entity]]
                 ELSE NoDocument]
       \/ /\ write' = [write EXCEPT ![w].answer = "error"]
          /\ (Storable(w) /\ store' = Stored(w)) \/ UNCHANGED store
    /\ UNCHANGED <<selected, shownVars, load, latest, busy>>

\* An update's answer is applied to the card as it is now; then its versions
\* are asked for in the name of the latest load.
Updated(w) ==
    /\ write[w].stage = "sent" /\ write[w].kind \in {"update", "history"}
    /\ write[w].answer = "ok"
    /\ LET snapshot == write[w].result
       IN  /\ card' = [applyDetailsSnapshot(snapshot) EXCEPT
                          !.versions = IF AsksVersions(snapshot) THEN NoVersions
                                       ELSE MapOf(snapshot)]
           /\ versionsLoading' = (versionsLoading \/ AsksVersions(snapshot))
           /\ strayed' = (strayed \/ snapshot.of # selected)
           /\ IF AsksVersions(snapshot)
              THEN write' = [write EXCEPT ![w].stage = "versions", ![w].load = latest]
                   /\ UNCHANGED busy
              ELSE write' = [write EXCEPT ![w] = NoneWriting] /\ busy' = BusyAfter(w)
    /\ UNCHANGED <<store, selected, detailsLoading, failed, load, latest>>

UpdatedVersions(w) ==
    /\ write[w].stage = "versions"
    /\ VersionsShown(write[w].result, write[w].load, FALSE)
    /\ write' = [write EXCEPT ![w] = NoneWriting]
    /\ busy' = BusyAfter(w)
    /\ UNCHANGED <<store, selected, detailsLoading, strayed, load, latest>>

\* A deletion deselects whatever is selected; the list selects a created one.
\* Both then await the reload of the list, and the buttons with them.
Ended(w) ==
    /\ write[w].stage = "sent" /\ write[w].kind \in {"delete", "create"}
    /\ write[w].answer = "ok"
    /\ IF write[w].kind = "delete" THEN SelectedBecomes(NoEntity)
       ELSE UNCHANGED <<selected, shownVars, load, latest>>
    /\ write' = [write EXCEPT ![w].stage = "list"]
    /\ UNCHANGED <<store, busy>>

\* onListRevalidate is over.
ListReloaded(w) ==
    /\ write[w].stage = "list"
    /\ write' = [write EXCEPT ![w] = NoneWriting]
    /\ busy' = BusyAfter(w)
    /\ UNCHANGED <<store, selected, shownVars, load, latest>>

\* A failed write leaves the card as it was, with its draft.
Refused(w) ==
    /\ write[w].stage = "sent" /\ write[w].answer = "error"
    /\ write' = [write EXCEPT ![w] = NoneWriting]
    /\ busy' = BusyAfter(w)
    /\ UNCHANGED <<store, selected, shownVars, load, latest>>

\* Somebody else saves a version of a profile; by the bound they leave room for
\* one more.
OtherWrites(e) ==
    /\ store[e] \in 1 .. MaxVersion - 2
    /\ store' = [store EXCEPT ![e] = @ + 1]
    /\ UNCHANGED <<selected, shownVars, requestVars, busy>>

LoadStep(r) == Read(r) \/ Loaded(r) \/ VersionsLoaded(r)
WriteStep(w) ==
    Serve(w) \/ Updated(w) \/ UpdatedVersions(w) \/ Ended(w) \/ ListReloaded(w)
    \/ Refused(w)

Next ==
    \/ \E e \in Entities \cup {NoEntity} : Select(e)
    \/ Rerun
    \/ \E r \in Loads : LoadStep(r)
    \/ \E v \in 1 .. MaxVersion : onSelectVersion(v)
    \/ EditProfile \/ CancelEditing
    \/ handleUpdate \/ handleSaveHistoricalAsNew \/ handleDelete \/ handleCreate
    \/ \E w \in Writes : WriteStep(w)
    \/ \E e \in Entities : OtherWrites(e)

Spec == Init /\ [][Next]_vars

-----------------------------------------------------------------------------
\* Once the card has loaded without error, everything it shows is of the
\* selected profile: the document, the versions to choose from, the draft.
\* Violated: the answer of a save fills the card of whatever is selected then.
ShownIsSelected ==
    selected # NoEntity /\ ~detailsLoading /\ ~failed =>
        /\ card.document.of = selected
        /\ card.editing => card.draft.of = selected
        /\ \A v \in DOMAIN card.versions : card.versions[v].of = selected

\* What the guards of the card achieve, whatever the user presses and however
\* answers overtake each other: it shows the selected profile, unless since its
\* last load the answer of a save to another profile was applied to it.  In
\* particular a load never undoes another, and versions asked for by a save
\* before the last load never get in.
ShownUnlessStrayed == ~strayed => ShownIsSelected

\* No draft and no old version of one profile is sent to become a version of
\* another.  Violated: Save can be pressed while the profile selected since then
\* loads, and sends the draft that is still in the editor.
WritesItsOwn ==
    \A w \in Writes :
        write[w].kind \in {"update", "history"} =>
            write[w].document.of \in {write[w].entity, NoEntity}

\* "Save snapshot as new version" sends the version whose number is on screen,
\* and each number to choose stands for that version, whichever load, of the
\* head, of older versions or after a save, filled them in last; and of the
\* selected profile, with the exception above.
HistoryIsTheViewed ==
    /\ card.document.version = card.viewed
    /\ \A v \in DOMAIN card.versions : card.versions[v].version = v
    /\ historicalView /\ ~detailsLoading /\ ~failed /\ selected # NoEntity /\ ~strayed =>
          card.document = [of |-> selected, version |-> card.viewed]

\* Nothing is blocked for nothing: the loader instead of the document turns
\* only while the latest load runs, and buttons are blocked only while a write
\* or the reload of the list after it does.  Every way a load or a write ends,
\* overtaken, after its versions or by an error, brings them back.
BlockedIsAwaited ==
    /\ detailsLoading => latest # NoLoad /\ load[latest].stage # "free"
    /\ busy # NoEntity => \E w \in Writes : write[w].stage # "free"
=============================================================================
