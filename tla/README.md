# TLA+ verification of AprilProfile

AprilProfile keeps versioned profiles of entities for several tenants: a Go
service and an Asynq worker over PostgreSQL, and React widgets over its HTTP
API. This directory models the parts of it where transactions, workers and
administrators meet, and the widgets where answers of requests, selections and
edits cross each other; it model-checks them with TLC and proves with TLAPS, for
every value of the constants, all safety properties that hold. Where the code
does not keep what a document or a comment says, the property is stated all the
same, and a configuration shows the behaviour.

    tlc -workers 2 -config store_versions.cfg MCProfileStore
    tlc -workers 2 -config profile_detail.cfg MCProfileDetail
    tlapm ProfileStoreProofs.tla
    tlapm CreateFormProofs.tla

## The system

| Component | State | Operations | Interacts with |
|---|---|---|---|
| Profile service (`internal/profiles`) | `entities`, `profile_versions`, `external_id_mappings`, `profile_field_conflicts`, `admin_audit_log`, rows of `profile_outbox` | Create, Update, Delete, UpgradeEntityBinding, BatchUpgradeEntityBinding, ResolveFieldConflict, MergeEntityProfiles; Get*, List, ListOpenConflicts | reads the catalog's revisions; fills the outbox in its own transactions |
| Field authority (`authority*.go`, `document_paths.go`) | none (pure) | merge of a write, merge of a duplicate, flatten and unflatten | called by the profile service |
| Entity type catalog (`internal/entitytypes`) | `entity_type_families`, `_drafts`, `_revisions` | CreateDraft, UpdateFamilyMeta, SaveDraft, Publish, DeleteFamily; Get, List, ListRevisions | entities reference families and revisions |
| Outbox delivery (`internal/asyncjobs/handlers.go`) | `profile_outbox` status, attempts, `next_retry_at` | handleOutboxBatch | Publisher (a broker) |
| Source synchronisation (`asyncjobs/sync.go`) | `source_sync_checkpoints`, `source_sync_applied_events` | handleSourceSync | external sources |
| Worker process (`internal/workerapp`) | Asynq queues in Redis | scheduler ticks, retries, shutdown | runs the handlers above |
| HTTP API, attribute policies, authentication | none | routes, roles, filtering, error mapping | calls the services |
| Data providers and request runtime (`profile-ui/src/providers`, `generated/core`) | a promise, an abort listener and a fetch per call | one method per operation, withSignal, cancel, mapping of errors | HTTP API; called by the widgets |
| Profile widget: list and layout (`ProfilesWidgetCore.tsx`) | query, rows, cursor, selection, layout, session of the create form | load, next page, search, select, switch view, add, reload after writes | mounts the card, gives it callbacks |
| Profile widget: card (`ProfilesWidgetProfileDetailCore.tsx`) | document, versions, version viewed, draft, busy mark, number of the latest load | load, view a version, edit, save, save an old version as new, delete | profile provider; calls the list back |
| Profile widget: create dialog (same file, `EntityTypesDraftJsonEditor.tsx`) | chosen type, its published schema, document in four views | open, choose a type, edit, switch view, create | profile and entity type providers |
| Entity types widget (`EntityTypesWidget*Core.tsx`) | families, selection, draft and its version, revisions, upgrade page and picks, busy marks | create, save draft, publish, rename, delete, upgrade one, some or all | entity types provider |
| Host wrappers (`*ApiWidget*.tsx`), names, telemetry | none of their own | build a provider, hand props on | the widgets |

What is hard in it: transactions run at READ COMMITTED, so each statement sees
what was committed before it and only row locks keep what an earlier statement
read; deletes cascade through five tables; batches publish inside a transaction
that may roll back; DeleteFamily and Publish take row locks in opposite orders;
several sources write the same fields under priorities. In the widgets every
press starts a request whose answer finds another state than it left: presses,
answers, errors, aborts and what other users save come in any order.

What makes each part correct:

* profile service: no update is lost, one version per change and one event per
  version, versions are never rewritten, a field is not handed to a weaker
  source, an external key moves only by a merge, a decision on a conflict
  stands, a document satisfies the revision it is bound to, no deadlocks;
* outbox: a row is worked on by one batch, published means sent, events are
  neither dropped nor pending for ever, and keep the order of versions;
* catalog: a revision is the draft it came from, numbers are dense, an editor
  does not overwrite a draft he did not see, bound revisions exist, a published
  family is not deleted, every request ends;
* synchronisation: an event is applied once, the cursor does not go back;
* requests: the widget hears what the server said, an aborted call holds nobody
  up and leaves no listener behind;
* widgets: what is shown and edited belongs to what is selected, what is sent
  belongs to where it is sent, a draft saved elsewhere is not overwritten
  unseen, and no loader or busy button stays behind.

## Modules

| Module | What it is | Source |
|---|---|---|
| `Authority` | documents, priorities and merges, as operators | `authority.go`, `authority_merge.go`, `document_paths.go`, `service_helpers.go` |
| `ProfileHistory` | the abstract store: histories to which versions are appended and announced | ADR-0003 items 1, 3, 5 |
| `ProfileStore` | the profile service's transactions, statement by statement | `service.go`, `service_upgrade.go`, `service_admin.go`, `outbox.go` |
| `ProfileStoreProofs` | theorems about `ProfileStore` | |
| `OutboxWorker` | writers, batches, retries, timeouts | `asyncjobs/handlers.go`, `publish_retry.go`, `workerapp/run.go` |
| `OutboxWorkerProofs` | theorems about `OutboxWorker` | |
| `EntityTypeCatalog` | administrators' transactions on families | `catalog.go`, `catalog_more.go`, `schema_validation.go` |
| `EntityTypeCatalogProofs` | theorems about `EntityTypeCatalog` | |
| `ApiRequest` | calls of the providers, from withSignal to the server's answer | `providers/openapi*Provider.ts`, `providers/*ApiErrors.ts`, `generated/core/request.ts`, `CancelablePromise.ts` |
| `ApiRequestProofs` | theorems about `ApiRequest` | |
| `DraftEditor` | the editor of a JSON document in four views, as operators | `EntityTypesDraftJsonEditor.tsx` |
| `CreateForm` | the dialog that creates a profile | `ProfilesWidgetProfileDetailCore.tsx` |
| `CreateFormProofs` | theorems about `CreateForm`, refinement of `ApiRequest` included | |
| `ProfileDetail` | the card of a profile | `ProfilesWidgetProfileDetailCore.tsx` |
| `ProfileDetailProofs` | theorems about `ProfileDetail` | |
| `ProfilesList` | the list beside it and the layout of both | `ProfilesWidgetCore.tsx` |
| `ProfilesListProofs` | theorems about `ProfilesList` | |
| `EntityTypesWidget` | list and card of entity types | `EntityTypesWidgetCore.tsx`, `EntityTypesWidgetDetailCore.tsx` |
| `EntityTypesWidgetProofs` | theorems about `EntityTypesWidget` | |
| `MC...` | constants, schemas and symmetry sets for TLC | |

`ProfileStore` EXTENDS `Authority` and instantiates `ProfileHistory`.
`OutboxWorker` takes over the rows that `ProfileStore` announces: its
BeginWrite, CommitWrite and DeleteEntity are what the profile service does to
`profile_outbox`. `EntityTypeCatalog` keeps of the profile service only which
revisions entities are bound to, and `ProfileStore` of the catalog only Publish.
`CreateForm` EXTENDS `ApiRequest` and `DraftEditor`: the dialog composed with
its requests. `ProfileDetail`, `ProfilesList` and `EntityTypesWidget` rely on
what `ApiRequest` shows (each call is answered once, truly, or ends in an error)
and keep of a request only that it is awaited, answered or aborted. The list
keeps of the card where it is mounted, its create form and its writes; the card
keeps of the list that it may select anything.

### ProfileStore

A request is a transaction in flight. `pc[r]` says between which two of its
statements it stands and `job[r]` what it has read; `lock[e]` is the row lock
of SELECT ... FOR UPDATE on `entities`. Two simplifications keep the state
small and lose no behaviour:

* statements that read only rows guarded by a lock the transaction already
  holds see the same rows whenever they run, and are one action with the
  statement that took the lock;
* rows written are invisible until COMMIT, and writers of one entity exclude
  each other by its lock, so all writes of a transaction are one action with
  its COMMIT. `Rollback` may take place before it at any point.

The order in which concurrent inserts of the same external key wait for each
other on the unique index is lost by this; the outcome (one of them fails) is
not. A request the service refuses before it writes is no action, a value the
code computes from a parameter is a parameter chosen by the action that first
uses it.

| Code | Actions |
|---|---|
| Create | CreateValidate, CreateInsert: the schema is read in one statement, the revision bound in a later one |
| Update | UpdateLoad, then UpdateCommit (a new version) or UpdateBlocked (only conflict rows) |
| UpgradeEntityBinding | UpgradeLoad, UpgradeWrite |
| BatchUpgradeEntityBinding | BatchGiven or BatchBehind; per entity BatchLoad and UpgradeWrite, or BatchSkip (refused before it locks), or BatchFail (rolled back after; the batch goes on); BatchEnd |
| ResolveFieldConflict | ResolveRead (no lock yet), ResolveLock, ResolveWrite |
| MergeEntityProfiles | MergeLock, MergeLoad, MergeWrite |
| Delete | Delete, with what the foreign keys cascade to |
| Catalog.Publish | Publish |

A batch takes its entities in any order, which includes the order of the code.
A document is a function from paths to cells (value and recorded source); paths
are assumed prefix-free, where flattenDocument and unflattenDocument are
inverse. A schema is the set of values it allows for each field, and whether it
is closed: the stored document that an upgrade validates carries `_meta`, which
a closed schema refuses.

### OutboxWorker

`rows[x]` is the committed row of event x = <<entity, version>>; `created` is
the begin of its transaction (PostgreSQL's now()), which `BeginWrite` draws and
`CommitWrite` stores, so rows may appear in another order than their
`created_at`, but for the first version: a profile's id is known only from its
creation, so every other write of it begins later. A batch holds the rows it
selected (`held`), notes an outcome for each (`result`) and writes all of them
at its commit; `sent` is what the broker accepted and survives any rollback.
`waiting` stands for a `next_retry_at` in the future, of whatever length.
`SlowBudget` is the number of 30 second publish calls that exhausts the task's
timeout (6 for the default 3 minutes, with batches of 32); with `SlowBudget` at
most `BatchLimit`, `Expire` ends batches. The broker is external: it may take an
event and report a failure. The branch for payloads that are not JSON is left
out: the column is jsonb, and the branch cannot be reached.

### EntityTypeCatalog

An administrator has one request in flight and looks at one record (`seen`).
`draftLock` is FOR UPDATE of a draft, held by SaveDraft and Publish;
`familyLock` is what DELETE holds on the family. An insert of a revision or an
entity needs a share of the family's row. `BindEntity` binds any published
revision, as an upgrade does. A family's DELETE locks the family,
then cascades to revisions (refused if an entity is bound to one) and to the
draft, where it may wait for a Publish that in turn waits for the family:
`DeadlockVictim` is PostgreSQL failing one of the two.

### ApiRequest

A provider's method starts a generated request at once and then waits for it in
withSignal, which an AbortSignal may interrupt. For each call three parties run
apart: `exec` is the executor of request() (headers, fetch, body), `wait` is
where withSignal stands between its two looks at the signal, its listener and
its end, and `aborted` are the signals somebody aborted. A call settles its
promise (`Settle`), `answer` is the code the widget is told. Several calls
may share a signal. `Forget` is no step of the code: it frees the name of a call
that is over everywhere, so that a behaviour is not bounded in calls. The server
and the browser's fetch are external: any status of `Replies`, no connection,
no body, or never an answer.

### CreateForm and DraftEditor

A press is rendered by React, and its effects run, before the next event: one
step. What an answer changes is rendered later, so `TypesListed` and `Created`
only leave `due`, and `Rendered` runs the effect; other answers may come
between. The schema effect aborts the request before and makes the new one the
latest (`schemaCall`). Each schema request has a controller of its own: Signals
= Calls. The type may be taken back to none. The name field is the choice between
Create and CreateRefused.
`DraftEditor` is one record (view, value, text) and one operator per handler of
the editor; a text is named by the document it parses to, or is `Broken`.

### ProfileDetail

A document is known by the profile and the version it was read from, which the
code cannot see; it is how a draft of one profile is told from a draft of
another, and one version from the next. Typing changes what a draft says, not
what it is a draft of, and is no step (`DraftEditor` is about what is typed).
`load[r]` is a load in both its stages (the head, then older versions), `latest` is
`detailsRequestIdRef`, `write[w]` a write and, for updates, the load of the
versions after it, under whichever load was the latest by then. `Serve` and
`Read` let the server act before the answer is heard, and an answer may be lost
after the server stored the write. Others save versions meanwhile
(`OtherWrites`).

A write that succeeded awaits the reload of the list before its `finally` gives
the buttons back: stage "list", ended by `ListReloaded`.

The user is not assumed to wait for anything: no button of the code is blocked
while another profile loads, and rows can be selected while a write runs. Loads
are guarded (`Counts`); the answer of a save is not, and fills the card of
whatever is selected by then. `strayed` is a history variable, which no action
reads: since the last load was asked for, such an answer was applied.
ShownUnlessStrayed says that nothing else brings another profile onto the card;
`profile_detail_switch` and `profile_detail_save.cfg` show what it brings.

### ProfilesList

The server is external and a page is any sequence of distinct profiles, since
rows move between the requests of two pages; a row remembers the query it was
listed for. `NewRows` is the filter of loadList: the k-th new row of a page is
the one with k new rows up to its place, which says what the filter returns in a
form that can be reasoned about for pages of any size. `CardMount` is where the
layout puts the card: beside the list, in a modal or sheet, out of sight,
nowhere; a card that is mounted elsewhere loses its create form. A write keeps
the callbacks of the render it was pressed in, and with them that render's
query, while the search box stays enabled. `outdated` is a history variable: the
list was last reloaded by a write of another query than the one on screen.
OneQueryUnlessOutdated says that nothing else mixes queries.

### EntityTypesWidget

Every change that succeeds reloads the list, and while the list loads a loader
replaces the whole widget: the card is unmounted with its requests in flight
(`Orphaned`) and mounted anew. The server handles a request when its answer
arrives; whatever others do between is as if done later, as only
`SavedElsewhere` depends on it. `Created` are the families there are when the
widget mounts. `busy` is one mark for all writes of a card, as in the code; it
blocks the button that set it, and no other: rows can be selected, and everything
else pressed, while answers are awaited. The cursor of the upgrade page is "there
may be more".

The details of a family are guarded (`Counts`). The answers of Publish and of
"Reload draft" are not, nor is a page of the upgrade tab: they fill the card of
whatever family is selected by then. `card.strayed` is history, which no action
reads: "draft" or "rows" are in it once such an answer for another family was
applied, until the next load takes its traces away. ShownUnlessStrayed and
RowsUnlessStrayed say that nothing else brings another family's data.

## Runs

| Run | Question | Result |
|---|---|---|
| `store_versions` | two transactions on one profile; two fields, three sources, two revisions | holds |
| `store_identity` | two profiles, two types, two external keys; merges, deletes, deadlocks, refinement | holds |
| `store_double_resolve` | ResolutionIsFinal | violated: two operators, both decide |
| `outbox_batches` | two workers, three events of one profile, failures, timeouts, one crash, with liveness | holds |
| `catalog_requests` | two administrators on one family, with liveness | holds |
| `catalog_delete` | OnlyUnpublishedDeleted | violated: Publish between the count and the DELETE |
| `create_form` | the create dialog over its requests: two types, one without a schema, two calls in flight | holds |
| `profile_detail` | the card: two profiles, two loads, a write, others who save; anything pressed at any time | holds |
| `profile_detail_switch` | ShownIsSelected for a user who selects while a save runs | violated: the answer of a save is applied to whatever is selected |
| `profiles_list` | two queries that change at any time, overlapping pages, errors, reloads, writes, all layouts | holds |
| `entity_types_widget` | two families: selected, renamed, published, deleted, upgraded, at any time | holds |
| `entity_types_draft` | one family: created, saved here and elsewhere, deleted, at any time, with liveness | holds |

The violated properties are what a design document or a comment says;
PROJECT.json quotes each.

More properties are stated in the modules because a document says them, and the
code does not keep them. Each has a configuration of its own beside the regular
runs, in which TLC finds it violated in seconds and prints a shortest behaviour
(`tlc -config X.cfg MCProfileStore`, and likewise for the other modules):

| Configuration | Property | What the code does | What is said |
|---|---|---|---|
| `store_create_race.cfg` | NewEntityConforms | Create validates against one revision and binds another that was published in between (`service.go:121-139`) | the bound revision is the one "по которой документ профиля должен интерпретироваться и валидироваться" (`docs/adr/0005-entity-type-revisions-and-entity-binding.md:14`) |
| `store_update_schema.cfg` | DocumentConforms | Update, Resolve and Merge validate nothing (`service.go:231`) | the same |
| `outbox_order.cfg` | SentInVersionOrder | rows go by the start of their transaction; one that failed waits, or is rolled back, while later ones go (`handlers.go:78`) | "порядок по сущности — по `profile_version`" (`docs/adr/0003-april-profile-data-model-policies.md:15`) |
| `outbox_dropped.cfg` | NoPendingEventDropped | the cascade of a deletion takes undelivered events (`20260423120000_profile_outbox.sql:24`) | "доставка at-least-once" (the same line) |
| `outbox_timeout.cfg` | EventuallySettled | a batch that uses up its timeout rolls its attempts back and starts again, for ever; the defaults allow it (32 calls of 30 s, 3 minutes) | the retries are there against «"залипание" вечного `pending`» (`docs-site/docs/task-story-017-async-retries-dlq.md:16`) |
| `profile_detail_save.cfg` | WritesItsOwn | another profile is selected; before it has loaded, Save stores the draft of the first as its new version (`ProfilesWidgetProfileDetailCore.tsx:658`) | "отсутствие stale UI при быстрых действиях" (`tasks/047-phase-6-profiles-widget-test-matrix-and-release-gate/PLAN.md:60`) |
| `profiles_list_write.cfg` | OneQuery | a write that ends after the search was changed reloads the list for the search before (`ProfilesWidgetCore.tsx:409`) | "После create/update/delete список и detail остаются консистентными" (`docs/WIDGET_CONTRACTS.md:121`) |
| `entity_types_switch.cfg` | ShownIsSelected | another family is selected while Publish or "Reload draft" runs; the answer fills its card (`EntityTypesWidgetDetailCore.tsx:419`, `:453`) | "отмена in-flight через `AbortSignal` в `ProviderContext`" (`docs/WIDGET_CONTRACTS.md:166`) |
| `entity_types_save.cfg` | NoForeignOverwrite | such a draft is saved over the other family's, as the version numbers agree (`:369`) | "optimistic concurrency: `if_draft_schema_version`" (`docs/WIDGET_CONTRACTS.md:176`) |
| `entity_types_page.cfg` | UpgradesItsOwn | a page of the family before arrives late, and its profiles are upgraded as this family's (`:312`) | reads are cancelled "при смене выбора / размонтировании" (`docs/WIDGET_CONTRACTS.md:181`) |

For the outbox's timeout and for what the widgets show, a passing run checks the
rest of the claim: SettledUnlessExpiring, ShownUnlessStrayed of both cards,
OneQueryUnlessOutdated and RowsUnlessStrayed name the way in which the code
breaks it, and say that there is no other.

Two configurations hold and repeat a run elsewhere in its bounds:
`outbox_profiles.cfg` (two profiles of two versions, safety only) and
`entity_types_conflict.cfg` (NoBlindOverwrite with a revision published in
between).

**Bounds.** A lost update, a double event or a stale check takes two
transactions on one entity, so two requests with two versions (the first and the
one written over it) show it; `MaxVersions`, `MaxRevisions` and `MaxConflicts`
cut off the rest. Two fields are needed for a write that is partly applied and
partly blocked, three sources for equal, higher and lower priority ("manual",
"hris", "api"). Two revisions let a Publish fall inside any operation. A merge
needs two entities; two requests then show both directions of a merge, and a
resolve or an update against it. In the outbox three events and batches of two
give batches that are full and ones that overlap, two attempts separate "again"
from "given up", and two slow calls exhaust a batch, so that a batch of two slow
failures expires. In the catalog three saves and two revisions let a draft be saved,
published and saved again. In `create_form` (2.2 million states) two calls are
enough for a late answer to meet a newer request, since names are used again;
two documents and a broken text tell a lost edit from a kept one; a type with
and one without a published schema give the panel's endings; statuses 200 and
409 stand for success and a code that is treated specially. In `profile_detail`
(1.9 million) two profiles and two loads let an answer be overtaken, three
versions let others save under a user's edit; one write is in flight, and that
more of them keep the invariants is left to the theorems. In `profiles_list`
(0.6 million) pages of up to two of two profiles overlap in every way. In
`entity_types_widget` (3.5 million) one of two families has a revision; two
requests let an answer be overtaken, or be orphaned. In `entity_types_draft`
(1.3 million) one family has three draft versions: a save can be overtaken,
refused, reloaded and repeated. Symmetry is used over requests, workers,
profiles and queries, and nowhere in runs with liveness. Deadlock is checked in
the runs of the store and of the widgets' lists and cards, where something can
always be begun or pressed; it is off where the bounds or the absence of work
really end a behaviour (all entities deleted, all events settled; in `create_form`, calls
that stay unanswered and use up the names, which is the bound's doing and not
the code's).

**Fairness.** Store: none, all its properties are safety. Outbox: the scheduler
registers a batch every OUTBOX_INTERVAL (`workerapp/run.go:116`) and Asynq has a
worker take it (weak fairness of Select); a batch that runs goes on to its
commit or timeout (Batch); clocks move (Elapse). No fairness of the broker is
assumed: it may fail always. Catalog: a request that began goes on (Step of each
administrator); strong fairness, because PostgreSQL queues those who wait for a
row lock, so what is free again and again is granted at last. Nobody has to
begin a request, and Rollback is never forced. RequestsEnd speaks of requests
that hold or have read something; one that still waits for its first row has not
begun. Entity types widget: while requests are in flight the browser ends one of
them, with an answer or an error (weak fairness of their union). This is an
assumption on the network: the code sets no timeout of its own. Nobody has to
press anything, and Settles speaks of behaviours in which presses have ended.
The other widget modules state no fairness: that loaders end is there the safety
property that somebody still waits for what will end them (LoaderIsAwaited, BlockedIsAwaited), which no network can spoil.

## Theorems

Every invariant and every safety action property of the passing runs is the
statement of a theorem below, for every value of the constants; what a run shows
of a small instance, its theorem shows of all. Each component has one inductive
invariant (`Core`, `FormInv`, else `Inv`), proved by a lemma per action or per
kind of action, from which the properties follow. The invariants themselves were
checked by TLC on the runs' instances before they were proved.

### The store

`ProfileStoreProofs` proves, for every set of requests, entities, families,
keys, fields, sources and schemas, and every value of the bounds:

| Theorem | Statement |
|---|---|
| `TypeCorrect` | Spec => []TypeOK |
| `LoadedAlwaysCurrent` | Spec => []LoadedIsCurrent |
| `AuthorityTheorem` | Spec => []AuthorityNeverWeakens |
| `OutboxTheorem` | Spec => []VersionsAnnounced |
| `UpgradesTheorem` | Spec => []UpgradeValidated |
| `KeysTheorem` | Spec => KeysFollowMerge |
| `DeadlockFree` | Spec => []NoDeadlock, if Requests is finite |
| `Refinement` | Spec => ImplementsHistory |
| `CoreAlways` | Spec => []Core, the inductive invariant |

Assumptions are the named ASSUMEs of `Authority` and `ProfileStore`: sources
contain "manual" and "api", NoValue is no value, there is a field and a family,
entity identifiers are ordered (the lock order of a merge), schemas are schemas.
`DeadlockFree` alone needs finitely many requests: each is a connection of the
pool, and infinitely many could wait along an endless chain without a circle.

The argument: LoadedIsCurrent is not inductive alone. `Core` adds that live
entities have a version and others none (Existence), and that a request past
its first statement names entities, and a merge between its two locks already
holds the first and knows it alive (WellFormed). `CoreNext` takes the request
that acts and every other apart: the acting one is `StepActor`, and for the
others it is enough that a step leaves alone the rows they hold (`StepKeeps`).
`StepKind` then reduces the actions to five kinds of step: quiet, a birth, a
new version, a retirement, and an absorption of one history by another. Every
proof after that is by these kinds: the authority of a new version (by lemmas on
the three merges), the outbox, and the map to ProfileHistory, whose four actions
are the four loud kinds.

Upgrades: a document is validated in one statement and written in a later one.
`Targets` says that meanwhile the revision a request upgrades to exists and
accepts the document it has loaded; it stays so because revisions are only added
(`RevisionsGrow`) and an entity keeps its family (`FamilyFixed`). `Bindings` and
`RowsNamed` say that bound and announced revisions exist. So a version whose
event names another revision than the one before it can only come from an
upgrade, and conforms.

Keys: only four kinds of step touch external keys or the audit log (`Tying`):
a write that maps its own keys, a deletion, a merge, and the entry of a
decision. `MergedGone` says that an entity the audit log calls merged stays
gone, so a later deletion is never taken for a merge.

Deadlocks: `LocksHeld` says which locks a request may hold where it stands: that
of its entity, and in a merge that of the lesser of its two entities before it
asks for the greater. A request that waits for another of a set then waits for
a lock held by one that either waits for nothing or for a greater lock; in a
finite set somebody waits for the greatest (`Greatest`), and its holder does not
wait.

### The outbox

| Theorem | Statement |
|---|---|
| `OutboxInvariant` | Spec => []Inv, the inductive invariant |
| `OutboxTypes` | Spec => []TypeOK |
| `BatchesAreDisjoint` | Spec => []BatchIsCurrent |
| `PublishedMeansSent` | Spec => []PublishedWasSent |

For any number of workers, profiles and attempts, any size of a batch and any
timeout, that are at least 1 where the code's are. `Inv` adds that a pending row
has attempts left (`Counted`; the type of the counter rests on it) and that a
batch notes "ok" only of what the broker took (`NotedWasSent`), since the table
says "published" only later, from that note. A batch publishes its rows oldest
first; that there is an oldest is `LeastNatural`.

### The catalog

| Theorem | Statement |
|---|---|
| `CatalogInvariant` | Spec => []Inv, the inductive invariant |
| `CatalogTypes` | Spec => []TypeOK |
| `RevisionsHaveNoGap` | Spec => []RevisionsDense |
| `BindingsExist` | Spec => []BoundExists |
| `RevisionIsItsDraft` | Spec => PublishedIsDraft |
| `NoDraftIsLost` | Spec => NoLostDraft |

For any number of administrators, families, schemas, saves and revisions. `Inv`
says who holds the locks of a family's rows (`Locks`: exactly the request
between the statement that takes one and its end) and that therefore what a save
(`Saves`) or a publication (`Publishes`) has read is still what the row says.
NoLostDraft needs `Views`: a version number names one draft for ever, so whoever
saves under the number he saw replaces what he saw. It stays true through a
deletion and a new family under the same key because identifiers are not used
again (`born`).

### Requests and the create dialog

For any calls that share any signals, any replies, types, documents and number
of calls in flight:

| Theorem | Statement |
|---|---|
| `RequestInvariant` | RequestSpec => []Inv, the inductive invariant |
| `ListenersRemoved` | RequestSpec => []NoListenerLeft |
| `AnswersTrue` | RequestSpec => []AnswerIsTheServers |
| `AbortsRelease` | RequestSpec => []AbortReleases |
| `EveryCallIsARequest` | Spec of the dialog => RequestSpec |
| `FormTypeCorrect` | Spec => []TypeOK |
| `FormAlways` | Spec => []FormInv, the inductive invariant |
| `SchemaTheorem` | Spec => []SchemaIsOfChosenType |
| `LoaderTheorem` | Spec => []LoaderIsAwaited |
| `SwitchTheorem` | Spec => SwitchKeepsDocument |

Assumptions are the named ones of `ApiRequest`, `DraftEditor` and `CreateForm`:
"no signal" is no signal, replies are statuses, broken text is no document,
every call may have a controller of its own, names of calls are numbers.

The argument for requests: none of the three is inductive. `CallOK` says for one
call how `wait`, `exec`, `promise`, `reply`, `answer` and its listener fit
together: a caller who waits on a signal has a listener, a promise came to
"body" or "empty" only after an ok status, a listener whose signal is aborted has
been cancelled. A step moves one call and aborts signals, so one lemma takes the
moving call, one the others. The dialog implements RequestSpec (each step is a
step of the requests or leaves them alone), and the three theorems hold of its
calls (`FormListenersRemoved` and its neighbours). What is left is about the one
request whose answer counts: `CallsKnown` says each schema request has its own
controller, so aborting the one before touches nobody else; `PanelKnown` says
that once the effect has run, a loader has the latest request waiting, and what
that one brings is of the chosen type. The quiet steps, the effect, an arrival
and the reuse of a name each have their lemma.

### The list

| Theorem | Statement |
|---|---|
| `ListInvariant` | Spec => []Inv, the inductive invariant |
| `ListTypes` | Spec => []TypeOK, no profile listed twice included |
| `RowsAreOfTheQuery` | Spec => []OneQueryUnlessOutdated |
| `SelectionIsARow` | Spec => []SelectedIsListed |
| `LoadersAreAwaited` | Spec => []LoaderIsAwaited |

For any profiles, searches, page sizes and numbers of requests. `Loaders` says
that a loader turns exactly while the latest request is under way, and that the
one which replaces the widget stands over an empty list; `Rows` that, unless a
write of another query reloaded the list last (`outdated`), the rows and the
latest request are of the query on screen, or the rows are about to be replaced.
That a page adds no row twice rests on `Places`: the places of the new rows of a
page are the numbers from 1 to their count, each once.

### The card

| Theorem | Statement |
|---|---|
| `CardInvariant` | Spec => []Inv, the inductive invariant |
| `CardTypes` | Spec => []TypeOK |
| `BlockedOnlyWhileAwaited` | Spec => []BlockedIsAwaited |
| `CardShowsTheSelected` | Spec => []ShownUnlessStrayed |
| `HistoryIsNamedRight` | Spec => []HistoryIsTheViewed |

For any profiles and numbers of versions, loads and writes. `Base` says what
answers bring: a document of the profile that was asked for or saved. `Steady`:
the latest load is of the selected profile and not aborted, versions are listed
under their own numbers, what is blocked is awaited. `Shown` holds until a
save's answer strays: the versions that any request will bring come under the
number of a load of the selected profile, or do not count
(`VersionsOfSelected`); and once the head of the latest load has arrived,
document and draft are the selected profile's (`CardOfSelected`). No theorem
assumes anything of the user.

### Entity types

| Theorem | Statement |
|---|---|
| `WidgetInvariant` | Spec => []Inv, the inductive invariant |
| `WidgetTypes` | Spec => []TypeOK |
| `WidgetShowsTheSelected` | Spec => []ShownUnlessStrayed |
| `RowsAreOfTheFamily` | Spec => []RowsUnlessStrayed |
| `SavesOverwriteWhatTheyRead` | Spec => NoBlindOverwrite |

For any families, bounds and numbers of requests, and for any user. `Inv` is
`Types`, `Steady` and `Right`. `Steady`: while the list loads no card waits for
an answer (`Unmounted`), what is shown of a draft is the draft that was read
(`Applied`, which is all that NoBlindOverwrite needs: a save sends a draft with
the version that came with it), the latest read is of the selected family
(`LatestDetail`), and two dialogs are not open at once (`DialogAlone`). `Right`
is the two properties themselves, inductive with that.

### Only model-checked

Liveness (SettledUnlessExpiring, RequestsEnd, Settles): TLAPS 1.4.5 proves
nothing about fairness and ENABLED. The properties that the code violates, of
which TLC shows the behaviour. No property is about a recursive definition;
histories, pages and maps of versions are functions on 1..n, so nothing needed
induction over data.

## Not modelled

What a next step would take up, most important first:

1. `SourceSync`: checkpoints, applied events, two workers on a first run, tenants
   behind one that fails.
2. `DocumentPaths`: flatten and unflatten over colliding paths, against a
   reference; until then paths are prefix-free.
3. `ExternalRefs`: waits on the unique index and their deadlock.
4. `ProfileReads`: the two statements of a read, and pages over versions that
   move.
5. HTTP API, attribute policies, authentication: decisions of one request, as
   operators against their documentation.
6. The schema panel of the card, which loads and aborts as the one of the
   create dialog; hazards of the widgets beyond the listed ones: a create whose
   answer was lost and is pressed again, requests without a timeout of their
   own, entity types that arrive late and reopen a dialog that was closed,
   unsaved edits lost when a write elsewhere in the widget reloads the list.
7. Compositions: store with outbox (an announced version is delivered), store
   with catalog (a bound revision is never deleted), list with card (the card's
   writes and the list's reloads).
8. Proofs: the compositions of item 7 as refinements (the card's writes as
   `ApiRequest` calls, as for the create dialog; the store's deletions and
   announcements as the writers of `OutboxWorker`); what an abstract
   specification of the catalog promises, as `ProfileHistory` does for the store.

Left out for good: the host wrappers of the widgets (no state: what a change of
their props does is Rerun of the widgets' modules), display names and
telemetry, the mapping of fields of bodies in the providers, the generated
services (the providers do not use them), demos and mocks, the documentation
site, deployment, metrics and configuration (no protocol), the one-time data
conversion of the migrations, and the JSON Schema, JWT, Asynq, React, browser
and PostgreSQL implementations, which are modelled by what the code relies on.
