---------------------------- MODULE ProfileStore ----------------------------
(***************************************************************************)
(* The profile service over PostgreSQL (internal/profiles): concurrent     *)
(* requests, each a READ COMMITTED transaction whose statements interleave *)
(* with those of the others.                                               *)
(*                                                                         *)
(* Requests are the server's transactions in flight.  A request is idle,   *)
(* or between two statements of its transaction (pc), with what it read so *)
(* far (job).  SELECT ... FOR UPDATE on an entity is lock[e].  Statements  *)
(* that only touch rows guarded by a held lock are one action with the     *)
(* statement before them; uncommitted rows are invisible, so a             *)
(* transaction's writes are one action with its COMMIT.  A request the     *)
(* service refuses before it writes changes nothing and is not an action.  *)
(* A request's parameters are chosen by the action that first uses them.   *)
(***************************************************************************)
EXTENDS Authority, Sequences, FiniteSets

CONSTANTS
    Requests,      \* transactions that may be in flight at once
    Entities,      \* entity_id values, in the order ORDER BY entity_id uses
    Families,      \* published entity types of the tenant
    Refs,          \* external keys (source_system, external_id)
    Schemas,       \* JSON Schemas a revision may carry
    NoRequest,
    NoEntity,
    BatchLimit,    \* entities one batch upgrade takes at most
    MaxVersions,   \* bound of the model: versions per entity
    MaxRevisions,  \* bound of the model: revisions per family
    MaxConflicts   \* bound of the model: conflict rows per field

(***************************************************************************)
(* A schema says which values each field may have (NoValue among them when *)
(* the field is optional) and whether properties it does not name may      *)
(* stand beside them: a closed schema has additionalProperties false and   *)
(* does not name _meta.                                                    *)
(***************************************************************************)
ASSUME EntitiesAssumption == Entities \subseteq Nat /\ NoEntity \notin Entities
ASSUME RequestsAssumption == NoRequest \notin Requests
ASSUME FamiliesAssumption == Families # {}
ASSUME SchemasAssumption ==
    Schemas \subseteq [allowed : [Paths -> SUBSET (Values \cup {NoValue})],
                       open : BOOLEAN]
ASSUME BoundsAssumption ==
    /\ BatchLimit \in Nat \ {0}
    /\ MaxVersions \in Nat /\ MaxRevisions \in Nat /\ MaxConflicts \in Nat

VARIABLES
    revisions,  \* revisions[f]: entity_type_revisions of f, by revision_no
    status,     \* status[e]: no row yet, a row of entities, or deleted
    family,     \* entities.entity_type_id
    bound,      \* entities.bound_entity_type_revision_id, as revision_no
    versions,   \* versions[e]: documents of profile_versions, by version
    conflicts,  \* conflicts[e][p]: profile_field_conflicts of field p
    owner,      \* external_id_mappings: the entity an external key names
    outbox,     \* profile_outbox (what the worker does to it: OutboxWorker)
    audit,      \* admin_audit_log
    lock,       \* lock[e]: the transaction holding the row lock of e
    pc,         \* pc[r]: the statement request r is at
    job         \* job[r]: what the transaction of r has read

store == <<revisions, status, family, bound, versions, conflicts, owner,
           outbox, audit>>
vars == <<revisions, status, family, bound, versions, conflicts, owner,
          outbox, audit, lock, pc, job>>

-----------------------------------------------------------------------------
Labels == {"idle", "create", "update", "upgrade", "batch", "batch_upgrade",
           "resolve_lock", "resolve", "merge_lock", "merge"}

ConflictRow == [status : {"open", "resolved"},
                incoming : Values, source : Sources,
                resolution : Values \cup {NoValue}]
OutboxRow == [entity : Entities, version : Nat, revision : Nat]
AuditRow == [action : {"resolve_conflict", "merge_profiles"},
             entity : Entities, related : Entities \cup {NoEntity}]
Job == [entity : Entities \cup {NoEntity}, other : Entities \cup {NoEntity},
        doc : Document, otherDoc : Document, data : Data,
        family : Families, target : Nat, field : Paths, index : Nat,
        queue : SUBSET Entities]

NoJob == [entity |-> NoEntity, other |-> NoEntity,
          doc |-> EmptyDocument, otherDoc |-> EmptyDocument,
          data |-> DataOf(EmptyDocument),
          family |-> CHOOSE f \in Families : TRUE,
          target |-> 0, field |-> CHOOSE p \in Paths : TRUE, index |-> 0,
          queue |-> {}]

TypeOK ==
    /\ revisions \in [Families -> Seq(Schemas)]
    /\ status \in [Entities -> {"unborn", "live", "gone"}]
    /\ family \in [Entities -> Families]
    /\ bound \in [Entities -> Nat]
    /\ versions \in [Entities -> Seq(Document)]
    /\ conflicts \in [Entities -> [Paths -> Seq(ConflictRow)]]
    /\ owner \in [Refs -> Entities \cup {NoEntity}]
    /\ outbox \subseteq OutboxRow
    /\ audit \subseteq AuditRow
    /\ lock \in [Entities -> Requests \cup {NoRequest}]
    /\ pc \in [Requests -> Labels]
    /\ job \in [Requests -> Job]

Init ==
    /\ revisions = [f \in Families |-> <<>>]
    /\ status = [e \in Entities |-> "unborn"]
    /\ family = [e \in Entities |-> CHOOSE f \in Families : TRUE]
    /\ bound = [e \in Entities |-> 0]
    /\ versions = [e \in Entities |-> <<>>]
    /\ conflicts = [e \in Entities |-> [p \in Paths |-> <<>>]]
    /\ owner = [x \in Refs |-> NoEntity]
    /\ outbox = {}
    /\ audit = {}
    /\ lock = [e \in Entities |-> NoRequest]
    /\ pc = [r \in Requests |-> "idle"]
    /\ job = [r \in Requests |-> NoJob]

-----------------------------------------------------------------------------
Live(e) == status[e] = "live"
\* Mutant: a plain SELECT where lockEntity has FOR UPDATE.
FreeAlways(e) == lock[e] \in Requests \cup {NoRequest}
Free(e) == lock[e] = NoRequest
Latest(e) == versions[e][Len(versions[e])]
RefsOf(e) == {x \in Refs : owner[x] = e}
Room(e) == Len(versions[e]) < MaxVersions
LatestRevision(f) == Len(revisions[f])

\* ValidateDocumentAgainstSchema, of a caller's data and of a stored document:
\* the latter holds _meta as soon as one field has an authority entry.
Accepts(schema, data) == \A p \in Paths : data[p] \in schema.allowed[p]
AcceptsStored(schema, doc) ==
    /\ Accepts(schema, DataOf(doc))
    /\ schema.open \/ \A p \in Paths : ~Present(doc[p])

\* Mutant: the outbox is unique per entity, not per version.
AnnouncedOnce(rows, e, v, k) ==
    IF \E row \in rows : row.entity = e THEN rows
    ELSE rows \cup {[entity |-> e, version |-> v, revision |-> k]}
\* insertProfileOutboxRow: ON CONFLICT (entity, version) DO NOTHING.
Announced(rows, e, v, k) ==
    IF \E row \in rows : row.entity = e /\ row.version = v THEN rows
    ELSE rows \cup {[entity |-> e, version |-> v, revision |-> k]}
RowsOf(e) == {row \in outbox : row.entity = e}

\* syncExternalRefs with replace: e's keys become refs, a nil list clears them.
\* Mutant: an upsert that takes a key over from its owner.
RefsTaken(e, refs) == refs \subseteq Refs
RefsFree(e, refs) == \A x \in refs : owner[x] \in {NoEntity, e}
Remapped(e, refs) ==
    [x \in Refs |-> IF x \in refs THEN e
                    ELSE IF owner[x] = e THEN NoEntity ELSE owner[x]]

Unlocked(r) == [e \in Entities |-> IF lock[e] = r THEN NoRequest ELSE lock[e]]
\* The transaction of r ends: its locks go, the request is answered.
Finish(r) ==
    /\ lock' = Unlocked(r)
    /\ pc' = [pc EXCEPT ![r] = "idle"]
    /\ job' = [job EXCEPT ![r] = NoJob]
At(r, label, j) ==
    /\ pc' = [pc EXCEPT ![r] = label]
    /\ job' = [job EXCEPT ![r] = j]
Lock(r, e) == lock' = [lock EXCEPT ![e] = r]

\* The foreign keys' ON DELETE CASCADE when the row of e goes.
ClearConflicts(e) == [conflicts EXCEPT ![e] = [p \in Paths |-> <<>>]]

-----------------------------------------------------------------------------
\* Catalog.Publish, seen from here: a new immutable revision of f.
Publish(f, schema) ==
    /\ LatestRevision(f) < MaxRevisions
    /\ revisions' = [revisions EXCEPT ![f] = Append(@, schema)]
    /\ UNCHANGED <<status, family, bound, versions, conflicts, owner, outbox,
                   audit, lock, pc, job>>

\* A lost connection, a cancelled request, a unique violation, a crash of the
\* server: deferred tx.Rollback.  A batch ends with its server or its caller.
Rollback(r) ==
    /\ pc[r] # "idle"
    /\ Finish(r)
    /\ UNCHANGED store

\* Create, first part: validate against the latest revision ...
CreateValidate(r, f, data) ==
    /\ pc[r] = "idle"
    /\ LatestRevision(f) > 0
    /\ Accepts(revisions[f][LatestRevision(f)], data)
    /\ At(r, "create", [NoJob EXCEPT !.family = f, !.data = data])
    /\ UNCHANGED <<store, lock>>

\* ... second part: INSERT ... SELECT binds the revision that is latest now.
CreateInsert(r, e, source, refs) ==
    LET f == job[r].family
        k == LatestRevision(f)
    IN  /\ pc[r] = "create"
        /\ status[e] = "unborn"
        /\ k > 0
        /\ \A x \in refs : owner[x] = NoEntity
        /\ status' = [status EXCEPT ![e] = "live"]
        /\ family' = [family EXCEPT ![e] = f]
        /\ bound' = [bound EXCEPT ![e] = k]
        /\ versions' = [versions EXCEPT ![e] =
               <<initialDocumentWithAuthority(job[r].data, source)>>]
        /\ outbox' = Announced(outbox, e, 1, k)
        /\ owner' = Remapped(e, refs)
        /\ Finish(r)
        /\ UNCHANGED <<revisions, conflicts, audit>>

\* Update, Upgrade, Resolve and Merge all start with lockEntity and a read of
\* the latest version.
UpdateLoad(r, e) ==
    /\ pc[r] = "idle"
    /\ Live(e) /\ Free(e) /\ Room(e)
    /\ Lock(r, e)
    /\ At(r, "update", [NoJob EXCEPT !.entity = e, !.doc = Latest(e)])
    /\ UNCHANGED store

\* The model's bound on conflict rows.
ConflictRoom(e, doc, data, source) ==
    \A p \in Candidates(doc, data, source) :
        Len(conflicts[e][p]) < MaxConflicts
OpenRow(value, source) ==
    [status |-> "open", incoming |-> value, source |-> source,
     resolution |-> NoValue]
\* insertConflictCandidates
WithCandidates(e, doc, data, source) ==
    [conflicts EXCEPT ![e] =
        [p \in Paths |-> IF p \in Candidates(doc, data, source)
                         THEN Append(@[p], OpenRow(data[p], source))
                         ELSE @[p]]]

\* A field or the set of external keys changed: a new version.
UpdateCommit(r, data, source, refs) ==
    LET e == job[r].entity
        doc == job[r].doc
    IN  /\ pc[r] = "update"
        /\ DocChanged(doc, data, source) \/ refs # RefsOf(e)
        /\ RefsFree(e, refs)
        /\ ConflictRoom(e, doc, data, source)
        /\ conflicts' = WithCandidates(e, doc, data, source)
        /\ versions' = [versions EXCEPT ![e] =
                            Append(@, Merged(doc, data, source))]
        /\ outbox' = Announced(outbox, e, Len(versions[e]) + 1, bound[e])
        /\ owner' = Remapped(e, refs)
        /\ Finish(r)
        /\ UNCHANGED <<revisions, status, family, bound, audit>>

\* Nothing applied: the conflict candidates are committed all the same.
UpdateBlocked(r, data, source) ==
    LET e == job[r].entity
        doc == job[r].doc
    IN  /\ pc[r] = "update"
        /\ ~DocChanged(doc, data, source)
        /\ ConflictRoom(e, doc, data, source)
        /\ conflicts' = WithCandidates(e, doc, data, source)
        /\ Finish(r)
        /\ UNCHANGED <<revisions, status, family, bound, versions, owner,
                       outbox, audit>>

Delete(e) ==
    /\ Live(e) /\ Free(e)
    /\ status' = [status EXCEPT ![e] = "gone"]
    /\ versions' = [versions EXCEPT ![e] = <<>>]
    /\ conflicts' = ClearConflicts(e)
    /\ owner' = Remapped(e, {})
    /\ outbox' = outbox \ RowsOf(e)
    /\ UNCHANGED <<revisions, family, bound, audit, lock, pc, job>>

\* Mutant: the document is checked against the schema it already satisfies.
UpgradableUnchecked(e, f, k) ==
    /\ Live(e) /\ Free(e) /\ Room(e)
    /\ family[e] = f
    /\ k # bound[e]
    /\ AcceptsStored(revisions[f][bound[e]], Latest(e))
\* UpgradeEntityBinding locks e and finds the stored document acceptable to
\* revision k; an upgrade to the bound revision changes nothing.
Upgradable(e, f, k) ==
    /\ Live(e) /\ Free(e) /\ Room(e)
    /\ family[e] = f
    /\ k # bound[e]
    /\ AcceptsStored(revisions[f][k], Latest(e))

UpgradeLoad(r, e, k) ==
    /\ pc[r] = "idle"
    /\ k <= LatestRevision(family[e])
    /\ Upgradable(e, family[e], k)
    /\ Lock(r, e)
    /\ At(r, "upgrade", [NoJob EXCEPT !.entity = e, !.doc = Latest(e),
                                      !.target = k])
    /\ UNCHANGED store

\* Mutant: the event is written before the entity is bound to its new revision.
UpgradeWriteEarlyEvent(r) ==
    LET e == job[r].entity
        k == job[r].target
    IN  /\ pc[r] \in {"upgrade", "batch_upgrade"}
        /\ bound' = [bound EXCEPT ![e] = k]
        /\ versions' = [versions EXCEPT ![e] = Append(@, job[r].doc)]
        /\ outbox' = Announced(outbox, e, Len(versions[e]) + 1, bound[e])
        /\ lock' = Unlocked(r)
        /\ IF pc[r] = "upgrade" THEN At(r, "idle", NoJob)
           ELSE At(r, "batch", [job[r] EXCEPT !.entity = NoEntity,
                                              !.doc = EmptyDocument])
        /\ UNCHANGED <<revisions, status, family, conflicts, owner, audit>>

UpgradeWrite(r) ==
    LET e == job[r].entity
        k == job[r].target
    IN  /\ pc[r] \in {"upgrade", "batch_upgrade"}
        /\ bound' = [bound EXCEPT ![e] = k]
        /\ versions' = [versions EXCEPT ![e] = Append(@, job[r].doc)]
        /\ outbox' = Announced(outbox, e, Len(versions[e]) + 1, bound'[e])
        /\ lock' = Unlocked(r)
        /\ IF pc[r] = "upgrade" THEN At(r, "idle", NoJob)
           ELSE At(r, "batch", [job[r] EXCEPT !.entity = NoEntity,
                                              !.doc = EmptyDocument])
        /\ UNCHANGED <<revisions, status, family, conflicts, owner, audit>>

\* BatchUpgradeEntityBinding resolves its target and selects its entities,
\* in transactions of their own: a list the caller gives, or those behind.
Behind(f, k) == {e \in Entities : Live(e) /\ family[e] = f /\ bound[e] < k}
BatchSelect(r, f, k, S) ==
    /\ pc[r] = "idle"
    /\ k <= LatestRevision(f)
    /\ At(r, "batch", [NoJob EXCEPT !.family = f, !.target = k, !.queue = S])
    /\ UNCHANGED <<store, lock>>
BatchGiven(r, f, k, S) == Cardinality(S) <= BatchLimit /\ BatchSelect(r, f, k, S)
BatchBehind(r, f, k) ==
    BatchSelect(r, f, k,
        {e \in Behind(f, k) :
            Cardinality({x \in Behind(f, k) : x < e}) < BatchLimit})

\* One entity of the batch, in its own transaction ...
BatchLoad(r, e) ==
    LET j == job[r]
    IN  /\ pc[r] = "batch" /\ e \in j.queue
        /\ Upgradable(e, j.family, j.target)
        /\ Lock(r, e)
        /\ At(r, "batch_upgrade", [j EXCEPT !.entity = e, !.doc = Latest(e),
                                            !.queue = @ \ {e}])
        /\ UNCHANGED store
\* ... or it is reported as failed or unchanged, and the batch goes on.
BatchSkip(r, e) ==
    LET j == job[r]
    IN  /\ pc[r] = "batch" /\ e \in j.queue
        /\ Live(e) => Free(e) /\ ~Upgradable(e, j.family, j.target)
        /\ At(r, "batch", [j EXCEPT !.queue = @ \ {e}])
        /\ UNCHANGED <<store, lock>>
\* The transaction of one entity fails: it is rolled back and reported, and the
\* batch goes on.
BatchFail(r) ==
    /\ pc[r] = "batch_upgrade"
    /\ lock' = Unlocked(r)
    /\ At(r, "batch", [job[r] EXCEPT !.entity = NoEntity, !.doc = EmptyDocument])
    /\ UNCHANGED store
BatchEnd(r) ==
    /\ pc[r] = "batch" /\ job[r].queue = {}
    /\ Finish(r)
    /\ UNCHANGED store

\* ResolveFieldConflict reads the conflict's status before it locks ...
ResolveRead(r, e, p, i) ==
    /\ pc[r] = "idle"
    /\ i \in DOMAIN conflicts[e][p]
    /\ conflicts[e][p][i].status = "open"
    /\ At(r, "resolve_lock", [NoJob EXCEPT !.entity = e, !.field = p,
                                           !.index = i])
    /\ UNCHANGED <<store, lock>>
ResolveLock(r) ==
    LET e == job[r].entity
    IN  /\ pc[r] = "resolve_lock"
        /\ Live(e) /\ Free(e) /\ Room(e)
        /\ Lock(r, e)
        /\ At(r, "resolve", [job[r] EXCEPT !.doc = Latest(e)])
        /\ UNCHANGED store
\* ... and its UPDATE does not look at the status again.
ResolveWrite(r, value) ==
    LET j == job[r]
        e == j.entity
    IN  /\ pc[r] = "resolve"
        /\ versions' = [versions EXCEPT ![e] =
                            Append(@, Resolved(j.doc, j.field, value))]
        /\ outbox' = Announced(outbox, e, Len(versions[e]) + 1, bound[e])
        /\ conflicts' = [conflicts EXCEPT
               ![e][j.field][j.index] = [@ EXCEPT !.status = "resolved",
                                                  !.resolution = value]]
        /\ audit' = audit \cup {[action |-> "resolve_conflict", entity |-> e,
                                 related |-> NoEntity]}
        /\ Finish(r)
        /\ UNCHANGED <<revisions, status, family, bound, owner>>

\* Mutant: SELECT ... FOR UPDATE without ORDER BY.
LockOrderGiven(e, x) == <<e, x>>
\* MergeEntityProfiles locks both rows in the order of their identifiers.
LockOrder(e, x) == IF e < x THEN <<e, x>> ELSE <<x, e>>
First(r) == LockOrder(job[r].entity, job[r].other)[1]
Second(r) == LockOrder(job[r].entity, job[r].other)[2]
MergeLock(r, target, source) ==
    /\ pc[r] = "idle"
    /\ target # source
    /\ Live(target) /\ Live(source)
    /\ Free(LockOrder(target, source)[1])
    /\ Lock(r, LockOrder(target, source)[1])
    /\ At(r, "merge_lock", [NoJob EXCEPT !.entity = target, !.other = source])
    /\ UNCHANGED store
MergeLoad(r) ==
    LET j == job[r]
    IN  /\ pc[r] = "merge_lock"
        /\ Live(Second(r)) /\ Free(Second(r)) /\ Room(j.entity)
        /\ family[j.entity] = family[j.other]
        /\ Lock(r, Second(r))
        /\ At(r, "merge", [j EXCEPT !.doc = Latest(j.entity),
                                    !.otherDoc = Latest(j.other)])
        /\ UNCHANGED store
MergeWrite(r) ==
    LET e == job[r].entity
        x == job[r].other
    IN  /\ pc[r] = "merge"
        /\ owner' = [k \in Refs |-> IF owner[k] = x THEN e ELSE owner[k]]
        /\ versions' = [versions EXCEPT
               ![e] = Append(@, mergeDocumentsForDuplicate(job[r].doc,
                                                           job[r].otherDoc)),
               ![x] = <<>>]
        /\ outbox' = Announced(outbox \ RowsOf(x), e, Len(versions[e]) + 1,
                               bound[e])
        /\ status' = [status EXCEPT ![x] = "gone"]
        /\ conflicts' = ClearConflicts(x)
        /\ audit' = audit \cup {[action |-> "merge_profiles", entity |-> e,
                                 related |-> x]}
        /\ Finish(r)
        /\ UNCHANGED <<revisions, family, bound>>

\* lockEntity finds no row: the entity went while the request waited (or the
\* model's bound on versions is reached).
Refuse(r) ==
    LET j == job[r]
    IN  /\ \/ /\ pc[r] = "resolve_lock"
              /\ ~Live(j.entity) \/ ~Room(j.entity)
           \/ /\ pc[r] = "merge_lock"
              /\ \/ ~Live(Second(r))
                 \/ family[j.entity] # family[j.other]
                 \/ ~Room(j.entity)
        /\ Finish(r)
        /\ UNCHANGED store

-----------------------------------------------------------------------------
Step(r) ==
    \/ \E e \in Entities, s \in Sources, refs \in SUBSET Refs :
            CreateInsert(r, e, s, refs)
    \/ \E data \in Data, s \in Sources :
            \/ UpdateBlocked(r, data, s)
            \/ \E refs \in SUBSET Refs : UpdateCommit(r, data, s, refs)
    \/ UpgradeWrite(r)
    \/ \E e \in Entities : BatchLoad(r, e) \/ BatchSkip(r, e)
    \/ BatchFail(r) \/ BatchEnd(r)
    \/ ResolveLock(r)
    \/ \E v \in Values : ResolveWrite(r, v)
    \/ MergeLoad(r)
    \/ MergeWrite(r)
    \/ Refuse(r)

Begin(r) ==
    \/ \E f \in Families :
            \/ \E data \in Data : CreateValidate(r, f, data)
            \/ \E k \in 1..MaxRevisions :
                    \/ BatchBehind(r, f, k)
                    \/ \E S \in SUBSET Entities : BatchGiven(r, f, k, S)
    \/ \E e \in Entities :
            \/ UpdateLoad(r, e)
            \/ \E k \in 1..MaxRevisions : UpgradeLoad(r, e, k)
            \/ \E p \in Paths, i \in 1..MaxConflicts : ResolveRead(r, e, p, i)
            \/ \E x \in Entities : MergeLock(r, e, x)

Next ==
    \/ \E r \in Requests : Begin(r) \/ Step(r) \/ Rollback(r)
    \/ \E e \in Entities : Delete(e)
    \/ \E f \in Families, schema \in Schemas : Publish(f, schema)

Spec == Init /\ [][Next]_vars
-----------------------------------------------------------------------------
\* Stale state: what a transaction read before it writes is still the latest
\* version when it writes, and it alone may write (lockEntity, service.go).
Holding == {"update", "upgrade", "batch_upgrade", "resolve", "merge"}
Holds(r, e, doc) == Live(e) /\ lock[e] = r /\ doc = Latest(e)
LoadedIsCurrent ==
    \A r \in Requests : pc[r] \in Holding =>
        /\ Holds(r, job[r].entity, job[r].doc)
        /\ pc[r] = "merge" => Holds(r, job[r].other, job[r].otherDoc)

\* Transactional outbox: the versions of an entity are announced exactly once
\* each, by an event that names the revision its version was written under;
\* the event of the latest version names the revision the entity is bound to.
VersionsAnnounced ==
    /\ \A row \in outbox : row.version \in 1..Len(versions[row.entity])
    /\ \A row, other \in outbox :
            row.entity = other.entity /\ row.version = other.version
                => row = other
    /\ \A e \in Entities : \A v \in 1..Len(versions[e]) :
            \E row \in outbox :
                /\ row.entity = e /\ row.version = v
                /\ v = Len(versions[e]) => row.revision = bound[e]

\* Authority (ADR-0003 item 4) along the whole history of a profile: whatever
\* requests interleave, a field is never lost from one version to the next nor
\* handed to a source of lower priority than the one that set it.
AuthorityNeverWeakens ==
    \A e \in Entities : \A v \in 1..(Len(versions[e]) - 1) :
        NoWeaker(versions[e][v], versions[e][v + 1])

\* Upgrade binding (ADR-0005 item 4): a version written under another revision
\* than the version before it satisfies the schema of its own revision.
UpgradeValidated ==
    \A e \in Entities : \A row, next \in RowsOf(e) :
        next.version = row.version + 1 /\ next.revision # row.revision
            => Accepts(revisions[family[e]][next.revision],
                       DataOf(versions[e][next.version]))

\* Identity: an external key that changes hands does so because its former
\* owner was merged into the new one; keys of a merged profile survive it.
KeysFollowMerge ==
    [][\A x \in Refs : owner[x] # NoEntity =>
          LET e == owner[x]
              merge == [action |-> "merge_profiles", entity |-> owner'[x],
                        related |-> e]
          IN  /\ owner'[x] \notin {e, NoEntity} =>
                    status'[e] = "gone" /\ merge \in audit'
              /\ (status'[e] = "gone" /\ owner'[x] = NoEntity) =>
                    \A row \in audit' : row.related # e]_vars

\* No set of transactions waits in a circle for row locks of each other.
Waiting(r, S) ==
    \/ pc[r] = "resolve_lock" /\ lock[job[r].entity] \in S
    \/ pc[r] = "merge_lock" /\ lock[Second(r)] \in S
NoDeadlock == \A S \in SUBSET Requests : S # {} => \E r \in S : ~Waiting(r, S)

\* The transactions implement the abstract store: append-only histories with
\* one event per version, announced in the commit that appends it.
History == INSTANCE ProfileHistory WITH
    Documents <- Document, phase <- status, history <- versions,
    announced <- {<<row.entity, row.version>> : row \in outbox}
ImplementsHistory == History!Spec

\* ADR-0005 item 3 of a new entity: its first version satisfies the revision it
\* was bound to.  Violated: Create validates before it picks the revision.
NewEntityConforms ==
    \A row \in outbox : row.version = 1 =>
        Accepts(revisions[family[row.entity]][row.revision],
                DataOf(versions[row.entity][1]))

\* ADR-0005 item 3 of every entity: its document is validated by the revision
\* it is bound to.  Violated: Update, Resolve and Merge validate nothing.
DocumentConforms ==
    \A e \in Entities : Live(e) =>
        Accepts(revisions[family[e]][bound[e]], DataOf(Latest(e)))

\* "conflict already resolved": a decision on a conflict is not replaced by
\* another.  Violated: the status is read before the lock and not after it.
ResolutionIsFinal ==
    [][\A e \in Entities, p \in Paths : \A i \in DOMAIN conflicts[e][p] :
          /\ conflicts[e][p][i].status = "resolved"
          /\ i \in DOMAIN conflicts'[e][p]
          => conflicts'[e][p][i] = conflicts[e][p][i]]_vars
=============================================================================
