-------------------------- MODULE EntityTypeCatalog --------------------------
(***************************************************************************)
(* The catalog of entity types over PostgreSQL (internal/entitytypes): a   *)
(* family has one draft schema, edited under optimistic concurrency, and   *)
(* the revisions published from it, to which entities are bound.           *)
(*                                                                         *)
(* Each administrator has at most one request in flight.  A request is a   *)
(* READ COMMITTED transaction between two of its statements (pc, job); it  *)
(* may hold the row lock of a draft (SELECT ... FOR UPDATE OF d) or of a   *)
(* family (DELETE).  An INSERT that names a family needs a share of the    *)
(* family's row lock (FOR KEY SHARE), and a DELETE of a family needs the   *)
(* row lock of its draft, to which it cascades.                            *)
(***************************************************************************)
EXTENDS Naturals, FiniteSets

CONSTANTS
    Admins, Families,
    Keys,          \* (namespace, code) pairs
    Schemas,
    Publishable,   \* those ValidateSchemaForPublication accepts
    NoAdmin, NoKey, NoFamily,
    MaxRevisions,  \* bound of the model: revisions per family
    MaxSaves       \* bound of the model: draft_schema_version

ASSUME CatalogAssumption ==
    /\ Publishable \subseteq Schemas /\ Schemas # {}
    /\ NoAdmin \notin Admins /\ NoKey \notin Keys /\ NoFamily \notin Families
    /\ MaxRevisions \in Nat /\ MaxSaves \in Nat \ {0}

VARIABLES
    key,         \* key[f]: (namespace, code); NoKey when f is not in the table
    born,        \* identifiers used so far
    draft,       \* draft[f]: the row of entity_type_drafts
    revisions,   \* revisions[f]: revision_no to schema
    bound,       \* bound[f]: the revisions that entities are bound to
    draftLock, familyLock,
    pc, job,
    seen         \* seen[a]: the record administrator a looks at

vars == <<key, born, draft, revisions, bound, draftLock, familyLock, pc, job, seen>>
tables == <<key, born, draft, revisions, bound>>

Draft == [schema : Schemas, version : 0..MaxSaves]
NoDraft == [schema |-> CHOOSE s \in Schemas : TRUE, version |-> 0]
Job == [family : Families \cup {NoFamily}, schema : Schemas, number : Nat,
        checked : BOOLEAN]
NoJob == [family |-> NoFamily, schema |-> NoDraft.schema, number |-> 0,
          checked |-> FALSE]
NothingSeen == [family |-> NoFamily, draft |-> NoDraft]

TypeOK ==
    /\ key \in [Families -> Keys \cup {NoKey}]
    /\ born \subseteq Families
    /\ draft \in [Families -> Draft]
    /\ \A f \in Families : /\ DOMAIN revisions[f] \subseteq 1..MaxRevisions
                           /\ \A n \in DOMAIN revisions[f] :
                                    revisions[f][n] \in Publishable
    /\ bound \in [Families -> SUBSET (1..MaxRevisions)]
    /\ draftLock \in [Families -> Admins \cup {NoAdmin}]
    /\ familyLock \in [Families -> Admins \cup {NoAdmin}]
    /\ pc \in [Admins -> {"idle", "save", "publish_number", "publish",
                          "delete", "delete_cascade"}]
    /\ job \in [Admins -> Job]
    /\ seen \in [Admins -> [family : Families \cup {NoFamily}, draft : Draft]]

Init ==
    /\ key = [f \in Families |-> NoKey]
    /\ born = {}
    /\ draft = [f \in Families |-> NoDraft]
    /\ revisions = [f \in Families |-> <<>>]
    /\ bound = [f \in Families |-> {}]
    /\ draftLock = [f \in Families |-> NoAdmin]
    /\ familyLock = [f \in Families |-> NoAdmin]
    /\ pc = [a \in Admins |-> "idle"]
    /\ job = [a \in Admins |-> NoJob]
    /\ seen = [a \in Admins |-> NothingSeen]

-----------------------------------------------------------------------------
Exists(f) == key[f] # NoKey
Taken(k) == \E f \in Families : key[f] = k
\* Mutant: the draft is read by a plain SELECT.
DraftReadable(f) == Exists(f)
DraftFree(f) == draftLock[f] = NoAdmin
FamilyFree(f) == familyLock[f] = NoAdmin
LatestRevision(f) == Cardinality(DOMAIN revisions[f])

At(a, label, j) ==
    /\ pc' = [pc EXCEPT ![a] = label]
    /\ job' = [job EXCEPT ![a] = j]
Released(locks, a) ==
    [f \in Families |-> IF locks[f] = a THEN NoAdmin ELSE locks[f]]
\* Mutant: an error path that returns without tx.Rollback keeps its locks.
FinishLeaking(a) == At(a, "idle", NoJob) /\ UNCHANGED <<draftLock, familyLock>>
Finish(a) ==
    /\ At(a, "idle", NoJob)
    /\ draftLock' = Released(draftLock, a)
    /\ familyLock' = Released(familyLock, a)

\* CreateDraft and UpdateFamilyMeta: the unique key decides.
CreateDraft(f, k, schema) ==
    /\ f \notin born /\ ~Taken(k)
    /\ key' = [key EXCEPT ![f] = k]
    /\ born' = born \cup {f}
    /\ draft' = [draft EXCEPT ![f] = [schema |-> schema, version |-> 1]]
    /\ UNCHANGED <<revisions, bound, draftLock, familyLock, pc, job, seen>>
UpdateFamilyMeta(f, k) ==
    /\ Exists(f) /\ FamilyFree(f)
    /\ ~Taken(k)
    /\ key' = [key EXCEPT ![f] = k]
    /\ UNCHANGED <<born, draft, revisions, bound, draftLock, familyLock, pc,
                   job, seen>>

\* Get, or the record another call returned.
View(a, f) ==
    /\ pc[a] = "idle" /\ Exists(f)
    /\ seen' = [seen EXCEPT ![a] = [family |-> f, draft |-> draft[f]]]
    /\ UNCHANGED <<tables, draftLock, familyLock, pc, job>>

\* SaveDraft: a caller that gives if_draft_schema_version is refused unless it
\* is the draft's version under the row lock.
SaveLoad(a, f, schema, checked) ==
    /\ pc[a] = "idle"
    /\ Exists(f) /\ DraftFree(f) /\ draft[f].version < MaxSaves
    /\ checked => seen[a].family = f /\ seen[a].draft.version = draft[f].version
    /\ draftLock' = [draftLock EXCEPT ![f] = a]
    /\ At(a, "save", [family |-> f, schema |-> schema,
                      number |-> draft[f].version, checked |-> checked])
    /\ UNCHANGED <<tables, familyLock, seen>>
SaveWrite(a) ==
    LET f == job[a].family
    IN  /\ pc[a] = "save"
        /\ draft' = [draft EXCEPT ![f] = [schema |-> job[a].schema,
                                          version |-> job[a].number + 1]]
        /\ Finish(a)
        /\ UNCHANGED <<key, born, revisions, bound, seen>>

\* Publish: the draft under its lock, the next number, the insert.
\* Mutant: the draft goes out as it is.
AcceptsAll(schema) == schema \in Schemas
ValidateSchemaForPublication(schema) == schema \in Publishable
PublishLoad(a, f) ==
    /\ pc[a] = "idle"
    /\ Exists(f) /\ DraftFree(f)
    /\ ValidateSchemaForPublication(draft[f].schema)
    /\ LatestRevision(f) < MaxRevisions
    /\ draftLock' = [draftLock EXCEPT ![f] = a]
    /\ At(a, "publish_number", [NoJob EXCEPT !.family = f,
                                             !.schema = draft[f].schema])
    /\ UNCHANGED <<tables, familyLock, seen>>
\* Mutant: the number of a revision is the version of its draft.
NumberOfDraft(f) == draft[f].version
NextNumber(f) == LatestRevision(f) + 1
PublishNumber(a) ==
    /\ pc[a] = "publish_number"
    /\ At(a, "publish", [job[a] EXCEPT !.number = NextNumber(job[a].family)])
    /\ UNCHANGED <<tables, draftLock, familyLock, seen>>
PublishInsert(a) ==
    LET f == job[a].family
        n == job[a].number
    IN  /\ pc[a] = "publish"
        /\ FamilyFree(f)
        /\ n \notin DOMAIN revisions[f]
        /\ revisions' = [revisions EXCEPT ![f] =
               [m \in DOMAIN @ \cup {n} |-> IF m = n THEN job[a].schema ELSE @[m]]]
        /\ Finish(a)
        /\ UNCHANGED <<key, born, draft, bound, seen>>

\* DeleteFamily counts revisions and entities without locking anything ...
DeleteCount(a, f) ==
    /\ pc[a] = "idle"
    /\ Exists(f) /\ LatestRevision(f) = 0 /\ bound[f] = {}
    /\ At(a, "delete", [NoJob EXCEPT !.family = f])
    /\ UNCHANGED <<tables, draftLock, familyLock, seen>>
\* ... deletes the family ...
DeleteRow(a) ==
    LET f == job[a].family
    IN  /\ pc[a] = "delete"
        /\ Exists(f) /\ FamilyFree(f)
        /\ familyLock' = [familyLock EXCEPT ![f] = a]
        /\ At(a, "delete_cascade", job[a])
        /\ UNCHANGED <<tables, draftLock, seen>>
\* ... and with it the draft and the revisions, unless an entity restricts it.
\* Mutant: the entities' foreign keys restrict nothing.
RestrictedNever(f) == ~Exists(f)
Restricted(f) == bound[f] # {}
DeleteCascade(a) ==
    LET f == job[a].family
    IN  /\ pc[a] = "delete_cascade"
        /\ DraftFree(f) /\ ~Restricted(f)
        /\ key' = [key EXCEPT ![f] = NoKey]
        /\ draft' = [draft EXCEPT ![f] = NoDraft]
        /\ revisions' = [revisions EXCEPT ![f] = <<>>]
        /\ Finish(a)
        /\ UNCHANGED <<born, bound, seen>>

\* The statement fails: the family went, the number is taken, an entity
\* restricts the delete.
Refuse(a) ==
    LET f == job[a].family
    IN  /\ \/ pc[a] = "delete" /\ ~Exists(f)
           \/ pc[a] = "publish" /\ job[a].number \in DOMAIN revisions[f]
           \/ pc[a] = "delete_cascade" /\ Restricted(f)
        /\ Finish(a)
        /\ UNCHANGED <<tables, seen>>

\* PostgreSQL ends a circle of waiting transactions by failing one of them.
Circle(a, b) ==
    /\ pc[a] = "publish" /\ pc[b] = "delete_cascade"
    /\ job[a].family = job[b].family
    /\ familyLock[job[a].family] = b /\ draftLock[job[a].family] = a
DeadlockVictim(a) ==
    /\ \E b \in Admins : Circle(a, b) \/ Circle(b, a)
    /\ Finish(a)
    /\ UNCHANGED <<tables, seen>>
\* A lost connection, a cancelled request, a crash of the server.
Rollback(a) ==
    /\ pc[a] # "idle"
    /\ Finish(a)
    /\ UNCHANGED <<tables, seen>>

\* The profile service binds entities to revisions (a creation to the latest,
\* an upgrade to any that is published), moves and deletes them.
BindEntity(f) ==
    /\ Exists(f) /\ FamilyFree(f)
    /\ \E n \in 1..LatestRevision(f) : bound' = [bound EXCEPT ![f] = @ \cup {n}]
    /\ UNCHANGED <<key, born, draft, revisions, draftLock, familyLock, pc,
                   job, seen>>
UnbindEntities(f, n) ==
    /\ n \in bound[f]
    /\ bound' = [bound EXCEPT ![f] = @ \ {n}]
    /\ UNCHANGED <<key, born, draft, revisions, draftLock, familyLock, pc,
                   job, seen>>

-----------------------------------------------------------------------------
Step(a) ==
    \/ SaveWrite(a) \/ PublishNumber(a) \/ PublishInsert(a)
    \/ DeleteRow(a) \/ DeleteCascade(a) \/ Refuse(a) \/ DeadlockVictim(a)
Begin(a) ==
    \E f \in Families :
        \/ View(a, f) \/ PublishLoad(a, f) \/ DeleteCount(a, f)
        \/ \E s \in Schemas, checked \in BOOLEAN : SaveLoad(a, f, s, checked)
Next ==
    \/ \E a \in Admins : Begin(a) \/ Step(a) \/ Rollback(a)
    \/ \E f \in Families :
          \/ BindEntity(f)
          \/ \E n \in 1..MaxRevisions : UnbindEntities(f, n)
          \/ \E k \in Keys : \/ UpdateFamilyMeta(f, k)
                             \/ \E s \in Schemas : CreateDraft(f, k, s)

Spec == Init /\ [][Next]_vars
\* A request that has begun goes on until it is answered, and PostgreSQL
\* grants a row lock to those who wait for it in turn: what waits for a lock
\* that is free again and again gets it.
FairSpec == Spec /\ \A a \in Admins : SF_vars(Step(a))

-----------------------------------------------------------------------------
\* ADR-0005 item 2: a revision is the draft it was published from, as the
\* draft stands at the commit, and the numbers of a family have no gap.
PublishedIsDraft ==
    [][\A f \in Families : \A n \in DOMAIN revisions'[f] \ DOMAIN revisions[f] :
          revisions'[f][n] = draft[f].schema /\ draft'[f] = draft[f]]_vars
RevisionsDense == \A f \in Families : DOMAIN revisions[f] = 1..LatestRevision(f)

\* Optimistic concurrency: a save that names the version it was edited from
\* replaces the draft its author saw, not somebody else's later one.
NoLostDraft ==
    [][\A f \in Families, a \in Admins :
          /\ pc[a] = "save" /\ job[a].family = f /\ job[a].checked
          /\ draft'[f] # draft[f]
          => draft[f] = seen[a].draft]_vars

\* Foreign keys: an entity is bound to a revision that exists.
BoundExists == \A f \in Families : bound[f] \subseteq DOMAIN revisions[f]

\* Every request that has begun is answered: what holds one row and waits for the
\* other gets it, or is the victim of a deadlock, at last.  A request still
\* waiting for its first row, a draft that somebody saves or publishes, has not
\* begun here.
RequestsEnd == \A a \in Admins : pc[a] # "idle" ~> pc[a] = "idle"

\* "deletes a family only if it has no entities and no published revisions"
\* (catalog_more.go).  Violated: a Publish between the count and the DELETE.
OnlyUnpublishedDeleted ==
    [][\A f \in Families : Exists(f) /\ key'[f] = NoKey =>
          LatestRevision(f) = 0]_vars
=============================================================================
