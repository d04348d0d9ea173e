----------------------- MODULE EntityTypeCatalogProofs -----------------------
(***************************************************************************)
(* Theorems about EntityTypeCatalog, for any number of administrators,      *)
(* families, schemas, saves and revisions.                                  *)
(***************************************************************************)
EXTENDS EntityTypeCatalog, FiniteSetTheorems, TLAPS

USE CatalogAssumption

-----------------------------------------------------------------------------
\* The inductive invariant.  A request has a row lock exactly between the
\* statement that takes it and its end, and no other request changes the row
\* in between: what the request has read of it is still true.
HasDraft(a, f) ==
    pc[a] \in {"save", "publish_number", "publish"} /\ job[a].family = f
HasFamily(a, f) == pc[a] = "delete_cascade" /\ job[a].family = f

Tables ==
    /\ revisions = [f \in Families |-> revisions[f]]
    /\ \A f \in Families : Exists(f) => f \in born
Locks ==
    /\ \A a \in Admins : pc[a] # "idle" => job[a].family \in Families
    /\ \A f \in Families, a \in Admins :
          /\ draftLock[f] = a <=> HasDraft(a, f)
          /\ familyLock[f] = a <=> HasFamily(a, f)
          /\ HasDraft(a, f) => Exists(f)
Saves ==
    \A a \in Admins : pc[a] = "save" =>
        /\ job[a].number = draft[job[a].family].version
        /\ job[a].number < MaxSaves
        /\ job[a].checked => seen[a].family = job[a].family
                             /\ seen[a].draft = draft[job[a].family]
Publishes ==
    \A a \in Admins : pc[a] \in {"publish_number", "publish"} =>
        /\ job[a].schema = draft[job[a].family].schema
        /\ job[a].schema \in Publishable
        /\ LatestRevision(job[a].family) < MaxRevisions
        /\ pc[a] = "publish" => job[a].number = NextNumber(job[a].family)
\* A version number names one content: drafts only move forward.
Views ==
    \A a \in Admins, f \in Families : seen[a].family = f =>
        /\ f \in born
        /\ Exists(f) =>
              /\ seen[a].draft.version <= draft[f].version
              /\ seen[a].draft.version = draft[f].version => seen[a].draft = draft[f]
Inv == /\ TypeOK /\ Tables /\ Locks /\ Saves /\ Publishes /\ Views
       /\ RevisionsDense /\ BoundExists

-----------------------------------------------------------------------------
\* What stands for no draft and for no job.
LEMMA Defaults ==
  /\ NoDraft \in Draft /\ NoDraft.version = 0
  /\ NoJob \in Job /\ NoJob.family = NoFamily
  BY DEF NoDraft, Draft, NoJob, Job

\* Revisions without a gap: the next number is new and keeps them so.
LEMMA NextIsNew ==
  ASSUME NEW n \in Nat, NEW D, D = 1..Cardinality(D), Cardinality(D) = n
  PROVE  /\ n + 1 \notin D
         /\ D \cup {n + 1} = 1..n + 1
         /\ Cardinality(D \cup {n + 1}) = n + 1
  <1>1. D = 1..n
    OBVIOUS
  <1>2. n + 1 \notin D /\ D \cup {n + 1} = 1..n + 1
    BY <1>1
  <1>3. Cardinality(1..n + 1) = n + 1
    BY FS_Interval
  <1> QED
    BY <1>2, <1>3

\* Without gaps the number of revisions is the last revision_no.
LEMMA RevisionCount ==
  ASSUME TypeOK, RevisionsDense, NEW f \in Families
  PROVE  /\ LatestRevision(f) \in Nat
         /\ DOMAIN revisions[f] = 1..LatestRevision(f)
         /\ LatestRevision(f) <= MaxRevisions
  <1>1. IsFiniteSet(DOMAIN revisions[f])
    BY FS_Interval, FS_Subset DEF TypeOK
  <1>2. LatestRevision(f) \in Nat
    BY <1>1, FS_CardinalityType DEF LatestRevision
  <1>3. DOMAIN revisions[f] = 1..LatestRevision(f)
    BY DEF RevisionsDense
  <1>4. CASE LatestRevision(f) = 0
    BY <1>2, <1>3, <1>4
  <1>5. CASE LatestRevision(f) # 0
    <2>1. LatestRevision(f) \in 1..MaxRevisions
      BY <1>2, <1>3, <1>5 DEF TypeOK
    <2> QED
      BY <1>2, <1>3, <2>1
  <1> QED
    BY <1>4, <1>5

\* What the end of a request does to the locks, and to nobody else's job.
LEMMA FinishFrees ==
  ASSUME TypeOK, Locks, NEW a \in Admins, Finish(a)
  PROVE  /\ pc'[a] = "idle" /\ job'[a] = NoJob
         /\ \A b \in Admins \ {a} : pc'[b] = pc[b] /\ job'[b] = job[b]
         /\ \A b \in Admins : pc'[b] # "idle" => b # a
         /\ pc' \in [Admins -> {"idle", "save", "publish_number", "publish",
                                "delete", "delete_cascade"}]
         /\ job' \in [Admins -> Job]
         /\ draftLock' \in [Families -> Admins \cup {NoAdmin}]
         /\ familyLock' \in [Families -> Admins \cup {NoAdmin}]
         /\ \A f \in Families, b \in Admins :
               /\ draftLock'[f] = b <=> HasDraft(b, f)'
               /\ familyLock'[f] = b <=> HasFamily(b, f)'
               /\ HasDraft(b, f)' => HasDraft(b, f)
  <1>1. /\ pc' = [pc EXCEPT ![a] = "idle"] /\ job' = [job EXCEPT ![a] = NoJob]
        /\ pc'[a] = "idle" /\ job'[a] = NoJob
        /\ \A b \in Admins \ {a} : pc'[b] = pc[b] /\ job'[b] = job[b]
    BY DEF Finish, At, TypeOK
  <1>2. /\ \A f \in Families : draftLock'[f] = IF draftLock[f] = a THEN NoAdmin ELSE draftLock[f]
        /\ \A f \in Families : familyLock'[f] = IF familyLock[f] = a THEN NoAdmin ELSE familyLock[f]
    BY DEF Finish, Released
  <1>3. /\ draftLock' \in [Families -> Admins \cup {NoAdmin}]
        /\ familyLock' \in [Families -> Admins \cup {NoAdmin}]
    BY DEF Finish, Released, TypeOK
  <1>4. ASSUME NEW f \in Families, NEW b \in Admins
        PROVE  /\ draftLock'[f] = b <=> HasDraft(b, f)'
               /\ familyLock'[f] = b <=> HasFamily(b, f)'
               /\ HasDraft(b, f)' => HasDraft(b, f)
    <2>1. CASE b = a
      BY <2>1, <1>1, <1>2, <1>4 DEF HasDraft, HasFamily
    <2>2. CASE b # a
      <3>1. /\ draftLock'[f] = b <=> draftLock[f] = b
            /\ familyLock'[f] = b <=> familyLock[f] = b
        BY <2>2, <1>2
      <3> QED
        BY <2>2, <3>1, <1>1, <1>4 DEF HasDraft, HasFamily, Locks
    <2> QED
      BY <2>1, <2>2
  <1>5. /\ pc' \in [Admins -> {"idle", "save", "publish_number", "publish",
                               "delete", "delete_cascade"}]
        /\ job' \in [Admins -> Job]
    BY <1>1, Defaults DEF TypeOK
  <1> QED
    BY <1>1, <1>3, <1>4, <1>5

-----------------------------------------------------------------------------
\* The invariant holds of an empty catalog.
LEMMA InitInv == Init => Inv
  <1> SUFFICES ASSUME Init PROVE Inv
    OBVIOUS
  <1>1. \A f \in Families : DOMAIN revisions[f] = {} /\ LatestRevision(f) = 0
    BY FS_EmptySet DEF Init, LatestRevision
  <1>2. TypeOK
    BY <1>1, Defaults DEF Init, TypeOK, NothingSeen
  <1>3. Tables /\ Locks /\ Saves /\ Publishes
    BY DEF Init, Tables, Locks, Saves, Publishes, Exists, HasDraft, HasFamily
  <1>4. Views
    BY DEF Init, Views, NothingSeen
  <1>5. RevisionsDense /\ BoundExists
    BY <1>1 DEF Init, RevisionsDense, BoundExists
  <1> QED
    BY <1>2, <1>3, <1>4, <1>5 DEF Inv

-----------------------------------------------------------------------------
\* Requests that only look, and the metadata of a family.
LEMMA CreateDraftKeeps ==
  ASSUME Inv, NEW f \in Families, NEW k \in Keys, NEW s \in Schemas, CreateDraft(f, k, s)
  PROVE  Inv'
  <1> USE DEF Inv, CreateDraft
  <1>1. /\ ~Exists(f) /\ \A g \in Families \ {f} : Exists(g)' <=> Exists(g)
        /\ \A g \in Families \ {f} : draft'[g] = draft[g]
    BY DEF Tables, Exists, TypeOK
  <1>2. \A a \in Admins : ~HasDraft(a, f)
    BY <1>1 DEF Locks
  <1>3. TypeOK'
    <2>1. [schema |-> s, version |-> 1] \in Draft
      BY DEF Draft
    <2> QED
      BY <2>1 DEF TypeOK
  <1>4. Tables'
    BY <1>1 DEF Tables
  <1>5. Locks'
    BY <1>1, <1>2 DEF Locks, HasDraft, HasFamily
  <1>6. Saves' /\ Publishes'
    BY <1>1, <1>2 DEF Saves, Publishes, Locks, HasDraft, LatestRevision, NextNumber
  <1>7. Views'
    BY <1>1 DEF Views
  <1>8. RevisionsDense' /\ BoundExists'
    BY DEF RevisionsDense, BoundExists, LatestRevision
  <1> QED
    BY <1>3, <1>4, <1>5, <1>6, <1>7, <1>8

\* Renaming a family changes its key only.
LEMMA UpdateFamilyMetaKeeps ==
  ASSUME Inv, NEW f \in Families, NEW k \in Keys, UpdateFamilyMeta(f, k)
  PROVE  Inv'
  <1> USE DEF Inv, UpdateFamilyMeta
  <1>1. \A g \in Families : Exists(g)' <=> Exists(g)
    BY DEF Exists, TypeOK
  <1>2. TypeOK'
    BY DEF TypeOK
  <1>3. Tables' /\ Locks' /\ Views'
    BY <1>1 DEF Tables, Locks, Views, HasDraft, HasFamily
  <1>4. Saves' /\ Publishes' /\ RevisionsDense' /\ BoundExists'
    BY DEF Saves, Publishes, RevisionsDense, BoundExists, LatestRevision, NextNumber
  <1> QED
    BY <1>2, <1>3, <1>4

\* Opening a draft changes only what its reader saw.
LEMMA ViewKeeps ==
  ASSUME Inv, NEW a \in Admins, NEW f \in Families, View(a, f)
  PROVE  Inv'
  <1> USE DEF Inv, View, tables
  <1>1. /\ seen'[a] = [family |-> f, draft |-> draft[f]]
        /\ \A b \in Admins \ {a} : seen'[b] = seen[b]
    BY DEF TypeOK
  <1>2. TypeOK'
    BY DEF TypeOK
  <1>3. Tables' /\ Locks' /\ Publishes' /\ RevisionsDense' /\ BoundExists'
    BY DEF Tables, Locks, Publishes, RevisionsDense, BoundExists, LatestRevision, NextNumber,
           HasDraft, HasFamily, Exists
  <1>4. Saves'
    BY <1>1 DEF Saves
  <1>5. Views'
    <2> SUFFICES ASSUME NEW b \in Admins, NEW g \in Families, seen'[b].family = g
                 PROVE  /\ g \in born
                        /\ Exists(g) =>
                              /\ seen'[b].draft.version <= draft[g].version
                              /\ seen'[b].draft.version = draft[g].version
                                     => seen'[b].draft = draft[g]
      BY DEF Views, Exists
    <2>1. CASE b = a
      <3>1. g = f /\ seen'[b].draft = draft[f] /\ draft[f].version \in Nat
        BY <1>1, <2>1 DEF TypeOK, Draft
      <3> QED
        BY <3>1 DEF Tables
    <2>2. CASE b # a
      BY <1>1, <2>2 DEF Views
    <2> QED
      BY <2>1, <2>2
  <1> QED
    BY <1>2, <1>3, <1>4, <1>5

\* Binding profiles to the last revision, or taking them off one.
LEMMA BindingKeeps ==
  ASSUME Inv, NEW f \in Families,
         BindEntity(f) \/ \E n \in 1..MaxRevisions : UnbindEntities(f, n)
  PROVE  Inv'
  <1> USE DEF Inv, BindEntity, UnbindEntities
  <1>1. /\ LatestRevision(f) \in Nat /\ LatestRevision(f) <= MaxRevisions
        /\ DOMAIN revisions[f] = 1..LatestRevision(f)
    BY RevisionCount
  <1>2. UNCHANGED <<key, born, draft, revisions, draftLock, familyLock, pc, job, seen>>
    OBVIOUS
  <1>3. TypeOK'
    BY <1>1 DEF TypeOK
  <1>4. Tables' /\ Locks' /\ Saves' /\ Publishes' /\ Views' /\ RevisionsDense'
    BY <1>2 DEF Tables, Locks, Saves, Publishes, Views, RevisionsDense, LatestRevision, NextNumber,
           HasDraft, HasFamily, Exists
  <1>5. BoundExists'
    BY <1>1 DEF BoundExists, TypeOK
  <1> QED
    BY <1>3, <1>4, <1>5

-----------------------------------------------------------------------------
\* A request that takes the row lock of a draft which nobody has.
LEMMA DraftLockTaken ==
  ASSUME Inv, NEW a \in Admins, NEW f \in Families,
         pc[a] = "idle", Exists(f), DraftFree(f),
         NEW label \in {"save", "publish_number"}, NEW j \in Job, j.family = f,
         At(a, label, j), draftLock' = [draftLock EXCEPT ![f] = a],
         UNCHANGED <<tables, familyLock, seen>>
  PROVE  /\ TypeOK' /\ Tables' /\ Locks' /\ Views' /\ RevisionsDense' /\ BoundExists'
         /\ pc'[a] = label /\ job'[a] = j
         /\ \A b \in Admins \ {a} : pc'[b] = pc[b] /\ job'[b] = job[b]
  <1> USE DEF Inv, tables
  <1>1. /\ pc'[a] = label /\ job'[a] = j
        /\ \A b \in Admins \ {a} : pc'[b] = pc[b] /\ job'[b] = job[b]
    BY DEF At, TypeOK
  <1>2. TypeOK'
    BY DEF At, TypeOK
  <1>3. \A b \in Admins : ~HasDraft(b, f)
    BY DEF Locks, DraftFree
  <1>4. Locks'
    <2>1. \A b \in Admins : pc'[b] # "idle" => job'[b].family \in Families
      BY <1>1 DEF Locks
    <2>2. \A g \in Families : draftLock'[g] = IF g = f THEN a ELSE draftLock[g]
      BY DEF TypeOK
    <2>3. \A g \in Families, b \in Admins : draftLock'[g] = b <=> HasDraft(b, g)'
      BY <1>1, <1>3, <2>2 DEF Locks, HasDraft
    <2>4. \A g \in Families, b \in Admins : familyLock'[g] = b <=> HasFamily(b, g)'
      BY <1>1 DEF Locks, HasFamily
    <2>5. \A g \in Families, b \in Admins : HasDraft(b, g)' => Exists(g)'
      BY <1>1 DEF Locks, HasDraft, Exists
    <2> QED
      BY <2>1, <2>3, <2>4, <2>5 DEF Locks
  <1>5. Tables' /\ Views' /\ RevisionsDense' /\ BoundExists'
    BY DEF Tables, Views, RevisionsDense, BoundExists, LatestRevision, Exists
  <1> QED
    BY <1>1, <1>2, <1>4, <1>5

\* A save reads the draft and locks it.
LEMMA SaveLoadKeeps ==
  ASSUME Inv, NEW a \in Admins, NEW f \in Families, NEW s \in Schemas,
         NEW checked \in BOOLEAN, SaveLoad(a, f, s, checked)
  PROVE  Inv'
  <1> DEFINE j == [family |-> f, schema |-> s, number |-> draft[f].version, checked |-> checked]
  <1>1. draft[f].version \in Nat /\ draft[f].version < MaxSaves
    BY DEF SaveLoad, Inv, TypeOK, Draft
  <1>2. j \in Job /\ j.family = f
    BY <1>1 DEF Job
  <1>3. checked => seen[a].family = f /\ seen[a].draft = draft[f]
    BY DEF SaveLoad, Inv, Views
  <1>4. /\ TypeOK' /\ Tables' /\ Locks' /\ Views' /\ RevisionsDense' /\ BoundExists'
        /\ pc'[a] = "save" /\ job'[a] = j
        /\ \A b \in Admins \ {a} : pc'[b] = pc[b] /\ job'[b] = job[b]
    BY <1>2, DraftLockTaken DEF SaveLoad
  <1>5. Saves'
    BY <1>1, <1>3, <1>4 DEF SaveLoad, Inv, Saves, tables
  <1>6. Publishes'
    BY <1>4 DEF SaveLoad, Inv, Publishes, tables, LatestRevision, NextNumber
  <1> QED
    BY <1>4, <1>5, <1>6 DEF Inv

\* A publication reads the draft and locks it.
LEMMA PublishLoadKeeps ==
  ASSUME Inv, NEW a \in Admins, NEW f \in Families, PublishLoad(a, f)
  PROVE  Inv'
  <1> DEFINE j == [NoJob EXCEPT !.family = f, !.schema = draft[f].schema]
  <1>1. j \in Job /\ j.family = f /\ j.schema = draft[f].schema
    <2> DEFINE r == [NoJob EXCEPT !.family = f]
    <2> HIDE DEF j
    <2>1. draft[f].schema \in Schemas
      BY DEF Inv, TypeOK, Draft
    <2>2. r \in Job /\ r.family = f
      BY Defaults DEF Job
    <2>3. j = [r EXCEPT !.schema = draft[f].schema]
      BY DEF j
    <2> HIDE DEF r
    <2> QED
      BY <2>1, <2>2, <2>3 DEF Job
  <1>2. /\ TypeOK' /\ Tables' /\ Locks' /\ Views' /\ RevisionsDense' /\ BoundExists'
        /\ pc'[a] = "publish_number" /\ job'[a] = j
        /\ \A b \in Admins \ {a} : pc'[b] = pc[b] /\ job'[b] = job[b]
    BY <1>1, DraftLockTaken DEF PublishLoad
  <1> HIDE DEF j
  <1>3. Saves'
    BY <1>2 DEF PublishLoad, Inv, Saves, tables
  <1>4. Publishes'
    BY <1>1, <1>2 DEF PublishLoad, Inv, Publishes, tables, LatestRevision, NextNumber,
                      ValidateSchemaForPublication
  <1> QED
    BY <1>2, <1>3, <1>4 DEF Inv

\* The owner of a draft's lock is the only request that works on the draft.
LEMMA DraftOwned ==
  ASSUME Locks, NEW a \in Admins, pc[a] \in {"save", "publish_number", "publish"}
  PROVE  /\ job[a].family \in Families /\ Exists(job[a].family)
         /\ draftLock[job[a].family] = a
         /\ \A b \in Admins \ {a} :
               pc[b] \in {"save", "publish_number", "publish"} => job[b].family # job[a].family
  BY DEF Locks, HasDraft

\* A save writes the draft it locked.
LEMMA SaveWriteKeeps ==
  ASSUME Inv, NEW a \in Admins, SaveWrite(a)
  PROVE  Inv'
  <1> DEFINE f == job[a].family
             new == [schema |-> job[a].schema, version |-> job[a].number + 1]
  <1> USE DEF Inv, SaveWrite
  <1>1. /\ f \in Families /\ Exists(f)
        /\ \A b \in Admins \ {a} :
              pc[b] \in {"save", "publish_number", "publish"} => job[b].family # f
    BY DraftOwned
  <1>2. job[a].number = draft[f].version /\ job[a].number < MaxSaves
    BY DEF Saves
  <1>3. /\ draft[f].version \in Nat /\ new \in Draft /\ new.version = draft[f].version + 1
    BY <1>1, <1>2 DEF TypeOK, Draft, Job
  <1>4. /\ draft'[f] = new /\ \A g \in Families \ {f} : draft'[g] = draft[g]
        /\ draft' \in [Families -> Draft]
    BY <1>1, <1>3 DEF TypeOK
  <1> HIDE DEF new
  <1>5. /\ pc'[a] = "idle"
        /\ \A b \in Admins \ {a} : pc'[b] = pc[b] /\ job'[b] = job[b]
    BY FinishFrees
  <1>6. TypeOK'
    BY <1>4, FinishFrees DEF TypeOK
  <1>7. Locks'
    <2>1. \A b \in Admins : pc'[b] # "idle" => job'[b].family \in Families
      BY <1>5 DEF Locks
    <2>2. \A g \in Families, b \in Admins :
             /\ draftLock'[g] = b <=> HasDraft(b, g)'
             /\ familyLock'[g] = b <=> HasFamily(b, g)'
             /\ HasDraft(b, g)' => HasDraft(b, g)
      BY FinishFrees
    <2>3. \A g \in Families, b \in Admins : HasDraft(b, g)' => Exists(g)'
      BY <2>2 DEF Locks, Exists
    <2> QED
      BY <2>1, <2>2, <2>3 DEF Locks
  <1>8. Saves' /\ Publishes'
    <2>1. \A b \in Admins : pc'[b] \in {"save", "publish_number", "publish"} =>
             /\ pc'[b] = pc[b] /\ job'[b] = job[b]
             /\ job[b].family \in Families \ {f}
      BY <1>1, <1>5 DEF Locks
    <2> QED
      BY <1>4, <2>1 DEF Saves, Publishes, LatestRevision, NextNumber
  <1>9. Views'
    <2> SUFFICES ASSUME NEW b \in Admins, NEW g \in Families, seen[b].family = g
                 PROVE  /\ g \in born
                        /\ Exists(g) =>
                              /\ seen[b].draft.version <= draft'[g].version
                              /\ seen[b].draft.version = draft'[g].version
                                     => seen[b].draft = draft'[g]
      BY DEF Views, Exists
    <2>1. CASE g = f
      <3>1. seen[b].draft.version \in Nat /\ seen[b].draft.version <= draft[f].version
        BY <1>1, <2>1 DEF Views, TypeOK, Draft
      <3> QED
        BY <1>3, <1>4, <2>1, <3>1 DEF Views
    <2>2. CASE g # f
      BY <1>4, <2>2 DEF Views
    <2> QED
      BY <2>1, <2>2
  <1>10. Tables' /\ RevisionsDense' /\ BoundExists'
    BY DEF Tables, RevisionsDense, BoundExists, LatestRevision, Exists
  <1> QED
    BY <1>6, <1>7, <1>8, <1>9, <1>10

\* It computes its number from the revisions there are,
LEMMA PublishNumberKeeps ==
  ASSUME Inv, NEW a \in Admins, PublishNumber(a)
  PROVE  Inv'
  <1> DEFINE f == job[a].family
             j == [job[a] EXCEPT !.number = NextNumber(f)]
  <1> USE DEF Inv, PublishNumber, tables
  <1>1. f \in Families
    BY DraftOwned
  <1>2. NextNumber(f) \in Nat
    BY <1>1, RevisionCount DEF NextNumber
  <1>3. /\ j \in Job /\ j.family = f /\ j.schema = job[a].schema /\ j.number = NextNumber(f)
    BY <1>2 DEF Job, TypeOK
  <1> HIDE DEF j
  <1>4. /\ pc'[a] = "publish" /\ job'[a] = j
        /\ \A b \in Admins \ {a} : pc'[b] = pc[b] /\ job'[b] = job[b]
    BY DEF At, TypeOK, j
  <1>5. TypeOK'
    BY <1>3 DEF At, TypeOK, j
  <1>6. Locks'
    <2>1. \A b \in Admins : pc'[b] # "idle" => job'[b].family \in Families
      BY <1>1, <1>3, <1>4 DEF Locks
    <2>2. \A g \in Families, b \in Admins :
             /\ HasDraft(b, g)' <=> HasDraft(b, g)
             /\ HasFamily(b, g)' <=> HasFamily(b, g)
      BY <1>3, <1>4 DEF HasDraft, HasFamily
    <2> QED
      BY <2>1, <2>2 DEF Locks, Exists
  <1>7. Saves'
    BY <1>4 DEF Saves
  <1>8. Publishes'
    BY <1>3, <1>4 DEF Publishes, LatestRevision, NextNumber
  <1>9. Tables' /\ Views' /\ RevisionsDense' /\ BoundExists'
    BY DEF Tables, Views, RevisionsDense, BoundExists, LatestRevision, Exists
  <1> QED
    BY <1>5, <1>6, <1>7, <1>8, <1>9

\* What a publication adds to the revisions of its family.
LEMMA PublishInserts ==
  ASSUME Inv, NEW a \in Admins, PublishInsert(a), NEW f, f = job[a].family
  PROVE  /\ f \in Families
         /\ LatestRevision(f) \in Nat
         /\ LatestRevision(f) < MaxRevisions
         /\ DOMAIN revisions[f] = 1..LatestRevision(f)
         /\ DOMAIN revisions'[f] = 1..LatestRevision(f) + 1
         /\ LatestRevision(f)' = LatestRevision(f) + 1
         /\ \A m \in DOMAIN revisions'[f] :
               revisions'[f][m] =
                  IF m = LatestRevision(f) + 1 THEN draft[f].schema
                  ELSE revisions[f][m]
         /\ draft[f].schema \in Publishable
         /\ revisions' = [g \in Families |-> revisions'[g]]
         /\ \A g \in Families \ {f} : revisions'[g] = revisions[g]
  <1> DEFINE n == LatestRevision(f)
             D == DOMAIN revisions[f]
  <1>1. f \in Families
    BY DraftOwned DEF Inv, PublishInsert
  <1>2. n \in Nat /\ D = 1..n /\ n = Cardinality(D)
    BY <1>1, RevisionCount DEF Inv, LatestRevision
  <1>3. /\ job[a].number = n + 1 /\ job[a].schema = draft[f].schema
        /\ draft[f].schema \in Publishable /\ n < MaxRevisions
    BY DEF Inv, Publishes, PublishInsert, NextNumber
  <1>4. revisions' = [revisions EXCEPT ![f] =
            [m \in D \cup {n + 1} |-> IF m = n + 1 THEN job[a].schema ELSE revisions[f][m]]]
    BY <1>3 DEF PublishInsert
  <1>5. D \cup {n + 1} = 1..n + 1 /\ Cardinality(D \cup {n + 1}) = n + 1
    <2> HIDE DEF D, n
    <2> QED
      BY <1>2, NextIsNew
  <1>6. /\ revisions'[f] =
              [m \in D \cup {n + 1} |-> IF m = n + 1 THEN job[a].schema ELSE revisions[f][m]]
        /\ revisions' = [g \in Families |-> revisions'[g]]
        /\ \A g \in Families \ {f} : revisions'[g] = revisions[g]
    BY <1>1, <1>4 DEF Inv, Tables
  <1>7. DOMAIN revisions'[f] = 1..n + 1
    BY <1>5, <1>6
  <1>8. LatestRevision(f)' = n + 1
    BY <1>5, <1>6 DEF LatestRevision
  <1> QED
    BY <1>1, <1>2, <1>3, <1>6, <1>7, <1>8

\* and inserts it while the number is still the next one.
LEMMA PublishInsertKeeps ==
  ASSUME Inv, NEW a \in Admins, PublishInsert(a)
  PROVE  Inv'
  <1>f. PICK f : f = job[a].family
    OBVIOUS
  <1>i. Inv /\ pc[a] = "publish" /\ Finish(a) /\ UNCHANGED <<key, born, draft, bound, seen>>
    BY DEF PublishInsert
  <1>1. /\ f \in Families
        /\ \A b \in Admins \ {a} :
              pc[b] \in {"save", "publish_number", "publish"} => job[b].family # f
    BY <1>f, <1>i, DraftOwned DEF Inv
  <1>2. /\ LatestRevision(f) \in Nat /\ LatestRevision(f) < MaxRevisions
        /\ DOMAIN revisions[f] = 1..LatestRevision(f)
        /\ DOMAIN revisions'[f] = 1..LatestRevision(f) + 1
        /\ LatestRevision(f)' = LatestRevision(f) + 1
        /\ \A m \in DOMAIN revisions'[f] : revisions'[f][m] =
              IF m = LatestRevision(f) + 1 THEN draft[f].schema ELSE revisions[f][m]
        /\ draft[f].schema \in Publishable
        /\ revisions' = [g \in Families |-> revisions'[g]]
        /\ \A g \in Families \ {f} : revisions'[g] = revisions[g]
    BY <1>f, PublishInserts
  <1> USE <1>i DEF Inv
  <1>3. /\ pc'[a] = "idle"
        /\ \A b \in Admins \ {a} : pc'[b] = pc[b] /\ job'[b] = job[b]
    BY FinishFrees
  <1>4. TypeOK'
    <2>1. ASSUME NEW g \in Families
          PROVE  /\ DOMAIN revisions'[g] \subseteq 1..MaxRevisions
                 /\ \A m \in DOMAIN revisions'[g] : revisions'[g][m] \in Publishable
      <3>1. CASE g = f
        <4>1. \A m \in DOMAIN revisions'[f] :
                 m # LatestRevision(f) + 1 => m \in DOMAIN revisions[f]
          <5> HIDE <1>i
          <5> QED
            BY <1>2
        <4>2. \A m \in DOMAIN revisions[f] : revisions[f][m] \in Publishable
          BY <1>1 DEF TypeOK
        <4>3. ASSUME NEW m \in DOMAIN revisions'[f] PROVE revisions'[f][m] \in Publishable
          <5> HIDE <1>i
          <5> QED
            BY <1>2, <4>1, <4>2, <4>3
        <4>4. DOMAIN revisions'[f] \subseteq 1..MaxRevisions
          <5> HIDE <1>i
          <5> QED
            BY <1>2
        <4> QED
          BY <3>1, <4>3, <4>4
      <3>2. CASE g # f
        <4>1. revisions'[g] = revisions[g]
          BY <1>2, <2>1, <3>2
        <4> QED
          BY <2>1, <4>1 DEF TypeOK
      <3> QED
        BY <3>1, <3>2
    <2> QED
      BY <2>1, FinishFrees DEF TypeOK
  <1>5. Tables' /\ Views'
    BY <1>2 DEF Tables, Views, Exists
  <1>6. Locks'
    <2>1. \A b \in Admins : pc'[b] # "idle" => job'[b].family \in Families
      BY <1>3 DEF Locks
    <2>2. \A g \in Families, b \in Admins :
             /\ draftLock'[g] = b <=> HasDraft(b, g)'
             /\ familyLock'[g] = b <=> HasFamily(b, g)'
             /\ HasDraft(b, g)' => HasDraft(b, g)
      BY FinishFrees
    <2>3. \A g \in Families, b \in Admins : HasDraft(b, g)' => Exists(g)'
      BY <2>2 DEF Locks, Exists
    <2> QED
      BY <2>1, <2>2, <2>3 DEF Locks
  <1>7. \A b \in Admins : pc'[b] \in {"save", "publish_number", "publish"} =>
           /\ pc'[b] = pc[b] /\ job'[b] = job[b]
           /\ job[b].family \in Families \ {f}
    BY <1>1, <1>3 DEF Locks
  <1>8. Saves'
    BY <1>7 DEF Saves
  <1>9. Publishes'
    <2>1. \A g \in Families \ {f} : LatestRevision(g)' = LatestRevision(g)
      BY <1>2 DEF LatestRevision
    <2> QED
      BY <1>7, <2>1 DEF Publishes, NextNumber
  <1>10. RevisionsDense' /\ BoundExists'
    <2> SUFFICES ASSUME NEW g \in Families
                 PROVE  /\ DOMAIN revisions'[g] = 1..LatestRevision(g)'
                        /\ bound[g] \subseteq DOMAIN revisions'[g]
      BY DEF RevisionsDense, BoundExists
    <2>1. CASE g = f
      <3>1. DOMAIN revisions[f] \subseteq DOMAIN revisions'[f]
        BY <1>2
      <3> QED
        BY <1>2, <2>1, <3>1 DEF BoundExists
    <2>2. CASE g # f
      BY <1>2, <2>2 DEF RevisionsDense, BoundExists, LatestRevision
    <2> QED
      BY <2>1, <2>2
  <1> QED
    BY <1>4, <1>5, <1>6, <1>8, <1>9, <1>10

-----------------------------------------------------------------------------
\* A deletion counts what hangs on the family,
LEMMA DeleteCountKeeps ==
  ASSUME Inv, NEW a \in Admins, NEW f \in Families, DeleteCount(a, f)
  PROVE  Inv'
  <1> DEFINE j == [NoJob EXCEPT !.family = f]
  <1> USE DEF Inv, DeleteCount, tables
  <1>1. j \in Job /\ j.family = f
    BY Defaults DEF Job
  <1> HIDE DEF j
  <1>2. /\ pc'[a] = "delete" /\ job'[a] = j
        /\ \A b \in Admins \ {a} : pc'[b] = pc[b] /\ job'[b] = job[b]
    BY DEF At, TypeOK, j
  <1>3. TypeOK'
    BY <1>1 DEF At, TypeOK, j
  <1>4. Locks'
    <2>1. \A b \in Admins : pc'[b] # "idle" => job'[b].family \in Families
      BY <1>1, <1>2 DEF Locks
    <2>2. \A g \in Families, b \in Admins :
             /\ HasDraft(b, g)' <=> HasDraft(b, g)
             /\ HasFamily(b, g)' <=> HasFamily(b, g)
      BY <1>2 DEF HasDraft, HasFamily
    <2> QED
      BY <2>1, <2>2 DEF Locks, Exists
  <1>5. Saves' /\ Publishes'
    BY <1>2 DEF Saves, Publishes, LatestRevision, NextNumber
  <1>6. Tables' /\ Views' /\ RevisionsDense' /\ BoundExists'
    BY DEF Tables, Views, RevisionsDense, BoundExists, LatestRevision, Exists
  <1> QED
    BY <1>3, <1>4, <1>5, <1>6

\* and deletes the row whatever came since: the foreign keys decide.
LEMMA DeleteRowKeeps ==
  ASSUME Inv, NEW a \in Admins, DeleteRow(a)
  PROVE  Inv'
  <1> DEFINE f == job[a].family
  <1> USE DEF Inv, DeleteRow, tables
  <1>1. f \in Families /\ \A b \in Admins : ~HasFamily(b, f)
    BY DEF Locks, FamilyFree
  <1>2. /\ pc'[a] = "delete_cascade" /\ job' = job
        /\ \A b \in Admins \ {a} : pc'[b] = pc[b]
    BY DEF At, TypeOK
  <1>3. \A g \in Families : familyLock'[g] = IF g = f THEN a ELSE familyLock[g]
    BY DEF TypeOK
  <1>4. TypeOK'
    BY DEF At, TypeOK
  <1>5. Locks'
    <2>1. \A b \in Admins : pc'[b] # "idle" => job'[b].family \in Families
      BY <1>1, <1>2 DEF Locks
    <2>2. \A g \in Families, b \in Admins : HasDraft(b, g)' <=> HasDraft(b, g)
      BY <1>2 DEF HasDraft
    <2>3. \A g \in Families, b \in Admins : familyLock'[g] = b <=> HasFamily(b, g)'
      BY <1>1, <1>2, <1>3 DEF Locks, HasFamily
    <2> QED
      BY <2>1, <2>2, <2>3 DEF Locks, Exists
  <1>6. Saves' /\ Publishes'
    BY <1>2 DEF Saves, Publishes, LatestRevision, NextNumber
  <1>7. Tables' /\ Views' /\ RevisionsDense' /\ BoundExists'
    BY DEF Tables, Views, RevisionsDense, BoundExists, LatestRevision, Exists
  <1> QED
    BY <1>4, <1>5, <1>6, <1>7

\* The cascade waits for the draft's lock, so no save or publication of the
\* family is under way; and it does not happen while an entity is bound.
LEMMA DeleteCascadeKeeps ==
  ASSUME Inv, NEW a \in Admins, DeleteCascade(a)
  PROVE  Inv'
  <1>f. PICK f : f = job[a].family
    OBVIOUS
  <1> USE DEF Inv, DeleteCascade
  <1>1. f \in Families /\ \A b \in Admins : ~HasDraft(b, f)
    BY <1>f DEF Locks, DraftFree
  <1>2. /\ key'[f] = NoKey /\ ~Exists(f)'
        /\ \A g \in Families \ {f} : key'[g] = key[g] /\ draft'[g] = draft[g]
        /\ draft' \in [Families -> Draft]
    BY <1>f, <1>1, Defaults DEF TypeOK, Exists
  <1>3. /\ DOMAIN revisions'[f] = {} /\ LatestRevision(f)' = 0
        /\ \A g \in Families \ {f} :
              revisions'[g] = revisions[g] /\ LatestRevision(g)' = LatestRevision(g)
        /\ revisions' = [g \in Families |-> revisions'[g]]
    <2>1. /\ revisions'[f] = <<>>
          /\ \A g \in Families \ {f} : revisions'[g] = revisions[g]
          /\ revisions' = [g \in Families |-> revisions'[g]]
      BY <1>f, <1>1 DEF Tables
    <2> QED
      BY <2>1, FS_EmptySet DEF LatestRevision
  <1>4. /\ pc'[a] = "idle"
        /\ \A b \in Admins \ {a} : pc'[b] = pc[b] /\ job'[b] = job[b]
    BY FinishFrees
  <1>5. TypeOK'
    <2>1. key' \in [Families -> Keys \cup {NoKey}]
      BY DEF TypeOK
    <2>2. \A g \in Families : /\ DOMAIN revisions'[g] \subseteq 1..MaxRevisions
                              /\ \A m \in DOMAIN revisions'[g] : revisions'[g][m] \in Publishable
      BY <1>3 DEF TypeOK
    <2> QED
      BY <1>2, <2>1, <2>2, FinishFrees DEF TypeOK
  <1>6. Tables' /\ Views'
    BY <1>2, <1>3 DEF Tables, Views, Exists
  <1>7. \A b \in Admins : pc'[b] \in {"save", "publish_number", "publish"} =>
           /\ pc'[b] = pc[b] /\ job'[b] = job[b]
           /\ job[b].family \in Families \ {f}
    BY <1>1, <1>4 DEF Locks, HasDraft
  <1>8. Locks'
    <2>1. \A b \in Admins : pc'[b] # "idle" => job'[b].family \in Families
      BY <1>4 DEF Locks
    <2>2. \A g \in Families, b \in Admins :
             /\ draftLock'[g] = b <=> HasDraft(b, g)'
             /\ familyLock'[g] = b <=> HasFamily(b, g)'
             /\ HasDraft(b, g)' => HasDraft(b, g)
      BY FinishFrees
    <2>3. \A g \in Families, b \in Admins : HasDraft(b, g)' => Exists(g)'
      BY <1>1, <1>2, <2>2 DEF Locks, Exists
    <2> QED
      BY <2>1, <2>2, <2>3 DEF Locks
  <1>9. Saves' /\ Publishes'
    BY <1>2, <1>3, <1>7 DEF Saves, Publishes, NextNumber
  <1>10. RevisionsDense' /\ BoundExists'
    <2> SUFFICES ASSUME NEW g \in Families
                 PROVE  /\ DOMAIN revisions'[g] = 1..LatestRevision(g)'
                        /\ bound[g] \subseteq DOMAIN revisions'[g]
      BY DEF RevisionsDense, BoundExists
    <2>1. CASE g = f
      <3>1. bound[f] = {}
        BY <1>f DEF Restricted
      <3>2. 1..LatestRevision(f)' = {}
        BY <1>3
      <3> QED
        BY <1>3, <2>1, <3>1, <3>2
    <2>2. CASE g # f
      BY <1>3, <2>2 DEF RevisionsDense, BoundExists
    <2> QED
      BY <2>1, <2>2
  <1> QED
    BY <1>5, <1>6, <1>8, <1>9, <1>10

\* A refused statement, a deadlock's victim, a rollback.
LEMMA EndKeeps ==
  ASSUME Inv, NEW a \in Admins, Refuse(a) \/ DeadlockVictim(a) \/ Rollback(a)
  PROVE  Inv'
  <1>1. Finish(a) /\ UNCHANGED <<tables, seen>>
    BY DEF Refuse, DeadlockVictim, Rollback
  <1> USE <1>1 DEF Inv, tables
  <1>2. /\ pc'[a] = "idle"
        /\ \A b \in Admins \ {a} : pc'[b] = pc[b] /\ job'[b] = job[b]
    BY FinishFrees
  <1>3. TypeOK'
    BY FinishFrees DEF TypeOK
  <1>4. Locks'
    <2>1. \A b \in Admins : pc'[b] # "idle" => job'[b].family \in Families
      BY <1>2 DEF Locks
    <2>2. \A g \in Families, b \in Admins :
             /\ draftLock'[g] = b <=> HasDraft(b, g)'
             /\ familyLock'[g] = b <=> HasFamily(b, g)'
             /\ HasDraft(b, g)' => HasDraft(b, g)
      BY FinishFrees
    <2>3. \A g \in Families, b \in Admins : HasDraft(b, g)' => Exists(g)'
      BY <2>2 DEF Locks, Exists
    <2> QED
      BY <2>1, <2>2, <2>3 DEF Locks
  <1>5. Saves' /\ Publishes'
    BY <1>2 DEF Saves, Publishes, LatestRevision, NextNumber
  <1>6. Tables' /\ Views' /\ RevisionsDense' /\ BoundExists'
    BY DEF Tables, Views, RevisionsDense, BoundExists, LatestRevision, Exists
  <1> QED
    BY <1>3, <1>4, <1>5, <1>6

-----------------------------------------------------------------------------
\* Every step keeps the invariant: one lemma per action.
LEMMA InvStep == Inv /\ [Next]_vars => Inv'
  <1> SUFFICES ASSUME Inv, [Next]_vars PROVE Inv'
    OBVIOUS
  <1>1. ASSUME NEW a \in Admins, Begin(a) PROVE Inv'
    BY <1>1, ViewKeeps, PublishLoadKeeps, DeleteCountKeeps, SaveLoadKeeps DEF Begin
  <1>2. ASSUME NEW a \in Admins, Step(a) \/ Rollback(a) PROVE Inv'
    BY <1>2, SaveWriteKeeps, PublishNumberKeeps, PublishInsertKeeps, DeleteRowKeeps,
       DeleteCascadeKeeps, EndKeeps DEF Step
  <1>3. ASSUME NEW f \in Families,
               BindEntity(f) \/ \E n \in 1..MaxRevisions : UnbindEntities(f, n)
        PROVE  Inv'
    BY <1>3, BindingKeeps
  <1>4. ASSUME NEW f \in Families, NEW k \in Keys, UpdateFamilyMeta(f, k) PROVE Inv'
    BY <1>4, UpdateFamilyMetaKeeps
  <1>5. ASSUME NEW f \in Families, NEW k \in Keys, NEW s \in Schemas, CreateDraft(f, k, s)
        PROVE  Inv'
    BY <1>5, CreateDraftKeeps
  <1>6. CASE UNCHANGED vars
    BY <1>6 DEF vars, Inv, TypeOK, Tables, Locks, Saves, Publishes, Views, RevisionsDense,
                BoundExists, LatestRevision, NextNumber, HasDraft, HasFamily, Exists
  <1> QED
    BY <1>1, <1>2, <1>3, <1>4, <1>5, <1>6 DEF Next

\* The inductive invariant holds in every reachable state.
THEOREM CatalogInvariant == Spec => []Inv
  BY InitInv, InvStep, PTL DEF Spec

\* Rows, locks and requests keep their types: only schemas that
\* ValidateSchemaForPublication accepts are ever published.
THEOREM CatalogTypes == Spec => []TypeOK
  <1>1. Inv => TypeOK
    BY DEF Inv
  <1> QED
    BY <1>1, CatalogInvariant, PTL

\* The revision numbers of a family are 1, 2, ... without a gap, however many
\* administrators publish at once (Publish computes MAX(revision_no) + 1 in a
\* statement of its own).
THEOREM RevisionsHaveNoGap == Spec => []RevisionsDense
  <1>1. Inv => RevisionsDense
    BY DEF Inv
  <1> QED
    BY <1>1, CatalogInvariant, PTL

\* No entity is left with a revision that went with its family.
THEOREM BindingsExist == Spec => []BoundExists
  <1>1. Inv => BoundExists
    BY DEF Inv
  <1> QED
    BY <1>1, CatalogInvariant, PTL

-----------------------------------------------------------------------------
\* ADR-0005 item 2, for every publication: between the SELECT ... FOR UPDATE
\* that reads the draft and the commit of the revision nobody edits the draft.
THEOREM RevisionIsItsDraft == Spec => PublishedIsDraft
  <1> DEFINE A == \A f \in Families : \A n \in DOMAIN revisions'[f] \ DOMAIN revisions[f] :
                     revisions'[f][n] = draft[f].schema /\ draft'[f] = draft[f]
  <1>1. ASSUME Inv, [Next]_vars PROVE A
    <2> SUFFICES ASSUME NEW f \in Families,
                        NEW n \in DOMAIN revisions'[f] \ DOMAIN revisions[f]
                 PROVE  revisions'[f][n] = draft[f].schema /\ draft'[f] = draft[f]
      OBVIOUS
    <2>1. ASSUME NEW a \in Admins, PublishInsert(a)
          PROVE  revisions'[f][n] = draft[f].schema /\ draft'[f] = draft[f]
      <3>f. PICK g : g = job[a].family
        OBVIOUS
      <3>i. Inv
        BY <1>1
      <3>1. /\ LatestRevision(g) \in Nat
            /\ DOMAIN revisions[g] = 1..LatestRevision(g)
            /\ DOMAIN revisions'[g] = 1..LatestRevision(g) + 1
            /\ \A m \in DOMAIN revisions'[g] : revisions'[g][m] =
                  IF m = LatestRevision(g) + 1 THEN draft[g].schema ELSE revisions[g][m]
            /\ \A h \in Families \ {g} : revisions'[h] = revisions[h]
        BY <3>i, <2>1, <3>f, PublishInserts
      <3>2. f = g
        BY <3>1
      <3>3. n = LatestRevision(g) + 1
        BY <3>1, <3>2
      <3>4. UNCHANGED draft
        BY <2>1 DEF PublishInsert
      <3> QED
        BY <3>1, <3>2, <3>3, <3>4
    <2>2. ASSUME NEW a \in Admins, DeleteCascade(a) PROVE FALSE
      <3>1. revisions' = [revisions EXCEPT ![job[a].family] = <<>>]
        BY <2>2 DEF DeleteCascade
      <3>2. DOMAIN revisions'[f] \subseteq DOMAIN revisions[f]
        BY <1>1, <3>1 DEF Inv, Tables
      <3> QED
        BY <3>2
    <2>3. CASE UNCHANGED revisions
      BY <2>3
    <2> QED
      BY <1>1, <2>1, <2>2, <2>3
      DEF Next, Begin, Step, vars, tables, View, PublishLoad, DeleteCount, SaveLoad, SaveWrite,
          PublishNumber, DeleteRow, Refuse, DeadlockVictim, Rollback, BindEntity,
          UnbindEntities, UpdateFamilyMeta, CreateDraft
  <1> HIDE DEF A
  <1>2. Inv /\ [Next]_vars => [A]_vars
    BY <1>1
  <1>3. Spec => [][A]_vars
    BY <1>2, CatalogInvariant, PTL DEF Spec
  <1> QED
    BY <1>3 DEF A, PublishedIsDraft

\* Optimistic concurrency: a save with if_draft_schema_version that is not
\* refused replaces exactly the draft its author has read, however many others
\* save in between: a version number never returns with another content.
THEOREM NoDraftIsLost == Spec => NoLostDraft
  <1> DEFINE A == \A f \in Families, a \in Admins :
                     /\ pc[a] = "save" /\ job[a].family = f /\ job[a].checked
                     /\ draft'[f] # draft[f]
                     => draft[f] = seen[a].draft
  <1>1. Inv => A
    BY DEF Inv, Saves
  <1> HIDE DEF A
  <1>2. Inv /\ [Next]_vars => [A]_vars
    BY <1>1
  <1>3. Spec => [][A]_vars
    BY <1>2, CatalogInvariant, PTL DEF Spec
  <1> QED
    BY <1>3 DEF A, NoLostDraft

=============================================================================
