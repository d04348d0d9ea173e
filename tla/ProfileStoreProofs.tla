------------------------ MODULE ProfileStoreProofs ------------------------
(***************************************************************************)
(* Theorems about ProfileStore, for every value of its constants.          *)
(***************************************************************************)
EXTENDS ProfileStore, TLAPS, FiniteSetTheorems, WellFoundedInduction

-----------------------------------------------------------------------------
\* Types of what the helpers return.
LEMMA NoJobType == NoJob \in Job
<1>1. EmptyDocument \in Document /\ DataOf(EmptyDocument) \in Data
  BY SourcesAssumption DEF EmptyDocument, Document, Cell, Absent, DataOf, Data
<1>2. (CHOOSE f \in Families : TRUE) \in Families
  BY FamiliesAssumption
<1>3. (CHOOSE p \in Paths : TRUE) \in Paths
  BY PathsAssumption
<1> QED BY <1>1, <1>2, <1>3 DEF NoJob, Job

\* An authority merge yields a stored document.
LEMMA MergedType ==
  ASSUME NEW doc \in Document, NEW data \in Data, NEW s \in Sources
  PROVE  Merged(doc, data, s) \in Document
BY DEF Merged, Document, Cell, Data

\* So does the document of a new entity,
LEMMA InitialType ==
  ASSUME NEW data \in Data, NEW s \in Sources
  PROVE  initialDocumentWithAuthority(data, s) \in Document
BY SourcesAssumption DEF initialDocumentWithAuthority, Document, Cell, Data,
   Absent

\* an operator's decision on a field,
LEMMA ResolvedType ==
  ASSUME NEW doc \in Document, NEW p \in Paths, NEW v \in Values
  PROVE  Resolved(doc, p, v) \in Document
BY SourcesAssumption DEF Resolved, Document, Cell

\* and the merge of a duplicate.
LEMMA MergeDocumentsType ==
  ASSUME NEW doc \in Document, NEW other \in Document
  PROVE  mergeDocumentsForDuplicate(doc, other) \in Document
BY DEF mergeDocumentsForDuplicate, Document, Cell

-----------------------------------------------------------------------------
(***************************************************************************)
(* The inductive core.  TypeOK and LoadedIsCurrent are not inductive alone: *)
(* that a document was loaded as the latest version makes sense only while *)
(* the entity has versions (Existence), and a request that is about to     *)
(* lock or to write must name entities it may still look at (WellFormed):  *)
(* a merge that waits for its second row holds the first one.              *)
(***************************************************************************)
\* A live entity has a version, any other has none.
Existence ==
    \A e \in Entities : IF Live(e) THEN Len(versions[e]) > 0
                        ELSE versions[e] = <<>>
\* A request past its first statement names its entities, and a merge between
\* its two locks holds the first.
WellFormed(r) ==
    /\ pc[r] \in Holding \cup {"resolve_lock", "merge_lock"} =>
          job[r].entity \in Entities
    /\ pc[r] \in {"merge_lock", "merge"} =>
          job[r].other \in Entities \ {job[r].entity}
    /\ pc[r] = "merge_lock" => lock[First(r)] = r /\ Live(First(r))
JobWellFormed == \A r \in Requests : WellFormed(r)
Core == TypeOK /\ Existence /\ JobWellFormed /\ LoadedIsCurrent

\* The core holds initially.
LEMMA CoreInit == Init => Core
<1> SUFFICES ASSUME Init PROVE Core
  OBVIOUS
<1>1. TypeOK
  BY NoJobType, FamiliesAssumption DEF Init, TypeOK, Labels
<1>2. Existence
  BY DEF Init, Existence, Live
<1>3. JobWellFormed /\ LoadedIsCurrent
  BY DEF Init, JobWellFormed, WellFormed, LoadedIsCurrent, Holding
<1> QED BY <1>1, <1>2, <1>3 DEF Core

\* The latest version of a live entity is a document.
LEMMA LatestType ==
  ASSUME TypeOK, Existence, NEW e \in Entities, Live(e)
  PROVE  Latest(e) \in Document
BY DEF TypeOK, Existence, Latest

\* The end of a transaction, its next statement and a row lock keep the types.
LEMMA FinishType ==
  ASSUME TypeOK, NEW r \in Requests, Finish(r)
  PROVE  /\ lock' \in [Entities -> Requests \cup {NoRequest}]
         /\ pc' \in [Requests -> Labels]
         /\ job' \in [Requests -> Job]
BY NoJobType DEF TypeOK, Finish, Unlocked, Labels

\* As FinishType, for the next statement.
LEMMA AtType ==
  ASSUME TypeOK, NEW r \in Requests, NEW label \in Labels, NEW j \in Job,
         At(r, label, j)
  PROVE  pc' \in [Requests -> Labels] /\ job' \in [Requests -> Job]
BY DEF At, TypeOK

\* As FinishType, for a row lock.
LEMMA LockType ==
  ASSUME TypeOK, NEW r \in Requests, NEW e \in Entities, Lock(r, e)
  PROVE  lock' \in [Entities -> Requests \cup {NoRequest}]
BY DEF Lock, TypeOK

\* Adding an event keeps the type of the outbox.
LEMMA AnnouncedType ==
  ASSUME NEW rows \in SUBSET OutboxRow, NEW e \in Entities,
         NEW v \in Nat, NEW k \in Nat
  PROVE  Announced(rows, e, v, k) \in SUBSET OutboxRow
BY DEF Announced, OutboxRow

\* As AnnouncedType, for the event of the next version.
LEMMA AnnounceNextType ==
  ASSUME TypeOK, NEW rows \in SUBSET OutboxRow, NEW e \in Entities, NEW k \in Nat
  PROVE  Announced(rows, e, Len(versions[e]) + 1, k) \in SUBSET OutboxRow
<1>1. Len(versions[e]) + 1 \in Nat
  BY DEF TypeOK
<1> QED BY <1>1, AnnouncedType

\* Deciding a conflict keeps the type of the conflict rows.
LEMMA DecidedType ==
  ASSUME NEW s \in Seq(ConflictRow), NEW i \in Nat, NEW v \in Values
  PROVE  [s EXCEPT ![i] = [@ EXCEPT !.status = "resolved", !.resolution = v]]
            \in Seq(ConflictRow)
<1>1. ASSUME i \in DOMAIN s
      PROVE  [s[i] EXCEPT !.status = "resolved", !.resolution = v] \in ConflictRow
  <2>1. s[i] \in ConflictRow
    BY <1>1
  <2> QED BY <2>1 DEF ConflictRow
<1> DEFINE row == [s[i] EXCEPT !.status = "resolved", !.resolution = v]
           next == [s EXCEPT ![i] = row]
<1>2. CASE i \in DOMAIN s
  <2>1. row \in ConflictRow
    BY <1>1, <1>2
  <2> HIDE DEF row
  <2>2. [s EXCEPT ![i] = row] \in Seq(ConflictRow)
    BY <1>2, <2>1
  <2> QED BY <2>2 DEF row
<1>3. CASE i \notin DOMAIN s
  <2> HIDE DEF row
  <2>1. [s EXCEPT ![i] = row] = s
    BY <1>3
  <2> QED BY <2>1 DEF row
<1> QED BY <1>2, <1>3

\* Reassigning external keys keeps the type of owner.
LEMMA RemappedType ==
  ASSUME TypeOK, NEW e \in Entities, NEW refs \in SUBSET Refs
  PROVE  Remapped(e, refs) \in [Refs -> Entities \cup {NoEntity}]
BY DEF TypeOK, Remapped

\* New conflict candidates keep the type of the conflict rows.
LEMMA CandidatesType ==
  ASSUME TypeOK, NEW e \in Entities, NEW doc \in Document,
         NEW data \in Data, NEW s \in Sources
  PROVE  WithCandidates(e, doc, data, s)
            \in [Entities -> [Paths -> Seq(ConflictRow)]]
<1>1. ASSUME NEW p \in Candidates(doc, data, s)
      PROVE  OpenRow(data[p], s) \in ConflictRow
  BY NoValueAssumption DEF Candidates, Conflicts, OpenRow, ConflictRow, Data
<1>2. ASSUME NEW p \in Paths
      PROVE  (IF p \in Candidates(doc, data, s)
              THEN Append(conflicts[e][p], OpenRow(data[p], s))
              ELSE conflicts[e][p]) \in Seq(ConflictRow)
  BY <1>1 DEF TypeOK
<1> QED BY <1>2 DEF TypeOK, WithCandidates

\* Every step keeps the types: one step of the proof per action.
LEMMA TypeNext == Core /\ [Next]_vars => TypeOK'
<1> SUFFICES ASSUME Core, [Next]_vars PROVE TypeOK'
  OBVIOUS
<1> USE DEF Core
<1>1. ASSUME NEW r \in Requests, NEW f \in Families, NEW data \in Data,
             CreateValidate(r, f, data)
      PROVE  TypeOK'
  <2>1. [NoJob EXCEPT !.family = f, !.data = data] \in Job
    BY NoJobType DEF Job
  <2>2. pc' \in [Requests -> Labels] /\ job' \in [Requests -> Job]
    BY <1>1, <2>1, AtType DEF CreateValidate, Labels
  <2> QED BY <1>1, <2>2 DEF TypeOK, CreateValidate, store
<1>2. ASSUME NEW r \in Requests, NEW e \in Entities, NEW s \in Sources,
             NEW refs \in SUBSET Refs,
             CreateInsert(r, e, s, refs)
      PROVE  TypeOK'
  <2>1. versions' \in [Entities -> Seq(Document)]
    <3>1. job[r].data \in Data
      BY DEF TypeOK, Job
    <3> QED BY <1>2, <3>1, InitialType DEF TypeOK, CreateInsert
  <2>2. LatestRevision(job[r].family) \in Nat /\ job[r].family \in Families
    BY DEF TypeOK, Job, LatestRevision
  <2>3. outbox' \in SUBSET OutboxRow /\ owner' \in [Refs -> Entities \cup {NoEntity}]
    BY <1>2, <2>2, AnnouncedType, RemappedType DEF TypeOK, CreateInsert
  <2> QED BY <1>2, <2>1, <2>2, <2>3, FinishType DEF TypeOK, CreateInsert
<1>3. ASSUME NEW r \in Requests, NEW e \in Entities,
             UpdateLoad(r, e)
      PROVE  TypeOK'
  <2>1. Latest(e) \in Document
    BY <1>3, LatestType DEF UpdateLoad
  <2>2. [NoJob EXCEPT !.entity = e, !.doc = Latest(e)] \in Job
    BY <2>1, NoJobType DEF Job
  <2>3. pc' \in [Requests -> Labels] /\ job' \in [Requests -> Job]
    BY <1>3, <2>2, AtType DEF UpdateLoad, Labels
  <2>4. lock' \in [Entities -> Requests \cup {NoRequest}]
    BY <1>3, LockType DEF UpdateLoad
  <2> QED BY <1>3, <2>3, <2>4 DEF TypeOK, UpdateLoad, store
<1>4. ASSUME NEW r \in Requests, NEW data \in Data, NEW s \in Sources,
             NEW refs \in SUBSET Refs,
             UpdateCommit(r, data, s, refs)
      PROVE  TypeOK'
  <2>1. job[r].entity \in Entities /\ job[r].doc \in Document
    BY <1>4 DEF UpdateCommit, JobWellFormed, WellFormed, Holding, TypeOK, Job
  <2>2. versions' \in [Entities -> Seq(Document)]
    BY <1>4, <2>1, MergedType DEF TypeOK, UpdateCommit
  <2>3. outbox' \in SUBSET OutboxRow
    <3>1. bound[job[r].entity] \in Nat /\ outbox \in SUBSET OutboxRow
      BY <2>1 DEF TypeOK
    <3> QED BY <1>4, <2>1, <3>1, AnnounceNextType DEF UpdateCommit
  <2>4. owner' \in [Refs -> Entities \cup {NoEntity}]
    BY <1>4, <2>1, RemappedType DEF UpdateCommit
  <2>5. conflicts' \in [Entities -> [Paths -> Seq(ConflictRow)]]
    BY <1>4, <2>1, CandidatesType DEF UpdateCommit
  <2> QED BY <1>4, <2>2, <2>3, <2>4, <2>5, FinishType DEF TypeOK, UpdateCommit
<1>5. ASSUME NEW r \in Requests, NEW data \in Data, NEW s \in Sources,
             UpdateBlocked(r, data, s)
      PROVE  TypeOK'
  <2>1. job[r].entity \in Entities /\ job[r].doc \in Document
    BY <1>5 DEF UpdateBlocked, JobWellFormed, WellFormed, Holding, TypeOK, Job
  <2> QED BY <1>5, <2>1, CandidatesType, FinishType DEF TypeOK, UpdateBlocked
<1>6. ASSUME NEW r \in Requests, NEW e \in Entities, NEW k \in 1..MaxRevisions,
             UpgradeLoad(r, e, k)
      PROVE  TypeOK'
  <2>1. Latest(e) \in Document /\ k \in Nat
    BY <1>6, LatestType, BoundsAssumption DEF UpgradeLoad, Upgradable
  <2>2. [NoJob EXCEPT !.entity = e, !.doc = Latest(e), !.target = k] \in Job
    BY <2>1, NoJobType DEF Job
  <2>3. pc' \in [Requests -> Labels] /\ job' \in [Requests -> Job]
    BY <1>6, <2>2, AtType DEF UpgradeLoad, Labels
  <2>4. lock' \in [Entities -> Requests \cup {NoRequest}]
    BY <1>6, LockType DEF UpgradeLoad
  <2> QED BY <1>6, <2>3, <2>4 DEF TypeOK, UpgradeLoad, store
<1>7. ASSUME NEW r \in Requests,
             UpgradeWrite(r)
      PROVE  TypeOK'
  <2>1. /\ job[r] \in Job /\ job[r].entity \in Entities
        /\ job[r].doc \in Document /\ job[r].target \in Nat
    BY <1>7 DEF UpgradeWrite, JobWellFormed, WellFormed, Holding, TypeOK, Job
  <2>2. bound' \in [Entities -> Nat] /\ bound'[job[r].entity] \in Nat
    BY <1>7, <2>1 DEF TypeOK, UpgradeWrite
  <2>3. outbox' \in SUBSET OutboxRow
    <3>1. outbox \in SUBSET OutboxRow
      BY DEF TypeOK
    <3> QED BY <1>7, <2>1, <2>2, <3>1, AnnounceNextType DEF UpgradeWrite
  <2>4. versions' \in [Entities -> Seq(Document)]
    BY <1>7, <2>1 DEF TypeOK, UpgradeWrite
  <2>5. /\ pc' \in [Requests -> Labels] /\ job' \in [Requests -> Job]
        /\ lock' \in [Entities -> Requests \cup {NoRequest}]
    <3>1. [job[r] EXCEPT !.entity = NoEntity, !.doc = EmptyDocument] \in Job
      BY <2>1, NoJobType DEF Job, NoJob
    <3> QED BY <1>7, <3>1, NoJobType DEF TypeOK, UpgradeWrite, At, Unlocked,
               Labels
  <2> QED BY <1>7, <2>2, <2>3, <2>4, <2>5 DEF TypeOK, UpgradeWrite
<1>8. ASSUME NEW r \in Requests, NEW f \in Families,
             NEW k \in 1..MaxRevisions, NEW S \in SUBSET Entities,
             BatchGiven(r, f, k, S)
      PROVE  TypeOK'
  <2>1. k \in Nat
    BY BoundsAssumption
  <2>2. [NoJob EXCEPT !.family = f, !.target = k, !.queue = S] \in Job
    BY <2>1, NoJobType DEF Job
  <2>3. pc' \in [Requests -> Labels] /\ job' \in [Requests -> Job]
    BY <1>8, <2>2, AtType DEF BatchGiven, BatchSelect, Labels
  <2> QED BY <1>8, <2>3 DEF TypeOK, BatchGiven, BatchSelect, store
<1>9. ASSUME NEW r \in Requests, NEW f \in Families, NEW k \in 1..MaxRevisions,
             BatchBehind(r, f, k)
      PROVE  TypeOK'
  <2> DEFINE S == {e \in Behind(f, k) :
                    Cardinality({x \in Behind(f, k) : x < e}) < BatchLimit}
  <2>1. k \in Nat /\ S \in SUBSET Entities
    BY BoundsAssumption DEF Behind
  <2>3. [NoJob EXCEPT !.family = f, !.target = k, !.queue = S] \in Job
    BY <2>1, NoJobType DEF Job
  <2>4. pc' \in [Requests -> Labels] /\ job' \in [Requests -> Job]
    BY <1>9, <2>3, AtType DEF BatchBehind, BatchSelect, Labels
  <2> QED BY <1>9, <2>4 DEF TypeOK, BatchBehind, BatchSelect, store
<1>10. ASSUME NEW r \in Requests, NEW e \in Entities,
             BatchLoad(r, e)
      PROVE  TypeOK'
  <2>1. Latest(e) \in Document /\ job[r] \in Job
    BY <1>10, LatestType DEF BatchLoad, Upgradable, TypeOK
  <2>2. [job[r] EXCEPT !.entity = e, !.doc = Latest(e), !.queue = @ \ {e}] \in Job
    BY <2>1 DEF Job
  <2>3. pc' \in [Requests -> Labels] /\ job' \in [Requests -> Job]
    BY <1>10, <2>2, AtType DEF BatchLoad, Labels
  <2>4. lock' \in [Entities -> Requests \cup {NoRequest}]
    BY <1>10, LockType DEF BatchLoad
  <2> QED BY <1>10, <2>3, <2>4 DEF TypeOK, BatchLoad, store
<1>11. ASSUME NEW r \in Requests, NEW e \in Entities,
             BatchSkip(r, e)
      PROVE  TypeOK'
  <2>1. job[r] \in Job
    BY DEF TypeOK
  <2>2. [job[r] EXCEPT !.queue = @ \ {e}] \in Job
    BY <2>1 DEF Job
  <2>3. pc' \in [Requests -> Labels] /\ job' \in [Requests -> Job]
    BY <1>11, <2>2, AtType DEF BatchSkip, Labels
  <2> QED BY <1>11, <2>3 DEF TypeOK, BatchSkip, store
<1>12. ASSUME NEW r \in Requests,
             BatchEnd(r)
      PROVE  TypeOK'
  BY <1>12, FinishType DEF TypeOK, BatchEnd, store
<1>13. ASSUME NEW r \in Requests, NEW e \in Entities, NEW p \in Paths,
              NEW i \in 1..MaxConflicts,
             ResolveRead(r, e, p, i)
      PROVE  TypeOK'
  <2>1. i \in Nat
    BY BoundsAssumption
  <2>2. [NoJob EXCEPT !.entity = e, !.field = p, !.index = i] \in Job
    BY <2>1, NoJobType DEF Job
  <2>3. pc' \in [Requests -> Labels] /\ job' \in [Requests -> Job]
    BY <1>13, <2>2, AtType DEF ResolveRead, Labels
  <2> QED BY <1>13, <2>3 DEF TypeOK, ResolveRead, store
<1>14. ASSUME NEW r \in Requests,
             ResolveLock(r)
      PROVE  TypeOK'
  <2>1. job[r] \in Job /\ job[r].entity \in Entities
    BY <1>14 DEF ResolveLock, JobWellFormed, WellFormed, TypeOK
  <2>2. [job[r] EXCEPT !.doc = Latest(job[r].entity)] \in Job
    BY <1>14, <2>1, LatestType DEF ResolveLock, Job
  <2> QED BY <1>14, <2>1, <2>2 DEF TypeOK, Labels, ResolveLock, At, Lock, store
<1>15. ASSUME NEW r \in Requests, NEW v \in Values,
             ResolveWrite(r, v)
      PROVE  TypeOK'
  <2>1. /\ job[r].entity \in Entities /\ job[r].field \in Paths
        /\ job[r].index \in Nat /\ job[r].doc \in Document
    BY <1>15 DEF ResolveWrite, JobWellFormed, WellFormed, Holding, TypeOK, Job
  <2>2. versions' \in [Entities -> Seq(Document)]
    <3>1. Resolved(job[r].doc, job[r].field, v) \in Document
      BY <2>1, ResolvedType
    <3> QED BY <1>15, <2>1, <3>1 DEF TypeOK, ResolveWrite
  <2>3. outbox' \in SUBSET OutboxRow
    <3>1. bound[job[r].entity] \in Nat /\ outbox \in SUBSET OutboxRow
      BY <2>1 DEF TypeOK
    <3> QED BY <1>15, <2>1, <3>1, AnnounceNextType DEF ResolveWrite
  <2>4. conflicts' \in [Entities -> [Paths -> Seq(ConflictRow)]]
    <3>1. conflicts[job[r].entity][job[r].field] \in Seq(ConflictRow)
      BY <2>1 DEF TypeOK
    <3> QED BY <1>15, <2>1, <3>1, DecidedType DEF TypeOK, ResolveWrite
  <2>5. audit' \subseteq AuditRow
    BY <1>15, <2>1 DEF TypeOK, ResolveWrite, AuditRow
  <2> QED BY <1>15, <2>2, <2>3, <2>4, <2>5, FinishType DEF TypeOK, ResolveWrite
<1>16. ASSUME NEW r \in Requests, NEW e \in Entities, NEW x \in Entities,
             MergeLock(r, e, x)
      PROVE  TypeOK'
  <2>1. [NoJob EXCEPT !.entity = e, !.other = x] \in Job
    BY NoJobType DEF Job
  <2>2. pc' \in [Requests -> Labels] /\ job' \in [Requests -> Job]
    BY <1>16, <2>1, AtType DEF MergeLock, Labels
  <2>3. lock' \in [Entities -> Requests \cup {NoRequest}]
    BY <1>16, LockType DEF MergeLock, LockOrder
  <2> QED BY <1>16, <2>2, <2>3 DEF TypeOK, MergeLock, store
<1>17. ASSUME NEW r \in Requests,
             MergeLoad(r)
      PROVE  TypeOK'
  <2> DEFINE j == job[r]
  <2>1. /\ j \in Job /\ j.entity \in Entities /\ j.other \in Entities
        /\ Live(First(r)) /\ {First(r), Second(r)} = {j.entity, j.other}
    BY <1>17 DEF MergeLoad, JobWellFormed, WellFormed, Holding, TypeOK, First,
       Second, LockOrder
  <2>2. Latest(j.entity) \in Document /\ Latest(j.other) \in Document
    <3>1. Live(j.entity) /\ Live(j.other)
      BY <1>17, <2>1 DEF MergeLoad
    <3> QED BY <2>1, <3>1, LatestType
  <2>3. [j EXCEPT !.doc = Latest(j.entity), !.otherDoc = Latest(j.other)] \in Job
    BY <2>1, <2>2 DEF Job
  <2>4. Second(r) \in Entities
    BY <2>1
  <2> QED BY <1>17, <2>3, <2>4 DEF TypeOK, Labels, MergeLoad, At, Lock, store
<1>18. ASSUME NEW r \in Requests,
             MergeWrite(r)
      PROVE  TypeOK'
  <2>1. /\ job[r].entity \in Entities /\ job[r].other \in Entities
        /\ job[r].doc \in Document /\ job[r].otherDoc \in Document
    BY <1>18 DEF MergeWrite, JobWellFormed, WellFormed, Holding, TypeOK, Job
  <2>2. versions' \in [Entities -> Seq(Document)]
    <3> DEFINE d == mergeDocumentsForDuplicate(job[r].doc, job[r].otherDoc)
               first == Append(versions[job[r].entity], d)
    <3>1. first \in Seq(Document) /\ <<>> \in Seq(Document)
      BY <2>1, MergeDocumentsType DEF TypeOK
    <3>2. versions' = [versions EXCEPT ![job[r].entity] = first,
                                       ![job[r].other] = <<>>]
      BY <1>18 DEF MergeWrite
    <3> HIDE DEF first
    <3> QED BY <3>1, <3>2 DEF TypeOK
  <2>3. outbox' \in SUBSET OutboxRow
    <3>1. outbox \ RowsOf(job[r].other) \in SUBSET OutboxRow
      BY DEF TypeOK
    <3>2. bound[job[r].entity] \in Nat
      BY <2>1 DEF TypeOK
    <3> QED BY <1>18, <2>1, <3>1, <3>2, AnnounceNextType DEF MergeWrite
  <2>4. owner' \in [Refs -> Entities \cup {NoEntity}]
    BY <1>18, <2>1 DEF TypeOK, MergeWrite
  <2>5. conflicts' \in [Entities -> [Paths -> Seq(ConflictRow)]]
    BY <1>18, <2>1 DEF TypeOK, MergeWrite, ClearConflicts
  <2>6. status' \in [Entities -> {"unborn", "live", "gone"}] /\ audit' \subseteq AuditRow
    BY <1>18, <2>1 DEF TypeOK, MergeWrite, AuditRow
  <2> QED BY <1>18, <2>2, <2>3, <2>4, <2>5, <2>6, FinishType DEF TypeOK,
             MergeWrite
<1>19. ASSUME NEW r \in Requests,
             Refuse(r)
      PROVE  TypeOK'
  BY <1>19, FinishType DEF TypeOK, Refuse, store
<1>20. ASSUME NEW r \in Requests,
             Rollback(r)
      PROVE  TypeOK'
  BY <1>20, FinishType DEF TypeOK, Rollback, store
<1>21. ASSUME NEW e \in Entities, Delete(e)
      PROVE  TypeOK'
  BY <1>21 DEF TypeOK, Delete, Remapped, ClearConflicts, RowsOf
<1>22. ASSUME NEW f \in Families, NEW schema \in Schemas, Publish(f, schema)
      PROVE  TypeOK'
  BY <1>22 DEF TypeOK, Publish
<1>23. CASE UNCHANGED vars
  BY <1>23 DEF TypeOK, vars
<1>24. ASSUME NEW r \in Requests, BatchFail(r)
      PROVE  TypeOK'
  <2>1. job[r] \in Job
    BY DEF TypeOK
  <2>2. [job[r] EXCEPT !.entity = NoEntity, !.doc = EmptyDocument] \in Job
    BY <2>1, NoJobType DEF Job, NoJob
  <2>3. pc' \in [Requests -> Labels] /\ job' \in [Requests -> Job]
    BY <1>24, <2>2, AtType DEF BatchFail, Labels
  <2>4. lock' \in [Entities -> Requests \cup {NoRequest}]
    BY <1>24 DEF TypeOK, BatchFail, Unlocked
  <2> QED BY <1>24, <2>3, <2>4 DEF TypeOK, BatchFail, store
<1> QED
  BY <1>1, <1>2, <1>3, <1>4, <1>5, <1>6, <1>7, <1>8, <1>9, <1>10, <1>11,
     <1>12, <1>13, <1>14, <1>15, <1>16, <1>17, <1>18, <1>19, <1>20, <1>21,
     <1>22, <1>23, <1>24 DEF Next, Begin, Step

-----------------------------------------------------------------------------
(***************************************************************************)
(* What a step may do to the identities, the histories and the outbox: one *)
(* of five things, whatever transaction takes it.  The theorems below look *)
(* at these five kinds of steps and not at the actions.                    *)
(***************************************************************************)
Quiet == UNCHANGED <<status, versions, bound, outbox>>
Born(e, d) ==
    /\ status[e] = "unborn" /\ d \in Document
    /\ status' = [status EXCEPT ![e] = "live"]
    /\ versions' = [versions EXCEPT ![e] = <<d>>]
    /\ bound' \in [Entities -> Nat] /\ \A x \in Entities \ {e} : bound'[x] = bound[x]
    /\ outbox' = Announced(outbox, e, 1, bound'[e])
Grown(e, d) ==
    /\ Live(e) /\ d \in Document /\ NoWeaker(Latest(e), d)
    /\ versions' = [versions EXCEPT ![e] = Append(@, d)]
    /\ bound' \in [Entities -> Nat] /\ \A x \in Entities \ {e} : bound'[x] = bound[x]
    /\ outbox' = Announced(outbox, e, Len(versions[e]) + 1, bound'[e])
    /\ UNCHANGED status
Retired(e) ==
    /\ Live(e)
    /\ status' = [status EXCEPT ![e] = "gone"]
    /\ versions' = [versions EXCEPT ![e] = <<>>]
    /\ outbox' = outbox \ RowsOf(e)
    /\ UNCHANGED bound
Absorbed(e, x, d) ==
    /\ e # x /\ Live(e) /\ Live(x) /\ d \in Document
    /\ NoWeaker(Latest(e), d)
    /\ status' = [status EXCEPT ![x] = "gone"]
    /\ versions' = [versions EXCEPT ![e] = Append(@, d), ![x] = <<>>]
    /\ outbox' = Announced(outbox \ RowsOf(x), e, Len(versions[e]) + 1, bound'[e])
    /\ UNCHANGED bound
Kind ==
    \/ Quiet
    \/ \E e \in Entities :
          \/ Retired(e)
          \/ \E d \in Document :
                \/ Born(e, d)
                \/ Grown(e, d)
                \/ \E x \in Entities : Absorbed(e, x, d)


\* Priorities are numbers: they can be compared.
LEMMA PriorityType ==
  ASSUME NEW s
  PROVE  priorityOf(s) \in Nat /\ priorityOf(s) <= priorityOf("manual")
BY DEF priorityOf

\* An authority merge weakens no field,
LEMMA MergedNoWeaker ==
  ASSUME NEW doc \in Document, NEW data \in Data, NEW s \in Sources
  PROVE  NoWeaker(doc, Merged(doc, data, s))
<1> SUFFICES ASSUME NEW p \in Paths, Present(doc[p])
             PROVE  /\ Present(Merged(doc, data, s)[p])
                    /\ priorityOf(Merged(doc, data, s)[p].src) >= priorityOf(doc[p].src)
  BY DEF NoWeaker
<1>1. CASE Applies(doc[p], data[p], s)
  <2>1. Merged(doc, data, s)[p] = [val |-> data[p], src |-> s]
    BY <1>1 DEF Merged
  <2>2. data[p] # NoValue /\ (s = doc[p].src \/ priorityOf(s) > priorityOf(doc[p].src))
    BY <1>1 DEF Applies, Outranks
  <2> QED BY <2>1, <2>2, PriorityType DEF Present
<1>2. CASE ~Applies(doc[p], data[p], s)
  <2>1. Merged(doc, data, s)[p] = doc[p]
    BY <1>2 DEF Merged
  <2> QED BY <2>1, PriorityType
<1> QED BY <1>1, <1>2

\* nor does an unchanged document,
LEMMA SameNoWeaker ==
  ASSUME NEW doc \in Document
  PROVE  NoWeaker(doc, doc)
BY PriorityType DEF NoWeaker

\* nor an operator's decision (nothing outranks "manual"),
LEMMA ResolvedNoWeaker ==
  ASSUME NEW doc \in Document, NEW q \in Paths, NEW v \in Values
  PROVE  NoWeaker(doc, Resolved(doc, q, v))
<1> SUFFICES ASSUME NEW p \in Paths, Present(doc[p])
             PROVE  /\ Present(Resolved(doc, q, v)[p])
                    /\ priorityOf(Resolved(doc, q, v)[p].src) >= priorityOf(doc[p].src)
  BY DEF NoWeaker
<1>1. CASE p = q
  <2>1. Resolved(doc, q, v)[p] = [val |-> v, src |-> "manual"]
    BY <1>1 DEF Resolved, Document
  <2> QED BY <2>1, NoValueAssumption, PriorityType DEF Present
<1>2. CASE p # q
  <2>1. Resolved(doc, q, v)[p] = doc[p]
    BY <1>2 DEF Resolved, Document
  <2> QED BY <2>1, PriorityType
<1> QED BY <1>1, <1>2

\* nor the merge of a duplicate.
LEMMA DuplicateNoWeaker ==
  ASSUME NEW doc \in Document, NEW other \in Document
  PROVE  NoWeaker(doc, mergeDocumentsForDuplicate(doc, other))
<1> SUFFICES ASSUME NEW p \in Paths, Present(doc[p])
             PROVE  /\ Present(mergeDocumentsForDuplicate(doc, other)[p])
                    /\ priorityOf(mergeDocumentsForDuplicate(doc, other)[p].src)
                            >= priorityOf(doc[p].src)
  BY DEF NoWeaker
<1> DEFINE wins == /\ Present(other[p])
                   /\ priorityOf(other[p].src) > priorityOf(doc[p].src)
<1>1. mergeDocumentsForDuplicate(doc, other)[p] = IF wins THEN other[p] ELSE doc[p]
  BY DEF mergeDocumentsForDuplicate
<1> QED BY <1>1, PriorityType

\* Every step is of one of the five kinds.
LEMMA StepKind == Core /\ [Next]_vars => Kind
<1> SUFFICES ASSUME Core, [Next]_vars PROVE Kind
  OBVIOUS
<1> USE DEF Core
<1>1. ASSUME NEW r \in Requests, NEW f \in Families, NEW data \in Data,
             CreateValidate(r, f, data)
      PROVE  Kind
  BY <1>1 DEF Kind, Quiet, CreateValidate, store
<1>2. ASSUME NEW r \in Requests, NEW e \in Entities, NEW s \in Sources,
             NEW refs \in SUBSET Refs,
             CreateInsert(r, e, s, refs)
      PROVE  Kind
  <2> DEFINE d == initialDocumentWithAuthority(job[r].data, s)
  <2>1. d \in Document
    BY InitialType DEF TypeOK, Job
  <2>2. LatestRevision(job[r].family) \in Nat
    BY DEF TypeOK, Job, LatestRevision
  <2> HIDE DEF d
  <2>3. /\ bound' \in [Entities -> Nat] /\ bound'[e] = LatestRevision(job[r].family)
        /\ \A x \in Entities \ {e} : bound'[x] = bound[x]
    BY <1>2, <2>2 DEF CreateInsert, TypeOK
  <2>4. Born(e, d)
    BY <1>2, <2>1, <2>3 DEF CreateInsert, Born, d
  <2> QED BY <2>1, <2>4 DEF Kind
<1>3. ASSUME NEW r \in Requests, NEW e \in Entities,
             UpdateLoad(r, e)
      PROVE  Kind
  BY <1>3 DEF Kind, Quiet, UpdateLoad, store
<1>4. ASSUME NEW r \in Requests, NEW data \in Data, NEW s \in Sources,
             NEW refs \in SUBSET Refs,
             UpdateCommit(r, data, s, refs)
      PROVE  Kind
  <2> DEFINE e == job[r].entity
             d == Merged(job[r].doc, data, s)
  <2>1. e \in Entities /\ Live(e) /\ job[r].doc = Latest(e) /\ job[r].doc \in Document
    BY <1>4 DEF UpdateCommit, JobWellFormed, WellFormed, LoadedIsCurrent,
       Holding, Holds, TypeOK, Job
  <2>2. d \in Document /\ NoWeaker(Latest(e), d)
    BY <2>1, MergedType, MergedNoWeaker
  <2>3. Grown(e, d)
    BY <1>4, <2>1, <2>2 DEF UpdateCommit, Grown, TypeOK
  <2> QED BY <2>1, <2>2, <2>3 DEF Kind
<1>5. ASSUME NEW r \in Requests, NEW data \in Data, NEW s \in Sources,
             UpdateBlocked(r, data, s)
      PROVE  Kind
  BY <1>5 DEF Kind, Quiet, UpdateBlocked
<1>6. ASSUME NEW r \in Requests, NEW e \in Entities, NEW k \in 1..MaxRevisions,
             UpgradeLoad(r, e, k)
      PROVE  Kind
  BY <1>6 DEF Kind, Quiet, UpgradeLoad, store
<1>7. ASSUME NEW r \in Requests,
             UpgradeWrite(r)
      PROVE  Kind
  <2> DEFINE e == job[r].entity
             d == job[r].doc
  <2>1. e \in Entities /\ Live(e) /\ d = Latest(e) /\ d \in Document /\ job[r].target \in Nat
    BY <1>7 DEF UpgradeWrite, JobWellFormed, WellFormed, LoadedIsCurrent,
       Holding, Holds, TypeOK, Job
  <2>2. NoWeaker(Latest(e), d)
    BY <2>1, SameNoWeaker
  <2>3. bound' \in [Entities -> Nat] /\ \A x \in Entities \ {e} : bound'[x] = bound[x]
    BY <1>7, <2>1 DEF UpgradeWrite, TypeOK
  <2>4. Grown(e, d)
    BY <1>7, <2>1, <2>2, <2>3 DEF UpgradeWrite, Grown
  <2> QED BY <2>1, <2>4 DEF Kind
<1>8. ASSUME NEW r \in Requests, NEW f \in Families,
             NEW k \in 1..MaxRevisions, NEW S \in SUBSET Entities,
             BatchGiven(r, f, k, S)
      PROVE  Kind
  BY <1>8 DEF Kind, Quiet, BatchGiven, BatchSelect, store
<1>9. ASSUME NEW r \in Requests, NEW f \in Families, NEW k \in 1..MaxRevisions,
             BatchBehind(r, f, k)
      PROVE  Kind
  BY <1>9 DEF Kind, Quiet, BatchBehind, BatchSelect, store
<1>10. ASSUME NEW r \in Requests, NEW e \in Entities,
             BatchLoad(r, e)
      PROVE  Kind
  BY <1>10 DEF Kind, Quiet, BatchLoad, store
<1>11. ASSUME NEW r \in Requests, NEW e \in Entities,
             BatchSkip(r, e)
      PROVE  Kind
  BY <1>11 DEF Kind, Quiet, BatchSkip, store
<1>12. ASSUME NEW r \in Requests,
             BatchEnd(r)
      PROVE  Kind
  BY <1>12 DEF Kind, Quiet, BatchEnd, store
<1>13. ASSUME NEW r \in Requests, NEW e \in Entities, NEW p \in Paths,
              NEW i \in 1..MaxConflicts,
             ResolveRead(r, e, p, i)
      PROVE  Kind
  BY <1>13 DEF Kind, Quiet, ResolveRead, store
<1>14. ASSUME NEW r \in Requests,
             ResolveLock(r)
      PROVE  Kind
  BY <1>14 DEF Kind, Quiet, ResolveLock, store
<1>15. ASSUME NEW r \in Requests, NEW v \in Values,
             ResolveWrite(r, v)
      PROVE  Kind
  <2> DEFINE e == job[r].entity
             d == Resolved(job[r].doc, job[r].field, v)
  <2>1. /\ e \in Entities /\ Live(e) /\ job[r].doc = Latest(e)
        /\ job[r].doc \in Document /\ job[r].field \in Paths
    BY <1>15 DEF ResolveWrite, JobWellFormed, WellFormed, LoadedIsCurrent,
       Holding, Holds, TypeOK, Job
  <2>2. d \in Document /\ NoWeaker(Latest(e), d)
    BY <2>1, ResolvedType, ResolvedNoWeaker
  <2>3. Grown(e, d)
    BY <1>15, <2>1, <2>2 DEF ResolveWrite, Grown, TypeOK
  <2> QED BY <2>1, <2>2, <2>3 DEF Kind
<1>16. ASSUME NEW r \in Requests, NEW e \in Entities, NEW x \in Entities,
             MergeLock(r, e, x)
      PROVE  Kind
  BY <1>16 DEF Kind, Quiet, MergeLock, store
<1>17. ASSUME NEW r \in Requests,
             MergeLoad(r)
      PROVE  Kind
  BY <1>17 DEF Kind, Quiet, MergeLoad, store
<1>18. ASSUME NEW r \in Requests,
             MergeWrite(r)
      PROVE  Kind
  <2> DEFINE e == job[r].entity
             x == job[r].other
             d == mergeDocumentsForDuplicate(job[r].doc, job[r].otherDoc)
  <2>1. /\ e \in Entities /\ x \in Entities /\ e # x /\ Live(e) /\ Live(x)
        /\ job[r].doc = Latest(e)
        /\ job[r].doc \in Document /\ job[r].otherDoc \in Document
    BY <1>18 DEF MergeWrite, JobWellFormed, WellFormed, LoadedIsCurrent,
       Holding, Holds, TypeOK, Job
  <2>2. d \in Document /\ NoWeaker(Latest(e), d)
    BY <2>1, MergeDocumentsType, DuplicateNoWeaker
  <2>3. Absorbed(e, x, d)
    BY <1>18, <2>1, <2>2 DEF MergeWrite, Absorbed
  <2> QED BY <2>1, <2>2, <2>3 DEF Kind
<1>19. ASSUME NEW r \in Requests,
             Refuse(r)
      PROVE  Kind
  BY <1>19 DEF Kind, Quiet, Refuse, store
<1>20. ASSUME NEW r \in Requests,
             Rollback(r)
      PROVE  Kind
  BY <1>20 DEF Kind, Quiet, Rollback, store
<1>21. ASSUME NEW e \in Entities, Delete(e)
      PROVE  Kind
  BY <1>21 DEF Kind, Retired, Delete
<1>22. ASSUME NEW f \in Families, NEW schema \in Schemas, Publish(f, schema)
      PROVE  Kind
  BY <1>22 DEF Kind, Quiet, Publish
<1>23. CASE UNCHANGED vars
  BY <1>23 DEF Kind, Quiet, vars
<1>24. ASSUME NEW r \in Requests, BatchFail(r)
      PROVE  Kind
  BY <1>24 DEF Kind, Quiet, BatchFail, store
<1> QED
  BY <1>1, <1>2, <1>3, <1>4, <1>5, <1>6, <1>7, <1>8, <1>9, <1>10, <1>11,
     <1>12, <1>13, <1>14, <1>15, <1>16, <1>17, <1>18, <1>19, <1>20, <1>21,
     <1>22, <1>23, <1>24 DEF Next, Begin, Step

\* Every kind of step keeps Existence.
LEMMA ExistenceNext == TypeOK /\ Existence /\ Kind => Existence'
<1> SUFFICES ASSUME TypeOK, Existence, Kind, NEW y \in Entities
             PROVE  (IF Live(y) THEN Len(versions[y]) > 0 ELSE versions[y] = <<>>)'
  BY DEF Existence
<1>1. CASE Quiet
  BY <1>1 DEF Quiet, Existence, Live
<1>2. ASSUME NEW e \in Entities, Retired(e)
      PROVE  (IF Live(y) THEN Len(versions[y]) > 0 ELSE versions[y] = <<>>)'
  BY <1>2 DEF Retired, Existence, Live, TypeOK
<1>3. ASSUME NEW e \in Entities, NEW d \in Document, Born(e, d)
      PROVE  (IF Live(y) THEN Len(versions[y]) > 0 ELSE versions[y] = <<>>)'
  BY <1>3 DEF Born, Existence, Live, TypeOK
<1>4. ASSUME NEW e \in Entities, NEW d \in Document, Grown(e, d)
      PROVE  (IF Live(y) THEN Len(versions[y]) > 0 ELSE versions[y] = <<>>)'
  <2>1. Len(Append(versions[e], d)) > 0
    BY DEF TypeOK
  <2> QED BY <1>4, <2>1 DEF Grown, Existence, Live, TypeOK
<1>5. ASSUME NEW e \in Entities, NEW x \in Entities, NEW d \in Document,
             Absorbed(e, x, d)
      PROVE  (IF Live(y) THEN Len(versions[y]) > 0 ELSE versions[y] = <<>>)'
  <2>1. Len(Append(versions[e], d)) > 0
    BY DEF TypeOK
  <2> QED BY <1>5, <2>1 DEF Absorbed, Existence, Live, TypeOK
<1> QED BY <1>1, <1>2, <1>3, <1>4, <1>5 DEF Kind

\* What a step of r leaves to a request q that is not r.
Kept(q) ==
    /\ pc'[q] = pc[q] /\ job'[q] = job[q]
    /\ \A e \in Entities : lock[e] = q /\ Live(e) =>
          lock'[e] = q /\ status'[e] = status[e] /\ versions'[e] = versions[e]

\* A step of one request keeps what another request has loaded.
LEMMA StepKeeps ==
  ASSUME Core, NEW r \in Requests, Begin(r) \/ Step(r) \/ Rollback(r),
         NEW q \in Requests \ {r}
  PROVE  Kept(q)
<1> USE DEF Core
<1>0. q # NoRequest
  BY RequestsAssumption
<1>1. ASSUME NEW f \in Families, NEW data \in Data, CreateValidate(r, f, data)
      PROVE  Kept(q)
  BY <1>1, <1>0 DEF Kept, TypeOK, Live, CreateValidate, At, store
<1>2. ASSUME NEW e \in Entities, NEW s \in Sources, NEW refs \in SUBSET Refs,
             CreateInsert(r, e, s, refs)
      PROVE  Kept(q)
  <2>1. status[e] = "unborn" /\ status' = [status EXCEPT ![e] = "live"]
    BY <1>2 DEF CreateInsert
  <2> QED BY <1>2, <2>1, <1>0 DEF Kept, TypeOK, Live, CreateInsert, Finish,
             Unlocked
<1>3. ASSUME NEW e \in Entities, UpdateLoad(r, e)
      PROVE  Kept(q)
  BY <1>3, <1>0 DEF Kept, TypeOK, Live, UpdateLoad, At, Lock, Free, store
<1>4. ASSUME NEW data \in Data, NEW s \in Sources, NEW refs \in SUBSET Refs,
             UpdateCommit(r, data, s, refs)
      PROVE  Kept(q)
  <2>1. job[r].entity \in Entities /\ lock[job[r].entity] = r
    BY <1>4 DEF UpdateCommit, JobWellFormed, WellFormed, LoadedIsCurrent,
       Holding, Holds
  <2> QED BY <1>4, <2>1, <1>0 DEF Kept, TypeOK, Live, UpdateCommit, Finish,
             Unlocked
<1>5. ASSUME NEW data \in Data, NEW s \in Sources, UpdateBlocked(r, data, s)
      PROVE  Kept(q)
  BY <1>5, <1>0 DEF Kept, TypeOK, Live, UpdateBlocked, Finish, Unlocked
<1>6. ASSUME NEW e \in Entities, NEW k \in 1..MaxRevisions, UpgradeLoad(r, e, k)
      PROVE  Kept(q)
  BY <1>6, <1>0 DEF Kept, TypeOK, Live, UpgradeLoad, Upgradable, At, Lock,
     Free, store
<1>7. ASSUME UpgradeWrite(r)
      PROVE  Kept(q)
  <2>1. job[r].entity \in Entities /\ lock[job[r].entity] = r
    BY <1>7 DEF UpgradeWrite, JobWellFormed, WellFormed, LoadedIsCurrent,
       Holding, Holds
  <2> QED BY <1>7, <2>1, <1>0 DEF Kept, TypeOK, Live, UpgradeWrite, At, Unlocked
<1>8. ASSUME NEW f \in Families, NEW k \in 1..MaxRevisions,
             NEW S \in SUBSET Entities, BatchGiven(r, f, k, S)
      PROVE  Kept(q)
  BY <1>8, <1>0 DEF Kept, TypeOK, Live, BatchGiven, BatchSelect, At, store
<1>9. ASSUME NEW f \in Families, NEW k \in 1..MaxRevisions, BatchBehind(r, f, k)
      PROVE  Kept(q)
  BY <1>9, <1>0 DEF Kept, TypeOK, Live, BatchBehind, BatchSelect, At, store
<1>10. ASSUME NEW e \in Entities, BatchLoad(r, e)
      PROVE  Kept(q)
  BY <1>10, <1>0 DEF Kept, TypeOK, Live, BatchLoad, Upgradable, At, Lock,
     Free, store
<1>11. ASSUME NEW e \in Entities, BatchSkip(r, e)
      PROVE  Kept(q)
  BY <1>11, <1>0 DEF Kept, TypeOK, Live, BatchSkip, At, store
<1>12. ASSUME BatchEnd(r)
      PROVE  Kept(q)
  BY <1>12, <1>0 DEF Kept, TypeOK, Live, BatchEnd, Finish, Unlocked, store
<1>13. ASSUME NEW e \in Entities, NEW p \in Paths, NEW i \in 1..MaxConflicts,
              ResolveRead(r, e, p, i)
      PROVE  Kept(q)
  BY <1>13, <1>0 DEF Kept, TypeOK, Live, ResolveRead, At, store
<1>14. ASSUME ResolveLock(r)
      PROVE  Kept(q)
  BY <1>14, <1>0 DEF Kept, TypeOK, Live, ResolveLock, At, Lock, Free, store
<1>15. ASSUME NEW v \in Values, ResolveWrite(r, v)
      PROVE  Kept(q)
  <2>1. job[r].entity \in Entities /\ lock[job[r].entity] = r
    BY <1>15 DEF ResolveWrite, JobWellFormed, WellFormed, LoadedIsCurrent,
       Holding, Holds
  <2> QED BY <1>15, <2>1, <1>0 DEF Kept, TypeOK, Live, ResolveWrite, Finish,
             Unlocked
<1>16. ASSUME NEW e \in Entities, NEW x \in Entities, MergeLock(r, e, x)
      PROVE  Kept(q)
  BY <1>16, <1>0 DEF Kept, TypeOK, Live, MergeLock, At, Lock, Free, LockOrder,
     store
<1>17. ASSUME MergeLoad(r)
      PROVE  Kept(q)
  BY <1>17, <1>0 DEF Kept, TypeOK, Live, MergeLoad, At, Lock, Free, store
<1>18. ASSUME MergeWrite(r)
      PROVE  Kept(q)
  <2>1. /\ job[r].entity \in Entities /\ lock[job[r].entity] = r
        /\ job[r].other \in Entities /\ lock[job[r].other] = r
    BY <1>18 DEF MergeWrite, JobWellFormed, WellFormed, LoadedIsCurrent,
       Holding, Holds
  <2> QED BY <1>18, <2>1, <1>0 DEF Kept, TypeOK, Live, MergeWrite, Finish,
             Unlocked
<1>19. ASSUME Refuse(r)
      PROVE  Kept(q)
  BY <1>19, <1>0 DEF Kept, TypeOK, Live, Refuse, Finish, Unlocked, store
<1>20. ASSUME Rollback(r)
      PROVE  Kept(q)
  BY <1>20, <1>0 DEF Kept, TypeOK, Live, Rollback, Finish, Unlocked, store
<1>21. ASSUME BatchFail(r)
      PROVE  Kept(q)
  BY <1>21, <1>0 DEF Kept, TypeOK, Live, BatchFail, At, Unlocked, store
<1> QED
  BY <1>1, <1>2, <1>3, <1>4, <1>5, <1>6, <1>7, <1>8, <1>9, <1>10, <1>11,
     <1>12, <1>13, <1>14, <1>15, <1>16, <1>17, <1>18, <1>19, <1>20, <1>21
  DEF Begin, Step

\* So does a step of no request (Delete, Publish).
LEMMA NobodyActs ==
  ASSUME TypeOK, NEW q \in Requests,
         \/ \E e \in Entities : Delete(e)
         \/ \E f \in Families, schema \in Schemas : Publish(f, schema)
         \/ UNCHANGED vars
  PROVE  Kept(q)
<1>0. q # NoRequest
  BY RequestsAssumption
<1>1. ASSUME NEW e \in Entities, Delete(e)
      PROVE  Kept(q)
  BY <1>1, <1>0 DEF Kept, TypeOK, Delete, Live, Free
<1>2. ASSUME NEW f \in Families, NEW schema \in Schemas, Publish(f, schema)
      PROVE  Kept(q)
  BY <1>2 DEF Kept, Publish
<1>3. CASE UNCHANGED vars
  BY <1>3 DEF Kept, vars
<1> QED BY <1>1, <1>2, <1>3

\* The clause of LoadedIsCurrent for one request.
Current(r) ==
    pc[r] \in Holding =>
        /\ Holds(r, job[r].entity, job[r].doc)
        /\ pc[r] = "merge" => Holds(r, job[r].other, job[r].otherDoc)

\* What is kept stays well-formed and current.
LEMMA KeptRequest ==
  ASSUME Core, NEW q \in Requests, Kept(q)
  PROVE  WellFormed(q)' /\ Current(q)'
<1>1. WellFormed(q) /\ Current(q)
  BY DEF Core, JobWellFormed, LoadedIsCurrent, Current
<1>2. ASSUME NEW e \in Entities, lock[e] = q, Live(e)
      PROVE  lock'[e] = q /\ Live(e)' /\ Latest(e)' = Latest(e)
  BY <1>2 DEF Kept, Live, Latest
<1>3. pc'[q] = pc[q] /\ job'[q] = job[q] /\ First(q)' = First(q)
  BY DEF Kept, First
<1>4. WellFormed(q)'
  <2>1. CASE pc[q] = "merge_lock"
    <3>1. First(q) \in Entities
      BY <1>1, <2>1 DEF WellFormed, First, LockOrder
    <3> QED BY <1>1, <1>2, <1>3, <2>1, <3>1 DEF WellFormed
  <2>2. CASE pc[q] # "merge_lock"
    BY <1>1, <1>3, <2>2 DEF WellFormed
  <2> QED BY <2>1, <2>2
<1>5. Current(q)'
  <2> SUFFICES ASSUME pc[q] \in Holding
               PROVE  Current(q)'
    BY <1>3 DEF Current, Holding
  <2>1. Holds(q, job[q].entity, job[q].doc)'
    <3>1. job[q].entity \in Entities
      BY <1>1 DEF WellFormed
    <3> QED BY <1>1, <1>2, <1>3, <3>1 DEF Current, Holds
  <2>2. CASE pc[q] = "merge"
    <3>1. job[q].other \in Entities
      BY <1>1, <2>2 DEF WellFormed
    <3>2. Holds(q, job[q].other, job[q].otherDoc)'
      BY <1>1, <1>2, <1>3, <2>2, <3>1 DEF Current, Holds
    <3> QED BY <1>3, <2>1, <3>2 DEF Current
  <2>3. CASE pc[q] # "merge"
    BY <1>3, <2>1, <2>3 DEF Current
  <2> QED BY <2>2, <2>3
<1> QED BY <1>4, <1>5

\* The request that acts leaves itself well-formed and current.
LEMMA StepActor ==
  ASSUME Core, NEW r \in Requests, Begin(r) \/ Step(r) \/ Rollback(r)
  PROVE  WellFormed(r)' /\ Current(r)'
<1> DEFINE Goal == WellFormed(r)' /\ Current(r)'
<1>0. ASSUME pc'[r] \in {"idle", "create", "batch"}
      PROVE  Goal
  BY <1>0 DEF WellFormed, Current, Holding
<1> USE DEF Core
<1>1. ASSUME NEW f \in Families, NEW data \in Data, CreateValidate(r, f, data)
      PROVE  Goal
  <2>1. pc'[r] \in {"idle", "create", "batch"}
    BY <1>1 DEF TypeOK, CreateValidate, At
  <2> QED BY <1>0, <2>1
<1>2. ASSUME NEW e \in Entities, NEW s \in Sources, NEW refs \in SUBSET Refs,
             CreateInsert(r, e, s, refs)
      PROVE  Goal
  <2>1. pc'[r] \in {"idle", "create", "batch"}
    BY <1>2 DEF TypeOK, CreateInsert, Finish
  <2> QED BY <1>0, <2>1
<1>3. ASSUME NEW e \in Entities, UpdateLoad(r, e)
      PROVE  Goal
  <2>1. /\ pc'[r] = "update" /\ job'[r].entity = e /\ job'[r].doc = Latest(e)
        /\ e \in Entities /\ lock'[e] = r /\ Live(e)
        /\ UNCHANGED <<status, versions>>
    BY <1>3 DEF TypeOK, Job, JobWellFormed, WellFormed, At, Lock, UpdateLoad,
       store, NoJob
  <2> QED BY <2>1 DEF WellFormed, Current, Holds, Holding, Live, Latest
<1>4. ASSUME NEW data \in Data, NEW s \in Sources, NEW refs \in SUBSET Refs,
             UpdateCommit(r, data, s, refs)
      PROVE  Goal
  <2>1. pc'[r] \in {"idle", "create", "batch"}
    BY <1>4 DEF TypeOK, UpdateCommit, Finish
  <2> QED BY <1>0, <2>1
<1>5. ASSUME NEW data \in Data, NEW s \in Sources, UpdateBlocked(r, data, s)
      PROVE  Goal
  <2>1. pc'[r] \in {"idle", "create", "batch"}
    BY <1>5 DEF TypeOK, UpdateBlocked, Finish
  <2> QED BY <1>0, <2>1
<1>6. ASSUME NEW e \in Entities, NEW k \in 1..MaxRevisions, UpgradeLoad(r, e, k)
      PROVE  Goal
  <2>1. /\ pc'[r] = "upgrade" /\ job'[r].entity = e /\ job'[r].doc = Latest(e)
        /\ e \in Entities /\ lock'[e] = r /\ Live(e)
        /\ UNCHANGED <<status, versions>>
    BY <1>6 DEF TypeOK, Job, JobWellFormed, WellFormed, At, Lock, UpgradeLoad,
       Upgradable, store, NoJob
  <2> QED BY <2>1 DEF WellFormed, Current, Holds, Holding, Live, Latest
<1>7. ASSUME UpgradeWrite(r)
      PROVE  Goal
  <2>1. pc'[r] \in {"idle", "create", "batch"}
    BY <1>7 DEF TypeOK, UpgradeWrite, At
  <2> QED BY <1>0, <2>1
<1>8. ASSUME NEW f \in Families, NEW k \in 1..MaxRevisions,
             NEW S \in SUBSET Entities, BatchGiven(r, f, k, S)
      PROVE  Goal
  <2>1. pc'[r] \in {"idle", "create", "batch"}
    BY <1>8 DEF TypeOK, BatchGiven, BatchSelect, At
  <2> QED BY <1>0, <2>1
<1>9. ASSUME NEW f \in Families, NEW k \in 1..MaxRevisions, BatchBehind(r, f, k)
      PROVE  Goal
  <2>1. pc'[r] \in {"idle", "create", "batch"}
    BY <1>9 DEF TypeOK, BatchBehind, BatchSelect, At
  <2> QED BY <1>0, <2>1
<1>10. ASSUME NEW e \in Entities, BatchLoad(r, e)
      PROVE  Goal
  <2>1. /\ pc'[r] = "batch_upgrade" /\ job'[r].entity = e /\ job'[r].doc = Latest(e)
        /\ e \in Entities /\ lock'[e] = r /\ Live(e)
        /\ UNCHANGED <<status, versions>>
    BY <1>10 DEF TypeOK, Job, JobWellFormed, WellFormed, At, Lock, BatchLoad,
       Upgradable, store, NoJob
  <2> QED BY <2>1 DEF WellFormed, Current, Holds, Holding, Live, Latest
<1>11. ASSUME NEW e \in Entities, BatchSkip(r, e)
      PROVE  Goal
  <2>1. pc'[r] \in {"idle", "create", "batch"}
    BY <1>11 DEF TypeOK, BatchSkip, At
  <2> QED BY <1>0, <2>1
<1>12. ASSUME BatchEnd(r)
      PROVE  Goal
  <2>1. pc'[r] \in {"idle", "create", "batch"}
    BY <1>12 DEF TypeOK, BatchEnd, Finish
  <2> QED BY <1>0, <2>1
<1>13. ASSUME NEW e \in Entities, NEW p \in Paths, NEW i \in 1..MaxConflicts,
              ResolveRead(r, e, p, i)
      PROVE  Goal
  <2>1. pc'[r] = "resolve_lock" /\ job'[r].entity \in Entities
    BY <1>13 DEF TypeOK, ResolveRead, At, NoJob
  <2> QED BY <2>1 DEF WellFormed, Current, Holding
<1>14. ASSUME ResolveLock(r)
      PROVE  Goal
  <2>1. /\ pc'[r] = "resolve" /\ job'[r].entity = job[r].entity
        /\ job'[r].doc = Latest(job[r].entity)
        /\ job[r].entity \in Entities /\ lock'[job[r].entity] = r /\ Live(job[r].entity)
        /\ UNCHANGED <<status, versions>>
    BY <1>14 DEF TypeOK, Job, JobWellFormed, WellFormed, At, Lock,
       ResolveLock, store, NoJob
  <2> QED BY <2>1 DEF WellFormed, Current, Holds, Holding, Live, Latest
<1>15. ASSUME NEW v \in Values, ResolveWrite(r, v)
      PROVE  Goal
  <2>1. pc'[r] \in {"idle", "create", "batch"}
    BY <1>15 DEF TypeOK, ResolveWrite, Finish
  <2> QED BY <1>0, <2>1
<1>16. ASSUME NEW e \in Entities, NEW x \in Entities, MergeLock(r, e, x)
      PROVE  Goal
  <2>1. /\ pc'[r] = "merge_lock" /\ job'[r].entity = e /\ job'[r].other = x
        /\ e # x /\ lock'[LockOrder(e, x)[1]] = r
        /\ Live(e) /\ Live(x) /\ UNCHANGED status
    BY <1>16 DEF TypeOK, MergeLock, At, Lock, NoJob, LockOrder, store
  <2> QED BY <2>1 DEF WellFormed, Current, Holding, First, LockOrder, Live
<1>17. ASSUME MergeLoad(r)
      PROVE  Goal
  <2> DEFINE e == job[r].entity
             x == job[r].other
  <2>1. /\ e \in Entities /\ x \in Entities /\ e # x
        /\ lock[First(r)] = r /\ Live(First(r)) /\ Live(Second(r))
        /\ lock' = [lock EXCEPT ![Second(r)] = r]
        /\ UNCHANGED <<status, versions>>
    BY <1>17 DEF MergeLoad, JobWellFormed, WellFormed, Lock, store
  <2>2. \/ First(r) = e /\ Second(r) = x
        \/ First(r) = x /\ Second(r) = e
    BY DEF First, Second, LockOrder
  <2>3. lock'[e] = r /\ lock'[x] = r /\ Live(e) /\ Live(x)
    BY <2>1, <2>2 DEF TypeOK
  <2>4. /\ pc'[r] = "merge" /\ job'[r].entity = e /\ job'[r].other = x
        /\ job'[r].doc = Latest(e) /\ job'[r].otherDoc = Latest(x)
    BY <1>17 DEF TypeOK, Job, MergeLoad, At
  <2> QED BY <2>1, <2>3, <2>4 DEF WellFormed, Current, Holds, Holding, Live,
             Latest
<1>18. ASSUME MergeWrite(r)
      PROVE  Goal
  <2>1. pc'[r] \in {"idle", "create", "batch"}
    BY <1>18 DEF TypeOK, MergeWrite, Finish
  <2> QED BY <1>0, <2>1
<1>19. ASSUME Refuse(r)
      PROVE  Goal
  <2>1. pc'[r] \in {"idle", "create", "batch"}
    BY <1>19 DEF TypeOK, Refuse, Finish
  <2> QED BY <1>0, <2>1
<1>20. ASSUME Rollback(r)
      PROVE  Goal
  <2>1. pc'[r] \in {"idle", "create", "batch"}
    BY <1>20 DEF TypeOK, Rollback, Finish
  <2> QED BY <1>0, <2>1
<1>21. ASSUME BatchFail(r)
      PROVE  Goal
  <2>1. pc'[r] \in {"idle", "create", "batch"}
    BY <1>21 DEF TypeOK, BatchFail, At
  <2> QED BY <1>0, <2>1
<1> QED
  BY <1>1, <1>2, <1>3, <1>4, <1>5, <1>6, <1>7, <1>8, <1>9, <1>10, <1>11,
     <1>12, <1>13, <1>14, <1>15, <1>16, <1>17, <1>18, <1>19, <1>20, <1>21
  DEF Begin, Step

\* Every step keeps the core.
LEMMA CoreNext == Core /\ [Next]_vars => Core'
<1> SUFFICES ASSUME Core, [Next]_vars PROVE Core'
  OBVIOUS
<1>1. TypeOK'
  BY TypeNext
<1>2. Existence'
  BY StepKind, ExistenceNext DEF Core
<1>3. ASSUME NEW q \in Requests
      PROVE  WellFormed(q)' /\ Current(q)'
  <2>1. CASE \E r \in Requests : Begin(r) \/ Step(r) \/ Rollback(r)
    <3>1. PICK r \in Requests : Begin(r) \/ Step(r) \/ Rollback(r)
      BY <2>1
    <3>2. CASE q = r
      BY <3>1, <3>2, StepActor
    <3>3. CASE q # r
      <4>1. Kept(q)
        BY <3>1, <3>3, StepKeeps
      <4> QED BY <4>1, KeptRequest
    <3> QED BY <3>2, <3>3
  <2>2. CASE ~ \E r \in Requests : Begin(r) \/ Step(r) \/ Rollback(r)
    <3>1. Kept(q)
      BY <2>2, NobodyActs DEF Core, Next
    <3> QED BY <3>1, KeptRequest
  <2> QED BY <2>1, <2>2
<1> QED
  BY <1>1, <1>2, <1>3 DEF Core, JobWellFormed, LoadedIsCurrent, Current

-----------------------------------------------------------------------------
\* The core is an invariant of the specification: what the transactions of the
\* profile service rely on between their statements holds in every state.
THEOREM CoreAlways == Spec => []Core
<1> QED BY CoreInit, CoreNext, PTL DEF Spec

\* Every variable keeps its type, for any number of requests, entities,
\* families, keys and schemas.
THEOREM TypeCorrect == Spec => []TypeOK
<1>1. Core => TypeOK
  BY DEF Core
<1> QED BY <1>1, CoreAlways, PTL

\* What a transaction loaded under lockEntity is still the latest version when
\* it writes, in every reachable state: no update of a profile is lost.
THEOREM LoadedAlwaysCurrent == Spec => []LoadedIsCurrent
<1>1. Core => LoadedIsCurrent
  BY DEF Core
<1> QED BY <1>1, CoreAlways, PTL


\* An event is added unless its version has one.
LEMMA AnnouncedRows ==
  ASSUME NEW rows, NEW e, NEW v, NEW k
  PROVE  /\ rows \subseteq Announced(rows, e, v, k)
         /\ \A row \in Announced(rows, e, v, k) :
               row \in rows \/ row = [entity |-> e, version |-> v, revision |-> k]
         /\ (~ \E row \in rows : row.entity = e /\ row.version = v) =>
               [entity |-> e, version |-> v, revision |-> k]
                    \in Announced(rows, e, v, k)
BY DEF Announced

\* ProfileHistory's view of the outbox.
Image(rows) == {<<row.entity, row.version>> : row \in rows}

\* There the event of a version is a set element, added once.
LEMMA AnnouncedImage ==
  ASSUME NEW rows, NEW e, NEW v, NEW k
  PROVE  Image(Announced(rows, e, v, k)) = Image(rows) \cup {<<e, v>>}
<1> DEFINE new == [entity |-> e, version |-> v, revision |-> k]
<1>1. CASE \E row \in rows : row.entity = e /\ row.version = v
  <2>1. <<e, v>> \in Image(rows)
    BY <1>1 DEF Image
  <2> QED BY <1>1, <2>1 DEF Announced
<1>2. CASE ~ \E row \in rows : row.entity = e /\ row.version = v
  <2>1. Announced(rows, e, v, k) = rows \cup {new}
    BY <1>2 DEF Announced
  <2>2. new.entity = e /\ new.version = v
    OBVIOUS
  <2> HIDE DEF new
  <2>3. Image(rows \cup {new}) = Image(rows) \cup {<<e, v>>}
    BY <2>2 DEF Image
  <2> QED BY <2>1, <2>3
<1> QED BY <1>1, <1>2

\* The history of an entity after Append.
LEMMA Appended ==
  ASSUME TypeOK, NEW e \in Entities, NEW d \in Document
  PROVE  /\ Append(versions[e], d) \in Seq(Document)
         /\ Len(Append(versions[e], d)) = Len(versions[e]) + 1
         /\ Len(versions[e]) \in Nat
         /\ Append(versions[e], d)[Len(versions[e]) + 1] = d
         /\ \A v \in 1..Len(versions[e]) :
                Append(versions[e], d)[v] = versions[e][v]
BY DEF TypeOK

\* Every kind of step keeps AuthorityNeverWeakens.
LEMMA AuthorityNext ==
  TypeOK /\ AuthorityNeverWeakens /\ Kind => AuthorityNeverWeakens'
<1> SUFFICES ASSUME TypeOK, AuthorityNeverWeakens, Kind, NEW y \in Entities,
                    NEW v \in 1..(Len(versions'[y]) - 1)
             PROVE  NoWeaker(versions'[y][v], versions'[y][v + 1])
  BY DEF AuthorityNeverWeakens
<1> DEFINE Goal == NoWeaker(versions'[y][v], versions'[y][v + 1])
<1>0. ASSUME versions'[y] = versions[y]
      PROVE  Goal
  BY <1>0 DEF AuthorityNeverWeakens
<1>1. ASSUME versions'[y] = <<>>
      PROVE  Goal
  BY <1>1
<1>2. ASSUME NEW d \in Document, versions'[y] = Append(versions[y], d),
             NoWeaker(Latest(y), d)
      PROVE  Goal
  <2>1. v \in 1..Len(versions[y])
    BY <1>2, Appended
  <2>2. CASE v = Len(versions[y])
    BY <1>2, <2>1, <2>2, Appended DEF Latest
  <2>3. CASE v # Len(versions[y])
    <3>1. v + 1 \in 1..Len(versions[y]) /\ v \in 1..(Len(versions[y]) - 1)
      BY <2>1, <2>3, Appended
    <3>2. versions'[y][v] = versions[y][v] /\ versions'[y][v + 1] = versions[y][v + 1]
      BY <1>2, <2>1, <3>1, Appended
    <3> QED BY <3>1, <3>2 DEF AuthorityNeverWeakens
  <2> QED BY <2>2, <2>3
<1>3. CASE Quiet
  BY <1>3, <1>0 DEF Quiet
<1>4. ASSUME NEW e \in Entities, Retired(e)
      PROVE  Goal
  BY <1>4, <1>0, <1>1 DEF Retired, TypeOK
<1>5. ASSUME NEW e \in Entities, NEW d \in Document, Born(e, d)
      PROVE  Goal
  <2>1. CASE y = e
    <3>1. versions'[y] = <<d>>
      BY <1>5, <2>1 DEF Born, TypeOK
    <3> QED BY <3>1
  <2>2. CASE y # e
    BY <1>5, <2>2, <1>0 DEF Born, TypeOK
  <2> QED BY <2>1, <2>2
<1>6. ASSUME NEW e \in Entities, NEW d \in Document, Grown(e, d)
      PROVE  Goal
  BY <1>6, <1>0, <1>2 DEF Grown, TypeOK
<1>7. ASSUME NEW e \in Entities, NEW x \in Entities, NEW d \in Document,
             Absorbed(e, x, d)
      PROVE  Goal
  BY <1>7, <1>0, <1>1, <1>2 DEF Absorbed, TypeOK
<1> QED BY <1>3, <1>4, <1>5, <1>6, <1>7 DEF Kind

\* Along the whole history of a profile no field is lost or handed to a source
\* of lower priority, whatever transactions interleave.
THEOREM AuthorityTheorem == Spec => []AuthorityNeverWeakens
<1>1. Init => AuthorityNeverWeakens
  BY DEF Init, AuthorityNeverWeakens
<1>2. Core /\ AuthorityNeverWeakens /\ [Next]_vars => AuthorityNeverWeakens'
  BY StepKind, AuthorityNext DEF Core
<1> QED BY <1>1, <1>2, CoreAlways, PTL DEF Spec

\* Every kind of step is a step, or a stutter, of the abstract store.
LEMMA HistoryStep == Core /\ [Next]_vars => [History!Next]_(History!vars)
<1> SUFFICES ASSUME Core, Kind
             PROVE  History!Next \/ UNCHANGED History!vars
  BY StepKind
<1>1. CASE Quiet
  BY <1>1 DEF Quiet, History!vars
<1>2. ASSUME NEW e \in Entities, Retired(e)
      PROVE  History!Next
  <2>1. {<<row.entity, row.version>> : row \in outbox'}
          = {a \in {<<row.entity, row.version>> : row \in outbox} : a[1] # e}
    BY <1>2 DEF Retired, RowsOf
  <2>2. History!Retire(e)
    BY <1>2, <2>1 DEF Retired, History!Retire, Live
  <2> QED BY <2>2 DEF History!Next
<1>3. ASSUME NEW e \in Entities, NEW d \in Document, Born(e, d)
      PROVE  History!Next
  <2>1. History!Begin(e, d)
    <3>1. Image(outbox') = Image(outbox) \cup {<<e, 1>>}
      BY <1>3, AnnouncedImage DEF Born
    <3> QED BY <1>3, <3>1 DEF Born, History!Begin, Image
  <2> QED BY <2>1 DEF History!Next
<1>4. ASSUME NEW e \in Entities, NEW d \in Document, Grown(e, d)
      PROVE  History!Next
  <2>1. History!Extend(e, d)
    <3>1. Image(outbox') = Image(outbox) \cup {<<e, Len(versions[e]) + 1>>}
      BY <1>4, AnnouncedImage DEF Grown
    <3> QED BY <1>4, <3>1 DEF Grown, History!Extend, Live, Image
  <2> QED BY <2>1 DEF History!Next
<1>5. ASSUME NEW e \in Entities, NEW x \in Entities, NEW d \in Document,
             Absorbed(e, x, d)
      PROVE  History!Next
  <2>1. Image(outbox \ RowsOf(x)) = {a \in Image(outbox) : a[1] # x}
    BY DEF RowsOf, Image
  <2>2. History!Absorb(e, x, d)
    <3>1. Image(outbox') = Image(outbox \ RowsOf(x))
                               \cup {<<e, Len(versions[e]) + 1>>}
      BY <1>5, AnnouncedImage DEF Absorbed
    <3> QED BY <1>5, <2>1, <3>1 DEF Absorbed, History!Absorb, Live, Image
  <2> QED BY <2>2 DEF History!Next
<1> QED BY <1>1, <1>2, <1>3, <1>4, <1>5 DEF Kind

\* The store implements the append-only history: every commit begins, extends,
\* retires or absorbs a history and announces the version it appends.
THEOREM Refinement == Spec => ImplementsHistory
<1>1. Init => History!Init
  BY DEF Init, History!Init
<1> QED BY <1>1, HistoryStep, CoreAlways, PTL DEF Spec, ImplementsHistory, History!Spec

\* The three clauses of VersionsAnnounced, for one entity.
NoStray(e) == \A row \in outbox : row.entity = e => row.version \in 1..Len(versions[e])
Once(e) == \A row, other \in outbox :
    row.entity = e /\ other.entity = e /\ row.version = other.version => row = other
AllAnnounced(e) == \A v \in 1..Len(versions[e]) :
    \E row \in outbox : /\ row.entity = e /\ row.version = v
                        /\ v = Len(versions[e]) => row.revision = bound[e]

\* VersionsAnnounced is the conjunction of the three over the entities.
LEMMA ByEntity ==
  ASSUME TypeOK
  PROVE  VersionsAnnounced <=>
            \A e \in Entities : NoStray(e) /\ Once(e) /\ AllAnnounced(e)
BY DEF TypeOK, OutboxRow, VersionsAnnounced, NoStray, Once, AllAnnounced

\* An event of e is none of another entity.
LEMMA AnnouncedElsewhere ==
  ASSUME NEW rows, NEW e, NEW v, NEW k, NEW row, row.entity # e
  PROVE  row \in Announced(rows, e, v, k) <=> row \in rows
BY DEF Announced

\* An entity whose rows and history a step leaves alone.
LEMMA Untouched ==
  ASSUME NEW y \in Entities, NoStray(y) /\ Once(y) /\ AllAnnounced(y),
         versions'[y] = versions[y], bound'[y] = bound[y],
         \A row : row.entity = y => (row \in outbox' <=> row \in outbox)
  PROVE  (NoStray(y) /\ Once(y) /\ AllAnnounced(y))'
BY DEF NoStray, Once, AllAnnounced

\* An entity that loses its history and its rows.
LEMMA Emptied ==
  ASSUME NEW y \in Entities, versions'[y] = <<>>,
         \A row \in outbox' : row.entity # y
  PROVE  (NoStray(y) /\ Once(y) /\ AllAnnounced(y))'
BY DEF NoStray, Once, AllAnnounced

\* An entity that gains a version and the row that announces it.
LEMMA Extended ==
  ASSUME NEW y \in Entities, NoStray(y) /\ Once(y) /\ AllAnnounced(y),
         Len(versions[y]) \in Nat, Len(versions'[y]) = Len(versions[y]) + 1,
         NEW rows, \A row : row.entity = y => (row \in rows <=> row \in outbox),
         outbox' = Announced(rows, y, Len(versions[y]) + 1, bound'[y])
  PROVE  (NoStray(y) /\ Once(y) /\ AllAnnounced(y))'
<1> DEFINE new == [entity |-> y, version |-> Len(versions[y]) + 1,
                   revision |-> bound'[y]]
<1>1. outbox' = rows \cup {new}
  BY DEF Announced, NoStray
<1>2. new.entity = y /\ new.version = Len(versions[y]) + 1 /\ new.revision = bound'[y]
  OBVIOUS
<1> HIDE DEF new
<1>3. NoStray(y)'
  BY <1>1, <1>2 DEF NoStray
<1>4. Once(y)'
  <2>1. \A row \in rows : row.entity = y => row.version # new.version
    BY <1>2 DEF NoStray
  <2> QED BY <1>1, <1>2, <2>1 DEF Once
<1>5. AllAnnounced(y)'
  <2> SUFFICES ASSUME NEW v \in 1..Len(versions'[y])
               PROVE  \E row \in outbox' :
                         /\ row.entity = y /\ row.version = v
                         /\ v = Len(versions'[y]) => row.revision = bound'[y]
    BY DEF AllAnnounced
  <2>1. CASE v = Len(versions[y]) + 1
    BY <1>1, <1>2, <2>1
  <2>2. CASE v # Len(versions[y]) + 1
    <3>1. v \in 1..Len(versions[y])
      BY <2>2
    <3>2. PICK row \in outbox : row.entity = y /\ row.version = v
      BY <3>1 DEF AllAnnounced
    <3> QED BY <1>1, <2>2, <3>2
  <2> QED BY <2>1, <2>2
<1> QED BY <1>3, <1>4, <1>5

\* Every kind of step keeps VersionsAnnounced.
LEMMA AnnouncedNext ==
  TypeOK /\ TypeOK' /\ Existence /\ VersionsAnnounced /\ Kind => VersionsAnnounced'
<1> SUFFICES ASSUME TypeOK, TypeOK', Existence, VersionsAnnounced, Kind,
                    NEW y \in Entities
             PROVE  (NoStray(y) /\ Once(y) /\ AllAnnounced(y))'
  <2>1. TypeOK' => (VersionsAnnounced' <=>
            \A e \in Entities : (NoStray(e) /\ Once(e) /\ AllAnnounced(e))')
    BY DEF TypeOK, OutboxRow, VersionsAnnounced, NoStray, Once, AllAnnounced
  <2> QED BY <2>1
<1> DEFINE Goal == (NoStray(y) /\ Once(y) /\ AllAnnounced(y))'
<1>0. NoStray(y) /\ Once(y) /\ AllAnnounced(y)
  BY ByEntity
<1>1. CASE Quiet
  BY <1>0, <1>1, Untouched DEF Quiet
<1>2. ASSUME NEW e \in Entities, Retired(e)
      PROVE  Goal
  <2>1. CASE y = e
    <3>1. versions'[y] = <<>> /\ \A row \in outbox' : row.entity # y
      BY <1>2, <2>1 DEF Retired, RowsOf, TypeOK
    <3> QED BY <3>1, Emptied
  <2>2. CASE y # e
    <3>1. /\ versions'[y] = versions[y] /\ bound'[y] = bound[y]
          /\ \A row : row.entity = y => (row \in outbox' <=> row \in outbox)
      BY <1>2, <2>2 DEF Retired, RowsOf, TypeOK
    <3> QED BY <1>0, <3>1, Untouched
  <2> QED BY <2>1, <2>2
<1>3. ASSUME NEW e \in Entities, NEW d \in Document, Born(e, d)
      PROVE  Goal
  <2>1. CASE y = e
    <3>1. /\ Len(versions[y]) = 0 /\ Len(versions[y]) \in Nat
          /\ Len(versions'[y]) = Len(versions[y]) + 1
      BY <1>3, <2>1 DEF Born, Existence, Live, TypeOK
    <3>2. outbox' = Announced(outbox, y, Len(versions[y]) + 1, bound'[y])
      BY <1>3, <2>1, <3>1 DEF Born
    <3> QED BY <1>0, <3>1, <3>2, Extended
  <2>2. CASE y # e
    <3>1. /\ versions'[y] = versions[y] /\ bound'[y] = bound[y]
          /\ \A row : row.entity = y => (row \in outbox' <=> row \in outbox)
      BY <1>3, <2>2, AnnouncedElsewhere DEF Born, TypeOK
    <3> QED BY <1>0, <3>1, Untouched
  <2> QED BY <2>1, <2>2
<1>4. ASSUME NEW e \in Entities, NEW d \in Document, Grown(e, d)
      PROVE  Goal
  <2>1. CASE y = e
    <3>1. Len(versions[y]) \in Nat /\ Len(versions'[y]) = Len(versions[y]) + 1
      BY <1>4, <2>1, Appended DEF Grown, TypeOK
    <3>2. outbox' = Announced(outbox, y, Len(versions[y]) + 1, bound'[y])
      BY <1>4, <2>1 DEF Grown
    <3> QED BY <1>0, <3>1, <3>2, Extended
  <2>2. CASE y # e
    <3>1. /\ versions'[y] = versions[y] /\ bound'[y] = bound[y]
          /\ \A row : row.entity = y => (row \in outbox' <=> row \in outbox)
      BY <1>4, <2>2, AnnouncedElsewhere DEF Grown, TypeOK
    <3> QED BY <1>0, <3>1, Untouched
  <2> QED BY <2>1, <2>2
<1>5. ASSUME NEW e \in Entities, NEW x \in Entities, NEW d \in Document,
             Absorbed(e, x, d)
      PROVE  Goal
  <2> DEFINE rows == outbox \ RowsOf(x)
  <2>1. CASE y = e
    <3>1. Len(versions[y]) \in Nat /\ Len(versions'[y]) = Len(versions[y]) + 1
      BY <1>5, <2>1, Appended DEF Absorbed, TypeOK
    <3>2. outbox' = Announced(rows, y, Len(versions[y]) + 1, bound'[y])
      BY <1>5, <2>1 DEF Absorbed
    <3>3. \A row : row.entity = y => (row \in rows <=> row \in outbox)
      BY <1>5, <2>1 DEF Absorbed, RowsOf
    <3> HIDE DEF rows
    <3> QED BY <1>0, <3>1, <3>2, <3>3, Extended
  <2>2. CASE y = x
    <3>1. versions'[y] = <<>>
      BY <1>5, <2>2 DEF Absorbed, TypeOK
    <3>2. ASSUME NEW row \in outbox', row.entity = y
          PROVE  FALSE
      <4>1. row \in outbox \ RowsOf(x)
        BY <1>5, <2>2, <3>2, AnnouncedElsewhere DEF Absorbed
      <4> QED BY <2>2, <3>2, <4>1 DEF RowsOf
    <3> QED BY <3>1, <3>2, Emptied
  <2>3. CASE y # e /\ y # x
    <3>1. /\ versions'[y] = versions[y] /\ bound'[y] = bound[y]
          /\ \A row : row.entity = y => (row \in outbox' <=> row \in outbox)
      BY <1>5, <2>3, AnnouncedElsewhere DEF Absorbed, RowsOf, TypeOK
    <3> QED BY <1>0, <3>1, Untouched
  <2> QED BY <2>1, <2>2, <2>3
<1> QED BY <1>1, <1>2, <1>3, <1>4, <1>5 DEF Kind

\* Transactional outbox: every version is announced exactly once, and the event
\* of the latest one names the revision the entity is bound to.
THEOREM OutboxTheorem == Spec => []VersionsAnnounced
<1>1. Init => VersionsAnnounced
  BY DEF Init, VersionsAnnounced
<1>2. Core /\ VersionsAnnounced /\ [Next]_vars => VersionsAnnounced'
  BY StepKind, CoreNext, AnnouncedNext DEF Core
<1> QED BY <1>1, <1>2, CoreAlways, PTL DEF Spec

-----------------------------------------------------------------------------
(***************************************************************************)
(* Bindings to revisions.  That an upgrade binds a validated document is   *)
(* inductive with: revisions are only added and a family is for life; an   *)
(* upgrade between its two statements has validated what it loaded; every  *)
(* binding and every event names an existing revision.                     *)
(***************************************************************************)
\* What every step leaves of the catalog.
RevisionsGrow ==
    \A f \in Families :
        /\ Len(revisions[f]) <= Len(revisions'[f])
        /\ \A k \in 1..Len(revisions[f]) : revisions'[f][k] = revisions[f][k]
FamilyFixed == \A e \in Entities : status[e] # "unborn" => family'[e] = family[e]

\* The document of r may be bound to revision k.
Validated(r, k) ==
    LET f == family[job[r].entity]
    IN  k \in 1..Len(revisions[f]) /\ Accepts(revisions[f][k], DataOf(job[r].doc))
TargetOf(r) ==
    /\ pc[r] \in {"batch", "batch_upgrade"} => job[r].target \in 1..Len(revisions[job[r].family])
    /\ pc[r] \in {"upgrade", "batch_upgrade"} => Validated(r, job[r].target)
Targets == \A r \in Requests : TargetOf(r)
Bindings == \A e \in Entities : Live(e) => bound[e] \in 1..Len(revisions[family[e]])
RowsNamed == \A row \in outbox : row.revision \in 1..Len(revisions[family[row.entity]])
Bound == Targets /\ Bindings /\ RowsNamed

\* Steps that only read, lock or end.
Reading ==
    \/ \E r \in Requests :
          \/ Begin(r) \/ Rollback(r) \/ BatchEnd(r) \/ ResolveLock(r) \/ MergeLoad(r) \/ Refuse(r)
          \/ BatchFail(r)
          \/ \E e \in Entities : BatchLoad(r, e) \/ BatchSkip(r, e)
    \/ UNCHANGED vars

\* They leave the store alone.
LEMMA ReadingKeeps == ASSUME Reading PROVE UNCHANGED store
<1>1. ASSUME NEW r \in Requests, Begin(r) \/ Rollback(r)
      PROVE  UNCHANGED store
  BY <1>1 DEF Begin, Rollback, CreateValidate, BatchBehind, BatchGiven, BatchSelect,
     UpdateLoad, UpgradeLoad, ResolveRead, MergeLock
<1>2. ASSUME NEW r \in Requests,
             \/ BatchEnd(r) \/ ResolveLock(r) \/ MergeLoad(r) \/ Refuse(r) \/ BatchFail(r)
      PROVE  UNCHANGED store
  BY <1>2 DEF BatchEnd, BatchFail, ResolveLock, MergeLoad, Refuse
<1>3. ASSUME NEW r \in Requests, NEW e \in Entities, BatchLoad(r, e) \/ BatchSkip(r, e)
      PROVE  UNCHANGED store
  BY <1>3 DEF BatchLoad, BatchSkip
<1>4. CASE UNCHANGED vars
  BY <1>4 DEF vars, store
<1> QED BY <1>1, <1>2, <1>3, <1>4 DEF Reading

\* Revisions are only added, families never change.
LEMMA CatalogGrows == Core /\ [Next]_vars => RevisionsGrow /\ FamilyFixed
<1> SUFFICES ASSUME Core, [Next]_vars PROVE RevisionsGrow /\ FamilyFixed
  OBVIOUS
<1>0. TypeOK /\ \A f \in Families : Len(revisions[f]) \in Nat
  BY DEF Core, TypeOK, LatestRevision
<1>1. ASSUME UNCHANGED <<revisions, family>>
      PROVE  RevisionsGrow /\ FamilyFixed
  BY <1>0, <1>1 DEF RevisionsGrow, FamilyFixed, LatestRevision
<1>2. ASSUME NEW f \in Families, NEW schema \in Schemas, Publish(f, schema)
      PROVE  RevisionsGrow /\ FamilyFixed
  <2>1. revisions' = [revisions EXCEPT ![f] = Append(@, schema)] /\ family' = family
    BY <1>2 DEF Publish
  <2>2. ASSUME NEW g \in Families
        PROVE  /\ Len(revisions[g]) <= Len(revisions'[g])
               /\ \A k \in 1..Len(revisions[g]) : revisions'[g][k] = revisions[g][k]
    BY <1>0, <2>1 DEF TypeOK, LatestRevision
  <2> QED BY <2>1, <2>2 DEF RevisionsGrow, FamilyFixed
<1>3. ASSUME NEW r \in Requests, NEW e \in Entities, NEW s \in Sources,
             NEW refs \in SUBSET Refs, CreateInsert(r, e, s, refs)
      PROVE  RevisionsGrow /\ FamilyFixed
  <2>1. /\ revisions' = revisions /\ status[e] = "unborn"
        /\ family' = [family EXCEPT ![e] = job[r].family]
    BY <1>3 DEF CreateInsert
  <2> QED BY <1>0, <2>1 DEF RevisionsGrow, FamilyFixed, LatestRevision, TypeOK
<1>4. ASSUME NEW r \in Requests, UpgradeWrite(r) \/ MergeWrite(r)
      PROVE  UNCHANGED <<revisions, family>>
  BY <1>4 DEF UpgradeWrite, MergeWrite
<1>5. ASSUME NEW r \in Requests, NEW data \in Data, NEW s \in Sources, NEW refs \in SUBSET Refs,
             UpdateBlocked(r, data, s) \/ UpdateCommit(r, data, s, refs)
      PROVE  UNCHANGED <<revisions, family>>
  BY <1>5 DEF UpdateBlocked, UpdateCommit
<1>6. ASSUME NEW r \in Requests, NEW v \in Values, ResolveWrite(r, v)
      PROVE  UNCHANGED <<revisions, family>>
  BY <1>6 DEF ResolveWrite
<1>7. ASSUME NEW e \in Entities, Delete(e)
      PROVE  UNCHANGED <<revisions, family>>
  BY <1>7 DEF Delete
<1>8. ASSUME Reading
      PROVE  UNCHANGED <<revisions, family>>
  BY <1>8, ReadingKeeps DEF store
<1> QED
  BY <1>1, <1>2, <1>3, <1>4, <1>5, <1>6, <1>7, <1>8 DEF Next, Step, Reading

\* A live entity gets a binding when it is created, and another by an upgrade.
LEMMA BindingChanges ==
  ASSUME Core, [Next]_vars, NEW e \in Entities, status'[e] = "live"
  PROVE  \/ status[e] = "live" /\ bound'[e] = bound[e]
         \/ \E r \in Requests : UpgradeWrite(r) /\ job[r].entity = e
         \/ \E r \in Requests, s \in Sources, refs \in SUBSET Refs :
               CreateInsert(r, e, s, refs)
<1> DEFINE Same == status[e] = "live" /\ bound'[e] = bound[e]
<1>0. TypeOK
  BY DEF Core
<1>1. ASSUME NEW r \in Requests, UpgradeWrite(r), job[r].entity # e
      PROVE  Same
  BY <1>0, <1>1 DEF UpgradeWrite, TypeOK
<1>2. ASSUME NEW r \in Requests, NEW x \in Entities \ {e}, NEW s \in Sources,
             NEW refs \in SUBSET Refs, CreateInsert(r, x, s, refs)
      PROVE  Same
  BY <1>0, <1>2 DEF CreateInsert, TypeOK
<1>3. ASSUME NEW r \in Requests, NEW data \in Data, NEW s \in Sources, NEW refs \in SUBSET Refs,
             UpdateBlocked(r, data, s) \/ UpdateCommit(r, data, s, refs)
      PROVE  Same
  BY <1>3 DEF UpdateBlocked, UpdateCommit
<1>4. ASSUME NEW r \in Requests, NEW v \in Values, ResolveWrite(r, v)
      PROVE  Same
  BY <1>4 DEF ResolveWrite
<1>5. ASSUME NEW r \in Requests, MergeWrite(r)
      PROVE  Same
  BY <1>0, <1>5 DEF MergeWrite, TypeOK
<1>6. ASSUME NEW f \in Families, NEW schema \in Schemas, Publish(f, schema)
      PROVE  Same
  BY <1>6 DEF Publish
<1>7. ASSUME Reading
      PROVE  Same
  BY <1>7, ReadingKeeps DEF store
<1>8. ASSUME NEW x \in Entities, Delete(x)
      PROVE  Same
  BY <1>0, <1>8 DEF Delete, TypeOK
<1> QED
  BY <1>1, <1>2, <1>3, <1>4, <1>5, <1>6, <1>7, <1>8 DEF Next, Step, Reading

\* What another request has validated stays valid.
LEMMA KeptTarget ==
  ASSUME Core, [Next]_vars, NEW q \in Requests, Kept(q), TargetOf(q)
  PROVE  TargetOf(q)'
<1>1. RevisionsGrow /\ FamilyFixed /\ TypeOK /\ TypeOK'
  BY CatalogGrows, TypeNext DEF Core
<1>2. pc'[q] = pc[q] /\ job'[q] = job[q]
  BY DEF Kept
<1>3. \A f \in Families : Len(revisions[f]) \in Nat /\ Len(revisions'[f]) \in Nat
  BY <1>1 DEF TypeOK, LatestRevision
<1>4. CASE pc[q] \in {"upgrade", "batch_upgrade"}
  <2> DEFINE e == job[q].entity
  <2>1. e \in Entities /\ Live(e) /\ Validated(q, job[q].target)
    BY <1>4 DEF Core, JobWellFormed, WellFormed, LoadedIsCurrent, Holding, Holds, TargetOf
  <2>2. family'[e] = family[e] /\ family[e] \in Families /\ job[q].family \in Families
    BY <1>1, <2>1 DEF FamilyFixed, Live, TypeOK, Job
  <2>3. /\ job[q].target \in 1..Len(revisions'[family[e]])
        /\ revisions'[family[e]][job[q].target] = revisions[family[e]][job[q].target]
    BY <1>1, <1>3, <2>1, <2>2 DEF Validated, RevisionsGrow
  <2>4. Validated(q, job[q].target)'
    BY <1>2, <2>1, <2>2, <2>3 DEF Validated, LatestRevision
  <2>5. pc[q] = "batch_upgrade" => job[q].target \in 1..Len(revisions'[job[q].family])
    BY <1>1, <1>3, <2>2 DEF TargetOf, RevisionsGrow
  <2> QED BY <1>2, <1>4, <2>4, <2>5 DEF TargetOf, Validated
<1>5. CASE pc[q] = "batch"
  <2>1. job[q].family \in Families
    BY <1>1 DEF TypeOK, Job
  <2>2. job[q].target \in 1..Len(revisions'[job[q].family])
    BY <1>1, <1>3, <1>5, <2>1 DEF TargetOf, RevisionsGrow
  <2> QED BY <1>2, <1>5, <2>2 DEF TargetOf, LatestRevision
<1>6. CASE pc[q] \notin {"upgrade", "batch_upgrade", "batch"}
  BY <1>2, <1>6 DEF TargetOf
<1> QED BY <1>4, <1>5, <1>6

\* The request that acts has validated what it takes to its next statement.
LEMMA ActorTarget ==
  ASSUME Core, Targets, NEW r \in Requests, Begin(r) \/ Step(r) \/ Rollback(r)
  PROVE  TargetOf(r)'
<1> USE DEF Core
<1>0. ASSUME pc'[r] \notin {"upgrade", "batch_upgrade", "batch"}
      PROVE  TargetOf(r)'
  BY <1>0 DEF TargetOf
<1>1. ASSUME Finish(r)
      PROVE  TargetOf(r)'
  BY <1>0, <1>1 DEF Finish, TypeOK
<1>3. ASSUME \/ BatchEnd(r) \/ MergeWrite(r) \/ Refuse(r) \/ Rollback(r)
             \/ \E e \in Entities, s \in Sources, refs \in SUBSET Refs :
                   CreateInsert(r, e, s, refs)
             \/ \E data \in Data, s \in Sources :
                   \/ UpdateBlocked(r, data, s)
                   \/ \E refs \in SUBSET Refs : UpdateCommit(r, data, s, refs)
             \/ \E v \in Values : ResolveWrite(r, v)
      PROVE  TargetOf(r)'
  <2>1. Finish(r)
    BY <1>3 DEF CreateInsert, UpdateBlocked, UpdateCommit, BatchEnd, ResolveWrite,
       MergeWrite, Refuse, Rollback
  <2> QED BY <1>1, <2>1
<1>4. ASSUME \/ ResolveLock(r) \/ MergeLoad(r)
             \/ \E f \in Families, data \in Data : CreateValidate(r, f, data)
             \/ \E e \in Entities :
                   \/ UpdateLoad(r, e)
                   \/ \E p \in Paths, i \in 1..MaxConflicts : ResolveRead(r, e, p, i)
                   \/ \E x \in Entities : MergeLock(r, e, x)
      PROVE  TargetOf(r)'
  <2>1. pc'[r] \in {"create", "update", "resolve_lock", "resolve", "merge_lock", "merge"}
    BY <1>4 DEF CreateValidate, UpdateLoad, ResolveRead, ResolveLock, MergeLock, MergeLoad,
       At, TypeOK
  <2> QED BY <1>0, <2>1
<1>5. ASSUME NEW e \in Entities, NEW k \in 1..MaxRevisions, UpgradeLoad(r, e, k)
      PROVE  TargetOf(r)'
  <2>1. /\ pc'[r] = "upgrade" /\ job'[r].entity = e /\ job'[r].doc = Latest(e)
        /\ job'[r].target = k /\ UNCHANGED <<revisions, family>>
    BY <1>5 DEF TypeOK, Job, At, UpgradeLoad, NoJob, store
  <2>2. k \in Nat /\ k >= 1 /\ k <= Len(revisions[family[e]]) /\ Len(revisions[family[e]]) \in Nat
    BY <1>5, BoundsAssumption DEF UpgradeLoad, LatestRevision, TypeOK
  <2>3. k \in 1..Len(revisions[family[e]])
    BY <2>2
  <2>4. Accepts(revisions[family[e]][k], DataOf(Latest(e)))
    BY <1>5 DEF UpgradeLoad, Upgradable, AcceptsStored
  <2> QED BY <2>1, <2>3, <2>4 DEF TargetOf, Validated, LatestRevision
<1>6. ASSUME NEW f \in Families, NEW k \in 1..MaxRevisions, NEW S,
             BatchSelect(r, f, k, S)
      PROVE  TargetOf(r)'
  <2>1. /\ pc'[r] = "batch" /\ job'[r].family = f /\ job'[r].target = k
        /\ UNCHANGED revisions
    BY <1>6 DEF TypeOK, Job, At, BatchSelect, NoJob, store
  <2>2. k \in Nat /\ k >= 1 /\ k <= Len(revisions[f]) /\ Len(revisions[f]) \in Nat
    BY <1>6, BoundsAssumption DEF BatchSelect, LatestRevision, TypeOK
  <2>3. k \in 1..Len(revisions[f])
    BY <2>2
  <2> QED BY <2>1, <2>3 DEF TargetOf, LatestRevision
<1>7. ASSUME NEW e \in Entities, BatchLoad(r, e)
      PROVE  TargetOf(r)'
  <2>1. /\ pc'[r] = "batch_upgrade" /\ job'[r].entity = e /\ job'[r].doc = Latest(e)
        /\ job'[r].target = job[r].target /\ job'[r].family = job[r].family
        /\ UNCHANGED <<revisions, family>>
    BY <1>7 DEF TypeOK, Job, At, BatchLoad, store
  <2>2. job[r].target \in 1..Len(revisions[family[e]]) /\ family[e] = job[r].family
    BY <1>7 DEF BatchLoad, Upgradable, Targets, TargetOf
  <2>3. Accepts(revisions[family[e]][job[r].target], DataOf(Latest(e)))
    BY <1>7 DEF BatchLoad, Upgradable, AcceptsStored
  <2> QED BY <2>1, <2>2, <2>3 DEF TargetOf, Validated, LatestRevision
<1>8. ASSUME NEW e \in Entities, BatchSkip(r, e)
      PROVE  TargetOf(r)'
  <2>1. /\ pc'[r] = "batch" /\ job'[r].target = job[r].target /\ job'[r].family = job[r].family
        /\ UNCHANGED revisions
    BY <1>8 DEF TypeOK, Job, At, BatchSkip, store
  <2>2. job[r].target \in 1..Len(revisions[job[r].family])
    BY <1>8 DEF BatchSkip, Targets, TargetOf
  <2> QED BY <2>1, <2>2 DEF TargetOf, LatestRevision
<1>9. ASSUME UpgradeWrite(r)
      PROVE  TargetOf(r)'
  <2>1. CASE pc[r] = "upgrade"
    <3>1. pc'[r] = "idle"
      BY <1>9, <2>1 DEF UpgradeWrite, At, TypeOK
    <3> QED BY <1>0, <3>1
  <2>2. CASE pc[r] = "batch_upgrade"
    <3>1. /\ pc'[r] = "batch" /\ job'[r].target = job[r].target
          /\ job'[r].family = job[r].family /\ UNCHANGED revisions
      <4> DEFINE j == [job[r] EXCEPT !.entity = NoEntity, !.doc = EmptyDocument]
      <4>1. j.target = job[r].target /\ j.family = job[r].family
        BY DEF TypeOK, Job
      <4>2. At(r, "batch", j) /\ UNCHANGED revisions
        BY <1>9, <2>2 DEF UpgradeWrite
      <4> HIDE DEF j
      <4> QED BY <4>1, <4>2 DEF At, TypeOK
    <3>2. job[r].target \in 1..Len(revisions[job[r].family])
      BY <2>2 DEF Targets, TargetOf
    <3> QED BY <3>1, <3>2 DEF TargetOf, LatestRevision
  <2> QED BY <1>9, <2>1, <2>2 DEF UpgradeWrite
<1>10. ASSUME BatchFail(r)
      PROVE  TargetOf(r)'
  <2> DEFINE j == [job[r] EXCEPT !.entity = NoEntity, !.doc = EmptyDocument]
  <2>1. j.target = job[r].target /\ j.family = job[r].family
    BY DEF TypeOK, Job
  <2>2. At(r, "batch", j) /\ UNCHANGED revisions
    BY <1>10 DEF BatchFail, store
  <2> HIDE DEF j
  <2>3. /\ pc'[r] = "batch" /\ job'[r].target = job[r].target
        /\ job'[r].family = job[r].family
    BY <2>1, <2>2 DEF At, TypeOK
  <2>4. job[r].target \in 1..Len(revisions[job[r].family])
    BY <1>10 DEF BatchFail, Targets, TargetOf
  <2> QED BY <2>2, <2>3, <2>4 DEF TargetOf, LatestRevision
<1> QED
  BY <1>3, <1>4, <1>5, <1>6, <1>7, <1>8, <1>9, <1>10 DEF Begin, Step, BatchGiven, BatchBehind

\* What is validated between two statements stays so.
LEMMA TargetsNext == Core /\ Targets /\ [Next]_vars => Targets'
<1> SUFFICES ASSUME Core, Targets, [Next]_vars, NEW q \in Requests PROVE TargetOf(q)'
  BY DEF Targets
<1>1. TargetOf(q)
  BY DEF Targets
<1>2. ASSUME NEW r \in Requests, Begin(r) \/ Step(r) \/ Rollback(r)
      PROVE  TargetOf(q)'
  <2>1. CASE q = r
    BY <1>2, <2>1, ActorTarget
  <2>2. CASE q # r
    BY <1>1, <1>2, <2>2, StepKeeps, KeptTarget
  <2> QED BY <2>1, <2>2
<1>3. CASE ~ \E r \in Requests : Begin(r) \/ Step(r) \/ Rollback(r)
  <2>1. Kept(q)
    BY <1>3, NobodyActs DEF Next, Core
  <2> QED BY <1>1, <2>1, KeptTarget
<1> QED BY <1>2, <1>3

\* Live entities stay bound to revisions that exist.
LEMMA BindingsNext == Core /\ Targets /\ Bindings /\ [Next]_vars => Bindings'
<1> SUFFICES ASSUME Core, Targets, Bindings, [Next]_vars, NEW e \in Entities, status'[e] = "live"
             PROVE  bound'[e] \in 1..Len(revisions'[family'[e]])
  BY DEF Bindings, Live, LatestRevision
<1>1. RevisionsGrow /\ FamilyFixed /\ TypeOK /\ TypeOK'
  BY CatalogGrows, TypeNext DEF Core
<1>2. \A f \in Families : Len(revisions[f]) \in Nat /\ Len(revisions'[f]) \in Nat
  BY <1>1 DEF TypeOK, LatestRevision
<1>3. ASSUME Live(e), bound'[e] \in 1..Len(revisions[family[e]])
      PROVE  bound'[e] \in 1..Len(revisions'[family'[e]])
  <2>1. family'[e] = family[e] /\ family[e] \in Families
    BY <1>1, <1>3 DEF FamilyFixed, Live, TypeOK
  <2>2. bound'[e] \in 1..Len(revisions'[family'[e]])
    BY <1>1, <1>2, <1>3, <2>1 DEF RevisionsGrow, LatestRevision
  <2> QED BY <2>2
<1>4. CASE status[e] = "live" /\ bound'[e] = bound[e]
  BY <1>3, <1>4 DEF Bindings, Live
<1>5. ASSUME NEW r \in Requests, UpgradeWrite(r), job[r].entity = e
      PROVE  bound'[e] \in 1..Len(revisions'[family'[e]])
  <2>1. Live(e) /\ bound'[e] = job[r].target
    BY <1>1, <1>5 DEF UpgradeWrite, TypeOK, Core, LoadedIsCurrent, Holding, Holds
  <2>2. job[r].target \in 1..Len(revisions[family[e]])
    BY <1>5 DEF UpgradeWrite, Targets, TargetOf, Validated
  <2> QED BY <1>3, <2>1, <2>2
<1>6. ASSUME NEW r \in Requests, NEW s \in Sources, NEW refs \in SUBSET Refs,
             CreateInsert(r, e, s, refs)
      PROVE  bound'[e] \in 1..Len(revisions'[family'[e]])
  <2>1. /\ family'[e] = job[r].family /\ bound'[e] = Len(revisions[job[r].family])
        /\ Len(revisions[job[r].family]) > 0 /\ revisions' = revisions
    BY <1>1, <1>6 DEF CreateInsert, LatestRevision, TypeOK
  <2>2. Len(revisions[job[r].family]) \in Nat
    BY <1>1, <1>2 DEF TypeOK, Job
  <2> QED BY <2>1, <2>2 DEF LatestRevision
<1> QED BY <1>4, <1>5, <1>6, BindingChanges

\* A new event is of the version just appended, and of its entity's binding.
LEMMA NewRow ==
  ASSUME Kind, NEW row \in outbox', row \notin outbox
  PROVE  \E e \in Entities, d \in Document :
            \/ Born(e, d) /\ row = [entity |-> e, version |-> 1, revision |-> bound'[e]]
            \/ /\ Grown(e, d) \/ \E x \in Entities : Absorbed(e, x, d)
               /\ row = [entity |-> e, version |-> Len(versions[e]) + 1, revision |-> bound'[e]]
<1>1. ~Quiet /\ \A e \in Entities : ~Retired(e)
  BY DEF Quiet, Retired
<1>2. ASSUME NEW e \in Entities, NEW d \in Document, Born(e, d)
      PROVE  row = [entity |-> e, version |-> 1, revision |-> bound'[e]]
  BY <1>2, AnnouncedRows DEF Born
<1>3. ASSUME NEW e \in Entities, NEW d \in Document, Grown(e, d)
      PROVE  row = [entity |-> e, version |-> Len(versions[e]) + 1, revision |-> bound'[e]]
  <2>1. outbox' = Announced(outbox, e, Len(versions[e]) + 1, bound'[e])
    BY <1>3 DEF Grown
  <2> QED BY <2>1, AnnouncedRows
<1>4. ASSUME NEW e \in Entities, NEW d \in Document, NEW x \in Entities, Absorbed(e, x, d)
      PROVE  row = [entity |-> e, version |-> Len(versions[e]) + 1, revision |-> bound'[e]]
  <2>1. outbox' = Announced(outbox \ RowsOf(x), e, Len(versions[e]) + 1, bound'[e])
    BY <1>4 DEF Absorbed
  <2> DEFINE rows == outbox \ RowsOf(x)
  <2>2. row \notin rows
    OBVIOUS
  <2> HIDE DEF rows
  <2>3. outbox' = Announced(rows, e, Len(versions[e]) + 1, bound'[e])
    BY <2>1 DEF rows
  <2> QED BY <2>2, <2>3, AnnouncedRows
<1> QED BY <1>1, <1>2, <1>3, <1>4 DEF Kind

\* An event that stays is of a version that stays.
LEMMA OldRow ==
  ASSUME Core, VersionsAnnounced, Kind, NEW row \in outbox, row \in outbox'
  PROVE  /\ row.entity \in Entities /\ Live(row.entity)
         /\ row.version \in 1..Len(versions[row.entity])
         /\ versions'[row.entity][row.version] = versions[row.entity][row.version]
<1> DEFINE e == row.entity
<1>1. e \in Entities /\ row.version \in 1..Len(versions[e]) /\ TypeOK
  BY DEF Core, TypeOK, OutboxRow, VersionsAnnounced
<1>2. Live(e)
  BY <1>1 DEF Core, Existence
<1>3. CASE versions'[e] = versions[e]
  BY <1>1, <1>2, <1>3
<1>4. ASSUME NEW d \in Document, versions'[e] = Append(versions[e], d)
      PROVE  versions'[e][row.version] = versions[e][row.version]
  BY <1>1, <1>4, Appended
<1>5. CASE Quiet
  BY <1>1, <1>2, <1>5 DEF Quiet
<1>6. ASSUME NEW y \in Entities, Retired(y)
      PROVE  versions'[e] = versions[e]
  BY <1>1, <1>6 DEF Retired, RowsOf, TypeOK
<1>7. ASSUME NEW y \in Entities, NEW d \in Document, Born(y, d)
      PROVE  versions'[e] = versions[e]
  BY <1>1, <1>2, <1>7 DEF Born, Live, TypeOK
<1>8. ASSUME NEW y \in Entities, NEW d \in Document, Grown(y, d)
      PROVE  versions'[e] = versions[e] \/ versions'[e] = Append(versions[e], d)
  BY <1>1, <1>8 DEF Grown, TypeOK
<1>9. ASSUME NEW y \in Entities, NEW x \in Entities, NEW d \in Document, Absorbed(y, x, d)
      PROVE  versions'[e] = versions[e] \/ versions'[e] = Append(versions[e], d)
  <2>1. e # x
    <3>1. \A other \in Announced(outbox \ RowsOf(x), y, Len(versions[y]) + 1, bound'[y]) :
             other.entity = x => other \in outbox \ RowsOf(x)
      BY <1>9, AnnouncedElsewhere DEF Absorbed
    <3> QED BY <1>9, <3>1 DEF Absorbed, RowsOf
  <2> QED BY <1>1, <1>9, <2>1 DEF Absorbed, TypeOK
<1> QED BY <1>1, <1>2, <1>3, <1>4, <1>5, <1>6, <1>7, <1>8, <1>9 DEF Kind

\* Events go on to name revisions that exist.
LEMMA RowsNext ==
  Core /\ VersionsAnnounced /\ RowsNamed /\ Bindings' /\ [Next]_vars => RowsNamed'
<1> SUFFICES ASSUME Core, VersionsAnnounced, RowsNamed, Bindings', [Next]_vars,
                    NEW row \in outbox'
             PROVE  row.revision \in 1..Len(revisions'[family'[row.entity]])
  BY DEF RowsNamed, LatestRevision
<1>1. RevisionsGrow /\ FamilyFixed /\ TypeOK /\ TypeOK' /\ Kind
  BY CatalogGrows, TypeNext, StepKind DEF Core
<1>2. \A f \in Families : Len(revisions[f]) \in Nat /\ Len(revisions'[f]) \in Nat
  BY <1>1 DEF TypeOK, LatestRevision
<1>3. CASE row \in outbox
  <2>1. row.entity \in Entities /\ Live(row.entity)
    BY <1>1, <1>3, OldRow
  <2>2. family'[row.entity] = family[row.entity] /\ family[row.entity] \in Families
    BY <1>1, <2>1 DEF FamilyFixed, Live, TypeOK
  <2>3. row.revision \in 1..Len(revisions[family[row.entity]])
    BY <1>3 DEF RowsNamed
  <2> QED BY <1>1, <1>2, <2>2, <2>3 DEF RevisionsGrow, LatestRevision
<1>4. CASE row \notin outbox
  <2>1. PICK e \in Entities : row.entity = e /\ row.revision = bound'[e] /\ status'[e] = "live"
    <3>1. PICK e \in Entities, d \in Document :
            \/ Born(e, d) /\ row = [entity |-> e, version |-> 1, revision |-> bound'[e]]
            \/ /\ Grown(e, d) \/ \E x \in Entities : Absorbed(e, x, d)
               /\ row = [entity |-> e, version |-> Len(versions[e]) + 1, revision |-> bound'[e]]
      BY <1>1, <1>4, NewRow
    <3>2. status'[e] = "live"
      BY <1>1, <3>1 DEF Born, Grown, Absorbed, Live, TypeOK
    <3> QED BY <3>1, <3>2
  <2> QED BY <2>1 DEF Bindings, Live, LatestRevision
<1> QED BY <1>3, <1>4

\* An event under another revision than the one before is of an upgrade, which
\* validated its document.
LEMMA UpgradesNext ==
  Core /\ VersionsAnnounced /\ Bound /\ UpgradeValidated /\ [Next]_vars => UpgradeValidated'
<1> SUFFICES ASSUME Core, VersionsAnnounced, Bound, UpgradeValidated, [Next]_vars,
                    NEW y \in Entities, NEW row \in outbox', NEW next \in outbox',
                    row.entity = y, next.entity = y,
                    next.version = row.version + 1, next.revision # row.revision
             PROVE  Accepts(revisions'[family'[y]][next.revision],
                            DataOf(versions'[y][next.version]))
  BY DEF UpgradeValidated, RowsOf
<1>1. RevisionsGrow /\ FamilyFixed /\ TypeOK /\ TypeOK' /\ Kind /\ VersionsAnnounced'
  BY CatalogGrows, TypeNext, StepKind, AnnouncedNext DEF Core
<1>2. /\ row.version \in 1..Len(versions'[y]) /\ Len(versions'[y]) \in Nat
      /\ Len(versions[y]) \in Nat
  BY <1>1 DEF VersionsAnnounced, TypeOK
<1>3. CASE next \in outbox
  <2>1. /\ Live(y) /\ next.version \in 1..Len(versions[y])
        /\ versions'[y][next.version] = versions[y][next.version]
    BY <1>1, <1>3, OldRow
  <2>2. row \in outbox
    <3> SUFFICES ASSUME row \notin outbox PROVE FALSE
      OBVIOUS
    <3>1. PICK e \in Entities, d \in Document :
            \/ Born(e, d) /\ row = [entity |-> e, version |-> 1, revision |-> bound'[e]]
            \/ /\ Grown(e, d) \/ \E x \in Entities : Absorbed(e, x, d)
               /\ row = [entity |-> e, version |-> Len(versions[e]) + 1, revision |-> bound'[e]]
      BY <1>1, NewRow
    <3>2. e = y /\ ~Born(e, d)
      BY <2>1, <3>1 DEF Born, Live
    <3> QED BY <1>2, <2>1, <3>1, <3>2
  <2>3. Accepts(revisions[family[y]][next.revision], DataOf(versions[y][next.version]))
    BY <1>3, <2>2 DEF UpgradeValidated, RowsOf
  <2>4. next.revision \in 1..Len(revisions[family[y]]) /\ family'[y] = family[y]
        /\ family[y] \in Families
    BY <1>1, <1>3, <2>1 DEF Bound, RowsNamed, FamilyFixed, Live, TypeOK
  <2> QED BY <1>1, <2>1, <2>3, <2>4 DEF RevisionsGrow
<1>4. CASE next \notin outbox
  <2>1. PICK e \in Entities, d \in Document :
            \/ Born(e, d) /\ next = [entity |-> e, version |-> 1, revision |-> bound'[e]]
            \/ /\ Grown(e, d) \/ \E x \in Entities : Absorbed(e, x, d)
               /\ next = [entity |-> e, version |-> Len(versions[e]) + 1, revision |-> bound'[e]]
    BY <1>1, <1>4, NewRow
  <2>2. e = y /\ next.version # 1
    BY <1>2, <2>1
  <2>3. /\ Grown(y, d) \/ \E x \in Entities : Absorbed(y, x, d)
        /\ next.version = Len(versions[y]) + 1 /\ next.revision = bound'[y]
    BY <2>1, <2>2
  <2>4. row.version = Len(versions[y]) /\ row.version >= 1 /\ Live(y) /\ status'[y] = "live"
    <3>1. Live(y) /\ status'[y] = "live"
      BY <1>1, <2>3 DEF Grown, Absorbed, Live, TypeOK
    <3> QED BY <1>2, <2>3, <3>1
  <2>5. row \in outbox
    <3> SUFFICES ASSUME row \notin outbox PROVE FALSE
      OBVIOUS
    <3>1. PICK f \in Entities, c \in Document :
            \/ Born(f, c) /\ row = [entity |-> f, version |-> 1, revision |-> bound'[f]]
            \/ /\ Grown(f, c) \/ \E x \in Entities : Absorbed(f, x, c)
               /\ row = [entity |-> f, version |-> Len(versions[f]) + 1, revision |-> bound'[f]]
      BY <1>1, NewRow
    <3>2. f = y /\ ~Born(f, c)
      BY <2>4, <3>1 DEF Born, Live
    <3> QED BY <1>2, <2>4, <3>1, <3>2
  <2>6. row.revision = bound[y]
    <3>1. PICK other \in outbox : /\ other.entity = y /\ other.version = Len(versions[y])
                                  /\ other.revision = bound[y]
      BY <1>2, <2>4 DEF VersionsAnnounced
    <3> QED BY <2>4, <2>5, <3>1 DEF VersionsAnnounced
  <2>7. PICK r \in Requests : UpgradeWrite(r) /\ job[r].entity = y
    <3>1. ~(\E r \in Requests, s \in Sources, refs \in SUBSET Refs : CreateInsert(r, y, s, refs))
      BY <2>4 DEF CreateInsert, Live
    <3> QED BY <2>3, <2>4, <2>6, <3>1, BindingChanges
  <2>8. Validated(r, job[r].target) /\ job[r].doc \in Document
    BY <1>1, <2>7 DEF UpgradeWrite, Bound, Targets, TargetOf, TypeOK, Job
  <2>9. /\ bound'[y] = job[r].target /\ versions'[y] = Append(versions[y], job[r].doc)
        /\ UNCHANGED <<revisions, family>>
    BY <1>1, <2>7 DEF UpgradeWrite, TypeOK
  <2>10. versions'[y][next.version] = job[r].doc
    BY <1>1, <2>3, <2>8, <2>9, Appended
  <2> QED BY <2>3, <2>7, <2>8, <2>9, <2>10 DEF Validated
<1> QED BY <1>3, <1>4

\* A version written under another revision than the one before it satisfies
\* the schema of its revision: UpgradeEntityBinding and the batch bind no
\* document they did not validate, whatever runs between load and write.
THEOREM UpgradesTheorem == Spec => []UpgradeValidated
<1>1. Init => Bound /\ UpgradeValidated
  BY DEF Init, Bound, Targets, TargetOf, Bindings, RowsNamed, UpgradeValidated, RowsOf, Live
<1>2. Core /\ VersionsAnnounced /\ Bound /\ UpgradeValidated /\ [Next]_vars
          => (Bound /\ UpgradeValidated)'
  BY TargetsNext, BindingsNext, RowsNext, UpgradesNext DEF Bound
<1> QED BY <1>1, <1>2, CoreAlways, OutboxTheorem, PTL DEF Spec

-----------------------------------------------------------------------------
(***************************************************************************)
(* External keys.  Only four actions touch them or the audit log.          *)
(***************************************************************************)
\* An entity that was merged into another stays away.
MergedGone == \A row \in audit : row.related \in Entities => status[row.related] = "gone"

\* What a step may do to the external keys and to the audit log.
Untied == UNCHANGED <<owner, audit>>
Remaps(e, refs) ==
    /\ \A x \in refs : owner[x] \in {NoEntity, e}
    /\ owner' = Remapped(e, refs) /\ status'[e] # "gone" /\ UNCHANGED audit
Drops(e) == Live(e) /\ owner' = Remapped(e, {}) /\ UNCHANGED audit
Decides(e) ==
    /\ UNCHANGED <<owner, status>>
    /\ audit' = audit \cup {[action |-> "resolve_conflict", entity |-> e,
                             related |-> NoEntity]}
Hands(e, x) ==
    /\ owner' = [k \in Refs |-> IF owner[k] = x THEN e ELSE owner[k]]
    /\ status' = [status EXCEPT ![x] = "gone"]
    /\ audit' = audit \cup {[action |-> "merge_profiles", entity |-> e, related |-> x]}
Tying ==
    \/ Untied
    \/ \E e \in Entities :
          \/ \E refs \in SUBSET Refs : Remaps(e, refs)
          \/ Drops(e)
          \/ Decides(e)
          \/ \E x \in Entities : Hands(e, x)

\* Every step does one of these.
LEMMA StepTies == Core /\ [Next]_vars => Tying
<1> SUFFICES ASSUME Core, [Next]_vars PROVE Tying
  OBVIOUS
<1> USE DEF Core
<1>1. ASSUME NEW r \in Requests, NEW e \in Entities, NEW s \in Sources,
             NEW refs \in SUBSET Refs, CreateInsert(r, e, s, refs)
      PROVE  Tying
  <2>1. Remaps(e, refs)
    BY <1>1 DEF CreateInsert, Remaps, TypeOK
  <2> QED BY <2>1 DEF Tying
<1>2. ASSUME NEW r \in Requests, NEW data \in Data, NEW s \in Sources,
             NEW refs \in SUBSET Refs, UpdateCommit(r, data, s, refs)
      PROVE  Tying
  <2>1. job[r].entity \in Entities /\ Live(job[r].entity)
    BY <1>2 DEF UpdateCommit, JobWellFormed, WellFormed, LoadedIsCurrent, Holding, Holds
  <2>2. Remaps(job[r].entity, refs)
    BY <1>2, <2>1 DEF UpdateCommit, RefsFree, Remaps, Live
  <2> QED BY <2>1, <2>2 DEF Tying
<1>3. ASSUME NEW e \in Entities, Delete(e)
      PROVE  Tying
  <2>1. Drops(e)
    BY <1>3 DEF Delete, Drops
  <2> QED BY <2>1 DEF Tying
<1>4. ASSUME NEW r \in Requests, NEW v \in Values, ResolveWrite(r, v)
      PROVE  Tying
  <2>1. job[r].entity \in Entities
    BY <1>4 DEF ResolveWrite, JobWellFormed, WellFormed, Holding
  <2>2. Decides(job[r].entity)
    BY <1>4 DEF ResolveWrite, Decides
  <2> QED BY <2>1, <2>2 DEF Tying
<1>5. ASSUME NEW r \in Requests, MergeWrite(r)
      PROVE  Tying
  <2>1. job[r].entity \in Entities /\ job[r].other \in Entities
    BY <1>5 DEF MergeWrite, JobWellFormed, WellFormed, Holding
  <2>2. Hands(job[r].entity, job[r].other)
    BY <1>5 DEF MergeWrite, Hands
  <2> QED BY <2>1, <2>2 DEF Tying
<1>6. ASSUME NEW r \in Requests, NEW data \in Data, NEW s \in Sources,
             UpdateBlocked(r, data, s)
      PROVE  Tying
  BY <1>6 DEF UpdateBlocked, Tying, Untied
<1>7. ASSUME NEW r \in Requests,
             \/ UpgradeWrite(r) \/ BatchFail(r) \/ BatchEnd(r) \/ ResolveLock(r)
             \/ MergeLoad(r) \/ Refuse(r)
      PROVE  Tying
  BY <1>7 DEF UpgradeWrite, BatchFail, BatchEnd, ResolveLock, MergeLoad, Refuse, store,
     Tying, Untied
<1>8. ASSUME NEW r \in Requests, NEW e \in Entities, BatchLoad(r, e) \/ BatchSkip(r, e)
      PROVE  Tying
  BY <1>8 DEF BatchLoad, BatchSkip, store, Tying, Untied
<1>9. ASSUME NEW r \in Requests, Begin(r) \/ Rollback(r)
      PROVE  Tying
  BY <1>9 DEF Begin, Rollback, CreateValidate, BatchBehind, BatchGiven, BatchSelect,
     UpdateLoad, UpgradeLoad, ResolveRead, MergeLock, store, Tying, Untied
<1>10. ASSUME NEW f \in Families, NEW schema \in Schemas, Publish(f, schema)
      PROVE  Tying
  BY <1>10 DEF Publish, Tying, Untied
<1>11. CASE UNCHANGED vars
  BY <1>11 DEF vars, Tying, Untied
<1> QED
  BY <1>1, <1>2, <1>3, <1>4, <1>5, <1>6, <1>7, <1>8, <1>9, <1>10, <1>11 DEF Next, Step

\* What is gone stays gone.
LEMMA GoneStays ==
  ASSUME TypeOK, Kind, NEW e \in Entities, status[e] = "gone"
  PROVE  status'[e] = "gone"
BY DEF TypeOK, Kind, Quiet, Retired, Born, Grown, Absorbed, Live

\* So does the mark that an entity was merged.
LEMMA MergedNext == Core /\ MergedGone /\ [Next]_vars => MergedGone'
<1> SUFFICES ASSUME Core, MergedGone, [Next]_vars, NEW row \in audit',
                    row.related \in Entities
             PROVE  status'[row.related] = "gone"
  BY DEF MergedGone
<1>1. Tying /\ Kind /\ TypeOK
  BY StepTies, StepKind DEF Core
<1>2. CASE row \in audit
  BY <1>1, <1>2, GoneStays DEF MergedGone
<1>3. CASE row \notin audit
  <2>1. PICK e \in Entities, x \in Entities :
            /\ row \in {[action |-> "merge_profiles", entity |-> e, related |-> x],
                        [action |-> "resolve_conflict", entity |-> e, related |-> NoEntity]}
            /\ Hands(e, x) \/ row.related = NoEntity
    BY <1>1, <1>3 DEF Tying, Untied, Remaps, Drops, Decides, Hands
  <2> QED BY <1>1, <2>1, EntitiesAssumption DEF Hands, TypeOK
<1> QED BY <1>2, <1>3

\* The owner of an external key, and what became of its former owner.
Follows(x) ==
    owner[x] # NoEntity =>
          LET e == owner[x]
              merge == [action |-> "merge_profiles", entity |-> owner'[x],
                        related |-> e]
          IN  /\ owner'[x] \notin {e, NoEntity} =>
                    status'[e] = "gone" /\ merge \in audit'
              /\ (status'[e] = "gone" /\ owner'[x] = NoEntity) =>
                    \A row \in audit' : row.related # e

\* A key goes on to where its owner was merged, and to nobody else.
LEMMA KeysStep ==
  ASSUME Core, MergedGone, [Next]_vars, NEW x \in Refs
  PROVE  Follows(x)
<1> SUFFICES ASSUME owner[x] # NoEntity PROVE Follows(x)
  BY DEF Follows
<1>1. Tying /\ TypeOK
  BY StepTies DEF Core
<1>2. owner[x] \in Entities
  BY <1>1 DEF TypeOK
<1>3. CASE owner'[x] = owner[x]
  BY <1>3 DEF Follows
<1>4. CASE Untied
  BY <1>3, <1>4 DEF Untied
<1>5. ASSUME NEW e \in Entities, NEW refs \in SUBSET Refs, Remaps(e, refs)
      PROVE  Follows(x)
  <2>1. owner'[x] = owner[x] \/ (owner[x] = e /\ owner'[x] = NoEntity)
    BY <1>5, <1>2 DEF Remaps, Remapped
  <2> QED BY <1>3, <1>5, <2>1 DEF Remaps, Follows
<1>6. ASSUME NEW e \in Entities, Drops(e)
      PROVE  Follows(x)
  <2>1. owner'[x] = owner[x] \/ (owner[x] = e /\ owner'[x] = NoEntity)
    BY <1>6 DEF Drops, Remapped
  <2>2. \A row \in audit' : row.related # e
    BY <1>6 DEF Drops, MergedGone, Live
  <2> QED BY <1>3, <2>1, <2>2 DEF Follows
<1>7. ASSUME NEW e \in Entities, Decides(e)
      PROVE  Follows(x)
  BY <1>3, <1>7 DEF Decides
<1>8. ASSUME NEW e \in Entities, NEW y \in Entities, Hands(e, y)
      PROVE  Follows(x)
  <2>1. owner'[x] = owner[x] \/ (owner[x] = y /\ owner'[x] = e)
    BY <1>8 DEF Hands
  <2>2. status'[y] = "gone" /\ e # NoEntity
        /\ [action |-> "merge_profiles", entity |-> e, related |-> y] \in audit'
    BY <1>1, <1>8, EntitiesAssumption DEF Hands, TypeOK
  <2> QED BY <1>3, <2>1, <2>2 DEF Follows
<1> QED BY <1>1, <1>4, <1>5, <1>6, <1>7, <1>8 DEF Tying

\* An external key changes hands only when its owner is merged into the new
\* one, in the transaction that writes the audit row; a merged profile leaves
\* no key behind (syncExternalRefs, MergeEntityProfiles).
THEOREM KeysTheorem == Spec => KeysFollowMerge
<1> DEFINE A == \A x \in Refs : Follows(x)
<1>1. Init => MergedGone
  BY DEF Init, MergedGone
<1>2. Core /\ MergedGone /\ [Next]_vars => A
  BY KeysStep
<1> HIDE DEF A
<1>3. Core /\ MergedGone /\ [Next]_vars => [A]_vars
  BY <1>2
<1>4. Spec => [][A]_vars
  BY <1>1, <1>3, MergedNext, CoreAlways, PTL DEF Spec
<1> QED BY <1>4 DEF A, Follows, KeysFollowMerge

-----------------------------------------------------------------------------
(***************************************************************************)
(* Deadlock.  A request waits for a row lock either holding none, or as a  *)
(* merge that holds the first of its two rows and waits for the second,    *)
(* greater one: along a circle of waiting merges the rows would grow.      *)
(***************************************************************************)
\* The row locks a request holds are those its statement needs.
LocksOf(r) ==
    \A e \in Entities : lock[e] = r =>
        \/ pc[r] \in Holding /\ e = job[r].entity
        \/ pc[r] = "merge" /\ e = job[r].other
        \/ pc[r] = "merge_lock" /\ e = First(r)
LocksHeld == \A r \in Requests : LocksOf(r)

\* What a step of r does to the row locks.
Takes(r, e) ==
    /\ Lock(r, e) /\ pc[r] \in {"idle", "batch", "resolve_lock"}
    /\ \/ pc'[r] \in Holding /\ e = job'[r].entity
       \/ pc'[r] = "merge_lock" /\ e = First(r)'
TakesSecond(r) ==
    /\ pc[r] = "merge_lock" /\ Lock(r, Second(r))
    /\ pc'[r] = "merge" /\ job'[r].entity = job[r].entity /\ job'[r].other = job[r].other
Locking(r) ==
    \/ lock' = Unlocked(r)
    \/ UNCHANGED lock /\ pc[r] \in {"idle", "batch"}
    \/ \E e \in Entities : Takes(r, e)
    \/ TakesSecond(r)

\* Every step of a request ends it, or takes no lock, or takes one that its
\* next statement needs.
LEMMA StepLocks ==
  ASSUME Core, NEW r \in Requests, Begin(r) \/ Step(r) \/ Rollback(r)
  PROVE  Locking(r)
<1> USE DEF Core
<1>1. ASSUME Finish(r)
      PROVE  Locking(r)
  BY <1>1 DEF Locking, Finish
<1>2. ASSUME NEW f \in Families, NEW data \in Data, CreateValidate(r, f, data)
      PROVE  Locking(r)
  BY <1>2 DEF Locking, CreateValidate
<1>3. ASSUME NEW e \in Entities, NEW s \in Sources, NEW refs \in SUBSET Refs,
             CreateInsert(r, e, s, refs)
      PROVE  Locking(r)
  BY <1>3, <1>1 DEF CreateInsert
<1>4. ASSUME NEW e \in Entities, UpdateLoad(r, e)
      PROVE  Locking(r)
  <2>1. Takes(r, e)
    BY <1>4 DEF TypeOK, Job, At, UpdateLoad, NoJob, Takes, Holding
  <2> QED BY <2>1 DEF Locking
<1>5. ASSUME NEW data \in Data, NEW s \in Sources, NEW refs \in SUBSET Refs,
             UpdateBlocked(r, data, s) \/ UpdateCommit(r, data, s, refs)
      PROVE  Locking(r)
  BY <1>5, <1>1 DEF UpdateBlocked, UpdateCommit
<1>6. ASSUME NEW e \in Entities, NEW k \in 1..MaxRevisions, UpgradeLoad(r, e, k)
      PROVE  Locking(r)
  <2>1. Takes(r, e)
    BY <1>6 DEF TypeOK, Job, At, UpgradeLoad, NoJob, Takes, Holding
  <2> QED BY <2>1 DEF Locking
<1>7. ASSUME UpgradeWrite(r) \/ BatchFail(r)
      PROVE  Locking(r)
  BY <1>7 DEF Locking, UpgradeWrite, BatchFail
<1>8. ASSUME NEW f \in Families, NEW k \in 1..MaxRevisions, NEW S \in SUBSET Entities,
             BatchGiven(r, f, k, S) \/ BatchBehind(r, f, k)
      PROVE  Locking(r)
  BY <1>8 DEF Locking, BatchGiven, BatchBehind, BatchSelect
<1>9. ASSUME NEW e \in Entities, BatchLoad(r, e)
      PROVE  Locking(r)
  <2>1. Takes(r, e)
    BY <1>9 DEF TypeOK, Job, At, BatchLoad, Takes, Holding
  <2> QED BY <2>1 DEF Locking
<1>10. ASSUME NEW e \in Entities, BatchSkip(r, e)
      PROVE  Locking(r)
  BY <1>10 DEF Locking, BatchSkip
<1>11. ASSUME BatchEnd(r) \/ Refuse(r) \/ Rollback(r) \/ MergeWrite(r)
      PROVE  Locking(r)
  BY <1>11, <1>1 DEF BatchEnd, Refuse, Rollback, MergeWrite
<1>12. ASSUME NEW e \in Entities, NEW p \in Paths, NEW i \in 1..MaxConflicts,
              ResolveRead(r, e, p, i)
      PROVE  Locking(r)
  BY <1>12 DEF Locking, ResolveRead
<1>13. ASSUME ResolveLock(r)
      PROVE  Locking(r)
  <2>1. job[r].entity \in Entities
    BY <1>13 DEF ResolveLock, JobWellFormed, WellFormed
  <2>2. Takes(r, job[r].entity)
    BY <1>13, <2>1 DEF TypeOK, Job, At, ResolveLock, Takes, Holding
  <2> QED BY <2>1, <2>2 DEF Locking
<1>14. ASSUME NEW v \in Values, ResolveWrite(r, v)
      PROVE  Locking(r)
  BY <1>14, <1>1 DEF ResolveWrite
<1>15. ASSUME NEW e \in Entities, NEW x \in Entities, MergeLock(r, e, x)
      PROVE  Locking(r)
  <2>1. LockOrder(e, x)[1] \in Entities
    BY DEF LockOrder
  <2>2. /\ pc'[r] = "merge_lock" /\ job'[r].entity = e /\ job'[r].other = x
        /\ Lock(r, LockOrder(e, x)[1]) /\ pc[r] = "idle"
    BY <1>15 DEF TypeOK, Job, At, MergeLock, NoJob
  <2>3. First(r)' = LockOrder(e, x)[1]
    BY <2>2 DEF First
  <2>4. Takes(r, LockOrder(e, x)[1])
    BY <2>2, <2>3 DEF Takes
  <2> QED BY <2>1, <2>4 DEF Locking
<1>16. ASSUME MergeLoad(r)
      PROVE  Locking(r)
  <2>1. TakesSecond(r)
    BY <1>16 DEF TypeOK, Job, At, MergeLoad, TakesSecond
  <2> QED BY <2>1 DEF Locking
<1> QED
  BY <1>2, <1>3, <1>4, <1>5, <1>6, <1>7, <1>8, <1>9, <1>10, <1>11, <1>12, <1>13,
     <1>14, <1>15, <1>16 DEF Begin, Step

\* No request holds a lock it does not need.
LEMMA LocksNext == Core /\ LocksHeld /\ [Next]_vars => LocksHeld'
<1> SUFFICES ASSUME Core, LocksHeld, [Next]_vars, NEW q \in Requests
             PROVE  LocksOf(q)'
  BY DEF LocksHeld
<1>0. q # NoRequest /\ LocksOf(q) /\ TypeOK
  BY RequestsAssumption DEF LocksHeld, Core
<1>1. ASSUME Kept(q), \A e \in Entities : lock'[e] = q => lock[e] = q
      PROVE  LocksOf(q)'
  <2>1. pc'[q] = pc[q] /\ job'[q] = job[q] /\ First(q)' = First(q)
    BY <1>1 DEF Kept, First
  <2> QED BY <1>0, <1>1, <2>1 DEF LocksOf
<1>2. ASSUME NEW r \in Requests, Begin(r) \/ Step(r) \/ Rollback(r)
      PROVE  LocksOf(q)'
  <2>1. Locking(r)
    BY <1>2, StepLocks DEF Core
  <2>2. CASE q # r
    <3>1. Second(r) \in Entities \/ ~TakesSecond(r)
      BY DEF Core, JobWellFormed, WellFormed, TakesSecond, Second, LockOrder
    <3>2. \A e \in Entities : lock'[e] = q => lock[e] = q
      BY <1>0, <2>1, <2>2, <3>1 DEF Locking, Takes, TakesSecond, Lock, Unlocked, TypeOK
    <3> QED BY <1>1, <1>2, <2>2, <3>2, StepKeeps
  <2>3. CASE q = r
    <3>1. CASE lock' = Unlocked(q)
      BY <1>0, <3>1 DEF Unlocked, LocksOf, TypeOK
    <3>2. CASE UNCHANGED lock /\ pc[q] \in {"idle", "batch"}
      BY <1>0, <3>2 DEF LocksOf, Holding
    <3>3. ASSUME NEW e \in Entities, Takes(q, e)
          PROVE  LocksOf(q)'
      <4>1. \A x \in Entities : lock'[x] = q => x = e
        BY <1>0, <3>3 DEF LocksOf, Takes, Lock, TypeOK, Holding
      <4> QED BY <3>3, <4>1 DEF LocksOf, Takes
    <3>4. CASE TakesSecond(q)
      <4>1. \A x \in Entities : lock'[x] = q => x \in {First(q), Second(q)}
        BY <1>0, <3>4 DEF LocksOf, TakesSecond, Lock, TypeOK, Holding
      <4>2. {First(q), Second(q)} = {job'[q].entity, job'[q].other}
        BY <3>4 DEF First, Second, LockOrder, TakesSecond
      <4> QED BY <3>4, <4>1, <4>2 DEF LocksOf, TakesSecond, Holding
    <3> QED BY <2>1, <2>3, <3>1, <3>2, <3>3, <3>4 DEF Locking
  <2> QED BY <2>2, <2>3
<1>3. CASE ~ \E r \in Requests : Begin(r) \/ Step(r) \/ Rollback(r)
  <2>1. Kept(q)
    BY <1>0, <1>3, NobodyActs DEF Next
  <2>2. lock' = lock
    BY <1>3 DEF Next, Delete, Publish, vars
  <2> QED BY <1>1, <2>1, <2>2
<1> QED BY <1>2, <1>3

\* A nonempty finite set of numbers has a greatest one.
LEMMA Greatest ==
  ASSUME NEW T \in SUBSET Nat, IsFiniteSet(T), T # {}
  PROVE  \E n \in T : \A m \in T : m <= n
<1> DEFINE Above(n) == {m \in T : m > n}
           U == {Above(n) : n \in T}
           R == StrictSubsetOrdering(T)
<1>1. IsWellFoundedOn(R, SUBSET T)
  BY FS_StrictSubsetOrderingWellFounded, FS_FiniteSubsetsOfFinite
<1>2. U \subseteq SUBSET T /\ U # {}
  OBVIOUS
<1> HIDE DEF R, U
<1>3. \E x \in U : \A y \in U : ~(<<y, x>> \in R)
  BY <1>1, <1>2, WFMin
<1>4. PICK n \in T : \A m \in T : ~(<<Above(m), Above(n)>> \in R)
  BY <1>3 DEF U
<1>5. ASSUME NEW m \in T, ~(m <= n)
      PROVE  FALSE
  <2>0. n \in Nat /\ m \in Nat /\ m > n /\ \A k \in T : k \in Nat
    BY <1>5
  <2>1. m \in Above(n) /\ m \notin Above(m) /\ Above(m) \subseteq Above(n)
    <3>1. m \in Above(n) /\ m \notin Above(m)
      BY <1>5, <2>0
    <3>2. ASSUME NEW k \in Above(m)
          PROVE  k \in Above(n)
      <4>1. k \in T /\ k > m /\ k \in Nat
        BY <2>0, <3>2
      <4> QED BY <2>0, <4>1
    <3> QED BY <3>1, <3>2
  <2>2. Above(m) \in SUBSET T /\ Above(n) \in SUBSET T /\ Above(m) # Above(n)
    BY <2>1
  <2> HIDE DEF Above
  <2>3. <<Above(m), Above(n)>> \in R
    BY <2>1, <2>2 DEF R, StrictSubsetOrdering
  <2> QED BY <1>4, <2>3
<1> QED BY <1>5

\* Lock order: among finitely many requests that wait only for each other there
\* is a merge that waits for the greatest row.
LEMMA NoCircle ==
  ASSUME Core, LocksHeld, IsFiniteSet(Requests)
  PROVE  NoDeadlock
<1> SUFFICES ASSUME NEW S \in SUBSET Requests, S # {}, \A r \in S : Waiting(r, S)
             PROVE  FALSE
  BY DEF NoDeadlock
<1> DEFINE M == {r \in S : pc[r] = "merge_lock"}
           T == {First(r) : r \in M}
<1>1. ASSUME NEW r \in M
      PROVE  /\ First(r) \in Entities /\ Second(r) \in Entities
             /\ First(r) < Second(r)
  <2>1. /\ job[r].entity \in Entities /\ job[r].other \in Entities
        /\ job[r].entity # job[r].other
    BY <1>1 DEF Core, JobWellFormed, WellFormed
  <2>2. job[r].entity \in Nat /\ job[r].other \in Nat
    BY <2>1, EntitiesAssumption
  <2> QED BY <2>1, <2>2 DEF First, Second, LockOrder
<1>2. ASSUME NEW e \in Entities, lock[e] \in S
      PROVE  lock[e] \in M /\ e = First(lock[e])
  BY <1>2 DEF LocksHeld, LocksOf, Waiting, Holding
<1>3. ASSUME NEW r \in S
      PROVE  \E e \in Entities : lock[e] \in S
  <2>1. CASE pc[r] = "resolve_lock"
    BY <1>3, <2>1 DEF Core, JobWellFormed, WellFormed, Waiting
  <2>2. CASE pc[r] = "merge_lock"
    BY <1>1, <1>3, <2>2 DEF Waiting
  <2> QED BY <1>3, <2>1, <2>2 DEF Waiting
<1>4. M # {} /\ M \subseteq Requests
  BY <1>2, <1>3
<1>5. IsFiniteSet(T)
  <2> DEFINE f == [r \in M |-> First(r)]
  <2>1. IsFiniteSet(M)
    BY <1>4, FS_Subset
  <2>2. f \in Surjection(M, T)
    BY DEF Surjection
  <2> QED BY <2>1, <2>2, FS_Surjection
<1>6. T \subseteq Nat /\ T # {}
  BY <1>1, <1>4, EntitiesAssumption
<1> HIDE DEF T
<1>7. PICK n \in T : \A m \in T : m <= n
  BY <1>5, <1>6, Greatest
<1>8. PICK r \in M : n = First(r)
  BY <1>7 DEF T
<1>9. lock[Second(r)] \in S
  BY <1>8 DEF Waiting
<1>10. Second(r) \in T
  BY <1>1, <1>2, <1>8, <1>9 DEF T
<1> QED
  <2>1. First(r) \in Nat /\ Second(r) \in Nat /\ First(r) < Second(r)
    BY <1>1, <1>8, EntitiesAssumption
  <2> QED BY <1>7, <1>8, <1>10, <2>1

\* Requests never wait for row locks in a circle: MergeEntityProfiles locks by
\* ORDER BY entity_id, everything else locks one row.
THEOREM DeadlockFree == ASSUME IsFiniteSet(Requests) PROVE Spec => []NoDeadlock
<1>1. Init => LocksHeld
  BY RequestsAssumption DEF Init, LocksHeld, LocksOf
<1>2. Core /\ LocksHeld => NoDeadlock
  BY NoCircle
<1> QED BY <1>1, <1>2, LocksNext, CoreAlways, PTL DEF Spec
=============================================================================
