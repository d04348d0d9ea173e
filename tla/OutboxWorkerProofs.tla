-------------------------- MODULE OutboxWorkerProofs --------------------------
(***************************************************************************)
(* Theorems about OutboxWorker, for any number of workers, profiles and     *)
(* attempts, any size of a batch and any timeout.                           *)
(***************************************************************************)
EXTENDS OutboxWorker, FiniteSetTheorems, WellFoundedInduction, TLAPS

USE LimitsAssumption, WorkerBoundsAssumption

-----------------------------------------------------------------------------
\* Every nonempty set of natural numbers has a least one.  The numbers below
\* each are a finite set, and strict inclusion of finite sets is well-founded.
LEMMA LeastNatural ==
  ASSUME NEW S \in SUBSET Nat, S # {}
  PROVE  \E n \in S : \A m \in S : ~(m < n)
  <1> DEFINE Below(n) == 0 .. n - 1
             T == {Below(n) : n \in S}
             R == StrictSubsetOrdering(Nat)
  <1>1. \A n \in Nat : IsFiniteSet(Below(n)) /\ Below(n) \in SUBSET Nat
    BY FS_Interval
  <1>2. T \subseteq FiniteSubsetsOf(Nat) /\ T # {}
    BY <1>1 DEF FiniteSubsetsOf
  <1>3. IsWellFoundedOn(R, FiniteSubsetsOf(Nat))
    BY FS_StrictSubsetOrderingWellFounded
  <1> HIDE DEF T, R
  <1>4. PICK x \in T : \A y \in T : <<y, x>> \notin R
    BY <1>2, <1>3, WFMin
  <1>5. PICK n \in S : x = Below(n)
    BY <1>4 DEF T
  <1>6. ASSUME NEW m \in S, m < n PROVE FALSE
    <2>1. Below(m) \in T
      BY DEF T
    <2>2. Below(m) \subseteq Below(n) /\ Below(m) # Below(n)
      <3>1. m \in Below(n) /\ m \notin Below(m)
        BY <1>6
      <3> QED
        BY <3>1, <1>6
    <2>3. <<Below(m), Below(n)>> \in R
      BY <2>2, <1>1 DEF R, StrictSubsetOrdering
    <2> QED
      BY <1>4, <1>5, <2>1, <2>3
  <1> QED
    BY <1>6

\* So a batch that still has rows to publish takes the oldest of them.
LEMMA NextOfTodo ==
  ASSUME TypeOK, NEW w \in Workers, Todo(w) # {}
  PROVE  NextOf(w) \in Todo(w)
  <1> DEFINE S == {rows[x].created : x \in Todo(w)}
  <1>1. Todo(w) \subseteq Event
    BY DEF TypeOK, Todo
  <1>2. S \in SUBSET Nat /\ S # {}
    BY <1>1 DEF TypeOK, Row
  <1> HIDE DEF S
  <1>3. PICK n \in S : \A m \in S : ~(m < n)
    BY <1>2, LeastNatural
  <1>4. PICK x \in Todo(w) : rows[x].created = n
    BY <1>3 DEF S
  <1>5. \A y \in Todo(w) : ~Older(y, x)
    BY <1>3, <1>4 DEF S, Older
  <1> QED
    BY <1>4, <1>5 DEF NextOf

-----------------------------------------------------------------------------
\* The inductive invariant: an event that is pending can be tried again, and
\* a batch says "ok" only of what the broker has.
Counted == \A x \in Event : Pending(x) => rows[x].attempts < MaxAttempts
NotedWasSent == \A w \in Workers : \A x \in Event : result[w][x] = "ok" => x \in sent
Inv == TypeOK /\ Counted /\ BatchIsCurrent /\ NotedWasSent /\ PublishedWasSent

\* The invariant holds of an empty outbox.
LEMMA InitInv == Init => Inv
  <1> SUFFICES ASSUME Init PROVE Inv
    OBVIOUS
  <1>1. TypeOK
    BY DEF Init, TypeOK, NoRow, Row, NoResult
  <1>2. Counted /\ BatchIsCurrent /\ NotedWasSent /\ PublishedWasSent
    BY DEF Init, Counted, BatchIsCurrent, NotedWasSent, PublishedWasSent, Pending, NoRow, NoResult
  <1> QED
    BY <1>1, <1>2 DEF Inv

\* What becomes of a row whose event was tried.
LEMMA TriedRow ==
  ASSUME NEW row \in Row, row.status = "pending", row.attempts < MaxAttempts
  PROVE  /\ AfterOk(row) \in Row /\ AfterOk(row).status = "published"
         /\ AfterError(row) \in Row /\ AfterError(row).status \in {"pending", "failed"}
         /\ AfterError(row).status = "pending" => AfterError(row).attempts < MaxAttempts
  <1>1. /\ row.attempts \in 0..MaxAttempts /\ row.attempts + 1 \in 0..MaxAttempts
        /\ row.waiting \in BOOLEAN /\ row.created \in 0..MaxTransactions
    BY DEF Row
  <1>2. AfterOk(row) = [status |-> "published", attempts |-> 0,
                        waiting |-> row.waiting, created |-> row.created]
    <2>1. row = [status |-> row.status, attempts |-> row.attempts,
                 waiting |-> row.waiting, created |-> row.created]
      BY DEF Row
    <2>2. [row EXCEPT !.attempts = 0] =
             [status |-> row.status, attempts |-> 0,
              waiting |-> row.waiting, created |-> row.created]
      BY <2>1
    <2>3. AfterOk(row) = [[row EXCEPT !.attempts = 0] EXCEPT !.status = "published"]
      BY DEF AfterOk
    <2> QED
      BY <2>2, <2>3
  <1>3. CASE row.attempts + 1 >= MaxAttempts
    <2>1. AfterError(row) = [status |-> "failed", attempts |-> row.attempts + 1,
                             waiting |-> row.waiting, created |-> row.created]
      BY <1>3 DEF AfterError, Row
    <2> QED
      BY <1>1, <1>2, <2>1 DEF Row
  <1>4. CASE ~(row.attempts + 1 >= MaxAttempts)
    <2>1. AfterError(row) = [status |-> "pending", attempts |-> row.attempts + 1,
                             waiting |-> TRUE, created |-> row.created]
      BY <1>4 DEF AfterError, Row
    <2>2. row.attempts + 1 < MaxAttempts
      BY <1>1, <1>4
    <2> QED
      BY <1>1, <1>2, <2>1, <2>2 DEF Row
  <1> QED
    BY <1>3, <1>4

\* A commit changes only the rows of its own batch.
LEMMA CommitRows ==
  ASSUME Inv, NEW w \in Workers, Commit(w), NEW x \in Event
  PROVE  /\ rows'[x] \in Row
         /\ rows'[x] # rows[x] => x \in held[w]
         /\ rows'[x].status = "pending" => rows'[x].attempts < MaxAttempts
         /\ rows'[x].status = "published" => x \in sent
  <1>t. TypeOK /\ Counted /\ NotedWasSent /\ PublishedWasSent /\ rows[x] \in Row
    BY DEF Inv, TypeOK
  <1>1. rows'[x] = IF x \notin held[w] \/ ~Pending(x) THEN rows[x]
                   ELSE IF result[w][x] = "ok" THEN AfterOk(rows[x])
                   ELSE AfterError(rows[x])
    BY DEF Commit
  <1>2. CASE x \notin held[w] \/ ~Pending(x)
    BY <1>1, <1>2, <1>t DEF Counted, PublishedWasSent, Pending
  <1>3. CASE x \in held[w] /\ Pending(x)
    <2>1. rows[x].status = "pending" /\ rows[x].attempts < MaxAttempts
      BY <1>3, <1>t DEF Counted, Pending
    <2> QED
      BY <1>1, <1>3, <1>t, <2>1, TriedRow DEF NotedWasSent
  <1> QED
    BY <1>2, <1>3

\* What a batch notes concerns the one event it has tried.
LEMMA NoteType ==
  ASSUME TypeOK, NEW w \in Workers, NextOf(w) \in Event,
         NEW outcome \in {"ok", "error"}, Note(w, outcome)
  PROVE  /\ result' \in [Workers -> [Event -> {"none", "ok", "error"}]]
         /\ \A u \in Workers : \A x \in Event :
              result'[u][x] = IF u = w /\ x = NextOf(w) THEN outcome ELSE result[u][x]
  <1> DEFINE mine == [result[w] EXCEPT ![NextOf(w)] = outcome]
  <1>1. mine \in [Event -> {"none", "ok", "error"}]
    BY DEF TypeOK
  <1>2. result' = [result EXCEPT ![w] = mine]
    BY DEF TypeOK, Note
  <1>3. \A x \in Event : mine[x] = IF x = NextOf(w) THEN outcome ELSE result[w][x]
    BY DEF TypeOK
  <1> HIDE DEF mine
  <1> QED
    BY <1>1, <1>2, <1>3 DEF TypeOK

\* Every step keeps the types.
LEMMA TypeStep == Inv /\ [Next]_vars => TypeOK'
  <1> SUFFICES ASSUME Inv, [Next]_vars PROVE TypeOK'
    OBVIOUS
  <1>t. TypeOK
    BY DEF Inv
  <1> USE <1>t DEF TypeOK
  <1>1. CASE BeginWrite
    BY <1>1 DEF BeginWrite, Row
  <1>2. ASSUME NEW e \in Entities, NEW t \in 1..MaxTransactions, CommitWrite(e, t)
        PROVE  TypeOK'
    <2>1. [status |-> "pending", attempts |-> 0, waiting |-> FALSE, created |-> t] \in Row
      BY DEF Row
    <2>2. rows' \in [Event -> Row]
      BY <1>2, <2>1 DEF CommitWrite
    <2> QED
      BY <1>2, <2>2 DEF CommitWrite
  <1>3. ASSUME NEW e \in Entities, DeleteEntity(e) PROVE TypeOK'
    BY <1>3 DEF DeleteEntity, NoRow, Row
  <1>4. ASSUME NEW w \in Workers, Select(w) PROVE TypeOK'
    BY <1>4 DEF Select, Oldest, Eligible
  <1>5. ASSUME NEW w \in Workers, PublishOk(w) PROVE TypeOK'
    <2>1. NextOf(w) \in Event
      BY <1>5, NextOfTodo DEF PublishOk, Todo
    <2>2. result' \in [Workers -> [Event -> {"none", "ok", "error"}]]
      BY <1>5, <2>1, NoteType DEF PublishOk
    <2> QED
      BY <1>5, <2>1, <2>2 DEF PublishOk
  <1>6. ASSUME NEW w \in Workers, NEW timedOut \in BOOLEAN, NEW taken \in BOOLEAN,
               PublishError(w, timedOut, taken)
        PROVE  TypeOK'
    <2>1. NextOf(w) \in Event
      BY <1>6, NextOfTodo DEF PublishError, Todo
    <2>2. slow' \in [Workers -> 0..SlowBudget]
      <3>1. slow[w] + 1 \in 0..SlowBudget
        <4>1. slow[w] \in 0..SlowBudget
          OBVIOUS
        <4>2. slow[w] # SlowBudget
          BY <1>6 DEF PublishError, Expired
        <4> HIDE <1>t
        <4> QED
          BY <4>1, <4>2
      <3>2. slow' = [slow EXCEPT ![w] = slow[w] + 1] \/ slow' = slow
        BY <1>6 DEF PublishError
      <3> QED
        BY <3>1, <3>2
    <2>3. result' \in [Workers -> [Event -> {"none", "ok", "error"}]]
      BY <1>6, <2>1, NoteType DEF PublishError
    <2>4. sent' \subseteq Event
      BY <1>6, <2>1 DEF PublishError
    <2> QED
      BY <1>6, <2>2, <2>3, <2>4 DEF PublishError
  <1>7. ASSUME NEW w \in Workers, Commit(w) PROVE TypeOK'
    <2>1. \A x \in Event : rows'[x] \in Row
      BY <1>7, CommitRows
    <2>2. rows' \in [Event -> Row]
      BY <1>7, <2>1 DEF Commit
    <2> QED
      BY <1>7, <2>2 DEF Commit, Close, NoResult
  <1>8. ASSUME NEW w \in Workers, Expire(w) \/ Abort(w) PROVE TypeOK'
    <2>1. NoResult \in [Event -> {"none", "ok", "error"}]
      BY DEF NoResult
    <2>2. Close(w) /\ UNCHANGED <<rows, gone, clock, begun, sent>>
      BY <1>8 DEF Expire, Abort
    <2>3. aborts' \in 0..MaxAborts
      BY <1>8 DEF Expire, Abort
    <2>4. slow' \in [Workers -> 0..SlowBudget]
      BY <2>2 DEF Close
    <2> QED
      BY <2>1, <2>2, <2>3, <2>4 DEF Close
  <1>9. ASSUME NEW x \in Event, Elapse(x) PROVE TypeOK'
    BY <1>9 DEF Elapse, Row
  <1>10. CASE UNCHANGED vars
    BY <1>10 DEF vars
  <1> QED
    BY <1>1, <1>2, <1>3, <1>4, <1>5, <1>6, <1>7, <1>8, <1>9, <1>10 DEF Next, Batch

-----------------------------------------------------------------------------
\* No step puts a row into the table, or back into it, whose event has no
\* attempt left.
LEMMA CountedStep == Inv /\ [Next]_vars => Counted'
  <1> SUFFICES ASSUME Inv, [Next]_vars, NEW x \in Event PROVE Pending(x)' => rows'[x].attempts < MaxAttempts
    BY DEF Counted
  <1>t. TypeOK /\ Counted /\ rows[x] \in Row
    BY DEF Inv, TypeOK
  <1>1. CASE UNCHANGED rows
    BY <1>1, <1>t DEF Counted, Pending
  <1>2. ASSUME NEW e \in Entities, NEW t \in 1..MaxTransactions, CommitWrite(e, t)
        PROVE  Pending(x)' => rows'[x].attempts < MaxAttempts
    BY <1>2, <1>t DEF CommitWrite, Counted, Pending, TypeOK
  <1>3. ASSUME NEW e \in Entities, DeleteEntity(e)
        PROVE  Pending(x)' => rows'[x].attempts < MaxAttempts
    BY <1>3, <1>t DEF DeleteEntity, Counted, Pending, NoRow
  <1>4. ASSUME NEW w \in Workers, Commit(w)
        PROVE  Pending(x)' => rows'[x].attempts < MaxAttempts
    BY <1>4, CommitRows DEF Pending
  <1>5. ASSUME NEW y \in Event, Elapse(y)
        PROVE  Pending(x)' => rows'[x].attempts < MaxAttempts
    BY <1>5, <1>t DEF Elapse, Counted, Pending, TypeOK, Row
  <1> QED
    BY <1>1, <1>2, <1>3, <1>4, <1>5
    DEF Next, Batch, vars, BeginWrite, Select, PublishOk, PublishError, Expire, Abort

\* A row a batch has locked is changed by nobody but its COMMIT, which then
\* lets go of it; and it selects none that another batch has locked.
LEMMA BatchStep == Inv /\ [Next]_vars => BatchIsCurrent'
  <1> SUFFICES ASSUME Inv, [Next]_vars, NEW u \in Workers, NEW x \in held'[u]
               PROVE  /\ Pending(x)' /\ ~rows'[x].waiting
                      /\ \A v \in Workers \ {u} : x \notin held'[v]
    BY DEF BatchIsCurrent
  <1> DEFINE Goal == /\ Pending(x)' /\ ~rows'[x].waiting
                     /\ \A v \in Workers \ {u} : x \notin held'[v]
  <1>t. TypeOK /\ BatchIsCurrent /\ TypeOK'
    BY TypeStep DEF Inv
  <1>e. x \in Event
    BY <1>t DEF TypeOK
  <1>c. ASSUME \A v \in Workers : held'[v] \subseteq held[v], rows'[x] = rows[x]
        PROVE  Goal
    BY <1>c, <1>t DEF BatchIsCurrent, Pending
  <1>1. CASE UNCHANGED <<rows, held>>
    BY <1>1, <1>c
  <1>2. ASSUME NEW e \in Entities, NEW t \in 1..MaxTransactions, CommitWrite(e, t)
        PROVE  Goal
    <2>1. UNCHANGED held
      BY <1>2 DEF CommitWrite
    <2>2. \/ rows'[x] = rows[x]
          \/ rows'[x] = [status |-> "pending", attempts |-> 0, waiting |-> FALSE, created |-> t]
      BY <1>2, <1>t, <1>e DEF CommitWrite, TypeOK
    <2>3. CASE rows'[x] = rows[x]
      BY <2>1, <2>3, <1>c
    <2>4. CASE rows'[x] = [status |-> "pending", attempts |-> 0, waiting |-> FALSE, created |-> t]
      BY <2>1, <2>4, <1>t DEF BatchIsCurrent, Pending
    <2> QED
      BY <2>2, <2>3, <2>4
  <1>3. ASSUME NEW e \in Entities, DeleteEntity(e) PROVE Goal
    <2>1. UNCHANGED held
      BY <1>3 DEF DeleteEntity
    <2>2. x[1] # e
      <3>1. x = <<x[1], x[2]>> /\ x[2] \in 1..MaxVersions
        BY <1>e DEF Event
      <3> QED
        BY <1>3, <2>1, <3>1 DEF DeleteEntity, Locked
    <2>3. rows'[x] = rows[x]
      BY <1>3, <1>e, <2>2 DEF DeleteEntity
    <2> QED
      BY <2>1, <2>3, <1>c
  <1>4. ASSUME NEW w \in Workers, Select(w) PROVE Goal
    <2>1. UNCHANGED rows /\ held' = [held EXCEPT ![w] = Oldest(Eligible)]
      BY <1>4 DEF Select
    <2>2. \A y \in Oldest(Eligible) :
             /\ Pending(y) /\ ~rows[y].waiting
             /\ \A v \in Workers : y \notin held[v]
      BY DEF Oldest, Eligible, Locked
    <2>3. CASE u = w
      BY <2>1, <2>2, <2>3, <1>t DEF TypeOK, Pending
    <2>4. CASE u # w
      <3>1. x \in held[u]
        BY <2>1, <2>4, <1>t DEF TypeOK
      <3>2. x \notin Oldest(Eligible)
        BY <2>2, <3>1
      <3> QED
        BY <2>1, <2>4, <3>1, <3>2, <1>t DEF TypeOK, BatchIsCurrent, Pending
    <2> QED
      BY <2>3, <2>4
  <1>5. ASSUME NEW w \in Workers, Commit(w) PROVE Goal
    <2>1. held' = [held EXCEPT ![w] = {}]
      BY <1>5 DEF Commit, Close
    <2>2. u # w /\ x \in held[u] /\ \A v \in Workers : held'[v] \subseteq held[v]
      BY <2>1, <1>t DEF TypeOK
    <2>3. x \notin held[w]
      BY <2>2, <1>t DEF BatchIsCurrent
    <2>4. rows'[x] = rows[x]
      BY <1>5, <1>e, <2>3, CommitRows
    <2> QED
      BY <2>2, <2>4, <1>c
  <1>6. ASSUME NEW w \in Workers, Expire(w) \/ Abort(w) PROVE Goal
    <2>1. UNCHANGED rows /\ held' = [held EXCEPT ![w] = {}]
      BY <1>6 DEF Expire, Abort, Close
    <2>2. \A v \in Workers : held'[v] \subseteq held[v]
      BY <2>1, <1>t DEF TypeOK
    <2> QED
      BY <2>1, <2>2, <1>c
  <1>7. ASSUME NEW y \in Event, Elapse(y) PROVE Goal
    <2>1. UNCHANGED held /\ rows[y].waiting /\ rows' = [rows EXCEPT ![y].waiting = FALSE]
      BY <1>7 DEF Elapse
    <2>2. x # y
      BY <2>1, <1>t DEF BatchIsCurrent
    <2>3. rows'[x] = rows[x]
      BY <2>1, <2>2, <1>e, <1>t DEF TypeOK
    <2> QED
      BY <2>1, <2>3, <1>c
  <1> QED
    BY <1>1, <1>2, <1>3, <1>4, <1>5, <1>6, <1>7
    DEF Next, Batch, vars, BeginWrite, PublishOk, PublishError

\* A batch notes "ok" in the step in which the broker takes the event, and
\* the broker forgets none.
LEMMA NotedStep == Inv /\ [Next]_vars => NotedWasSent'
  <1> SUFFICES ASSUME Inv, [Next]_vars, NEW u \in Workers, NEW x \in Event,
                      result'[u][x] = "ok"
               PROVE  x \in sent'
    BY DEF NotedWasSent
  <1>t. TypeOK /\ NotedWasSent
    BY DEF Inv
  <1>1. CASE UNCHANGED <<result, sent>>
    BY <1>1, <1>t DEF NotedWasSent
  <1>2. ASSUME NEW w \in Workers, PublishOk(w) PROVE x \in sent'
    <2>1. NextOf(w) \in Event
      BY <1>2, <1>t, NextOfTodo DEF PublishOk, Todo, TypeOK
    <2>2. result'[u][x] = IF u = w /\ x = NextOf(w) THEN "ok" ELSE result[u][x]
      BY <1>2, <1>t, <2>1, NoteType DEF PublishOk
    <2> QED
      BY <1>2, <1>t, <2>2 DEF PublishOk, NotedWasSent
  <1>3. ASSUME NEW w \in Workers, NEW timedOut \in BOOLEAN, NEW taken \in BOOLEAN,
               PublishError(w, timedOut, taken)
        PROVE  x \in sent'
    <2>1. NextOf(w) \in Event
      BY <1>3, <1>t, NextOfTodo DEF PublishError, Todo, TypeOK
    <2>2. result'[u][x] = IF u = w /\ x = NextOf(w) THEN "error" ELSE result[u][x]
      BY <1>3, <1>t, <2>1, NoteType DEF PublishError
    <2>3. sent \subseteq sent'
      BY <1>3 DEF PublishError
    <2> QED
      BY <1>t, <2>2, <2>3 DEF NotedWasSent
  <1>4. ASSUME NEW w \in Workers, Close(w), UNCHANGED sent PROVE x \in sent'
    BY <1>4, <1>t DEF Close, NoResult, NotedWasSent, TypeOK
  <1> QED
    BY <1>1, <1>2, <1>3, <1>4
    DEF Next, Batch, vars, BeginWrite, CommitWrite, DeleteEntity, Select, Commit, Expire, Abort, Elapse

\* Only a COMMIT makes a row "published", of an event noted as "ok".
LEMMA PublishedStep == Inv /\ [Next]_vars => PublishedWasSent'
  <1> SUFFICES ASSUME Inv, [Next]_vars, NEW x \in Event, rows'[x].status = "published"
               PROVE  x \in sent'
    BY DEF PublishedWasSent
  <1>t. TypeOK /\ PublishedWasSent /\ rows[x] \in Row
    BY DEF Inv, TypeOK
  <1>1. sent \subseteq sent'
    BY DEF Next, Batch, vars, BeginWrite, CommitWrite, DeleteEntity, Select, PublishOk,
           PublishError, Commit, Expire, Abort, Elapse
  <1>2. CASE rows[x].status = "published"
    BY <1>1, <1>2, <1>t DEF PublishedWasSent
  <1>3. CASE UNCHANGED rows
    BY <1>2, <1>3
  <1>4. ASSUME NEW e \in Entities, NEW t \in 1..MaxTransactions, CommitWrite(e, t)
        PROVE  x \in sent'
    BY <1>2, <1>4, <1>t DEF CommitWrite, TypeOK
  <1>5. ASSUME NEW e \in Entities, DeleteEntity(e) PROVE x \in sent'
    BY <1>2, <1>5, <1>t DEF DeleteEntity, NoRow
  <1>6. ASSUME NEW w \in Workers, Commit(w) PROVE x \in sent'
    BY <1>1, <1>6, CommitRows
  <1>7. ASSUME NEW y \in Event, Elapse(y) PROVE x \in sent'
    BY <1>2, <1>7, <1>t DEF Elapse, TypeOK, Row
  <1> QED
    BY <1>3, <1>4, <1>5, <1>6, <1>7
    DEF Next, Batch, vars, BeginWrite, Select, PublishOk, PublishError, Expire, Abort

\* Every step keeps the invariant.
LEMMA InvStep == Inv /\ [Next]_vars => Inv'
  BY TypeStep, CountedStep, BatchStep, NotedStep, PublishedStep DEF Inv

-----------------------------------------------------------------------------
\* The inductive invariant holds in every reachable state.
THEOREM OutboxInvariant == Spec => []Inv
  BY InitInv, InvStep, PTL DEF Spec

\* Rows, locks, notes and counters keep their types: no attempt is counted
\* beyond OUTBOX_PUBLISH_MAX_ATTEMPTS, no call is made after the timeout.
THEOREM OutboxTypes == Spec => []TypeOK
  <1>1. Inv => TypeOK
    BY DEF Inv
  <1> QED
    BY <1>1, OutboxInvariant, PTL

\* FOR UPDATE SKIP LOCKED gives every batch rows of its own: while it
\* publishes them no other batch has one of them, and none is deleted,
\* settled or put off (handleOutboxBatch).
THEOREM BatchesAreDisjoint == Spec => []BatchIsCurrent
  <1>1. Inv => BatchIsCurrent
    BY DEF Inv
  <1> QED
    BY <1>1, OutboxInvariant, PTL

\* A row that says published stands for an event the broker has accepted,
\* whatever was rolled back, retried or lost with a worker in between.
THEOREM PublishedMeansSent == Spec => []PublishedWasSent
  <1>1. Inv => PublishedWasSent
    BY DEF Inv
  <1> QED
    BY <1>1, OutboxInvariant, PTL

=============================================================================
