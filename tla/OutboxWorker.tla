---------------------------- MODULE OutboxWorker ----------------------------
(***************************************************************************)
(* Delivery of profile events (internal/asyncjobs): write transactions put *)
(* rows into profile_outbox, batches of the worker publish them, an entity *)
(* that is deleted takes its rows with it.                                 *)
(*                                                                         *)
(* A batch is one transaction: it locks the rows it selects (FOR UPDATE    *)
(* SKIP LOCKED), publishes them one after the other and commits what came  *)
(* of each at its end.  Publishing cannot be undone; a batch that fails or *)
(* runs out of time rolls everything else back.                            *)
(***************************************************************************)
EXTENDS Naturals, FiniteSets

CONSTANTS
    Workers,          \* goroutines that may run a batch at the same time
    Entities,
    BatchLimit,       \* OutboxBatchSize
    MaxAttempts,      \* OUTBOX_PUBLISH_MAX_ATTEMPTS
    SlowBudget,       \* publish calls of 30 s that exhaust the batch's timeout
    MaxVersions,      \* bound of the model: versions per entity
    MaxTransactions,  \* bound of the model: write transactions
    MaxAborts         \* bound of the model: batches lost for another reason

ASSUME LimitsAssumption ==
    /\ BatchLimit \in Nat \ {0} /\ MaxAttempts \in Nat \ {0}
    /\ SlowBudget \in Nat \ {0}
ASSUME WorkerBoundsAssumption ==
    MaxVersions \in Nat /\ MaxTransactions \in Nat /\ MaxAborts \in Nat

VARIABLES
    rows,     \* rows[x]: the committed profile_outbox row of event x
    gone,     \* deleted entities
    clock,    \* write transactions begun so far
    begun,    \* created_at of those still open: now() is the time they began
    held,     \* held[w]: the rows the batch of w has locked
    result,   \* result[w][x]: what the batch of w noted for x, uncommitted
    slow,     \* slow[w]: publish calls that ran into their timeout
    sent,     \* events the broker has accepted at least once
    aborts

vars == <<rows, gone, clock, begun, held, result, slow, sent, aborts>>

Event == Entities \X (1..MaxVersions)
Row == [status : {"none", "pending", "published", "failed"},
        attempts : 0..MaxAttempts, waiting : BOOLEAN,
        created : 0..MaxTransactions]
NoRow == [status |-> "none", attempts |-> 0, waiting |-> FALSE, created |-> 0]
NoResult == [x \in Event |-> "none"]

TypeOK ==
    /\ rows \in [Event -> Row]
    /\ gone \subseteq Entities
    /\ clock \in 0..MaxTransactions
    /\ begun \subseteq 1..clock
    /\ held \in [Workers -> SUBSET Event]
    /\ result \in [Workers -> [Event -> {"none", "ok", "error"}]]
    /\ slow \in [Workers -> 0..SlowBudget]
    /\ sent \subseteq Event
    /\ aborts \in 0..MaxAborts

Init ==
    /\ rows = [x \in Event |-> NoRow]
    /\ gone = {}
    /\ clock = 0
    /\ begun = {}
    /\ held = [w \in Workers |-> {}]
    /\ result = [w \in Workers |-> NoResult]
    /\ slow = [w \in Workers |-> 0]
    /\ sent = {}
    /\ aborts = 0

-----------------------------------------------------------------------------
Pending(x) == rows[x].status = "pending"
Locked(x) == \E w \in Workers : x \in held[w]
LastVersion(e) ==
    Cardinality({v \in 1..MaxVersions : rows[<<e, v>>].status # "none"})
Older(x, y) == rows[x].created < rows[y].created

\* A write transaction of the profile service begins; it may then wait for the
\* row lock of its entity.
BeginWrite ==
    /\ clock < MaxTransactions
    /\ clock' = clock + 1
    /\ begun' = begun \cup {clock + 1}
    /\ UNCHANGED <<rows, gone, held, result, slow, sent, aborts>>

\* It commits the next version of e with the event's row.  The id of a profile
\* comes from its creation, so every other write of it begins later.
CommitWrite(e, t) ==
    LET v == LastVersion(e) + 1
    IN  /\ t \in begun
        /\ e \notin gone /\ v <= MaxVersions
        /\ v > 1 => t > rows[<<e, 1>>].created
        /\ rows' = [rows EXCEPT ![<<e, v>>] =
               [status |-> "pending", attempts |-> 0, waiting |-> FALSE,
                created |-> t]]
        /\ begun' = begun \ {t}
        /\ UNCHANGED <<gone, clock, held, result, slow, sent, aborts>>

\* DELETE FROM entities (Delete, or the source of a merge) cascades to the
\* outbox and waits for the rows a batch has locked.
DeleteEntity(e) ==
    /\ LastVersion(e) > 0
    /\ \A v \in 1..MaxVersions : ~Locked(<<e, v>>)
    /\ rows' = [x \in Event |-> IF x[1] = e THEN NoRow ELSE rows[x]]
    /\ gone' = gone \cup {e}
    /\ UNCHANGED <<clock, begun, held, result, slow, sent, aborts>>

-----------------------------------------------------------------------------
\* Mutant: FOR UPDATE SKIP LOCKED is missing.
EligibleUnlocked == {x \in Event : Pending(x) /\ ~rows[x].waiting}
\* handleOutboxBatch selects the oldest rows that are due and not locked.
Eligible == {x \in Event : Pending(x) /\ ~rows[x].waiting /\ ~Locked(x)}
Oldest(S) == {x \in S : Cardinality({y \in S : Older(y, x)}) < BatchLimit}

Select(w) ==
    /\ held[w] = {}
    /\ Eligible # {}
    /\ held' = [held EXCEPT ![w] = Oldest(Eligible)]
    /\ UNCHANGED <<rows, gone, clock, begun, result, slow, sent, aborts>>

Todo(w) == {x \in held[w] : result[w][x] = "none"}
NextOf(w) == CHOOSE x \in Todo(w) : \A y \in Todo(w) : ~Older(y, x)
Expired(w) == slow[w] = SlowBudget
Note(w, outcome) == result' = [result EXCEPT ![w][NextOf(w)] = outcome]

PublishOk(w) ==
    /\ ~Expired(w) /\ Todo(w) # {}
    /\ Note(w, "ok")
    /\ sent' = sent \cup {NextOf(w)}
    /\ UNCHANGED <<rows, gone, clock, begun, held, slow, aborts>>

\* The call fails, at once or after 30 s; the broker may have taken the event.
PublishError(w, timedOut, taken) ==
    /\ ~Expired(w) /\ Todo(w) # {}
    /\ Note(w, "error")
    /\ sent' = IF taken THEN sent \cup {NextOf(w)} ELSE sent
    /\ slow' = IF timedOut THEN [slow EXCEPT ![w] = @ + 1] ELSE slow
    /\ UNCHANGED <<rows, gone, clock, begun, held, aborts>>

\* What the UPDATE of a row makes of it.
AfterOk(row) == [row EXCEPT !.attempts = 0, !.status = "published"]
\* Mutant: one attempt too many.
AfterErrorOneMore(row) ==
    IF row.attempts + 1 > MaxAttempts
    THEN [row EXCEPT !.attempts = @ + 1, !.status = "failed"]
    ELSE [row EXCEPT !.attempts = @ + 1, !.waiting = TRUE]
\* Mutant: the attempt is not counted.
AfterErrorUncounted(row) ==
    IF row.attempts + 1 >= MaxAttempts
    THEN [row EXCEPT !.attempts = @ + 1, !.status = "failed"]
    ELSE [row EXCEPT !.waiting = TRUE]
\* Mutant: the error is dropped.
AfterErrorDropped(row) == AfterOk(row)
AfterError(row) ==
    IF row.attempts + 1 >= MaxAttempts
    THEN [row EXCEPT !.attempts = @ + 1, !.status = "failed"]
    ELSE [row EXCEPT !.attempts = @ + 1, !.waiting = TRUE]

Close(w) ==
    /\ held' = [held EXCEPT ![w] = {}]
    /\ result' = [result EXCEPT ![w] = NoResult]
    /\ slow' = [slow EXCEPT ![w] = 0]

\* The batch's COMMIT; each UPDATE asks for a pending row once more.
Commit(w) ==
    /\ ~Expired(w) /\ held[w] # {} /\ Todo(w) = {}
    /\ rows' = [x \in Event |->
           IF x \notin held[w] \/ ~Pending(x) THEN rows[x]
           ELSE IF result[w][x] = "ok" THEN AfterOk(rows[x])
           ELSE AfterError(rows[x])]
    /\ Close(w)
    /\ UNCHANGED <<gone, clock, begun, sent, aborts>>

\* The batch's timeout: every later statement of its transaction fails.
Expire(w) ==
    /\ Expired(w)
    /\ Close(w)
    /\ UNCHANGED <<rows, gone, clock, begun, sent, aborts>>
\* A database error, a crash or a shutdown of the worker.
Abort(w) ==
    /\ held[w] # {} /\ aborts < MaxAborts
    /\ aborts' = aborts + 1
    /\ Close(w)
    /\ UNCHANGED <<rows, gone, clock, begun, sent>>

\* next_retry_at is reached.
Elapse(x) ==
    /\ rows[x].waiting
    /\ rows' = [rows EXCEPT ![x].waiting = FALSE]
    /\ UNCHANGED <<gone, clock, begun, held, result, slow, sent, aborts>>

-----------------------------------------------------------------------------
Batch(w) ==
    \/ PublishOk(w)
    \/ \E timedOut, taken \in BOOLEAN : PublishError(w, timedOut, taken)
    \/ Commit(w)
    \/ Expire(w)

Next ==
    \/ BeginWrite
    \/ \E e \in Entities :
          DeleteEntity(e) \/ \E t \in 1..MaxTransactions : CommitWrite(e, t)
    \/ \E w \in Workers : Select(w) \/ Batch(w) \/ Abort(w)
    \/ \E x \in Event : Elapse(x)

Spec == Init /\ [][Next]_vars

\* The scheduler enqueues a batch every OUTBOX_INTERVAL and a worker takes it;
\* a running batch goes on to its end; time passes.
Fairness ==
    /\ \A w \in Workers : WF_vars(Select(w)) /\ WF_vars(Batch(w))
    /\ \A x \in Event : WF_vars(Elapse(x))
FairSpec == Spec /\ Fairness

-----------------------------------------------------------------------------
\* Stale state between two batches: as long as a batch works on its rows they
\* are its own, and still pending and due in the table.
BatchIsCurrent ==
    \A w \in Workers : \A x \in held[w] :
        /\ Pending(x) /\ ~rows[x].waiting
        /\ \A u \in Workers \ {w} : x \notin held[u]

\* At least once: whatever is rolled back, a row says published only if the
\* broker has the event.
PublishedWasSent ==
    \A x \in Event : rows[x].status = "published" => x \in sent

\* No event stays pending for ever, whatever the broker answers: it is
\* published or given up (or its profile is deleted).
\* Violated: a batch that runs out of time rolls back the attempts it counted,
\* and the next one starts with the same rows.
EventuallySettled == \A x \in Event : Pending(x) ~> ~Pending(x)

\* That is the only way to stay pending: if batches no longer run out of time,
\* every event is settled, through failures, crashes and rows that another
\* worker has locked.
SettledUnlessExpiring ==
    <>[](\A w \in Workers : ~Expired(w)) => EventuallySettled

\* The events of a profile are delivered in the order of profile_version
\* (DESIGN 4.5, ADR-0003 item 5).  Violated: rows are taken in the order in
\* which their transactions began, and one that failed is overtaken.
SentInVersionOrder ==
    [][\A x \in sent' \ sent : \A v \in (x[2] + 1)..MaxVersions :
          <<x[1], v>> \notin sent]_vars

\* Every version's event is delivered at least once (ADR-0003 item 5).
\* Violated: deleting or merging a profile removes its undelivered events.
NoPendingEventDropped ==
    [][\A x \in Event : Pending(x) /\ rows'[x].status = "none" => x \in sent]_vars
=============================================================================
