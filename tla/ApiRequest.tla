----------------------------- MODULE ApiRequest -----------------------------
(***************************************************************************)
(* One call of a data provider from the widget to the server and back: the *)
(* provider's operation (providers/openapi*Provider.ts) starts a generated *)
(* request (generated/core/request.ts) at once, then waits for its         *)
(* CancelablePromise in withSignal, which an AbortSignal may interrupt.    *)
(*                                                                         *)
(* Three parties run apart.  The executor builds headers, fetches, reads   *)
(* the body and settles the promise (exec); withSignal checks the signal,  *)
(* waits one microtask, listens and waits for the promise (wait); the user *)
(* of the signal aborts it.  The browser's fetch and the server are        *)
(* external: a request may be answered, fail, or stay without an answer.   *)
(***************************************************************************)
EXTENDS Naturals

CONSTANTS
    Calls,     \* calls of provider operations
    Signals,   \* AbortSignals; several calls may share one
    NoSignal,  \* the call has none: mutations are called this way
    Replies    \* statuses the server answers with in the model

Status == {"200", "204", "400", "401", "403", "404", "409", "422", "429", "500"}
OkStatus == {"200", "204"}

ASSUME SignalsAssumption == NoSignal \notin Signals
ASSUME RepliesAssumption == Replies \subseteq Status

VARIABLES
    op,         \* op[c]: the provider's operation, "none" before the call
    signal,     \* signal[c]: the AbortSignal it was given
    wait,       \* wait[c]: where withSignal stands
    exec,       \* exec[c]: where the executor of request() stands
    promise,    \* promise[c]: what the CancelablePromise settled with
    reply,      \* reply[c]: what the server answered
    listeners,  \* calls with an abort listener on their signal
    aborted,    \* signals that are aborted
    answer      \* answer[c]: what the widget was told

requestVars ==
    <<op, signal, wait, exec, promise, reply, listeners, aborted, answer>>

\* The operations of the two providers.  All but the two deletes read a field
\* of the body they get.
ProfileRead == {"list", "get", "getByVersion", "listEntityTypes",
                "getEntityTypePublishedSchema"}
ProfileWrite == {"create", "update", "remove"}
FamilyRead == {"listFamilies", "getFamily", "listRevisions",
               "listProfilesForType"}
FamilyWrite == {"createFamily", "patchFamily", "saveDraft", "publishDraft",
                "deleteFamily", "upgradeEntityProfileBinding",
                "batchUpgradeEntityBindings"}
Operation == ProfileRead \cup ProfileWrite \cup FamilyRead \cup FamilyWrite
Void == {"remove", "deleteFamily"}

Settlement == {"body", "empty", "CancelError", "TypeError"} \cup
              (Status \ OkStatus)
Code == {"unauthorized", "forbidden", "not_found", "conflict", "validation",
         "rate_limited", "network", "unknown"}

RequestTypeOK ==
    /\ op \in [Calls -> Operation \cup {"none"}]
    /\ signal \in [Calls -> Signals \cup {NoSignal}]
    /\ wait \in [Calls -> {"idle", "checked", "waiting", "done"}]
    /\ exec \in [Calls -> {"idle", "headers", "fetching", "over"}]
    /\ promise \in [Calls -> Settlement \cup {"none", "pending"}]
    /\ reply \in [Calls -> Status \cup {"none"}]
    /\ listeners \subseteq Calls
    /\ aborted \subseteq Signals
    /\ answer \in [Calls -> Code \cup {"none", "ok"}]

RequestInit ==
    /\ op = [c \in Calls |-> "none"]
    /\ signal = [c \in Calls |-> NoSignal]
    /\ wait = [c \in Calls |-> "idle"]
    /\ exec = [c \in Calls |-> "idle"]
    /\ promise = [c \in Calls |-> "none"]
    /\ reply = [c \in Calls |-> "none"]
    /\ listeners = {}
    /\ aborted = {}
    /\ answer = [c \in Calls |-> "none"]

-----------------------------------------------------------------------------
statusToCode(status) ==
    CASE status = "401" -> "unauthorized"
      [] status = "403" -> "forbidden"
      [] status = "404" -> "not_found"
      [] status = "409" -> "conflict"
      [] status \in {"400", "422"} -> "validation"
      [] status = "429" -> "rate_limited"
      [] OTHER -> "unknown"

\* What a settled promise comes to for the widget.  A provider reads fields of
\* the body, so an empty one is a TypeError, which passes for the network.
Answer(c) ==
    CASE promise[c] = "body" -> "ok"
      [] promise[c] = "empty" /\ op[c] \in Void -> "ok"
      [] promise[c] = "empty" /\ op[c] \notin Void -> "network"
      [] promise[c] = "TypeError" -> "network"
      [] promise[c] = "CancelError" -> "unknown"
      [] OTHER -> statusToCode(promise[c])

\* onResolve and onReject: the first settlement stands.
Settle(c, settlement) ==
    promise' = [promise EXCEPT ![c] =
        IF promise[c] = "pending" THEN settlement ELSE promise[c]]

-----------------------------------------------------------------------------
\* Mutant: a request that was sent is not cancelled.
CancelledUnsent(S) ==
    [c \in Calls |->
        IF c \in listeners /\ signal[c] \in S /\ exec[c] = "headers"
        THEN "CancelError" ELSE promise[c]]
\* Signals S are aborted: cancel() on the promise of each listener.
Cancelled(S) ==
    [c \in Calls |->
        IF c \in listeners /\ signal[c] \in S /\ promise[c] = "pending"
        THEN "CancelError" ELSE promise[c]]
Abort(S) ==
    /\ aborted' = aborted \cup S
    /\ promise' = Cancelled(S)
    /\ UNCHANGED <<op, signal, wait, exec, reply, listeners, answer>>

\* The widget aborts S and calls operation o with the signal s.  The request
\* starts before withSignal looks at the signal for the first time.
Call(c, o, s, S) ==
    /\ wait[c] = "idle" /\ s \notin S
    /\ op' = [op EXCEPT ![c] = o]
    /\ signal' = [signal EXCEPT ![c] = s]
    /\ promise' = [Cancelled(S) EXCEPT ![c] = "pending"]
    /\ exec' = [exec EXCEPT ![c] = "headers"]
    /\ wait' = [wait EXCEPT ![c] =
           IF s = NoSignal THEN "waiting"
           ELSE IF s \in aborted THEN "done" ELSE "checked"]
    /\ answer' = IF s \in aborted THEN [answer EXCEPT ![c] = "unknown"]
                 ELSE answer
    /\ aborted' = aborted \cup S
    /\ UNCHANGED <<reply, listeners>>

\* After `await Promise.resolve()`: the signal was aborted meanwhile...
GiveUp(c) ==
    /\ wait[c] = "checked" /\ signal[c] \in aborted
    /\ wait' = [wait EXCEPT ![c] = "done"]
    /\ answer' = [answer EXCEPT ![c] = "unknown"]
    /\ UNCHANGED <<op, signal, exec, promise, reply, listeners, aborted>>

\* ... or the abort listener is added.
Listen(c) ==
    /\ wait[c] = "checked" /\ signal[c] \notin aborted
    /\ wait' = [wait EXCEPT ![c] = "waiting"]
    /\ listeners' = listeners \cup {c}
    /\ UNCHANGED <<op, signal, exec, promise, reply, aborted, answer>>

\* Headers are there; a cancelled request is not sent.  getHeaders takes more
\* microtasks than withSignal's one.
Send(c) ==
    /\ exec[c] = "headers" /\ wait[c] # "checked"
    /\ exec' = [exec EXCEPT ![c] =
           IF promise[c] = "CancelError" THEN "over" ELSE "fetching"]
    /\ UNCHANGED <<op, signal, wait, promise, reply, listeners, aborted, answer>>

\* External: the server handles the request.
Serve(c, status) ==
    /\ exec[c] = "fetching" /\ reply[c] = "none"
    /\ reply' = [reply EXCEPT ![c] = status]
    /\ UNCHANGED <<op, signal, wait, exec, promise, listeners, aborted, answer>>

\* fetch rejects: no connection, or its own controller was aborted by cancel,
\* whose rejection comes too late to matter.
FetchFails(c) ==
    /\ exec[c] = "fetching"
    /\ exec' = [exec EXCEPT ![c] = "over"]
    /\ Settle(c, "TypeError")
    /\ UNCHANGED <<op, signal, wait, reply, listeners, aborted, answer>>

\* Mutant: only the listed statuses are errors.
CatchListed(c, read) ==
    IF reply[c] \in {"400", "401", "403", "404", "500"} THEN reply[c]
    ELSE IF read THEN "body" ELSE "empty"
\* getResponseBody and catchErrorCodes: a body that cannot be read is logged
\* and counts as empty; every status that is not ok is an ApiError.
catchErrorCodes(c, read) ==
    IF reply[c] \notin OkStatus THEN reply[c]
    ELSE IF read /\ reply[c] # "204" THEN "body" ELSE "empty"

\* The response is there and read; cancel() breaks the reading off.
ReadBody(c, read) ==
    /\ exec[c] = "fetching" /\ reply[c] # "none"
    /\ promise[c] = "CancelError" => ~read
    /\ exec' = [exec EXCEPT ![c] = "over"]
    /\ Settle(c, catchErrorCodes(c, read))
    /\ UNCHANGED <<op, signal, wait, reply, listeners, aborted, answer>>

\* Mutant: the listener is removed only when the call succeeded.
RemainingOnError(c) ==
    IF promise[c] = "body" THEN listeners \ {c} ELSE listeners
\* The finally of withSignal.
Remaining(c) == listeners \ {c}

\* The promise has settled: withSignal's await ends and the provider answers.
Deliver(c) ==
    /\ wait[c] = "waiting" /\ promise[c] # "pending"
    /\ wait' = [wait EXCEPT ![c] = "done"]
    /\ listeners' = Remaining(c)
    /\ answer' = [answer EXCEPT ![c] = Answer(c)]
    /\ UNCHANGED <<op, signal, exec, promise, reply, aborted>>

\* A bound on memory, no step of the code: a call that is over everywhere is
\* forgotten, with its controller, and its name serves for another.
Forget(c) ==
    /\ wait[c] = "done" /\ exec[c] = "over"
    /\ op' = [op EXCEPT ![c] = "none"]
    /\ signal' = [signal EXCEPT ![c] = NoSignal]
    /\ wait' = [wait EXCEPT ![c] = "idle"]
    /\ exec' = [exec EXCEPT ![c] = "idle"]
    /\ promise' = [promise EXCEPT ![c] = "none"]
    /\ reply' = [reply EXCEPT ![c] = "none"]
    /\ answer' = [answer EXCEPT ![c] = "none"]
    /\ aborted' = aborted \
           {s \in Signals : \A b \in Calls \ {c} : signal[b] # s}
    /\ UNCHANGED listeners

-----------------------------------------------------------------------------
\* Steps nobody outside the request sees.
Inner(c) ==
    \/ Listen(c)
    \/ Send(c)
    \/ \E status \in Replies : Serve(c, status)
    \/ FetchFails(c)
    \/ \E read \in BOOLEAN : ReadBody(c, read)
Ends(c) == GiveUp(c) \/ Deliver(c)

RequestNext ==
    \/ \E c \in Calls, o \in Operation, s \in Signals \cup {NoSignal},
          S \in SUBSET Signals : Call(c, o, s, S)
    \/ \E c \in Calls : Inner(c) \/ Ends(c) \/ Forget(c)
    \/ \E S \in SUBSET Signals : Abort(S)

RequestSpec == RequestInit /\ [][RequestNext]_requestVars

-----------------------------------------------------------------------------
\* A call that has ended leaves nothing on the signal it shared with others,
\* however it ended (success, error, abort): withSignal's finally.
NoListenerLeft ==
    \A c \in listeners : wait[c] = "waiting" /\ signal[c] # NoSignal

\* What the widget acts on is what the server said of this very request: "ok"
\* and each code a widget treats specially (conflict: the draft was changed
\* elsewhere) are never guessed.  "network" and "unknown" say nothing of it.
AnswerIsTheServers ==
    \A c \in Calls :
        /\ answer[c] = "ok" => reply[c] \in OkStatus
        /\ answer[c] \in Code \ {"network", "unknown"} =>
              reply[c] \in Status /\ statusToCode(reply[c]) = answer[c]

\* Once its signal is aborted a call can end although no answer ever comes:
\* the widget that dropped it is not left waiting for the network, whether the
\* abort came before the listener, before the request was sent or after.
AbortReleases ==
    \A c \in Calls :
        wait[c] = "waiting" /\ signal[c] \in aborted => promise[c] \in Settlement
=============================================================================
