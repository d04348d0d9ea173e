--------------------------- MODULE ApiRequestProofs ---------------------------
(***************************************************************************)
(* Theorems about ApiRequest, for any number of calls and signals: types,   *)
(* and the three properties of one call.  A call in flight is described by   *)
(* CallOK, an invariant that says which of its parts go together; that it   *)
(* is kept is shown for the call that acts and, in one lemma, for the rest. *)
(***************************************************************************)
EXTENDS ApiRequest, TLAPS

\* What goes together in one call.  A name that is not in use is blank; from
\* the call on there is a promise; withSignal looks at a signal only if there
\* is one; it listens while it waits and at no other time; what the promise
\* says of a status is what the server answered, and so is the answer.
CallOK(c) ==
    /\ wait[c] = "idle" =>
          op[c] = "none" /\ promise[c] = "none" /\ exec[c] = "idle"
          /\ reply[c] = "none" /\ answer[c] = "none" /\ signal[c] = NoSignal
    /\ wait[c] # "idle" => op[c] \in Operation /\ promise[c] \in Settlement \cup {"pending"}
    /\ wait[c] = "checked" => signal[c] # NoSignal
    /\ c \in listeners <=> wait[c] = "waiting" /\ signal[c] # NoSignal
    /\ promise[c] \in {"body", "empty"} => reply[c] \in OkStatus
    /\ promise[c] \in Status \ OkStatus => reply[c] = promise[c]
    /\ answer[c] = "ok" => reply[c] \in OkStatus
    /\ answer[c] \in Code \ {"network", "unknown"} =>
          reply[c] \in Status /\ statusToCode(reply[c]) = answer[c]
    /\ wait[c] = "waiting" /\ signal[c] \in aborted => promise[c] \in Settlement

Inv == RequestTypeOK /\ \A c \in Calls : CallOK(c)

USE SignalsAssumption, RepliesAssumption

\* The types are kept by every step.
LEMMA TypeStep == RequestTypeOK /\ [RequestNext]_requestVars => RequestTypeOK'
  <1> SUFFICES ASSUME RequestTypeOK, [RequestNext]_requestVars PROVE RequestTypeOK'
    OBVIOUS
  <1> USE DEF RequestTypeOK
  <1>1. ASSUME NEW c \in Calls, NEW o \in Operation, NEW s \in Signals \cup {NoSignal},
               NEW S \in SUBSET Signals, Call(c, o, s, S)
        PROVE  RequestTypeOK'
    BY <1>1 DEF Call, Cancelled, Settlement, Code
  <1>2. ASSUME NEW S \in SUBSET Signals, Abort(S) PROVE RequestTypeOK'
    BY <1>2 DEF Abort, Cancelled, Settlement
  <1>3. ASSUME NEW c \in Calls, GiveUp(c) PROVE RequestTypeOK'
    BY <1>3 DEF GiveUp, Code
  <1>4. ASSUME NEW c \in Calls, Listen(c) PROVE RequestTypeOK'
    BY <1>4 DEF Listen
  <1>5. ASSUME NEW c \in Calls, Send(c) PROVE RequestTypeOK'
    BY <1>5 DEF Send
  <1>6. ASSUME NEW c \in Calls, NEW status \in Replies, Serve(c, status)
        PROVE  RequestTypeOK'
    BY <1>6 DEF Serve
  <1>7. ASSUME NEW c \in Calls, FetchFails(c) PROVE RequestTypeOK'
    BY <1>7 DEF FetchFails, Settle, Settlement
  <1>8. ASSUME NEW c \in Calls, NEW read \in BOOLEAN, ReadBody(c, read)
        PROVE  RequestTypeOK'
    <2>1. catchErrorCodes(c, read) \in Settlement
      BY <1>8 DEF ReadBody, catchErrorCodes, Settlement, Status, OkStatus
    <2> QED
      BY <1>8, <2>1 DEF ReadBody, Settle
  <1>9. ASSUME NEW c \in Calls, Deliver(c) PROVE RequestTypeOK'
    <2>1. Answer(c) \in Code \cup {"ok"}
      BY <1>9 DEF Deliver, Answer, statusToCode, Code, Settlement
    <2> QED
      BY <1>9, <2>1 DEF Deliver, Remaining
  <1>10. ASSUME NEW c \in Calls, Forget(c) PROVE RequestTypeOK'
    BY <1>10 DEF Forget
  <1>11. CASE UNCHANGED requestVars
    BY <1>11 DEF requestVars
  <1> QED
    BY <1>1, <1>2, <1>3, <1>4, <1>5, <1>6, <1>7, <1>8, <1>9, <1>10, <1>11
       DEF RequestNext, Inner, Ends

\* Every call in flight stays one whose parts go together.
LEMMA CallStep == Inv /\ [RequestNext]_requestVars => \A b \in Calls : CallOK(b)'
  <1> SUFFICES ASSUME Inv, [RequestNext]_requestVars, NEW b \in Calls
               PROVE  CallOK(b)'
    OBVIOUS
  <1>t. RequestTypeOK /\ CallOK(b) /\ RequestTypeOK'
    BY TypeStep DEF Inv
  <1>1. ASSUME NEW c \in Calls, NEW o \in Operation, NEW s \in Signals \cup {NoSignal},
               NEW S \in SUBSET Signals, Call(c, o, s, S)
        PROVE  CallOK(b)'
    <2>1. CASE b = c
      BY <1>1, <1>t, <2>1
         DEF Call, CallOK, RequestTypeOK, Settlement, Code, Status, OkStatus
    <2>2. CASE b # c
      BY <1>1, <1>t, <2>2
         DEF Call, Cancelled, CallOK, RequestTypeOK, Settlement, Status, OkStatus
    <2> QED BY <2>1, <2>2
  <1>2. ASSUME NEW S \in SUBSET Signals, Abort(S) PROVE CallOK(b)'
    BY <1>2, <1>t DEF Abort, Cancelled, CallOK, RequestTypeOK, Settlement, Status, OkStatus
  <1>3. ASSUME NEW c \in Calls, GiveUp(c) PROVE CallOK(b)'
    BY <1>3, <1>t DEF GiveUp, CallOK, RequestTypeOK, Code
  <1>4. ASSUME NEW c \in Calls, Listen(c) PROVE CallOK(b)'
    BY <1>4, <1>t DEF Listen, CallOK, RequestTypeOK
  <1>5. ASSUME NEW c \in Calls, Send(c) PROVE CallOK(b)'
    BY <1>5, <1>t DEF Send, CallOK, RequestTypeOK
  <1>6. ASSUME NEW c \in Calls, NEW status \in Replies, Serve(c, status)
        PROVE  CallOK(b)'
    BY <1>6, <1>t DEF Serve, CallOK, RequestTypeOK, Status, OkStatus
  <1>7. ASSUME NEW c \in Calls, FetchFails(c) PROVE CallOK(b)'
    BY <1>7, <1>t DEF FetchFails, Settle, CallOK, RequestTypeOK, Settlement, Status, OkStatus
  <1>8. ASSUME NEW c \in Calls, NEW read \in BOOLEAN, ReadBody(c, read)
        PROVE  CallOK(b)'
    <2>1. /\ catchErrorCodes(c, read) \in Settlement
          /\ catchErrorCodes(c, read) \in {"body", "empty"} => reply[c] \in OkStatus
          /\ catchErrorCodes(c, read) \in Status \ OkStatus =>
                reply[c] = catchErrorCodes(c, read)
      BY <1>8, <1>t DEF RequestTypeOK, ReadBody, catchErrorCodes, Settlement, Status, OkStatus
    <2> QED
      BY <1>8, <1>t, <2>1 DEF ReadBody, Settle, CallOK, RequestTypeOK, Settlement
  <1>9. ASSUME NEW c \in Calls, Deliver(c) PROVE CallOK(b)'
    <2>1. CASE b = c
      <3>1. Answer(c) = "ok" => reply[c] \in OkStatus
        BY <1>9, <1>t, <2>1 DEF Deliver, Answer, statusToCode, CallOK
      <3>2. Answer(c) \in Code \ {"network", "unknown"} =>
               reply[c] \in Status /\ statusToCode(reply[c]) = Answer(c)
        BY <1>9, <1>t, <2>1
           DEF Deliver, Answer, statusToCode, CallOK, Code, Settlement, Status, OkStatus
      <3> QED
        BY <1>9, <1>t, <2>1, <3>1, <3>2 DEF Deliver, Remaining, CallOK, RequestTypeOK, statusToCode
    <2>2. CASE b # c
      BY <1>9, <1>t, <2>2 DEF Deliver, Remaining, CallOK, RequestTypeOK, statusToCode
    <2> QED BY <2>1, <2>2
  <1>10. ASSUME NEW c \in Calls, Forget(c) PROVE CallOK(b)'
    BY <1>10, <1>t DEF Forget, CallOK, RequestTypeOK, Code, Status, OkStatus
  <1>11. CASE UNCHANGED requestVars
    BY <1>11, <1>t DEF requestVars, CallOK, statusToCode
  <1> QED
    BY <1>1, <1>2, <1>3, <1>4, <1>5, <1>6, <1>7, <1>8, <1>9, <1>10, <1>11
       DEF RequestNext, Inner, Ends

\* The invariant the theorems rest on.
THEOREM RequestInvariant == RequestSpec => []Inv
  <1>1. RequestInit => Inv
    BY DEF RequestInit, Inv, RequestTypeOK, CallOK, Settlement, Code, Status, OkStatus
  <1>2. Inv /\ [RequestNext]_requestVars => Inv'
    BY TypeStep, CallStep DEF Inv
  <1> QED
    BY <1>1, <1>2, PTL DEF RequestSpec

\* A call that ended leaves nothing on the signal it shared: withSignal's finally.
THEOREM ListenersRemoved == RequestSpec => []NoListenerLeft
  <1>1. Inv => NoListenerLeft
    BY DEF Inv, CallOK, RequestTypeOK, NoListenerLeft
  <1> QED
    BY <1>1, RequestInvariant, PTL

\* Success and every code a widget treats specially are the server's own.
THEOREM AnswersTrue == RequestSpec => []AnswerIsTheServers
  <1>1. Inv => AnswerIsTheServers
    BY DEF Inv, CallOK, AnswerIsTheServers
  <1> QED
    BY <1>1, RequestInvariant, PTL

\* A call whose signal is aborted waits for nothing any more.
THEOREM AbortsRelease == RequestSpec => []AbortReleases
  <1>1. Inv => AbortReleases
    BY DEF Inv, CallOK, AbortReleases
  <1> QED
    BY <1>1, RequestInvariant, PTL
=============================================================================
