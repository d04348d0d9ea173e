--------------------------- MODULE CreateFormProofs ---------------------------
(***************************************************************************)
(* Theorems about CreateForm, for any documents, types and numbers of calls *)
(* in flight.  The dialog makes requests and nothing else with them, so     *)
(* what ApiRequest promises holds for its calls (EveryCallIsARequest); the  *)
(* rest is about the one request whose answer counts.                       *)
(***************************************************************************)
EXTENDS CreateForm, ApiRequestProofs

USE SignalsAssumption, RepliesAssumption, FormAssumption

-----------------------------------------------------------------------------
\* The dialog's steps as seen by its requests.
LEMMA StepIsRequestStep == [Next]_vars => [RequestNext]_requestVars
  <1> SUFFICES ASSUME [Next]_vars PROVE [RequestNext]_requestVars
    OBVIOUS
  <1>1. ASSUME NEW c \in Calls, NEW o \in Operation, NEW s \in Signals \cup {NoSignal},
               NEW S \in SUBSET Signals, Call(c, o, s, S)
        PROVE  RequestNext
    BY <1>1 DEF RequestNext
  <1>2. ASSUME NEW S \in SUBSET Signals, Abort(S) PROVE RequestNext
    BY <1>2 DEF RequestNext
  <1>3. ASSUME NEW c \in Calls, Inner(c) \/ Ends(c) \/ Forget(c) PROVE RequestNext
    BY <1>3 DEF RequestNext
  <1>4. ASSUME NEW type, NEW now, SchemaEffect(type, now) PROVE RequestNext
    <2>1. {schemaCall} \cap Calls \in SUBSET Signals
      OBVIOUS
    <2>2. "getEntityTypePublishedSchema" \in Operation
      BY DEF Operation, ProfileRead
    <2>3. Fresh \subseteq Calls
      BY DEF Fresh
    <2>4. CASE now /\ type # NoType
      <3>1. PICK c \in Fresh :
               Call(c, "getEntityTypePublishedSchema", c, {schemaCall} \cap Calls)
        BY <1>4, <2>4 DEF SchemaEffect
      <3> QED
        BY <3>1, <2>1, <2>2, <2>3, <1>1
    <2>5. CASE ~(now /\ type # NoType)
      BY <1>4, <2>5, <2>1, <1>2 DEF SchemaEffect
    <2> QED
      BY <2>4, <2>5
  <1>5. CASE OpenCreate
    <2>1. PICK c \in Fresh : Call(c, "listEntityTypes", NoSignal, {})
      BY <1>5 DEF OpenCreate
    <2>2. c \in Calls /\ "listEntityTypes" \in Operation
      BY DEF Fresh, Operation, ProfileRead
    <2>3. {} \in SUBSET Signals /\ NoSignal \in Signals \cup {NoSignal}
      OBVIOUS
    <2> HIDE SignalsAssumption, RepliesAssumption, FormAssumption
    <2>4. RequestNext
      BY <2>1, <2>2, <2>3, <1>1
    <2> QED
      BY <2>4
  <1>6. CASE Create
    <2>1. PICK c \in Fresh : Call(c, "create", NoSignal, {})
      BY <1>6 DEF Create
    <2>2. c \in Calls /\ "create" \in Operation
      BY DEF Fresh, Operation, ProfileWrite
    <2>3. {} \in SUBSET Signals /\ NoSignal \in Signals \cup {NoSignal}
      OBVIOUS
    <2> HIDE SignalsAssumption, RepliesAssumption, FormAssumption
    <2>4. RequestNext
      BY <2>1, <2>2, <2>3, <1>1
    <2> QED
      BY <2>4
  <1>7. CASE Close
    BY <1>7, <1>4 DEF Close
  <1>8. ASSUME NEW type \in Types \cup {NoType}, ChooseType(type) PROVE RequestNext
    BY <1>8, <1>4 DEF ChooseType
  <1>9. CASE Rendered
    BY <1>9, <1>4 DEF Rendered
  <1>10. CASE Edit \/ SwitchMode \/ FallBack \/ CreateRefused \/ Revalidated
    BY <1>10 DEF Edit, SwitchMode, FallBack, CreateRefused, Revalidated
  <1>11. ASSUME NEW c \in Calls, TypesListed(c) \/ SchemaArrives(c) \/ Created(c) \/ ForgetCall(c)
         PROVE  RequestNext
    BY <1>11, <1>3 DEF TypesListed, SchemaArrives, Created, ForgetCall, Ends
  <1>12. ASSUME NEW c \in Calls, Inner(c) PROVE RequestNext
    BY <1>12, <1>3
  <1>13. CASE UNCHANGED vars
    BY <1>13 DEF vars
  <1> QED
    BY <1>5, <1>6, <1>7, <1>8, <1>9, <1>10, <1>11, <1>12, <1>13 DEF Next

\* The dialog's calls are calls of ApiRequest: its specification implements
\* the one of the requests, and inherits what is proved about them.
THEOREM EveryCallIsARequest == Spec => RequestSpec
  <1>1. Init => RequestInit
    BY DEF Init
  <1> QED
    BY <1>1, StepIsRequestStep, PTL DEF Spec, RequestSpec

\* Listeners are removed from the controllers of the dialog's schema requests.
THEOREM FormListenersRemoved == Spec => []NoListenerLeft
  BY EveryCallIsARequest, ListenersRemoved, PTL

\* What the dialog reports of a creation is what the server answered.
THEOREM FormAnswersTrue == Spec => []AnswerIsTheServers
  BY EveryCallIsARequest, AnswersTrue, PTL

\* A schema request that was aborted by a new type holds nobody up.
THEOREM FormAbortsRelease == Spec => []AbortReleases
  BY EveryCallIsARequest, AbortsRelease, PTL

-----------------------------------------------------------------------------
\* Types.  The modes the toolbar offers are modes.
LEMMA OrderTyped ==
  ASSUME NEW form \in BOOLEAN, NEW schema \in BOOLEAN
  PROVE  LET order == draftJsonModeOrder(form, schema)
         IN  order \in Seq(Mode) /\ Len(order) \in Nat \ {0}
  <1> DEFINE first == IF form THEN <<"form">> ELSE <<>>
             last == IF schema THEN <<"schema">> ELSE <<>>
             middle == <<"tree", "source">>
  <1>1. first \in Seq(Mode) /\ middle \in Seq(Mode) /\ last \in Seq(Mode)
    <2>1. <<>> \in Seq(Mode)
      OBVIOUS
    <2>2. <<"form">> \in Seq(Mode) /\ <<"schema">> \in Seq(Mode)
      BY DEF Mode
    <2>3. <<"tree", "source">> \in Seq(Mode)
      BY DEF Mode
    <2> QED
      BY <2>1, <2>2, <2>3
  <1>2. Len(middle) = 2 /\ Len(first) \in Nat /\ Len(last) \in Nat
    BY <1>1
  <1>3. draftJsonModeOrder(form, schema) = (first \o middle) \o last
    BY DEF draftJsonModeOrder
  <1> HIDE DEF first, middle, last
  <1>4. (first \o middle) \o last \in Seq(Mode)
    BY <1>1
  <1>5. Len((first \o middle) \o last) = Len(first) + Len(middle) + Len(last)
    BY <1>1
  <1> QED
    BY <1>2, <1>3, <1>4, <1>5

\* The modes a document is offered in are modes of the editor.
LEMMA OfferedTyped ==
  ASSUME NEW form \in BOOLEAN, NEW schema \in BOOLEAN, editor \in Editor
  PROVE  Offered(editor, form, schema) \subseteq Mode
  <1> DEFINE order == draftJsonModeOrder(form, schema)
             at == {i \in DOMAIN order : order[i] = editor.mode}
             place == IF at = {} THEN 1 ELSE CHOOSE i \in at : TRUE
  <1>1. order \in Seq(Mode) /\ Len(order) \in Nat \ {0}
    BY OrderTyped
  <1>2. DOMAIN order = 1 .. Len(order) /\ \A i \in 1 .. Len(order) : order[i] \in Mode
    BY <1>1
  <1>3. NextMode(editor, form, schema) = order[(place % Len(order)) + 1]
    BY DEF NextMode
  <1>4. Offered(editor, form, schema) \subseteq
           {order[i] : i \in DOMAIN order} \cup {order[(place % Len(order)) + 1]}
    BY <1>3 DEF Offered
  <1> HIDE DEF order
  <1>5. place \in Nat
    BY <1>2
  <1> HIDE DEF place
  <1>6. (place % Len(order)) + 1 \in 1 .. Len(order)
    BY <1>1, <1>5
  <1> QED
    BY <1>2, <1>4, <1>6

USE DocumentsAssumption

\* The editor's handlers map editors to editors; what a save takes parses.
LEMMA SwitchedTyped ==
  ASSUME editor \in Editor, NEW mode \in Mode
  PROVE  Switched(editor, mode) \in Editor
  BY DEF Editor, Switched, Parses

\* What the user types leaves an editor,
LEMMA EditsTyped ==
  ASSUME editor \in Editor, NEW form, NEW next \in Edits(editor, form)
  PROVE  next \in Editor
  BY DEF Editor, Edits

\* so does a mode that is withdrawn,
LEMMA FallenTyped ==
  ASSUME editor \in Editor, NEW form
  PROVE  FallenBack(editor, form) \in Editor
  BY DEF Editor, FallenBack, Mode

\* the document taken when it is saved
LEMMA TakenTyped ==
  ASSUME editor \in Editor, DraftSaveOk(editor)
  PROVE  Taken(editor) \in Editor
  BY DEF Editor, Taken, DraftSaveOk, Parses

\* and the choice of another type.
LEMMA ChoosingTyped ==
  ASSUME editor \in Editor, typeId \in Types \cup {NoType},
         NEW type \in Types \cup {NoType}, Choosing(type)
  PROVE  editor' \in Editor /\ typeId' \in Types \cup {NoType}
  BY DEF Editor, Choosing, Mode

FormTypeOK ==
    /\ opened \in BOOLEAN
    /\ typeId \in Types \cup {NoType}
    /\ options \subseteq Types
    /\ editor \in Editor
    /\ panel \in [status : PanelStatus, of : Types \cup {NoType}]
    /\ schemaCall \in Calls \cup {NoSignal}
    /\ due \in BOOLEAN
    /\ busy \in {"no", "create", "reload"}
    /\ asked \in [Calls -> Types \cup {NoType}]

\* The effect of the chosen type leaves a panel, a controller and a type asked for.
LEMMA EffectTyped ==
  ASSUME FormTypeOK, NEW type \in Types \cup {NoType}, NEW now, SchemaEffect(type, now)
  PROVE  /\ panel' \in [status : PanelStatus, of : Types \cup {NoType}]
         /\ schemaCall' \in Calls \cup {NoSignal}
         /\ asked' \in [Calls -> Types \cup {NoType}]
  <1>1. Fresh \subseteq Calls
    BY DEF Fresh
  <1> QED
    BY <1>1 DEF SchemaEffect, FormTypeOK, Unsupported, PanelStatus

\* Every step keeps the types of the form: one step of the proof per action.
LEMMA FormTypeStep == FormTypeOK /\ [Next]_vars => FormTypeOK'
  <1> SUFFICES ASSUME FormTypeOK, [Next]_vars PROVE FormTypeOK'
    OBVIOUS
  <1>e. editor \in Editor /\ typeId \in Types \cup {NoType} /\ withForm \in BOOLEAN
    BY DEF FormTypeOK, withForm
  <1>1. CASE OpenCreate
    BY <1>1 DEF OpenCreate, FormTypeOK, Opened, Editor, Mode
  <1>2. CASE Close
    BY <1>2, <1>e, EffectTyped DEF Close, FormTypeOK
  <1>3. CASE Edit
    BY <1>3, <1>e, EditsTyped DEF Edit, FormTypeOK
  <1>4. CASE SwitchMode
    <2>1. PICK mode \in Offered(editor, withForm, TRUE) : editor' = Switched(editor, mode)
      BY <1>4 DEF SwitchMode
    <2>2. editor' \in Editor
      BY <1>e, <2>1, OfferedTyped, SwitchedTyped
    <2> QED
      BY <1>4, <2>2 DEF SwitchMode, FormTypeOK
  <1>5. CASE FallBack
    BY <1>5, <1>e, FallenTyped DEF FallBack, FormTypeOK
  <1>6. ASSUME NEW type \in Types \cup {NoType}, ChooseType(type) PROVE FormTypeOK'
    BY <1>6, <1>e, ChoosingTyped, EffectTyped DEF ChooseType, FormTypeOK
  <1>7. CASE Rendered
    BY <1>7, <1>e, EffectTyped DEF Rendered, FormTypeOK
  <1>8. CASE Create \/ CreateRefused
    BY <1>8, <1>e, TakenTyped DEF Create, CreateRefused, FormTypeOK
  <1>9. CASE Revalidated
    BY <1>9 DEF Revalidated, FormTypeOK
  <1>10. ASSUME NEW c \in Calls, TypesListed(c) PROVE FormTypeOK'
    <2>1. Choosing(IF answer'[c] = "ok" THEN Preferred ELSE NoType)
      BY <1>10 DEF TypesListed
    <2>2. (IF answer'[c] = "ok" THEN Preferred ELSE NoType) \in Types \cup {NoType}
      OBVIOUS
    <2>3. editor' \in Editor /\ typeId' \in Types \cup {NoType}
      BY <1>e, <2>1, <2>2, ChoosingTyped
    <2> QED
      BY <1>10, <2>3 DEF TypesListed, FormTypeOK
  <1>11. ASSUME NEW c \in Calls, SchemaArrives(c) PROVE FormTypeOK'
    BY <1>11 DEF SchemaArrives, PanelAfter, FormTypeOK, PanelStatus
  <1>12. ASSUME NEW c \in Calls, Created(c) PROVE FormTypeOK'
    BY <1>12 DEF Created, FormTypeOK
  <1>13. ASSUME NEW c \in Calls, ForgetCall(c) PROVE FormTypeOK'
    BY <1>13 DEF ForgetCall, FormTypeOK
  <1>14. CASE UNCHANGED formVars
    BY <1>14 DEF formVars, FormTypeOK
  <1> QED
    BY <1>1, <1>2, <1>3, <1>4, <1>5, <1>6, <1>7, <1>8, <1>9, <1>10, <1>11, <1>12,
       <1>13, <1>14 DEF Next, vars

\* The form is typed when the dialog opens.
LEMMA InitTyped == Init => FormTypeOK
  <1> SUFFICES ASSUME Init PROVE FormTypeOK
    OBVIOUS
  <1>1. editor \in Editor
    BY DEF Init, Opened, Editor, Mode
  <1>2. panel \in [status : PanelStatus, of : Types \cup {NoType}]
    BY DEF Init, Unsupported, PanelStatus
  <1>3. asked \in [Calls -> Types \cup {NoType}]
    BY DEF Init
  <1> QED
    BY <1>1, <1>2, <1>3 DEF Init, FormTypeOK

\* The dialog's state keeps its type; a document that is sent always parses.
THEOREM FormTypeCorrect == Spec => []TypeOK
  <1>1. Init => FormTypeOK
    BY InitTyped
  <1>2. FormTypeOK /\ [Next]_vars => FormTypeOK'
    BY FormTypeStep
  <1>3. Spec => []Inv
    BY EveryCallIsARequest, RequestInvariant, PTL
  <1>4. FormTypeOK /\ Inv => TypeOK
    BY DEF FormTypeOK, Inv, TypeOK
  <1> QED
    BY <1>1, <1>2, <1>3, <1>4, PTL DEF Spec

-----------------------------------------------------------------------------
\* The request whose answer counts.  Each schema request has a controller of
\* its own, named like it, and nothing else has one; the latest is known.
CallsKnown ==
    /\ \A c \in Calls : signal[c] \in {c, NoSignal}
    /\ \A s \in aborted : signal[s] = s
    /\ \A c \in Calls : op[c] = "getEntityTypePublishedSchema" => signal[c] = c
    /\ schemaCall \in Calls => op[schemaCall] = "getEntityTypePublishedSchema"

Awaited ==
    /\ schemaCall \in Calls
    /\ wait[schemaCall] \in {"checked", "waiting"}
    /\ signal[schemaCall] \notin aborted

\* Once the effect has run: what is shown is of the type chosen, a loader waits
\* for the latest request, and what that one is still to bring is of the type.
PanelKnown ==
    ~due =>
        /\ panel.status # "unsupported" => opened /\ panel.of = typeId
        /\ panel.status = "loading" => Awaited
        /\ Awaited => opened /\ asked[schemaCall] = typeId

FormInv == Inv /\ FormTypeOK /\ CallsKnown /\ PanelKnown

\* Names that are free are nobody's: not the latest request's, not aborted.
LEMMA FreshIsFree ==
  ASSUME FormInv, NEW c \in Fresh
  PROVE  c \in Calls /\ wait[c] = "idle" /\ c # schemaCall /\ c \notin aborted
  <1>1. c \in Calls /\ wait[c] = "idle"
    BY DEF Fresh
  <1>2. op[c] = "none" /\ signal[c] = NoSignal
    BY <1>1 DEF FormInv, Inv, CallOK
  <1> QED
    BY <1>1, <1>2 DEF FormInv, CallsKnown

\* The effect leaves the panel, the latest request and the type in accord.
LEMMA EffectStep ==
  ASSUME FormInv, NEW type \in Types \cup {NoType}, NEW now \in BOOLEAN,
         SchemaEffect(type, now), typeId' = type, opened' = now, due' = FALSE
  PROVE  CallsKnown' /\ PanelKnown'
  <1>t. RequestTypeOK /\ FormTypeOK /\ CallsKnown
    BY DEF FormInv, Inv
  <1>1. CASE now /\ type # NoType
    <2>1. PICK c \in Fresh :
             /\ Call(c, "getEntityTypePublishedSchema", c, {schemaCall} \cap Calls)
             /\ schemaCall' = c
             /\ asked' = [asked EXCEPT ![c] = type]
      BY <1>1 DEF SchemaEffect
    <2>2. panel' = [status |-> "loading", of |-> type]
      BY <1>1 DEF SchemaEffect
    <2>3. c \in Calls /\ c # schemaCall /\ c \notin aborted
      BY FreshIsFree
    <2>4. /\ op' = [op EXCEPT ![c] = "getEntityTypePublishedSchema"]
          /\ signal' = [signal EXCEPT ![c] = c]
          /\ aborted' = aborted \cup ({schemaCall} \cap Calls)
          /\ wait' = [wait EXCEPT ![c] = "checked"]
      BY <2>1, <2>3 DEF Call
    <2>5. CallsKnown'
      BY <2>1, <2>3, <2>4, <1>t DEF CallsKnown, RequestTypeOK
    <2>6. Awaited' /\ asked'[c] = type
      BY <2>1, <2>3, <2>4, <1>t DEF Awaited, RequestTypeOK, FormTypeOK
    <2> QED
      BY <1>1, <2>1, <2>2, <2>5, <2>6 DEF PanelKnown
  <1>2. CASE ~(now /\ type # NoType)
    <2>1. /\ panel' = Unsupported /\ schemaCall' = schemaCall
          /\ aborted' = aborted \cup ({schemaCall} \cap Calls)
          /\ op' = op /\ signal' = signal /\ wait' = wait
      BY <1>2 DEF SchemaEffect, Abort
    <2>2. CallsKnown'
      BY <2>1, <1>t DEF CallsKnown
    <2>3. ~Awaited'
      BY <2>1, <1>t DEF CallsKnown, Awaited
    <2> QED
      BY <2>1, <2>2, <2>3 DEF PanelKnown, Unsupported
  <1> QED
    BY <1>1, <1>2

\* A step of other calls, or none, changes nothing about the latest request.
LEMMA QuietStep ==
  ASSUME FormInv, RequestTypeOK',
         UNCHANGED <<schemaCall, asked>>,
         aborted' = aborted,
         \A c \in Calls :
            /\ op'[c] # op[c] => wait[c] = "idle" /\ op'[c] # "getEntityTypePublishedSchema"
            /\ signal'[c] # signal[c] => wait[c] = "idle" /\ signal'[c] = NoSignal,
         \/ UNCHANGED <<panel, due, opened, typeId>>
            /\ (Awaited => wait'[schemaCall] \in {"checked", "waiting"})
            /\ (schemaCall \in Calls /\ wait'[schemaCall] \in {"checked", "waiting"} =>
                  wait[schemaCall] \in {"checked", "waiting"})
         \/ due'
  PROVE  CallsKnown' /\ PanelKnown'
  <1>t. RequestTypeOK /\ FormTypeOK /\ CallsKnown /\ PanelKnown /\ \A c \in Calls : CallOK(c)
    BY DEF FormInv, Inv
  <1>1. schemaCall \in Calls => op'[schemaCall] = op[schemaCall] /\ signal'[schemaCall] = signal[schemaCall]
    BY <1>t DEF CallsKnown, CallOK
  <1>2. \A s \in aborted : s \in Calls /\ wait[s] # "idle" /\ signal'[s] = signal[s]
    <2> SUFFICES ASSUME NEW s \in aborted
                 PROVE  s \in Calls /\ wait[s] # "idle" /\ signal'[s] = signal[s]
      OBVIOUS
    <2>1. s \in Calls /\ signal[s] = s
      BY <1>t DEF CallsKnown, RequestTypeOK
    <2>2. wait[s] # "idle"
      BY <1>t, <2>1 DEF CallOK
    <2> QED
      BY <2>1, <2>2
  <1>3. CallsKnown'
    <2>1. \A c \in Calls : signal'[c] \in {c, NoSignal}
      BY <1>t DEF CallsKnown
    <2>2. \A c \in Calls : op'[c] = "getEntityTypePublishedSchema" => signal'[c] = c
      BY <1>t DEF CallsKnown, CallOK
    <2> QED
      BY <1>t, <1>1, <1>2, <2>1, <2>2 DEF CallsKnown
  <1>4. PanelKnown'
    BY <1>t, <1>1 DEF PanelKnown, Awaited
  <1> QED
    BY <1>3, <1>4

\* An answer about a schema: only the latest, not aborted, reaches the panel.
LEMMA ArrivalStep ==
  ASSUME FormInv, NEW c \in Calls, SchemaArrives(c)
  PROVE  CallsKnown' /\ PanelKnown'
  <1>t. RequestTypeOK /\ FormTypeOK /\ CallsKnown /\ PanelKnown
    BY DEF FormInv, Inv
  <1>1. /\ UNCHANGED <<op, signal, aborted, opened, typeId, schemaCall, due, asked>>
        /\ wait' = [wait EXCEPT ![c] = "done"]
        /\ wait[c] \in {"checked", "waiting"}
        /\ panel' = PanelAfter(c)
    BY DEF SchemaArrives, Deliver, GiveUp
  <1>2. CallsKnown'
    BY <1>1, <1>t DEF CallsKnown
  <1>3. CASE c # schemaCall \/ signal[c] \in aborted
    <2>1. panel' = panel
      BY <1>1, <1>3 DEF PanelAfter
    <2>2. Awaited' <=> Awaited
      BY <1>1, <1>3, <1>t DEF Awaited, RequestTypeOK
    <2> QED
      BY <1>1, <1>2, <1>t, <2>1, <2>2 DEF PanelKnown
  <1>4. CASE c = schemaCall /\ signal[c] \notin aborted
    <2>1. Awaited /\ ~Awaited'
      BY <1>1, <1>4, <1>t DEF Awaited, RequestTypeOK
    <2>2. panel'.status \in {"error", "ok", "none"} /\ panel'.of = asked[c]
      BY <1>1, <1>4 DEF PanelAfter
    <2> QED
      BY <1>1, <1>2, <1>4, <1>t, <2>1, <2>2 DEF PanelKnown
  <1> QED
    BY <1>3, <1>4

\* A name is given back: only what used it forgets it.
LEMMA ForgetStep ==
  ASSUME FormInv, NEW c \in Calls, ForgetCall(c)
  PROVE  CallsKnown' /\ PanelKnown'
  <1>t. RequestTypeOK /\ FormTypeOK /\ CallsKnown /\ PanelKnown
    BY DEF FormInv, Inv
  <1>1. /\ UNCHANGED <<opened, typeId, panel, due>>
        /\ op' = [op EXCEPT ![c] = "none"]
        /\ signal' = [signal EXCEPT ![c] = NoSignal]
        /\ wait' = [wait EXCEPT ![c] = "idle"] /\ wait[c] = "done"
        /\ aborted' = aborted \ {s \in Signals : \A b \in Calls \ {c} : signal[b] # s}
        /\ schemaCall' = IF schemaCall = c THEN NoSignal ELSE schemaCall
        /\ asked' = [asked EXCEPT ![c] = NoType]
    BY DEF ForgetCall, Forget
  <1>2. \A s \in aborted : s \in Calls /\ signal[s] = s
    BY <1>t DEF CallsKnown, RequestTypeOK
  <1>3. aborted' = aborted \ {c}
    <2>1. \A s \in aborted \ {c} : s \in Calls \ {c} /\ signal[s] = s
      BY <1>2
    <2>2. c \in aborted => \A b \in Calls \ {c} : signal[b] # c
      BY <1>t DEF CallsKnown
    <2> QED
      BY <1>1, <2>1, <2>2
  <1>4. CallsKnown'
    BY <1>1, <1>2, <1>3, <1>t DEF CallsKnown, RequestTypeOK
  <1>5. CASE schemaCall = c
    <2>1. ~Awaited /\ ~Awaited'
      BY <1>1, <1>5 DEF Awaited
    <2> QED
      BY <1>1, <1>4, <1>t, <2>1 DEF PanelKnown
  <1>6. CASE schemaCall # c
    <2>1. Awaited' <=> Awaited
      <3>1. schemaCall' = schemaCall
        BY <1>1, <1>6
      <3>2. schemaCall \in Calls => wait'[schemaCall] = wait[schemaCall]
                                   /\ signal'[schemaCall] = signal[schemaCall]
        BY <1>1, <1>6, <1>t DEF RequestTypeOK
      <3>3. schemaCall \in Calls => signal[schemaCall] # c
        BY <1>6, <1>t DEF CallsKnown
      <3>4. schemaCall \in Calls => (signal[schemaCall] \in aborted' <=> signal[schemaCall] \in aborted)
        BY <1>3, <3>3
      <3> QED
        BY <3>1, <3>2, <3>4 DEF Awaited
    <2>2. schemaCall \in Calls => asked'[schemaCall] = asked[schemaCall]
      BY <1>1, <1>6, <1>t DEF FormTypeOK
    <2> QED
      BY <1>1, <1>4, <1>6, <1>t, <2>1, <2>2 DEF PanelKnown, Awaited
  <1> QED
    BY <1>5, <1>6

\* Every step keeps what the form knows of its requests.
LEMMA FormStep == FormInv /\ [Next]_vars => CallsKnown' /\ PanelKnown'
  <1> SUFFICES ASSUME FormInv, [Next]_vars PROVE CallsKnown' /\ PanelKnown'
    OBVIOUS
  <1>t. RequestTypeOK /\ FormTypeOK /\ CallsKnown /\ PanelKnown /\ RequestTypeOK'
    BY StepIsRequestStep, TypeStep DEF FormInv, Inv
  <1>q. ASSUME UNCHANGED <<requestVars, panel, due, opened, typeId, schemaCall, asked>>
        PROVE  CallsKnown' /\ PanelKnown'
    BY <1>q, <1>t DEF requestVars, CallsKnown, PanelKnown, Awaited
  <1>1. ASSUME NEW c \in Fresh, NEW o \in {"listEntityTypes", "create"},
               Call(c, o, NoSignal, {}), UNCHANGED <<panel, due, opened, typeId, schemaCall, asked>>
        PROVE  CallsKnown' /\ PanelKnown'
    <2>1. c \in Calls /\ wait[c] = "idle" /\ c # schemaCall
      BY FreshIsFree
    <2>2. /\ op' = [op EXCEPT ![c] = o] /\ signal' = [signal EXCEPT ![c] = NoSignal]
          /\ wait' = [wait EXCEPT ![c] = "waiting"] /\ aborted' = aborted
      BY <1>1 DEF Call
    <2>3. \A b \in Calls :
             /\ op'[b] # op[b] => wait[b] = "idle" /\ op'[b] # "getEntityTypePublishedSchema"
             /\ signal'[b] # signal[b] => wait[b] = "idle" /\ signal'[b] = NoSignal
      BY <2>1, <2>2, <1>t DEF RequestTypeOK
    <2>4. schemaCall \in Calls => wait'[schemaCall] = wait[schemaCall]
      BY <2>1, <2>2, <1>t DEF RequestTypeOK
    <2> QED
      BY <1>1, <1>t, <2>2, <2>3, <2>4, QuietStep DEF Awaited
  <1>2. CASE OpenCreate
    BY <1>2, <1>1 DEF OpenCreate
  <1>3. CASE Create
    BY <1>3, <1>1 DEF Create
  <1>4. CASE Edit \/ SwitchMode \/ FallBack \/ CreateRefused \/ Revalidated
    BY <1>4, <1>q DEF Edit, SwitchMode, FallBack, CreateRefused, Revalidated
  <1>5. CASE UNCHANGED vars
    BY <1>5, <1>q DEF vars, formVars
  <1>6. ASSUME NEW type \in Types \cup {NoType}, ChooseType(type) PROVE CallsKnown' /\ PanelKnown'
    <2>1. typeId' = type /\ opened' = TRUE /\ due' = FALSE /\ SchemaEffect(type, TRUE)
      BY <1>6 DEF ChooseType, Choosing
    <2> QED
      BY <2>1, EffectStep
  <1>7. CASE Close
    BY <1>7, <1>t, EffectStep DEF Close, FormTypeOK
  <1>8. CASE Rendered
    BY <1>8, <1>t, EffectStep DEF Rendered, FormTypeOK
  <1>9. ASSUME NEW c \in Calls, Deliver(c), op[c] # "getEntityTypePublishedSchema",
               UNCHANGED <<panel, schemaCall, asked>>,
               due' \/ UNCHANGED <<due, opened, typeId>>
        PROVE  CallsKnown' /\ PanelKnown'
    <2>1. /\ op' = op /\ signal' = signal /\ aborted' = aborted
          /\ wait' = [wait EXCEPT ![c] = "done"]
      BY <1>9 DEF Deliver
    <2>2. schemaCall \in Calls => wait'[schemaCall] = wait[schemaCall]
      BY <1>9, <2>1, <1>t DEF CallsKnown, RequestTypeOK
    <2> QED
      BY <1>9, <1>t, <2>1, <2>2, QuietStep DEF Awaited
  <1>10. ASSUME NEW c \in Calls, TypesListed(c) PROVE CallsKnown' /\ PanelKnown'
    <2>1. due' \/ UNCHANGED <<due, opened, typeId>>
      BY <1>10, <1>t DEF TypesListed, FormTypeOK
    <2> QED
      BY <1>10, <2>1, <1>9 DEF TypesListed
  <1>11. ASSUME NEW c \in Calls, Created(c) PROVE CallsKnown' /\ PanelKnown'
    <2>1. due' \/ UNCHANGED <<due, opened, typeId>>
      BY <1>11, <1>t DEF Created, FormTypeOK
    <2> QED
      BY <1>11, <2>1, <1>9 DEF Created
  <1>12. ASSUME NEW c \in Calls, Inner(c), UNCHANGED formVars
         PROVE  CallsKnown' /\ PanelKnown'
    <2>1. /\ op' = op /\ signal' = signal /\ aborted' = aborted
          /\ wait' = wait \/ (wait[c] = "checked" /\ wait' = [wait EXCEPT ![c] = "waiting"])
      BY <1>12 DEF Inner, Listen, Send, Serve, FetchFails, ReadBody
    <2>2. schemaCall \in Calls =>
             (wait'[schemaCall] \in {"checked", "waiting"} <=>
              wait[schemaCall] \in {"checked", "waiting"})
      BY <2>1, <1>t DEF RequestTypeOK
    <2> QED
      BY <1>12, <1>t, <2>1, <2>2 DEF formVars, CallsKnown, PanelKnown, Awaited
  <1> QED
    BY <1>2, <1>3, <1>4, <1>5, <1>6, <1>7, <1>8, <1>10, <1>11, <1>12, ArrivalStep, ForgetStep
       DEF Next

\* The inductive invariant of the dialog.
THEOREM FormAlways == Spec => []FormInv
  <1>1. Init => CallsKnown /\ PanelKnown
    BY DEF Init, RequestInit, CallsKnown, PanelKnown, Awaited, Unsupported
  <1>2. Init => FormTypeOK /\ Inv
    <2>1. Init => Inv
      BY DEF Init, RequestInit, Inv, RequestTypeOK, CallOK, Settlement, Code, Status, OkStatus
    <2>2. Init => FormTypeOK
      BY InitTyped
    <2> QED
      BY <2>1, <2>2
  <1>3. FormInv /\ [Next]_vars => FormInv'
    BY FormStep, FormTypeStep, StepIsRequestStep, TypeStep, CallStep DEF FormInv, Inv
  <1> QED
    BY <1>1, <1>2, <1>3, PTL DEF Spec, FormInv

\* The schema on screen, which the form is built from, is the chosen type's,
\* whatever is chosen in the meantime and in whichever order answers come.
THEOREM SchemaTheorem == Spec => []SchemaIsOfChosenType
  <1>1. FormInv => SchemaIsOfChosenType
    BY DEF FormInv, PanelKnown, SchemaIsOfChosenType
  <1> QED
    BY <1>1, FormAlways, PTL

\* A loader in the schema panel always has a request that will end it.
THEOREM LoaderTheorem == Spec => []LoaderIsAwaited
  <1>1. FormInv => LoaderIsAwaited
    BY DEF FormInv, CallsKnown, PanelKnown, Awaited, LoaderIsAwaited
  <1> QED
    BY <1>1, FormAlways, PTL

\* Changing the view of the document loses nothing the user typed.
THEOREM SwitchTheorem == Spec => SwitchKeepsDocument
  <1>1. ASSUME FormTypeOK, Next, editor'.mode # editor.mode, typeId' = typeId, opened
        PROVE  Shown(editor') = Shown(editor)
    <2>t. editor \in Editor /\ withForm \in BOOLEAN
      BY <1>1 DEF FormTypeOK, withForm
    <2>1. CASE SwitchMode
      <3>1. PICK mode : editor' = Switched(editor, mode)
        BY <2>1 DEF SwitchMode
      <3>2. CASE mode = "source"
        BY <1>1, <2>t, <3>1, <3>2 DEF Switched, Shown, Editor
      <3>3. CASE mode # "source" /\ editor.mode = "source"
        BY <1>1, <2>t, <3>1, <3>3 DEF Switched, Shown, Editor, Parses
      <3>4. CASE mode # "source" /\ editor.mode # "source"
        BY <1>1, <2>t, <3>1, <3>4 DEF Switched, Shown, Editor
      <3> QED
        BY <3>2, <3>3, <3>4
    <2>2. CASE FallBack
      <3>1. editor' = FallenBack(editor, withForm) /\ editor.mode \in {"form", "schema"}
        BY <2>2 DEF FallBack, FallsBack
      <3> QED
        BY <2>t, <3>1 DEF FallenBack, Shown, Editor
    <2>3. CASE Edit
      BY <1>1, <2>t, <2>3 DEF Edit, Edits, Editor
    <2>4. CASE Create \/ CreateRefused
      BY <1>1, <2>t, <2>4 DEF Create, CreateRefused, Taken, Editor
    <2>5. ASSUME NEW type \in Types \cup {NoType}, ChooseType(type) PROVE FALSE
      BY <1>1, <2>5 DEF ChooseType, Choosing
    <2>6. ASSUME NEW c \in Calls, TypesListed(c) PROVE FALSE
      BY <1>1, <2>6 DEF TypesListed, Choosing
    <2>7. ~OpenCreate
      BY <1>1 DEF OpenCreate
    <2>8. ~(editor' = editor)
      BY <1>1
    <2> QED
      BY <1>1, <2>1, <2>2, <2>3, <2>4, <2>5, <2>6, <2>7, <2>8
         DEF Next, Close, Rendered, Revalidated, SchemaArrives, Created, ForgetCall, formVars
  <1>2. FormInv /\ [Next]_vars =>
           [editor'.mode # editor.mode /\ typeId' = typeId /\ opened =>
               Shown(editor') = Shown(editor)]_vars
    BY <1>1 DEF FormInv
  <1> QED
    BY <1>2, FormAlways, PTL DEF Spec, SwitchKeepsDocument
=============================================================================
