------------------------------ MODULE CreateForm ------------------------------
(***************************************************************************)
(* The "create profile" dialog of the profile widget                        *)
(* (components/ProfilesWidgetProfileDetailCore.tsx) over the requests it    *)
(* makes: the entity types when it is asked to open, the published schema   *)
(* of the chosen type, the creation.                                        *)
(*                                                                         *)
(* React renders what a press changes, and runs the effects of that, before *)
(* the next event: one step.  What the answer of a request changes is       *)
(* rendered later: a step of its own (Rendered), others may come before.    *)
(***************************************************************************)
EXTENDS ApiRequest, DraftEditor, FiniteSets

CONSTANTS
    Types,      \* entity types
    NoType,     \* none is chosen
    Preferred,  \* initialCreateEntityTypeId, or else the first row
    Published   \* types with a published schema

ASSUME FormAssumption ==
    /\ Calls = Signals /\ Calls \subseteq Nat  \* a call's own controller
    /\ NoType \notin Types
    /\ Preferred \in Types /\ Published \subseteq Types

VARIABLES
    opened,      \* createModalOpened
    typeId,      \* createTypeId
    options,     \* entityTypeOptions
    editor,      \* createDraftMode, createDraftValue, createDraftSourceText
    panel,       \* createPublishedSchema: its status and whose schema it is
    schemaCall,  \* createSchemaRequestRef: the latest request of a schema
    due,         \* an answer changed the form and its schema effect is to run
    busy,        \* busyEntityId is "create", and while the list reloads
    asked        \* asked[c]: the type whose schema is asked for

formVars == <<opened, typeId, options, editor, panel, schemaCall, due, busy, asked>>
vars == <<requestVars, formVars>>

\* The types and ranges of the form's state.
TypeOK ==
    /\ RequestTypeOK
    /\ opened \in BOOLEAN
    /\ typeId \in Types \cup {NoType}
    /\ options \subseteq Types
    /\ editor \in Editor
    /\ panel \in [status : PanelStatus, of : Types \cup {NoType}]
    /\ schemaCall \in Calls \cup {NoSignal}
    /\ due \in BOOLEAN
    /\ busy \in {"no", "create", "reload"}
    /\ asked \in [Calls -> Types \cup {NoType}]

Unsupported == [status |-> "unsupported", of |-> NoType]

Init ==
    /\ RequestInit
    /\ opened = FALSE /\ typeId = NoType /\ options = {}
    /\ editor = Opened(Empty)
    /\ panel = Unsupported /\ schemaCall = NoSignal /\ due = FALSE
    /\ busy = "no"
    /\ asked = [c \in Calls |-> NoType]

\* Names of calls are alike: the least free one will do.
Fresh == {c \in Calls : wait[c] = "idle" /\ \A b \in Calls : b < c => wait[b] # "idle"}

withForm == panel.status = "ok"

-----------------------------------------------------------------------------
\* Add: the form is reset and the types are asked for; the dialog opens later.
OpenCreate ==
    /\ ~opened
    /\ editor' = Opened(Empty)
    /\ \E c \in Fresh : Call(c, "listEntityTypes", NoSignal, {})
    /\ UNCHANGED <<opened, typeId, options, panel, schemaCall, due, busy, asked>>

\* setCreateTypeId and its effect: the editor goes back to the form.
Choosing(type) ==
    /\ typeId' = type
    /\ editor' = IF type # typeId THEN [editor EXCEPT !.mode = "form", !.text = NoText]
                 ELSE editor

\* The schema effect: its cleanup aborts the request before, and its body asks
\* for the schema of the type, if the dialog is open and has one.
SchemaEffect(type, openedNow) ==
    IF openedNow /\ type # NoType
    THEN /\ panel' = [status |-> "loading", of |-> type]
         /\ \E c \in Fresh :
               /\ Call(c, "getEntityTypePublishedSchema", c, {schemaCall} \cap Calls)
               /\ schemaCall' = c
               /\ asked' = [asked EXCEPT ![c] = type]
    ELSE /\ panel' = Unsupported
         /\ Abort({schemaCall} \cap Calls)
         /\ UNCHANGED <<schemaCall, asked>>

TypesListed(c) ==
    /\ op[c] = "listEntityTypes"
    /\ Deliver(c)
    /\ options' = IF answer'[c] = "ok" THEN Types ELSE options
    /\ Choosing(IF answer'[c] = "ok" THEN Preferred ELSE NoType)
    /\ opened' = TRUE
    /\ due' = (due \/ ~opened \/ typeId' # typeId)
    /\ UNCHANGED <<panel, schemaCall, busy, asked>>

\* What an answer changed is rendered, and the effect runs.
Rendered ==
    /\ due /\ due' = FALSE
    /\ SchemaEffect(typeId, opened)
    /\ UNCHANGED <<opened, typeId, options, editor, busy>>

\* A press is rendered, with its effects, before anything else happens.  The
\* type that is chosen can also be taken back.
ChooseType(type) ==
    /\ opened /\ type \in (options \cup {NoType}) \ {typeId}
    /\ Choosing(type)
    /\ SchemaEffect(type, TRUE)
    /\ due' = FALSE
    /\ UNCHANGED <<opened, options, busy>>

\* Cancel, or closeCreate of the host.
Close ==
    /\ opened /\ opened' = FALSE
    /\ SchemaEffect(typeId, FALSE)
    /\ due' = FALSE
    /\ UNCHANGED <<typeId, options, editor, busy>>

\* Mutant: whichever answer comes last is shown.
ShownLate(c) ==
    [status |-> IF answer'[c] # "ok" THEN "error"
                ELSE IF asked[c] \in Published THEN "ok" ELSE "none",
     of |-> asked[c]]
\* Mutant: an error is not shown.
PanelAfterOk(c) ==
    IF c # schemaCall \/ signal[c] \in aborted \/ answer'[c] # "ok" THEN panel
    ELSE [status |-> IF asked[c] \in Published THEN "ok" ELSE "none", of |-> asked[c]]
\* The answer counts only for the latest request, and only if not aborted.
PanelAfter(c) ==
    IF c # schemaCall \/ signal[c] \in aborted THEN panel
    ELSE [status |-> IF answer'[c] # "ok" THEN "error"
                     ELSE IF asked[c] \in Published THEN "ok" ELSE "none",
          of |-> asked[c]]

SchemaArrives(c) ==
    /\ op[c] = "getEntityTypePublishedSchema"
    /\ Deliver(c) \/ GiveUp(c)
    /\ panel' = PanelAfter(c)
    /\ UNCHANGED <<opened, typeId, options, editor, schemaCall, due, busy, asked>>

-----------------------------------------------------------------------------
Edit ==
    /\ opened
    /\ editor' \in Edits(editor, withForm)
    /\ UNCHANGED <<requestVars, opened, typeId, options, panel, schemaCall, due, busy, asked>>

SwitchMode ==
    /\ opened
    /\ \E mode \in Offered(editor, withForm, TRUE) : editor' = Switched(editor, mode)
    /\ UNCHANGED <<requestVars, opened, typeId, options, panel, schemaCall, due, busy, asked>>

\* The toolbar's effect; while the type changes the form's own effect may
\* come after it and undo it, so it need not happen.
FallBack ==
    /\ opened /\ FallsBack(editor, withForm, TRUE)
    /\ editor' = FallenBack(editor, withForm)
    /\ UNCHANGED <<requestVars, opened, typeId, options, panel, schemaCall, due, busy, asked>>

-----------------------------------------------------------------------------
\* handleCreate up to its request.
Create ==
    /\ opened /\ busy = "no" /\ DraftSaveOk(editor)
    /\ typeId # NoType
    /\ editor' = Taken(editor)
    /\ busy' = "create"
    /\ \E c \in Fresh : Call(c, "create", NoSignal, {})
    /\ UNCHANGED <<opened, typeId, options, panel, schemaCall, due, asked>>

\* No type, no name, or a name the loaded list has: nothing is sent.
CreateRefused ==
    /\ opened /\ busy = "no" /\ DraftSaveOk(editor)
    /\ editor' = Taken(editor)
    /\ UNCHANGED <<requestVars, opened, typeId, options, panel, schemaCall, due, busy, asked>>

Created(c) ==
    /\ op[c] = "create"
    /\ Deliver(c)
    /\ IF answer'[c] = "ok"
       THEN opened' = FALSE /\ due' = (due \/ opened) /\ busy' = "reload"
       ELSE busy' = "no" /\ UNCHANGED <<opened, due>>
    /\ UNCHANGED <<typeId, options, editor, panel, schemaCall, asked>>

\* onListRevalidate has ended.
Revalidated ==
    /\ busy = "reload" /\ busy' = "no"
    /\ UNCHANGED <<requestVars, opened, typeId, options, editor, panel, schemaCall, due, asked>>

ForgetCall(c) ==
    /\ Forget(c)
    /\ schemaCall' = IF schemaCall = c THEN NoSignal ELSE schemaCall
    /\ asked' = [asked EXCEPT ![c] = NoType]
    /\ UNCHANGED <<opened, typeId, options, editor, panel, due, busy>>

Next ==
    \/ OpenCreate \/ Close \/ Edit \/ SwitchMode \/ FallBack
    \/ \E type \in Types \cup {NoType} : ChooseType(type)
    \/ Rendered \/ Create \/ CreateRefused \/ Revalidated
    \/ \E c \in Calls :
          \/ TypesListed(c) \/ SchemaArrives(c) \/ Created(c) \/ ForgetCall(c)
          \/ Inner(c) /\ UNCHANGED formVars

Spec == Init /\ [][Next]_vars

-----------------------------------------------------------------------------
\* The schema the form is built from and the panel shows is the one of the
\* type that will be sent, however fast types are changed and whichever answer
\* comes first (createSchemaRequestRef and the abort of the request before).
SchemaIsOfChosenType ==
    ~due /\ panel.status # "unsupported" => opened /\ panel.of = typeId

\* A loader is shown only while somebody still waits for the schema: no
\* dropped answer leaves it turning.
LoaderIsAwaited ==
    ~due /\ panel.status = "loading" =>
        \E c \in Calls :
            /\ op[c] = "getEntityTypePublishedSchema" /\ asked[c] = typeId
            /\ wait[c] \in {"checked", "waiting"}
            /\ signal[c] \notin aborted

\* Within one opening and one type, changing the view never loses what was
\* typed: a text that does not parse keeps the user in the source view, one
\* that does becomes the document (handleModeChange).  Only a new type or a
\* new opening resets it.
SwitchKeepsDocument ==
    [][editor'.mode # editor.mode /\ typeId' = typeId /\ opened =>
          Shown(editor') = Shown(editor)]_vars
=============================================================================
