----------------------------- MODULE DraftEditor -----------------------------
(***************************************************************************)
(* The JSON document editor of the widgets                                 *)
(* (components/EntityTypesDraftJsonEditor.tsx): one document shown as a     *)
(* form, a tree, a source text or beside its schema.  Its owner keeps the   *)
(* mode, the parsed value and the text; here they are one record, and each  *)
(* handler of the editor maps it to the next.  The owner's text is written  *)
(* when the source view is entered and read only there, so outside it the   *)
(* record says NoText.                                                      *)
(***************************************************************************)
EXTENDS Naturals, Sequences

CONSTANTS
    Documents,  \* JSON objects; a text that parses is named by its object
    Empty,      \* the object {}
    Broken,     \* a text that is no JSON object
    NoText      \* the text outside the source view

ASSUME DocumentsAssumption ==
    /\ Empty \in Documents
    /\ Broken \notin Documents /\ NoText \notin Documents /\ Broken # NoText

Mode == {"form", "tree", "source", "schema"}
Editor == [mode : Mode, value : Documents, text : Documents \cup {Broken, NoText}]

\* Mutant: the result of the parse is not looked at.
ParsesAlways(text) == text # NoText
\* parseEntityTypeDraftSchemaText succeeds.
Parses(text) == text \in Documents

Opened(document) == [mode |-> "form", value |-> document, text |-> NoText]

\* The document as its user sees it, broken text included.
Shown(editor) == IF editor.mode = "source" THEN editor.text ELSE editor.value

\* editDraftSaveOk, createDraftSaveOk: the save button's guard.
DraftSaveOk(editor) == editor.mode = "source" => Parses(editor.text)

\* The owner saves: in the source view the parsed text becomes the value.
Taken(editor) ==
    IF editor.mode = "source" THEN [editor EXCEPT !.value = editor.text] ELSE editor

draftJsonModeOrder(withForm, withSchema) ==
    (IF withForm THEN <<"form">> ELSE <<>>) \o <<"tree", "source">>
        \o (IF withSchema THEN <<"schema">> ELSE <<>>)

\* The one-button toolbar of narrow screens: the mode after this one; a mode
\* that is not offered counts as the first.
NextMode(editor, withForm, withSchema) ==
    LET order == draftJsonModeOrder(withForm, withSchema)
        at == {i \in DOMAIN order : order[i] = editor.mode}
        place == IF at = {} THEN 1 ELSE CHOOSE i \in at : TRUE
    IN  order[(place % Len(order)) + 1]

\* The modes the toolbar lets one press in: every other segment of the wide
\* one (it marks the first when the mode is not offered), the next of the
\* narrow one.
Offered(editor, withForm, withSchema) ==
    LET order == draftJsonModeOrder(withForm, withSchema)
        modes == {order[i] : i \in DOMAIN order}
        marked == IF editor.mode \in modes THEN editor.mode ELSE order[1]
    IN  (modes \ {marked}) \cup {NextMode(editor, withForm, withSchema)}

\* Mutant: the schema is shown without taking over the text.
SwitchedForgetting(editor, mode) ==
    CASE mode = "source" ->
             [mode |-> "source", value |-> editor.value, text |-> editor.value]
      [] mode # "source" /\ editor.mode = "source" ->
             IF ~Parses(editor.text) THEN editor
             ELSE [mode |-> mode,
                   value |-> IF mode = "schema" THEN editor.value ELSE editor.text,
                   text |-> NoText]
      [] OTHER -> [editor EXCEPT !.mode = mode]
\* handleModeChange for an offered mode that is not the present one: entering
\* the source writes the text, leaving it needs a text that parses.
Switched(editor, mode) ==
    CASE mode = "source" ->
             [mode |-> "source", value |-> editor.value, text |-> editor.value]
      [] mode # "source" /\ editor.mode = "source" ->
             IF ~Parses(editor.text) THEN editor
             ELSE [mode |-> mode, value |-> editor.text, text |-> NoText]
      [] OTHER -> [editor EXCEPT !.mode = mode]

\* The toolbar's effects: a mode that is no longer offered falls back.
FallsBack(editor, withForm, withSchema) ==
    \/ editor.mode = "form" /\ ~withForm
    \/ editor.mode = "schema" /\ ~withSchema
FallenBack(editor, withForm) ==
    [editor EXCEPT !.mode =
        IF editor.mode = "schema" /\ withForm THEN "form" ELSE "tree"]

\* What the user can make of the document in the present view; the schema is
\* read only, and a form that is not there shows nothing.
Edits(editor, withForm) ==
    CASE editor.mode = "source" ->
             {[editor EXCEPT !.text = text] : text \in Documents \cup {Broken}}
      [] editor.mode = "tree" \/ (editor.mode = "form" /\ withForm) ->
             {[editor EXCEPT !.value = document] : document \in Documents}
      [] OTHER -> {editor}

\* A schema panel shown by owners: what is known of a type's published schema.
PanelStatus == {"unsupported", "loading", "ok", "none", "error"}
=============================================================================
