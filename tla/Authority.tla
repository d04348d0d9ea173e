----------------------------- MODULE Authority -----------------------------
(***************************************************************************)
(* Field authority: which source of a write may change which field of a    *)
(* profile document (internal/profiles/authority.go, authority_merge.go).  *)
(*                                                                         *)
(* A stored document is flat: a function from paths ("namespace/field") to *)
(* cells.  A cell holds the field's value and the source recorded for it   *)
(* under _meta.authority; the cell of a path the document lacks is Absent. *)
(* Paths are assumed prefix-free (no path is also the namespace of another *)
(* one), where flattenDocument and unflattenDocument are inverse.          *)
(***************************************************************************)
EXTENDS Naturals

CONSTANTS
    Paths,    \* the fields of a document
    Values,   \* JSON values of a field
    Sources,  \* sources of a write, "api" when the caller names none
    NoValue   \* the field is not in the document

ASSUME PathsAssumption == Paths # {}
ASSUME NoValueAssumption == NoValue \notin Values
ASSUME SourcesAssumption == {"manual", "api"} \subseteq Sources

Data == [Paths -> Values \cup {NoValue}]
Cell == [val : Values \cup {NoValue}, src : Sources]
Document == [Paths -> Cell]

\* A path without an authority entry counts as written by "api".
Absent == [val |-> NoValue, src |-> "api"]
EmptyDocument == [p \in Paths |-> Absent]
DataOf(doc) == [p \in Paths |-> doc[p].val]
Present(cell) == cell.val # NoValue

priorityOf(source) ==
    CASE source = "manual" -> 1000
      [] source = "hris" -> 400
      [] source = "crm" -> 350
      [] source = "ad" -> 300
      [] source = "import" -> 200
      [] source = "api" -> 100
      [] source = "sync" -> 80
      [] source = "internal" -> 50
      [] OTHER -> 30

\* An incoming value replaces a different one when it comes from the same
\* source or from one of strictly higher priority; it is a conflict otherwise.
Outranks(source, cell) ==
    source = cell.src \/ priorityOf(source) > priorityOf(cell.src)
\* Mutant: the last writer wins.
AppliesAlways(cell, value, source) == value \notin {NoValue, cell.val}
Applies(cell, value, source) ==
    /\ value \notin {NoValue, cell.val}
    /\ Present(cell) => Outranks(source, cell)
\* Mutant: a field the incoming document lacks is a candidate too.
ConflictsWhenLacking(cell, value, source) ==
    value # cell.val /\ Present(cell) /\ ~Outranks(source, cell)
Conflicts(cell, value, source) ==
    /\ value \notin {NoValue, cell.val}
    /\ Present(cell) /\ ~Outranks(source, cell)

\* applyAuthorityToDocuments: the merged document, the paths that become
\* conflict candidates, and whether any field changed.
Merged(doc, data, source) ==
    [p \in Paths |-> IF Applies(doc[p], data[p], source)
                     THEN [val |-> data[p], src |-> source]
                     ELSE doc[p]]
Candidates(doc, data, source) ==
    {p \in Paths : Conflicts(doc[p], data[p], source)}
DocChanged(doc, data, source) ==
    \E p \in Paths : Applies(doc[p], data[p], source)

initialDocumentWithAuthority(data, source) ==
    [p \in Paths |-> IF data[p] = NoValue THEN Absent
                     ELSE [val |-> data[p], src |-> source]]

\* An operator's decision on one field: the value, authority "manual".
Resolved(doc, path, value) ==
    [doc EXCEPT ![path] = [val |-> value, src |-> "manual"]]

\* Two profiles of one person: on equal priority the target keeps its value.
mergeDocumentsForDuplicate(target, source) ==
    [p \in Paths |->
        IF Present(source[p])
           /\ (Present(target[p]) =>
                 priorityOf(source[p].src) > priorityOf(target[p].src))
        THEN source[p] ELSE target[p]]

\* No field of doc is lost in next, and none is handed to a weaker source.
NoWeaker(doc, next) ==
    \A p \in Paths : Present(doc[p]) =>
        /\ Present(next[p])
        /\ priorityOf(next[p].src) >= priorityOf(doc[p].src)
=============================================================================
