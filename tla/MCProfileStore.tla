--------------------------- MODULE MCProfileStore ---------------------------
(***************************************************************************)
(* Small instances of ProfileStore for TLC.                                *)
(***************************************************************************)
EXTENDS ProfileStore, TLC

CONSTANTS r1, r2, r3, a, b, none, p1

\* "Any" accepts every document, "Strict" is a closed schema that demands the
\* value a, "Tight" an open one that does.
AnySchema == [allowed |-> [p \in Paths |-> Values \cup {none}], open |-> TRUE]
TightSchema == [allowed |-> [p \in Paths |-> {a}], open |-> TRUE]
StrictSchema == [allowed |-> [p \in Paths |-> {a}], open |-> FALSE]

OneSchema == {AnySchema}
TwoSchemas == {AnySchema, TightSchema}
ThreeSchemas == {AnySchema, TightSchema, StrictSchema}
RequestSymmetry == Permutations(Requests)
=============================================================================
