------------------------- MODULE MCEntityTypesWidget -------------------------
(***************************************************************************)
(* Instances of EntityTypesWidget for TLC.                                  *)
(***************************************************************************)
EXTENDS EntityTypesWidget, TLC

CONSTANTS fa, fb, none

\* Two families to select between: each can be listed, renamed and deleted, one
\* of them published and its profiles upgraded.
TwoVersions == fa :> 1 @@ fb :> 1
TwoRevisions == fa :> 1 @@ fb :> 0

\* Their drafts are saved too, each once.
SavedVersions == fa :> 2 @@ fb :> 2

\* One family, yet to be created: saved twice, by whichever user, and published
\* or not.
ManyVersions == fa :> 3
NoRevision == fa :> 0
OneRevision == fa :> 1
=============================================================================
