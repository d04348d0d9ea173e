------------------------- MODULE MCEntityTypeCatalog -------------------------
(***************************************************************************)
(* Small instances of EntityTypeCatalog for TLC.                           *)
(***************************************************************************)
EXTENDS EntityTypeCatalog, TLC

CONSTANTS a1, a2, a3
AdminSymmetry == Permutations(Admins)
=============================================================================
