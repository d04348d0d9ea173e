----------------------------- MODULE MCCreateForm -----------------------------
(***************************************************************************)
(* Instances of CreateForm for TLC.                                         *)
(***************************************************************************)
EXTENDS CreateForm

CONSTANTS e, d, broken, noText, t1, t2, noType
=============================================================================
