--------------------------- MODULE MCProfileDetail ---------------------------
(***************************************************************************)
(* Instances of ProfileDetail for TLC.                                      *)
(***************************************************************************)
EXTENDS ProfileDetail, TLC

CONSTANTS A, B, none, l1, l2, w1, w2, noLoad

\* Profiles and the names of loads and of writes are alike.
CardSymmetry == Permutations(Entities) \cup Permutations(Loads) \cup Permutations(Writes)
=============================================================================
