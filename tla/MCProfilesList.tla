---------------------------- MODULE MCProfilesList ----------------------------
(***************************************************************************)
(* Instances of ProfilesList for TLC.                                       *)
(***************************************************************************)
EXTENDS ProfilesList, TLC

CONSTANTS p1, p2, none, q1, q2, noQuery, r1, r2, noRequest

\* Profiles, queries and the names of requests are alike.
ListSymmetry ==
    Permutations(Profiles) \cup Permutations(Queries) \cup Permutations(Requests)
=============================================================================
