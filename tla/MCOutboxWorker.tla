--------------------------- MODULE MCOutboxWorker ---------------------------
(***************************************************************************)
(* Small instances of OutboxWorker for TLC.                                *)
(***************************************************************************)
EXTENDS OutboxWorker, TLC

CONSTANTS w1, w2, ann, bob
WorkerSymmetry == Permutations({w1, w2})
=============================================================================
