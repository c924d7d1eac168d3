--------------------------- MODULE MCEventBatcher ---------------------------
(* Small instances of EventBatcher for TLC. *)
EXTENDS EventBatcherOutbox, TLC

CONSTANTS p1, p2

Symmetry == Permutations(Producers)
=============================================================================
