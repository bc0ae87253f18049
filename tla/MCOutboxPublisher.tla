------------------------- MODULE MCOutboxPublisher -------------------------
(* OutboxPublisher on two orders and two publisher processes. *)
EXTENDS OutboxPublisher, TLC

CONSTANTS o1, o2, w1, w2

WorkerSymmetry == Permutations(Workers)
Symmetry == Permutations(Workers) \cup Permutations(Orders)
=============================================================================
