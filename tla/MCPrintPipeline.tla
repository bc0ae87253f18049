-------------------------- MODULE MCPrintPipeline --------------------------
(* PrintPipeline on two worker processes. *)
EXTENDS PrintPipeline, TLC

CONSTANTS o1, w1, w2

WorkerSymmetry == Permutations(Workers)
=============================================================================
