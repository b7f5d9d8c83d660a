--------------------------- MODULE MCMicroBatches ---------------------------
(* MicroBatches for TLC. *)
EXTENDS MicroBatches

SumOf(s) == FoldSeq(+, 0, s)
=============================================================================
