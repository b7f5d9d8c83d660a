-------------------------- MODULE MCWeightTransfer --------------------------
(* WeightTransfer for TLC. *)
EXTENDS WeightTransfer

\* For buckets of two units: weights that fill a bucket, share one, do not
\* fit into what is left of one, and that are larger than one, the second of
\* them by an odd unit and right after the first.
SomeSizes == <<1, 2, 1, 4, 5, 1, 1>>
=============================================================================
