--------------------------- MODULE MCReplayBuffer ---------------------------
(* ReplayBuffer for TLC. *)
EXTENDS ReplayBuffer
=============================================================================
