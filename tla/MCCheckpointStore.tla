-------------------------- MODULE MCCheckpointStore --------------------------
(* Constant values for the runs of CheckpointStore.                          *)
EXTENDS CheckpointStore

ActorOnly      == <<"actor">>
ActorAndCritic == <<"actor", "critic">>
=============================================================================
