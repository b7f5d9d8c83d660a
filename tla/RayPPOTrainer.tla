---------------------------- MODULE RayPPOTrainer ----------------------------
(***************************************************************************)
(* What the training loops of DAPO and of the one-step-off policy have in  *)
(* common, as classes derived from RayPPOTrainer: the settings, the state  *)
(* of the driver, the checkpoint on disk and where the data goes on after  *)
(* a restart.                                                              *)
(*                                                                         *)
(* Weights are the history of the updates that made them: weights[s] is    *)
(* the run of the program whose step s updated the actor, 0 if none did.   *)
(***************************************************************************)
EXTENDS Integers

CONSTANTS
  E,            \* len(train_dataloader): batches in an epoch
  TotalEpochs,  \* trainer.total_epochs
  TotalSteps,   \* total_training_steps
  CriticWarmup, \* trainer.critic_warmup
  SaveFreq,     \* trainer.save_freq
  MayExpire,    \* the instance may announce its expiration (ESI)
  MaxRuns       \* bound: runs of the program, the first one included

ASSUME TrainerAssumption ==
  /\ E \in Nat \ {0} /\ TotalEpochs \in Nat \ {0} /\ TotalSteps \in Nat \ {0}
  /\ CriticWarmup \in Nat /\ SaveFreq \in Int /\ MayExpire \in BOOLEAN
  /\ MaxRuns \in Nat \ {0}

\* Past TotalSteps a run takes at most one step.
Steps   == 1 .. TotalSteps + MaxRuns
Weights == [Steps -> 0 .. MaxRuns]
Base    == [s \in Steps |-> 0]     \* the weights training starts from

VARIABLES
  pc,       \* where the driver is
  run,      \* number of the current run of the program
  gs,       \* self.global_steps
  epoch,    \* the epoch of the loop over the data
  pos,      \* batches the dataloader has handed out in this pass
  batch,    \* the batch that is collected or trained on
  weights,  \* the actor's weights
  rollout,  \* the replicas: the weights they hold
  ckpt      \* disk: the checkpoint the tracker names; step 0 if none

\* Mutant: the saved position is forgotten.
ResumePosNever == 0

\* Where the dataloader goes on: a checkpoint at a multiple of E is taken for
\* the end of an epoch and the dataloader starts a new pass.
ResumePos == IF ckpt.step % E = 0 THEN 0 ELSE ckpt.pos
=============================================================================
