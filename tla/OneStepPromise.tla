---------------------------- MODULE OneStepPromise ----------------------------
(***************************************************************************)
(* What the one-step-off policy promises, over the state of any trainer:   *)
(* how old the batch is that is trained on, and how many steps restarts    *)
(* can cost.  A batch stands for the weights that generated it.            *)
(***************************************************************************)
EXTENDS RayPPOTrainer

\* "Generation and training parameters maintain a one-step off policy"
\* (README of one_step_off_policy): the batch that is trained on was generated
\* with the weights in training, but for the update of the step before, also
\* during the warmup of the critic and after a restart.
OneStepBehind ==
  pc = "update" => \A s \in Steps : batch[s] # weights[s] => s = gs - 1

\* A save puts the batch that is being generated behind the saved position,
\* so a restart never trains on it, and the iterator may run out before the
\* last step: by at most one step for each restart, never in the first run, when
\* total_training_steps is not more than the epochs hold (_async_gen_next_batch).
ShortByRestarts ==
  TotalSteps <= E * TotalEpochs =>
    (pc = "failed" => TotalSteps - (gs - 1) <= run - 1)
=============================================================================
