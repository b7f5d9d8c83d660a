----------------------------- MODULE OneStepOff -----------------------------
(***************************************************************************)
(* The one-step-off policy, OneStepOffRayTrainer.fit: while a batch is     *)
(* trained on, a task generates the next one on replicas of their own.     *)
(* The driver and the task share one event loop, and generation goes on    *)
(* in other processes while the driver computes.  The process may end at   *)
(* any moment; a restart finds the last checkpoint.                        *)
(*                                                                         *)
(* Batches are not represented: what matters is how many the dataloader    *)
(* has handed out and the weights that generated the two in hand.          *)
(***************************************************************************)
EXTENDS OneStepPromise

VARIABLE
  future   \* batch_data_future: the task that generates, and with which weights

\* Of the trainer's state, pc is down, first, await, update, save, done or failed;
\* epoch is that of the continuous iterator; batch is the weights that generated
\* the batch being trained on.
vars == <<pc, run, gs, epoch, pos, future, batch, weights, rollout, ckpt>>

NoTask == [status |-> "none", from |-> Base]

Init ==
  /\ pc = "down" /\ run = 0 /\ gs = 0 /\ epoch = 0 /\ pos = 0
  /\ future = NoTask /\ batch = Base /\ weights = Base /\ rollout = Base
  /\ ckpt = [step |-> 0, weights |-> Base, pos |-> 0]

-----------------------------------------------------------------------------
(* The continuous iterator and the task that generates.                      *)

\* Mutant: the last epoch is not entered.
HasNextButLast == pos < E \/ epoch + 1 < TotalEpochs - 1

\* The iterator has a batch in this pass, or another pass.
HasNext == pos < E \/ epoch + 1 < TotalEpochs

\* _async_gen_next_batch until it waits for the replicas, which have weights w:
\* the next batch is taken, or the task returns None.
GenNextBatch(w) ==
  \/ /\ HasNext
     /\ future' = [status |-> "running", from |-> w]
     /\ IF pos < E THEN pos' = pos + 1 /\ UNCHANGED epoch
                   ELSE pos' = 1 /\ epoch' = epoch + 1
  \/ /\ ~HasNext
     /\ future' = [status |-> "empty", from |-> Base]
     /\ UNCHANGED <<epoch, pos>>

\* The replicas have generated all responses.
EndGeneration ==
  /\ future.status = "running"
  /\ future' = [future EXCEPT !.status = "ready"]
  /\ UNCHANGED <<pc, run, gs, epoch, pos, batch, weights, rollout, ckpt>>

-----------------------------------------------------------------------------
(* Start of fit.                                                             *)

\* Weights go to the replicas only when the warmup of the critic is over.
Synced == IF CriticWarmup <= gs THEN weights ELSE rollout

\* _load_checkpoint and the first _fit_update_weights, before the step counter
\* moves on.  The iterator starts at epoch 0 whatever the step; replicas of
\* their own have loaded the weights training starts from.
Launch ==
  /\ pc = "down" /\ run < MaxRuns
  /\ run' = run + 1
  /\ weights' = ckpt.weights
  /\ rollout' = IF CriticWarmup <= ckpt.step THEN ckpt.weights ELSE Base
  /\ gs' = ckpt.step + 1
  /\ epoch' = 0 /\ pos' = ResumePos
  /\ pc' = "first"
  /\ UNCHANGED <<future, batch, ckpt>>

\* The first task is created and starts when fit_step waits for it.
StartFirst ==
  /\ pc = "first"
  /\ GenNextBatch(rollout)
  /\ pc' = "await"
  /\ UNCHANGED <<run, gs, batch, weights, rollout, ckpt>>

-----------------------------------------------------------------------------
(* A step.                                                                   *)

IsLastStep == gs >= TotalSteps

\* Mutant: the next task starts before the replicas have the new weights.
GenerateUnsynced ==
  /\ pc = "await" /\ future.status = "ready"
  /\ batch' = future.from
  /\ rollout' = Synced
  /\ IF IsLastStep THEN future' = NoTask /\ UNCHANGED <<epoch, pos>>
                   ELSE GenNextBatch(rollout)
  /\ pc' = "update"
  /\ UNCHANGED <<run, gs, weights, ckpt>>

\* _fit_generate: the batch is there, no task generates, the replicas get the
\* weights of the last update, and the next task starts with them.
Generate ==
  /\ pc = "await" /\ future.status = "ready"
  /\ batch' = future.from
  /\ rollout' = Synced
  /\ IF IsLastStep THEN future' = NoTask /\ UNCHANGED <<epoch, pos>>
                   ELSE GenNextBatch(rollout')
  /\ pc' = "update"
  /\ UNCHANGED <<run, gs, weights, ckpt>>

\* The task returned None, which fit_step cannot take apart: TypeError.
AwaitNone ==
  /\ pc = "await" /\ future.status = "empty"
  /\ pc' = "failed"
  /\ UNCHANGED <<run, gs, epoch, pos, future, batch, weights, rollout, ckpt>>

SaveDue(expiring) == SaveFreq > 0 /\ (IsLastStep \/ gs % SaveFreq = 0 \/ expiring)

\* _fit_postprocess_step, and the return from fit after the last step.
FinishStep ==
  /\ gs' = gs + 1
  /\ pc' = IF IsLastStep THEN "done" ELSE "await"

\* _fit_update_actor, unless the critic still warms up; then save, or finish.
UpdateActor ==
  /\ pc = "update"
  /\ weights' = IF CriticWarmup <= gs THEN [weights EXCEPT ![gs] = run] ELSE weights
  /\ \E expiring \in (IF MayExpire THEN BOOLEAN ELSE {FALSE}) :
        IF SaveDue(expiring) THEN pc' = "save" /\ UNCHANGED gs ELSE FinishStep
  /\ UNCHANGED <<run, epoch, pos, future, batch, rollout, ckpt>>

\* _save_checkpoint: the state of the dataloader has the batch in the task.
SaveCheckpoint ==
  /\ pc = "save"
  /\ ckpt' = [step |-> gs, weights |-> weights, pos |-> pos]
  /\ FinishStep
  /\ UNCHANGED <<run, epoch, pos, future, batch, weights, rollout>>

-----------------------------------------------------------------------------
\* The process is killed, or has ended; the job may be launched again.
Exit ==
  /\ pc # "down"
  /\ pc' = "down" /\ gs' = 0 /\ epoch' = 0 /\ pos' = 0
  /\ future' = NoTask /\ batch' = Base /\ weights' = Base /\ rollout' = Base
  /\ UNCHANGED <<run, ckpt>>

Next ==
  \/ Launch
  \/ StartFirst
  \/ EndGeneration
  \/ Generate
  \/ AwaitNone
  \/ UpdateActor
  \/ SaveCheckpoint
  \/ Exit

Spec == Init /\ [][Next]_vars

=============================================================================
