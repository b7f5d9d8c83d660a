----------------------------- MODULE DAPOTrainer -----------------------------
(***************************************************************************)
(* The driver of DAPO training, RayDAPOTrainer.fit: dynamic sampling until *)
(* a training batch is full, the actor update, checkpoints, weight sync to *)
(* the rollout replicas, and the restart of the program from the last      *)
(* checkpoint.  The driver is one thread; what interferes with it is the   *)
(* end of its process at any moment, and a restart that finds only what    *)
(* was on disk.                                                            *)
(*                                                                         *)
(* Prompts and trajectories are counted, not represented: a batch is how   *)
(* many prompt groups it holds and the weights that generated them.        *)
(* What a kill leaves of the files of one checkpoint is CheckpointStore's  *)
(* subject: here a save creates its directory, then commits as a whole.    *)
(***************************************************************************)
EXTENDS RayPPOTrainer, FiniteSets

CONSTANTS
  B,            \* data.train_batch_size, in prompts
  G,            \* data.gen_batch_size: prompts in a generation batch
  Filter,       \* algorithm.filter_groups.enable
  MaxNumGen,    \* algorithm.filter_groups.max_num_gen_batches
  FreeCacheEngine \* rollout.free_cache_engine: sleeping replicas free their memory

ASSUME SamplingAssumption ==
  /\ B \in Nat \ {0} /\ G \in Nat \ {0}
  /\ Filter \in BOOLEAN /\ FreeCacheEngine \in BOOLEAN
  /\ MaxNumGen \in Int

Runs == 1 .. MaxRuns

\* Of the trainer's state, batch is the batch being collected: how many prompt
\* groups and the weights they come from; rollout also says whether the replicas
\* are awake.
VARIABLES
  num_gen,     \* num_gen_batches
  num_prompt,  \* num_prompt_in_batch
  dirs,        \* disk: the global_step_* directories that exist
  logs,        \* disk: logs[s] is the run that wrote trajectories of step s
  seen         \* history: batches taken on the way to these weights

vars     == <<pc, run, gs, epoch, pos, num_gen, num_prompt, batch, weights, rollout, ckpt, dirs, logs, seen>>
disk     == <<ckpt, dirs, logs>>
data     == <<epoch, pos, seen>>
sampling == <<num_gen, num_prompt, batch>>

NoBatch == [groups |-> 0, from |-> {}]

PCs == {"down", "draw", "full", "update", "save", "commit", "sync",
        "tail", "tailcommit", "done", "failed"}

TypeOK ==
  /\ pc \in PCs
  /\ run \in 0 .. MaxRuns /\ (pc # "down" => run \in Runs)
  /\ gs \in 0 .. TotalSteps + run /\ (pc # "down" => gs \in Steps)
  /\ epoch \in Nat
  /\ pos \in 0 .. E
  /\ num_gen \in Nat /\ num_prompt \in Nat
  /\ batch \in [groups : Nat, from : SUBSET Weights]
  /\ weights \in Weights
  /\ rollout \in [has : Weights, awake : BOOLEAN]
  /\ ckpt \in [step : 0 .. TotalSteps + run, weights : Weights, pos : 0 .. E, seen : Nat]
  /\ dirs \subseteq Steps
  /\ logs \in [Steps -> 0 .. MaxRuns]
  /\ seen \in Nat

Init ==
  /\ pc = "down" /\ run = 0
  /\ gs = 0 /\ epoch = 0 /\ pos = 0 /\ seen = 0
  /\ num_gen = 0 /\ num_prompt = 0 /\ batch = NoBatch
  /\ weights = Base /\ rollout = [has |-> Base, awake |-> FALSE]
  /\ ckpt = [step |-> 0, weights |-> Base, pos |-> 0, seen |-> 0]
  /\ dirs = {} /\ logs = [s \in Steps |-> 0]

-----------------------------------------------------------------------------
(* Start of fit: _load_checkpoint, weights to the replicas, logs cleaned up. *)

\* Mutant: logs after the checkpoint stay.
LogsKept(step) == logs

\* _init_trajectory_log_dir: logs of steps after the checkpoint are removed.
LogsUpTo(step) == [s \in Steps |-> IF s <= step THEN logs[s] ELSE 0]

\* Mutant: the range of the epochs ends one too early.
EnterOneLess(first) == IF first < TotalEpochs - 1 THEN "draw" ELSE "tail"

\* for epoch in range(first, total_epochs): into the loop, or past it.
Enter(first) == IF first < TotalEpochs THEN "draw" ELSE "tail"

Launch ==
  /\ pc = "down" /\ run < MaxRuns
  /\ run' = run + 1
  /\ weights' = ckpt.weights /\ seen' = ckpt.seen
  /\ pos' = ResumePos
  /\ rollout' = [has |-> ckpt.weights, awake |-> TRUE]
  /\ logs' = LogsUpTo(ckpt.step)
  /\ gs' = ckpt.step + 1
  /\ epoch' = (ckpt.step + 1) \div E
  /\ pc' = Enter((ckpt.step + 1) \div E)
  /\ UNCHANGED <<sampling, ckpt, dirs>>

-----------------------------------------------------------------------------
(* Sampling: generate, score, filter, until the batch is full.               *)

\* One more batch of the dataloader goes to the replicas; k groups are kept.
Generate(k) ==
  /\ pc = "draw" /\ pos < E /\ rollout.awake
  /\ pos' = pos + 1 /\ seen' = seen + 1
  /\ num_gen' = num_gen + 1
  /\ UNCHANGED <<run, gs, epoch, weights, rollout, disk>>

\* concat([batch, new_batch]) of k groups that are new.
Extended(k) ==
  [groups |-> batch.groups + k, from |-> batch.from \cup (IF k > 0 THEN {rollout.has} ELSE {})]

MayGenerateMore(n) == MaxNumGen <= 0 \/ n < MaxNumGen

\* Too few groups: the loop continues with the next generation batch.
KeepGenerating(k) ==
  /\ Filter /\ num_prompt + k < B /\ MayGenerateMore(num_gen + 1)
  /\ Generate(k)
  /\ num_prompt' = num_prompt + k
  /\ batch' = Extended(k)
  /\ pc' = "draw"

\* Too few groups and no generation batch left: ValueError.
GiveUp(k) ==
  /\ Filter /\ num_prompt + k < B /\ ~MayGenerateMore(num_gen + 1)
  /\ Generate(k)
  /\ num_prompt' = num_prompt + k
  /\ batch' = Extended(k)
  /\ pc' = "failed"

\* Enough groups: the batch is cut to the trajectories of train_batch_size prompts,
\* the first ones (batch[:traj_bsz]); groups are counted, so which ones is left out.
FillBatch(k) ==
  /\ Filter /\ num_prompt + k >= B
  /\ Generate(k)
  /\ num_prompt' = num_prompt + k
  /\ batch' = [Extended(k) EXCEPT !.groups = B]
  /\ pc' = "full"

\* Without filtering the generation batch is the training batch.
TakeBatch ==
  /\ ~Filter
  /\ Generate(G)
  /\ batch' = [groups |-> G, from |-> {rollout.has}]
  /\ pc' = "full"
  /\ UNCHANGED num_prompt

\* The dataloader is exhausted; groups kept so far stay for the next epoch.
EndEpoch ==
  /\ pc = "draw" /\ pos = E
  /\ epoch' = epoch + 1
  /\ pc' = Enter(epoch + 1)
  /\ pos' = IF pc' = "draw" THEN 0 ELSE pos
  /\ UNCHANGED <<run, gs, sampling, weights, rollout, disk, seen>>

-----------------------------------------------------------------------------
(* The training step.                                                        *)

\* The trajectories of the step go to its log, then the replicas sleep, which
\* does nothing to one that keeps its cache.  A log that cannot be written is
\* only printed about.
FlushAndSleep ==
  /\ pc = "full"
  /\ logs' \in {logs, [logs EXCEPT ![gs] = run]}
  /\ rollout' = [rollout EXCEPT !.awake = @ /\ ~FreeCacheEngine]
  /\ pc' = "update"
  /\ UNCHANGED <<run, gs, data, sampling, weights, ckpt, dirs>>

IsLastStep == gs >= TotalSteps

\* Mutant: the last step is saved only when its number is due.
SaveDueByNumber(expiring) == SaveFreq > 0 /\ (gs % SaveFreq = 0 \/ expiring)

SaveDue(expiring) == SaveFreq > 0 /\ (IsLastStep \/ gs % SaveFreq = 0 \/ expiring)

UpdateActor ==
  /\ pc = "update" /\ CriticWarmup <= gs
  /\ weights' = [weights EXCEPT ![gs] = run]
  /\ \E expiring \in (IF MayExpire THEN BOOLEAN ELSE {FALSE}) :
        pc' = IF SaveDue(expiring) THEN "save" ELSE "sync"
  /\ UNCHANGED <<run, gs, data, sampling, rollout, disk>>

\* _save_checkpoint creates global_step_<gs> first ...
MakeDir ==
  /\ pc = "save"
  /\ dirs' = dirs \cup {gs}
  /\ pc' = "commit"
  /\ UNCHANGED <<run, gs, data, sampling, weights, rollout, ckpt, logs>>

Saved == [step |-> gs, weights |-> weights, pos |-> pos, seen |-> seen]

\* ... and ends by naming it in the tracker.
Commit ==
  /\ pc = "commit"
  /\ ckpt' = Saved
  /\ pc' = "sync"
  /\ UNCHANGED <<run, gs, data, sampling, weights, rollout, dirs, logs>>

\* Mutant: num_prompt_in_batch is not reset.
FinishStepKeepsCount ==
  /\ num_gen' = 0 /\ batch' = NoBatch
  /\ IF IsLastStep THEN pc' = "done" /\ UNCHANGED gs
                   ELSE pc' = "draw" /\ gs' = gs + 1
  /\ UNCHANGED <<run, num_prompt, data, weights, disk>>

\* After the update: counters reset, then return or go to the next step.
FinishStep ==
  /\ num_gen' = 0 /\ num_prompt' = 0 /\ batch' = NoBatch
  /\ IF IsLastStep THEN pc' = "done" /\ UNCHANGED gs
                   ELSE pc' = "draw" /\ gs' = gs + 1
  /\ UNCHANGED <<run, data, weights, disk>>

\* Mutants: the replicas wake up with the weights they had; they stay asleep.
WakeUpOnly == rollout' = [rollout EXCEPT !.awake = TRUE] /\ pc = "sync" /\ FinishStep
SyncAsleep == rollout' = [rollout EXCEPT !.has = weights] /\ pc = "sync" /\ FinishStep

\* checkpoint_manager.update_weights: the replicas wake up with the new weights.
SyncWeights ==
  /\ pc = "sync"
  /\ rollout' = [has |-> weights, awake |-> TRUE]
  /\ FinishStep

\* Critic warmup: no actor update, and nothing for the replicas either.
SkipActor ==
  /\ pc = "update" /\ CriticWarmup > gs
  /\ FinishStep
  /\ UNCHANGED rollout

-----------------------------------------------------------------------------
(* After the last epoch: "check if last step checkpint exists".              *)

\* Mutant: the directory looked for is that of the last step made.
TailSkipLastStep ==
  /\ pc = "tail" /\ gs - 1 \in dirs
  /\ pc' = "done"
  /\ UNCHANGED <<run, gs, data, sampling, weights, rollout, disk>>

\* The directory of the step after the last one made exists: only a run that was
\* killed while it saved can have left it, and it passes for the checkpoint.
TailSkip ==
  /\ pc = "tail" /\ gs \in dirs
  /\ pc' = "done"
  /\ UNCHANGED <<run, gs, data, sampling, weights, rollout, disk>>

TailMakeDir ==
  /\ pc = "tail" /\ gs \notin dirs
  /\ dirs' = dirs \cup {gs}
  /\ pc' = "tailcommit"
  /\ UNCHANGED <<run, gs, data, sampling, weights, rollout, ckpt, logs>>

TailCommit ==
  /\ pc = "tailcommit"
  /\ ckpt' = Saved
  /\ pc' = "done"
  /\ UNCHANGED <<run, gs, data, sampling, weights, rollout, dirs, logs>>

-----------------------------------------------------------------------------
\* The process is killed, or has ended; the job may be launched again.
Exit ==
  /\ pc # "down"
  /\ pc' = "down"
  /\ gs' = 0 /\ epoch' = 0 /\ pos' = 0 /\ seen' = 0
  /\ num_gen' = 0 /\ num_prompt' = 0 /\ batch' = NoBatch
  /\ weights' = Base /\ rollout' = [has |-> Base, awake |-> FALSE]
  /\ UNCHANGED <<run, disk>>

Next ==
  \/ Launch
  \/ \E k \in 0 .. G : KeepGenerating(k)
  \/ \E k \in 0 .. G : GiveUp(k)
  \/ \E k \in 0 .. G : FillBatch(k)
  \/ TakeBatch
  \/ EndEpoch
  \/ FlushAndSleep
  \/ UpdateActor
  \/ SkipActor
  \/ MakeDir
  \/ Commit
  \/ SyncWeights
  \/ TailSkip
  \/ TailMakeDir
  \/ TailCommit
  \/ Exit

Spec == Init /\ [][Next]_vars

\* The driver is a single thread: it takes its next step unless it is killed.
FairSpec == Spec /\ WF_vars(Next /\ ~Exit)

-----------------------------------------------------------------------------
(* Properties.                                                               *)

\* The dynamic sampling contract (README of src, "repeat sampling ... until
\* there are enough qualified groups for train_batch_size or reaching the upper
\* limit"): the counter agrees with the batch it stands for, across
\* generation batches, epochs and steps; what is trained on has B prompts; no
\* step uses more than MaxNumGen generation batches.
BatchAccounting ==
  /\ Filter /\ pc = "draw" => num_prompt = batch.groups /\ num_prompt < B
  /\ Filter /\ pc \in {"full", "update"} => num_prompt >= B /\ batch.groups = B
  /\ MaxNumGen > 0 => num_gen <= MaxNumGen

\* Every group of the batch that is trained on was generated with the weights
\* the actor has before the update: no group outlives a weight sync, a restart
\* or an epoch in the batch, and no replica generates with old weights.
OnPolicy ==
  /\ pc \in {"draw", "full", "update"} => batch.from \subseteq {weights}
  /\ pc = "draw" /\ rollout.awake => rollout.has = weights

\* The trajectory logs tell the history of the weights in training: the log of
\* a step, if it could be written, is by the run whose update of that step is in
\* the weights, and no log is left of a step that is still to come (fit,
\* _init_trajectory_log_dir).
LogsOfLineage ==
  pc # "down" =>
    \A s \in Steps : /\ weights[s] # 0 => logs[s] \in {0, weights[s]}
                     /\ s > gs => logs[s] = 0

\* In the middle of an epoch, the batches taken so far are those of the epochs
\* before and of this pass: a restart neither skips nor repeats data.
DataPosition == pc = "draw" => seen = E * epoch + pos

\* "Number of epochs in training" (ppo_trainer.yaml): training that ends has
\* made all its steps or has seen the data total_epochs times.
FullTraining == pc = "done" => weights[TotalSteps] # 0 \/ seen >= E * TotalEpochs

\* "check if last step checkpint exists", "save last step checkpoint": when fit
\* returns, by its last step or with the data, the weights it trained are those of
\* the checkpoint a restart finds.  The one exception is a restarted run that found
\* the directory of a killed save under the name of its final checkpoint.
DoneSaved ==
  pc = "done" /\ SaveFreq > 0 =>
    \/ ckpt.weights = weights
    \/ run > 1 /\ gs \in dirs /\ ckpt.step < gs

\* DoneSaved without the exception, which holds in a first run and where the loop
\* ends with the last step.
EndSaved == pc = "done" /\ SaveFreq > 0 => ckpt.weights = weights

\* Critic warmup delays only the update of the policy ("Number of iterations to
\* warm up the critic before updating policy"): generation finds awake replicas.
AwakeToGenerate == pc = "draw" => rollout.awake

\* fit ends, by returning, by an error or with its process.
RunEnds == pc = "draw" ~> pc \in {"done", "failed", "down"}
=============================================================================
