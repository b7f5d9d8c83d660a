-------------------------- MODULE DAPOTrainer_proofs --------------------------
(***************************************************************************)
(* Proofs about the two training loops, for every value of their           *)
(* constants.  DAPOTrainer: the batch accounting of dynamic sampling,      *)
(* on-policy training, trajectory logs that tell the history of the        *)
(* weights, and, where fit can be resumed from every step that is saved,   *)
(* the position in the data and the end of training; what is left of these *)
(* in all other settings; and replicas that are awake to generate.         *)
(* OneStepOff: how far generation is behind training, and how many steps   *)
(* restarts can cost.                                                      *)
(***************************************************************************)
EXTENDS DAPOTrainer, OneStepPromise, TLAPS

\* BatchAccounting, with what makes it inductive: nothing is left of an earlier
\* step or run where sampling begins, and there a generation batch is allowed.
SamplingInv ==
  /\ BatchAccounting
  /\ pc = "down" => num_gen = 0 /\ num_prompt = 0 /\ batch = NoBatch
  /\ pc = "draw" => IF Filter THEN MayGenerateMore(num_gen) ELSE num_gen = 0

\* OnPolicy, for all of a step before the update.
PolicyInv ==
  /\ OnPolicy
  /\ pc = "down" => batch = NoBatch
  /\ pc \in {"full", "update"} /\ rollout.awake => rollout.has = weights

\* The checkpoint is older than the step in progress, until that step is saved.
Unsaved == {"draw", "full", "update", "save", "commit", "tail", "tailcommit"}

\* LogsOfLineage, for the checkpoint too: a restart makes its weights those in
\* training and keeps exactly the logs up to its step.
LogsInv ==
  /\ LogsOfLineage
  /\ \A s \in Steps : ckpt.weights[s] # 0 => s <= ckpt.step /\ logs[s] \in {0, ckpt.weights[s]}
  /\ pc \in Unsaved => ckpt.step < gs
  /\ pc = "sync" => ckpt.step <= gs
  /\ pc # "down" => \A s \in Steps : weights[s] # 0 => s <= gs
  /\ pc \in {"draw", "full", "update"} => \A s \in Steps : weights[s] # 0 => s < gs
  /\ pc \in {"draw", "full"} => logs[gs] = 0
  /\ pc = "update" => logs[gs] \in {0, run}

-----------------------------------------------------------------------------
(* Type correctness.                                                         *)

\* The arithmetic of a restart: the first epoch is a number of an epoch, and
\* the dataloader starts within a pass.
LEMMA ResumeType ==
  ASSUME TypeOK
  PROVE  (ckpt.step + 1) \div E \in Nat /\ ResumePos \in 0 .. E
<1>1. E \in Nat \ {0} /\ ckpt.step \in Nat /\ ckpt.pos \in 0 .. E
  BY TrainerAssumption DEF TypeOK, TrainerAssumption
<1>2. (ckpt.step + 1) \div E \in Nat  BY <1>1
<1>3. ResumePos \in 0 .. E  BY <1>1 DEF ResumePos
<1>. QED  BY <1>2, <1>3

LEMMA StepsAreNumbers ==
  /\ TotalSteps \in Nat \ {0} /\ MaxRuns \in Nat \ {0} /\ E \in Nat \ {0}
  /\ Base \in Weights /\ NoBatch \in [groups : Nat, from : SUBSET Weights]
BY TrainerAssumption DEF TrainerAssumption, Base, Weights, NoBatch

THEOREM TypeCorrect == Spec => []TypeOK
<1>1. Init => TypeOK
  BY StepsAreNumbers DEF Init, TypeOK, PCs, Steps
<1>2. ASSUME TypeOK, [Next]_vars  PROVE TypeOK'
  <2>. USE <1>2, StepsAreNumbers DEF TypeOK
  <2>1. CASE Launch
    <3>1. run' \in Runs /\ run' = run + 1  BY <2>1 DEF Launch, Runs
    <3>2. gs' \in Steps /\ gs' \in 0 .. TotalSteps + run'
      <4>1. ckpt.step \in 0 .. TotalSteps + run /\ gs' = ckpt.step + 1  BY <2>1 DEF Launch
      <4>. QED  BY <3>1, <4>1 DEF Steps, Runs
    <3>3. epoch' \in Nat /\ pos' \in 0 .. E  BY <2>1, ResumeType DEF Launch
    <3>4. pc' \in PCs  BY <2>1 DEF Launch, Enter, PCs
    <3>5. logs' \in [Steps -> 0 .. MaxRuns]
      <4>1. 0 \in 0 .. MaxRuns  OBVIOUS
      <4>. QED  BY <2>1, <4>1 DEF Launch, LogsUpTo
    <3>6. ckpt' \in [step : 0 .. TotalSteps + run', weights : Weights, pos : 0 .. E, seen : Nat]
      BY <2>1, <3>1 DEF Launch
    <3>. QED  BY <2>1, <3>1, <3>2, <3>3, <3>4, <3>5, <3>6 DEF Launch, sampling
  <2>2. ASSUME NEW k \in 0 .. G, pc = "draw", Generate(k),
               batch' \in [groups : Nat, from : SUBSET Weights], num_prompt' \in Nat, pc' \in PCs \ {"down"}
        PROVE  TypeOK'
    BY <2>2 DEF Generate, disk
  <2>3. ASSUME NEW k \in 0 .. G
        PROVE  /\ k \in Nat /\ B \in Nat /\ G \in Nat
               /\ Extended(k) \in [groups : Nat, from : SUBSET Weights]
               /\ [Extended(k) EXCEPT !.groups = B] \in [groups : Nat, from : SUBSET Weights]
    <3>1. k \in Nat /\ B \in Nat /\ G \in Nat  BY SamplingAssumption DEF SamplingAssumption
    <3>2. Extended(k) \in [groups : Nat, from : SUBSET Weights]  BY <3>1 DEF Extended
    <3>. QED  BY <3>1, <3>2
  <2>4. ASSUME NEW k \in 0 .. G, KeepGenerating(k)  PROVE TypeOK'
    <3>1. /\ pc = "draw" /\ Generate(k) /\ pc' \in PCs \ {"down"}
          /\ num_prompt' = num_prompt + k /\ batch' = Extended(k)
      BY <2>4 DEF KeepGenerating, Generate, PCs
    <3>2. num_prompt' \in Nat  BY <2>3, <3>1
    <3>. QED  BY <2>2, <2>3, <3>1, <3>2
  <2>5. ASSUME NEW k \in 0 .. G, GiveUp(k)  PROVE TypeOK'
    <3>1. /\ pc = "draw" /\ Generate(k) /\ pc' \in PCs \ {"down"}
          /\ num_prompt' = num_prompt + k /\ batch' = Extended(k)
      BY <2>5 DEF GiveUp, Generate, PCs
    <3>2. num_prompt' \in Nat  BY <2>3, <3>1
    <3>. QED  BY <2>2, <2>3, <3>1, <3>2
  <2>6. ASSUME NEW k \in 0 .. G, FillBatch(k)  PROVE TypeOK'
    BY <2>2, <2>3, <2>6 DEF FillBatch, Generate, PCs
  <2>7. CASE TakeBatch
    <3>1. G \in 0 .. G /\ G \in Nat  BY SamplingAssumption DEF SamplingAssumption
    <3>2. batch' \in [groups : Nat, from : SUBSET Weights]  BY <2>7, <3>1 DEF TakeBatch
    <3>. QED  BY <2>2, <2>7, <3>1, <3>2 DEF TakeBatch, Generate, PCs
  <2>8. CASE EndEpoch  BY <2>8 DEF EndEpoch, Enter, sampling, disk, PCs
  <2>9. CASE FlushAndSleep
    <3>1. logs' \in [Steps -> 0 .. MaxRuns]  BY <2>9 DEF FlushAndSleep
    <3>. QED  BY <2>9, <3>1 DEF FlushAndSleep, data, sampling, PCs, Runs
  <2>10. CASE UpdateActor
    <3>1. weights' \in Weights  BY <2>10 DEF UpdateActor, Weights, Runs
    <3>. QED  BY <2>10, <3>1 DEF UpdateActor, data, sampling, disk, PCs
  <2>11. ASSUME FinishStep, pc # "down", rollout' \in [has : Weights, awake : BOOLEAN]  PROVE TypeOK'
    <3>1. /\ run \in Runs /\ gs \in Steps /\ run' = run
          /\ IF gs >= TotalSteps THEN gs' = gs ELSE gs' = gs + 1
      BY <2>11 DEF FinishStep, IsLastStep
    <3>2. gs' \in Steps /\ gs' \in 0 .. TotalSteps + run'
      <4>1. gs \in 0 .. TotalSteps + run  OBVIOUS
      <4>. QED  BY <3>1, <4>1 DEF Steps, Runs
    <3>3. pc' \in PCs /\ pc' # "down"  BY <2>11 DEF FinishStep, PCs
    <3>. QED  BY <2>11, <3>1, <3>2, <3>3 DEF FinishStep, data, disk
  <2>12. CASE SkipActor  BY <2>11, <2>12 DEF SkipActor
  <2>13. CASE SyncWeights  BY <2>11, <2>13 DEF SyncWeights
  <2>14. CASE MakeDir  BY <2>14 DEF MakeDir, data, sampling, PCs
  <2>15. ASSUME pc # "down"  PROVE Saved \in [step : 0 .. TotalSteps + run, weights : Weights, pos : 0 .. E, seen : Nat]
    BY <2>15 DEF Saved
  <2>16. CASE Commit  BY <2>15, <2>16 DEF Commit, data, sampling, PCs
  <2>17. CASE TailSkip  BY <2>17 DEF TailSkip, data, sampling, disk, PCs
  <2>18. CASE TailMakeDir  BY <2>18 DEF TailMakeDir, data, sampling, PCs
  <2>19. CASE TailCommit  BY <2>15, <2>19 DEF TailCommit, data, sampling, PCs
  <2>20. CASE Exit  BY <2>20 DEF Exit, disk, PCs
  <2>21. CASE UNCHANGED vars  BY <2>21 DEF vars
  <2>. QED
    BY <2>1, <2>4, <2>5, <2>6, <2>7, <2>8, <2>9, <2>10, <2>12, <2>13, <2>14, <2>16, <2>17, <2>18, <2>19, <2>20, <2>21
       DEF Next
<1>. QED  BY <1>1, <1>2, PTL DEF Spec

-----------------------------------------------------------------------------
(* Batch accounting.                                                         *)

LEMMA SamplingStep == ASSUME TypeOK, SamplingInv, [Next]_vars  PROVE SamplingInv'
<1>. USE StepsAreNumbers DEF SamplingInv, BatchAccounting
<1>1. B \in Nat \ {0} /\ MaxNumGen \in Int /\ num_gen \in Nat /\ num_prompt \in Nat
      /\ batch \in [groups : Nat, from : SUBSET Weights] /\ (MaxNumGen > 0 => MaxNumGen >= 1)
  BY SamplingAssumption DEF SamplingAssumption, TypeOK
<1>2. CASE Launch  BY <1>1, <1>2 DEF Launch, Enter, sampling, NoBatch, MayGenerateMore
<1>3. ASSUME NEW k \in 0 .. G, KeepGenerating(k)  PROVE SamplingInv'
  BY <1>1, <1>3 DEF KeepGenerating, Generate, Extended, MayGenerateMore
<1>4. ASSUME NEW k \in 0 .. G, GiveUp(k)  PROVE SamplingInv'
  BY <1>1, <1>4 DEF GiveUp, Generate, MayGenerateMore
<1>5. ASSUME NEW k \in 0 .. G, FillBatch(k)  PROVE SamplingInv'
  BY <1>1, <1>5 DEF FillBatch, Generate, Extended, MayGenerateMore
<1>6. CASE TakeBatch  BY <1>1, <1>6 DEF TakeBatch, Generate
<1>7. CASE EndEpoch  BY <1>7 DEF EndEpoch, Enter, sampling
<1>8. ASSUME FinishStep, pc # "down"  PROVE SamplingInv'
  BY <1>1, <1>8 DEF FinishStep, NoBatch, MayGenerateMore
<1>9. CASE SkipActor  BY <1>8, <1>9 DEF SkipActor
<1>10. CASE SyncWeights  BY <1>8, <1>10 DEF SyncWeights
<1>11. CASE Exit  BY <1>1, <1>11 DEF Exit, NoBatch
<1>12. CASE FlushAndSleep \/ UpdateActor
  BY <1>12 DEF FlushAndSleep, UpdateActor, sampling
<1>13. CASE MakeDir \/ Commit \/ TailSkip \/ TailMakeDir \/ TailCommit
  BY <1>13 DEF MakeDir, Commit, TailSkip, TailMakeDir, TailCommit, sampling
<1>14. CASE UNCHANGED vars  BY <1>14 DEF vars, MayGenerateMore
<1>. QED
  BY <1>2, <1>3, <1>4, <1>5, <1>6, <1>7, <1>9, <1>10, <1>11, <1>12, <1>13, <1>14 DEF Next

\* Whatever the sizes, limits and kills: the batch trained on has exactly
\* train_batch_size prompts, the counter of the loop is the number of prompts
\* in the batch, and no step uses more generation batches than allowed (fit).
THEOREM BatchAccountingCorrect == Spec => []BatchAccounting
<1>1. Init => SamplingInv
  BY SamplingAssumption DEF SamplingAssumption, Init, SamplingInv, BatchAccounting, NoBatch
<1>2. SamplingInv => BatchAccounting  BY DEF SamplingInv
<1>. QED  BY TypeCorrect, SamplingStep, <1>1, <1>2, PTL DEF Spec

-----------------------------------------------------------------------------
(* On-policy training.                                                       *)

LEMMA PolicyStep == ASSUME TypeOK, PolicyInv, [Next]_vars  PROVE PolicyInv'
<1>. USE DEF PolicyInv, OnPolicy, NoBatch
<1>1. CASE Launch  BY <1>1 DEF Launch, Enter, sampling
<1>2. ASSUME NEW k \in 0 .. G, Generate(k), batch' = Extended(k), pc' \in {"draw", "failed"}
      PROVE  PolicyInv'
  BY <1>2 DEF Generate, Extended
<1>3. ASSUME NEW k \in 0 .. G, KeepGenerating(k) \/ GiveUp(k)  PROVE PolicyInv'
  <2>1. Generate(k) /\ batch' = Extended(k) /\ pc' \in {"draw", "failed"}
    BY <1>3 DEF KeepGenerating, GiveUp
  <2>. QED  BY <1>2, <2>1
<1>4. ASSUME NEW k \in 0 .. G, FillBatch(k)  PROVE PolicyInv'
  <2>1. pc = "draw" /\ rollout.awake /\ UNCHANGED <<weights, rollout>> /\ pc' = "full"
        /\ batch' = [Extended(k) EXCEPT !.groups = B]
    BY <1>4 DEF FillBatch, Generate
  <2>2. batch'.from = batch.from \cup (IF k > 0 THEN {rollout.has} ELSE {})
    BY <2>1 DEF Extended
  <2>. QED  BY <2>1, <2>2
<1>5. CASE TakeBatch  BY <1>5 DEF TakeBatch, Generate
<1>6. CASE EndEpoch  BY <1>6 DEF EndEpoch, Enter, sampling
<1>7. CASE FlushAndSleep  BY <1>7 DEF FlushAndSleep, sampling, TypeOK
<1>8. CASE UpdateActor  BY <1>8 DEF UpdateActor
<1>9. CASE SkipActor  BY <1>9 DEF SkipActor, FinishStep
<1>10. CASE SyncWeights  BY <1>10 DEF SyncWeights, FinishStep
<1>11. CASE MakeDir \/ Commit \/ TailSkip \/ TailMakeDir \/ TailCommit
  BY <1>11 DEF MakeDir, Commit, TailSkip, TailMakeDir, TailCommit
<1>12. CASE Exit  BY <1>12 DEF Exit
<1>13. CASE UNCHANGED vars  BY <1>13 DEF vars
<1>. QED
  BY <1>1, <1>3, <1>4, <1>5, <1>6, <1>7, <1>8, <1>9, <1>10, <1>11, <1>12, <1>13 DEF Next

\* Every group trained on was generated with the weights that are updated, and
\* awake replicas hold those weights whenever the driver generates.
THEOREM OnPolicyCorrect == Spec => []OnPolicy
<1>1. Init => PolicyInv  BY DEF Init, PolicyInv, OnPolicy
<1>2. PolicyInv => OnPolicy  BY DEF PolicyInv
<1>. QED  BY TypeCorrect, PolicyStep, <1>1, <1>2, PTL DEF Spec

-----------------------------------------------------------------------------
(* Trajectory logs.                                                          *)

\* A step of the driver that touches neither weights, logs, checkpoint nor
\* global_steps, and does not enter an earlier phase.
LEMMA LogsFrame ==
  ASSUME LogsInv, pc # "down", UNCHANGED <<gs, weights, ckpt, logs, run>>,
         pc' \in Unsaved => pc \in Unsaved, pc' = "sync" => pc \in Unsaved \cup {"sync"},
         pc' \in {"draw", "full", "update"} => pc \in {"draw", "full", "update"},
         pc' \in {"draw", "full"} => pc \in {"draw", "full"}, pc' = "update" => pc = "update",
         TypeOK
  PROVE  LogsInv'
<1>1. ckpt.step \in Int /\ gs \in Int  BY StepsAreNumbers DEF TypeOK
<1>2. pc' = "sync" => ckpt.step <= gs  BY <1>1 DEF LogsInv
<1>. QED  BY <1>2 DEF LogsInv, LogsOfLineage

LEMMA LogsStep == ASSUME TypeOK, TypeOK', LogsInv, [Next]_vars  PROVE LogsInv'
<1>1. /\ ckpt.step \in Int /\ gs \in Int /\ run \in 0 .. MaxRuns /\ (pc # "down" => gs \in Steps /\ run \in Runs)
      /\ \A s \in Steps : s \in Int
      /\ logs \in [Steps -> 0 .. MaxRuns] /\ weights \in [Steps -> 0 .. MaxRuns]
      /\ ckpt.weights \in [Steps -> 0 .. MaxRuns]
  <2>1. \A s \in Steps : s \in Int  BY StepsAreNumbers DEF Steps
  <2>2. ckpt.step \in 0 .. TotalSteps + run /\ gs \in 0 .. TotalSteps + run /\ run \in 0 .. MaxRuns
    BY DEF TypeOK
  <2>3. ckpt.step \in Int /\ gs \in Int  BY <2>2
  <2>. QED  BY <2>1, <2>2, <2>3 DEF TypeOK, Weights
<1>2. CASE Launch
  <2>1. /\ weights' = ckpt.weights /\ ckpt' = ckpt /\ gs' = ckpt.step + 1 /\ pc' \in {"draw", "tail"}
        /\ logs' = [s \in Steps |-> IF s <= ckpt.step THEN logs[s] ELSE 0]
    BY <1>2 DEF Launch, Enter, LogsUpTo
  <2>2. \A s \in Steps : ckpt.weights[s] # 0 => s <= ckpt.step /\ logs[s] \in {0, ckpt.weights[s]}  BY DEF LogsInv
  <2>3. \A s \in Steps : ckpt.weights[s] # 0 => logs'[s] \in {0, ckpt.weights[s]}  BY <2>1, <2>2
  <2>4. \A s \in Steps : s > gs' => logs'[s] = 0  BY <1>1, <2>1
  <2>5. gs' \in Steps => logs'[gs'] = 0  BY <1>1, <2>1
  <2>6. gs' \in Steps  BY <2>1 DEF TypeOK
  <2>. QED  BY <1>1, <2>1, <2>2, <2>3, <2>4, <2>5, <2>6 DEF LogsInv, LogsOfLineage, Unsaved
<1>3. ASSUME NEW k \in 0 .. G, KeepGenerating(k) \/ GiveUp(k) \/ FillBatch(k)  PROVE LogsInv'
  BY <1>3, LogsFrame DEF KeepGenerating, GiveUp, FillBatch, Generate, disk, Unsaved
<1>4. CASE TakeBatch  BY <1>4, LogsFrame DEF TakeBatch, Generate, disk, Unsaved
<1>5. CASE EndEpoch  BY <1>5, LogsFrame DEF EndEpoch, Enter, disk, Unsaved
<1>6. CASE FlushAndSleep
  <2>1. /\ pc = "full" /\ pc' = "update" /\ UNCHANGED <<run, gs, weights, ckpt>>
        /\ logs' = logs \/ logs' = [logs EXCEPT ![gs] = run]
    BY <1>6 DEF FlushAndSleep
  <2>2. ckpt.step < gs /\ gs \in Steps /\ \A s \in Steps : weights[s] # 0 => s < gs
    BY <1>1, <2>1 DEF LogsInv, Unsaved
  <2>3. logs'[gs] \in {0, run} /\ \A s \in Steps : s # gs => logs'[s] = logs[s]
    BY <1>1, <2>1, <2>2 DEF LogsInv
  <2>4. \A s \in Steps : ckpt.weights[s] # 0 => s <= ckpt.step /\ logs'[s] \in {0, ckpt.weights[s]}
    BY <1>1, <2>2, <2>3 DEF LogsInv
  <2>5. LogsOfLineage'  BY <1>1, <2>1, <2>2, <2>3 DEF LogsInv, LogsOfLineage
  <2>. QED  BY <1>1, <2>1, <2>2, <2>3, <2>4, <2>5 DEF LogsInv
<1>7. CASE UpdateActor
  <2>1. /\ pc = "update" /\ pc' \in {"save", "sync"} /\ UNCHANGED <<run, gs, logs, ckpt>>
        /\ weights' = [weights EXCEPT ![gs] = run]
    BY <1>7 DEF UpdateActor, disk
  <2>2. gs \in Steps /\ logs[gs] \in {0, run} /\ ckpt.step < gs  BY <1>1, <2>1 DEF LogsInv, Unsaved
  <2>3. weights'[gs] = run /\ \A s \in Steps : s # gs => weights'[s] = weights[s]  BY <1>1, <2>1, <2>2
  <2>4. LogsOfLineage'  BY <2>1, <2>2, <2>3 DEF LogsInv, LogsOfLineage
  <2>5. \A s \in Steps : weights'[s] # 0 => s <= gs  BY <1>1, <2>1, <2>3 DEF LogsInv
  <2>. QED  BY <1>1, <2>1, <2>2, <2>4, <2>5 DEF LogsInv
<1>8. ASSUME FinishStep, pc \in {"update", "sync"}  PROVE LogsInv'
  <2>1. /\ UNCHANGED <<run, weights, ckpt, logs>>
        /\ \/ pc' = "done" /\ gs' = gs
           \/ pc' = "draw" /\ gs' = gs + 1
    <3>1. UNCHANGED <<run, weights, ckpt, logs>>  BY <1>8 DEF FinishStep, disk
    <3>2. CASE IsLastStep  BY <1>8, <3>1, <3>2 DEF FinishStep
    <3>3. CASE ~IsLastStep  BY <1>8, <3>1, <3>3 DEF FinishStep
    <3>. QED  BY <3>2, <3>3
  <2>2. ckpt.step <= gs  BY <1>1, <1>8 DEF LogsInv, Unsaved
  <2>3. \A s \in Steps : (weights[s] # 0 => s <= gs /\ logs[s] \in {0, weights[s]}) /\ (s > gs => logs[s] = 0)
    BY <1>8 DEF LogsInv, LogsOfLineage
  <2>4. LogsOfLineage'  BY <1>1, <1>8, <2>1, <2>3 DEF LogsOfLineage
  <2>5. \A s \in Steps : ckpt'.weights[s] # 0 => s <= ckpt'.step /\ logs'[s] \in {0, ckpt'.weights[s]}
    BY <2>1 DEF LogsInv
  <2>6. \A s \in Steps : weights'[s] # 0 => s <= gs' /\ (pc' = "draw" => s < gs')
    BY <1>1, <1>8, <2>1, <2>3
  <2>7. pc' = "draw" => ckpt'.step < gs'  BY <1>1, <1>8, <2>1, <2>2
  <2>8. pc' = "draw" => logs'[gs'] = 0
    <3>1. pc' = "draw" => gs' \in Steps  BY DEF TypeOK
    <3>. QED  BY <1>1, <1>8, <2>1, <2>3, <3>1
  <2>. QED  BY <2>1, <2>4, <2>5, <2>6, <2>7, <2>8 DEF LogsInv, Unsaved
<1>9. CASE SkipActor \/ SyncWeights  BY <1>8, <1>9 DEF SkipActor, SyncWeights
<1>10. CASE MakeDir \/ TailMakeDir \/ TailSkip
  BY <1>10, LogsFrame DEF MakeDir, TailMakeDir, TailSkip, disk, Unsaved
<1>11. CASE Commit \/ TailCommit
  <2>1. /\ pc \in {"commit", "tailcommit"} /\ pc' \in {"sync", "done"} /\ UNCHANGED <<run, gs, weights, logs>>
        /\ ckpt' = [step |-> gs, weights |-> weights, pos |-> pos, seen |-> seen]
    BY <1>11 DEF Commit, TailCommit, Saved
  <2>2. ckpt'.step = gs /\ ckpt'.weights = weights  BY <2>1
  <2>3. \A s \in Steps : weights[s] # 0 => s <= gs /\ logs[s] \in {0, weights[s]}
    BY <2>1 DEF LogsInv, LogsOfLineage
  <2>. QED  BY <1>1, <2>1, <2>2, <2>3 DEF LogsInv, LogsOfLineage, Unsaved
<1>12. CASE Exit
  BY <1>12 DEF Exit, disk, LogsInv, LogsOfLineage, Unsaved
<1>13. CASE UNCHANGED vars
  BY <1>13 DEF vars, LogsInv, LogsOfLineage
<1>. QED
  BY <1>2, <1>3, <1>4, <1>5, <1>6, <1>7, <1>9, <1>10, <1>11, <1>12, <1>13 DEF Next

\* The trajectory log of every step in the history of the weights was written
\* by the run that trained that step, and later steps have no log, however
\* often the job is killed and resumed (_init_trajectory_log_dir).
THEOREM LogsOfLineageCorrect == Spec => []LogsOfLineage
<1>1. Init => LogsInv
  BY StepsAreNumbers DEF Init, LogsInv, LogsOfLineage, Base, Unsaved
<1>2. LogsInv => LogsOfLineage  BY DEF LogsInv
<1>. QED  BY TypeCorrect, LogsStep, <1>1, <1>2, PTL DEF Spec

-----------------------------------------------------------------------------
(* The position in the data, and the end of training.                        *)

\* Settings in which a step takes one generation batch and the epochs hold
\* enough of them.
PlainLoop == ~Filter /\ E > 1 /\ TotalSteps <= E * TotalEpochs

\* What SaveDue lets a step be saved for, and what makes the saved step one
\* that fit can be resumed from: it is not the last but one of an epoch, of
\* which fit takes the next for done, unless training is over with it.
MayBeSaved(s) == SaveFreq > 0 /\ (s >= TotalSteps \/ s % SaveFreq = 0 \/ MayExpire)
Resumable(s)  == s < TotalSteps \/ s + 1 < E * TotalEpochs => (s + 1) % E # 0
SavesResumable == \A s \in Steps : MayBeSaved(s) => Resumable(s)

InStep == {"full", "update", "save", "commit", "sync"}

PositionInv ==
  /\ pc = "draw" => /\ seen = gs - 1 /\ seen = E * epoch + pos
                    /\ epoch < TotalEpochs /\ (gs > TotalSteps => pos < E)
  /\ pc \in InStep => /\ seen = gs /\ seen = E * epoch + pos
                      /\ epoch < TotalEpochs /\ pos > 0
  /\ pc \in {"save", "commit"} => Resumable(gs)
  /\ pc \in {"tail", "tailcommit"} => gs >= E * TotalEpochs /\ gs > TotalSteps
  /\ IF ckpt.step = 0 THEN ckpt.seen = 0
     ELSE /\ Resumable(ckpt.step)
          /\ ckpt.step < E * TotalEpochs =>
               ckpt.seen = ckpt.step /\ (ckpt.step % E # 0 => ckpt.pos = ckpt.step % E)

SavedInv ==
  /\ pc \in {"save", "commit", "sync"} => CriticWarmup <= gs
  /\ pc \in {"draw", "full", "update"} /\ gs <= CriticWarmup => weights = ckpt.weights
  /\ pc \in {"tail", "tailcommit"} => weights = ckpt.weights
  /\ pc = "sync" /\ IsLastStep /\ SaveFreq > 0 => ckpt.weights = weights
  /\ EndSaved

UpdatedInv ==
  /\ ckpt.step >= TotalSteps => ckpt.weights[TotalSteps] # 0
  /\ pc \in {"draw", "full", "update"} /\ gs > TotalSteps => weights[TotalSteps] # 0
  /\ pc \in {"save", "commit", "sync"} /\ gs >= TotalSteps => weights[TotalSteps] # 0
  /\ pc \in {"tail", "tailcommit", "done"} => weights[TotalSteps] # 0

\* Division of a position in the data by the length of an epoch.
LEMMA Division ==
  ASSUME NEW a \in Nat
  PROVE  a \div E \in Nat /\ a % E \in 0 .. E - 1 /\ a = E * (a \div E) + (a % E)
BY StepsAreNumbers

LEMMA EpochsApart ==
  ASSUME NEW p \in Int, NEW q \in Int, p < q
  PROVE  E * p \in Int /\ E * q \in Int /\ E * p + E <= E * q
<1>1. q - p >= 1  OBVIOUS
<1>2. E * (q - p) >= E  BY StepsAreNumbers, <1>1
<1>. QED  BY <1>2, StepsAreNumbers

LEMMA DivisionUnique ==
  ASSUME NEW a \in Nat, NEW q \in Int, NEW r \in 0 .. E - 1, a = E * q + r
  PROVE  a \div E = q /\ a % E = r
<1>. DEFINE d == a \div E
            m == a % E
<1>1. d \in Int /\ m \in 0 .. E - 1 /\ a = E * d + m  BY Division
<1>. HIDE DEF d, m
<1>2. E * d \in Int /\ E * q \in Int /\ E \in Int /\ m \in Int /\ r \in Int  BY StepsAreNumbers, <1>1
<1>3. ~(d < q)  BY EpochsApart, <1>1, <1>2
<1>4. ~(q < d)  BY EpochsApart, <1>1, <1>2
<1>5. d = q  BY <1>1, <1>3, <1>4
<1>6. m = r  BY <1>1, <1>2, <1>5
<1>. QED  BY <1>5, <1>6 DEF d, m

\* What the arithmetic of the steps below needs of the types.
LEMMA Numbers ==
  ASSUME TypeOK
  PROVE  /\ gs \in Int /\ seen \in Int /\ epoch \in Int /\ pos \in 0 .. E /\ pos \in Int
         /\ ckpt.step \in Nat /\ ckpt.seen \in Int /\ ckpt.pos \in Int /\ E \in Int
         /\ E * epoch \in Int /\ E * TotalEpochs \in Int /\ TotalSteps \in Nat \ {0}
         /\ TotalEpochs \in Int /\ CriticWarmup \in Int /\ E * (epoch + 1) = E * epoch + E
         /\ (pc # "down" => gs \in Steps)
<1>1. ckpt.step \in 0 .. TotalSteps + run /\ ckpt.pos \in 0 .. E /\ ckpt.seen \in Nat
      /\ gs \in 0 .. TotalSteps + run /\ run \in 0 .. MaxRuns  BY DEF TypeOK
<1>2. epoch \in Nat /\ pos \in 0 .. E /\ seen \in Nat /\ (pc # "down" => gs \in Steps)  BY DEF TypeOK
<1>3. TotalSteps \in Nat \ {0} /\ TotalEpochs \in Nat \ {0} /\ E \in Nat \ {0} /\ CriticWarmup \in Nat
  BY TrainerAssumption DEF TrainerAssumption
<1>. QED  BY <1>1, <1>2, <1>3

\* The epoch of the step after s, against the number of epochs and the epoch
\* of s itself.
LEMMA NextEpoch ==
  ASSUME NEW s \in Nat, NEW n \in Int
  PROVE  /\ (s + 1) \div E < n => s + 1 < E * n
         /\ ~((s + 1) \div E < n) => s + 1 >= E * n
         /\ (s + 1) % E # 0 => s = E * ((s + 1) \div E) + (s % E) /\ s % E \in 0 .. E - 1
<1>. DEFINE e == (s + 1) \div E
            m == (s + 1) % E
<1>1. e \in Nat /\ m \in 0 .. E - 1 /\ s + 1 = E * e + m  BY Division
<1>2. m # 0 => s % E = m - 1
  <2>. HIDE DEF e, m
  <2>1. E * e \in Int /\ E \in Int /\ m \in Int /\ e \in Int  BY <1>1, StepsAreNumbers
  <2>2. m # 0 => m - 1 \in 0 .. E - 1 /\ s = E * e + (m - 1)  BY <1>1, <2>1
  <2>. QED  BY <2>1, <2>2, DivisionUnique
<1>. HIDE DEF e, m
<1>3. E * e \in Int /\ E * n \in Int /\ E \in Nat \ {0} /\ m \in Int  BY <1>1, StepsAreNumbers
<1>4. e < n => s + 1 < E * n
  <2>1. e < n => E * e + E <= E * n  BY <1>1, EpochsApart
  <2>. QED  BY <1>1, <1>3, <2>1
<1>5. ~(e < n) => s + 1 >= E * n
  <2>1. n < e => E * n + E <= E * e  BY <1>1, EpochsApart
  <2>2. n = e => E * n = E * e  OBVIOUS
  <2>3. ~(e < n) => E * e >= E * n  BY <1>1, <1>3, <2>1, <2>2
  <2>. QED  BY <1>1, <1>3, <2>3
<1>6. m # 0 => s = E * e + (m - 1) /\ m - 1 \in 0 .. E - 1  BY <1>1, <1>3
<1>. QED  BY <1>2, <1>4, <1>5, <1>6 DEF e, m

\* Where a restart goes on when it enters the loop, and that it stays out of
\* it only when training is over.
LEMMA ResumeRight ==
  ASSUME TypeOK, PlainLoop, PositionInv
  PROVE  /\ (ckpt.step + 1) \div E < TotalEpochs =>
              /\ ckpt.seen = ckpt.step /\ ckpt.seen = E * ((ckpt.step + 1) \div E) + ResumePos
              /\ ResumePos < E
         /\ ~((ckpt.step + 1) \div E < TotalEpochs) =>
              ckpt.step + 1 >= E * TotalEpochs /\ ckpt.step >= TotalSteps
<1>. DEFINE s == ckpt.step
            e == (s + 1) \div E
            m == (s + 1) % E
            L == E * TotalEpochs
<1>1. s \in Nat /\ E \in Nat \ {0, 1} /\ TotalSteps \in Nat \ {0} /\ L \in Int /\ TotalSteps <= L
  BY Numbers, StepsAreNumbers DEF PlainLoop
<1>2. /\ e < TotalEpochs => s + 1 < L
      /\ ~(e < TotalEpochs) => s + 1 >= L
      /\ m # 0 => s = E * e + (s % E) /\ s % E \in 0 .. E - 1
  <2>1. TotalEpochs \in Int  BY Numbers
  <2>. QED  BY <1>1, <2>1, NextEpoch
<1>3. s # 0 /\ s + 1 < L => m # 0 /\ ckpt.seen = s /\ (s % E # 0 => ckpt.pos = s % E)
  <2>. HIDE DEF m
  <2>1. s + 1 < L => s < L  BY <1>1
  <2>. QED  BY <2>1 DEF PositionInv, Resumable, m
<1>4. s # 0 /\ s < TotalSteps => m # 0  BY DEF PositionInv, Resumable
<1>5. s = 0 => m = 1 /\ ckpt.seen = 0
  <2>1. 1 = E * 0 + 1 /\ 1 \in 0 .. E - 1 /\ 0 \in Int  BY <1>1
  <2>2. 1 % E = 1  BY <2>1, DivisionUnique
  <2>3. s = 0 => s + 1 = 1  OBVIOUS
  <2>. QED  BY <2>2, <2>3 DEF PositionInv
<1>6. (s % E = 0 \/ s = 0 => ResumePos = 0) /\ (s % E # 0 => ResumePos = ckpt.pos)
  <2>1. 0 = E * 0 + 0 /\ 0 \in 0 .. E - 1 /\ 0 \in Int  BY <1>1
  <2>2. 0 % E = 0  BY <2>1, DivisionUnique
  <2>. QED  BY <2>2 DEF ResumePos
<1>7. L >= E
  <2>1. TotalEpochs \in Nat \ {0}  BY TrainerAssumption DEF TrainerAssumption
  <2>2. 0 < TotalEpochs /\ 0 \in Int /\ TotalEpochs \in Int  BY <2>1
  <2>3. E * 0 + E <= E * TotalEpochs  BY <2>2, EpochsApart
  <2>. QED  BY <1>1, <2>3
<1>8. s + 1 = L => m = 0
  <2>1. TotalEpochs \in Int  BY Numbers
  <2>2. L = E * TotalEpochs + 0 /\ 0 \in 0 .. E - 1 /\ L \in Nat  BY <1>1, <1>7
  <2>3. L % E = 0  BY <2>1, <2>2, DivisionUnique
  <2>. QED  BY <2>3
<1>9. s = 0 => s % E = 0
  <2>1. 0 = E * 0 + 0 /\ 0 \in 0 .. E - 1 /\ 0 \in Int  BY <1>1
  <2>. QED  BY <2>1, DivisionUnique
<1>10. ASSUME e < TotalEpochs
      PROVE  ckpt.seen = s /\ ckpt.seen = E * e + ResumePos /\ ResumePos < E
  <2>1. s + 1 < L  BY <1>2, <1>10
  <2>2. m # 0 /\ ckpt.seen = s  BY <1>3, <1>5, <2>1
  <2>3. ResumePos = s % E  BY <1>3, <1>6, <1>9, <2>1
  <2>4. s = E * e + (s % E) /\ s % E \in 0 .. E - 1  BY <1>2, <2>2
  <2>. QED  BY <1>1, <2>2, <2>3, <2>4
<1>11. ASSUME ~(e < TotalEpochs)  PROVE s + 1 >= L /\ s >= TotalSteps
  <2>1. s + 1 >= L  BY <1>2, <1>11
  <2>2. s < TotalSteps => s + 1 = L /\ s # 0
    <3>. HIDE DEF s, L
    <3>. QED  BY <1>1, <1>7, <2>1
  <2>3. ~(s < TotalSteps)  BY <1>4, <1>8, <2>2
  <2>. QED  BY <1>1, <2>1, <2>3
<1>. QED  BY <1>10, <1>11 DEF s, e, L

\* A pass of the data does not end fit: EndEpoch comes back to the loop.
LEMMA EpochEndsInLoop ==
  ASSUME TypeOK, PlainLoop, PositionInv, EndEpoch
  PROVE  pc' = "draw" /\ seen = E * (epoch + 1) /\ seen = gs - 1 /\ gs <= TotalSteps
<1>1. pc = "draw" /\ pos = E /\ pc' = Enter(epoch + 1)  BY DEF EndEpoch
<1>2. /\ seen = gs - 1 /\ seen = E * (epoch + 1) /\ ~(gs > TotalSteps)
  BY <1>1, Numbers DEF PositionInv
<1>3. epoch + 1 < TotalEpochs
  <2>1. SUFFICES ASSUME epoch + 1 >= TotalEpochs  PROVE E * (epoch + 1) >= E * TotalEpochs
    BY <1>2, Numbers DEF PlainLoop
  <2>2. epoch + 1 = TotalEpochs => E * (epoch + 1) = E * TotalEpochs  OBVIOUS
  <2>3. TotalEpochs < epoch + 1 => E * TotalEpochs + E <= E * (epoch + 1)
    BY Numbers, EpochsApart
  <2>. QED  BY <2>1, <2>2, <2>3, Numbers, StepsAreNumbers
<1>. QED  BY <1>1, <1>2, <1>3, Numbers DEF Enter

LEMMA PositionStep ==
  ASSUME TypeOK, PlainLoop, SavesResumable, PositionInv, [Next]_vars
  PROVE  PositionInv'
<1>. DEFINE Here == /\ pc' = "draw" => /\ seen' = gs' - 1 /\ seen' = E * epoch' + pos'
                                       /\ epoch' < TotalEpochs /\ (gs' > TotalSteps => pos' < E)
                    /\ pc' \in InStep => /\ seen' = gs' /\ seen' = E * epoch' + pos'
                                         /\ epoch' < TotalEpochs /\ pos' > 0
                    /\ pc' \in {"save", "commit"} => Resumable(gs')
                    /\ pc' \in {"tail", "tailcommit"} => gs' >= E * TotalEpochs /\ gs' > TotalSteps
<1>1. ASSUME UNCHANGED ckpt, Here  PROVE PositionInv'
  BY <1>1 DEF PositionInv, Resumable
<1>2. CASE Launch
  <2>1. /\ pc' = Enter((ckpt.step + 1) \div E) /\ epoch' = (ckpt.step + 1) \div E
        /\ gs' = ckpt.step + 1 /\ seen' = ckpt.seen /\ pos' = ResumePos /\ UNCHANGED ckpt
    BY <1>2 DEF Launch
  <2>2. pc' = IF epoch' < TotalEpochs THEN "draw" ELSE "tail"  BY <2>1 DEF Enter
  <2>3. epoch' < TotalEpochs => seen' = gs' - 1 /\ seen' = E * epoch' + pos' /\ pos' < E
    BY <2>1, ResumeRight, Numbers
  <2>4. ~(epoch' < TotalEpochs) => gs' >= E * TotalEpochs /\ gs' > TotalSteps
    BY <2>1, ResumeRight, Numbers
  <2>. QED  BY <1>1, <2>1, <2>2, <2>3, <2>4 DEF InStep
<1>3. CASE TakeBatch
  <2>1. /\ pc = "draw" /\ pc' = "full" /\ pos' = pos + 1 /\ seen' = seen + 1
        /\ UNCHANGED <<gs, epoch, ckpt>>
    BY <1>3 DEF TakeBatch, Generate, disk
  <2>2. seen' = gs' /\ seen' = E * epoch' + pos' /\ epoch' < TotalEpochs /\ pos' > 0
    BY <2>1, Numbers DEF PositionInv
  <2>. QED  BY <1>1, <2>1, <2>2
<1>4. CASE EndEpoch
  <2>1. /\ pc = "draw" /\ pos = E /\ epoch' = epoch + 1 /\ UNCHANGED <<gs, seen, ckpt>>
        /\ pc' = Enter(epoch + 1) /\ pos' = (IF pc' = "draw" THEN 0 ELSE pos)
    BY <1>4 DEF EndEpoch, disk
  <2>2. pc' = "draw" /\ pos' = 0 /\ seen = E * (epoch + 1) /\ seen = gs - 1 /\ ~(gs > TotalSteps)
    BY <1>4, <2>1, EpochEndsInLoop, Numbers
  <2>3. epoch + 1 < TotalEpochs  BY <2>1, <2>2 DEF Enter
  <2>4. seen' = E * epoch' + pos'  BY <2>1, <2>2, Numbers
  <2>. QED  BY <1>1, <2>1, <2>2, <2>3, <2>4 DEF InStep
<1>5. CASE FlushAndSleep
  <2>1. pc = "full" /\ pc' = "update" /\ UNCHANGED <<gs, epoch, pos, seen, ckpt>>
    BY <1>5 DEF FlushAndSleep, data
  <2>. QED  BY <1>1, <2>1 DEF PositionInv, InStep
<1>6. CASE UpdateActor
  <2>1. /\ pc = "update" /\ UNCHANGED <<gs, epoch, pos, seen, ckpt>>
        /\ \E expiring \in (IF MayExpire THEN BOOLEAN ELSE {FALSE}) :
              pc' = IF SaveDue(expiring) THEN "save" ELSE "sync"
    BY <1>6 DEF UpdateActor, data, disk
  <2>2. pc' \in {"save", "sync"} /\ (pc' = "save" => MayBeSaved(gs))
    BY <2>1 DEF SaveDue, MayBeSaved, IsLastStep
  <2>3. pc' = "save" => Resumable(gs)
    <3>1. gs \in Steps  BY <2>1, Numbers
    <3>. QED  BY <2>2, <3>1 DEF SavesResumable
  <2>. QED  BY <1>1, <2>1, <2>2, <2>3 DEF PositionInv, InStep
<1>7. CASE SkipActor \/ SyncWeights
  <2>1. /\ pc \in {"update", "sync"} /\ UNCHANGED <<epoch, pos, seen, ckpt>>
        /\ IF gs >= TotalSteps THEN pc' = "done" /\ gs' = gs ELSE pc' = "draw" /\ gs' = gs + 1
    BY <1>7 DEF SkipActor, SyncWeights, FinishStep, IsLastStep, data, disk
  <2>2. seen = gs /\ seen = E * epoch + pos /\ epoch < TotalEpochs  BY <2>1 DEF PositionInv, InStep
  <2>. QED  BY <1>1, <2>1, <2>2, Numbers DEF InStep
<1>8. CASE MakeDir
  <2>1. pc = "save" /\ pc' = "commit" /\ UNCHANGED <<gs, epoch, pos, seen, ckpt>>
    BY <1>8 DEF MakeDir, data
  <2>. QED  BY <1>1, <2>1 DEF PositionInv, InStep
<1>9. CASE Commit
  <2>1. /\ pc = "commit" /\ pc' = "sync" /\ UNCHANGED <<gs, epoch, pos, seen>>
        /\ ckpt'.step = gs /\ ckpt'.pos = pos /\ ckpt'.seen = seen
    BY <1>9 DEF Commit, Saved, data
  <2>2. seen = gs /\ seen = E * epoch + pos /\ epoch < TotalEpochs /\ pos > 0 /\ Resumable(gs)
    BY <2>1 DEF PositionInv, InStep
  <2>3. gs % E # 0 => pos = gs % E
    <3>1. gs \in Nat /\ epoch + 1 \in Int /\ 0 \in 0 .. E - 1
      BY <2>1, Numbers, StepsAreNumbers DEF Steps
    <3>2. CASE pos = E
      <4>1. gs = E * (epoch + 1) + 0  BY <2>2, <3>2, Numbers
      <4>. QED  BY <3>1, <4>1, DivisionUnique
    <3>3. CASE pos # E
      <4>1. pos \in 0 .. E - 1 /\ gs = E * epoch + pos /\ epoch \in Int  BY <2>2, <3>3, Numbers
      <4>. QED  BY <3>1, <4>1, DivisionUnique
    <3>. QED  BY <3>2, <3>3
  <2>. QED  BY <2>1, <2>2, <2>3, Numbers DEF PositionInv, InStep, Resumable
<1>10. CASE TailSkip \/ TailMakeDir
  <2>1. pc = "tail" /\ pc' \in {"tailcommit", "done"} /\ UNCHANGED <<gs, epoch, pos, seen, ckpt>>
    BY <1>10 DEF TailSkip, TailMakeDir, data, disk
  <2>. QED  BY <1>1, <2>1 DEF PositionInv, InStep
<1>11. CASE TailCommit
  <2>1. /\ pc = "tailcommit" /\ pc' = "done" /\ UNCHANGED gs
        /\ ckpt'.step = gs /\ ckpt'.pos = pos /\ ckpt'.seen = seen
    BY <1>11 DEF TailCommit, Saved
  <2>2. gs >= E * TotalEpochs /\ gs > TotalSteps  BY <2>1 DEF PositionInv
  <2>3. Resumable(gs) /\ ~(gs < E * TotalEpochs) /\ gs # 0
    <3>1. ~(gs < TotalSteps) /\ ~(gs + 1 < E * TotalEpochs) /\ ~(gs < E * TotalEpochs) /\ gs # 0
      BY <2>2, Numbers
    <3>. QED  BY <3>1 DEF Resumable
  <2>. QED  BY <2>1, <2>3 DEF PositionInv, InStep, Resumable
<1>12. CASE Exit
  <2>1. pc' = "down" /\ UNCHANGED ckpt  BY <1>12 DEF Exit, disk
  <2>. QED  BY <1>1, <2>1 DEF InStep
<1>13. CASE UNCHANGED vars
  BY <1>1, <1>13 DEF vars, PositionInv
<1>14. ~Filter  BY DEF PlainLoop
<1>. QED
  BY <1>2, <1>3, <1>4, <1>5, <1>6, <1>7, <1>8, <1>9, <1>10, <1>11, <1>12, <1>13, <1>14
     DEF Next, KeepGenerating, GiveUp, FillBatch

\* A restart neither skips nor repeats data, in settings that let no step be
\* saved from which fit takes the next one for the end of an epoch it has not
\* reached (fit, _load_checkpoint).
THEOREM DataPositionCorrect ==
  ASSUME PlainLoop, SavesResumable
  PROVE  Spec => []DataPosition
<1>1. Init => PositionInv
  BY DEF Init, PositionInv, InStep
<1>2. TypeOK /\ PositionInv /\ [Next]_vars => PositionInv'
  BY PositionStep
<1>3. PositionInv => DataPosition  BY DEF PositionInv, DataPosition
<1>. QED  BY TypeCorrect, <1>1, <1>2, <1>3, PTL DEF Spec

\* What a step changes of the weights in training.
LEMMA WeightsFrame ==
  ASSUME TypeOK, [Next]_vars
  PROVE  \/ UNCHANGED <<pc, gs, weights, ckpt>>
         \/ pc = "down" /\ gs' = ckpt.step + 1 /\ weights' = ckpt.weights /\ UNCHANGED ckpt
            /\ pc' = Enter((ckpt.step + 1) \div E)
         \/ pc \in {"draw", "full"} /\ UNCHANGED <<gs, weights, ckpt>>
            /\ (pc' \in {"draw", "full", "update", "failed"} \/ EndEpoch)
         \/ UpdateActor
         \/ SkipActor
         \/ pc = "save" /\ pc' = "commit" /\ UNCHANGED <<gs, weights, ckpt>>
         \/ pc = "commit" /\ pc' = "sync" /\ UNCHANGED <<gs, weights>> /\ ckpt' = Saved
         \/ SyncWeights
         \/ pc = "tail" /\ pc' \in {"tailcommit", "done"} /\ UNCHANGED <<gs, weights, ckpt>>
         \/ pc = "tailcommit" /\ pc' = "done" /\ UNCHANGED <<gs, weights>> /\ ckpt' = Saved
         \/ pc' = "down" /\ UNCHANGED ckpt
<1>1. CASE Launch  BY <1>1 DEF Launch
<1>2. CASE \E k \in 0 .. G : KeepGenerating(k) \/ GiveUp(k) \/ FillBatch(k)
  BY <1>2 DEF KeepGenerating, GiveUp, FillBatch, Generate, disk
<1>3. CASE TakeBatch  BY <1>3 DEF TakeBatch, Generate, disk
<1>4. CASE EndEpoch  BY <1>4 DEF EndEpoch, disk
<1>5. CASE FlushAndSleep  BY <1>5 DEF FlushAndSleep
<1>6. CASE MakeDir  BY <1>6 DEF MakeDir
<1>7. CASE Commit  BY <1>7 DEF Commit
<1>8. CASE TailSkip \/ TailMakeDir  BY <1>8 DEF TailSkip, TailMakeDir, disk
<1>9. CASE TailCommit  BY <1>9 DEF TailCommit
<1>10. CASE Exit  BY <1>10 DEF Exit, disk
<1>11. CASE UNCHANGED vars  BY <1>11 DEF vars
<1>. QED
  BY <1>1, <1>2, <1>3, <1>4, <1>5, <1>6, <1>7, <1>8, <1>9, <1>10, <1>11 DEF Next

LEMMA SavedStep ==
  ASSUME TypeOK, PlainLoop, PositionInv, SavedInv, [Next]_vars
  PROVE  SavedInv'
<1>. USE DEF SavedInv, EndSaved
<1>. DEFINE C == CriticWarmup
<1>1. CASE pc \in {"draw", "full"} /\ UNCHANGED <<gs, weights, ckpt>>
           /\ (pc' \in {"draw", "full", "update", "failed"} \/ EndEpoch)
  <2>1. pc' \in {"draw", "full", "update", "failed"}  BY <1>1, EpochEndsInLoop
  <2>. QED  BY <1>1, <2>1
<1>2. CASE pc = "down" /\ gs' = ckpt.step + 1 /\ weights' = ckpt.weights /\ UNCHANGED ckpt
           /\ pc' = Enter((ckpt.step + 1) \div E)
  BY <1>2 DEF Enter
<1>3. CASE UpdateActor
  <2>1. /\ pc = "update" /\ CriticWarmup <= gs /\ UNCHANGED <<gs, ckpt>>
        /\ \E expiring \in (IF MayExpire THEN BOOLEAN ELSE {FALSE}) :
              pc' = IF SaveDue(expiring) THEN "save" ELSE "sync"
    BY <1>3 DEF UpdateActor, disk
  <2>2. pc' \in {"save", "sync"} /\ (IsLastStep /\ SaveFreq > 0 => pc' = "save")
    BY <2>1 DEF SaveDue
  <2>. QED  BY <2>1, <2>2 DEF IsLastStep
<1>4. CASE SkipActor \/ SyncWeights
  <2>1. /\ pc \in {"update", "sync"} /\ UNCHANGED <<weights, ckpt>>
        /\ IF IsLastStep THEN pc' = "done" /\ gs' = gs ELSE pc' = "draw" /\ gs' = gs + 1
        /\ (pc = "update" => gs < C)
    BY <1>4, Numbers DEF SkipActor, SyncWeights, FinishStep, disk
  <2>2. gs + 1 <= C => pc = "update"  BY <2>1, Numbers
  <2>3. pc' = "draw" /\ gs' <= C => weights = ckpt.weights  BY <2>1, <2>2, Numbers
  <2>. QED  BY <2>1, <2>3, Numbers
<1>5. CASE pc \in {"commit", "tailcommit"} /\ pc' \in {"sync", "done"} /\ UNCHANGED <<gs, weights>>
           /\ ckpt' = Saved /\ (pc = "commit" \/ pc' = "done")
  BY <1>5 DEF Saved, IsLastStep
<1>6. CASE pc = "save" /\ pc' = "commit" /\ UNCHANGED <<gs, weights, ckpt>>  BY <1>6
<1>7. CASE pc = "tail" /\ pc' \in {"tailcommit", "done"} /\ UNCHANGED <<gs, weights, ckpt>>  BY <1>7
<1>8. CASE pc' = "down"  BY <1>8
<1>9. CASE UNCHANGED <<pc, gs, weights, ckpt>>  BY <1>9 DEF IsLastStep
<1>. QED  BY <1>1, <1>2, <1>3, <1>4, <1>5, <1>6, <1>7, <1>8, <1>9, WeightsFrame

\* When fit returns, a restart finds the weights it trained (fit,
\* _save_checkpoint), under the same conditions and without an exception: the
\* loop is left by the return of the last step, and the save after the loop
\* finds nothing unsaved.
THEOREM EndSavedCorrect ==
  ASSUME PlainLoop, SavesResumable
  PROVE  Spec => []EndSaved
<1>1. Init => PositionInv /\ SavedInv
  BY DEF Init, PositionInv, SavedInv, EndSaved, InStep
<1>2. TypeOK /\ PositionInv /\ SavedInv /\ [Next]_vars => PositionInv' /\ SavedInv'
  BY PositionStep, SavedStep
<1>3. SavedInv => EndSaved  BY DEF SavedInv
<1>. QED  BY TypeCorrect, <1>1, <1>2, <1>3, PTL DEF Spec

LEMMA UpdatedStep ==
  ASSUME TypeOK, PlainLoop, CriticWarmup <= TotalSteps, PositionInv, UpdatedInv, [Next]_vars
  PROVE  UpdatedInv'
<1>. DEFINE w == weights[TotalSteps]
<1>1. CASE pc \in {"draw", "full"} /\ UNCHANGED <<gs, weights, ckpt>>
           /\ (pc' \in {"draw", "full", "update", "failed"} \/ EndEpoch)
  <2>1. pc' \in {"draw", "full", "update", "failed"}  BY <1>1, EpochEndsInLoop
  <2>. QED  BY <1>1, <2>1 DEF UpdatedInv
<1>2. CASE pc = "down" /\ gs' = ckpt.step + 1 /\ weights' = ckpt.weights /\ UNCHANGED ckpt
           /\ pc' = Enter((ckpt.step + 1) \div E)
  <2>1. pc' \in {"draw", "tail"} /\ (pc' = "tail" => ckpt.step >= TotalSteps)
    BY <1>2, ResumeRight DEF Enter
  <2>2. gs' > TotalSteps => ckpt.step >= TotalSteps  BY <1>2, Numbers
  <2>. QED  BY <1>2, <2>1, <2>2 DEF UpdatedInv
<1>3. CASE UpdateActor
  <2>1. /\ pc = "update" /\ UNCHANGED <<gs, ckpt>> /\ weights' = [weights EXCEPT ![gs] = run]
        /\ pc' \in {"save", "sync"}
    BY <1>3 DEF UpdateActor, disk
  <2>2. gs \in Steps /\ run \in 1 .. MaxRuns /\ weights \in [Steps -> 0 .. MaxRuns]
    BY <2>1 DEF TypeOK, Weights, Runs
  <2>3. gs >= TotalSteps => weights'[TotalSteps] # 0
    <3>1. CASE gs = TotalSteps  BY <2>1, <2>2, <3>1
    <3>2. CASE gs > TotalSteps
      <4>1. TotalSteps \in Steps /\ weights[TotalSteps] # 0
        BY <2>1, <3>2, StepsAreNumbers DEF Steps, UpdatedInv
      <4>2. gs # TotalSteps  BY <3>2, Numbers
      <4>. QED  BY <2>1, <2>2, <4>1, <4>2
    <3>3. gs >= TotalSteps => gs = TotalSteps \/ gs > TotalSteps  BY <2>2, StepsAreNumbers DEF Steps
    <3>. QED  BY <3>1, <3>2, <3>3
  <2>. QED  BY <2>1, <2>3 DEF UpdatedInv
<1>4. CASE SkipActor \/ SyncWeights
  <2>1. /\ pc \in {"update", "sync"} /\ UNCHANGED <<weights, ckpt>>
        /\ IF gs >= TotalSteps THEN pc' = "done" /\ gs' = gs ELSE pc' = "draw" /\ gs' = gs + 1
        /\ (pc = "update" => gs < CriticWarmup)
    BY <1>4, Numbers DEF SkipActor, SyncWeights, FinishStep, IsLastStep, disk
  <2>2. pc' = "done" => pc = "sync" /\ gs >= TotalSteps  BY <2>1, Numbers
  <2>3. pc' = "draw" => ~(gs' > TotalSteps)  BY <2>1, Numbers
  <2>. QED  BY <2>1, <2>2, <2>3 DEF UpdatedInv
<1>5. CASE pc \in {"commit", "tailcommit"} /\ pc' \in {"sync", "done"} /\ UNCHANGED <<gs, weights>>
           /\ ckpt' = Saved /\ (pc = "tailcommit" => pc' = "done") /\ (pc = "commit" => pc' = "sync")
  BY <1>5 DEF UpdatedInv, Saved
<1>6. CASE pc = "save" /\ pc' = "commit" /\ UNCHANGED <<gs, weights, ckpt>>  BY <1>6 DEF UpdatedInv
<1>7. CASE pc = "tail" /\ pc' \in {"tailcommit", "done"} /\ UNCHANGED <<gs, weights, ckpt>>
  BY <1>7 DEF UpdatedInv
<1>8. CASE pc' = "down" /\ UNCHANGED ckpt  BY <1>8 DEF UpdatedInv
<1>9. CASE UNCHANGED <<pc, gs, weights, ckpt>>  BY <1>9 DEF UpdatedInv
<1>. QED  BY <1>1, <1>2, <1>3, <1>4, <1>5, <1>6, <1>7, <1>8, <1>9, WeightsFrame

\* Training that ends has made its last step, under the same conditions, and
\* when the actor is trained at all by then (fit).
THEOREM FullTrainingCorrect ==
  ASSUME PlainLoop, SavesResumable, CriticWarmup <= TotalSteps
  PROVE  Spec => []FullTraining
<1>1. Init => PositionInv /\ UpdatedInv
  BY StepsAreNumbers DEF Init, PositionInv, UpdatedInv, InStep
<1>2. TypeOK /\ PositionInv /\ UpdatedInv /\ [Next]_vars => PositionInv' /\ UpdatedInv'
  BY PositionStep, UpdatedStep
<1>3. UpdatedInv => FullTraining  BY DEF UpdatedInv, FullTraining
<1>. QED  BY TypeCorrect, <1>1, <1>2, <1>3, PTL DEF Spec

\* The usual settings are of this kind: epochs of more than one step, training
\* for all of them, saves at a frequency that divides the epoch.
LEMMA UsualSettings ==
  ASSUME ~Filter, E > 1, TotalSteps = E * TotalEpochs, ~MayExpire,
         SaveFreq > 1, NEW k \in Int, E = SaveFreq * k
  PROVE  PlainLoop /\ SavesResumable
<1>1. /\ E \in Nat /\ TotalEpochs \in Nat /\ TotalSteps \in Nat /\ E * TotalEpochs \in Int
      /\ SaveFreq \in Int
  BY TrainerAssumption DEF TrainerAssumption
<1>2. ASSUME NEW s \in Steps, MayBeSaved(s), s < TotalSteps \/ s + 1 < E * TotalEpochs, (s + 1) % E = 0
      PROVE  FALSE
  <2>. DEFINE q == (s + 1) \div E
              p == s \div SaveFreq
  <2>1. s \in Nat /\ s < TotalSteps /\ s % SaveFreq = 0  BY <1>1, <1>2 DEF MayBeSaved, Steps
  <2>2. q \in Int /\ s + 1 = E * q
    <3>1. s + 1 \in Nat  BY <2>1
    <3>2. q \in Nat /\ s + 1 = E * q + ((s + 1) % E)  BY <3>1, Division
    <3>3. E * q \in Int  BY <1>1, <3>2
    <3>. QED  BY <1>2, <3>2, <3>3
  <2>3. p \in Int /\ s = SaveFreq * p  BY <1>1, <2>1
  <2>. HIDE DEF p, q
  <2>4. SaveFreq * (k * q - p) = 1
    <3>1. (SaveFreq * k) * q = SaveFreq * (k * q)  BY <1>1, <2>2
    <3>2. SaveFreq * (k * q - p) = SaveFreq * (k * q) - SaveFreq * p  BY <1>1, <2>2, <2>3
    <3>3. E * q = (SaveFreq * k) * q  OBVIOUS
    <3>. QED  BY <1>1, <2>1, <2>2, <2>3, <3>1, <3>2, <3>3
  <2>5. k * q - p \in Int  BY <2>2, <2>3
  <2>6. \A x \in Int : SaveFreq * x # 1
    <3>1. ASSUME NEW x \in Int, x >= 1  PROVE SaveFreq * x >= SaveFreq  BY <1>1, <3>1
    <3>2. ASSUME NEW x \in Int, x <= 0  PROVE SaveFreq * x <= 0  BY <1>1, <3>2
    <3>. QED  BY <1>1, <3>1, <3>2
  <2>. QED  BY <2>4, <2>5, <2>6
<1>. QED  BY <1>1, <1>2 DEF PlainLoop, SavesResumable, Resumable

-----------------------------------------------------------------------------
(* The position in the data and the end of training in all settings, dynamic *)
(* sampling included: a step may take several batches, so the number of the  *)
(* step says nothing of the data, and what goes wrong goes wrong in the      *)
(* restart that takes it for a position.                                     *)

\* The epoch fit enters, computed from the step of the checkpoint, and what it
\* would have to be: the one the data was in when the checkpoint was saved.
FirstEpoch == (ckpt.step + 1) \div E
Agrees ==
  IF FirstEpoch < TotalEpochs THEN ckpt.seen = E * FirstEpoch + ResumePos
                              ELSE ckpt.seen >= E * TotalEpochs
RestartsAgree == [][Launch => Agrees]_vars

SeenInv ==
  /\ pc \in InStep \cup {"draw"} => seen = E * epoch + pos /\ epoch < TotalEpochs
  /\ pc \in {"tail", "tailcommit"} => seen >= E * TotalEpochs

TrainedFully(w, n) == w[TotalSteps] # 0 \/ n >= E * TotalEpochs

FullInv ==
  /\ ckpt.step >= TotalSteps => TrainedFully(ckpt.weights, ckpt.seen)
  /\ pc \in {"draw", "full", "update"} /\ gs > TotalSteps => TrainedFully(weights, seen)
  /\ pc \in {"save", "commit", "sync"} /\ gs >= TotalSteps => TrainedFully(weights, seen)
  /\ pc \in {"tail", "tailcommit", "done"} => TrainedFully(weights, seen)

LEMMA SeenStep ==
  ASSUME TypeOK, SeenInv, Launch => Agrees, [Next]_vars
  PROVE  SeenInv'
<1>. USE DEF SeenInv, InStep
<1>1. CASE Launch
  <2>1. /\ pc' = Enter(FirstEpoch) /\ epoch' = FirstEpoch
        /\ seen' = ckpt.seen /\ pos' = ResumePos
    BY <1>1 DEF Launch, FirstEpoch
  <2>. QED  BY <1>1, <2>1 DEF Agrees, Enter
<1>2. ASSUME NEW k \in 0 .. G, Generate(k), pc' \in {"draw", "full", "failed"}
      PROVE  SeenInv'
  <2>1. pc = "draw" /\ pos' = pos + 1 /\ seen' = seen + 1 /\ UNCHANGED epoch
    BY <1>2 DEF Generate
  <2>. QED  BY <1>2, <2>1, Numbers
<1>3. ASSUME NEW k \in 0 .. G, KeepGenerating(k) \/ GiveUp(k) \/ FillBatch(k)  PROVE SeenInv'
  BY <1>2, <1>3 DEF KeepGenerating, GiveUp, FillBatch
<1>4. CASE TakeBatch
  <2>1. G \in 0 .. G  BY SamplingAssumption DEF SamplingAssumption
  <2>. QED  BY <1>2, <1>4, <2>1 DEF TakeBatch
<1>5. CASE EndEpoch
  <2>1. /\ pc = "draw" /\ pos = E /\ epoch' = epoch + 1 /\ seen' = seen
        /\ pc' = Enter(epoch + 1) /\ pos' = (IF pc' = "draw" THEN 0 ELSE pos)
    BY <1>5 DEF EndEpoch
  <2>2. seen = E * (epoch + 1) /\ epoch + 1 <= TotalEpochs
    BY <2>1, Numbers
  <2>3. CASE epoch + 1 < TotalEpochs
    <3>1. pc' = "draw" /\ pos' = 0  BY <2>1, <2>3 DEF Enter
    <3>. QED  BY <2>1, <2>2, <2>3, <3>1, Numbers
  <2>4. CASE ~(epoch + 1 < TotalEpochs)
    <3>1. pc' = "tail"  BY <2>1, <2>4 DEF Enter
    <3>2. epoch + 1 = TotalEpochs  BY <2>2, <2>4, Numbers
    <3>3. seen' >= E * TotalEpochs  BY <2>1, <2>2, <3>2, Numbers
    <3>. QED  BY <3>1, <3>3
  <2>. QED  BY <2>3, <2>4
<1>6. CASE FlushAndSleep \/ UpdateActor
  <2>1. pc \in {"full", "update"} /\ pc' \in {"update", "save", "sync"} /\ UNCHANGED <<epoch, pos, seen>>
    BY <1>6 DEF FlushAndSleep, UpdateActor, data
  <2>. QED  BY <2>1
<1>7. CASE SkipActor \/ SyncWeights
  <2>1. pc \in {"update", "sync"} /\ pc' \in {"draw", "done"} /\ UNCHANGED <<epoch, pos, seen>>
    BY <1>7 DEF SkipActor, SyncWeights, FinishStep, data
  <2>. QED  BY <2>1
<1>8. CASE MakeDir \/ Commit
  <2>1. pc \in {"save", "commit"} /\ pc' \in {"commit", "sync"} /\ UNCHANGED <<epoch, pos, seen>>
    BY <1>8 DEF MakeDir, Commit, data
  <2>. QED  BY <2>1
<1>9. CASE TailSkip \/ TailMakeDir \/ TailCommit
  <2>1. pc \in {"tail", "tailcommit"} /\ pc' \in {"tailcommit", "done"} /\ UNCHANGED seen
    BY <1>9 DEF TailSkip, TailMakeDir, TailCommit, data
  <2>. QED  BY <2>1
<1>10. CASE Exit  BY <1>10 DEF Exit
<1>11. CASE UNCHANGED vars  BY <1>11 DEF vars
<1>. QED  BY <1>1, <1>3, <1>4, <1>5, <1>6, <1>7, <1>8, <1>9, <1>10, <1>11 DEF Next

\* Within a run no batch that was taken is forgotten.
LEMMA SeenGrows ==
  ASSUME TypeOK, [Next]_vars, pc # "down", pc' # "down"
  PROVE  seen' >= seen
<1>1. seen \in Int  BY Numbers
<1>2. ASSUME NEW k, Generate(k)  PROVE seen' >= seen  BY <1>1, <1>2 DEF Generate
<1>3. CASE \E k \in 0 .. G : KeepGenerating(k) \/ GiveUp(k) \/ FillBatch(k)
  BY <1>2, <1>3 DEF KeepGenerating, GiveUp, FillBatch
<1>4. CASE TakeBatch  BY <1>2, <1>4 DEF TakeBatch
<1>5. ASSUME UNCHANGED seen  PROVE seen' >= seen  BY <1>1, <1>5
<1>6. CASE FlushAndSleep \/ UpdateActor \/ SkipActor \/ SyncWeights \/ MakeDir \/ Commit
  BY <1>5, <1>6 DEF FlushAndSleep, UpdateActor, SkipActor, SyncWeights, FinishStep, MakeDir, Commit, data
<1>7. CASE EndEpoch \/ TailSkip \/ TailMakeDir \/ TailCommit
  BY <1>5, <1>7 DEF EndEpoch, TailSkip, TailMakeDir, TailCommit, data
<1>8. CASE UNCHANGED vars  BY <1>5, <1>8 DEF vars
<1>. QED  BY <1>3, <1>4, <1>6, <1>7, <1>8 DEF Next, Launch, Exit

LEMMA FullStep ==
  ASSUME TypeOK, CriticWarmup <= TotalSteps, SeenInv, FullInv, Launch => Agrees, [Next]_vars
  PROVE  FullInv'
<1>1. pc # "down" /\ pc' # "down" /\ TrainedFully(weights, seen) => TrainedFully(weights, seen')
  <2>1. seen \in Int /\ seen' \in Int /\ E * TotalEpochs \in Int
    <3>1. seen' = seen \/ seen' = seen + 1 \/ seen' = ckpt.seen \/ seen' = 0
      <4>1. CASE \E k \in 0 .. G : KeepGenerating(k) \/ GiveUp(k) \/ FillBatch(k)
        BY <4>1 DEF KeepGenerating, GiveUp, FillBatch, Generate
      <4>2. CASE Launch \/ TakeBatch \/ EndEpoch \/ Exit
        BY <4>2 DEF Launch, TakeBatch, Generate, EndEpoch, Exit
      <4>3. CASE FlushAndSleep \/ UpdateActor \/ SkipActor \/ SyncWeights \/ MakeDir \/ Commit
        BY <4>3 DEF FlushAndSleep, UpdateActor, SkipActor, SyncWeights, FinishStep, MakeDir, Commit, data
      <4>4. CASE TailSkip \/ TailMakeDir \/ TailCommit
        BY <4>4 DEF TailSkip, TailMakeDir, TailCommit, data
      <4>5. CASE UNCHANGED vars  BY <4>5 DEF vars
      <4>. QED  BY <4>1, <4>2, <4>3, <4>4, <4>5 DEF Next
    <3>. QED  BY <3>1, Numbers
  <2>2. pc # "down" /\ pc' # "down" => seen' >= seen  BY SeenGrows
  <2>. QED  BY <2>1, <2>2 DEF TrainedFully
<1>2. CASE pc \in {"draw", "full"} /\ UNCHANGED <<gs, weights, ckpt>>
           /\ pc' \in {"draw", "full", "update", "failed"}
  <2>1. gs > TotalSteps => TrainedFully(weights, seen')  BY <1>1, <1>2 DEF FullInv
  <2>. QED  BY <1>2, <2>1 DEF FullInv
<1>3. CASE EndEpoch
  <2>1. pc = "draw" /\ UNCHANGED <<gs, weights, ckpt, seen>> /\ pc' \in {"draw", "tail"}
    BY <1>3 DEF EndEpoch, Enter, disk
  <2>2. pc' = "tail" => TrainedFully(weights', seen')
    <3>1. SeenInv'  BY SeenStep
    <3>. QED  BY <3>1 DEF SeenInv, TrainedFully
  <2>. QED  BY <2>1, <2>2 DEF FullInv
<1>4. CASE Launch
  <2>1. /\ gs' = ckpt.step + 1 /\ weights' = ckpt.weights /\ seen' = ckpt.seen /\ UNCHANGED ckpt
        /\ pc' \in {"draw", "tail"}
    BY <1>4 DEF Launch, Enter
  <2>2. gs' > TotalSteps => ckpt.step >= TotalSteps  BY <2>1, Numbers
  <2>3. pc' = "tail" => TrainedFully(weights', seen')
    <3>1. SeenInv'  BY SeenStep
    <3>. QED  BY <3>1 DEF SeenInv, TrainedFully
  <2>. QED  BY <2>1, <2>2, <2>3 DEF FullInv
<1>5. CASE UpdateActor
  <2>1. /\ pc = "update" /\ UNCHANGED <<gs, ckpt, seen>> /\ weights' = [weights EXCEPT ![gs] = run]
        /\ pc' \in {"save", "sync"}
    BY <1>5 DEF UpdateActor, data, disk
  <2>2. gs \in Steps /\ run \in 1 .. MaxRuns /\ weights \in [Steps -> 0 .. MaxRuns]
    BY <2>1 DEF TypeOK, Weights, Runs
  <2>3. gs >= TotalSteps => TrainedFully(weights', seen)
    <3>1. CASE gs = TotalSteps  BY <2>1, <2>2, <3>1 DEF TrainedFully
    <3>2. CASE gs > TotalSteps
      <4>1. TotalSteps \in Steps /\ TrainedFully(weights, seen)
        BY <2>1, <3>2, StepsAreNumbers DEF Steps, FullInv
      <4>2. gs # TotalSteps  BY <3>2, Numbers
      <4>. QED  BY <2>1, <2>2, <4>1, <4>2 DEF TrainedFully
    <3>3. gs >= TotalSteps => gs = TotalSteps \/ gs > TotalSteps  BY <2>2, StepsAreNumbers DEF Steps
    <3>. QED  BY <3>1, <3>2, <3>3
  <2>. QED  BY <2>1, <2>3 DEF FullInv
<1>6. CASE SkipActor \/ SyncWeights
  <2>1. /\ pc \in {"update", "sync"} /\ UNCHANGED <<weights, ckpt, seen>>
        /\ IF gs >= TotalSteps THEN pc' = "done" /\ gs' = gs ELSE pc' = "draw" /\ gs' = gs + 1
        /\ (pc = "update" => gs < CriticWarmup)
    BY <1>6, Numbers DEF SkipActor, SyncWeights, FinishStep, IsLastStep, data, disk
  <2>2. pc' = "done" => pc = "sync" /\ gs >= TotalSteps  BY <2>1, Numbers
  <2>3. pc' = "draw" => ~(gs' > TotalSteps)  BY <2>1, Numbers
  <2>. QED  BY <2>1, <2>2, <2>3 DEF FullInv
<1>7. CASE MakeDir
  <2>1. pc = "save" /\ pc' = "commit" /\ UNCHANGED <<gs, weights, ckpt, seen>>  BY <1>7 DEF MakeDir, data
  <2>. QED  BY <2>1 DEF FullInv
<1>8. CASE Commit \/ TailCommit
  <2>1. /\ \/ pc = "commit" /\ pc' = "sync"
           \/ pc = "tailcommit" /\ pc' = "done"
        /\ UNCHANGED <<gs, weights, seen>>
        /\ ckpt'.step = gs /\ ckpt'.weights = weights /\ ckpt'.seen = seen
    BY <1>8 DEF Commit, TailCommit, Saved, data
  <2>. QED  BY <2>1 DEF FullInv
<1>9. CASE TailSkip \/ TailMakeDir
  <2>1. pc = "tail" /\ pc' \in {"tailcommit", "done"} /\ UNCHANGED <<gs, weights, ckpt, seen>>
    BY <1>9 DEF TailSkip, TailMakeDir, data, disk
  <2>. QED  BY <2>1 DEF FullInv
<1>10. CASE Exit
  <2>1. pc' = "down" /\ UNCHANGED ckpt  BY <1>10 DEF Exit, disk
  <2>. QED  BY <2>1 DEF FullInv
<1>11. CASE UNCHANGED vars
  <2>1. UNCHANGED <<pc, gs, weights, seen, ckpt>>  BY <1>11 DEF vars
  <2>. QED  BY <2>1 DEF FullInv
<1>12. CASE \E k \in 0 .. G : KeepGenerating(k) \/ GiveUp(k) \/ FillBatch(k)
  BY <1>2, <1>12 DEF KeepGenerating, GiveUp, FillBatch, Generate, disk
<1>13. CASE TakeBatch  BY <1>2, <1>13 DEF TakeBatch, Generate, disk
<1>14. CASE FlushAndSleep  BY <1>2, <1>14 DEF FlushAndSleep
<1>. QED
  BY <1>3, <1>4, <1>5, <1>6, <1>7, <1>8, <1>9, <1>10, <1>11, <1>12, <1>13, <1>14 DEF Next

\* With dynamic sampling too, and whatever is saved: the batches handed out are
\* those of the epochs before and of this pass, as long as every restart enters
\* the epoch the data was in.  Nothing else in fit moves the position: not an
\* epoch that ends between two generation batches of a step, not a kill.
THEOREM DataPositionOfAgreeing == Spec /\ RestartsAgree => []DataPosition
<1>1. Init => SeenInv  BY DEF Init, SeenInv, InStep
<1>2. TypeOK /\ SeenInv /\ [Launch => Agrees]_vars /\ [Next]_vars => SeenInv'
  <2>1. UNCHANGED vars /\ SeenInv => SeenInv'  BY DEF vars, SeenInv
  <2>. QED  BY <2>1, SeenStep
<1>3. SeenInv => DataPosition  BY DEF SeenInv, DataPosition
<1>. QED  BY TypeCorrect, <1>1, <1>2, <1>3, PTL DEF Spec, RestartsAgree

\* Under the same condition, training that ends has made its last step or has
\* seen the data total_epochs times, although a step may take any number of
\* generation batches (fit).
THEOREM FullTrainingOfAgreeing ==
  ASSUME CriticWarmup <= TotalSteps
  PROVE  Spec /\ RestartsAgree => []FullTraining
<1>1. Init => SeenInv /\ FullInv
  BY StepsAreNumbers DEF Init, SeenInv, FullInv, InStep
<1>2. TypeOK /\ SeenInv /\ FullInv /\ [Launch => Agrees]_vars /\ [Next]_vars => SeenInv' /\ FullInv'
  <2>1. UNCHANGED vars /\ SeenInv /\ FullInv => SeenInv' /\ FullInv'
    BY DEF vars, SeenInv, FullInv, TrainedFully
  <2>. QED  BY <2>1, SeenStep, FullStep
<1>3. FullInv => FullTraining  BY DEF FullInv, FullTraining, TrainedFully
<1>. QED  BY TypeCorrect, <1>1, <1>2, <1>3, PTL DEF Spec, RestartsAgree

\* The first run starts from no checkpoint.
FreshInv ==
  /\ run = 0 => /\ pc = "down" /\ dirs = {}
                /\ ckpt = [step |-> 0, weights |-> Base, pos |-> 0, seen |-> 0]
  /\ pc # "down" => run > 0

LEMMA FreshStep ==
  ASSUME TypeOK, FreshInv, [Next]_vars
  PROVE  /\ FreshInv'
         /\ run' <= 1 => run <= 1
         /\ E > 1 /\ run' <= 1 /\ Launch => Agrees
<1>1. run \in Nat  BY StepsAreNumbers DEF TypeOK
<1>2. CASE Launch
  <2>1. run' = run + 1  BY <1>2 DEF Launch
  <2>2. ASSUME E > 1, run = 0  PROVE Agrees
    <3>1. ckpt.step = 0 /\ ckpt.pos = 0 /\ ckpt.seen = 0  BY <2>2 DEF FreshInv
    <3>2. E \in Nat /\ TotalEpochs \in Nat \ {0}  BY TrainerAssumption DEF TrainerAssumption
    <3>3. 1 \in Nat /\ 0 \in Int /\ 1 \in 0 .. E - 1 /\ 1 = E * 0 + 1  BY <2>2, <3>2
    <3>4. 1 \div E = 0  BY <3>3, DivisionUnique
    <3>5. FirstEpoch = 0  BY <3>1, <3>4 DEF FirstEpoch
    <3>6. ResumePos = 0  BY <3>1 DEF ResumePos
    <3>. QED  BY <3>1, <3>2, <3>5, <3>6 DEF Agrees
  <2>3. run' <= 1 => run = 0  BY <1>1, <2>1
  <2>. QED  BY <1>1, <2>1, <2>2, <2>3 DEF FreshInv
<1>3. CASE ~Launch /\ Next
  <2>1. run' = run
    BY <1>3 DEF Next, KeepGenerating, GiveUp, FillBatch, TakeBatch, Generate, EndEpoch, FlushAndSleep,
                UpdateActor, SkipActor, SyncWeights, FinishStep, MakeDir, Commit, TailSkip, TailMakeDir,
                TailCommit, Exit
  <2>2. pc # "down"
    BY <1>3 DEF Next, KeepGenerating, GiveUp, FillBatch, TakeBatch, Generate, EndEpoch, FlushAndSleep,
                UpdateActor, SkipActor, SyncWeights, MakeDir, Commit, TailSkip, TailMakeDir,
                TailCommit, Exit
  <2>. QED  BY <1>1, <1>3, <2>1, <2>2 DEF FreshInv
<1>4. CASE UNCHANGED vars
  <2>1. UNCHANGED <<pc, run, ckpt, dirs>>  BY <1>4 DEF vars
  <2>2. ~Launch \/ run' = run + 1  BY DEF Launch
  <2>. QED  BY <1>1, <2>1, <2>2 DEF FreshInv
<1>. QED  BY <1>2, <1>3, <1>4

\* A run from the start keeps its place in the data in every setting, if an
\* epoch has more than one batch; one of a single batch it skips ((0 + 1) \div E
\* is epoch 1).
THEOREM FirstRunPosition ==
  ASSUME E > 1
  PROVE  Spec => [](run <= 1 => DataPosition)
<1>1. Init => FreshInv /\ SeenInv  BY DEF Init, FreshInv, SeenInv, InStep
<1>2. TypeOK /\ FreshInv /\ (run <= 1 => SeenInv) /\ [Next]_vars
      => FreshInv' /\ (run <= 1 => SeenInv)'
  BY FreshStep, SeenStep
<1>3. SeenInv => DataPosition  BY DEF SeenInv, DataPosition
<1>. QED  BY TypeCorrect, <1>1, <1>2, <1>3, PTL DEF Spec

\* And a run from the start that ends has trained in full.
THEOREM FirstRunTraining ==
  ASSUME E > 1, CriticWarmup <= TotalSteps
  PROVE  Spec => [](run <= 1 => FullTraining)
<1>1. Init => FreshInv /\ SeenInv /\ FullInv
  BY StepsAreNumbers DEF Init, FreshInv, SeenInv, FullInv, InStep
<1>2. TypeOK /\ FreshInv /\ (run <= 1 => SeenInv /\ FullInv) /\ [Next]_vars
      => FreshInv' /\ (run <= 1 => SeenInv /\ FullInv)'
  BY FreshStep, SeenStep, FullStep
<1>3. FullInv => FullTraining  BY DEF FullInv, FullTraining, TrainedFully
<1>. QED  BY TypeCorrect, <1>1, <1>2, <1>3, PTL DEF Spec

\* SavedInv for the first run, where the save after the loop is never skipped:
\* no directory there is from a later step that was lost.
FirstSavedInv ==
  /\ pc \in {"save", "commit", "sync"} => CriticWarmup <= gs
  /\ pc \in {"draw", "full", "update"} /\ gs <= CriticWarmup => weights = ckpt.weights
  /\ pc \in {"draw", "full", "update", "save", "tail"} => \A d \in dirs : d < gs
  /\ pc \in {"commit", "sync"} => \A d \in dirs : d <= gs
  /\ pc = "sync" /\ IsLastStep /\ SaveFreq > 0 => ckpt.weights = weights
  /\ EndSaved

LEMMA FirstSavedStep ==
  ASSUME TypeOK, FreshInv, run <= 1 => FirstSavedInv, [Next]_vars
  PROVE  run' <= 1 => FirstSavedInv'
<1>. SUFFICES ASSUME run' <= 1  PROVE FirstSavedInv'
  OBVIOUS
<1>. USE DEF EndSaved
<1>1. run <= 1 /\ FirstSavedInv  BY FreshStep
<1>2. \A d \in dirs : d \in Int  BY StepsAreNumbers DEF TypeOK, Steps
<1>3. CASE Launch
  <2>1. run = 0  BY <1>1, <1>3, StepsAreNumbers DEF Launch, TypeOK
  <2>2. dirs = {}  BY <2>1 DEF FreshInv
  <2>3. pc' \in {"draw", "tail"} /\ weights' = ckpt.weights /\ UNCHANGED <<ckpt, dirs>>
    BY <1>3 DEF Launch, Enter
  <2>. QED  BY <2>2, <2>3 DEF FirstSavedInv
<1>4. CASE pc \in {"draw", "full"} /\ UNCHANGED <<gs, weights, ckpt, dirs>>
           /\ pc' \in {"draw", "full", "update", "failed", "tail"}
  BY <1>1, <1>4 DEF FirstSavedInv
<1>5. CASE UpdateActor
  <2>1. /\ pc = "update" /\ CriticWarmup <= gs /\ UNCHANGED <<gs, ckpt, dirs>>
        /\ \E expiring \in (IF MayExpire THEN BOOLEAN ELSE {FALSE}) :
              pc' = IF SaveDue(expiring) THEN "save" ELSE "sync"
    BY <1>5 DEF UpdateActor, disk
  <2>2. pc' \in {"save", "sync"} /\ (IsLastStep /\ SaveFreq > 0 => pc' = "save")
    BY <2>1 DEF SaveDue
  <2>3. \A d \in dirs : d < gs  BY <1>1, <2>1 DEF FirstSavedInv
  <2>4. \A d \in dirs : d <= gs  BY <1>2, <2>3, Numbers
  <2>. QED  BY <2>1, <2>2, <2>3, <2>4 DEF FirstSavedInv, IsLastStep
<1>6. CASE SkipActor \/ SyncWeights
  <2>1. /\ pc \in {"update", "sync"} /\ UNCHANGED <<weights, ckpt, dirs>>
        /\ IF IsLastStep THEN pc' = "done" /\ gs' = gs ELSE pc' = "draw" /\ gs' = gs + 1
        /\ (pc = "update" => gs < CriticWarmup)
    BY <1>6, Numbers DEF SkipActor, SyncWeights, FinishStep, disk
  <2>2. gs + 1 <= CriticWarmup => pc = "update"  BY <1>1, <2>1, Numbers DEF FirstSavedInv
  <2>3. pc' = "draw" /\ gs' <= CriticWarmup => weights = ckpt.weights
    BY <1>1, <2>1, <2>2, Numbers DEF FirstSavedInv
  <2>4. pc' = "done" /\ SaveFreq > 0 => ckpt.weights = weights
    BY <1>1, <2>1, Numbers DEF FirstSavedInv
  <2>5. pc' = "draw" => \A d \in dirs : d < gs'
    BY <1>1, <1>2, <2>1, Numbers DEF FirstSavedInv
  <2>. QED  BY <2>1, <2>3, <2>4, <2>5 DEF FirstSavedInv
<1>7. CASE MakeDir
  <2>1. pc = "save" /\ pc' = "commit" /\ dirs' = dirs \cup {gs} /\ UNCHANGED <<gs, weights, ckpt>>
    BY <1>7 DEF MakeDir
  <2>2. \A d \in dirs' : d <= gs  BY <1>1, <1>2, <2>1, Numbers DEF FirstSavedInv
  <2>. QED  BY <1>1, <2>1, <2>2 DEF FirstSavedInv
<1>8. CASE Commit
  <2>1. /\ pc = "commit" /\ pc' = "sync" /\ UNCHANGED <<gs, weights, dirs>>
        /\ ckpt'.weights = weights
    BY <1>8 DEF Commit, Saved
  <2>. QED  BY <1>1, <2>1 DEF FirstSavedInv
<1>9. CASE TailSkip
  <2>1. pc = "tail" /\ gs \in dirs  BY <1>9 DEF TailSkip
  <2>2. gs < gs  BY <1>1, <2>1 DEF FirstSavedInv
  <2>. QED  BY <2>2, Numbers
<1>10. CASE TailMakeDir
  <2>1. pc' = "tailcommit"  BY <1>10 DEF TailMakeDir
  <2>. QED  BY <2>1 DEF FirstSavedInv
<1>11. CASE TailCommit
  <2>1. pc' = "done" /\ weights' = weights /\ ckpt'.weights = weights  BY <1>11 DEF TailCommit, Saved
  <2>. QED  BY <2>1 DEF FirstSavedInv
<1>12. CASE Exit
  <2>1. pc' = "down"  BY <1>12 DEF Exit
  <2>. QED  BY <2>1 DEF FirstSavedInv
<1>13. CASE UNCHANGED vars
  <2>1. UNCHANGED <<pc, gs, weights, ckpt, dirs>>  BY <1>13 DEF vars
  <2>. QED  BY <1>1, <2>1 DEF FirstSavedInv, IsLastStep
<1>14. CASE \E k \in 0 .. G : KeepGenerating(k) \/ GiveUp(k) \/ FillBatch(k)
  BY <1>4, <1>14 DEF KeepGenerating, GiveUp, FillBatch, Generate, disk
<1>15. CASE TakeBatch  BY <1>4, <1>15 DEF TakeBatch, Generate, disk
<1>16. CASE EndEpoch  BY <1>4, <1>16 DEF EndEpoch, Enter, disk
<1>17. CASE FlushAndSleep  BY <1>4, <1>17 DEF FlushAndSleep
<1>. QED
  BY <1>3, <1>5, <1>6, <1>7, <1>8, <1>9, <1>10, <1>11, <1>12, <1>13, <1>14, <1>15, <1>16, <1>17 DEF Next

\* And what it trained is in the checkpoint when it returns, in every setting,
\* also where it leaves the loop because the data has ended (fit).
THEOREM FirstRunSaved == Spec => [](run <= 1 => EndSaved)
<1>1. Init => FreshInv /\ FirstSavedInv  BY DEF Init, FreshInv, FirstSavedInv, EndSaved
<1>2. TypeOK /\ FreshInv /\ (run <= 1 => FirstSavedInv) /\ [Next]_vars
      => FreshInv' /\ (run <= 1 => FirstSavedInv)'
  BY FreshStep, FirstSavedStep
<1>3. FirstSavedInv => EndSaved  BY DEF FirstSavedInv
<1>. QED  BY TypeCorrect, <1>1, <1>2, <1>3, PTL DEF Spec

\* DoneSaved but for the run that finds the directory: what is saved where the
\* last step returns, and no update before the end of the warmup.
EndInv ==
  /\ \A s \in Steps : weights[s] # 0 \/ ckpt.weights[s] # 0 => CriticWarmup <= s
  /\ pc = "sync" /\ IsLastStep /\ SaveFreq > 0 => ckpt.weights = weights
  /\ pc = "done" /\ SaveFreq > 0 => \/ ckpt.weights = weights
                                    \/ gs \in dirs /\ ckpt.step < gs

\* A step whose update is skipped comes before every update.
LEMMA WarmupUnchanged ==
  ASSUME TypeOK, LogsInv, EndInv, SkipActor
  PROVE  ckpt.weights = weights
<1>1. /\ ckpt.step \in Int /\ gs \in Int /\ CriticWarmup \in Int /\ \A s \in Steps : s \in Int
      /\ weights \in [Steps -> 0 .. MaxRuns] /\ ckpt.weights \in [Steps -> 0 .. MaxRuns]
  <2>1. \A s \in Steps : s \in Int  BY StepsAreNumbers DEF Steps
  <2>2. ckpt.step \in 0 .. TotalSteps + run /\ gs \in 0 .. TotalSteps + run /\ run \in 0 .. MaxRuns
    BY DEF TypeOK
  <2>3. ckpt.step \in Int /\ gs \in Int  BY <2>2
  <2>. QED  BY <2>1, <2>3, Numbers DEF TypeOK, Weights
<1>2. pc = "update" /\ gs < CriticWarmup  BY <1>1 DEF SkipActor
<1>3. ckpt.step < gs  BY <1>2 DEF LogsInv, Unsaved
<1>4. \A s \in Steps : weights[s] = 0
  BY <1>1, <1>2 DEF LogsInv, EndInv
<1>5. \A s \in Steps : ckpt.weights[s] = 0
  BY <1>1, <1>2, <1>3 DEF LogsInv, EndInv
<1>. QED  BY <1>1, <1>4, <1>5

LEMMA EndStep == ASSUME TypeOK, LogsInv, EndInv, [Next]_vars  PROVE EndInv'
<1>1. CriticWarmup \in Int /\ gs \in Int /\ \A s \in Steps : s \in Int
  BY Numbers, StepsAreNumbers DEF TypeOK, Steps
<1>2. weights \in [Steps -> 0 .. MaxRuns]  BY DEF TypeOK, Weights
<1>3. CASE Launch
  <2>1. pc' \in {"draw", "tail"} /\ weights' = ckpt.weights /\ ckpt' = ckpt  BY <1>3 DEF Launch, Enter
  <2>. QED  BY <2>1 DEF EndInv
<1>4. CASE UpdateActor
  <2>1. /\ pc = "update" /\ CriticWarmup <= gs /\ UNCHANGED <<gs, ckpt>>
        /\ weights' = [weights EXCEPT ![gs] = run]
        /\ \E expiring \in (IF MayExpire THEN BOOLEAN ELSE {FALSE}) :
              pc' = IF SaveDue(expiring) THEN "save" ELSE "sync"
    BY <1>4 DEF UpdateActor, disk
  <2>2. pc' \in {"save", "sync"} /\ (IsLastStep /\ SaveFreq > 0 => pc' = "save")
    BY <2>1 DEF SaveDue
  <2>3. \A s \in Steps : weights'[s] # 0 => CriticWarmup <= s
    BY <1>1, <1>2, <2>1 DEF EndInv
  <2>. QED  BY <2>1, <2>2, <2>3 DEF EndInv, IsLastStep
<1>5. CASE SkipActor \/ SyncWeights
  <2>1. /\ UNCHANGED <<weights, ckpt>>
        /\ pc' = IF IsLastStep THEN "done" ELSE "draw"
        /\ pc = "sync" \/ ckpt.weights = weights
    BY <1>5, WarmupUnchanged DEF SkipActor, SyncWeights, FinishStep, disk
  <2>. QED  BY <2>1 DEF EndInv
<1>6. CASE pc \in {"commit", "tailcommit"} /\ pc' \in {"sync", "done"} /\ UNCHANGED <<gs, weights>>
           /\ ckpt' = Saved
  <2>1. ckpt'.weights = weights  BY <1>6 DEF Saved
  <2>. QED  BY <1>6, <2>1 DEF EndInv
<1>7. CASE TailSkip
  <2>1. /\ pc = "tail" /\ pc' = "done" /\ gs \in dirs /\ UNCHANGED <<gs, dirs, weights, ckpt>>
    BY <1>7 DEF TailSkip, disk
  <2>2. ckpt.step < gs  BY <2>1 DEF LogsInv, Unsaved
  <2>. QED  BY <2>1, <2>2 DEF EndInv
<1>8. CASE pc' \notin {"sync", "done"} /\ UNCHANGED <<weights, ckpt>>
  BY <1>8 DEF EndInv
<1>9. CASE Exit
  <2>1. pc' = "down" /\ weights' = Base /\ ckpt' = ckpt  BY <1>9 DEF Exit, disk
  <2>. QED  BY <2>1 DEF EndInv, Base
<1>10. CASE UNCHANGED vars
  <2>1. UNCHANGED <<pc, gs, dirs, weights, ckpt>>  BY <1>10 DEF vars
  <2>. QED  BY <2>1 DEF EndInv, IsLastStep
<1>11. CASE \E k \in 0 .. G : KeepGenerating(k) \/ GiveUp(k) \/ FillBatch(k)
  BY <1>8, <1>11 DEF KeepGenerating, GiveUp, FillBatch, Generate, disk
<1>12. CASE TakeBatch \/ EndEpoch \/ FlushAndSleep
  BY <1>8, <1>12 DEF TakeBatch, EndEpoch, FlushAndSleep, Generate, Enter, disk
<1>13. CASE MakeDir \/ TailMakeDir  BY <1>8, <1>13 DEF MakeDir, TailMakeDir
<1>14. CASE Commit \/ TailCommit  BY <1>6, <1>14 DEF Commit, TailCommit
<1>. QED
  BY <1>3, <1>4, <1>5, <1>7, <1>9, <1>10, <1>11, <1>12, <1>13, <1>14 DEF Next

\* In every setting, and whatever is killed: weights that fit trained and that
\* are not in the checkpoint when it returns are those of a restarted run that
\* found the directory of a later, uncommitted save under the name of its final
\* checkpoint (fit, "check if last step checkpint exists").
THEOREM DoneSavedCorrect == Spec => []DoneSaved
<1>1. Init => LogsInv /\ EndInv
  BY DEF Init, LogsInv, LogsOfLineage, EndInv, Base, Unsaved
<1>2. TypeOK /\ TypeOK' /\ LogsInv /\ EndInv /\ [Next]_vars => LogsInv' /\ EndInv'
  BY LogsStep, EndStep
<1>3. TypeOK /\ EndInv /\ (run <= 1 => EndSaved) => DoneSaved
  BY StepsAreNumbers DEF EndInv, EndSaved, DoneSaved, TypeOK
<1>. QED  BY TypeCorrect, FirstRunSaved, <1>1, <1>2, <1>3, PTL DEF Spec

-----------------------------------------------------------------------------
(* Generation finds awake replicas.                                          *)

AwakeInv ==
  /\ pc \in {"draw", "full"} => rollout.awake
  /\ pc = "update" /\ ~FreeCacheEngine => rollout.awake

LEMMA AwakeStep ==
  ASSUME TypeOK, CriticWarmup <= 1 \/ ~FreeCacheEngine, AwakeInv, [Next]_vars
  PROVE  AwakeInv'
<1>. USE DEF AwakeInv
<1>1. CASE Launch  BY <1>1 DEF Launch, Enter
<1>2. CASE \E k \in 0 .. G : KeepGenerating(k) \/ GiveUp(k) \/ FillBatch(k)
  BY <1>2 DEF KeepGenerating, GiveUp, FillBatch, Generate
<1>3. CASE TakeBatch  BY <1>3 DEF TakeBatch, Generate
<1>4. CASE EndEpoch  BY <1>4 DEF EndEpoch, Enter
<1>5. CASE FlushAndSleep
  <2>1. /\ pc = "full" /\ pc' = "update" /\ rollout.awake
        /\ rollout' = [rollout EXCEPT !.awake = @ /\ ~FreeCacheEngine]
    BY <1>5 DEF FlushAndSleep
  <2>2. rollout'.awake = (rollout.awake /\ ~FreeCacheEngine)  BY <2>1 DEF TypeOK
  <2>. QED  BY <2>1, <2>2
<1>6. CASE UpdateActor  BY <1>6 DEF UpdateActor
<1>7. CASE SkipActor
  <2>1. pc = "update" /\ gs < CriticWarmup /\ UNCHANGED rollout  BY <1>7, Numbers DEF SkipActor
  <2>2. gs \in Steps  BY <2>1, Numbers
  <2>3. ~(CriticWarmup <= 1)  BY <2>1, <2>2, Numbers DEF Steps
  <2>. QED  BY <2>1, <2>3
<1>8. CASE SyncWeights  BY <1>8 DEF SyncWeights, FinishStep
<1>9. CASE MakeDir \/ Commit \/ TailSkip \/ TailMakeDir \/ TailCommit
  BY <1>9 DEF MakeDir, Commit, TailSkip, TailMakeDir, TailCommit
<1>10. CASE Exit  BY <1>10 DEF Exit
<1>11. CASE UNCHANGED vars  BY <1>11 DEF vars
<1>. QED  BY <1>1, <1>2, <1>3, <1>4, <1>5, <1>6, <1>7, <1>8, <1>9, <1>10, <1>11 DEF Next

\* The driver never asks sleeping replicas to generate, unless they free their
\* memory and a warmup of the critic has steps of its own, after which fit does
\* not wake them: the part of RunEnds that needs no fairness.
THEOREM AwakeCorrect ==
  ASSUME CriticWarmup <= 1 \/ ~FreeCacheEngine
  PROVE  Spec => []AwakeToGenerate
<1>1. Init => AwakeInv  BY DEF Init, AwakeInv
<1>2. TypeOK /\ AwakeInv /\ [Next]_vars => AwakeInv'  BY AwakeStep
<1>3. AwakeInv => AwakeToGenerate  BY DEF AwakeInv, AwakeToGenerate
<1>. QED  BY TypeCorrect, <1>1, <1>2, <1>3, PTL DEF Spec

-----------------------------------------------------------------------------
(* The one-step-off policy.  Its trainer keeps what this one keeps under the *)
(* same names, and the task that generates the next batch besides.           *)

VARIABLE future

OneStep == INSTANCE OneStepOff

OneStepTypes ==
  /\ pc \in {"down", "first", "await", "update", "save", "done", "failed"}
  /\ run \in 0 .. MaxRuns
  /\ gs \in Nat /\ epoch \in Nat /\ pos \in 0 .. E
  /\ future \in [status : {"none", "running", "ready", "empty"}, from : OneStep!Weights]
  /\ batch \in OneStep!Weights /\ weights \in OneStep!Weights /\ rollout \in OneStep!Weights
  /\ ckpt \in [step : Nat, weights : OneStep!Weights, pos : 0 .. E]

\* The updates that made w are those of steps after the warmup, up to step n.
UpTo(w, n) == \A s \in OneStep!Steps : w[s] # 0 => CriticWarmup <= s /\ s <= n

\* v and w differ by the update of step n at most.
Apart(v, w, n) == \A s \in OneStep!Steps : v[s] # w[s] => s = n

HasTask == future.status \in {"running", "ready"}

\* What the replicas and the task have, against the weights in training.
BehindInv ==
  /\ UpTo(ckpt.weights, ckpt.step)
  /\ pc \in {"first", "await", "update"} => UpTo(weights, gs - 1)
  /\ pc \in {"first", "update"} => rollout = weights
  /\ pc \in {"await", "save"} =>
       LET n == IF pc = "await" THEN gs - 1 ELSE gs
       IN  /\ UpTo(weights, n) /\ UpTo(rollout, n) /\ Apart(rollout, weights, n)
           /\ HasTask => Apart(future.from, weights, n)
  /\ pc = "update" => (HasTask => future.from = weights) /\ Apart(batch, weights, gs - 1)

\* Batches handed out, counted from the epoch the iterator started in: each run
\* has lost at most the one in the task when the run before was saved.
Handed == E * epoch + pos
InTask == IF HasTask THEN 1 ELSE 0

HandedInv ==
  /\ ckpt.pos <= ckpt.step + run
  /\ pc = "first" => Handed <= gs + run - 2
  /\ pc = "await" => Handed <= gs + run - 2 + InTask
  /\ pc \in {"update", "save"} => Handed <= gs + run - 1 + InTask
  /\ pc \in {"await", "update", "save"} /\ future.status = "empty" =>
       pos = E /\ epoch + 1 >= TotalEpochs
  /\ pc = "failed" /\ TotalSteps <= E * TotalEpochs => TotalSteps <= gs + run - 2

LEMMA OneStepNumbers ==
  /\ TotalSteps \in Nat \ {0} /\ MaxRuns \in Nat \ {0} /\ E \in Nat \ {0} /\ TotalEpochs \in Nat \ {0}
  /\ CriticWarmup \in Nat
  /\ OneStep!Base \in OneStep!Weights
  /\ OneStep!NoTask \in [status : {"none", "running", "ready", "empty"}, from : OneStep!Weights]
BY TrainerAssumption DEF TrainerAssumption, OneStep!Base, OneStep!Weights, OneStep!NoTask

\* The task takes the next batch, or finds none.
LEMMA GenNextBatchType ==
  ASSUME OneStepTypes, NEW w \in OneStep!Weights, OneStep!GenNextBatch(w)
  PROVE  /\ epoch' \in Nat /\ pos' \in 0 .. E
         /\ future' \in [status : {"none", "running", "ready", "empty"}, from : OneStep!Weights]
<1>1. CASE OneStep!HasNext
  <2>1. /\ future' = [status |-> "running", from |-> w]
        /\ IF pos < E THEN pos' = pos + 1 /\ UNCHANGED epoch ELSE pos' = 1 /\ epoch' = epoch + 1
    BY <1>1 DEF OneStep!GenNextBatch
  <2>. QED  BY <2>1, OneStepNumbers DEF OneStepTypes
<1>2. CASE ~OneStep!HasNext
  <2>1. future' = [status |-> "empty", from |-> OneStep!Base] /\ UNCHANGED <<epoch, pos>>
    BY <1>2 DEF OneStep!GenNextBatch
  <2>. QED  BY <2>1, OneStepNumbers DEF OneStepTypes
<1>. QED  BY <1>1, <1>2

LEMMA SyncedType ==
  ASSUME OneStepTypes  PROVE OneStep!Synced \in OneStep!Weights
BY DEF OneStepTypes, OneStep!Synced

\* Type correctness of the one-step-off trainer.
THEOREM OneStepTypeCorrect == OneStep!Spec => []OneStepTypes
<1>1. OneStep!Init => OneStepTypes
  BY OneStepNumbers DEF OneStep!Init, OneStepTypes
<1>2. OneStepTypes /\ [OneStep!Next]_(OneStep!vars) => OneStepTypes'
  <2>. SUFFICES ASSUME OneStepTypes, [OneStep!Next]_(OneStep!vars)  PROVE OneStepTypes'
    OBVIOUS
  <2>. USE OneStepNumbers DEF OneStepTypes
  <2>1. CASE OneStep!Launch
    <3>1. OneStep!ResumePos \in 0 .. E  BY DEF OneStep!ResumePos
    <3>2. run' \in 0 .. MaxRuns  BY <2>1 DEF OneStep!Launch
    <3>. QED  BY <2>1, <3>1, <3>2 DEF OneStep!Launch
  <2>2. CASE OneStep!StartFirst
    BY <2>2, GenNextBatchType DEF OneStep!StartFirst
  <2>3. CASE OneStep!EndGeneration
    <3>1. future' = [future EXCEPT !.status = "ready"]  BY <2>3 DEF OneStep!EndGeneration
    <3>. QED  BY <2>3, <3>1 DEF OneStep!EndGeneration
  <2>4. CASE OneStep!Generate
    <3>1. rollout' \in OneStep!Weights /\ batch' \in OneStep!Weights
      BY <2>4, SyncedType DEF OneStep!Generate
    <3>2. /\ epoch' \in Nat /\ pos' \in 0 .. E
          /\ future' \in [status : {"none", "running", "ready", "empty"}, from : OneStep!Weights]
      BY <2>4, <3>1, GenNextBatchType DEF OneStep!Generate
    <3>. QED  BY <2>4, <3>1, <3>2 DEF OneStep!Generate
  <2>5. CASE OneStep!AwaitNone  BY <2>5 DEF OneStep!AwaitNone
  <2>6. CASE OneStep!UpdateActor
    <3>1. weights' \in OneStep!Weights  BY <2>6 DEF OneStep!UpdateActor, OneStep!Weights
    <3>2. pc' \in {"save", "done", "await"} /\ gs' \in {gs, gs + 1}
      BY <2>6 DEF OneStep!UpdateActor, OneStep!FinishStep
    <3>. QED  BY <2>6, <3>1, <3>2 DEF OneStep!UpdateActor
  <2>7. CASE OneStep!SaveCheckpoint
    BY <2>7 DEF OneStep!SaveCheckpoint, OneStep!FinishStep
  <2>8. CASE OneStep!Exit  BY <2>8 DEF OneStep!Exit
  <2>9. CASE UNCHANGED OneStep!vars  BY <2>9 DEF OneStep!vars
  <2>. QED  BY <2>1, <2>2, <2>3, <2>4, <2>5, <2>6, <2>7, <2>8, <2>9 DEF OneStep!Next
<1>. QED  BY <1>1, <1>2, PTL DEF OneStep!Spec

\* Before the warmup is over nothing has been updated.
LEMMA NotUpdatedYet ==
  ASSUME NEW w \in OneStep!Weights, NEW v \in OneStep!Weights, NEW n \in Int, n < CriticWarmup,
         UpTo(v, n), UpTo(w, n)
  PROVE  v = w
<1>1. ASSUME NEW s \in OneStep!Steps  PROVE v[s] = 0 /\ w[s] = 0
  BY <1>1, OneStepNumbers DEF UpTo, OneStep!Steps
<1>. QED  BY <1>1 DEF OneStep!Weights

LEMMA BehindStep ==
  ASSUME OneStepTypes, BehindInv, [OneStep!Next]_(OneStep!vars)
  PROVE  BehindInv'
<1>1. CASE OneStep!Launch
  <2>1. /\ pc' = "first" /\ gs' = ckpt.step + 1 /\ weights' = ckpt.weights /\ UNCHANGED ckpt
        /\ rollout' = (IF CriticWarmup <= ckpt.step THEN ckpt.weights ELSE OneStep!Base)
    BY <1>1 DEF OneStep!Launch
  <2>2. gs' - 1 = ckpt.step /\ UpTo(ckpt.weights, ckpt.step)  BY <2>1 DEF OneStepTypes, BehindInv
  <2>3. rollout' = weights'
    <3>1. UpTo(OneStep!Base, ckpt.step)  BY DEF UpTo, OneStep!Base
    <3>. QED  BY <2>1, <2>2, <3>1, NotUpdatedYet, OneStepNumbers DEF OneStepTypes
  <2>. QED  BY <2>1, <2>2, <2>3 DEF BehindInv, UpTo
<1>2. CASE OneStep!StartFirst
  <2>1. /\ pc = "first" /\ pc' = "await" /\ UNCHANGED <<gs, weights, rollout, ckpt>>
        /\ future'.status \in {"running", "empty"} /\ (future'.status = "running" => future'.from = rollout)
    BY <1>2 DEF OneStep!StartFirst, OneStep!GenNextBatch
  <2>2. UpTo(weights, gs - 1) /\ rollout = weights  BY <2>1 DEF BehindInv
  <2>. QED  BY <2>1, <2>2 DEF BehindInv, UpTo, Apart, HasTask
<1>3. CASE OneStep!EndGeneration
  <2>1. /\ UNCHANGED <<pc, gs, batch, weights, rollout, ckpt>> /\ future.status = "running"
        /\ future' = [future EXCEPT !.status = "ready"]
    BY <1>3 DEF OneStep!EndGeneration
  <2>2. future'.from = future.from /\ HasTask  BY <2>1 DEF OneStepTypes, HasTask
  <2>. QED  BY <2>1, <2>2 DEF BehindInv, UpTo, Apart
<1>4. CASE OneStep!Generate
  <2>1. /\ pc = "await" /\ pc' = "update" /\ UNCHANGED <<gs, weights, ckpt>>
        /\ HasTask /\ batch' = future.from /\ rollout' = OneStep!Synced
        /\ \/ future' = OneStep!NoTask
           \/ OneStep!GenNextBatch(rollout')
    BY <1>4 DEF OneStep!Generate, HasTask
  <2>2. /\ UpTo(weights, gs - 1) /\ UpTo(rollout, gs - 1)
        /\ Apart(future.from, weights, gs - 1)
    BY <2>1 DEF BehindInv
  <2>3. rollout' = weights
    <3>1. gs - 1 \in Int /\ (~(CriticWarmup <= gs) => gs - 1 < CriticWarmup)
      BY OneStepNumbers DEF OneStepTypes
    <3>2. weights \in OneStep!Weights /\ rollout \in OneStep!Weights  BY DEF OneStepTypes
    <3>3. ~(CriticWarmup <= gs) => rollout = weights  BY <2>2, <3>1, <3>2, NotUpdatedYet
    <3>. QED  BY <2>1, <3>3 DEF OneStep!Synced
  <2>4. HasTask' => future'.from = weights
    BY <2>1, <2>3 DEF OneStep!NoTask, OneStep!GenNextBatch, HasTask
  <2>. QED  BY <2>1, <2>2, <2>3, <2>4 DEF BehindInv, UpTo, Apart
<1>5. CASE OneStep!AwaitNone
  BY <1>5 DEF OneStep!AwaitNone, BehindInv, UpTo
<1>6. CASE OneStep!UpdateActor
  <2>1. /\ pc = "update" /\ UNCHANGED <<future, rollout, ckpt>>
        /\ weights' = (IF CriticWarmup <= gs THEN [weights EXCEPT ![gs] = run] ELSE weights)
        /\ \/ pc' = "save" /\ gs' = gs
           \/ pc' = "await" /\ gs' = gs + 1
           \/ pc' = "done"
    BY <1>6 DEF OneStep!UpdateActor, OneStep!FinishStep
  <2>2. UpTo(weights, gs - 1) /\ rollout = weights /\ (HasTask => future.from = weights)
    BY <2>1 DEF BehindInv
  <2>3. gs \in Nat /\ weights \in OneStep!Weights /\ CriticWarmup \in Nat  BY OneStepNumbers DEF OneStepTypes
  <2>4. UpTo(weights, gs)  BY <2>2, <2>3, OneStepNumbers DEF UpTo, OneStep!Steps
  <2>5. \A s \in OneStep!Steps : s # gs => weights'[s] = weights[s]
    BY <2>1, <2>3 DEF OneStep!Weights
  <2>6. UpTo(weights', gs)
    <3>1. ASSUME NEW s \in OneStep!Steps, weights'[s] # 0  PROVE CriticWarmup <= s /\ s <= gs
      <4>1. CASE s = gs /\ CriticWarmup <= gs  BY <2>3, <4>1
      <4>2. CASE s # gs \/ ~(CriticWarmup <= gs)  BY <2>1, <2>4, <2>5, <3>1, <4>2 DEF UpTo
      <4>. QED  BY <4>1, <4>2
    <3>. QED  BY <3>1 DEF UpTo
  <2>7. Apart(weights, weights', gs)  BY <2>5 DEF Apart
  <2>8. gs + 1 - 1 = gs  BY <2>3
  <2>9. /\ pc' \in {"await", "save"} =>
             /\ gs = (IF pc' = "await" THEN gs' - 1 ELSE gs')
             /\ UpTo(weights', gs) /\ UpTo(rollout', gs) /\ Apart(rollout', weights', gs)
             /\ HasTask' => Apart(future'.from, weights', gs)
    <3>1. UpTo(rollout', gs) /\ Apart(rollout', weights', gs)  BY <2>1, <2>2, <2>4, <2>7
    <3>2. HasTask' => future'.from = weights  BY <2>1, <2>2 DEF HasTask
    <3>3. pc' = "await" => gs' - 1 = gs
      <4>1. pc' = "await" => gs' = gs + 1  BY <2>1
      <4>. QED  BY <2>3, <4>1
    <3>4. HasTask' => Apart(future'.from, weights', gs)  BY <2>7, <3>2
    <3>5. UpTo(rollout', gs) /\ Apart(rollout', weights', gs) /\ UpTo(weights', gs)  BY <2>6, <3>1
    <3>. QED  BY <2>1, <3>3, <3>4, <3>5
  <2>. QED  BY <2>1, <2>6, <2>8, <2>9 DEF BehindInv, UpTo, Apart
<1>7. CASE OneStep!SaveCheckpoint
  <2>1. /\ pc = "save" /\ UNCHANGED <<future, weights, rollout>> /\ gs' = gs + 1
        /\ pc' \in {"await", "done"} /\ ckpt'.weights = weights /\ ckpt'.step = gs
    BY <1>7 DEF OneStep!SaveCheckpoint, OneStep!FinishStep
  <2>2. gs' - 1 = gs  BY <2>1 DEF OneStepTypes
  <2>. QED  BY <2>1, <2>2 DEF BehindInv, UpTo, Apart, HasTask
<1>8. CASE OneStep!Exit
  BY <1>8 DEF OneStep!Exit, BehindInv, UpTo
<1>9. CASE UNCHANGED OneStep!vars
  BY <1>9 DEF OneStep!vars, BehindInv, UpTo, Apart, HasTask
<1>. QED
  BY <1>1, <1>2, <1>3, <1>4, <1>5, <1>6, <1>7, <1>8, <1>9 DEF OneStep!Next

\* The batch in training was generated with the weights in training, but for
\* the update of the step before, for every length of the warmup and however
\* often the job is resumed (_fit_generate, _fit_update_weights).
THEOREM OneStepBehindCorrect == OneStep!Spec => []OneStepBehind
<1>1. OneStep!Init => BehindInv
  BY DEF OneStep!Init, BehindInv, UpTo, OneStep!Base
<1>2. BehindInv => OneStepBehind
  BY DEF BehindInv, Apart, OneStepBehind, Steps, OneStep!Steps
<1>. QED  BY OneStepTypeCorrect, BehindStep, <1>1, <1>2, PTL DEF OneStep!Spec

-----------------------------------------------------------------------------
(* How many steps the one-step-off trainer may miss.                         *)

\* A number of batches is one more after the task has taken the next one.
LEMMA GenNextBatchHands ==
  ASSUME OneStepTypes, NEW w, OneStep!GenNextBatch(w)
  PROVE  /\ Handed' = Handed + InTask'
         /\ future'.status = "empty" => pos' = E /\ epoch' + 1 >= TotalEpochs
<1>1. E \in Nat /\ epoch \in Nat /\ pos \in 0 .. E /\ TotalEpochs \in Nat
      /\ E * epoch \in Int /\ E * (epoch + 1) = E * epoch + E
  BY OneStepNumbers DEF OneStepTypes
<1>2. CASE OneStep!HasNext
  <2>1. /\ future' = [status |-> "running", from |-> w]
        /\ IF pos < E THEN pos' = pos + 1 /\ epoch' = epoch ELSE pos' = 1 /\ epoch' = epoch + 1
    BY <1>2 DEF OneStep!GenNextBatch
  <2>2. InTask' = 1 /\ future'.status # "empty"  BY <2>1 DEF InTask, HasTask
  <2>3. E * epoch' + pos' = E * epoch + pos + 1
    <3>1. CASE pos < E  BY <1>1, <2>1, <3>1
    <3>2. CASE ~(pos < E)
      <4>1. pos = E /\ pos' = 1 /\ epoch' = epoch + 1  BY <1>1, <2>1, <3>2
      <4>. QED  BY <1>1, <4>1
    <3>. QED  BY <3>1, <3>2
  <2>. QED  BY <1>1, <2>2, <2>3 DEF Handed
<1>3. CASE ~OneStep!HasNext
  <2>1. future' = [status |-> "empty", from |-> OneStep!Base] /\ UNCHANGED <<epoch, pos>>
    BY <1>3 DEF OneStep!GenNextBatch
  <2>2. InTask' = 0  BY <2>1 DEF InTask, HasTask
  <2>3. ~(pos < E) /\ ~(epoch + 1 < TotalEpochs)  BY <1>3 DEF OneStep!HasNext
  <2>. QED  BY <1>1, <2>1, <2>2, <2>3 DEF Handed
<1>. QED  BY <1>2, <1>3

LEMMA HandedStep ==
  ASSUME OneStepTypes, HandedInv, [OneStep!Next]_(OneStep!vars)
  PROVE  HandedInv'
<1>0. /\ gs \in Nat /\ run \in Nat /\ pos \in Nat /\ Handed \in Int /\ InTask \in 0 .. 1 /\ E \in Nat
      /\ ckpt.step \in Nat /\ ckpt.pos \in Nat /\ TotalSteps \in Nat
  BY OneStepNumbers DEF OneStepTypes, Handed, InTask
<1>1. CASE OneStep!Launch
  <2>1. /\ pc' = "first" /\ gs' = ckpt.step + 1 /\ run' = run + 1 /\ UNCHANGED ckpt
        /\ epoch' = 0 /\ pos' \in {0, ckpt.pos}
    BY <1>1 DEF OneStep!Launch, OneStep!ResumePos
  <2>2. Handed' = pos'
    <3>1. E * 0 = 0 /\ pos' \in Int  BY <1>0, <2>1
    <3>. QED  BY <2>1, <3>1 DEF Handed
  <2>3. Handed' <= gs' + run' - 2 /\ ckpt'.pos <= ckpt'.step + run'
    BY <1>0, <2>1, <2>2 DEF HandedInv
  <2>. QED  BY <2>1, <2>3 DEF HandedInv
<1>2. CASE OneStep!StartFirst
  <2>1. pc = "first" /\ pc' = "await" /\ UNCHANGED <<run, gs, ckpt>>  BY <1>2 DEF OneStep!StartFirst
  <2>2. /\ Handed' = Handed + InTask' /\ InTask' \in 0 .. 1
        /\ future'.status = "empty" => pos' = E /\ epoch' + 1 >= TotalEpochs
    BY <1>2, GenNextBatchHands DEF OneStep!StartFirst, InTask
  <2>3. Handed' <= gs' + run' - 2 + InTask' /\ ckpt'.pos <= ckpt'.step + run'
    <3>1. Handed <= gs + run - 2 /\ ckpt.pos <= ckpt.step + run  BY <2>1 DEF HandedInv
    <3>2. Handed + InTask' <= gs + run - 2 + InTask'
      <4>1. InTask' \in Int  BY <2>2
      <4>2. Handed \in Int /\ gs + run - 2 \in Int  BY <1>0
      <4>. QED  BY <3>1, <4>1, <4>2
    <3>3. gs' = gs /\ run' = run /\ ckpt' = ckpt  BY <2>1
    <3>. QED  BY <2>2, <3>1, <3>2, <3>3
  <2>. QED  BY <2>1, <2>2, <2>3 DEF HandedInv
<1>3. CASE OneStep!EndGeneration
  <2>1. /\ UNCHANGED <<pc, run, gs, epoch, pos, ckpt>> /\ future.status = "running"
        /\ future'.status = "ready"
    BY <1>3 DEF OneStep!EndGeneration, OneStepTypes
  <2>2. InTask' = InTask /\ Handed' = Handed  BY <2>1 DEF InTask, HasTask, Handed
  <2>. QED  BY <2>1, <2>2 DEF HandedInv
<1>4. CASE OneStep!Generate
  <2>1. /\ pc = "await" /\ pc' = "update" /\ UNCHANGED <<run, gs, ckpt>> /\ InTask = 1
        /\ \/ future' = OneStep!NoTask /\ UNCHANGED <<epoch, pos>>
           \/ OneStep!GenNextBatch(rollout')
    BY <1>4 DEF OneStep!Generate, InTask, HasTask
  <2>2. /\ Handed' = Handed + InTask' /\ InTask' \in 0 .. 1
        /\ future'.status = "empty" => pos' = E /\ epoch' + 1 >= TotalEpochs
    <3>1. CASE OneStep!GenNextBatch(rollout')  BY <3>1, GenNextBatchHands DEF InTask
    <3>2. CASE future' = OneStep!NoTask /\ UNCHANGED <<epoch, pos>>
      <4>1. InTask' = 0 /\ Handed' = Handed /\ future'.status # "empty"
        BY <3>2 DEF OneStep!NoTask, InTask, HasTask, Handed
      <4>. QED  BY <1>0, <4>1
    <3>. QED  BY <2>1, <3>1, <3>2
  <2>3. Handed' <= gs' + run' - 1 + InTask' /\ ckpt'.pos <= ckpt'.step + run'
    <3>1. Handed <= gs + run - 1 /\ ckpt.pos <= ckpt.step + run
      <4>1. Handed <= gs + run - 2 + InTask /\ ckpt.pos <= ckpt.step + run  BY <2>1 DEF HandedInv
      <4>. QED  BY <1>0, <2>1, <4>1
    <3>2. Handed + InTask' <= gs + run - 1 + InTask'
      <4>1. InTask' \in Int  BY <2>2
      <4>2. Handed \in Int /\ gs + run - 1 \in Int  BY <1>0
      <4>. QED  BY <3>1, <4>1, <4>2
    <3>3. gs' = gs /\ run' = run /\ ckpt' = ckpt  BY <2>1
    <3>. QED  BY <2>2, <3>1, <3>2, <3>3
  <2>. QED  BY <2>1, <2>2, <2>3 DEF HandedInv
<1>5. CASE OneStep!AwaitNone
  <2>1. /\ pc = "await" /\ pc' = "failed" /\ UNCHANGED <<run, gs, ckpt>> /\ future.status = "empty"
    BY <1>5 DEF OneStep!AwaitNone
  <2>2. Handed <= gs + run - 2 /\ pos = E /\ epoch + 1 >= TotalEpochs
    BY <1>0, <2>1 DEF HandedInv, InTask, HasTask
  <2>3. E * TotalEpochs <= Handed
    <3>1. TotalEpochs \in Int /\ epoch \in Int /\ E * TotalEpochs \in Int /\ E * epoch \in Int
          /\ E * (epoch + 1) = E * epoch + E
      BY OneStepNumbers DEF OneStepTypes
    <3>2. TotalEpochs < epoch + 1 => E * TotalEpochs + E <= E * (epoch + 1)  BY <3>1, EpochsApart
    <3>3. TotalEpochs = epoch + 1 => E * TotalEpochs = E * (epoch + 1)  OBVIOUS
    <3>. QED  BY <1>0, <2>2, <3>1, <3>2, <3>3 DEF Handed
  <2>4. E * TotalEpochs \in Int  BY OneStepNumbers
  <2>. QED  BY <1>0, <2>1, <2>2, <2>3, <2>4 DEF HandedInv
<1>6. CASE OneStep!UpdateActor
  <2>1. /\ pc = "update" /\ UNCHANGED <<run, epoch, pos, future, ckpt>>
        /\ \/ pc' = "save" /\ gs' = gs
           \/ pc' = "await" /\ gs' = gs + 1
           \/ pc' = "done"
    BY <1>6 DEF OneStep!UpdateActor, OneStep!FinishStep
  <2>2. InTask' = InTask /\ Handed' = Handed  BY <2>1 DEF InTask, HasTask, Handed
  <2>. QED  BY <1>0, <2>1, <2>2 DEF HandedInv
<1>7. CASE OneStep!SaveCheckpoint
  <2>1. /\ pc = "save" /\ UNCHANGED <<run, epoch, pos, future>> /\ gs' = gs + 1
        /\ pc' \in {"await", "done"} /\ ckpt'.pos = pos /\ ckpt'.step = gs
    BY <1>7 DEF OneStep!SaveCheckpoint, OneStep!FinishStep
  <2>2. InTask' = InTask /\ Handed' = Handed  BY <2>1 DEF InTask, HasTask, Handed
  <2>3. pos <= Handed
    <3>1. E * epoch >= 0 /\ E * epoch \in Int  BY OneStepNumbers DEF OneStepTypes
    <3>. QED  BY <1>0, <3>1 DEF Handed
  <2>. QED  BY <1>0, <2>1, <2>2, <2>3 DEF HandedInv
<1>8. CASE OneStep!Exit
  BY <1>8 DEF OneStep!Exit, HandedInv
<1>9. CASE UNCHANGED OneStep!vars
  BY <1>9 DEF OneStep!vars, HandedInv, Handed, InTask, HasTask
<1>. QED
  BY <1>1, <1>2, <1>3, <1>4, <1>5, <1>6, <1>7, <1>8, <1>9 DEF OneStep!Next

\* Each restart loses at most the batch in the task, so the iterator runs out
\* at most one step early for each of them (_async_gen_next_batch,
\* _save_checkpoint, _load_checkpoint).
THEOREM ShortByRestartsCorrect == OneStep!Spec => []ShortByRestarts
<1>1. OneStep!Init => HandedInv
  BY DEF OneStep!Init, HandedInv
<1>2. OneStepTypes /\ HandedInv => ShortByRestarts
  BY OneStepNumbers DEF HandedInv, OneStepTypes, ShortByRestarts
<1>. QED  BY OneStepTypeCorrect, HandedStep, <1>1, <1>2, PTL DEF OneStep!Spec
=============================================================================
