----------------------------- MODULE FullyAsync -----------------------------
(***************************************************************************)
(* The fully asynchronous policy: a Rollouter that streams samples into a  *)
(* bounded MessageQueue, and a Trainer that takes them out, trains, and    *)
(* every few steps sends its weights back and resets the Rollouter's       *)
(* staleness counter.  The Rollouter's coroutines (feed, processor, one    *)
(* task per sample, monitor, and the RPC reset_staleness) interleave at    *)
(* every await; an asyncio lock guards some of what they share.            *)
(*                                                                         *)
(* Samples are counted by where they are.  A call to the queue is split    *)
(* where other coroutines can run: the queue answers, then the caller goes *)
(* on with what may be an old answer.  A task that raises ends the         *)
(* processor once it is noticed, and with it the stream, while the other   *)
(* tasks go on.                                                            *)
(***************************************************************************)
EXTENDS Integers

CONSTANTS
  Total,        \* total_rollout_steps: samples of the whole run
  Required,     \* required_samples: samples in a training step
  Trigger,      \* trigger_parameter_sync_step: training steps between weight syncs
  MaxRequired,  \* max_required_samples, also the size of the queue
  MaxConcurrent,\* max_concurrent_samples: tasks at a time
  TasksMayFail, \* generation of a sample may raise
  PendingSize,  \* size of the pending queue
  SaveFreq,     \* trainer.save_freq
  TestFreq      \* trainer.test_freq

ASSUME FullyAsyncAssumption ==
  /\ Total \in Nat \ {0} /\ Required \in Nat \ {0} /\ Trigger \in Nat \ {0}
  /\ MaxRequired \in Nat /\ MaxRequired >= Required * Trigger
  /\ MaxConcurrent \in 1 .. MaxRequired /\ TasksMayFail \in BOOLEAN
  /\ PendingSize \in Nat \ {0}
  /\ SaveFreq \in Nat /\ TestFreq \in Nat \ {0}

VARIABLES
  fed,        \* samples the feed has put into the pending queue
  pending,    \* samples in the pending queue
  endFed,     \* the end signal: "none", "pending" (in the pending queue), "taken"
  pc,         \* where the processor is
  seen,       \* the queue size the processor was told
  held,       \* samples in the processor's hand: 0 or 1
  generating, \* active tasks that generate
  landed,     \* active tasks whose sample is in the queue, put_sample not yet returned
  done,       \* tasks that are over but still in active_tasks
  failed,     \* tasks that have raised, still in active_tasks
  crashed,    \* the processor has met one of them and raised as well
  staleness,  \* staleness_samples
  paused,
  event,      \* _resume_event is set
  lock,       \* who holds the Rollouter's lock: "free", "processor", "reset"
  monitor,    \* where the monitor is
  told,       \* the queue size the monitor was told
  queue,      \* samples in the MessageQueue
  endQueued,  \* the end signal is in the MessageQueue, behind these samples
  late,       \* samples in the MessageQueue put after the end signal
  dropped,    \* samples the full queue has dropped
  tpc,        \* where the trainer is
  have,       \* samples the trainer has collected for its next step
  counted,    \* len(active_tasks) as reset_staleness has read it
  localStep,  \* local_trigger_step
  version,    \* current_param_version
  ending,     \* the trainer has left its loop
  ckpt,       \* last checkpoint: its version, the training steps in its weights
  ahead       \* history: samples not yet used at the last reset, and begun since

rollouter == <<pc, seen, held, staleness, paused, event, lock>>
feed      == <<fed, pending, endFed>>
tasks     == <<generating, landed, done, failed, crashed>>
watch     == <<monitor, told>>
mq        == <<queue, endQueued, late, dropped>>
trainer   == <<tpc, have, counted, localStep, version, ending, ckpt>>
vars      == <<feed, rollouter, tasks, watch, mq, trainer, ahead>>

Active    == generating + landed + done + failed        \* len(self.active_tasks)
QueueSize == queue + (IF endQueued THEN 1 ELSE 0) + late \* len(self.queue)
Steps     == version * Trigger + localStep - 1       \* training steps made

TypeOK ==
  /\ fed \in 0 .. Total /\ pending \in 0 .. PendingSize /\ endFed \in {"none", "pending", "taken"}
  /\ pc \in {"check", "decide", "pause", "drain", "get", "limit", "reap", "submit", "finish", "ended", "over"}
  /\ seen \in Nat /\ held \in {0, 1}
  /\ generating \in Nat /\ landed \in Nat /\ done \in Nat /\ failed \in Nat
  /\ Active <= MaxConcurrent /\ crashed \in BOOLEAN
  /\ staleness \in Nat /\ paused \in BOOLEAN /\ event \in BOOLEAN
  /\ lock \in {"free", "processor", "reset"}
  /\ monitor \in {"idle", "decide", "resume"} /\ told \in Nat
  /\ queue \in 0 .. MaxRequired /\ QueueSize <= MaxRequired
  /\ endQueued \in BOOLEAN /\ late \in Nat /\ dropped \in Nat
  /\ tpc \in {"collect", "train", "sync", "reset", "count", "save", "stopped"}
  /\ have \in 0 .. Required /\ counted \in Nat
  /\ localStep \in 1 .. Trigger /\ version \in Nat
  /\ ending \in BOOLEAN
  /\ ckpt \in [version : Nat, steps : Nat]
  /\ ahead \in Nat

Init ==
  /\ fed = 0 /\ pending = 0 /\ endFed = "none"
  /\ pc = "check" /\ seen = 0 /\ held = 0
  /\ generating = 0 /\ landed = 0 /\ done = 0 /\ failed = 0 /\ crashed = FALSE
  /\ staleness = 0 /\ paused = FALSE /\ event = TRUE /\ lock = "free"
  /\ monitor = "idle" /\ told = 0
  /\ queue = 0 /\ endQueued = FALSE /\ late = 0 /\ dropped = 0
  /\ tpc = "collect" /\ have = 0 /\ counted = 0
  /\ localStep = 1 /\ version = 0 /\ ending = FALSE /\ ckpt = [version |-> 0, steps |-> 0]
  /\ ahead = 0

-----------------------------------------------------------------------------
(* _feed_samples.                                                            *)

FeedSample ==
  /\ fed < Total /\ pending < PendingSize /\ pc # "over"
  /\ fed' = fed + 1 /\ pending' = pending + 1
  /\ UNCHANGED <<endFed, rollouter, tasks, watch, mq, trainer, ahead>>

FeedEnd ==
  /\ fed = Total /\ endFed = "none" /\ pending < PendingSize /\ pc # "over"
  /\ endFed' = "pending"
  /\ UNCHANGED <<fed, pending, rollouter, tasks, watch, mq, trainer, ahead>>

-----------------------------------------------------------------------------
(* _processor_worker.                                                        *)

\* _should_pause_generation: the queue tells its size ...
AskQueue ==
  /\ pc = "check"
  /\ IF paused THEN pc' = "pause" /\ UNCHANGED seen
               ELSE pc' = "decide" /\ seen' = QueueSize
  /\ UNCHANGED <<feed, held, staleness, paused, event, lock, tasks, watch, mq, trainer, ahead>>

\* A pause that only looks at the queue.
ShouldPauseFullQueue(size) == size >= MaxRequired

ShouldPause(size) == size >= MaxRequired \/ staleness >= MaxRequired

\* ... and the processor decides on that, and on the staleness of now.
Decide ==
  /\ pc = "decide"
  /\ pc' = IF ShouldPause(seen) THEN "pause" ELSE "get"
  /\ seen' = 0
  /\ UNCHANGED <<feed, held, staleness, paused, event, lock, tasks, watch, mq, trainer, ahead>>

Pause ==
  /\ pc = "pause" /\ lock = "free"
  /\ paused' = TRUE /\ event' = FALSE
  /\ pc' = "drain"
  /\ UNCHANGED <<feed, seen, held, staleness, lock, tasks, watch, mq, trainer, ahead>>

\* Paused: tasks that are over leave active_tasks.
Drain ==
  /\ pc = "drain" /\ lock = "free" /\ done > 0
  /\ \E n \in 1 .. done : done' = done - n
  /\ UNCHANGED <<feed, rollouter, generating, landed, failed, crashed, watch, mq, trainer, ahead>>

\* One of them has raised, and the processor with it.
DrainRaises ==
  /\ pc = "drain" /\ lock = "free" /\ failed > 0
  /\ \E n \in 0 .. done : done' = done - n
  /\ failed' = failed - 1 /\ crashed' = TRUE
  /\ pc' = "ended"
  /\ UNCHANGED <<feed, seen, held, staleness, paused, event, lock, generating, landed, watch, mq, trainer, ahead>>

Resume ==
  /\ pc = "drain" /\ event
  /\ pc' = "check"
  /\ UNCHANGED <<feed, seen, held, staleness, paused, event, lock, tasks, watch, mq, trainer, ahead>>

\* pending_queue.get(): the counter goes up before anything else is known.
GetSample ==
  /\ pc = "get" /\ pending > 0
  /\ pending' = pending - 1 /\ held' = 1
  /\ staleness' = staleness + 1 /\ ahead' = ahead + 1
  /\ pc' = "limit"
  /\ UNCHANGED <<fed, endFed, seen, paused, event, lock, tasks, watch, mq, trainer>>

GetEnd ==
  /\ pc = "get" /\ pending = 0 /\ endFed = "pending"
  /\ endFed' = "taken"
  /\ staleness' = staleness + 1
  /\ pc' = "finish"
  /\ UNCHANGED <<fed, pending, seen, held, paused, event, lock, tasks, watch, mq, trainer, ahead>>

\* Too many tasks: the processor waits for one with the lock in its hand.
AtLimit ==
  /\ pc = "limit" /\ Active >= MaxConcurrent /\ lock = "free"
  /\ lock' = "processor" /\ pc' = "reap"
  /\ UNCHANGED <<feed, seen, held, staleness, paused, event, tasks, watch, mq, trainer, ahead>>

\* At least one is over; all that are over go, and the lock with them.
Reap ==
  /\ pc = "reap" /\ done > 0 /\ failed = 0
  /\ done' = 0 /\ lock' = "free"
  /\ pc' = IF held = 1 THEN "limit" ELSE "finish"
  /\ UNCHANGED <<feed, seen, held, staleness, paused, event, generating, landed, failed, crashed, watch, mq, trainer, ahead>>

\* Mutant: the exception ends the processor without handing the lock back.
ReapRaisesLocked ==
  /\ pc = "reap" /\ failed > 0
  /\ done' = 0 /\ failed' = 0 /\ crashed' = TRUE
  /\ held' = 0 /\ pc' = "ended"
  /\ UNCHANGED <<feed, seen, staleness, paused, event, lock, generating, landed, watch, mq, trainer, ahead>>

\* One of them has raised: the processor ends and gives up the sample it holds.
ReapRaises ==
  /\ pc = "reap" /\ failed > 0
  /\ done' = 0 /\ failed' = 0 /\ crashed' = TRUE
  /\ lock' = "free"
  /\ held' = 0 /\ pc' = "ended"
  /\ UNCHANGED <<feed, seen, staleness, paused, event, generating, landed, watch, mq, trainer, ahead>>

BelowLimit ==
  /\ pc = "limit" /\ Active < MaxConcurrent
  /\ pc' = "submit"
  /\ UNCHANGED <<feed, seen, held, staleness, paused, event, lock, tasks, watch, mq, trainer, ahead>>

Submit ==
  /\ pc = "submit" /\ lock = "free" /\ (paused => event)
  /\ held' = 0 /\ generating' = generating + 1
  /\ pc' = "check"
  /\ UNCHANGED <<feed, seen, staleness, paused, event, lock, landed, done, failed, crashed, watch, mq, trainer, ahead>>

\* After the end signal: wait for the tasks that are left.
FinishWait ==
  /\ pc = "finish" /\ Active > 0 /\ lock = "free"
  /\ lock' = "processor" /\ pc' = "reap"
  /\ UNCHANGED <<feed, seen, held, staleness, paused, event, tasks, watch, mq, trainer, ahead>>

\* The end signal sent with tasks still at work.
FinishEarly ==
  /\ pc = "finish"
  /\ pc' = "ended"
  /\ UNCHANGED <<feed, seen, held, staleness, paused, event, lock, tasks, watch, mq, trainer, ahead>>

Finish ==
  /\ pc = "finish" /\ Active = 0
  /\ pc' = "ended"
  /\ UNCHANGED <<feed, seen, held, staleness, paused, event, lock, tasks, watch, mq, trainer, ahead>>

-----------------------------------------------------------------------------
(* MessageQueue.put_sample: a full queue drops its oldest sample.            *)

PutDrops == QueueSize >= MaxRequired

\* _streaming_generation_main ends the feed and puts the end signal behind the
\* samples there are.
EndStream ==
  /\ pc = "ended"
  /\ pc' = "over"
  /\ endQueued' = TRUE
  /\ IF PutDrops THEN queue' = queue - 1 /\ dropped' = dropped + 1
                 ELSE UNCHANGED <<queue, dropped>>
  /\ UNCHANGED <<late, feed, seen, held, staleness, paused, event, lock, tasks, watch, trainer, ahead>>

\* A task has generated its sample (external) and the queue takes it in.
PutSample ==
  /\ generating > 0 /\ pc # "over"
  /\ generating' = generating - 1 /\ landed' = landed + 1
  /\ IF PutDrops THEN dropped' = dropped + 1 /\ UNCHANGED queue
                 ELSE queue' = queue + 1 /\ UNCHANGED dropped
  /\ UNCHANGED <<feed, rollouter, done, failed, crashed, watch, endQueued, late, trainer, ahead>>

\* The same after the end signal: what is dropped then may be the signal.
PutLate ==
  /\ generating > 0 /\ pc = "over"
  /\ generating' = generating - 1 /\ landed' = landed + 1
  /\ late' = late + 1
  /\ \/ ~PutDrops /\ UNCHANGED <<queue, endQueued, dropped>>
     \/ PutDrops /\ queue > 0 /\ queue' = queue - 1 /\ dropped' = dropped + 1 /\ UNCHANGED endQueued
     \/ PutDrops /\ queue = 0 /\ endQueued' = FALSE /\ UNCHANGED <<queue, dropped>>
  /\ UNCHANGED <<feed, rollouter, done, failed, crashed, watch, trainer, ahead>>

TaskEnds ==
  /\ landed > 0
  /\ landed' = landed - 1 /\ done' = done + 1
  /\ UNCHANGED <<feed, rollouter, generating, failed, crashed, watch, mq, trainer, ahead>>

\* Generation raises; the task stays in active_tasks like one that is over.
TaskRaises ==
  /\ TasksMayFail /\ generating > 0
  /\ generating' = generating - 1 /\ failed' = failed + 1
  /\ UNCHANGED <<feed, rollouter, landed, done, crashed, watch, mq, trainer, ahead>>

-----------------------------------------------------------------------------
(* _async_monitor_loop: wakes a Rollouter that need not be paused any more.  *)

MonitorAsk ==
  /\ monitor = "idle" /\ paused /\ pc # "over"
  /\ told' = QueueSize /\ monitor' = "decide"
  /\ UNCHANGED <<feed, rollouter, tasks, mq, trainer, ahead>>

MonitorDecide ==
  /\ monitor = "decide"
  /\ monitor' = IF ShouldPause(told) THEN "idle" ELSE "resume"
  /\ told' = 0
  /\ UNCHANGED <<feed, rollouter, tasks, mq, trainer, ahead>>

\* A resume that wakes nobody.
MonitorResumeNoEvent ==
  /\ monitor = "resume" /\ lock = "free"
  /\ paused' = FALSE
  /\ monitor' = "idle"
  /\ UNCHANGED <<feed, pc, seen, held, staleness, event, lock, tasks, told, mq, trainer, ahead>>

MonitorResume ==
  /\ monitor = "resume" /\ lock = "free"
  /\ paused' = FALSE /\ event' = TRUE
  /\ monitor' = "idle"
  /\ UNCHANGED <<feed, pc, seen, held, staleness, lock, tasks, told, mq, trainer, ahead>>

-----------------------------------------------------------------------------
(* FullyAsyncTrainer.                                                        *)

\* MessageQueue.get_sample, until a training step has its samples.
TakeSample ==
  /\ tpc = "collect" /\ queue > 0
  /\ queue' = queue - 1 /\ have' = have + 1
  /\ tpc' = IF have' = Required THEN "train" ELSE "collect"
  /\ UNCHANGED <<feed, rollouter, tasks, watch, endQueued, late, dropped, counted, localStep, version, ending, ckpt, ahead>>

\* The end signal: samples collected so far are given up, and fit goes on after
\* its loop.  _fit_update_weights returns at once unless localStep = 1.
TakeEnd ==
  /\ tpc = "collect" /\ queue = 0 /\ endQueued
  /\ endQueued' = FALSE /\ have' = 0
  /\ ending' = TRUE
  /\ tpc' = IF version % TestFreq # 0 /\ localStep = 1 THEN "sync" ELSE "save"
  /\ UNCHANGED <<feed, rollouter, tasks, watch, queue, late, dropped, counted, localStep, version, ckpt, ahead>>

\* The update, and _fit_update_local_step.
Train ==
  /\ tpc = "train"
  /\ have' = 0
  /\ IF localStep < Trigger
     THEN localStep' = localStep + 1 /\ UNCHANGED version /\ tpc' = "save"
     ELSE localStep' = 1 /\ version' = version + 1 /\ tpc' = "sync"
  /\ UNCHANGED <<feed, rollouter, tasks, watch, mq, counted, ending, ckpt, ahead>>

\* checkpoint_manager.update_weights; tasks go on with the new weights.
SyncWeights ==
  /\ tpc = "sync"
  /\ tpc' = "reset"
  /\ UNCHANGED <<feed, rollouter, tasks, watch, mq, have, counted, localStep, version, ending, ckpt, ahead>>

\* reset_staleness counts the tasks, with the lock ...
ResetBegin ==
  /\ tpc = "reset" /\ lock = "free"
  /\ lock' = "reset"
  /\ paused' = FALSE /\ event' = TRUE
  /\ counted' = Active
  /\ tpc' = "count"
  /\ UNCHANGED <<feed, pc, seen, held, staleness, tasks, watch, mq, have, localStep, version, ending, ckpt, ahead>>

\* A reset that forgets the samples that wait in the queue.
ResetEndTasksOnly ==
  /\ tpc = "count"
  /\ staleness' = counted
  /\ counted' = 0
  /\ ahead' = held + generating + queue
  /\ lock' = "free"
  /\ tpc' = "save"
  /\ UNCHANGED <<feed, pc, seen, held, paused, event, tasks, watch, mq, have, localStep, version, ending, ckpt>>

\* ... and adds the queue's answer.
ResetEnd ==
  /\ tpc = "count"
  /\ staleness' = counted + QueueSize
  /\ counted' = 0
  /\ ahead' = held + generating + queue
  /\ lock' = "free"
  /\ tpc' = "save"
  /\ UNCHANGED <<feed, pc, seen, held, paused, event, tasks, watch, mq, have, localStep, version, ending, ckpt>>

\* A save that does not ask whether its version is saved already.
SaveDueAgain(expiring) == SaveFreq > 0 /\ (ending \/ version % SaveFreq = 0 \/ expiring)

SaveDue(expiring) ==
  ckpt.version # version /\ SaveFreq > 0 /\ (ending \/ version % SaveFreq = 0 \/ expiring)

\* _fit_save_checkpoint, at the end of a training step or of fit.  The instance
\* may be close to its expiration (external) after any step, also between syncs.
SaveStep ==
  /\ tpc = "save"
  /\ \E expiring \in BOOLEAN :
       ckpt' = IF SaveDue(expiring) THEN [version |-> version, steps |-> Steps] ELSE ckpt
  /\ tpc' = IF ending THEN "stopped" ELSE "collect"
  /\ UNCHANGED <<feed, rollouter, tasks, watch, mq, have, counted, localStep, version, ending, ahead>>

-----------------------------------------------------------------------------
Processor == AskQueue \/ Decide \/ Pause \/ Drain \/ DrainRaises \/ Resume \/ GetSample \/ GetEnd \/ AtLimit
               \/ Reap \/ ReapRaises \/ BelowLimit \/ Submit \/ FinishWait \/ Finish \/ EndStream
Monitor   == MonitorAsk \/ MonitorDecide \/ MonitorResume
Trainer   == TakeSample \/ TakeEnd \/ Train \/ SyncWeights \/ ResetBegin \/ ResetEnd \/ SaveStep

Next ==
  \/ FeedSample \/ FeedEnd
  \/ Processor
  \/ PutSample \/ PutLate \/ TaskEnds \/ TaskRaises
  \/ Monitor
  \/ Trainer

Spec == Init /\ [][Next]_vars

\* Every coroutine, the trainer and every task go on when they can.  asyncio
\* wakes the waiters of a lock in order, and here each is let in eventually
\* because all others hold it for a bounded time.  A generation ends or raises.
FairSpec ==
  /\ Spec
  /\ WF_vars(FeedSample \/ FeedEnd)
  /\ WF_vars(Processor)
  /\ WF_vars(PutSample \/ PutLate \/ TaskRaises) /\ WF_vars(TaskEnds)
  /\ WF_vars(Monitor)
  /\ WF_vars(Trainer)

-----------------------------------------------------------------------------
(* Properties.                                                               *)

\* Samples on their way to the trainer.
Outstanding == held + generating + queue

\* README: between two weight updates the Rollouter generates at most
\* max_required_samples, less the stale ones it has left over.  The code does
\* not keep to it: a sample that the processor holds while reset_staleness
\* counts is in no count.
Budget == ahead <= MaxRequired

\* It is over by one sample at most, whatever the coroutines do: nothing else
\* escapes the count, and no decision on an old queue size adds to it.
BudgetOverByOne == ahead <= MaxRequired + 1

\* Weight syncs that the Rollouter has been told of.
Resets == IF tpc \in {"sync", "reset", "count"} /\ ~ending THEN version - 1 ELSE version

\* The full queue drops its oldest sample: for the sample over the budget, so at
\* most once for each reset, and once for the end signal.
OneLostPerSync == dropped <= Resets + (IF pc = "over" THEN 1 ELSE 0)

\* When the trainer stops, every sample of the run has been trained on, or is
\* among the dropped or among the last ones, too few for a step: the end signal
\* overtakes no sample, unless a task has raised.
AllSamplesUsed == tpc = "stopped" /\ ~crashed => Required * Steps + dropped + Required > Total

\* A task that raised ends the stream while others still put their samples: the
\* end signal is not pushed out of the queue before the trainer has met it.
EndKept == pc = "over" => endQueued \/ ending

\* A checkpoint of a version that is due by its number holds the weights the
\* Rollouter knows as that version.  One that is saved early, because the instance
\* expires or fit ends, may hold steps that no sync has sent and a restart does not
\* count, but fewer than a sync period has; and when fit is over, the version it
\* has reached is saved (_fit_save_checkpoint).
SavedIsSynced ==
  /\ SaveFreq > 0 /\ ckpt.version % SaveFreq = 0 => ckpt.steps = ckpt.version * Trigger
  /\ ckpt.steps - ckpt.version * Trigger \in 0 .. Trigger - 1
  /\ tpc = "stopped" /\ SaveFreq > 0 => ckpt.version = version

\* README: rollout continues to generate and trainer continues to consume.  The
\* trainer is never left waiting for samples.  The code only has it when tasks
\* that are over, but counted as active until somebody looks, cannot fill the
\* staleness counter (TaskRoom).
TrainerIsFed == tpc = "collect" ~> tpc # "collect"
TaskRoom     == MaxConcurrent + Required * Trigger <= MaxRequired

\* The trainer's reset_staleness gets the lock and returns, although the processor
\* waits for tasks with the lock in its hand, and may raise there.
ResetReturns == tpc = "reset" ~> tpc = "save"

\* _fit_save_checkpoint: the last training step is saved.  The code does not
\* when it ends inside a sync period whose start is already saved.
LastStepSaved == tpc = "stopped" /\ SaveFreq > 0 => ckpt.steps = Steps
=============================================================================
