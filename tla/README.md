# A verification of DAPO training

This directory holds TLA+ models of the DAPO training program of this
repository (the recipe in `src/src`, on the vendored `verl` library in
`src/verl`), the TLC configurations that check them, and proofs checked by
TLAPS. All paths below are relative to the root of the repository's files.

## The system

DAPO is a reinforcement-learning trainer. A **driver** (one Python thread) loops
over training steps: it lets **rollout replicas** generate responses to prompts,
scores them, keeps the prompt groups whose scores differ (*dynamic sampling*),
updates the **actor** (and a critic), saves checkpoints, and sends the new
weights back to the replicas. A job is killed and launched again many times; all
that survives is the checkpoint directory.

| Component | State it keeps | Operations | What is hard |
|---|---|---|---|
| DAPO trainer loop, `src/dapo_ray_trainer.py` `fit` | `global_steps`, epoch, dataloader position, the batch being collected and two counters | start/resume, generate, filter, train, save, sync, tail save | restarts at any step; counters that live over several generation batches; replicas asleep or stale |
| Checkpoint directory, `_save_checkpoint`, `_ensure_hf_then_prune_shards`, `verl/utils/checkpoint/*`, `_load_checkpoint` | shards and HF weights per step and role, `data.pt`, the tracker; in memory the retention list of each role | save, rotate, convert to HF, prune, find and load | a kill between any two file operations; merges and removals that fail; directories left by earlier runs |
| Fully asynchronous policy, `verl/experimental/fully_async_policy` | queue, pending queue, active tasks, staleness counter, pause flag, versions | feed, dispatch, generate, pause, resume, collect, sync | coroutines of two Ray actors sharing counters; a bounded queue that drops; an end-of-stream sentinel |
| TransferQueue trainer, `src/dapo_transfer_queue` | the same driver state, partitions of a key-value store | as `fit`, with put, get and clear by key | stale keys after a discarded batch |
| Checkpoint engine, `verl/checkpoint_engine` | process group, replicas, buckets | split/merge weights, abort, sleep, update, wake, resume | order of the eight phases; chunking at bucket boundaries |
| LLM server client and load balancer, `verl/workers/rollout/llm_server.py` | requests in flight per server, sticky sessions (LRU) | acquire, release, retry of partial rollouts | counter leaks on cancellation; eviction of a live session |
| Bucketed weight transfer, `verl/workers/rollout/vllm_rollout/bucketed_weight_transfer.py` | shared buffer, ZMQ REQ/REP | fill bucket, send, acknowledge | reuse of the buffer before it is consumed |
| Reward loop and rate limiter, `verl/experimental/reward_loop` | token bucket, semaphore | acquire, refill, timeout | starvation, acquire above the limit |
| Sync trainer's ReplayBuffer, `verl/trainer/main_ppo_sync.py` | samples by key and status | add, wait, sample, clear | partial groups |
| One-step-off policy, `verl/experimental/one_step_off_policy` on `verl/experimental/separation` | `global_steps`, the iterator over epochs, one generation task | await a batch, sync weights, start the next generation, train, save, resume | the batch in the task is behind the saved data position; the iterator ends before the steps do |
| Batches, `verl/protocol.py`; sequence balancing, `verl/utils/seqlen_balancing.py` | none | pad, split, concat, partition | remainders, empty parts |
| Workers and engines, `src/custom_*.py`, `verl/workers` | model shards on devices | forward, backward, offload | numerical |

The driver calls everything else by RPC and waits for the answer, so in the
synchronous trainer the only concurrency is between the driver and the end of
its process. The fully asynchronous policy is concurrent inside.

## Modules

| Module | Models | Theorems |
|---|---|---|
| `CheckpointPromise` | what a restart may rely on: one durable register | |
| `CheckpointStore` | everything that writes or reads the checkpoint directory: the save of each role, retention, HF conversion and pruning, the tracker, restart; implements `CheckpointPromise` | `CheckpointStore_proofs` |
| `RayPPOTrainer` | what the two training loops below have in common as classes derived from `RayPPOTrainer`: settings, the driver's state, the checkpoint on disk, where the data goes on after a restart | |
| `DAPOTrainer` | `RayDAPOTrainer.fit`: sampling, update, save decision, sleep and sync of the replicas, trajectory logs, restart | `DAPOTrainer_proofs` |
| `FullyAsync` | Rollouter, MessageQueue and Trainer of the fully asynchronous policy, with tasks that raise | `FullyAsync_proofs` |
| `OneStepOff` | `OneStepOffRayTrainer.fit`: the generation task beside the update, weights of the replicas, warmup, saves, restart | `DAPOTrainer_proofs`, which instantiates it |
| `OneStepPromise` | what the one-step-off policy promises, over the state of `RayPPOTrainer` alone: `OneStepBehind`, `ShortByRestarts` | `DAPOTrainer_proofs` |
| `LLMServing` | load balancer, client and servers during `update_weights`: routing, in-flight counts, resumption of interrupted responses, versions | `LLMServing_proofs` |
| `WeightTransfer` | one transfer of the weights: chunks, buckets, broadcast, shared buffer, loading | `WeightTransfer_proofs` |
| `ReplayBuffer` | the synchronous trainer over a TransferQueue: marks, sessions, poll thread, sample, cleanup | `ReplayBuffer_proofs` |
| `MicroBatches` | padding, balancing and dispatch of a batch, micro-batches of the ranks and their collectives | `MicroBatches_proofs` |
| `RateLimiter` | the rate limited reward manager: executor, token buckets, semaphore, time limit | `RateLimiter_proofs` |
| `MC*` | the same modules for TLC, with constant values a `.cfg` cannot write | |

The modules meet at the interfaces of the code. `LLMServing`'s `load` phase is
one transfer of `WeightTransfer` per update, of which it uses that a transfer ends
with all weights loaded; `DAPOTrainer`'s `Commit` is a save of `CheckpointStore`,
of which it uses what `CheckpointPromise` says; a sample that `FullyAsync`
generates is a conversation of `LLMServing`.

Operators like `KeepLastOneMore` or `FinishEarly`, commented as what they would
do wrong, stand next to the definition they vary. They are no part of any
specification: substituting one for its neighbour must break a property, which
shows that the property can be broken.

### CheckpointPromise

Three variables: `register`, the step a restart finds with the runs its files are
from; `position`, the step of the live process; `run`. `Resume` takes the step of
the register, `BeginSave` moves to a later step without touching the register,
`Rewrite` makes it unreadable for the time the tracker is rewritten, `Commit` puts
the new step and its one run in. Nothing else changes the register: no kill, no
prune. `CheckpointStore` implements it by the mapping that reads the register from
the tracker and from the runs of the files in the directory it names
(`Promise` and `ImplementsPromise` at the end of that module).

### CheckpointStore

State: `store[s][r]` is the directory `global_step_s/r`: its shards (absent,
torn, whole, or mixed when a set is half overwritten), the run of the program
they are from, whether `huggingface/` exists, the state and origin of the HF
weight files in it. `data[s]` is `data.pt`, `tracker` is
`latest_checkpointed_iteration.txt`, `managed[r]` is `previous_saved_paths` of
the role's manager, `todo` what is left of the pruning loop. `written` is a
history variable: whose weights a directory last held whole.

Each action is one stretch between two points where a kill leaves something
different on disk: `SaveBegin`, then per role `OpenRole`, `FinishShards`,
`WriteConfig`, `ShardsBarrier`, `FinishHF`, `Register`; then `FinishData`, which
also truncates the tracker, and `CommitTracker`; then `PruneRole`/`PruneData` one
item at a time in any order (the loop lists a directory), and `PruneDone`. `Crash` may come between any two.
`Start` is `_load_checkpoint`. With `FilesMayFail` a merge may leave nothing,
part or all of the HF weights, and a removal part or all of the files: the code
catches and prints both. The rotation of a role's directories (`Rotated`, in
`OpenRole` and `Register`) removes with `rmtree(ignore_errors=True)`, so any part of a
directory may stay (`Leftovers`), also when a kill cuts it short, while the retention list
forgets the path. `dropped` is a history variable that marks what such a removal left.

Abstraction: ranks are not told apart. The ranks of a role write their files
concurrently and meet at a barrier before HF weights, registration and return;
a set of shard files is therefore torn, mixed or whole as one. In `Start`,
`atEpochBoundary` is chosen freely: it depends on the dataloader's length and
decides whether `data.pt` is read.

### DAPOTrainer

A prompt group is counted, not represented; a batch is the number of its groups
and the set of weights they were generated with. Weights are the function that
gives for each step the run whose update of that step they contain: equal
weights, equal training history. A checkpoint is committed as a whole here;
what a kill leaves of its files is `CheckpointStore`'s subject. Both modules
share the rule that a restart finds the step the tracker names.

`Launch` is construction, `_load_checkpoint`, the first `update_weights` and the
entry to the loop. `KeepGenerating`, `FillBatch` and `GiveUp` are the three ways
out of the filter (too few groups, enough, too many generation batches);
`TakeBatch` is the path without filter. `FlushAndSleep` writes the trajectory
log (or fails to, which is only printed) and puts the replicas to sleep,
`UpdateActor`/`SkipActor` decide on the warmup and the save, `MakeDir` and
`Commit` save, `SyncWeights` and `FinishStep` end the step; `TailMakeDir`,
`TailCommit` and `TailSkip` are the code after the loop, which takes any directory of
the next step's name for the final checkpoint. How many groups survive
the filter is chosen freely: rewards are external. `Exit` is a kill.

### FullyAsync

Samples are counted by where they are: in the pending queue, held by the
processor, generating, landed in the queue with the put not yet returned; tasks
that are over but not yet taken out of `active_tasks` are `done`, and `failed` when
they raised. The coroutines interleave where the code awaits: `AskQueue`/`Decide`
and `MonitorAsk`/`MonitorDecide` split a question to the queue from what is done
with the answer, `ResetBegin`/`ResetEnd` split `reset_staleness` at its await, with
the lock held. `AtLimit` and `FinishWait` wait for a task with the lock in hand, as
the code does. `ahead` is a history variable: samples left over at the last reset
and begun since. `SaveStep` is `_fit_save_checkpoint` at the end of a step: the version
is due by its number, or `fit` ends, or the instance is about to expire, which may be
the case after any step, also between two syncs.

With `TasksMayFail` a task may raise (`TaskRaises`). The processor meets the
exception where it awaits the task: while it drains on a pause (`DrainRaises`) or
when it takes finished tasks out (`ReapRaises`, where the `async with` releases
the lock). It ends there; the Rollouter's `fit` collects the
exception in its `gather` and sends the end signal (`EndStream`) while the other
tasks run on, whose samples then come behind it (`PutLate`). Where the code has no
await between two lines the model may still let another coroutine in before
`GetSample`; this adds behaviours that a feed a moment later also produces.

### OneStepOff

As in `DAPOTrainer`, weights are the history of their updates. `Launch` is
`_load_checkpoint`, the first `_fit_update_weights` and what precedes the loop;
`StartFirst` the first task up to its await of the replicas. `Generate` is
`_fit_generate` from the end of the await: the batch is taken, the replicas get the
weights (`Synced`), and the next task starts, which `asyncio.sleep(0)` lets run up to
its own await, so no other order of these is possible. `EndGeneration` happens at any
moment of the step. `AwaitNone` is the await of a task that found the iterator
exhausted. `UpdateActor` decides on the warmup and the save, `SaveCheckpoint` saves as
a whole, with the position the dataloader has when it is asked. `Exit` is a kill, or
the end of the process.

### LLMServing

The load balancer is `inflight`, `route` and `recent` (its LRU cache, oldest first).
A conversation of the agent loop goes through `acquire`, `calling`, `running`,
`replied`, perhaps `tools`, and ends `over` or `failed`. Its `tokens` are the
versions of the weights that made them, with marks for half-loaded weights
(`Torn`) and for the answer of a tool. `AcquireSticky` and `AcquireLeastLoaded` are
`acquire_server`; `LetGo` sends the release without awaiting it, and `Release` is its
arrival, so counters lag behind calls as in the code. `Accept` waits while the
engine is paused and sets the budget of the call (`Budget`: what the context has
left); `Generate` makes a token; `Continue` is the loop of
`FullyLLMServerClient.generate` that calls again with the tokens so far, `EndTurn`
and `CallTools` are the agent loop around it; `Raise` is an exception in
`generate`, after which the `finally` still releases.

`CheckpointEngineManager.update_weights` is the sequence of phases `abort`, `drain`,
`load`, `resume`, each a call on all servers (`BeginPhase`, `NextPhase`) that a
server answers on its own (`Abort`, `Drain`, `BeginLoad`, `EndLoad`,
`SetGlobalSteps`, `Resume`). `AbortSlips` is `abort_all_requests` failing: it
swallows its exception and answers as if it had paused.

### WeightTransfer

A weight is cut into units, unit `i` of weight `w` being `<<w, i>>`; buffers hold
units, so that a buffer overwritten too early shows in what is loaded. The trainer
fills one of its two buffers (`FillChunk`) and starts the broadcast of the full one
(`SendBucket`, `SendLast`); `Publish`, `GetMetadata` and `Broadcast` are the
`BroadcastOperation` of each rank, in a thread of its own. A worker takes a
received bucket and at once receives into the other buffer (`TakeBucket`), yields
its chunks as views (`YieldView`) or merges the chunks of a large weight
(`MergeChunk`); `Pack`, `Flush`, `SendLarge`, `FlushLast` and `GetReply` are
`BucketedWeightSender`, `LoadWeight` and `Reply` the vLLM process. Copies on a
device are only queued where the code issues them, and `CopyLands` makes one later;
`Synchronized` stands where the code synchronizes.

### ReplayBuffer

A round is a training step or a batch of a validation. The trainer marks its
prompts as running (`MarkRunning`), hands them to the workers (`Spawn`), waits
until none of its step is running and takes their samples (`Sample`), uses them,
perhaps for a validation in between (`Use`), deletes them from the queue (`Clear`) and from
the buffer (`Remove`). A session puts a sample, returns nothing or raises; a prompt
is finished when all of its sessions returned (`FinishPrompt`) and failed as soon
as one raised, the others running on (`FailPrompt`). The poll thread lists the
queue (`List`) and merges the list one partition at a time (`Add`), with the list
growing old in between.

### MicroBatches

The controller pads the batch with synthetic rows (`Upsample`), partitions it over
the ranks (`Balance`, `Merge`, `Reorder`) and calls all ranks for log probs and then for the updates
(`Collect`). A rank counts its micro-batches (`Count`), agrees on their number with
the others (`Reduce`), splits its rows by the same method (`Split`, `Merge`,
`Arrange`), runs them (`Forward`, all ranks together, as every micro-batch is full
of collectives) and puts its outputs back in order (`Return`). `Merge` is one
turn of the differencing method: the two states of largest spread are merged,
largest set to smallest, and sorted, with ties broken either way. Workloads are the
code's quadratic formula, the sum of lengths is the constant `Tokens`.

### RateLimiter

Time is counted in ticks, and the tokens of a bucket in the ticks their refill
takes; a bucket holds `Second` of them. `Arrive`, `StartJob` and `Decoded` are the
decoding of the response in the executor; `TakeTokens`, `SleepForTokens`,
`TakeAhead` and `Slept` are `acquire` of a bucket, which holds its lock and does not
await in between; `StartCall` is the semaphore, `Answer` and `TimedOut` the two ends of
`wait_for`, `LateAnswer` a thread that ends when nobody waits for it. `async` is
whether `compute_score` is a coroutine; if not it runs in the executor, like the
decoding. `Tick` may pass while something is due: the event loop may be late.
`since` and `took` are an observer: who took tokens of the bucket `Watched` since some
moment.

## Runs

| Run | Instance | Shows |
|---|---|---|
| `cs_auto` | actor and critic, two checkpoints kept, HF weights in saves, merges and removals (of pruning and of rotation) that fail wholly or in part, three steps, three runs | the tracker names what can be restored; retention, but for what could not be removed; shards go only when HF weights show or by rotation; the promise is implemented |
| `cs_clean` | one fault-free run of four steps, no limit | one training state after each save |
| `cs_torn_export` | actor only, failing files | can the only copy of weights be lost? yes: finding |
| `dt_sampling` | two epochs of filtering, two to three generation batches a step, early saves, three runs; the data may end before the last step, with unsaved weights | batch accounting; on-policy; logs follow the lineage; what was trained is saved at the end, but for a leftover directory of that name; `fit` ends |
| `dt_plain` | no filter, two epochs of four batches, warmup of two steps, saves every two, in mid-epoch and at its end, three runs | data position; all steps or epochs made |
| `fa_stream` | 12 samples, queue of 6, 2 tasks that may raise, 2 steps of 2 samples between syncs, saves every 2 versions and early ones, validations every 2 | budget exceeded by one at most; one sample lost per sync at most; no sample overtaken by the end unless a task raised; checkpoints in line, early ones ahead by less than a sync period; the trainer is fed; every reset returns |
| `os_restarts` | two epochs of four batches in eight steps, warmup of two steps, saves every three and early ones, four runs | a batch lags by one update; the data runs out early by one step per restart at most |
| `ls_faults` | two servers, two conversations, cache of one, a prompt of 1 and context for 2 more, one update, calls that raise and aborts that fail | versions and labels in order; no call beyond or without budget; counters exact; every conversation ends |
| `wt_stream` | two workers, buckets of 2 units, weights of 1, 2, 1, 4, 5, 1, 1 units | all weights loaded whole, once, in order; buffers apart; the transfer ends |
| `rb_steps` | two steps, one prompt of two sessions, validations of one batch | taken samples are stored; whole groups; keys have steps; training ends |
| `mb_ranks` | two ranks, five rows padded to eight, mini-batches of 4, limit of 5 tokens, lengths 1 and 4 | ranks wait in the same collective; every row once; balance; outputs in order; both calls return |
| `rl_limits` | three requests, one of which hangs, a cost that fits in a bucket and one that does not, one permit, time limit 1, two threads, windows up to 3 | the rate is kept; calls within the limit; every request ends |

Deadlock is not checked: in each module the system really stops (training is
over, no run is left, all conversations or requests are over). Where stopping
would be wrong a liveness property says so.

**Bounds.** `cs_auto`: three steps and three runs are enough for a kept
checkpoint, a dropped one and the one being saved to exist together, and for a
third run to meet what two kills left. `cs_clean`: four steps let pruning meet
directories of several ages. `dt_*`: an epoch has four generation batches. In
`dt_sampling` a step takes two or three of them, so epoch ends fall inside steps and
the data may end before the steps do: then the save after the loop has weights to save,
and after two kills may meet the directory of a save that was killed. In
`dt_plain` a restart continues two batches into an epoch, or at its end, and goes on
drawing. Three runs let a restart follow a restarted run's checkpoint. `fa_stream`: twelve
samples are three sync periods, or less and a rest too small for a step when some are
dropped. A full queue drops a sample of a task from eleven samples on, and twelve are the
fewest with which a reset that counts too little lets more than one sample past the
budget. Two steps a sync leave one between two syncs for an early save. `os_restarts`: the third run may resume a
checkpoint whose position the second one has moved, and early saves let it be at any
step. `ls_faults`: a cache of one entry for two conversations evicts a live one; two
tokens leave room for an interruption or for a tool's answer between two turns, and
for an abort that fails while a call of the other conversation waits at a paused
server; for the safety properties, that more updates change nothing is proved.
`wt_stream`: the sizes fill a bucket, share one, do not fit in what is left of one,
and exceed one twice in a row, once by an odd unit; seven weights make nine
buckets, so every buffer is used again several times. `rb_steps`: the second
step meets lists and late sessions of the first, and a validation lies between.
`mb_ranks`: the lengths give ranks different numbers of micro-batches before they
agree and partitions of one to four sets; padding adds rows of a third length.
`rl_limits`: the third request waits behind one that sleeps and one that hangs; one
cost is the bucket's size and the other exceeds it; windows longer than a second
contain a debt and its repayment. `MaxStep`, `MaxRuns`, `Total`, `MaxVersion`,
`MaxAnswer` and `Window` are bounds of the models only; all guards that use them name
them.

**Fairness.**
- `DAPOTrainer`: weak fairness of the driver's next step while the process lives;
  the driver is a single thread and waits only for RPCs that return. Kills are
  not fair.
- `FullyAsync`: weak fairness of each coroutine (feed, processor, monitor, trainer)
  and of tasks, which may end by raising; asyncio runs every ready coroutine, its
  lock serves waiters in order, and generation is assumed to end. The monitor's
  ten-second sleep only delays it.
- `LLMServing`: messages arrive, engines generate, and the manager's calls return, one
  way or the other. Updates need not begin and nothing has to fail.
- `WeightTransfer`: something goes on as long as something can (weak fairness of
  `Next`): every step is one of finitely many of a transfer.
- `ReplayBuffer`: the trainer, the poll thread, each session and each prompt go on;
  a session may end without a sample or raise.
- `MicroBatches`: controller, ranks, collectives and merges go on; a collective is
  enabled only when all ranks have reached it.
- `RateLimiter`: time passes, the event loop runs what is due, threads take jobs,
  decoding ends and so does every call that does not hang. Requests need not
  arrive. `EveryRequestEnds` needs a thread that no hung call occupies.

`TrainerIsFed` holds in `fa_stream` where `TaskRoom` does: `max_concurrent_samples +
required_samples * trigger_parameter_sync_step <= max_required_samples`. The
counter that a reset computes is too high by the tasks that are over and not
yet taken out, `max_concurrent_samples` at most, and what remains of the limit
is then still enough for the steps up to the next sync.

## Findings

`cs_torn_export`: any `*.safetensors` file counts as HF weights, a merge that
failed half-way included; the next save deletes the shards. The docstring
promises that "Shards are only deleted once HF weights are confirmed present".

Seen while modelling, reachable in the models, and not run as checks. The constants in
parentheses let TLC show each; where a property is named it is defined in the
module and false there.

- `CheckpointStore`: with `max_ckpt_to_keep=1` a role's old directory goes before
  the other role, `data.pt` and the tracker are written (`TrackedRestorable`,
  `Keep = 1`, `MaxStep = 2`, `MaxRuns = 1`). A kill between truncation and write
  leaves an empty tracker. HF weights of an older run in a step directory reached
  through `resume_path` count as those of the new shards; steps newer than the
  resumed one are pruned as if old; a retention list forgets at a restart. A
  directory that the rotation fails to remove has left the list and is never tried
  again, so more than `max_ckpt_to_keep` can stay for good (`RunRetention` counts them
  apart).
- `DAPOTrainer`: `current_epoch` is computed after `global_steps` has been
  incremented, so a restart at step `k*E - 1` skips an epoch (`FullTraining`,
  `E = 3`, two epochs, six steps, `B = G = 2`, no filter, `SaveFreq = 1`, two
  runs). In critic warmup nothing wakes the replicas (`AwakeToGenerate`,
  `FreeCacheEngine`, `CriticWarmup = 2`, `SaveFreq = 2`). A finished job that is
  launched again makes one more step. The save after the loop is named after a
  step that was not made, and the directory of a killed save passes for it: `fit` then
  returns without saving what it trained (`EndSaved`, `E = 5`, one epoch, seven steps,
  `B = G = 2`, no filter, `SaveFreq = 3`, two runs: killed in the save after the loop,
  launched again from step 3; also with the constants of `dt_sampling`). `DoneSaved` says
  that nothing else leaves trained weights unsaved.
- `FullyAsync`: one sample escapes `reset_staleness`, so the documented budget is
  exceeded by one (`Budget`, `Required = 2`, `Trigger = 1`, `MaxRequired = 4`,
  `MaxConcurrent = 4`, `Total = 9`). Tasks that are over fill the staleness
  counter, and Rollouter and Trainer wait for each other when the feed is slow
  enough (`TrainerIsFed`, the same with `Total = 8`; `TaskRoom` is false). Local
  steps after the last sync are not saved (`LastStepSaved`, `Required = Trigger =
  2`, `MaxRequired = 5`, `MaxConcurrent = 3`, `Total = 7`, `SaveFreq = 1`). A checkpoint
  that the expiration of the instance forces between two syncs holds steps the
  Rollouter was never sent as that version, and a restart sets `global_steps` from the
  version, so it does not count them; the save that would follow under the same
  version is skipped. After
  a task that raised, the trainer takes the early end signal for the end of the
  data: what was not yet put is not trained on.
- `OneStepOff`: a batch that is being generated when a checkpoint is saved is never
  trained on after a restart from it. A job resumed within its first epoch runs out
  of data before the last step: the driver then takes the `None` it awaited
  apart and ends with a `TypeError`, before the last save (`AwaitNone`; the
  iterator of a job resumed later counts its epochs from zero and lasts). A finished
  job that is launched again makes one more step.
- `LLMServing`: without `partial_rollout` an interrupted response comes back to the
  agent loop as if it were complete. A server that failed to abort generates from
  half-loaded weights, which is why the properties about versions and labels
  assume that no abort has failed.
- `WeightTransfer` leaves out that a PUB socket drops what it sends before a
  subscriber has joined, that a vLLM process that raises leaves the sender waiting
  without a time limit, that a LoRA adapter larger than a bucket is added
  bucket by bucket, and that a weight of no elements is never sent.
- `ReplayBuffer`: with more than one validation batch an old list merged after a
  cleanup brings deleted samples back, and the next batch of the same
  validation asks the queue for keys it no longer has (`TakenIsStored`, `Steps = 1`,
  `ValBatches = 2`, all else 1). Keys of prompts and samples of late siblings are
  never removed. A put of the failure status that raises leaves the prompt
  running for ever. `_compute_old_log_prob` returns nothing in bypass mode
  (`main_ppo_sync.py:1231`); an empty batch raises.
- `MicroBatches`: `max_token_len` bounds the number of micro-batches, not the tokens of
  one: rows of 5, 5 and 5 with a limit of 8 make two micro-batches, one of 10.
- `RateLimiter`: the rate is taken before the semaphore, so calls may start in a
  burst after a pile-up; threads that were given up run on beyond
  `max_concurrent`, and when they fill the executor no later response is decoded;
  each process has limits of its own; a limit of 0 divides by zero.

## Proofs

All constants are arbitrary in the theorems, within the named assumptions of the
modules. Each theorem is an inductive invariant with one proof step per action.
The type invariants (`TypeOK`) are proved and not checked again by runs.

- `CheckpointStore_proofs`: `TypeCorrect`, and `TrackedRestorableCorrect` from two
  more assumptions, `~ResumePath` and `Keep # 1`. `TrackedRestorable` is not
  inductive: that a retention list never drops the tracked step needs to know where
  the tracked step stands in it. `ManagedInv` says that it is the last entry
  between saves and the last or last but one during a save; `StepInv` that pruning
  starts with the tracker at the step just saved; `TodoInv` that this step is not
  in the loop; `SavedInv` that what the save has done so far is whole and of this
  run. `Keep = 1` is excluded because it is false there, `ResumePath`
  because an older step may then be overwritten while the tracker names it.
  `ImplementsPromiseCorrect`, under the same assumptions, is the refinement: by
  the same invariant every step of the store is a step of `CheckpointPromise` or
  leaves register, position and run alone. Two more theorems need neither
  assumption: `ShardsDropOnlyWithHFCorrect` (shards disappear only beside HF weights,
  by rotation or under a new save of the step) and `RunRetentionCorrect` by `RInv`:
  every directory of this run is in its role's retention list, being saved, or left over
  by a removal that failed, and a list is never longer than the limit. What a rotation may
  leave is in `LeftoverProperties` and `Removal`: files of the same runs, marked, and only
  of directories the list drops. `OneTrainingStateCorrect`, for one run in which
  no merge and no removal fails, is by `CInv`: every directory but the one being
  written is clean or can be made so, and after the loop none is left to visit.
- `DAPOTrainer_proofs`: `TypeCorrect`; `BatchAccountingCorrect` by `SamplingInv`
  (counters are zero where no batch is open, and sampling goes on only while it
  may); `OnPolicyCorrect` by `PolicyInv` (awake replicas hold the actor's weights
  until the update); `LogsOfLineageCorrect` by `LogsInv`, which extends the claim
  to the weights in the checkpoint and orders checkpoint, current step and logs.
  `DataPositionCorrect`, `EndSavedCorrect` and `FullTrainingCorrect` are proved from
  two assumptions. `PlainLoop`: no filter, more than one batch in an epoch, and epochs that
  hold enough batches for the steps. `SavesResumable`: no step that may be saved is the
  last but one of an epoch, unless training is over with it; exactly those are the
  checkpoints from which the epoch is computed wrongly (see Findings).
  `UsualSettings` shows that every save interval above one that divides the
  epoch, without early saves, satisfies both, and `dt_plain` has such settings.
  `FullTrainingCorrect` also takes the warmup of the critic to end by the last step:
  `FullTraining` reads the last step in the actor's weights. The invariants are
  `PositionInv` (the batches used, the epoch and the position are what the step says, also
  in a checkpoint to be resumed), `SavedInv` (what differs from the checkpoint will
  be saved before the end) and `UpdatedInv` (the last step is an update). 

  Four theorems say what is left of this in all other settings, dynamic sampling
  included, where a step takes any number of batches and `seen`, not the step number,
  is the position. `RestartsAgree` is the condition that each `Launch` enters the epoch
  the data was in when the checkpoint was saved. Under it `DataPositionOfAgreeing` holds by
  `SeenInv` (batches handed out are those of full epochs and of this pass, and the loop is
  left only when they are all of them) and `FullTrainingOfAgreeing` by `FullInv` (a
  checkpoint of the last step or later, and a step past it, are of a full training). So
  the epoch computed from the step number is all that can go wrong: no kill, no epoch
  that ends inside a step, no number of discarded groups. Nothing guarantees the
  condition with the filter on; what needs none is the first run:
  `FirstRunPosition`, `FirstRunTraining` and `FirstRunSaved`, the last by
  `FirstSavedInv` (every directory is of an earlier step, so the save after the loop is
  not skipped). For all runs `DoneSavedCorrect` is by `EndInv` (the last step is saved
  before the sync, a skipped update comes before every update) with `LogsInv`, by which the
  checkpoint is older than the step the code after the loop looks for. `E > 1` is needed by the first two: with one batch in an epoch, fit begins
  with epoch 1. `AwakeCorrect` is by `AwakeInv`: replicas sleep only between the batch and
  the sync, which every step reaches when the warmup has none of its own.

  The same module proves `OneStepOff`: `OneStepBehindCorrect` by `BehindInv` (the weights of the
  replicas, of the batch that is ready and of the one in training differ from the
  actor's by the update of one step at most, and that of which is known at each point of
  the loop), for every warmup, and `ShortByRestartsCorrect` by `HandedInv` (batches handed
  out, steps made and restarts add up: each restart loses the one in the task). Both
  trainers extend `RayPPOTrainer` and rest on its assumption, and the theorems state the
  very properties of `OneStepPromise` that `os_restarts` checks.
- `FullyAsync_proofs`: `TypeCorrect`, `BudgetAlmostKept`, `FewSamplesLost`,
  `CheckpointsAreSynced`, `AllSamplesUsedCorrect`, `EndSignalKept`. `PlaceInv`
  says who holds the lock and where a held sample can be; `BudgetInv` bounds
  samples by the staleness counter plus one, the one only after a first reset, and
  accounts each drop to the reset that let one sample too many in; `AccountInv` says
  that every sample fed is somewhere, used or dropped, unless a task raised;
  `SaveInv` that a version that is due is saved before the next step is taken.
  Tasks generating during a reset cannot grow in number because submission needs
  the lock. `LockComesBack` and, where `TaskRoom` holds, `TrainerNeverStarved` are by
  `LockInv` (who holds the lock waits for a task there is; paused, the processor drains) and
  `FlowInv` (the counter exceeds what was begun since the reset by the tasks that were over
  and one; what was begun and is gone was dropped by a full queue). So when the trainer waits
  at an empty queue the counter is below the limit and the Rollouter goes on.
- `LLMServing_proofs`: `TypeCorrect` and `InflightIsExact` by `Counted` (a server is
  held exactly in a call, and each held or owed server is counted once; so a
  counter is never released below zero); `BudgetIsKept` by `BudgetInv` (wherever a
  call may be made there is room for a token); `SessionsAreSticky` by `Cached` (the
  cache holds each routed conversation once and no other);
  `VersionsAreInOrder` and `LabelsDoEnclose` by `Versioned`: while no abort has
  failed, calls run only outside the phases in which weights change, on servers
  that all have the version of the last finished update. `NobodyIsStuck` is by
  `PauseInv` (an engine is paused only during an update, and no longer once it has
  resumed), with `Counted`, `BudgetInv` and the fact that there is a least loaded
  server: a conversation moves or waits for an update that moves, and a drain waits only
  for calls that move.
- `WeightTransfer_proofs`: `TypeCorrect` (no chunk or copy passes the end of a
  buffer) and `BuffersAreApart`, by `Owned`: who may touch each of a rank's two
  buffers at each stage of its broadcast. `WholeInOrderCorrect` by `WholeInv`, which
  follows the weights backwards from what is loaded, over the shared buffer, the weight
  in hand, the chunks to be yielded and the bucket received, to the one broadcast and
  the one filled: each stage ends at the position at which the one before it begins,
  and every unit a stage is still asked for is in its buffer, or in a copy not done yet
  whose source `Owned` keeps in place. `AllLoadedCorrect` (a worker told that it has all
  weights has them all) and `TransferNeverStuck` (somebody can step until all workers are
  over) are by `EndInv`, which says for each stage how the last bucket ends it, with the
  positions of `WholeInv`.
- `ReplayBuffer_proofs`: `TypeCorrect`, `TrainingIsStored`,
  `TakenIsStoredOfOneBatch` (from `ValBatches <= 1`), `GroupsAreWhole`,
  `KeysDoHaveSteps`. What the poll thread may still merge was stored when it was
  listed and is stored until its step's cleanup (`ListedIsStored`); steps that are past
  are never sampled again; a prompt listed as finished is listed with its samples
  (`SessionsBehind`). `TrainerWaitsForWork` is by `RunningSpawned`: a prompt marked as running
  has been given to the workers before the trainer waits for it.
- `MicroBatches_proofs`: `TypeCorrect`, `SameCollectiveCorrect` and
  `AssertsHoldCorrect` by `Lockstep` (a rank leaves its last micro-batch only when the
  others have run theirs, so it is one job ahead at most); by the same invariant
  `CollectivesComplete`: when every rank waits, all wait in the one collective;
  `EachRowOnceCorrect` and `BalancedCorrect` by `Heaps`: sets of all states are disjoint
  and cover the rows, the spread of a merged state is no larger than the larger of the two,
  and the sets of a state are all filled or none has two items; and `RoundTripCorrect` (outputs
  come back in the order of the rows) by `Ordered` and `Answered`, as indices that are each
  row once have an inverse.
- `RateLimiter_proofs`: `TypeCorrect`, `CallsWithinLimitCorrect` by `PermitsCounted`
  and `InLine`, `SleepsOnlyWhenShortCorrect`, and `RateKeptCorrect` by `Ledger` (what
  was taken since the watch began and what the bucket holds, a debt counting below zero,
  are at most one second and the ticks since) with `Owed` (a request still asleep for tokens it took ahead
  leaves when its share of that debt is repaid). `NobodyIsLost`, where the calls that hang
  leave a thread over (`ThreadsOver`), is by `WaitsThere` (who waits for a decoder or for a
  permit is in that line, and a call counted is one that runs or is given up) with
  `PermitsCounted`.

Every invariant and action property of the passing runs is proved, each under the
assumptions named above, if any. Only model-checked, because the provers do not reach it,
is liveness: the eight properties on the left. What they need besides fairness, that
nobody waits for something that cannot come, is a safety property and proved; that the
steps which are then possible come to an end is what the runs show.

| Checked by TLC | Its safety core, proved |
|---|---|
| `TrainerIsFed` | `TrainerNeverStarved` |
| `ResetReturns` | `LockComesBack` |
| `ConversationsEnd` | `NobodyIsStuck` |
| `TransferEnds` | `TransferNeverStuck`, `AllLoadedCorrect` |
| `TrainingEnds` | `TrainerWaitsForWork` |
| `CallsReturn` | `CollectivesComplete` |
| `EveryRequestEnds` | `NobodyIsLost` |
| `RunEnds` | `AwakeCorrect` |

`StickySession`, `AssertsHold` of
`MicroBatches`, `EndKept` and `SleepsOnlyWhenShort` are only proved.

## Not modelled

- In the modelled components: metrics, profiling and the contents of batches;
  validation in `DAPOTrainer`, `FullyAsync` and `OneStepOff`; in the last also generation
  that raises, curriculum samplers and `resume_path`; HDFS copies (the recipe refuses them) and asynchronous saves
  of the Megatron manager; restarts of `FullyAsync`, whose Rollouter computes its
  feed position from the version; limits given by the caller of the LLM client,
  elastic servers; shared memory in place of CUDA IPC, LoRA and quantized weights,
  backends of the checkpoint engine other than nccl, building of process groups; checkpoints of the
  synchronous trainer; `force_group_size`, fixed micro-batch sizes, virtual
  pipeline stages and the greedy partition; scores.
- The TransferQueue trainer of the recipe: it derives from a trainer with a
  `tq_client` of an older `verl` that is not in this repository
  (`src/dapo_transfer_queue/README.md:11`). What can be seen of it: it keeps all
  generation batches of a step in the store until the step's end.
- Workers, engines, worker groups, algorithms, optimizers, reward scores, the model
  merger and the agent loop's tools and templates: numerical or textual code, or
  code whose order the driver fixes.

## Plan

1. A restart that enters the epoch the data is in (`Agrees`): under which settings of the
   filter the code guarantees it.
2. Restart of both actors of the fully asynchronous policy.
3. A fault model for `WeightTransfer`, should the code get a time limit on its replies.
