---------------------------- MODULE ReplayBuffer ----------------------------
(***************************************************************************)
(* The synchronous trainer over a TransferQueue.  PPOTrainer marks the     *)
(* prompts of a round as running in its ReplayBuffer and hands them to the *)
(* agent loop workers, which put what they generate into the queue: one    *)
(* key per sample and, when all sessions of a prompt are over, one for the *)
(* prompt with its status.  A thread of the ReplayBuffer lists the queue   *)
(* again and again and merges what it has seen into the buffer; the        *)
(* trainer waits there until no prompt of its step is running, takes the   *)
(* samples of the step, uses them, and deletes them from queue and buffer. *)
(*                                                                         *)
(* A round is a training step or one batch of a validation; rounds of one  *)
(* validation have the same global_steps.  A session is one of rollout.n   *)
(* agent loops of a prompt; its outputs go into the queue in one call and  *)
(* are one sample here.                                                    *)
(***************************************************************************)
EXTENDS Integers, FiniteSets

CONSTANTS
  Steps,      \* total_training_steps
  ValBatches, \* batches of val_dataloader
  TrainSize,  \* prompts in a training batch
  ValSize,    \* prompts in a validation batch
  N,          \* rollout.n
  ValN        \* val_kwargs.n

ASSUME ReplayAssumption ==
  /\ Steps \in Nat \ {0} /\ ValBatches \in Nat
  /\ TrainSize \in Nat \ {0} /\ ValSize \in Nat \ {0}
  /\ N \in Nat \ {0} /\ ValN \in Nat \ {0}

Partitions == {"train", "val"}
Prompts ==  \* by the round they belong to
  [part : {"train"}, step : 1 .. Steps, batch : {1}, index : 1 .. TrainSize] \cup
  [part : {"val"}, step : 0 .. Steps, batch : 1 .. ValBatches, index : 1 .. ValSize]
Sessions(p) == 1 .. (IF p.part = "train" THEN N ELSE ValN)
SessionsOf(p) == {p} \X Sessions(p)
Samples == UNION {SessionsOf(p) : p \in Prompts}

VARIABLES
  part,     \* trainer: the partition of the round it is in
  step,     \* trainer: global_steps
  batch,    \* trainer: number of the batch in that partition
  phase,    \* trainer: what it does in that round next
  taken,    \* trainer: keys of the batch it holds, of either partition
  marks,    \* buffer: status of the prompts it knows, "none" for others
  known,    \* buffer: samples in it
  unmerged, \* poll thread: partitions of the last kv_list it has not merged yet
  snapshot, \* poll thread: what it has not merged, statuses and samples
  session,  \* workers: what became of each session
  status,   \* queue: the status with a prompt's key, "none" when it has no key
  stored    \* queue: samples in it

trainer == <<part, step, batch, phase, taken>>
buffer  == <<marks, known>>
poller  == <<unmerged, snapshot>>
workers == <<session, status>>
vars    == <<trainer, buffer, poller, workers, stored>>

Statuses == {"none", "finished", "failure"}

TypeOK ==
  /\ part \in Partitions /\ step \in 0 .. Steps
  /\ batch \in (IF part = "val" THEN 1 .. ValBatches ELSE {1})
  /\ phase \in {"mark", "spawn", "sample", "use", "clear", "remove", "over", "raised"}
  /\ taken \in [Partitions -> SUBSET Samples]
  /\ marks \in [Prompts -> Statuses \cup {"running"}]
  /\ known \subseteq Samples
  /\ unmerged \subseteq Partitions
  /\ snapshot \in [status : [Prompts -> Statuses], samples : SUBSET Samples]
  /\ session \in [Samples -> {"idle", "running", "put", "empty", "raised"}]
  /\ status \in [Prompts -> Statuses]
  /\ stored \subseteq Samples

Round(p) == p.part = part /\ p.step = step /\ p.batch = batch

\* Where fit begins, with val_before_train or without.
Init ==
  /\ \/ part = "val" /\ step = 0 /\ ValBatches > 0
     \/ part = "train" /\ step = 1
  /\ batch = 1 /\ phase = "mark"
  /\ taken = [q \in Partitions |-> {}]
  /\ marks = [p \in Prompts |-> "none"] /\ known = {}
  /\ unmerged = {}
  /\ snapshot = [status |-> [p \in Prompts |-> "none"], samples |-> {}]
  /\ session = [s \in Samples |-> "idle"]
  /\ status = [p \in Prompts |-> "none"] /\ stored = {}

-----------------------------------------------------------------------------
(* The trainer. *)

\* AgentLoopManagerTQ.generate_sequences marks the prompts, which the queue
\* does not know yet, before any worker can finish one.
MarkRunning ==
  /\ phase = "mark"
  /\ marks' = [p \in Prompts |-> IF Round(p) THEN "running" ELSE marks[p]]
  /\ phase' = "spawn"
  /\ UNCHANGED <<part, step, batch, taken, known, poller, workers, stored>>

\* Mutant of Spawn: before the prompts are marked.
SpawnFirst ==
  /\ phase = "mark"
  /\ session' = [s \in Samples |-> IF Round(s[1]) THEN "running" ELSE session[s]]
  /\ phase' = "spawn"
  /\ UNCHANGED <<part, step, batch, taken, buffer, poller, status, stored>>

Spawn ==
  /\ phase = "spawn"
  /\ session' = [s \in Samples |-> IF Round(s[1]) THEN "running" ELSE session[s]]
  /\ phase' = "sample"
  /\ UNCHANGED <<part, step, batch, taken, buffer, poller, status, stored>>

\* The keys of the buffer that ReplayBuffer.sample looks at.
OfStep(p) == p.part = part /\ p.step = step

Finished == \A p \in Prompts : OfStep(p) => marks[p] # "running"

\* With an empty batch neither the balancing of a training step nor the
\* decoding of a validation gets through.
Sample ==
  /\ phase = "sample"
  /\ Finished
  /\ taken' = [taken EXCEPT ![part] = {s \in known : OfStep(s[1])}]
  /\ phase' = IF taken'[part] = {} THEN "raised" ELSE "use"
  /\ UNCHANGED <<part, step, batch, buffer, poller, workers, stored>>

GoTo(q, g, b, what) == part' = q /\ step' = g /\ batch' = b /\ phase' = what

\* A training batch is used, for log probs, advantages and updates, and is
\* kept through the validation that test_freq may ask for after it.
Use ==
  /\ phase = "use"
  /\ \/ GoTo(part, step, batch, "clear")
     \/ part = "train" /\ ValBatches > 0 /\ GoTo("val", step, 1, "mark")
  /\ UNCHANGED <<taken, buffer, poller, workers, stored>>

\* Mutant of Clear: what the trainer holds of either partition.
ClearAll ==
  /\ phase = "clear"
  /\ stored' = stored \ UNION {taken[q] : q \in Partitions}
  /\ phase' = "remove"
  /\ UNCHANGED <<part, step, batch, taken, buffer, poller, workers>>

Clear ==
  /\ phase = "clear"
  /\ stored' = stored \ taken[part]
  /\ phase' = "remove"
  /\ UNCHANGED <<part, step, batch, taken, buffer, poller, workers>>

\* What comes after the last batch of a validation: the cleanup of the step
\* that it follows or, after val_before_train, the first step.
AfterValidation ==
  IF step > 0 THEN GoTo("train", step, 1, "clear") ELSE GoTo("train", 1, 1, "mark")

Remove ==
  /\ phase = "remove"
  /\ known' = known \ taken[part]
  /\ taken' = [taken EXCEPT ![part] = {}]
  /\ IF part = "val"
     THEN IF batch < ValBatches THEN GoTo("val", step, batch + 1, "mark") ELSE AfterValidation
     ELSE IF step < Steps THEN GoTo("train", step + 1, 1, "mark") ELSE GoTo(part, step, batch, "over")
  /\ UNCHANGED <<marks, poller, workers, stored>>

-----------------------------------------------------------------------------
(* The poll thread.  Between kv_list and add it holds no lock. *)

List ==
  /\ unmerged = {}
  /\ unmerged' = Partitions
  /\ snapshot' = [status |-> status, samples |-> stored]
  /\ UNCHANGED <<trainer, buffer, workers, stored>>

Add(q) ==
  /\ q \in unmerged
  /\ unmerged' = unmerged \ {q}
  /\ marks' = [p \in Prompts |-> IF p.part = q /\ snapshot.status[p] # "none"
                                 THEN snapshot.status[p] ELSE marks[p]]
  /\ known' = known \cup {s \in snapshot.samples : s[1].part = q}
  /\ snapshot' = [status |-> [p \in Prompts |-> IF p.part = q THEN "none" ELSE snapshot.status[p]],
                  samples |-> {s \in snapshot.samples : s[1].part # q}]
  /\ UNCHANGED <<trainer, workers, stored>>

-----------------------------------------------------------------------------
(* The agent loop workers. *)

PutSample(s) ==
  /\ session[s] = "running"
  /\ session' = [session EXCEPT ![s] = "put"]
  /\ stored' = stored \cup {s}
  /\ UNCHANGED <<trainer, buffer, poller, status>>

\* The agent loop returns no output, or it raises.
EndWithout(s) ==
  /\ session[s] = "running"
  /\ \E how \in {"empty", "raised"} : session' = [session EXCEPT ![s] = how]
  /\ UNCHANGED <<trainer, buffer, poller, status, stored>>

\* Mutant of FinishPrompt: does not wait for all sessions.
FinishPromptEarly(p) ==
  /\ status[p] = "none"
  /\ \E s \in SessionsOf(p) : session[s] \in {"put", "empty"}
  /\ status' = [status EXCEPT ![p] = "finished"]
  /\ UNCHANGED <<trainer, buffer, poller, session, stored>>

\* gather returns when all sessions have, and raises with the first that
\* does; it does not cancel the others.
FinishPrompt(p) ==
  /\ status[p] = "none"
  /\ \A s \in SessionsOf(p) : session[s] \in {"put", "empty"}
  /\ status' = [status EXCEPT ![p] = "finished"]
  /\ UNCHANGED <<trainer, buffer, poller, session, stored>>

\* Mutant of FailPrompt: the exception is logged only.
FailPromptUnmarked(p) ==
  /\ status[p] = "none"
  /\ \E s \in SessionsOf(p) : session[s] = "raised"
  /\ UNCHANGED vars

FailPrompt(p) ==
  /\ status[p] = "none"
  /\ \E s \in SessionsOf(p) : session[s] = "raised"
  /\ status' = [status EXCEPT ![p] = "failure"]
  /\ UNCHANGED <<trainer, buffer, poller, session, stored>>

-----------------------------------------------------------------------------
TrainerStep == MarkRunning \/ Spawn \/ Sample \/ Use \/ Clear \/ Remove
SessionStep(s) == PutSample(s) \/ EndWithout(s)
PromptStep(p)  == FinishPrompt(p) \/ FailPrompt(p)

Next ==
  \/ TrainerStep \/ List \/ \E q \in Partitions : Add(q)
  \/ (\E s \in Samples : SessionStep(s)) \/ (\E p \in Prompts : PromptStep(p))

Fairness ==
  /\ WF_vars(TrainerStep)
  /\ WF_vars(List) /\ \A q \in Partitions : WF_vars(Add(q))
  /\ \A s \in Samples : WF_vars(SessionStep(s))
  /\ \A p \in Prompts : WF_vars(PromptStep(p))

Spec == Init /\ [][Next]_vars /\ Fairness

-----------------------------------------------------------------------------
\* Every sample the trainer takes out of the buffer is in the queue until the
\* trainer itself deletes it: kv_batch_get finds all the keys it is asked for.
Uses(q) == taken[q] # {} /\ ~(part = q /\ phase = "remove")
TakenIsStored == \A q \in Partitions : Uses(q) => taken[q] \subseteq stored

\* A training batch has samples of its own step only, and all those of every
\* prompt that finished: what a prompt puts before it is marked finished is
\* seen with it.
WholeGroups == part = "train" /\ phase = "use" =>
  /\ \A s \in taken["train"] : Round(s[1])
  /\ \A p \in Prompts : Round(p) /\ marks[p] = "finished" =>
       {s \in SessionsOf(p) : session[s] = "put"} \subseteq taken["train"]

\* The key a worker puts for a prompt has a status and no global_steps; those
\* come from the trainer's mark, which the buffer has before any status that
\* is listed reaches it.  Otherwise sample would find a key without the tag.
KeysHaveSteps == \A p \in Prompts :
  marks[p] = "none" => status[p] = "none" /\ snapshot.status[p] = "none"

\* The trainer never waits for ever for a prompt, whichever sessions raise:
\* training ends, or raises because a step has no sample at all.
TrainingEnds == <>(phase \in {"over", "raised"})
=============================================================================
