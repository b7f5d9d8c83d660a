------------------------ MODULE ReplayBuffer_proofs ------------------------
(***************************************************************************)
(* Proofs about ReplayBuffer.  A sample that the poll thread knows of but  *)
(* that is no longer in the queue belongs to a round that is past; the     *)
(* trainer only takes samples of its own step, so what it takes is stored. *)
(* This fails for a validation of several batches, whose rounds share one  *)
(* step: Settled names the prompts it holds for.  A status travels behind  *)
(* the samples of its prompt, first into the queue, then into the list,    *)
(* then into the buffer, so no group is taken in part.  The trainer waits  *)
(* only for prompts that have been given to the workers (RunningSpawned).  *)
(***************************************************************************)
EXTENDS ReplayBuffer, TLAPS

Settled(p) == p.part = "train" \/ ValBatches <= 1

\* The cleanup of the round of p is over or has reached the buffer.
Past(p) ==
  \/ p.step < step
  \/ p.step = step /\ p.part = "train" /\ part = "train" /\ phase \in {"remove", "over"}
  \/ p.step = step /\ p.part = "val" /\ part = "val" /\ phase = "remove"
  \/ p.step = step /\ p.part = "val" /\ part = "train" /\ phase \in {"clear", "remove", "over"}

\* The sessions of a training prompt p have been spawned.
Started(p) ==
  p.step < step \/ (p.step = step /\ (part = "val" \/ phase \notin {"mark", "spawn"}))

\* A training batch always has number 1.
Shape == part = "train" => batch = 1

Listed(s) == s \in known \/ s \in snapshot.samples

ListedIsStored ==
  \A s \in Samples : Listed(s) /\ Settled(s[1]) /\ ~Past(s[1]) => s \in stored

TakenOfStep ==
  /\ \A q \in Partitions : \A s \in taken[q] : s[1].part = q /\ s[1].step = step
  /\ part = "train" => taken["val"] = {}

SettledTaken ==
  \A q \in Partitions : \A s \in taken[q] :
    Settled(s[1]) /\ ~(part = q /\ phase = "remove") => s \in stored

MarkedFirst ==
  /\ \A p \in Prompts : phase \in {"spawn", "sample", "use"} /\ Round(p) => marks[p] # "none"
  /\ \A s \in Samples : session[s] # "idle" => marks[s[1]] # "none"
  /\ \A p \in Prompts : status[p] # "none" => marks[p] # "none"
  /\ \A p \in Prompts : snapshot.status[p] # "none" => snapshot.status[p] = status[p]
  /\ \A p \in Prompts : marks[p] \in {"finished", "failure"} => marks[p] = status[p]

Over(p) == \A s \in SessionsOf(p) : session[s] \in {"put", "empty"}

SessionsBehind ==
  /\ \A s \in Samples : s[1].part = "train" /\ session[s] # "idle" => Started(s[1])
  /\ \A p \in Prompts : p.part = "train" /\ status[p] = "finished" => Over(p)
  /\ \A s \in Samples :
       s[1].part = "train" /\ session[s] = "put" /\ ~Past(s[1]) =>
         /\ s \in stored
         /\ snapshot.status[s[1]] = "finished" => s \in snapshot.samples
         /\ marks[s[1]] = "finished" => s \in known

TakenWhole ==
  part = "train" /\ phase = "use" =>
    /\ \A p \in Prompts : Round(p) => marks[p] # "running"
    /\ \A s \in Samples :
         Round(s[1]) /\ marks[s[1]] = "finished" /\ session[s] = "put" => s \in taken["train"]

\* A prompt that is marked as running has been given to the workers, or it is
\* of the round that the trainer gives them next.
RunningSpawned ==
  \A p \in Prompts : marks[p] = "running" =>
    \/ Round(p) /\ phase = "spawn"
    \/ \A s \in SessionsOf(p) : session[s] # "idle"

Inv ==
  /\ RunningSpawned
  /\ TypeOK /\ Shape /\ ListedIsStored /\ TakenOfStep /\ SettledTaken
  /\ MarkedFirst /\ SessionsBehind /\ TakenWhole

-----------------------------------------------------------------------------
(* The data.                                                               *)

LEMMA PromptFields ==
  ASSUME NEW p \in Prompts
  PROVE  /\ p.part \in Partitions /\ p.step \in Nat
         /\ p.part = "train" => p.step > 0 /\ p.batch = 1
  BY ReplayAssumption DEF ReplayAssumption, Prompts, Partitions

LEMMA SampleFields ==
  ASSUME NEW s \in Samples
  PROVE  s[1] \in Prompts /\ s \in SessionsOf(s[1])
  BY DEF Samples, SessionsOf

LEMMA SessionFields ==
  ASSUME NEW p \in Prompts
  PROVE  /\ \A s \in SessionsOf(p) : s \in Samples /\ s[1] = p
         /\ <<p, 1>> \in SessionsOf(p)
  <1>1. N >= 1 /\ ValN >= 1 /\ N \in Nat /\ ValN \in Nat
    BY ReplayAssumption DEF ReplayAssumption
  <1>2. 1 \in Sessions(p)
    BY <1>1 DEF Sessions
  <1> QED BY <1>2 DEF Samples, SessionsOf

-----------------------------------------------------------------------------
(* Types.                                                                  *)

LEMMA TypeInit == Init => TypeOK
  BY ReplayAssumption DEF ReplayAssumption, Init, TypeOK, Partitions, Statuses

LEMMA TypeNext == TypeOK /\ Shape /\ [Next]_vars => (TypeOK /\ Shape)'
  <1> SUFFICES ASSUME TypeOK, Shape, [Next]_vars PROVE (TypeOK /\ Shape)'
    OBVIOUS
  <1> USE ReplayAssumption DEF ReplayAssumption
  <1>1. CASE MarkRunning
    BY <1>1 DEF MarkRunning, TypeOK, Shape, poller, workers, Statuses
  <1>2. CASE Spawn
    BY <1>2 DEF Spawn, TypeOK, Shape, poller, buffer, Statuses
  <1>3. CASE Sample
    <2>1. taken' \in [Partitions -> SUBSET Samples]
      BY <1>3 DEF Sample, TypeOK
    <2> QED BY <1>3, <2>1 DEF Sample, TypeOK, Shape, poller, buffer, workers
  <1>4. CASE Use
    BY <1>4 DEF Use, GoTo, TypeOK, Shape, poller, buffer, workers, Partitions
  <1>5. CASE Clear
    BY <1>5 DEF Clear, TypeOK, Shape, poller, buffer, workers
  <1>6. CASE Remove
    <2>1. taken' \in [Partitions -> SUBSET Samples]
      BY <1>6 DEF Remove, TypeOK
    <2>2. known' \subseteq Samples
      BY <1>6 DEF Remove, TypeOK
    <2>3. /\ part' \in Partitions /\ step' \in 0 .. Steps
          /\ batch' \in (IF part' = "val" THEN 1 .. ValBatches ELSE {1})
          /\ phase' \in {"mark", "clear", "over"}
      BY <1>6 DEF Remove, AfterValidation, GoTo, TypeOK, Partitions
    <2> QED BY <1>6, <2>1, <2>2, <2>3 DEF Remove, TypeOK, Shape, poller, workers
  <1>7. CASE List
    BY <1>7 DEF List, TypeOK, Shape, trainer, buffer, workers
  <1>8. ASSUME NEW q \in Partitions, Add(q) PROVE (TypeOK /\ Shape)'
    <2>1. marks' \in [Prompts -> Statuses \cup {"running"}]
      BY <1>8 DEF Add, TypeOK
    <2>2. snapshot' \in [status : [Prompts -> Statuses], samples : SUBSET Samples]
      BY <1>8 DEF Add, TypeOK, Statuses
    <2> QED BY <1>8, <2>1, <2>2 DEF Add, TypeOK, Shape, trainer, workers
  <1>9. ASSUME NEW s \in Samples, SessionStep(s) PROVE (TypeOK /\ Shape)'
    BY <1>9 DEF SessionStep, PutSample, EndWithout, TypeOK, Shape, trainer, buffer, poller
  <1>10. ASSUME NEW p \in Prompts, PromptStep(p) PROVE (TypeOK /\ Shape)'
    BY <1>10 DEF PromptStep, FinishPrompt, FailPrompt, TypeOK, Shape, trainer, buffer, poller, Statuses
  <1>11. CASE UNCHANGED vars
    BY <1>11 DEF vars, TypeOK, Shape, trainer, buffer, poller, workers
  <1> QED BY <1>1, <1>2, <1>3, <1>4, <1>5, <1>6, <1>7, <1>8, <1>9, <1>10, <1>11 DEF Next, TrainerStep

-----------------------------------------------------------------------------
(* What is past stays past, and what is started stays started.             *)

LEMMA PastKept ==
  ASSUME TypeOK, [Next]_vars, NEW p \in Prompts, Settled(p), Past(p)
  PROVE  Past(p)'
  <1>1. p.step \in Nat /\ p.part \in Partitions /\ step \in Nat /\ batch \in Int /\ part \in Partitions
    BY PromptFields, ReplayAssumption DEF ReplayAssumption, TypeOK, Partitions
  <1>2. CASE Remove
    <2>1. CASE part = "val"
      <3>1. batch \in 1 .. ValBatches
        BY <2>1 DEF TypeOK
      <3>2. CASE batch < ValBatches
        <4>1. p.part = "train"
          BY <3>1, <3>2, ReplayAssumption, <1>1 DEF ReplayAssumption, Settled
        <4> QED BY <1>1, <1>2, <2>1, <3>2, <4>1 DEF Remove, GoTo, Past
      <3>3. CASE ~(batch < ValBatches)
        BY <1>1, <1>2, <2>1, <3>3 DEF Remove, AfterValidation, GoTo, Past, Partitions
      <3> QED BY <3>2, <3>3
    <2>2. CASE part = "train"
      BY <1>1, <1>2, <2>2 DEF Remove, GoTo, Past, Partitions
    <2> QED BY <1>1, <2>1, <2>2 DEF Partitions
  <1>3. CASE MarkRunning \/ Spawn \/ Sample \/ Use \/ Clear
    BY <1>1, <1>3 DEF MarkRunning, Spawn, Sample, Use, Clear, GoTo, Past, Partitions
  <1>4. CASE UNCHANGED trainer
    BY <1>4 DEF trainer, Past
  <1> QED BY <1>2, <1>3, <1>4 DEF Next, TrainerStep, List, Add, SessionStep, PutSample, EndWithout,
            PromptStep, FinishPrompt, FailPrompt, vars

LEMMA StartedKept ==
  ASSUME TypeOK, [Next]_vars, NEW p \in Prompts, p.part = "train", Started(p)
  PROVE  Started(p)'
  <1>1. p.step \in Nat /\ p.step > 0 /\ step \in Nat /\ part \in Partitions
    BY PromptFields, ReplayAssumption DEF ReplayAssumption, TypeOK
  <1>2. CASE TrainerStep
    BY <1>1, <1>2 DEF TrainerStep, MarkRunning, Spawn, Sample, Use, Clear, Remove, AfterValidation, GoTo,
      Started, Partitions
  <1>3. CASE UNCHANGED trainer
    BY <1>3 DEF trainer, Started
  <1> QED BY <1>2, <1>3 DEF Next, List, Add, SessionStep, PutSample, EndWithout,
            PromptStep, FinishPrompt, FailPrompt, vars

-----------------------------------------------------------------------------
(* What the trainer takes.                                                 *)

LEMMA TakenOfStepNext == TypeOK /\ TakenOfStep /\ [Next]_vars => TakenOfStep'
  <1> SUFFICES ASSUME TypeOK, TakenOfStep, [Next]_vars PROVE TakenOfStep'
    OBVIOUS
  <1>0. part \in Partitions /\ step \in Nat /\ taken \in [Partitions -> SUBSET Samples]
    BY ReplayAssumption DEF ReplayAssumption, TypeOK
  <1>1. CASE Sample
    BY <1>0, <1>1 DEF Sample, TakenOfStep, OfStep, Partitions
  <1>2. CASE Use
    BY <1>0, <1>2 DEF Use, GoTo, TakenOfStep, Partitions
  <1>3. CASE Remove
    <2>1. taken'["val"] = {} \/ part = "train"
      BY <1>0, <1>3 DEF Remove, Partitions
    <2>2. CASE part = "train"
      BY <1>0, <1>3, <2>2 DEF Remove, GoTo, TakenOfStep, Partitions
    <2>3. CASE part = "val" /\ batch < ValBatches
      BY <1>0, <1>3, <2>3 DEF Remove, GoTo, TakenOfStep, Partitions
    <2>4. CASE part = "val" /\ ~(batch < ValBatches) /\ step > 0
      BY <1>0, <1>3, <2>4 DEF Remove, AfterValidation, GoTo, TakenOfStep, Partitions
    <2>5. CASE part = "val" /\ ~(batch < ValBatches) /\ ~(step > 0)
      <3>1. taken["train"] = {}
        <4> SUFFICES ASSUME NEW s \in taken["train"] PROVE FALSE
          OBVIOUS
        <4>1. s \in Samples /\ s[1].part = "train" /\ s[1].step = step
          BY <1>0 DEF TakenOfStep, Partitions
        <4> QED BY <4>1, <2>5, <1>0, SampleFields, PromptFields
      <3> QED BY <1>0, <1>3, <2>5, <3>1 DEF Remove, AfterValidation, GoTo, TakenOfStep, Partitions
    <2> QED BY <1>0, <2>2, <2>3, <2>4, <2>5 DEF Partitions
  <1>4. CASE UNCHANGED <<part, step, taken>>
    BY <1>4 DEF TakenOfStep
  <1> QED BY <1>1, <1>2, <1>3, <1>4 DEF Next, TrainerStep, MarkRunning, Spawn, Clear, List, Add, SessionStep,
            PutSample, EndWithout, PromptStep, FinishPrompt, FailPrompt, vars, trainer

LEMMA ListedIsStoredNext ==
  TypeOK /\ TakenOfStep /\ ListedIsStored /\ [Next]_vars => ListedIsStored'
  <1> SUFFICES ASSUME TypeOK, TakenOfStep, ListedIsStored, [Next]_vars,
                      NEW s \in Samples, Listed(s)', Settled(s[1]), ~Past(s[1])'
               PROVE  s \in stored'
    BY DEF ListedIsStored, Settled
  <1>1. s[1] \in Prompts /\ ~Past(s[1])
    BY SampleFields, PastKept
  <1>2. Listed(s) => s \in stored
    BY <1>1 DEF ListedIsStored
  <1>3. CASE Clear
    <2>1. s \in stored
      BY <1>2, <1>3 DEF Clear, Listed, buffer, poller
    <2>2. s \notin taken[part]
      <3> SUFFICES ASSUME s \in taken[part] PROVE FALSE
        OBVIOUS
      <3>1. s[1].part = part /\ s[1].step = step
        BY DEF TakenOfStep, TypeOK
      <3> QED BY <1>3, <3>1 DEF Clear, Past, TypeOK, Partitions
    <2> QED BY <1>3, <2>1, <2>2 DEF Clear
  <1>4. CASE List
    BY <1>2, <1>4 DEF List, Listed, buffer
  <1>5. ASSUME NEW q \in Partitions, Add(q) PROVE s \in stored'
    BY <1>2, <1>5 DEF Add, Listed
  <1>6. CASE UNCHANGED poller /\ known' \subseteq known /\ stored \subseteq stored'
    BY <1>2, <1>6 DEF Listed, poller
  <1> QED BY <1>3, <1>4, <1>5, <1>6 DEF Next, TrainerStep, MarkRunning, Spawn, Sample, Use, Remove, SessionStep,
            PutSample, EndWithout, PromptStep, FinishPrompt, FailPrompt, vars, buffer, poller

LEMMA SettledTakenNext ==
  TypeOK /\ TakenOfStep /\ ListedIsStored /\ SettledTaken /\ [Next]_vars => SettledTaken'
  <1> SUFFICES ASSUME TypeOK, TakenOfStep, ListedIsStored, SettledTaken, [Next]_vars,
                      NEW q \in Partitions, NEW s \in taken'[q], Settled(s[1]),
                      ~(part' = q /\ phase' = "remove")
               PROVE  s \in stored'
    BY DEF SettledTaken, Settled
  <1>0. part \in Partitions /\ taken \in [Partitions -> SUBSET Samples]
    BY DEF TypeOK
  <1>1. CASE Sample
    <2>1. CASE q = part
      <3>1. s \in known /\ s \in Samples /\ s[1].step = step /\ s[1].part = part
        BY <1>0, <1>1, <2>1 DEF Sample, OfStep, TypeOK
      <3>2. ~Past(s[1])
        BY <1>1, <3>1, SampleFields, PromptFields DEF Sample, Past, TypeOK
      <3> QED BY <1>1, <3>1, <3>2 DEF Sample, ListedIsStored, Listed
    <2>2. CASE q # part
      BY <1>0, <1>1, <2>2 DEF Sample, SettledTaken
    <2> QED BY <2>1, <2>2
  <1>2. CASE Clear
    <2>1. q # part
      BY <1>2 DEF Clear
    <2>2. s \in taken[q] /\ s \in stored
      BY <1>0, <1>2, <2>1 DEF Clear, SettledTaken
    <2>3. s \notin taken[part]
      BY <1>0, <2>1, <2>2 DEF TakenOfStep
    <2> QED BY <1>2, <2>2, <2>3 DEF Clear
  <1>3. CASE Remove
    <2>1. q # part /\ s \in taken[q]
      BY <1>0, <1>3 DEF Remove
    <2> QED BY <1>3, <2>1 DEF Remove, SettledTaken
  <1>4. CASE UNCHANGED taken /\ stored \subseteq stored' /\ ~(phase = "remove")
    BY <1>4 DEF SettledTaken
  <1>5. CASE UNCHANGED trainer /\ stored \subseteq stored'
    BY <1>5 DEF SettledTaken, trainer
  <1> QED BY <1>1, <1>2, <1>3, <1>4, <1>5 DEF Next, TrainerStep, MarkRunning, Spawn, Use, List, Add, SessionStep,
            PutSample, EndWithout, PromptStep, FinishPrompt, FailPrompt, vars

-----------------------------------------------------------------------------
(* Marks, statuses and samples.                                            *)

LEMMA MarkedFirstNext == TypeOK /\ MarkedFirst /\ [Next]_vars => MarkedFirst'
  <1> SUFFICES ASSUME TypeOK, MarkedFirst, [Next]_vars PROVE MarkedFirst'
    OBVIOUS
  <1>0. /\ marks \in [Prompts -> Statuses \cup {"running"}]
        /\ snapshot.status \in [Prompts -> Statuses] /\ status \in [Prompts -> Statuses]
        /\ session \in [Samples -> {"idle", "running", "put", "empty", "raised"}]
    BY DEF TypeOK
  <1>a. \A s \in Samples : s[1] \in Prompts
    BY SampleFields
  <1>1. CASE MarkRunning
    BY <1>0, <1>1, <1>a DEF MarkRunning, MarkedFirst, Round, Statuses, poller, workers
  <1>2. CASE Spawn
    BY <1>0, <1>2, <1>a DEF Spawn, MarkedFirst, Round, poller, buffer
  <1>3. CASE Sample \/ Use \/ Clear \/ Remove
    BY <1>3 DEF Sample, Use, Clear, Remove, AfterValidation, GoTo, MarkedFirst, Round, poller, buffer, workers
  <1>4. CASE List
    BY <1>4 DEF List, MarkedFirst, Round, trainer, buffer, workers
  <1>5. ASSUME NEW q \in Partitions, Add(q) PROVE MarkedFirst'
    <2>1. \A p \in Prompts : marks'[p] = IF p.part = q /\ snapshot.status[p] # "none"
                                         THEN snapshot.status[p] ELSE marks[p]
      BY <1>5 DEF Add
    <2>2. \A p \in Prompts : snapshot'.status[p] = IF p.part = q THEN "none" ELSE snapshot.status[p]
      BY <1>5 DEF Add
    <2>3. UNCHANGED <<part, step, batch, phase, session, status>>
      BY <1>5 DEF Add, trainer, workers
    <2> QED BY <1>0, <2>1, <2>2, <2>3, <1>a DEF MarkedFirst, Round
  <1>6. ASSUME NEW s \in Samples, SessionStep(s) PROVE MarkedFirst'
    BY <1>0, <1>6 DEF SessionStep, PutSample, EndWithout, MarkedFirst, Round, trainer, buffer, poller
  <1>7. ASSUME NEW p \in Prompts, PromptStep(p) PROVE MarkedFirst'
    <2>1. marks[p] # "none"
      <3>1. <<p, 1>> \in SessionsOf(p)
        BY SessionFields
      <3>2. PICK s \in SessionsOf(p) : session[s] # "idle"
        BY <1>7, <3>1 DEF PromptStep, FinishPrompt, FailPrompt
      <3>3. s \in Samples /\ s[1] = p
        BY SessionFields
      <3> QED BY <3>2, <3>3 DEF MarkedFirst
    <2>2. /\ status[p] = "none"
          /\ \A r \in Prompts : r # p => status'[r] = status[r]
          /\ UNCHANGED <<part, step, batch, phase, marks, snapshot, session>>
      BY <1>7, <1>0 DEF PromptStep, FinishPrompt, FailPrompt, trainer, buffer, poller
    <2>3. marks[p] = "running" /\ snapshot.status[p] = "none"
      BY <1>0, <2>1, <2>2 DEF MarkedFirst, Statuses
    <2> QED BY <2>2, <2>3 DEF MarkedFirst, Round
  <1>8. CASE UNCHANGED vars
    BY <1>8 DEF vars, MarkedFirst, Round, trainer, buffer, poller, workers
  <1> QED BY <1>1, <1>2, <1>3, <1>4, <1>5, <1>6, <1>7, <1>8 DEF Next, TrainerStep

\* A prompt that is finished has no session left that could put a sample.
LEMMA OverKept ==
  ASSUME TypeOK, Shape, SessionsBehind, [Next]_vars, NEW p \in Prompts, p.part = "train", Over(p)
  PROVE  Over(p)'
  <1>0. session \in [Samples -> {"idle", "running", "put", "empty", "raised"}]
    BY DEF TypeOK
  <1>a. \A s \in SessionsOf(p) : s \in Samples /\ s[1] = p
    BY SessionFields
  <1>1. CASE Spawn
    <2>1. ~Round(p)
      <3> SUFFICES ASSUME Round(p) PROVE FALSE
        OBVIOUS
      <3>1. <<p, 1>> \in SessionsOf(p)
        BY SessionFields
      <3>2. Started(p)
        BY <3>1, <1>a DEF SessionsBehind, Over
      <3> QED BY <1>1, <3>2, ReplayAssumption DEF ReplayAssumption, Spawn, Started, Round, TypeOK
    <2> QED BY <1>0, <1>1, <1>a, <2>1 DEF Spawn, Over
  <1>2. CASE \E s \in Samples : SessionStep(s)
    BY <1>0, <1>2, <1>a DEF SessionStep, PutSample, EndWithout, Over
  <1>3. CASE UNCHANGED session
    BY <1>3 DEF Over
  <1> QED BY <1>1, <1>2, <1>3 DEF Next, TrainerStep, MarkRunning, Sample, Use, Clear, Remove, List, Add,
            PromptStep, FinishPrompt, FailPrompt, vars, workers

LEMMA StartedNext ==
  ASSUME TypeOK, Shape, SessionsBehind, [Next]_vars,
         NEW s \in Samples, s[1].part = "train", session'[s] # "idle"
  PROVE  Started(s[1])'
  <1>0. session \in [Samples -> {"idle", "running", "put", "empty", "raised"}] /\ s[1] \in Prompts
    BY SampleFields DEF TypeOK
  <1>1. CASE Started(s[1])
    BY <1>0, <1>1, StartedKept
  <1>2. CASE ~Started(s[1])
    <2>1. session[s] = "idle"
      BY <1>2 DEF SessionsBehind
    <2>2. Spawn
      BY <1>0, <2>1 DEF Next, TrainerStep, MarkRunning, Sample, Use, Clear, Remove, List, Add, PromptStep,
         FinishPrompt, FailPrompt, SessionStep, PutSample, EndWithout, vars, workers
    <2>3. Round(s[1])
      BY <1>0, <2>1, <2>2 DEF Spawn
    <2> QED BY <2>2, <2>3 DEF Spawn, Round, Started
  <1> QED BY <1>1, <1>2

LEMMA FinishedNext ==
  ASSUME TypeOK, Shape, SessionsBehind, [Next]_vars,
         NEW p \in Prompts, p.part = "train", status'[p] = "finished"
  PROVE  Over(p)'
  <1>1. CASE status[p] = "finished"
    BY <1>1, OverKept DEF SessionsBehind
  <1>2. CASE status[p] # "finished"
    <2>1. FinishPrompt(p)
      BY <1>2 DEF Next, TrainerStep, MarkRunning, Spawn, Sample, Use, Clear, Remove, List, Add, PromptStep,
         FinishPrompt, FailPrompt, SessionStep, PutSample, EndWithout, vars, workers, TypeOK
    <2> QED BY <2>1 DEF FinishPrompt, Over
  <1> QED BY <1>1, <1>2

LEMMA SessionsBehindNext ==
  TypeOK /\ Shape /\ TakenOfStep /\ MarkedFirst /\ SessionsBehind /\ [Next]_vars => SessionsBehind'
  <1> SUFFICES ASSUME TypeOK, Shape, TakenOfStep, MarkedFirst, SessionsBehind, [Next]_vars
               PROVE  SessionsBehind'
    OBVIOUS
  <1> DEFINE Behind(s) == /\ s \in stored
                          /\ snapshot.status[s[1]] = "finished" => s \in snapshot.samples
                          /\ marks[s[1]] = "finished" => s \in known
  <1>1. ASSUME NEW s \in Samples, s[1].part = "train", session'[s] = "put", ~Past(s[1])'
        PROVE  Behind(s)'
    <2>0. /\ s[1] \in Prompts /\ ~Past(s[1]) /\ s \in SessionsOf(s[1])
          /\ session \in [Samples -> {"idle", "running", "put", "empty", "raised"}]
          /\ marks \in [Prompts -> Statuses \cup {"running"}]
      BY <1>1, SampleFields, PastKept DEF TypeOK, Settled
    <2>1. CASE session[s] # "put"
      <3>1. PutSample(s)
        BY <1>1, <2>0, <2>1 DEF Next, TrainerStep, MarkRunning, Spawn, Sample, Use, Clear, Remove, List, Add,
           PromptStep, FinishPrompt, FailPrompt, SessionStep, PutSample, EndWithout, vars, workers
      <3>2. status[s[1]] # "finished"
        BY <1>1, <2>0, <3>1 DEF PutSample, SessionsBehind, Over
      <3>3. snapshot.status[s[1]] # "finished" /\ marks[s[1]] # "finished"
        BY <2>0, <3>2 DEF MarkedFirst
      <3> QED BY <3>1, <3>3 DEF PutSample, buffer, poller
    <2>2. CASE session[s] = "put"
      <3>1. Behind(s)
        BY <1>1, <2>0, <2>2 DEF SessionsBehind
      <3>2. CASE phase \in {"clear", "remove"} /\ s \in taken[part]
        <4>1. part = "train" /\ s[1].step = step
          BY <1>1, <3>2 DEF TakenOfStep, TypeOK
        <4>2. phase = "clear" /\ UNCHANGED trainer
          BY <1>1, <2>0, <3>2, <4>1 DEF Past, Next, TrainerStep, MarkRunning, Spawn, Sample, Use, Clear, Remove,
             List, Add, PromptStep, FinishPrompt, FailPrompt, SessionStep, PutSample, EndWithout, vars, GoTo
        <4>3. ~Clear
          BY <4>2 DEF Clear, trainer
        <4>4. ~TrainerStep
          BY <4>2, <4>3 DEF TrainerStep, MarkRunning, Spawn, Sample, Use, Remove, trainer
        <4>5. CASE \E q \in Partitions : Add(q)
          BY <2>0, <3>1, <4>5 DEF Add
        <4>6. CASE List
          BY <3>1, <4>6 DEF List, buffer
        <4>7. CASE stored \subseteq stored' /\ UNCHANGED <<buffer, poller>>
          BY <3>1, <4>7 DEF buffer, poller
        <4> QED BY <4>4, <4>5, <4>6, <4>7 DEF Next, SessionStep, PutSample, EndWithout, PromptStep, FinishPrompt,
                  FailPrompt, vars
      <3>3. CASE ~(phase \in {"clear", "remove"} /\ s \in taken[part])
        <4>1. CASE MarkRunning
          BY <2>0, <3>1, <4>1 DEF MarkRunning, poller
        <4>2. CASE Clear
          BY <3>1, <3>3, <4>2 DEF Clear, buffer, poller
        <4>3. CASE Remove
          BY <3>1, <3>3, <4>3 DEF Remove, poller
        <4>4. CASE List
          BY <3>1, <4>4 DEF List, buffer
        <4>5. ASSUME NEW q \in Partitions, Add(q) PROVE Behind(s)'
          BY <2>0, <3>1, <4>5 DEF Add
        <4>6. CASE stored \subseteq stored' /\ UNCHANGED <<buffer, poller>>
          BY <3>1, <4>6 DEF buffer, poller
        <4> QED BY <4>1, <4>2, <4>3, <4>4, <4>5, <4>6 DEF Next, TrainerStep, Spawn, Sample, Use, SessionStep,
                  PutSample, EndWithout, PromptStep, FinishPrompt, FailPrompt, vars
      <3> QED BY <3>2, <3>3
    <2> QED BY <2>1, <2>2
  <1> QED BY <1>1, StartedNext, FinishedNext DEF SessionsBehind

LEMMA TakenWholeNext ==
  TypeOK /\ Shape /\ MarkedFirst /\ SessionsBehind /\ TakenWhole /\ [Next]_vars => TakenWhole'
  <1> SUFFICES ASSUME TypeOK, Shape, MarkedFirst, SessionsBehind, TakenWhole, [Next]_vars,
                      part' = "train", phase' = "use"
               PROVE  TakenWhole'
    BY DEF TakenWhole
  <1>0. /\ session \in [Samples -> {"idle", "running", "put", "empty", "raised"}]
        /\ marks \in [Prompts -> Statuses \cup {"running"}] /\ taken \in [Partitions -> SUBSET Samples]
        /\ \A s \in Samples : s[1] \in Prompts /\ s \in SessionsOf(s[1])
    BY SampleFields DEF TypeOK
  <1>1. CASE Sample
    <2>1. part = "train" /\ UNCHANGED <<part, step, batch, marks, session>>
      BY <1>1 DEF Sample, buffer, workers
    <2>2. \A p \in Prompts : Round(p) => marks[p] # "running"
      BY <1>1 DEF Sample, Finished, OfStep, Round
    <2>3. ASSUME NEW s \in Samples, Round(s[1]), marks[s[1]] = "finished", session[s] = "put"
          PROVE  s \in taken'["train"]
      <3>1. s[1].part = "train" /\ s[1].step = step /\ step \in Nat
        BY <2>1, <2>3, ReplayAssumption DEF ReplayAssumption, Round, TypeOK
      <3>2. ~Past(s[1])
        BY <1>1, <3>1 DEF Sample, Past
      <3>3. s \in known
        BY <2>3, <3>1, <3>2 DEF SessionsBehind
      <3> QED BY <1>0, <1>1, <2>1, <3>1, <3>3 DEF Sample, OfStep, Partitions
    <2> QED BY <2>1, <2>2, <2>3 DEF TakenWhole, Round
  <1>2. CASE phase = "use" /\ UNCHANGED trainer
    <2>1. part = "train" /\ UNCHANGED <<part, step, batch, taken>>
      BY <1>2 DEF trainer
    <2>2. ASSUME NEW p \in Prompts, Round(p) PROVE marks'[p] = marks[p]
      <3>1. marks[p] \in {"finished", "failure"} /\ marks[p] = status[p]
        BY <1>0, <1>2, <2>1, <2>2 DEF TakenWhole, MarkedFirst, Statuses
      <3>2. CASE \E q \in Partitions : Add(q)
        BY <3>1, <3>2 DEF Add, MarkedFirst
      <3> QED BY <1>2, <3>2 DEF Next, TrainerStep, MarkRunning, Spawn, Sample, Use, Clear, Remove, List,
                SessionStep, PutSample, EndWithout, PromptStep, FinishPrompt, FailPrompt, vars, buffer
    <2>3. ASSUME NEW s \in Samples, Round(s[1]), marks[s[1]] = "finished", session'[s] = "put"
          PROVE  session[s] = "put"
      <3>1. s[1].part = "train" /\ status[s[1]] = "finished"
        BY <1>0, <2>1, <2>3 DEF Round, MarkedFirst
      <3>2. session[s] \in {"put", "empty"}
        BY <1>0, <3>1 DEF SessionsBehind, Over
      <3> QED BY <1>0, <1>2, <2>3, <3>2 DEF Next, TrainerStep, MarkRunning, Spawn, Sample, Use, Clear, Remove, List,
                Add, SessionStep, PutSample, EndWithout, PromptStep, FinishPrompt, FailPrompt, vars, workers
    <2> QED BY <1>0, <1>2, <2>1, <2>2, <2>3 DEF TakenWhole, Round
  <1>3. Sample \/ (phase = "use" /\ UNCHANGED trainer)
    BY DEF Next, TrainerStep, MarkRunning, Spawn, Sample, Use, Clear, Remove, AfterValidation, GoTo, List, Add,
       SessionStep, PutSample, EndWithout, PromptStep, FinishPrompt, FailPrompt, vars, trainer
  <1> QED BY <1>1, <1>2, <1>3

LEMMA RunningSpawnedNext == TypeOK /\ RunningSpawned /\ [Next]_vars => RunningSpawned'
  <1> SUFFICES ASSUME TypeOK, RunningSpawned, [Next]_vars, NEW p \in Prompts, marks'[p] = "running"
               PROVE  \/ Round(p)' /\ phase' = "spawn"
                      \/ \A s \in SessionsOf(p) : session'[s] # "idle"
    BY DEF RunningSpawned
  <1>0. /\ marks \in [Prompts -> Statuses \cup {"running"}]
        /\ snapshot.status \in [Prompts -> Statuses]
        /\ session \in [Samples -> {"idle", "running", "put", "empty", "raised"}]
        /\ \A s \in SessionsOf(p) : s \in Samples /\ s[1] = p
    BY SessionFields DEF TypeOK
  <1>1. CASE MarkRunning
    BY <1>0, <1>1 DEF MarkRunning, Round, RunningSpawned, workers
  <1>2. CASE Spawn
    BY <1>0, <1>2 DEF Spawn, RunningSpawned, buffer
  <1>3. CASE Sample \/ Use \/ Clear \/ Remove
    BY <1>3 DEF Sample, Use, Clear, Remove, RunningSpawned, buffer, workers
  <1>4. ASSUME NEW q \in Partitions, Add(q)
        PROVE  marks[p] = "running" /\ UNCHANGED <<trainer, workers>>
    BY <1>0, <1>4 DEF Add, Statuses
  <1>5. CASE \E q \in Partitions : Add(q)
    BY <1>4, <1>5 DEF RunningSpawned, Round, trainer, workers
  <1>6. CASE \E s \in Samples : SessionStep(s)
    BY <1>0, <1>6 DEF SessionStep, PutSample, EndWithout, RunningSpawned, Round, trainer, buffer
  <1>7. CASE UNCHANGED <<trainer, buffer, session>>
    BY <1>7 DEF RunningSpawned, Round, trainer, buffer
  <1> QED BY <1>1, <1>2, <1>3, <1>5, <1>6, <1>7 DEF Next, TrainerStep, List, PromptStep, FinishPrompt, FailPrompt,
            vars, workers

-----------------------------------------------------------------------------
(* The theorems.                                                           *)

LEMMA InvInit == Init => Inv
  <1> SUFFICES ASSUME Init PROVE Inv
    OBVIOUS
  <1>1. TypeOK /\ Shape
    BY TypeInit DEF Init, Shape
  <1>2. \A s \in Samples : s[1] \in Prompts /\ session[s] = "idle" /\ s \in SessionsOf(s[1])
    BY SampleFields DEF Init
  <1>3. \A p \in Prompts : marks[p] = "none" /\ status[p] = "none" /\ snapshot.status[p] = "none"
    BY DEF Init
  <1>4. known = {} /\ snapshot.samples = {} /\ phase = "mark" /\ \A q \in Partitions : taken[q] = {}
    BY DEF Init
  <1> QED BY <1>1, <1>2, <1>3, <1>4 DEF Inv, ListedIsStored, Listed, TakenOfStep, SettledTaken, MarkedFirst,
            SessionsBehind, TakenWhole, RunningSpawned, Partitions

LEMMA InvNext == Inv /\ [Next]_vars => Inv'
  BY TypeNext, ListedIsStoredNext, TakenOfStepNext, SettledTakenNext, MarkedFirstNext, SessionsBehindNext,
     TakenWholeNext, RunningSpawnedNext DEF Inv

LEMMA Invariance == Spec => []Inv
  BY InvInit, InvNext, PTL DEF Spec

\* The trainer, the buffer, the poll thread and the workers keep their types:
\* step stays within total_training_steps, for any number of steps, batches,
\* prompts and sessions.
THEOREM TypeCorrect == Spec => []TypeOK
  <1>1. Inv => TypeOK
    BY DEF Inv
  <1> QED BY <1>1, Invariance, PTL

\* The batch of a training step is in the queue until the trainer deletes it,
\* whatever validates in between and whatever the poll thread brings back.
THEOREM TrainingIsStored == Spec => [](Uses("train") => taken["train"] \subseteq stored)
  <1>1. Inv => (Uses("train") => taken["train"] \subseteq stored)
    BY DEF Inv, Uses, SettledTaken, TakenOfStep, Settled, Partitions
  <1> QED BY <1>1, Invariance, PTL

\* When a validation is a single batch, as val_batch_size unset makes it, the
\* same holds of what a validation takes.
THEOREM TakenIsStoredOfOneBatch == ASSUME ValBatches <= 1 PROVE Spec => []TakenIsStored
  <1>1. Inv => TakenIsStored
    BY DEF Inv, TakenIsStored, Uses, SettledTaken, Settled, Partitions
  <1> QED BY <1>1, Invariance, PTL

\* A training batch holds samples of its step only, and of a prompt that has
\* finished all of them.
THEOREM GroupsAreWhole == Spec => []WholeGroups
  <1>1. Inv => WholeGroups
    <2> SUFFICES ASSUME Inv, part = "train", phase = "use" PROVE WholeGroups
      BY DEF WholeGroups
    <2>1. ASSUME NEW s \in taken["train"] PROVE Round(s[1])
      <3>1. s \in Samples /\ s[1].part = "train" /\ s[1].step = step
        BY DEF Inv, TypeOK, TakenOfStep, Partitions
      <3>2. s[1].batch = 1 /\ batch = 1
        BY <3>1, SampleFields, PromptFields DEF Inv, Shape
      <3> QED BY <3>1, <3>2 DEF Round
    <2>2. ASSUME NEW p \in Prompts, Round(p), marks[p] = "finished",
                 NEW s \in SessionsOf(p), session[s] = "put"
          PROVE  s \in taken["train"]
      BY <2>2, SessionFields DEF Inv, TakenWhole
    <2> QED BY <2>1, <2>2 DEF WholeGroups
  <1> QED BY <1>1, Invariance, PTL

\* sample never meets a key without global_steps.
THEOREM KeysDoHaveSteps == Spec => []KeysHaveSteps
  <1>1. Inv => KeysHaveSteps
    BY DEF Inv, KeysHaveSteps, MarkedFirst
  <1> QED BY <1>1, Invariance, PTL
\* Somebody works for the prompt p: one of its sessions runs, its worker can
\* give it a status, or it has one that the poll thread will bring.
Pending(p) ==
  \/ \E s \in SessionsOf(p) : session[s] \in {"running", "raised"}
  \/ \A s \in SessionsOf(p) : session[s] \in {"put", "empty"}
  \/ status[p] # "none"

\* The trainer never waits in sample for a prompt that nobody works for,
\* whichever sessions raise or return nothing: all of its sessions have been
\* spawned.  This is the part of TrainingEnds that needs no fairness.
THEOREM TrainerWaitsForWork ==
  Spec => [](phase = "sample" =>
               \A p \in Prompts : OfStep(p) /\ marks[p] = "running" => Pending(p))
  <1>1. ASSUME Inv, phase = "sample", NEW p \in Prompts, marks[p] = "running" PROVE Pending(p)
    <2>1. \A s \in SessionsOf(p) : session[s] # "idle" /\ s \in Samples
      BY <1>1, SessionFields DEF Inv, RunningSpawned
    <2> QED BY <1>1, <2>1 DEF Inv, TypeOK, Pending
  <1>2. Inv => (phase = "sample" => \A p \in Prompts : OfStep(p) /\ marks[p] = "running" => Pending(p))
    BY <1>1
  <1> QED BY <1>2, Invariance, PTL
=============================================================================
