-------------------------- MODULE CheckpointPromise --------------------------
(***************************************************************************)
(* What a training job relies on in its checkpoint directory: one durable  *)
(* register.  It holds the last committed step with all that belongs to    *)
(* it, a commit replaces it at once, and nothing else touches it: no kill, *)
(* no half-finished save, no clean-up of other checkpoints.  The one gap   *)
(* is the rewrite of the tracker, during which a kill leaves nothing to    *)
(* resume from.                                                            *)
(***************************************************************************)
EXTENDS Integers

CONSTANTS
  MaxStep,   \* bound: largest training step
  MaxRuns    \* bound: runs of the program

VARIABLES
  register,  \* the step a restart would find and the runs whose files it is made of
  position,  \* the step of the live process: the one it resumed from or is saving
  run        \* number of the current run of the program

promiseVars == <<register, position, run>>

Down  == -1    \* no process
Stuck == -2    \* a process that cannot resume

Content(s, r) == [step |-> s, runs |-> {r}]
Nothing       == [step |-> 0, runs |-> {}]
Unreadable    == [step |-> Stuck, runs |-> {}]

PromiseInit == register = Nothing /\ position = Down /\ run = 0

\* A process starts where the last commit left the job.
Resume ==
  /\ position = Down /\ run < MaxRuns
  /\ run' = run + 1
  /\ position' = register.step
  /\ UNCHANGED register

\* It saves at later and later steps; until the commit nothing is seen of it.
BeginSave ==
  /\ position >= 0
  /\ position' \in (position + 1) .. MaxStep
  /\ UNCHANGED <<register, run>>

Rewrite ==
  /\ position > 0
  /\ register' = Unreadable
  /\ UNCHANGED <<position, run>>

\* The new content is of this run alone.
Commit ==
  /\ position > 0 /\ register = Unreadable
  /\ register' = Content(position, run)
  /\ UNCHANGED <<position, run>>

Die ==
  /\ position # Down
  /\ position' = Down
  /\ UNCHANGED <<register, run>>

PromiseNext == Resume \/ BeginSave \/ Rewrite \/ Commit \/ Die
PromiseSpec == PromiseInit /\ [][PromiseNext]_promiseVars
=============================================================================
