--------------------------- MODULE CheckpointStore ---------------------------
(***************************************************************************)
(* The checkpoint directory of a DAPO training job and everything that     *)
(* writes to it: RayDAPOTrainer._save_checkpoint with its HF conversion    *)
(* and shard pruning, the per-role FSDP checkpoint managers with their     *)
(* retention lists, and the restart path _load_checkpoint.                 *)
(*                                                                         *)
(* A process may be killed between any two file operations.  What a crash  *)
(* leaves behind is the subject of the module, so a file has three states: *)
(* absent, torn (some of it is there), whole.  A checkpoint is named by    *)
(* its training step; the weights in it are named by the run of the        *)
(* program that wrote them.                                                *)
(***************************************************************************)
EXTENDS Integers, Sequences, FiniteSets

CONSTANTS
  RoleOrder,     \* roles in the order they are saved: <<"actor">> or <<"actor", "critic">>
  Keep,          \* max_actor_ckpt_to_keep / max_critic_ckpt_to_keep, 0 for None
  SaveHF,        \* "hf_model" in checkpoint.save_contents
  ResumePath,    \* resume_mode: "resume_path" or "disable" if TRUE, "auto" if FALSE
  FilesMayFail,  \* a merge or a file removal may raise (and be swallowed)
  MaxStep,       \* bound: largest training step
  MaxRuns        \* bound: runs of the program, the first one included

Roles == {RoleOrder[i] : i \in DOMAIN RoleOrder}
Steps == 1 .. MaxStep
Runs  == 1 .. MaxRuns

ASSUME CheckpointAssumption ==
  /\ RoleOrder \in Seq(STRING) /\ RoleOrder # <<>>
  /\ \A i, j \in DOMAIN RoleOrder : RoleOrder[i] = RoleOrder[j] => i = j
  /\ "data" \notin Roles
  /\ Keep \in Nat
  /\ SaveHF \in BOOLEAN /\ ResumePath \in BOOLEAN /\ FilesMayFail \in BOOLEAN
  /\ MaxStep \in Nat \ {0} /\ MaxRuns \in Nat \ {0}

VARIABLES
  store,     \* store[s][r]: the directory global_step_s/r
  data,      \* data[s]: global_step_s/data.pt
  tracker,   \* latest_checkpointed_iteration.txt: a step, Missing or Torn
  pc,        \* where the driver is
  gs,        \* global_steps of the driver (the step of the last or current save)
  role,      \* index in RoleOrder of the role being saved
  managed,   \* managed[r]: previous_saved_paths of r's checkpoint manager
  todo,      \* what is left of the conversion and pruning loop
  run,       \* number of the current run of the program
  written    \* history: written[s][r] is the run whose weights s/r last held whole

vars == <<store, data, tracker, pc, gs, role, managed, todo, run, written>>
disk == <<store, data, tracker, written>>

Missing == 0
Torn    == -1

FileState == {"absent", "torn", "whole"}
\* "mixed": shard files of an older whole set, some overwritten since.
RoleDir   == [shards : FileState \cup {"mixed"}, by : 0 .. MaxRuns,
              hfdir  : BOOLEAN,                        \* huggingface/ and fsdp_config.json
              hf     : FileState, hfBy : 0 .. MaxRuns, \* HF weight files in huggingface/
              dropped : BOOLEAN]                       \* history: what a removal left over
DataFile  == [state : FileState, by : 0 .. MaxRuns]

NoRoleDir  == [shards |-> "absent", by |-> 0, hfdir |-> FALSE, hf |-> "absent", hfBy |-> 0,
               dropped |-> FALSE]
NoDataFile == [state |-> "absent", by |-> 0]

Items == Roles \cup {"data"}

\* The save in progress, from its first file to the tracker.
SavePCs == {"open", "shards", "hf", "register", "data", "track"}
PCs     == {"down", "stuck", "train", "prune"} \cup SavePCs

TypeOK ==
  /\ store \in [Steps -> [Roles -> RoleDir]]
  /\ data \in [Steps -> DataFile]
  /\ tracker \in Steps \cup {Missing, Torn}
  /\ pc \in PCs
  /\ gs \in 0 .. MaxStep /\ (pc \in SavePCs \cup {"prune"} => gs \in Steps)
  /\ role \in DOMAIN RoleOrder
  /\ managed \in [Roles -> Seq(Steps)]
  /\ todo \subseteq Steps \X Items
  /\ run \in 0 .. MaxRuns
  /\ written \in [Steps -> [Roles -> 0 .. MaxRuns]]

Init ==
  /\ store = [s \in Steps |-> [r \in Roles |-> NoRoleDir]]
  /\ data = [s \in Steps |-> NoDataFile]
  /\ tracker = Missing
  /\ pc = "down"
  /\ gs = 0
  /\ role = 1
  /\ managed = [r \in Roles |-> <<>>]
  /\ todo = {}
  /\ run = 0
  /\ written = [s \in Steps |-> [r \in Roles |-> 0]]

-----------------------------------------------------------------------------
(* Retention (BaseCheckpointManager).  The manager of a role deletes whole   *)
(* role directories it saved earlier in the same run.                        *)

SetOf(seq) == {seq[i] : i \in DOMAIN seq}

\* Mutant: one path too many is kept.
KeepLastOneMore(seq, n) == IF Len(seq) > n THEN SubSeq(seq, Len(seq) - n, Len(seq)) ELSE seq

\* What keeping only the last n of seq leaves, and drops.
KeepLast(seq, n) == IF Len(seq) > n THEN SubSeq(seq, Len(seq) - n + 1, Len(seq)) ELSE seq
Dropped(seq, n)  == SetOf(seq) \ SetOf(KeepLast(seq, n))

\* st with directory d in place of s/r.
SetDir(st, s, r, d) == [st EXCEPT ![s] = [@ EXCEPT ![r] = d]]

\* What a removal may leave of the files of one kind.
Remains(state) == {"absent", state} \cup (IF state = "absent" THEN {} ELSE {"torn"})

Leftover(d, shards, hf, hfdir) ==
  [shards |-> shards, by |-> IF shards = "absent" THEN 0 ELSE d.by, hfdir |-> hfdir,
   hf |-> hf, hfBy |-> IF hf = "absent" THEN 0 ELSE d.hfBy, dropped |-> TRUE]

\* rmtree with ignore_errors: when mayFail, any part of the directory may stay,
\* all of it included, and nobody is told.
Leftovers(d, mayFail) ==
  {NoRoleDir}
    \cup (IF mayFail /\ d # NoRoleDir
          THEN UNION {{Leftover(d, shards, hf, hfdir) : hfdir \in {d.hfdir, hf # "absent"}} :
                        shards \in Remains(d.shards), hf \in Remains(d.hf)}
          ELSE {})

\* The stores that removing the directories gone of role r may leave.
RemoveRoleDirs(st, gone, r, mayFail) ==
  LET all == UNION {Leftovers(st[s][r], mayFail) : s \in gone}
  IN {[s \in Steps |-> IF s \in gone THEN [st[s] EXCEPT ![r] = left[s]] ELSE st[s]] :
        left \in {f \in [gone -> all] : \A s \in gone : f[s] \in Leftovers(st[s][r], mayFail)}}

ForgetWritten(w, gone, r) ==
  [s \in Steps |-> IF s \in gone THEN [w[s] EXCEPT ![r] = 0] ELSE w[s]]

\* ensure_checkpoint_capacity: how many paths survive before a new save.
CapacityBeforeSave(r) == IF Keep > 1 THEN Keep - 1 ELSE Len(managed[r])

\* register_checkpoint: how many paths survive once the new one is listed.
CapacityAfterSave(r) == IF Keep > 0 THEN Keep ELSE Len(managed[r]) + 1

\* The directories the role being saved loses now.
Rotated ==
  LET r == RoleOrder[role] IN
  CASE pc = "open"     -> Dropped(managed[r], CapacityBeforeSave(r))
    [] pc = "register" -> Dropped(Append(managed[r], gs), CapacityAfterSave(r))
    [] OTHER           -> {}

-----------------------------------------------------------------------------
(* Saving, in the order of _save_checkpoint: every role, data.pt, tracker.   *)

\* Mutant: the step a run resumed from may be saved again.
SaveBeginAgain(s) ==
  /\ pc = "train" /\ s >= gs
  /\ gs' = s /\ role' = 1 /\ pc' = "open"
  /\ UNCHANGED <<disk, managed, todo, run>>

\* The driver decides to save at a later step than any it saved before.
SaveBegin(s) ==
  /\ pc = "train" /\ s > gs
  /\ gs' = s /\ role' = 1 /\ pc' = "open"
  /\ UNCHANGED <<disk, managed, todo, run>>

\* What shard files are while ranks write theirs over them.
Overwritten(shards) == IF shards \in {"whole", "mixed"} THEN "mixed" ELSE "torn"

\* Rank 0 makes room, then every rank starts to overwrite its shard files.
\* The list forgets a path whatever became of its removal.
OpenRole ==
  LET r == RoleOrder[role] IN
  /\ pc = "open"
  /\ managed' = [managed EXCEPT ![r] = KeepLast(@, CapacityBeforeSave(r))]
  /\ \E st \in RemoveRoleDirs(store, Rotated, r, FilesMayFail) :
       store' = SetDir(st, gs, r, [store[gs][r] EXCEPT !.shards = Overwritten(@), !.by = run,
                                                       !.dropped = FALSE])
  /\ written' = SetDir(ForgetWritten(written, Rotated, r), gs, r, 0)
  /\ pc' = "shards"
  /\ UNCHANGED <<data, tracker, gs, role, todo, run>>

\* All ranks have written their shards.
FinishShards ==
  LET r == RoleOrder[role] IN
  /\ pc = "shards" /\ store[gs][r].shards # "whole"
  /\ store' = SetDir(store, gs, r, [store[gs][r] EXCEPT !.shards = "whole"])
  /\ UNCHANGED <<data, tracker, pc, gs, role, managed, todo, run, written>>

\* Rank 0 writes huggingface/ and fsdp_config.json, other ranks may still be writing.
WriteConfig ==
  LET r == RoleOrder[role] IN
  /\ pc = "shards" /\ ~store[gs][r].hfdir
  /\ store' = SetDir(store, gs, r, [store[gs][r] EXCEPT !.hfdir = TRUE])
  /\ UNCHANGED <<data, tracker, pc, gs, role, managed, todo, run, written>>

\* The barrier after the local dump; with hf_model, rank 0 starts save_pretrained.
ShardsBarrier ==
  LET r == RoleOrder[role] IN
  /\ pc = "shards" /\ store[gs][r].shards = "whole" /\ store[gs][r].hfdir
  /\ written' = SetDir(written, gs, r, run)
  /\ IF SaveHF
     THEN /\ store' = SetDir(store, gs, r, [store[gs][r] EXCEPT !.hf = "torn", !.hfBy = run])
          /\ pc' = "hf"
     ELSE /\ pc' = "register"
          /\ UNCHANGED store
  /\ UNCHANGED <<data, tracker, gs, role, managed, todo, run>>

FinishHF ==
  LET r == RoleOrder[role] IN
  /\ pc = "hf"
  /\ store' = SetDir(store, gs, r, [store[gs][r] EXCEPT !.hf = "whole"])
  /\ pc' = "register"
  /\ UNCHANGED <<data, tracker, gs, role, managed, todo, run, written>>

\* register_checkpoint, then the next role, or data.pt after the last one.
Register ==
  LET r == RoleOrder[role] IN
  /\ pc = "register"
  /\ managed' = [managed EXCEPT ![r] = KeepLast(Append(@, gs), CapacityAfterSave(r))]
  /\ store' \in RemoveRoleDirs(store, Rotated, r, FilesMayFail)
  /\ written' = ForgetWritten(written, Rotated, r)
  /\ IF role < Len(RoleOrder)
     THEN role' = role + 1 /\ pc' = "open" /\ UNCHANGED data
     ELSE /\ pc' = "data"
          /\ data' = [data EXCEPT ![gs] = [state |-> "torn", by |-> run]]
          /\ UNCHANGED role
  /\ UNCHANGED <<tracker, gs, todo, run>>

\* torch.save(data.pt) ends; open(tracker, "w") truncates the tracker.
FinishData ==
  /\ pc = "data"
  /\ data' = [data EXCEPT ![gs].state = "whole"]
  /\ tracker' = Torn
  /\ pc' = "track"
  /\ UNCHANGED <<store, gs, role, managed, todo, run, written>>

\* Mutant: the pruning loop does not skip the checkpoint just saved.
CommitTrackerPrunesAll ==
  /\ pc = "track"
  /\ tracker' = gs
  /\ todo' = {x \in Steps \X Items :
                IF x[2] = "data" THEN data[x[1]].state # "absent" ELSE store[x[1]][x[2]] # NoRoleDir}
  /\ pc' = "prune"
  /\ UNCHANGED <<store, data, gs, role, managed, run, written>>

\* The step reaches the tracker; the pruning loop globs the step directories.
CommitTracker ==
  /\ pc = "track"
  /\ tracker' = gs
  /\ todo' = {x \in Steps \X Items :
                /\ x[1] # gs
                /\ IF x[2] = "data" THEN data[x[1]].state # "absent" ELSE store[x[1]][x[2]] # NoRoleDir}
  /\ pc' = "prune"
  /\ UNCHANGED <<store, data, gs, role, managed, run, written>>

-----------------------------------------------------------------------------
(* Conversion and pruning of the other checkpoints.                          *)

\* hf_weights_exist: a glob for any weight file, so a torn export counts.
HFWeightsExist(d) == d.hf # "absent"

\* Merging shards into huggingface/: the directories it may leave.  Loading
\* an incomplete set of shards raises before anything is written; a mixed set
\* may load, as weights of no run.  Writing may be cut short when mayFail.
MergeResults(d, mayFail) ==
  LET by       == IF d.shards = "whole" THEN d.by ELSE 0
      exported == [d EXCEPT !.hf = "whole", !.hfBy = by]
  IN (IF d.shards \in {"whole", "mixed"} THEN {exported} ELSE {})
       \cup (IF d.shards # "whole" \/ mayFail THEN {d} ELSE {})
       \cup (IF d.shards # "torn" /\ mayFail THEN {[exported EXCEPT !.hf = "torn"]} ELSE {})

\* Deleting everything but huggingface/: a file that cannot be removed stays.
PrunedShards(d, mayFail) ==
  {[d EXCEPT !.shards = "absent", !.by = 0]}
    \cup (IF mayFail /\ d.shards # "absent" THEN {d, [d EXCEPT !.shards = "torn"]} ELSE {})

\* Mutant: shards are removed whatever became of the merge.
EnsureHFThenPruneAnyway(d, mayFail) ==
  IF ~d.hfdir \/ HFWeightsExist(d) THEN PrunedShards(d, mayFail)
  ELSE UNION {PrunedShards(m, mayFail) : m \in MergeResults(d, mayFail)}

\* Mutant: shards that had to be merged first are kept.
EnsureHFOnly(d, mayFail) ==
  IF d.hfdir /\ HFWeightsExist(d) THEN PrunedShards(d, mayFail)
  ELSE IF d.hfdir /\ d.shards # "absent" THEN MergeResults(d, mayFail)
  ELSE {d}

\* _ensure_hf_then_prune_shards on one role directory.  A merge that raised
\* returns before any shard is removed.
EnsureHFThenPrune(d, mayFail) ==
  IF d.hfdir /\ HFWeightsExist(d) THEN PrunedShards(d, mayFail)
  ELSE IF d.hfdir /\ d.shards # "absent"
  THEN LET merged == MergeResults(d, mayFail)
       IN {m \in merged : m.hf # "whole"}
            \cup UNION {PrunedShards(m, mayFail) : m \in {x \in merged : x.hf = "whole"}}
  ELSE {d}

PruneRole(s, r) ==
  /\ pc = "prune" /\ <<s, r>> \in todo
  /\ \E d \in EnsureHFThenPrune(store[s][r], FilesMayFail) : store' = SetDir(store, s, r, d)
  /\ todo' = todo \ {<<s, r>>}
  /\ UNCHANGED <<data, tracker, pc, gs, role, managed, run, written>>

\* data.pt goes after the roles of its step; a failed removal is only printed.
PruneData(s) ==
  /\ pc = "prune" /\ <<s, "data">> \in todo
  /\ \A r \in Roles : <<s, r>> \notin todo
  /\ \E f \in {NoDataFile} \cup (IF FilesMayFail THEN {data[s]} ELSE {}) :
        data' = [data EXCEPT ![s] = f]
  /\ todo' = todo \ {<<s, "data">>}
  /\ UNCHANGED <<store, tracker, pc, gs, role, managed, run, written>>

PruneDone ==
  /\ pc = "prune" /\ todo = {}
  /\ pc' = "train"
  /\ UNCHANGED <<disk, gs, role, managed, todo, run>>

-----------------------------------------------------------------------------
(* Crash and restart.                                                        *)

\* The process is killed; the rotation of a role's directories or the pruning
\* of one directory may be cut short.
Crash ==
  /\ pc \notin {"down", "stuck"}
  /\ \/ store' \in RemoveRoleDirs(store, Rotated, RoleOrder[role], TRUE)
     \/ UNCHANGED store
     \/ \E s \in Steps, r \in Roles :
          /\ pc = "prune" /\ <<s, r>> \in todo
          /\ \E d \in EnsureHFThenPrune(store[s][r], TRUE) : store' = SetDir(store, s, r, d)
  /\ pc' = "down" /\ gs' = 0 /\ role' = 1 /\ todo' = {}
  /\ managed' = [r \in Roles |-> <<>>]
  /\ UNCHANGED <<data, tracker, written, run>>

\* What load_checkpoint needs: a readable set of shards of every role.  A
\* missing data.pt is only a warning, a torn one raises, unless the step ends
\* an epoch: then it is not read.
Loadable(s, atEpochBoundary) ==
  /\ \A r \in Roles : store[s][r].shards \in {"whole", "mixed"}
  /\ atEpochBoundary \/ data[s].state # "torn"

\* The directory _load_checkpoint resumes from: Missing trains from scratch.
\* The tracker is read in mode "resume_path" too, before the path is looked at.
ResumeChoices ==
  IF ResumePath
  THEN {Missing} \cup (IF tracker = Torn THEN {Torn} ELSE {s \in Steps : Loadable(s, TRUE)})
  ELSE {tracker}

Start ==
  /\ pc = "down" /\ run < MaxRuns
  /\ run' = run + 1
  /\ \E s \in ResumeChoices, atEpochBoundary \in BOOLEAN :
        \/ s = Missing /\ gs' = 0 /\ pc' = "train"
        \/ s \in Steps /\ Loadable(s, atEpochBoundary) /\ gs' = s /\ pc' = "train"
        \/ s \in Steps /\ ~Loadable(s, atEpochBoundary) /\ gs' = 0 /\ pc' = "stuck"
        \/ s = Torn /\ gs' = 0 /\ pc' = "stuck"     \* int("") raises in find_latest_ckpt_path
  /\ UNCHANGED <<disk, role, managed, todo>>

Next ==
  \/ \E s \in Steps : SaveBegin(s)
  \/ OpenRole
  \/ FinishShards
  \/ WriteConfig
  \/ ShardsBarrier
  \/ FinishHF
  \/ Register
  \/ FinishData
  \/ CommitTracker
  \/ \E s \in Steps, r \in Roles : PruneRole(s, r)
  \/ \E s \in Steps : PruneData(s)
  \/ PruneDone
  \/ Crash
  \/ Start

Spec == Init /\ [][Next]_vars

-----------------------------------------------------------------------------
(* Properties.                                                               *)

\* All parts of checkpoint s are whole and were written by one run.
Consistent(s) ==
  /\ data[s].state = "whole"
  /\ \A r \in Roles : store[s][r].shards = "whole" /\ store[s][r].by = data[s].by

\* The tracker never names a checkpoint that a restart could not restore as a
\* whole: weights of every role and the dataloader state, all of one save
\* (_save_checkpoint writes the tracker last and prunes only after it).
TrackedRestorable == tracker \in Steps => Consistent(tracker)

\* What the tracked checkpoint is made of: the runs that wrote its parts, and
\* 0 for a part that is not whole.
PartsOf(s) == {IF store[s][r].shards = "whole" THEN store[s][r].by ELSE 0 : r \in Roles}
                \cup {IF data[s].state = "whole" THEN data[s].by ELSE 0}

TrackedContent ==
  CASE tracker = Missing -> [step |-> 0, runs |-> {}]
    [] tracker = Torn    -> [step |-> -2, runs |-> {}]
    [] OTHER             -> [step |-> tracker, runs |-> PartsOf(tracker)]

Position ==
  CASE pc = "down"  -> -1
    [] pc = "stuck" -> -2
    [] OTHER        -> gs

Promise == INSTANCE CheckpointPromise WITH register <- TrackedContent, position <- Position

\* The directory, with its many files, is to a restart one register: a restart
\* finds the last committed step, made of files of one run only, and no kill,
\* failing merge or pruning in between shows (_save_checkpoint, _load_checkpoint).
ImplementsPromise == Promise!PromiseSpec

\* A whole set of shards disappears only when the directory shows HF weights,
\* when the rotation of a save drops it, or when a save overwrites that very step
\* (the guards of _ensure_hf_then_prune_shards).
ShardsDropOnlyWithHF ==
  [][\A s \in Steps, r \in Roles :
       store[s][r].shards = "whole" /\ store'[s][r].shards # "whole" =>
         \/ store'[s][r].hf # "absent"
         \/ pc \in {"open", "register"} /\ s \in SetOf(managed[r]) /\ s \notin SetOf(managed'[r])
         \/ pc = "open" /\ s = gs]_vars

\* When training goes on, a role has at most Keep directories saved by this run
\* besides those whose removal failed, which the lists have forgotten and which
\* stay for good; there are none of them when no removal fails
\* (ensure_checkpoint_capacity, register_checkpoint, rmtree with ignore_errors).
RunRetention ==
  pc = "train" /\ Keep > 0 =>
    \A r \in Roles :
      LET mine == {s \in Steps : store[s][r] # NoRoleDir /\ run \in {store[s][r].by, store[s][r].hfBy}}
          left == {s \in mine : store[s][r].dropped}
      IN /\ Cardinality(mine \ left) <= Keep
         /\ ~FilesMayFail => left = {}

\* Without faults, once a save is over only the checkpoint just saved is a
\* training state: every other role directory holds HF weights and no shards,
\* and no other data.pt is left.
OneTrainingState ==
  pc = "train" =>
    \A s \in Steps \ {gs} :
      /\ data[s].state = "absent"
      /\ \A r \in Roles : store[s][r] # NoRoleDir =>
                            store[s][r].shards = "absent" /\ store[s][r].hf = "whole"

\* "Shards are only deleted once HF weights are confirmed present, to avoid
\* losing the only copy of the weights": the weights last written whole into a
\* directory are still there whole, as shards or as HF weights.
WeightsNeverLost ==
  \A s \in Steps, r \in Roles :
    written[s][r] # 0 => store[s][r].shards = "whole" \/ store[s][r].hf = "whole"
=============================================================================
