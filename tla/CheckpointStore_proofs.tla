----------------------- MODULE CheckpointStore_proofs -----------------------
(***************************************************************************)
(* Proofs about CheckpointStore.  Type correctness; that the tracker never *)
(* names a checkpoint a restart could not restore, and that the store      *)
(* implements CheckpointPromise, in the default resume mode and for every  *)
(* retention limit but one; and for all modes and limits that shards are   *)
(* dropped only with a reason and how many checkpoints a run keeps; and,   *)
(* when nothing fails, that one training state is left.                    *)
(***************************************************************************)
EXTENDS CheckpointStore, SequenceTheorems, FiniteSetTheorems, TLAPS

\* Role i has been registered in the save that is going on.
Registered(i) == i < role \/ pc \in {"data", "track"}

\* The driver's step and the tracker: equal between saves, while during a save
\* the tracker names an older step or, in the middle of its rewrite, none.
StepInv ==
  /\ pc \in {"train", "prune"} => tracker = gs
  /\ pc \in SavePCs => tracker < gs
  /\ pc = "track" => tracker = Torn

\* Only other steps are left to prune.
TodoInv ==
  /\ todo # {} => pc = "prune"
  /\ \A x \in todo : x[1] # gs

\* A retention list ends with the tracked step, or with the step being saved
\* once its role is registered: the tracked step is never the oldest of two.
ManagedInv ==
  /\ pc = "down" => \A r \in Roles : managed[r] = <<>>
  /\ \A i \in DOMAIN RoleOrder :
       LET m == managed[RoleOrder[i]] IN
       m # <<>> /\ pc \in SavePCs \cup {"train", "prune"} =>
         m[Len(m)] = IF pc \in SavePCs /\ Registered(i) THEN gs ELSE tracker

\* The role directories this save has finished hold whole shards of this run.
SavedInv ==
  /\ pc \in SavePCs =>
       \A i \in DOMAIN RoleOrder :
         Registered(i) \/ (i = role /\ pc \in {"hf", "register"}) =>
           store[gs][RoleOrder[i]].shards = "whole" /\ store[gs][RoleOrder[i]].by = run
  /\ pc = "shards" => store[gs][RoleOrder[role]].by = run
  /\ pc \in {"data", "track"} => data[gs].by = run
  /\ pc = "track" => data[gs].state = "whole"
  /\ pc \in {"data", "track"} => role = Len(RoleOrder)

IInv == TypeOK /\ StepInv /\ TodoInv /\ ManagedInv /\ SavedInv /\ TrackedRestorable

-----------------------------------------------------------------------------
(* Lemmas about the retention lists.                                         *)

\* Keeping the last n paths of a list gives a list of the same paths.
LEMMA KeepLastIsSeq ==
  ASSUME NEW S, NEW seq \in Seq(S), NEW n \in Nat
  PROVE  KeepLast(seq, n) \in Seq(S)
<1>1. CASE Len(seq) > n
  <2>1. Len(seq) - n + 1 \in 1 .. Len(seq) + 1 /\ Len(seq) \in Nat  BY <1>1
  <2>2. SubSeq(seq, Len(seq) - n + 1, Len(seq)) \in Seq(S)  BY <2>1, SubSeqProperties
  <2>. QED  BY <1>1, <2>2 DEF KeepLast
<1>2. CASE ~(Len(seq) > n)  BY <1>2 DEF KeepLast
<1>. QED  BY <1>1, <1>2

\* Keeping at least one path keeps the last one.
LEMMA KeepLastKeepsLast ==
  ASSUME NEW S, NEW seq \in Seq(S), NEW n \in Nat \ {0}, seq # <<>>
  PROVE  /\ KeepLast(seq, n) # <<>>
         /\ KeepLast(seq, n)[Len(KeepLast(seq, n))] = seq[Len(seq)]
<1>1. CASE Len(seq) > n
  <2>1. Len(seq) - n + 1 \in 1 .. Len(seq) + 1 /\ Len(seq) \in Nat  BY <1>1
  <2>2. /\ Len(SubSeq(seq, Len(seq) - n + 1, Len(seq))) = n
        /\ SubSeq(seq, Len(seq) - n + 1, Len(seq))[n] = seq[Len(seq)]
    BY <1>1, <2>1, SubSeqProperties
  <2>. QED  BY <1>1, <2>2 DEF KeepLast
<1>2. CASE ~(Len(seq) > n)  BY <1>2 DEF KeepLast
<1>. QED  BY <1>1, <1>2

\* A path among the last n is not dropped.
LEMMA LastOnesNotDropped ==
  ASSUME NEW S, NEW seq \in Seq(S), NEW n \in Nat, NEW i \in 1 .. Len(seq), i > Len(seq) - n
  PROVE  seq[i] \notin Dropped(seq, n)
<1>. SUFFICES seq[i] \in SetOf(KeepLast(seq, n))  BY DEF Dropped
<1>1. CASE Len(seq) > n
  <2>. DEFINE k == Len(seq) - n + 1
  <2>1. k \in 1 .. Len(seq) + 1 /\ Len(seq) \in Nat  BY <1>1
  <2>2. /\ Len(SubSeq(seq, k, Len(seq))) = n
        /\ SubSeq(seq, k, Len(seq)) \in Seq(S)
        /\ \A j \in 1 .. n : SubSeq(seq, k, Len(seq))[j] = seq[k + j - 1]
    BY <1>1, <2>1, SubSeqProperties
  <2>3. i - k + 1 \in 1 .. n /\ k + (i - k + 1) - 1 = i  BY <1>1, <2>1
  <2>4. DOMAIN SubSeq(seq, k, Len(seq)) = 1 .. n  BY <2>2, LenProperties
  <2>. QED  BY <1>1, <2>2, <2>3, <2>4 DEF KeepLast, SetOf
<1>2. CASE ~(Len(seq) > n)  BY <1>2, LenProperties DEF KeepLast, SetOf
<1>. QED  BY <1>1, <1>2

-----------------------------------------------------------------------------
(* Type correctness.                                                         *)

LEMMA RoleInRoles == ASSUME NEW i \in DOMAIN RoleOrder PROVE RoleOrder[i] \in Roles
BY DEF Roles

LEMMA CapacityType ==
  ASSUME CheckpointAssumption, TypeOK, NEW r \in Roles
  PROVE  CapacityBeforeSave(r) \in Nat /\ CapacityAfterSave(r) \in Nat
<1>1. Len(managed[r]) \in Nat  BY DEF TypeOK
<1>. QED  BY <1>1 DEF CheckpointAssumption, CapacityBeforeSave, CapacityAfterSave

Stores   == [Steps -> [Roles -> RoleDir]]
Writtens == [Steps -> [Roles -> 0 .. MaxRuns]]

\* What a removal leaves is the whole, a part or nothing of what was there, and
\* only a removal that may fail leaves anything.
LEMMA LeftoverProperties ==
  ASSUME NEW d \in RoleDir, NEW mayFail, NEW l \in Leftovers(d, mayFail)
  PROVE  /\ l \in RoleDir
         /\ l.by \in {d.by, 0} /\ l.hfBy \in {d.hfBy, 0}
         /\ l = NoRoleDir \/ (mayFail /\ l.dropped)
<1>. USE CheckpointAssumption DEF CheckpointAssumption
<1>1. CASE l = NoRoleDir  BY <1>1 DEF NoRoleDir, RoleDir, FileState
<1>2. CASE l # NoRoleDir
  <2>1. PICK shards \in Remains(d.shards), hf \in Remains(d.hf) :
          mayFail /\ \E b \in {d.hfdir, hf # "absent"} : l = Leftover(d, shards, hf, b)
    BY <1>2 DEF Leftovers
  <2>2. PICK hfdir \in {d.hfdir, hf # "absent"} : l = Leftover(d, shards, hf, hfdir)  BY <2>1
  <2>3. shards \in FileState \cup {"mixed"} /\ hf \in FileState /\ hfdir \in BOOLEAN
    BY DEF Remains, RoleDir, FileState
  <2>4. d.by \in 0 .. MaxRuns /\ d.hfBy \in 0 .. MaxRuns /\ 0 \in 0 .. MaxRuns  BY DEF RoleDir
  <2>. QED  BY <2>1, <2>2, <2>3, <2>4 DEF Leftover, RoleDir
<1>. QED  BY <1>1, <1>2

\* A removal touches the directories of its role and list alone.
LEMMA Removal ==
  ASSUME NEW st \in Stores, NEW gone, NEW r \in Roles, NEW mayFail,
         NEW t \in RemoveRoleDirs(st, gone, r, mayFail)
  PROVE  /\ t \in Stores
         /\ \A s \in Steps, q \in Roles :
              IF q = r /\ s \in gone THEN t[s][q] \in Leftovers(st[s][q], mayFail)
                                    ELSE t[s][q] = st[s][q]
<1>1. PICK left : /\ t = [s \in Steps |-> IF s \in gone THEN [st[s] EXCEPT ![r] = left[s]] ELSE st[s]]
                  /\ \A s \in gone : left[s] \in Leftovers(st[s][r], mayFail)
  BY DEF RemoveRoleDirs
<1>2. \A s \in Steps : st[s] \in [Roles -> RoleDir]  BY DEF Stores
<1>3. \A s \in Steps : s \in gone => left[s] \in RoleDir  BY <1>1, <1>2, LeftoverProperties
<1>. QED  BY <1>1, <1>2, <1>3 DEF Stores

LEMMA ForgetType ==
  ASSUME NEW w \in Writtens, NEW gone, NEW r \in Roles
  PROVE  ForgetWritten(w, gone, r) \in Writtens
<1>1. 0 \in 0 .. MaxRuns  BY CheckpointAssumption DEF CheckpointAssumption
<1>. QED  BY <1>1 DEF Writtens, ForgetWritten

\* What SetDir changes, and that it keeps the type.
LEMMA SetDirProperties ==
  ASSUME NEW D, NEW st \in [Steps -> [Roles -> D]], NEW s \in Steps, NEW r \in Roles, NEW d \in D
  PROVE  /\ SetDir(st, s, r, d) \in [Steps -> [Roles -> D]]
         /\ SetDir(st, s, r, d)[s][r] = d
         /\ \A t \in Steps, q \in Roles : t # s \/ q # r => SetDir(st, s, r, d)[t][q] = st[t][q]
BY DEF SetDir

\* A directory that pruning leaves is a role directory.
LEMMA PruneType ==
  ASSUME NEW d \in RoleDir, NEW mayFail, NEW e \in EnsureHFThenPrune(d, mayFail)
  PROVE  e \in RoleDir
<1>. USE CheckpointAssumption DEF CheckpointAssumption
<1>1. ASSUME NEW x \in RoleDir, NEW y \in PrunedShards(x, mayFail)  PROVE y \in RoleDir
  <2>1. 0 \in 0 .. MaxRuns  OBVIOUS
  <2>2. [x EXCEPT !.shards = "absent", !.by = 0] \in RoleDir  BY <2>1 DEF RoleDir, FileState
  <2>3. [x EXCEPT !.shards = "torn"] \in RoleDir  BY DEF RoleDir, FileState
  <2>. QED  BY <1>1, <2>2, <2>3 DEF PrunedShards
<1>2. ASSUME NEW x \in MergeResults(d, mayFail)  PROVE x \in RoleDir
  <2>. DEFINE by == IF d.shards = "whole" THEN d.by ELSE 0
  <2>1. by \in 0 .. MaxRuns  BY DEF RoleDir
  <2>2. [d EXCEPT !.hf = "whole", !.hfBy = by] \in RoleDir  BY <2>1 DEF RoleDir, FileState
  <2>3. [[d EXCEPT !.hf = "whole", !.hfBy = by] EXCEPT !.hf = "torn"] \in RoleDir
    BY <2>2 DEF RoleDir, FileState
  <2>. QED  BY <1>2, <2>2, <2>3 DEF MergeResults
<1>. QED  BY <1>1, <1>2 DEF EnsureHFThenPrune

THEOREM TypeCorrect == Spec => []TypeOK
<1>. USE CheckpointAssumption DEF Steps
<1>1. Init => TypeOK
  BY DEF Init, TypeOK, PCs, SavePCs, RoleDir, DataFile, FileState, NoRoleDir, NoDataFile, CheckpointAssumption, Roles
<1>2. ASSUME TypeOK, [Next]_vars  PROVE TypeOK'
  <2>. USE <1>2 DEF TypeOK
  <2>. DEFINE r == RoleOrder[role]
              d == store[gs][r]
  <2>a. r \in Roles  BY RoleInRoles
  <2>c. store \in Stores /\ written \in Writtens  BY DEF Stores, Writtens
  <2>b. pc \in SavePCs => gs \in Steps /\ d \in RoleDir /\ run \in 0 .. MaxRuns  BY <2>a
  <2>1. ASSUME NEW s \in Steps, SaveBegin(s)  PROVE TypeOK'
    BY <2>1 DEF SaveBegin, disk, PCs, SavePCs, CheckpointAssumption
  <2>2. CASE OpenRole
    <3>. DEFINE e == [d EXCEPT !.shards = Overwritten(@), !.by = run, !.dropped = FALSE]
    <3>1. e \in RoleDir  BY <2>2, <2>b DEF OpenRole, SavePCs, Overwritten, RoleDir, FileState
    <3>2. PICK st \in RemoveRoleDirs(store, Rotated, r, FilesMayFail) : store' = SetDir(st, gs, r, e)
      BY <2>2 DEF OpenRole
    <3>3. st \in Stores  BY <2>a, <2>c, Removal
    <3>4. store' \in Stores
      BY <2>2, <2>a, <2>b, <3>1, <3>2, <3>3, SetDirProperties DEF OpenRole, SavePCs, Stores
    <3>5. SetDir(ForgetWritten(written, Rotated, r), gs, r, 0) \in Writtens
      <4>1. ForgetWritten(written, Rotated, r) \in Writtens  BY <2>a, <2>c, ForgetType
      <4>2. 0 \in 0 .. MaxRuns /\ gs \in Steps  BY <2>2, <2>b DEF OpenRole, SavePCs, CheckpointAssumption
      <4>. QED  BY <2>a, <4>1, <4>2, SetDirProperties DEF Writtens
    <3>6. KeepLast(managed[r], CapacityBeforeSave(r)) \in Seq(Steps)  BY <2>a, CapacityType, KeepLastIsSeq
    <3>. QED  BY <2>2, <2>b, <3>4, <3>5, <3>6 DEF OpenRole, PCs, SavePCs, Stores, Writtens
  <2>3. CASE FinishShards
    <3>1. [d EXCEPT !.shards = "whole"] \in RoleDir
      BY <2>3, <2>b DEF FinishShards, SavePCs, RoleDir, FileState
    <3>2. store' \in Stores  BY <2>3, <2>a, <2>b, <3>1, SetDirProperties DEF FinishShards, SavePCs, Stores
    <3>. QED  BY <2>3, <3>2 DEF FinishShards, Stores
  <2>4. CASE WriteConfig
    <3>1. [d EXCEPT !.hfdir = TRUE] \in RoleDir  BY <2>4, <2>b DEF WriteConfig, SavePCs, RoleDir
    <3>2. store' \in Stores  BY <2>4, <2>a, <2>b, <3>1, SetDirProperties DEF WriteConfig, SavePCs, Stores
    <3>. QED  BY <2>4, <3>2 DEF WriteConfig, Stores
  <2>5. CASE ShardsBarrier
    <3>1. [d EXCEPT !.hf = "torn", !.hfBy = run] \in RoleDir
      BY <2>5, <2>b DEF ShardsBarrier, SavePCs, RoleDir, FileState
    <3>2. store' \in Stores
      <4>1. gs \in Steps  BY <2>5, <2>b DEF ShardsBarrier, SavePCs
      <4>2. SetDir(store, gs, r, [d EXCEPT !.hf = "torn", !.hfBy = run]) \in Stores
        BY <2>a, <2>c, <3>1, <4>1, SetDirProperties DEF Stores
      <4>. QED  BY <2>5, <2>c, <4>2 DEF ShardsBarrier
    <3>3. written' \in Writtens  BY <2>5, <2>a, <2>b, SetDirProperties DEF ShardsBarrier, SavePCs, Writtens
    <3>. QED  BY <2>5, <2>b, <3>2, <3>3 DEF ShardsBarrier, Stores, Writtens, PCs, SavePCs
  <2>6. CASE FinishHF
    <3>1. [d EXCEPT !.hf = "whole"] \in RoleDir  BY <2>6, <2>b DEF FinishHF, SavePCs, RoleDir, FileState
    <3>2. store' \in Stores  BY <2>6, <2>a, <2>b, <3>1, SetDirProperties DEF FinishHF, SavePCs, Stores
    <3>. QED  BY <2>6, <2>b, <3>2 DEF FinishHF, Stores, PCs, SavePCs
  <2>7. CASE Register
    <3>. DEFINE all == Append(managed[r], gs)
                n == CapacityAfterSave(r)
    <3>1. all \in Seq(Steps)  BY <2>7, <2>a, <2>b DEF Register, SavePCs
    <3>2. KeepLast(all, n) \in Seq(Steps)  BY <2>a, <3>1, CapacityType, KeepLastIsSeq
    <3>3. managed' \in [Roles -> Seq(Steps)]  BY <2>7, <3>2 DEF Register
    <3>4. ForgetWritten(written, Rotated, r) \in Writtens  BY <2>a, <2>c, ForgetType
    <3>5. store' \in Stores /\ written' \in Writtens  BY <2>7, <2>a, <2>c, <3>4, Removal DEF Register
    <3>6. data' \in [Steps -> DataFile]
      <4>1. [state |-> "torn", by |-> run] \in DataFile  BY DEF DataFile, FileState
      <4>. QED  BY <2>7, <4>1 DEF Register
    <3>7. role' \in DOMAIN RoleOrder /\ pc' \in PCs /\ gs' \in Steps
      BY <2>7, <2>b, LenProperties DEF Register, PCs, SavePCs, CheckpointAssumption
    <3>. QED  BY <2>7, <3>3, <3>5, <3>6, <3>7 DEF Register, Stores, Writtens
  <2>8. CASE FinishData  BY <2>8 DEF FinishData, PCs, SavePCs, DataFile, FileState
  <2>9. CASE CommitTracker
    <3>1. gs \in Steps  BY <2>9, <2>b DEF CommitTracker, SavePCs
    <3>2. todo' \subseteq Steps \X Items  BY <2>9 DEF CommitTracker
    <3>. QED  BY <2>9, <3>1, <3>2 DEF CommitTracker, PCs
  <2>10. ASSUME NEW s \in Steps, NEW q \in Roles, PruneRole(s, q)  PROVE TypeOK'
    <3>1. store[s][q] \in RoleDir  OBVIOUS
    <3>2. PICK e \in EnsureHFThenPrune(store[s][q], FilesMayFail) : store' = SetDir(store, s, q, e)
      BY <2>10 DEF PruneRole
    <3>3. e \in RoleDir  BY <3>1, PruneType
    <3>4. store' \in Stores  BY <2>c, <3>2, <3>3, SetDirProperties DEF Stores
    <3>. QED  BY <2>10, <3>4 DEF PruneRole, Stores
  <2>11. ASSUME NEW s \in Steps, PruneData(s)  PROVE TypeOK'
    BY <2>11 DEF PruneData, NoDataFile, DataFile, FileState, CheckpointAssumption
  <2>12. CASE PruneDone  BY <2>12 DEF PruneDone, disk, PCs, SavePCs
  <2>13. CASE Crash
    <3>1. store' \in Stores
      <4>1. CASE UNCHANGED store  BY <4>1 DEF Stores
      <4>2. ASSUME NEW s \in Steps, NEW q \in Roles, NEW e \in EnsureHFThenPrune(store[s][q], TRUE),
                   store' = SetDir(store, s, q, e)
            PROVE  store' \in Stores
        <5>1. store[s][q] \in RoleDir  OBVIOUS
        <5>. QED  BY <4>2, <5>1, PruneType, SetDirProperties DEF Stores
      <4>3. CASE store' \in RemoveRoleDirs(store, Rotated, r, TRUE)  BY <2>a, <2>c, <4>3, Removal
      <4>. QED  BY <2>13, <4>1, <4>2, <4>3 DEF Crash
    <3>2. managed' \in [Roles -> Seq(Steps)]  BY <2>13 DEF Crash
    <3>3. 1 \in DOMAIN RoleOrder  BY LenProperties, EmptySeq DEF CheckpointAssumption
    <3>. QED  BY <2>13, <3>1, <3>2, <3>3 DEF Crash, PCs, SavePCs, Stores, CheckpointAssumption
  <2>14. CASE Start  BY <2>14 DEF Start, disk, PCs, SavePCs, CheckpointAssumption
  <2>15. CASE UNCHANGED vars  BY <2>15 DEF vars
  <2>. QED
    BY <2>1, <2>2, <2>3, <2>4, <2>5, <2>6, <2>7, <2>8, <2>9, <2>10, <2>11, <2>12, <2>13, <2>14, <2>15 DEF Next
<1>. QED  BY <1>1, <1>2, PTL DEF Spec

-----------------------------------------------------------------------------
(* The tracker names a restorable checkpoint.                                *)

\* A step that leaves the tracked checkpoint alone keeps it consistent.
LEMMA TrackedFrame ==
  ASSUME TrackedRestorable, tracker' = tracker,
         tracker \in Steps => /\ data'[tracker] = data[tracker]
                              /\ \A r \in Roles : store'[tracker][r] = store[tracker][r]
  PROVE  TrackedRestorable'
BY DEF TrackedRestorable, Consistent

\* Evicting and rewriting directories of one role leaves the others alone.
LEMMA EvictionFrame ==
  ASSUME TypeOK, NEW r \in Roles, NEW gone, NEW mayFail, NEW st \in RemoveRoleDirs(store, gone, r, mayFail),
         NEW s \in Steps, NEW q \in Roles, q # r \/ s \notin gone
  PROVE  st[s][q] = store[s][q]
<1>1. store \in Stores  BY DEF Stores, TypeOK
<1>. QED  BY <1>1, Removal

\* The role being saved: its list ends with the tracked step.
LEMMA CurrentRole ==
  ASSUME IInv, pc \in {"open", "shards", "hf", "register"}
  PROVE  LET r == RoleOrder[role] IN
         /\ role \in DOMAIN RoleOrder /\ r \in Roles /\ gs \in Steps
         /\ store[gs][r] \in RoleDir /\ tracker # gs
         /\ managed[r] \in Seq(Steps)
         /\ managed[r] # <<>> => managed[r][Len(managed[r])] = tracker
         /\ \A i \in DOMAIN RoleOrder : i # role => RoleOrder[i] # r /\ RoleOrder[i] \in Roles
<1>1. role \in DOMAIN RoleOrder /\ gs \in Steps  BY DEF IInv, TypeOK, SavePCs
<1>2. RoleOrder[role] \in Roles  BY <1>1, RoleInRoles
<1>3. tracker # gs
  <2>1. tracker < gs  BY DEF IInv, StepInv, SavePCs
  <2>. QED  BY <1>1, <2>1 DEF Steps
<1>4. store[gs][RoleOrder[role]] \in RoleDir /\ managed[RoleOrder[role]] \in Seq(Steps)
  BY <1>1, <1>2 DEF IInv, TypeOK
<1>5. ~Registered(role)
  <2>1. role \in 1 .. Len(RoleOrder) /\ Len(RoleOrder) \in Nat
    BY <1>1, LenProperties, CheckpointAssumption DEF CheckpointAssumption
  <2>. QED  BY <2>1 DEF Registered
<1>6. managed[RoleOrder[role]] # <<>> =>
        managed[RoleOrder[role]][Len(managed[RoleOrder[role]])] = tracker
  BY <1>1, <1>5 DEF IInv, ManagedInv, SavePCs
<1>7. \A i \in DOMAIN RoleOrder : i # role => RoleOrder[i] # RoleOrder[role] /\ RoleOrder[i] \in Roles
  BY <1>1, RoleInRoles, CheckpointAssumption DEF CheckpointAssumption
<1>. QED  BY <1>1, <1>2, <1>3, <1>4, <1>6, <1>7

\* The limits keep the path listed last, and with any limit but 1 also the one
\* before it when a new path is listed.
LEMMA CapacityKeepsLast ==
  ASSUME CheckpointAssumption, TypeOK, NEW r \in Roles
  PROVE  /\ CapacityAfterSave(r) \in Nat \ {0}
         /\ managed[r] # <<>> => CapacityBeforeSave(r) \in Nat \ {0}
         /\ managed[r] # <<>> /\ Keep # 1 => CapacityAfterSave(r) > 1
<1>1. managed[r] \in Seq(Steps)  BY DEF TypeOK
<1>2. Len(managed[r]) \in Nat /\ (managed[r] # <<>> => Len(managed[r]) # 0)  BY <1>1, EmptySeq
<1>3. Keep \in Nat  BY DEF CheckpointAssumption
<1>. QED  BY <1>2, <1>3 DEF CapacityBeforeSave, CapacityAfterSave

\* The path just listed stays, and with any limit but 1 the tracked step is
\* dropped neither when room is made nor when the new path is listed.
LEMMA TrackedNotDropped ==
  ASSUME CheckpointAssumption, IInv, pc \in {"open", "register"}
  PROVE  LET r == RoleOrder[role] IN
         /\ gs \notin Dropped(Append(managed[r], gs), CapacityAfterSave(r))
         /\ Keep # 1 /\ tracker \in Steps =>
              /\ tracker \notin Dropped(managed[r], CapacityBeforeSave(r))
              /\ tracker \notin Dropped(Append(managed[r], gs), CapacityAfterSave(r))
<1>. DEFINE r == RoleOrder[role]
            m == managed[r]
            all == Append(m, gs)
<1>1. /\ r \in Roles /\ m \in Seq(Steps) /\ gs \in Steps /\ tracker # gs
      /\ m # <<>> => m[Len(m)] = tracker
  BY CurrentRole
<1>2. CapacityBeforeSave(r) \in Nat /\ CapacityAfterSave(r) \in Nat \ {0}
  BY <1>1, CapacityType, CapacityKeepsLast DEF IInv
<1>3. all \in Seq(Steps) /\ Len(all) = Len(m) + 1 /\ Len(m) \in Nat /\ all[Len(m) + 1] = gs
      /\ \A i \in 1 .. Len(m) : all[i] = m[i]
  BY <1>1, AppendProperties
<1>4. gs \notin Dropped(all, CapacityAfterSave(r))
  <2>. DEFINE c == CapacityAfterSave(r)
  <2>. HIDE DEF c, all
  <2>1. Len(all) \in 1 .. Len(all) /\ Len(all) > Len(all) - c /\ all[Len(all)] = gs
    BY <1>2, <1>3 DEF c
  <2>2. c \in Nat  BY <1>2 DEF c
  <2>3. all[Len(all)] \notin Dropped(all, c)  BY <1>3, <2>1, <2>2, LastOnesNotDropped
  <2>. QED  BY <2>1, <2>3 DEF c
<1>5. ASSUME Keep # 1, tracker \in Steps
      PROVE  tracker \notin Dropped(m, CapacityBeforeSave(r)) /\ tracker \notin Dropped(all, CapacityAfterSave(r))
  <2>1. CASE m = <<>>
    <3>1. SetOf(m) = {}  BY <2>1 DEF SetOf
    <3>2. SetOf(all) = {gs}  BY <1>3, <2>1, LenProperties DEF SetOf
    <3>. QED  BY <1>1, <3>1, <3>2 DEF Dropped
  <2>2. CASE m # <<>>
    <3>. DEFINE b == CapacityBeforeSave(r)
                c == CapacityAfterSave(r)
    <3>1. b \in Nat \ {0} /\ c \in Nat \ {0} /\ c > 1
      BY <1>1, <1>5, <2>2, CapacityKeepsLast DEF IInv
    <3>2. Len(m) \in 1 .. Len(m) /\ Len(m) \in 1 .. Len(all) /\ m[Len(m)] = tracker /\ all[Len(m)] = tracker
      BY <1>1, <1>3, <2>2, EmptySeq
    <3>. HIDE DEF b, c, m, all
    <3>3. Len(m) > Len(m) - b /\ Len(m) > Len(all) - c  BY <1>3, <3>1
    <3>4. m[Len(m)] \notin Dropped(m, b)  BY <1>1, <3>1, <3>2, <3>3, LastOnesNotDropped
    <3>5. all[Len(m)] \notin Dropped(all, c)  BY <1>3, <3>1, <3>2, <3>3, LastOnesNotDropped
    <3>. QED  BY <3>2, <3>4, <3>5 DEF b, c, m, all
  <2>. QED  BY <2>1, <2>2
<1>. QED  BY <1>4, <1>5

\* What a save drops is neither its own step nor the tracked one.
LEMMA RotatedSpares ==
  ASSUME CheckpointAssumption, IInv, Keep # 1, tracker \in Steps
  PROVE  tracker \notin Rotated
<1>1. CASE pc \in {"open", "register"}  BY <1>1, TrackedNotDropped DEF Rotated
<1>2. CASE pc \notin {"open", "register"}  BY <1>2 DEF Rotated
<1>. QED  BY <1>1, <1>2

LEMMA IInvInit == Init => IInv
<1>. USE CheckpointAssumption
<1>1. Init => TypeOK
  BY DEF Init, TypeOK, PCs, SavePCs, RoleDir, DataFile, FileState, NoRoleDir, NoDataFile, CheckpointAssumption, Roles, Steps
<1>2. Init => StepInv /\ TodoInv /\ ManagedInv /\ SavedInv /\ TrackedRestorable
  BY DEF Init, StepInv, TodoInv, ManagedInv, SavedInv, TrackedRestorable, SavePCs, Missing, Steps
<1>. QED  BY <1>1, <1>2 DEF IInv

LEMMA IInvStep ==
  ASSUME CheckpointAssumption, ~ResumePath, Keep # 1, IInv, TypeOK', [Next]_vars
  PROVE  IInv'
<1>. USE DEF IInv, SavePCs
<1>. DEFINE Goal == StepInv' /\ TodoInv' /\ ManagedInv' /\ SavedInv' /\ TrackedRestorable'
<1>1. ASSUME NEW s \in Steps, SaveBegin(s)  PROVE Goal
  <2>. USE <1>1 DEF SaveBegin, disk
  <2>1. StepInv'  BY DEF StepInv, Steps, TypeOK
  <2>2. TodoInv'  BY DEF TodoInv
  <2>3. ManagedInv'  BY DEF ManagedInv, Registered, StepInv, TypeOK
  <2>4. SavedInv'  BY DEF SavedInv, Registered
  <2>5. TrackedRestorable'  BY TrackedFrame
  <2>. QED  BY <2>1, <2>2, <2>3, <2>4, <2>5
<1>2. CASE OpenRole
  <2>. DEFINE r == RoleOrder[role]
              n == CapacityBeforeSave(r)
              k == KeepLast(managed[r], n)
              e == [store[gs][r] EXCEPT !.shards = Overwritten(@), !.by = run, !.dropped = FALSE]
  <2>1. /\ pc = "open" /\ pc' = "shards" /\ UNCHANGED <<data, tracker, gs, role, todo, run>>
        /\ managed' = [managed EXCEPT ![r] = k]
    BY <1>2 DEF OpenRole
  <2>0. PICK cleared \in RemoveRoleDirs(store, Rotated, r, FilesMayFail) : store' = SetDir(cleared, gs, r, e)
    BY <1>2 DEF OpenRole
  <2>2. /\ role \in DOMAIN RoleOrder /\ r \in Roles /\ gs \in Steps /\ store[gs][r] \in RoleDir
        /\ tracker # gs /\ managed[r] \in Seq(Steps)
        /\ managed[r] # <<>> => managed[r][Len(managed[r])] = tracker
        /\ \A i \in DOMAIN RoleOrder : i # role => RoleOrder[i] # r /\ RoleOrder[i] \in Roles
    BY <2>1, CurrentRole
  <2>3. k # <<>> => k[Len(k)] = tracker
    <3>1. CASE managed[r] = <<>>
      <4>1. n \in Nat  BY <2>2, CapacityType
      <4>. QED  BY <3>1, <4>1 DEF KeepLast
    <3>2. CASE managed[r] # <<>>
      <4>1. n \in Nat \ {0}  BY <2>2, <3>2, CapacityKeepsLast
      <4>. QED  BY <2>2, <3>2, <4>1, KeepLastKeepsLast
    <3>. QED  BY <3>1, <3>2
  <2>4. e.by = run /\ e \in RoleDir
    <3>1. run \in 0 .. MaxRuns  BY DEF TypeOK
    <3>. QED  BY <2>2, <3>1 DEF RoleDir, Overwritten, FileState
  <2>5. cleared \in [Steps -> [Roles -> RoleDir]]
    <3>1. store \in Stores  BY DEF Stores, TypeOK
    <3>2. cleared \in Stores  BY <2>2, <3>1, Removal
    <3>. QED  BY <3>2 DEF Stores
  <2>5a. \A s \in Steps, q \in Roles : s \notin Rotated \/ q # r => cleared[s][q] = store[s][q]
    BY <2>2, EvictionFrame
  <2>. HIDE DEF r, n, k, e
  <2>6. /\ store'[gs][r].by = run
        /\ \A s \in Steps, q \in Roles : s # gs \/ q # r => store'[s][q] = cleared[s][q]
    <3>1. gs \in Steps /\ r \in Roles /\ e \in RoleDir  BY <2>2, <2>4 DEF r
    <3>2. /\ SetDir(cleared, gs, r, e)[gs][r] = e
          /\ \A s \in Steps, q \in Roles : s # gs \/ q # r => SetDir(cleared, gs, r, e)[s][q] = cleared[s][q]
      BY <2>5, <3>1 DEF SetDir
    <3>. QED  BY <2>0, <2>4, <3>2
  <2>7. StepInv' /\ TodoInv'  BY <2>1 DEF StepInv, TodoInv
  <2>8. ManagedInv'
    <3>1. managed'[r] = k /\ \A q \in Roles : q # r => managed'[q] = managed[q]
      BY <2>1, <2>2 DEF TypeOK
    <3>2. \A i \in DOMAIN RoleOrder : Registered(i)' = Registered(i)  BY <2>1 DEF Registered
    <3>3. ~Registered(role)
      <4>1. role \in Int  BY <2>2, LenProperties DEF CheckpointAssumption
      <4>. QED  BY <2>1, <4>1 DEF Registered
    <3>4. ASSUME NEW i \in DOMAIN RoleOrder, managed'[RoleOrder[i]] # <<>>
          PROVE  managed'[RoleOrder[i]][Len(managed'[RoleOrder[i]])] = IF Registered(i) THEN gs ELSE tracker
      <4>1. CASE i = role  BY <2>3, <3>1, <3>3, <3>4, <4>1 DEF r
      <4>2. CASE i # role  BY <2>1, <2>2, <3>1, <3>4, <4>2 DEF ManagedInv
      <4>. QED  BY <4>1, <4>2
    <3>. QED  BY <2>1, <3>2, <3>4 DEF ManagedInv
  <2>9. SavedInv'
    <3>1. \A q \in Roles : q # r => store'[gs][q] = store[gs][q]
      BY <2>2, <2>5a, <2>6
    <3>2. \A i \in DOMAIN RoleOrder : Registered(i)' => Registered(i) /\ i # role
      <4>1. role \in Int  BY <2>2, LenProperties DEF CheckpointAssumption
      <4>. QED  BY <2>1, <4>1 DEF Registered
    <3>3. \A i \in DOMAIN RoleOrder : Registered(i)' =>
            store'[gs][RoleOrder[i]].shards = "whole" /\ store'[gs][RoleOrder[i]].by = run
      BY <2>1, <2>2, <3>1, <3>2 DEF SavedInv
    <3>. QED  BY <2>1, <2>6, <3>3 DEF SavedInv, r
  <2>10. TrackedRestorable'
    <3>1. ASSUME tracker \in Steps, NEW q \in Roles  PROVE store'[tracker][q] = store[tracker][q]
      <4>1. tracker \notin Rotated  BY <3>1, RotatedSpares
      <4>2. cleared[tracker][q] = store[tracker][q]  BY <2>5a, <3>1, <4>1
      <4>. QED  BY <2>2, <2>6, <3>1, <4>2
    <3>. QED  BY <2>1, <3>1, TrackedFrame
  <2>. QED  BY <2>7, <2>8, <2>9, <2>10
<1>3. CASE FinishShards
  <2>. DEFINE r == RoleOrder[role]
  <2>1. /\ pc = "shards" /\ UNCHANGED <<data, tracker, pc, gs, role, managed, todo, run>>
        /\ store' = SetDir(store, gs, r, [store[gs][r] EXCEPT !.shards = "whole"])
    BY <1>3 DEF FinishShards
  <2>2. r \in Roles /\ gs \in Steps /\ tracker # gs /\ store[gs][r] \in RoleDir
        /\ \A i \in DOMAIN RoleOrder : i # role => RoleOrder[i] # r /\ RoleOrder[i] \in Roles
    BY <2>1, CurrentRole
  <2>3. /\ store'[gs][r].by = store[gs][r].by /\ store'[gs][r].shards = "whole"
        /\ \A s \in Steps, q \in Roles : s # gs \/ q # r => store'[s][q] = store[s][q]
    BY <2>1, <2>2 DEF SetDir, TypeOK, RoleDir
  <2>4. StepInv' /\ TodoInv' /\ ManagedInv'
    BY <2>1 DEF StepInv, TodoInv, ManagedInv, Registered
  <2>5. \A i \in DOMAIN RoleOrder : Registered(i)' = Registered(i)  BY <2>1 DEF Registered
  <2>6. \A i \in DOMAIN RoleOrder : Registered(i) =>
          store'[gs][RoleOrder[i]].shards = "whole" /\ store'[gs][RoleOrder[i]].by = run
    <3>. TAKE i \in DOMAIN RoleOrder
    <3>. HAVE Registered(i)
    <3>1. store[gs][RoleOrder[i]].shards = "whole" /\ store[gs][RoleOrder[i]].by = run
      BY <2>1 DEF SavedInv
    <3>2. CASE i = role  BY <2>3, <3>1, <3>2
    <3>3. CASE i # role  BY <2>2, <2>3, <3>1, <3>3
    <3>. QED  BY <3>2, <3>3
  <2>7. store[gs][r].by = run  BY <2>1 DEF SavedInv
  <2>8. SavedInv'  BY <2>1, <2>3, <2>5, <2>6, <2>7 DEF SavedInv
  <2>9. TrackedRestorable'  BY <2>1, <2>2, <2>3, TrackedFrame
  <2>. QED  BY <2>4, <2>8, <2>9
<1>4. CASE WriteConfig
  <2>. USE <1>4 DEF WriteConfig
  <2>0. pc \in {"shards", "hf"}  OBVIOUS
  <2>1. StepInv'  BY DEF StepInv
  <2>2. TodoInv'  BY DEF TodoInv
  <2>3. ManagedInv'  BY DEF ManagedInv, Registered
  <2>4. SavedInv'  BY <2>0, CurrentRole DEF SavedInv, Registered, SetDir, TypeOK, RoleDir
  <2>5. TrackedRestorable'  BY <2>0, CurrentRole, TrackedFrame DEF SetDir, TypeOK
  <2>. QED  BY <2>1, <2>2, <2>3, <2>4, <2>5
<1>5. CASE ShardsBarrier
  <2>. DEFINE r == RoleOrder[role]
  <2>1. /\ pc = "shards" /\ store[gs][r].shards = "whole" /\ UNCHANGED <<data, tracker, gs, role, managed, todo, run>>
        /\ pc' \in {"hf", "register"}
        /\ \/ store' = SetDir(store, gs, r, [store[gs][r] EXCEPT !.hf = "torn", !.hfBy = run])
           \/ store' = store
    BY <1>5 DEF ShardsBarrier
  <2>2. r \in Roles /\ gs \in Steps /\ tracker # gs /\ store[gs][r] \in RoleDir
        /\ \A i \in DOMAIN RoleOrder : RoleOrder[i] \in Roles
    BY <2>1, CurrentRole, RoleInRoles
  <2>3. /\ \A q \in Roles : store'[gs][q].shards = store[gs][q].shards /\ store'[gs][q].by = store[gs][q].by
        /\ \A s \in Steps, q \in Roles : s # gs => store'[s][q] = store[s][q]
    <3>. DEFINE e == [store[gs][r] EXCEPT !.hf = "torn", !.hfBy = run]
    <3>1. e.shards = store[gs][r].shards /\ e.by = store[gs][r].by  BY <2>2 DEF RoleDir
    <3>. HIDE DEF e
    <3>2. CASE store' = store  BY <3>2
    <3>3. CASE store' = SetDir(store, gs, r, e)
      BY <2>2, <3>1, <3>3 DEF SetDir, TypeOK
    <3>. QED  BY <2>1, <3>2, <3>3 DEF e
  <2>4. StepInv' /\ TodoInv' /\ ManagedInv'
    BY <2>1 DEF StepInv, TodoInv, ManagedInv, Registered
  <2>5. \A i \in DOMAIN RoleOrder : Registered(i)' = Registered(i)  BY <2>1 DEF Registered
  <2>6. SavedInv'
    <3>1. \A i \in DOMAIN RoleOrder : Registered(i) \/ i = role =>
            store[gs][RoleOrder[i]].shards = "whole" /\ store[gs][RoleOrder[i]].by = run
      BY <2>1 DEF SavedInv
    <3>. QED  BY <2>1, <2>2, <2>3, <2>5, <3>1 DEF SavedInv
  <2>7. TrackedRestorable'  BY <2>1, <2>2, <2>3, TrackedFrame
  <2>. QED  BY <2>4, <2>6, <2>7
<1>6. CASE FinishHF
  <2>. USE <1>6 DEF FinishHF
  <2>0. pc \in {"shards", "hf"}  OBVIOUS
  <2>1. StepInv'  BY DEF StepInv
  <2>2. TodoInv'  BY DEF TodoInv
  <2>3. ManagedInv'  BY DEF ManagedInv, Registered
  <2>4. SavedInv'  BY <2>0, CurrentRole DEF SavedInv, Registered, SetDir, TypeOK, RoleDir
  <2>5. TrackedRestorable'  BY <2>0, CurrentRole, TrackedFrame DEF SetDir, TypeOK
  <2>. QED  BY <2>1, <2>2, <2>3, <2>4, <2>5
<1>7. CASE Register
  <2>. DEFINE r == RoleOrder[role]
              n == CapacityAfterSave(r)
              all == Append(managed[r], gs)
              k == KeepLast(all, n)
  <2>1. /\ pc = "register" /\ UNCHANGED <<tracker, gs, todo, run>>
        /\ managed' = [managed EXCEPT ![r] = k]
        /\ store' \in RemoveRoleDirs(store, Rotated, r, FilesMayFail)
        /\ \/ role < Len(RoleOrder) /\ role' = role + 1 /\ pc' = "open" /\ data' = data
           \/ /\ ~(role < Len(RoleOrder)) /\ role' = role /\ pc' = "data"
              /\ data' = [data EXCEPT ![gs] = [state |-> "torn", by |-> run]]
    BY <1>7 DEF Register
  <2>2. /\ role \in DOMAIN RoleOrder /\ r \in Roles /\ gs \in Steps /\ tracker # gs
        /\ managed[r] \in Seq(Steps)
        /\ \A i \in DOMAIN RoleOrder : i # role => RoleOrder[i] # r /\ RoleOrder[i] \in Roles
    BY <2>1, CurrentRole
  <2>3. role \in 1 .. Len(RoleOrder) /\ DOMAIN RoleOrder = 1 .. Len(RoleOrder) /\ Len(RoleOrder) \in Nat
    BY <2>2, LenProperties DEF CheckpointAssumption
  <2>4. gs \notin Rotated /\ (tracker \in Steps => tracker \notin Rotated)
    BY <2>1, TrackedNotDropped, RotatedSpares DEF Rotated
  <2>5. k[Len(k)] = gs
    <3>1. all \in Seq(Steps) /\ all # <<>> /\ all[Len(all)] = gs
      BY <2>2, AppendProperties, EmptySeq
    <3>2. n \in Nat \ {0}  BY <2>2, CapacityKeepsLast
    <3>. HIDE DEF all, n
    <3>. QED  BY <3>1, <3>2, KeepLastKeepsLast
  <2>. HIDE DEF r, n, all, k
  <2>6. \A s \in Steps, q \in Roles : s \notin Rotated \/ q # r => store'[s][q] = store[s][q]
    BY <2>1, <2>2, EvictionFrame
  <2>7. \A i \in DOMAIN RoleOrder : Registered(i)' = (Registered(i) \/ i = role)
    BY <2>1, <2>3 DEF Registered
  <2>8. StepInv' /\ TodoInv'  BY <2>1 DEF StepInv, TodoInv
  <2>9. ManagedInv'
    <3>1. managed'[r] = k /\ \A q \in Roles : q # r => managed'[q] = managed[q]
      BY <2>1, <2>2 DEF TypeOK
    <3>2. ASSUME NEW i \in DOMAIN RoleOrder, managed'[RoleOrder[i]] # <<>>
          PROVE  managed'[RoleOrder[i]][Len(managed'[RoleOrder[i]])] = IF Registered(i)' THEN gs ELSE tracker
      <4>1. CASE i = role  BY <2>5, <2>7, <3>1, <4>1 DEF r
      <4>2. CASE i # role  BY <2>1, <2>2, <2>7, <3>1, <3>2, <4>2 DEF ManagedInv
      <4>. QED  BY <4>1, <4>2
    <3>. QED  BY <2>1, <3>2 DEF ManagedInv
  <2>10. SavedInv'
    <3>1. \A q \in Roles : store'[gs][q] = store[gs][q]  BY <2>2, <2>4, <2>6
    <3>2. \A i \in DOMAIN RoleOrder : Registered(i) \/ i = role =>
            store'[gs][RoleOrder[i]].shards = "whole" /\ store'[gs][RoleOrder[i]].by = run
      BY <2>1, <3>1, RoleInRoles DEF SavedInv
    <3>3. pc' = "data" => role' = Len(RoleOrder) /\ data'[gs].by = run
      BY <2>1, <2>2, <2>3 DEF TypeOK
    <3>. QED  BY <2>1, <2>7, <3>2, <3>3 DEF SavedInv
  <2>11. TrackedRestorable'
    <3>1. tracker \in Steps => data'[tracker] = data[tracker]  BY <2>1, <2>2 DEF TypeOK
    <3>. QED  BY <2>1, <2>4, <2>6, <3>1, TrackedFrame
  <2>. QED  BY <2>8, <2>9, <2>10, <2>11
<1>8. CASE FinishData
  <2>. USE <1>8 DEF FinishData
  <2>1. StepInv'  BY DEF StepInv, TypeOK, Torn, Steps
  <2>2. TodoInv'  BY DEF TodoInv
  <2>3. ManagedInv'  BY DEF ManagedInv, Registered
  <2>4. SavedInv'  BY DEF SavedInv, Registered, TypeOK
  <2>5. TrackedRestorable'  BY DEF TrackedRestorable, Torn, Steps
  <2>. QED  BY <2>1, <2>2, <2>3, <2>4, <2>5
<1>9. CASE CommitTracker
  <2>. USE <1>9 DEF CommitTracker
  <2>1. StepInv'  BY DEF StepInv
  <2>2. TodoInv'  BY DEF TodoInv
  <2>3. ManagedInv'  BY DEF ManagedInv, Registered
  <2>4. SavedInv'  BY DEF SavedInv
  <2>5. TrackedRestorable'  BY DEF TrackedRestorable, Consistent, SavedInv, Registered, Roles
  <2>. QED  BY <2>1, <2>2, <2>3, <2>4, <2>5
<1>10. ASSUME NEW s \in Steps, NEW r \in Roles, PruneRole(s, r)  PROVE Goal
  <2>. USE <1>10 DEF PruneRole
  <2>1. StepInv'  BY DEF StepInv
  <2>2. TodoInv'  BY DEF TodoInv
  <2>3. ManagedInv'  BY DEF ManagedInv, Registered
  <2>4. SavedInv'  BY DEF SavedInv
  <2>5. TrackedRestorable'
    <3>1. s # tracker  BY DEF TodoInv, StepInv
    <3>. QED  BY <3>1, TrackedFrame DEF SetDir, TypeOK
  <2>. QED  BY <2>1, <2>2, <2>3, <2>4, <2>5
<1>11. ASSUME NEW s \in Steps, PruneData(s)  PROVE Goal
  <2>. USE <1>11 DEF PruneData
  <2>1. StepInv'  BY DEF StepInv
  <2>2. TodoInv'  BY DEF TodoInv
  <2>3. ManagedInv'  BY DEF ManagedInv, Registered
  <2>4. SavedInv'  BY DEF SavedInv
  <2>5. TrackedRestorable'
    <3>1. s # tracker  BY DEF TodoInv, StepInv
    <3>. QED  BY <3>1, TrackedFrame DEF TypeOK
  <2>. QED  BY <2>1, <2>2, <2>3, <2>4, <2>5
<1>12. CASE PruneDone
  <2>. USE <1>12 DEF PruneDone, disk
  <2>1. StepInv'  BY DEF StepInv
  <2>2. TodoInv'  BY DEF TodoInv
  <2>3. ManagedInv'  BY DEF ManagedInv, Registered
  <2>4. SavedInv'  BY DEF SavedInv
  <2>5. TrackedRestorable'  BY TrackedFrame
  <2>. QED  BY <2>1, <2>2, <2>3, <2>4, <2>5
<1>13. CASE Crash
  <2>. USE <1>13 DEF Crash
  <2>1. StepInv'  BY DEF StepInv
  <2>2. TodoInv'  BY DEF TodoInv
  <2>3. ManagedInv'  BY DEF ManagedInv
  <2>4. SavedInv'  BY DEF SavedInv
  <2>5. TrackedRestorable'
    <3>1. \A s \in Steps, r \in Roles : <<s, r>> \in todo => s # tracker  BY DEF TodoInv, StepInv
    <3>2. ASSUME store' \in RemoveRoleDirs(store, Rotated, RoleOrder[role], TRUE)
          PROVE  tracker \in Steps => \A r \in Roles : store'[tracker][r] = store[tracker][r]
      <4>1. RoleOrder[role] \in Roles  BY RoleInRoles DEF TypeOK
      <4>2. PICK b : store' \in RemoveRoleDirs(store, Rotated, RoleOrder[role], b)  BY <3>2
      <4>. QED  BY <4>1, <4>2, RotatedSpares, EvictionFrame
    <3>3. tracker \in Steps => \A r \in Roles : store'[tracker][r] = store[tracker][r]
      BY <3>1, <3>2 DEF SetDir, TypeOK
    <3>. QED  BY <3>3, TrackedFrame
  <2>. QED  BY <2>1, <2>2, <2>3, <2>4, <2>5
<1>14. CASE Start
  <2>. USE <1>14 DEF Start, disk, ResumeChoices
  <2>1. StepInv'  BY DEF StepInv, Missing
  <2>2. TodoInv'  BY DEF TodoInv
  <2>3. ManagedInv'  BY DEF ManagedInv, Roles
  <2>4. SavedInv'  BY DEF SavedInv
  <2>5. TrackedRestorable'  BY TrackedFrame
  <2>. QED  BY <2>1, <2>2, <2>3, <2>4, <2>5
<1>15. CASE UNCHANGED vars
  BY <1>15 DEF vars, StepInv, TodoInv, ManagedInv, SavedInv, Registered, TrackedRestorable, Consistent
<1>. QED
  BY <1>1, <1>2, <1>3, <1>4, <1>5, <1>6, <1>7, <1>8, <1>9, <1>10, <1>11, <1>12, <1>13, <1>14, <1>15 DEF Next

\* In resume mode "auto" and with any retention limit but 1, the tracker names
\* a checkpoint whose weights and dataloader state are whole and of one save,
\* whatever is killed when (_save_checkpoint, register_checkpoint).
THEOREM TrackedRestorableCorrect ==
  ASSUME ~ResumePath, Keep # 1
  PROVE  Spec => []TrackedRestorable
<1>1. IInv /\ TypeOK' /\ [Next]_vars => IInv'  BY IInvStep, CheckpointAssumption
<1>2. IInv => TrackedRestorable  BY DEF IInv
<1>. QED  BY IInvInit, TypeCorrect, <1>1, <1>2, PTL DEF Spec
-----------------------------------------------------------------------------
(* The directory implements the register of CheckpointPromise.               *)

\* A restorable checkpoint is made of the files of one run.
LEMMA TrackedContentIs ==
  ASSUME TypeOK, TrackedRestorable, tracker \in Steps
  PROVE  TrackedContent = [step |-> tracker, runs |-> {data[tracker].by}]
<1>1. PartsOf(tracker) = {data[tracker].by}  BY DEF PartsOf, TrackedRestorable, Consistent
<1>2. tracker # Missing /\ tracker # Torn  BY DEF Steps, Missing, Torn
<1>. QED  BY <1>1, <1>2 DEF TrackedContent

\* While tracker and data.pt of the tracked step stay, so does the register.
LEMMA ContentFrame ==
  ASSUME TypeOK, TypeOK', TrackedRestorable, TrackedRestorable', tracker' = tracker,
         tracker \in Steps => data'[tracker] = data[tracker]
  PROVE  TrackedContent' = TrackedContent
<1>1. CASE tracker \in Steps
  <2>1. TrackedContent = [step |-> tracker, runs |-> {data[tracker].by}]  BY <1>1, TrackedContentIs
  <2>2. PartsOf(tracker)' = {data'[tracker].by}
    BY <1>1 DEF PartsOf, TrackedRestorable, Consistent
  <2>3. tracker # Missing /\ tracker # Torn  BY <1>1 DEF Steps, Missing, Torn
  <2>4. TrackedContent' = [step |-> tracker, runs |-> {data'[tracker].by}]
    BY <2>2, <2>3 DEF TrackedContent
  <2>. QED  BY <1>1, <2>1, <2>4
<1>2. CASE tracker \notin Steps
  <2>1. tracker = Missing \/ tracker = Torn  BY <1>2 DEF TypeOK
  <2>. QED  BY <2>1 DEF TrackedContent, Missing, Torn
<1>. QED  BY <1>1, <1>2

LEMMA PromiseStep ==
  ASSUME CheckpointAssumption, ~ResumePath, IInv, IInv', [Next]_vars
  PROVE  [Promise!PromiseNext]_(Promise!promiseVars)
<1>. USE DEF SavePCs, Promise!promiseVars
<1>0. TypeOK /\ TypeOK' /\ TrackedRestorable /\ TrackedRestorable'  BY DEF IInv
<1>1. ASSUME NEW s \in Steps, SaveBegin(s)  PROVE Promise!BeginSave
  <2>1. TrackedContent' = TrackedContent  BY <1>0, <1>1, ContentFrame DEF SaveBegin, disk
  <2>2. gs \in 0 .. MaxStep /\ gs' \in (gs + 1) .. MaxStep
    BY <1>0, <1>1, CheckpointAssumption DEF SaveBegin, Steps, TypeOK, CheckpointAssumption
  <2>3. Position = gs /\ Position' = gs' /\ run' = run  BY <1>1 DEF SaveBegin, Position
  <2>4. Position >= 0 /\ Position' \in (Position + 1) .. MaxStep  BY <2>2, <2>3
  <2>. QED  BY <2>1, <2>3, <2>4 DEF Promise!BeginSave
<1>2. ASSUME OpenRole \/ FinishShards \/ WriteConfig \/ ShardsBarrier \/ FinishHF \/ PruneDone
             \/ (\E s \in Steps, r \in Roles : PruneRole(s, r)) \/ UNCHANGED vars
      PROVE  UNCHANGED Promise!promiseVars
  <2>1. UNCHANGED <<data, tracker, gs, run>>
        /\ (pc' = pc \/ (pc \notin {"down", "stuck"} /\ pc' \notin {"down", "stuck"}))
    BY <1>2 DEF OpenRole, FinishShards, WriteConfig, ShardsBarrier, FinishHF, PruneDone, PruneRole, vars, disk
  <2>2. TrackedContent' = TrackedContent  BY <1>0, <2>1, ContentFrame
  <2>3. Position' = Position  BY <2>1 DEF Position
  <2>. QED  BY <2>1, <2>2, <2>3
<1>3. CASE Register
  <2>1. UNCHANGED <<tracker, gs, run>> /\ pc = "register" /\ pc' \in {"open", "data"}
        /\ (data' = data \/ data' = [data EXCEPT ![gs] = [state |-> "torn", by |-> run]])
    BY <1>3 DEF Register
  <2>2. tracker # gs  BY <2>1, CurrentRole
  <2>3. TrackedContent' = TrackedContent  BY <1>0, <2>1, <2>2, ContentFrame DEF TypeOK
  <2>4. Position' = Position  BY <2>1 DEF Position
  <2>. QED  BY <2>1, <2>3, <2>4
<1>4. ASSUME FinishData  PROVE Promise!Rewrite
  <2>1. pc = "data" /\ pc' = "track" /\ tracker' = Torn /\ UNCHANGED <<gs, run>>  BY <1>4 DEF FinishData
  <2>2. Position = gs /\ Position' = Position /\ gs \in Steps  BY <1>0, <2>1 DEF Position, TypeOK
  <2>3. Position > 0  BY <2>2 DEF Steps
  <2>4. TrackedContent' = Promise!Unreadable
    BY <2>1 DEF TrackedContent, Torn, Missing, Promise!Unreadable, Promise!Stuck
  <2>. QED  BY <2>1, <2>2, <2>3, <2>4 DEF Promise!Rewrite
<1>5. ASSUME CommitTracker  PROVE Promise!Commit
  <2>1. pc = "track" /\ pc' = "prune" /\ tracker' = gs /\ UNCHANGED <<gs, run, data>>
    BY <1>5 DEF CommitTracker
  <2>2. gs \in Steps /\ tracker = Torn /\ data[gs].by = run
    BY <1>0, <2>1 DEF IInv, TypeOK, StepInv, SavedInv
  <2>3. Position = gs /\ Position' = Position /\ Position > 0  BY <2>1, <2>2 DEF Position, Steps
  <2>4. TrackedContent = Promise!Unreadable
    BY <2>2 DEF TrackedContent, Torn, Missing, Promise!Unreadable, Promise!Stuck
  <2>5. PartsOf(gs)' = {run}
    BY <1>0, <2>1, <2>2 DEF PartsOf, TrackedRestorable, Consistent
  <2>6. TrackedContent' = Promise!Content(Position, run)
    <3>1. gs # Missing /\ gs # Torn  BY <2>2 DEF Steps, Missing, Torn
    <3>. QED  BY <2>1, <2>3, <2>5, <3>1 DEF TrackedContent, Promise!Content
  <2>. QED  BY <2>1, <2>3, <2>4, <2>6 DEF Promise!Commit
<1>6. ASSUME NEW s \in Steps, PruneData(s)  PROVE UNCHANGED Promise!promiseVars
  <2>1. UNCHANGED <<tracker, pc, gs, run>> /\ s # tracker
        /\ \E f : data' = [data EXCEPT ![s] = f]
    BY <1>6 DEF PruneData, IInv, TodoInv, StepInv
  <2>2. tracker \in Steps => data'[tracker] = data[tracker]  BY <1>0, <2>1 DEF TypeOK
  <2>3. TrackedContent' = TrackedContent  BY <1>0, <2>1, <2>2, ContentFrame
  <2>. QED  BY <2>1, <2>3 DEF Position
<1>7. ASSUME Crash  PROVE Promise!Die
  <2>1. UNCHANGED <<data, tracker, run>> /\ pc \notin {"down", "stuck"} /\ pc' = "down"
    BY <1>7 DEF Crash
  <2>2. TrackedContent' = TrackedContent  BY <1>0, <2>1, ContentFrame
  <2>3. gs \in 0 .. MaxStep /\ MaxStep \in Nat  BY <1>0, CheckpointAssumption DEF TypeOK, CheckpointAssumption
  <2>4. Position # Promise!Down /\ Position' = Promise!Down  BY <2>1, <2>3 DEF Position, Promise!Down
  <2>. QED  BY <2>1, <2>2, <2>4 DEF Promise!Die
<1>8. ASSUME Start  PROVE Promise!Resume
  <2>1. /\ pc = "down" /\ run < MaxRuns /\ run' = run + 1 /\ UNCHANGED <<store, data, tracker>>
        /\ \/ tracker = Missing /\ gs' = 0 /\ pc' = "train"
           \/ tracker \in Steps /\ gs' = tracker /\ pc' = "train"
           \/ tracker \in Steps /\ (\E b \in BOOLEAN : ~Loadable(tracker, b)) /\ pc' = "stuck"
           \/ tracker = Torn /\ pc' = "stuck"
    BY <1>8 DEF Start, disk, ResumeChoices
  <2>2. TrackedContent' = TrackedContent  BY <1>0, <2>1, ContentFrame
  <2>3. Position = Promise!Down  BY <2>1 DEF Position, Promise!Down
  <2>4. tracker \in Steps => \A b \in BOOLEAN : Loadable(tracker, b)
    BY <1>0 DEF TrackedRestorable, Consistent, Loadable
  <2>5. Position' = TrackedContent.step
    <3>1. CASE tracker = Missing
      BY <2>1, <3>1 DEF Position, TrackedContent, Missing, Torn, Steps
    <3>2. CASE tracker = Torn
      BY <2>1, <3>2 DEF Position, TrackedContent, Missing, Torn, Steps
    <3>3. CASE tracker \in Steps
      <4>1. pc' = "train" /\ gs' = tracker /\ tracker # Missing /\ tracker # Torn
        BY <2>1, <2>4, <3>3 DEF Missing, Torn, Steps
      <4>. QED  BY <4>1 DEF Position, TrackedContent
    <3>. QED  BY <1>0, <3>1, <3>2, <3>3 DEF TypeOK
  <2>. QED  BY <2>1, <2>2, <2>3, <2>5 DEF Promise!Resume
<1>. QED
  BY <1>1, <1>2, <1>3, <1>4, <1>5, <1>6, <1>7, <1>8 DEF Next, Promise!PromiseNext

\* In resume mode "auto" and with any retention limit but 1, the directory is
\* one durable register to a restart: commits alone change what it finds, each
\* replaces it at once by files of one run, and training resumes there
\* (_save_checkpoint, register_checkpoint, _load_checkpoint).
THEOREM ImplementsPromiseCorrect ==
  ASSUME ~ResumePath, Keep # 1
  PROVE  Spec => ImplementsPromise
<1>1. Init => Promise!PromiseInit
  <2>. SUFFICES ASSUME Init  PROVE Promise!PromiseInit
    OBVIOUS
  <2>1. tracker = Missing /\ tracker # Torn /\ pc = "down" /\ run = 0  BY DEF Init, Missing, Torn
  <2>2. TrackedContent = Promise!Nothing  BY <2>1 DEF TrackedContent, Promise!Nothing
  <2>3. Position = Promise!Down  BY <2>1 DEF Position, Promise!Down
  <2>. QED  BY <2>1, <2>2, <2>3 DEF Promise!PromiseInit
<1>2. IInv /\ TypeOK' /\ [Next]_vars => IInv'  BY IInvStep, CheckpointAssumption
<1>3. IInv /\ IInv' /\ [Next]_vars => [Promise!PromiseNext]_(Promise!promiseVars)
  BY PromiseStep, CheckpointAssumption
<1>. QED  BY IInvInit, TypeCorrect, <1>1, <1>2, <1>3, PTL DEF Spec, ImplementsPromise, Promise!PromiseSpec

-----------------------------------------------------------------------------
(* Whole shards disappear only for a reason.                                 *)

\* Pruning removes whole shards only when HF weights are there afterwards.
LEMMA PruneNeedsHF ==
  ASSUME NEW d \in RoleDir, NEW mayFail, NEW e \in EnsureHFThenPrune(d, mayFail),
         d.shards = "whole", e.shards # "whole"
  PROVE  e.hf # "absent"
<1>1. ASSUME NEW x \in RoleDir, NEW y \in PrunedShards(x, mayFail)  PROVE y.hf = x.hf
  BY <1>1 DEF PrunedShards, RoleDir
<1>2. ASSUME NEW m \in MergeResults(d, mayFail)
      PROVE  m \in RoleDir /\ m.shards = "whole"
  <2>1. d.by \in 0 .. MaxRuns  BY DEF RoleDir
  <2>2. MergeResults(d, mayFail) \subseteq
          {d, [d EXCEPT !.hf = "whole", !.hfBy = d.by],
              [[d EXCEPT !.hf = "whole", !.hfBy = d.by] EXCEPT !.hf = "torn"]}
    BY DEF MergeResults
  <2>. QED  BY <2>1, <2>2 DEF RoleDir, FileState
<1>3. CASE d.hfdir /\ HFWeightsExist(d)
  BY <1>1, <1>3 DEF EnsureHFThenPrune, HFWeightsExist
<1>4. CASE ~(d.hfdir /\ HFWeightsExist(d)) /\ d.hfdir
  <2>1. PICK m \in MergeResults(d, mayFail) :
          \/ m.hf # "whole" /\ e = m
          \/ m.hf = "whole" /\ e \in PrunedShards(m, mayFail)
    <3>. DEFINE merged == MergeResults(d, mayFail)
    <3>1. e \in {m \in merged : m.hf # "whole"}
                  \cup UNION {PrunedShards(m, mayFail) : m \in {x \in merged : x.hf = "whole"}}
      BY <1>4 DEF EnsureHFThenPrune
    <3>. HIDE DEF merged
    <3>2. \E m \in merged : \/ m.hf # "whole" /\ e = m
                            \/ m.hf = "whole" /\ e \in PrunedShards(m, mayFail)
      <4>1. CASE e \in {m \in merged : m.hf # "whole"}  BY <4>1
      <4>2. CASE e \in UNION {PrunedShards(m, mayFail) : m \in {x \in merged : x.hf = "whole"}}
        <5>1. PICK P \in {PrunedShards(m, mayFail) : m \in {x \in merged : x.hf = "whole"}} : e \in P
          BY <4>2
        <5>2. PICK m \in merged : m.hf = "whole" /\ P = PrunedShards(m, mayFail)  BY <5>1
        <5>. QED  BY <5>1, <5>2
      <4>. QED  BY <3>1, <4>1, <4>2
    <3>. QED  BY <3>2 DEF merged
  <2>. QED  BY <1>1, <1>2, <2>1
<1>. QED  BY <1>3, <1>4 DEF EnsureHFThenPrune

\* The reasons of ShardsDropOnlyWithHF, of one step.
DropAllowed(s, r) ==
  store[s][r].shards = "whole" /\ store'[s][r].shards # "whole" =>
    \/ store'[s][r].hf # "absent"
    \/ pc \in {"open", "register"} /\ s \in SetOf(managed[r]) /\ s \notin SetOf(managed'[r])
    \/ pc = "open" /\ s = gs

LEMMA DropStep ==
  ASSUME CheckpointAssumption, TypeOK, [Next]_vars, NEW s \in Steps, NEW r \in Roles
  PROVE  DropAllowed(s, r)
<1>. DEFINE q == RoleOrder[role]
<1>1. q \in Roles /\ store[s][r] \in RoleDir /\ managed[r] \in Seq(Steps)
  BY RoleInRoles DEF TypeOK
<1>2. ASSUME NEW t \in Steps, NEW p \in Roles, NEW d, store' = SetDir(store, t, p, d)
      PROVE  /\ t = s /\ p = r => store'[s][r] = d
             /\ ~(t = s /\ p = r) => store'[s][r] = store[s][r]
  BY <1>2 DEF SetDir, TypeOK
<1>3. CASE UNCHANGED store  BY <1>3 DEF DropAllowed
<1>a. ASSUME pc \in {"open", "register"}, s \in Rotated, r = q,
             managed'[q] = (IF pc = "open" THEN KeepLast(managed[q], CapacityBeforeSave(q))
                            ELSE KeepLast(Append(managed[q], gs), CapacityAfterSave(q)))
               \/ managed'[q] = <<>>
      PROVE  s \in SetOf(managed[r]) /\ s \notin SetOf(managed'[r])
  <2>1. gs \in Steps /\ managed[q] \in Seq(Steps)  BY <1>1, <1>a DEF TypeOK, SavePCs
  <2>2. SetOf(<<>>) = {}  BY DEF SetOf
  <2>3. CASE pc = "open"  BY <1>a, <2>2, <2>3 DEF Rotated, Dropped
  <2>4. CASE pc = "register"
    <3>. DEFINE all == Append(managed[q], gs)
                n == CapacityAfterSave(q)
    <3>1. s \in Dropped(all, n)  BY <1>a, <2>4 DEF Rotated
    <3>2. s \in SetOf(all) /\ s \notin SetOf(managed'[r])  BY <1>a, <2>2, <2>4, <3>1 DEF Dropped
    <3>3. gs \notin Dropped(all, n)
      <4>1. n \in Nat \ {0}  BY <1>1, CapacityKeepsLast
      <4>2. /\ all \in Seq(Steps) /\ Len(all) = Len(managed[q]) + 1 /\ all[Len(all)] = gs
            /\ Len(managed[q]) \in Nat
        BY <2>1, AppendProperties, LenProperties
      <4>3. Len(all) \in 1 .. Len(all) /\ Len(all) > Len(all) - n  BY <4>1, <4>2
      <4>. HIDE DEF all, n
      <4>4. all[Len(all)] \notin Dropped(all, n)  BY <4>1, <4>2, <4>3, LastOnesNotDropped
      <4>. QED  BY <4>2, <4>4 DEF all, n
    <3>4. SetOf(all) \subseteq SetOf(managed[q]) \cup {gs}
      BY <2>1, AppendProperties, LenProperties DEF SetOf
    <3>. QED  BY <1>a, <3>1, <3>2, <3>3, <3>4
  <2>. QED  BY <1>a, <2>3, <2>4
<1>4. CASE OpenRole
  <2>. DEFINE e == [store[gs][q] EXCEPT !.shards = Overwritten(@), !.by = run, !.dropped = FALSE]
  <2>1. pc = "open" /\ gs \in Steps  BY <1>4 DEF OpenRole, TypeOK, SavePCs
  <2>2. managed'[q] = KeepLast(managed[q], CapacityBeforeSave(q))  BY <1>1, <1>4 DEF OpenRole, TypeOK
  <2>3. PICK st \in RemoveRoleDirs(store, Rotated, q, FilesMayFail) : store' = SetDir(st, gs, q, e)
    BY <1>4 DEF OpenRole
  <2>. HIDE DEF e
  <2>4. st \in Stores
    <3>1. store \in Stores  BY DEF Stores, TypeOK
    <3>. QED  BY <1>1, <3>1, Removal
  <2>5. s # gs => store'[s][r] = st[s][r]  BY <2>1, <2>3, <2>4 DEF SetDir, Stores
  <2>6. CASE s # gs /\ r = q /\ s \in Rotated  BY <1>a, <2>1, <2>2, <2>6 DEF DropAllowed
  <2>7. CASE s # gs /\ (r # q \/ s \notin Rotated)
    <3>1. st[s][r] = store[s][r]  BY <1>1, <2>7, EvictionFrame
    <3>. QED  BY <2>5, <2>7, <3>1 DEF DropAllowed
  <2>8. CASE s = gs  BY <2>1, <2>8 DEF DropAllowed
  <2>. QED  BY <2>6, <2>7, <2>8
<1>5. CASE Register
  <2>1. /\ pc = "register" /\ store' \in RemoveRoleDirs(store, Rotated, q, FilesMayFail)
        /\ managed'[q] = KeepLast(Append(managed[q], gs), CapacityAfterSave(q))
    BY <1>1, <1>5 DEF Register, TypeOK
  <2>2. CASE r = q /\ s \in Rotated  BY <1>a, <2>1, <2>2 DEF DropAllowed
  <2>3. CASE r # q \/ s \notin Rotated
    <3>1. store'[s][r] = store[s][r]  BY <1>1, <2>1, <2>3, EvictionFrame
    <3>. QED  BY <3>1 DEF DropAllowed
  <2>. QED  BY <2>2, <2>3
<1>6. CASE FinishShards \/ WriteConfig \/ ShardsBarrier \/ FinishHF
  <2>1. gs \in Steps  BY <1>6 DEF FinishShards, WriteConfig, ShardsBarrier, FinishHF, TypeOK, SavePCs
  <2>2. store[gs][q] \in RoleDir  BY <1>1, <2>1 DEF TypeOK
  <2>3. UNCHANGED store \/ \E d : /\ store' = SetDir(store, gs, q, d)
                                  /\ d.shards = store[gs][q].shards \/ d.shards = "whole"
    <3>1. CASE FinishShards  BY <2>2, <3>1 DEF FinishShards, RoleDir
    <3>2. CASE WriteConfig  BY <2>2, <3>2 DEF WriteConfig, RoleDir
    <3>3. CASE ShardsBarrier
      <4>1. [store[gs][q] EXCEPT !.hf = "torn", !.hfBy = run].shards = store[gs][q].shards
        BY <2>2 DEF RoleDir
      <4>. QED  BY <3>3, <4>1 DEF ShardsBarrier
    <3>4. CASE FinishHF
      <4>1. [store[gs][q] EXCEPT !.hf = "whole"].shards = store[gs][q].shards  BY <2>2 DEF RoleDir
      <4>. QED  BY <3>4, <4>1 DEF FinishHF
    <3>. QED  BY <1>6, <3>1, <3>2, <3>3, <3>4
  <2>. QED  BY <1>1, <1>2, <1>3, <2>1, <2>3 DEF DropAllowed
<1>7. ASSUME NEW t \in Steps, NEW p \in Roles, NEW mayFail,
             NEW d \in EnsureHFThenPrune(store[t][p], mayFail), store' = SetDir(store, t, p, d)
      PROVE  DropAllowed(s, r)
  <2>1. CASE t = s /\ p = r
    <3>1. store'[s][r] = d  BY <1>2, <1>7, <2>1
    <3>. QED  BY <1>1, <1>7, <2>1, <3>1, PruneNeedsHF DEF DropAllowed
  <2>2. CASE ~(t = s /\ p = r)
    <3>1. store'[s][r] = store[s][r]  BY <1>2, <1>7, <2>2
    <3>. QED  BY <3>1 DEF DropAllowed
  <2>. QED  BY <2>1, <2>2
<1>8. ASSUME NEW t \in Steps, NEW p \in Roles, PruneRole(t, p)  PROVE DropAllowed(s, r)
  BY <1>7, <1>8 DEF PruneRole
<1>9. CASE Crash
  <2>1. CASE store' \in RemoveRoleDirs(store, Rotated, q, TRUE)
    <3>1. managed'[q] = <<>>  BY <1>1, <1>9 DEF Crash
    <3>2. CASE r = q /\ s \in Rotated
      <4>1. pc \in {"open", "register"}  BY <3>2 DEF Rotated
      <4>. QED  BY <1>a, <3>1, <3>2, <4>1 DEF DropAllowed
    <3>3. CASE r # q \/ s \notin Rotated
      <4>1. PICK b : store' \in RemoveRoleDirs(store, Rotated, q, b)  BY <2>1
      <4>2. store'[s][r] = store[s][r]  BY <1>1, <3>3, <4>1, EvictionFrame
      <4>. QED  BY <4>2 DEF DropAllowed
    <3>. QED  BY <3>2, <3>3
  <2>. QED  BY <1>3, <1>7, <1>9, <2>1 DEF Crash
<1>10. ASSUME \/ \E t \in Steps : SaveBegin(t) \/ PruneData(t)
              \/ FinishData \/ CommitTracker \/ PruneDone \/ Start \/ UNCHANGED vars
       PROVE  UNCHANGED store
  BY <1>10 DEF SaveBegin, PruneData, FinishData, CommitTracker, PruneDone, Start, disk, vars
<1>. QED  BY <1>3, <1>4, <1>5, <1>6, <1>8, <1>9, <1>10 DEF Next

\* Whatever the limits, the resume mode and the failures, a whole set of shards
\* disappears only when HF weights are there, a rotation drops it, or
\* a save overwrites that very step (_ensure_hf_then_prune_shards).
THEOREM ShardsDropOnlyWithHFCorrect == Spec => ShardsDropOnlyWithHF
<1>1. TypeOK /\ [Next]_vars =>
        [\A s \in Steps, r \in Roles : DropAllowed(s, r)]_vars
  BY DropStep, CheckpointAssumption
<1>2. [\A s \in Steps, r \in Roles : DropAllowed(s, r)]_vars =>
        [\A s \in Steps, r \in Roles :
           store[s][r].shards = "whole" /\ store'[s][r].shards # "whole" =>
             \/ store'[s][r].hf # "absent"
             \/ pc \in {"open", "register"} /\ s \in SetOf(managed[r]) /\ s \notin SetOf(managed'[r])
             \/ pc = "open" /\ s = gs]_vars
  BY DEF DropAllowed
<1>. QED  BY TypeCorrect, <1>1, <1>2, PTL DEF Spec, ShardsDropOnlyWithHF

-----------------------------------------------------------------------------
(* Retention: no more directories of this run than the limit, but for those  *)
(* whose removal failed.                                                     *)

\* Directory d holds files that run n wrote.
OfRun(d, n) == n \in {d.by, d.hfBy}

\* The role directory being saved that is not listed yet.
InHand(s, r) == pc \in {"shards", "hf", "register"} /\ s = gs /\ r = RoleOrder[role]

RunsInv   == \A s \in Steps, r \in Roles : store[s][r].by <= run /\ store[s][r].hfBy <= run
LiveInv   == pc \notin {"down", "stuck"} => run > 0
LimitInv  == Keep > 0 => \A r \in Roles : Len(managed[r]) <= Keep
\* Every directory this run wrote is in the list of its role or in hand, or one
\* that could not be removed.
ListedInv == pc \notin {"down", "stuck"} =>
  \A s \in Steps, r \in Roles :
    /\ InHand(s, r) => ~store[s][r].dropped
    /\ OfRun(store[s][r], run) =>
         IF store[s][r].dropped THEN FilesMayFail ELSE s \in SetOf(managed[r]) \/ InHand(s, r)

RInv == TypeOK /\ RunsInv /\ LiveInv /\ LimitInv /\ ListedInv

\* A list has at least as many places as it has paths.
LEMMA SetOfSize ==
  ASSUME NEW S, NEW seq \in Seq(S)
  PROVE  IsFiniteSet(SetOf(seq)) /\ Cardinality(SetOf(seq)) <= Len(seq)
<1>1. Len(seq) \in Nat /\ DOMAIN seq = 1 .. Len(seq) /\ seq \in [1 .. Len(seq) -> S]
  BY LenProperties
<1>2. seq \in Surjection(1 .. Len(seq), SetOf(seq))
  BY <1>1 DEF Surjection, SetOf
<1>3. IsFiniteSet(1 .. Len(seq))  BY <1>1, FS_Interval
<1>4. IsFiniteSet(SetOf(seq))  BY <1>2, <1>3, FS_Surjection
<1>5. Cardinality(SetOf(seq)) <= Len(seq)
  BY <1>1, <1>2, FS_SurjCardinalityBound DEF ExistsSurjection
<1>. QED  BY <1>4, <1>5

LEMMA KeepLastLen ==
  ASSUME NEW S, NEW seq \in Seq(S), NEW n \in Nat
  PROVE  /\ Len(KeepLast(seq, n)) \in Nat
         /\ Len(KeepLast(seq, n)) <= Len(seq) /\ Len(KeepLast(seq, n)) <= n
<1>1. CASE Len(seq) > n
  <2>1. Len(seq) - n + 1 \in 1 .. Len(seq) + 1 /\ Len(seq) \in Nat  BY <1>1
  <2>2. Len(SubSeq(seq, Len(seq) - n + 1, Len(seq))) = n  BY <1>1, <2>1, SubSeqProperties
  <2>. QED  BY <1>1, <2>1, <2>2 DEF KeepLast
<1>2. CASE ~(Len(seq) > n)
  <2>1. Len(seq) \in Nat  BY LenProperties
  <2>. QED  BY <1>2, <2>1 DEF KeepLast
<1>. QED  BY <1>1, <1>2

\* Pruning never makes a directory one of a later run.
NoNewer(e, d) == e.by \in {d.by, 0} /\ e.hfBy \in {d.hfBy, d.by, 0} /\ e.dropped = d.dropped

LEMMA PruneNoNewer ==
  ASSUME NEW d \in RoleDir, NEW mayFail, NEW e \in EnsureHFThenPrune(d, mayFail)
  PROVE  NoNewer(e, d)
<1>1. ASSUME NEW x \in RoleDir, NEW y \in PrunedShards(x, mayFail)
      PROVE  y.by \in {x.by, 0} /\ y.hfBy = x.hfBy /\ y.dropped = x.dropped
  BY <1>1 DEF PrunedShards, RoleDir
<1>2. ASSUME NEW m \in MergeResults(d, mayFail)
      PROVE  m \in RoleDir /\ m.by = d.by /\ m.hfBy \in {d.hfBy, d.by, 0} /\ m.dropped = d.dropped
  <2>. DEFINE by == IF d.shards = "whole" THEN d.by ELSE 0
  <2>1. by \in 0 .. MaxRuns /\ by \in {d.by, 0}
    BY CheckpointAssumption DEF RoleDir, CheckpointAssumption
  <2>2. m \in {d, [d EXCEPT !.hf = "whole", !.hfBy = by],
                  [[d EXCEPT !.hf = "whole", !.hfBy = by] EXCEPT !.hf = "torn"]}
    BY DEF MergeResults
  <2>. HIDE DEF by
  <2>. QED  BY <2>1, <2>2 DEF RoleDir, FileState
<1>3. CASE d.hfdir /\ HFWeightsExist(d)
  BY <1>1, <1>3 DEF EnsureHFThenPrune, NoNewer
<1>4. CASE ~(d.hfdir /\ HFWeightsExist(d)) /\ d.hfdir /\ d.shards # "absent"
  <2>. DEFINE merged == MergeResults(d, mayFail)
  <2>1. e \in {m \in merged : m.hf # "whole"}
                \cup UNION {PrunedShards(m, mayFail) : m \in {x \in merged : x.hf = "whole"}}
    BY <1>4 DEF EnsureHFThenPrune
  <2>. HIDE DEF merged
  <2>2. CASE e \in merged  BY <1>2, <2>2 DEF NoNewer, merged
  <2>3. CASE e \in UNION {PrunedShards(m, mayFail) : m \in {x \in merged : x.hf = "whole"}}
    <3>1. PICK P \in {PrunedShards(m, mayFail) : m \in {x \in merged : x.hf = "whole"}} : e \in P
      BY <2>3
    <3>2. PICK m \in merged : P = PrunedShards(m, mayFail)  BY <3>1
    <3>. QED  BY <1>1, <1>2, <3>1, <3>2 DEF NoNewer, merged
  <2>. QED  BY <2>1, <2>2, <2>3
<1>. QED  BY <1>3, <1>4 DEF EnsureHFThenPrune, NoNewer

\* Directory e is what a removal of d leaves.
Removed(e, d) ==
  /\ e.by \in {d.by, 0} /\ e.hfBy \in {d.hfBy, 0}
  /\ e.dropped \/ (e.by = 0 /\ e.hfBy = 0)

LEMMA RemovedDir ==
  ASSUME TypeOK, NEW q \in Roles, NEW mayFail, NEW st \in RemoveRoleDirs(store, Rotated, q, mayFail),
         NEW s \in Steps, s \in Rotated
  PROVE  Removed(st[s][q], store[s][q]) /\ (st[s][q].dropped => mayFail)
<1>1. store \in Stores /\ store[s][q] \in RoleDir  BY DEF Stores, TypeOK
<1>2. st[s][q] \in Leftovers(store[s][q], mayFail)  BY <1>1, Removal
<1>. QED  BY <1>1, <1>2, LeftoverProperties DEF NoRoleDir, Removed

\* A step that leaves lists and run alone and makes no directory newer.
LEMMA RetentionFrame ==
  ASSUME RInv, TypeOK', UNCHANGED <<managed, run>>,
         \A s \in Steps, r \in Roles : NoNewer(store'[s][r], store[s][r]),
         pc \notin {"down", "stuck"},
         \/ pc' = pc /\ UNCHANGED <<gs, role>>
         \/ pc \notin {"shards", "hf", "register"} /\ pc' \notin {"shards", "hf", "register"}
  PROVE  RInv'
<1>. USE DEF RInv
<1>1. run \in Nat /\ run > 0  BY DEF TypeOK, LiveInv
<1>2. ASSUME NEW s \in Steps, NEW r \in Roles
      PROVE  /\ store'[s][r].by <= run /\ store'[s][r].hfBy <= run
             /\ OfRun(store'[s][r], run) => OfRun(store[s][r], run)
             /\ store'[s][r].dropped = store[s][r].dropped
  <2>1. NoNewer(store'[s][r], store[s][r])  OBVIOUS
  <2>2. store[s][r].by <= run /\ store[s][r].hfBy <= run  BY DEF RunsInv
  <2>. QED  BY <1>1, <2>1, <2>2 DEF NoNewer, OfRun
<1>3. RunsInv'  BY <1>2 DEF RunsInv
<1>4. LiveInv' /\ LimitInv'  BY <1>1 DEF LiveInv, LimitInv
<1>5. ListedInv'
  <2>. SUFFICES ASSUME pc' \notin {"down", "stuck"}, NEW s \in Steps, NEW r \in Roles
                PROVE  /\ InHand(s, r)' => ~store'[s][r].dropped
                       /\ OfRun(store'[s][r], run) =>
                            IF store'[s][r].dropped THEN FilesMayFail
                            ELSE s \in SetOf(managed[r]) \/ InHand(s, r)'
    BY DEF ListedInv
  <2>1. InHand(s, r)' = InHand(s, r)  BY DEF InHand
  <2>. QED  BY <1>2, <2>1 DEF ListedInv
<1>. QED  BY <1>3, <1>4, <1>5

LEMMA RetentionStep ==
  ASSUME CheckpointAssumption, RInv, TypeOK', [Next]_vars
  PROVE  RInv'
<1>. USE DEF RInv
<1>. DEFINE q == RoleOrder[role]
<1>1. /\ q \in Roles /\ run \in Nat
      /\ \A r \in Roles : managed[r] \in Seq(Steps)
      /\ \A s \in Steps, r \in Roles : store[s][r] \in RoleDir
  BY RoleInRoles DEF TypeOK
<1>2. ASSUME NEW t \in Steps, NEW p \in Roles, NEW d, store' = SetDir(store, t, p, d)
      PROVE  /\ store'[t][p] = d
             /\ \A s \in Steps, r \in Roles : t # s \/ p # r => store'[s][r] = store[s][r]
  BY <1>2 DEF SetDir, TypeOK
<1>3. ASSUME UNCHANGED store, NEW s \in Steps, NEW r \in Roles
      PROVE  NoNewer(store'[s][r], store[s][r])
  BY <1>3 DEF NoNewer
<1>4. ASSUME NEW t \in Steps, NEW p \in Roles, NEW mayFail,
             NEW d \in EnsureHFThenPrune(store[t][p], mayFail), store' = SetDir(store, t, p, d),
             NEW s \in Steps, NEW r \in Roles
      PROVE  NoNewer(store'[s][r], store[s][r])
  <2>1. CASE s = t /\ r = p
    <3>1. store'[s][r] = d  BY <1>2, <1>4, <2>1
    <3>. QED  BY <1>1, <1>4, <2>1, <3>1, PruneNoNewer
  <2>2. CASE ~(s = t /\ r = p)
    <3>1. store'[s][r] = store[s][r]  BY <1>2, <1>4, <2>2
    <3>. QED  BY <3>1 DEF NoNewer
  <2>. QED  BY <2>1, <2>2
<1>5. CASE OpenRole
  <2>. DEFINE n == CapacityBeforeSave(q)
              e == [store[gs][q] EXCEPT !.shards = Overwritten(@), !.by = run, !.dropped = FALSE]
  <2>1. /\ pc = "open" /\ pc' = "shards" /\ gs \in Steps /\ run > 0 /\ UNCHANGED <<gs, role, run>>
        /\ managed' = [managed EXCEPT ![q] = KeepLast(managed[q], n)]
    BY <1>5 DEF OpenRole, LiveInv, TypeOK, SavePCs
  <2>2. PICK st \in RemoveRoleDirs(store, Rotated, q, FilesMayFail) : store' = SetDir(st, gs, q, e)
    BY <1>5 DEF OpenRole
  <2>3. e.by = run /\ e.hfBy = store[gs][q].hfBy /\ ~e.dropped  BY <1>1, <2>1 DEF RoleDir
  <2>. HIDE DEF e
  <2>a. /\ store'[gs][q] = e
        /\ \A s \in Steps, r \in Roles : s # gs \/ r # q => store'[s][r] = st[s][r]
    <3>0. store \in Stores  BY DEF Stores, TypeOK
    <3>1. st \in Stores  BY <1>1, <3>0, Removal
    <3>. QED  BY <1>1, <2>1, <2>2, <3>1 DEF SetDir, Stores
  <2>4. ASSUME NEW s \in Steps, NEW r \in Roles
        PROVE  \/ /\ s = gs /\ r = q /\ store'[s][r].by = run /\ store'[s][r].hfBy = store[s][r].hfBy
                  /\ ~store'[s][r].dropped
               \/ /\ ~(s = gs /\ r = q) /\ r = q /\ s \in Rotated
                  /\ Removed(store'[s][r], store[s][r]) /\ (store'[s][r].dropped => FilesMayFail)
               \/ ~(s = gs /\ r = q) /\ (r # q \/ s \notin Rotated) /\ store'[s][r] = store[s][r]
    <3>1. CASE s = gs /\ r = q  BY <2>a, <2>3, <3>1
    <3>2. CASE ~(s = gs /\ r = q) /\ r = q /\ s \in Rotated
      BY <1>1, <2>a, <3>2, RemovedDir
    <3>3. CASE ~(s = gs /\ r = q) /\ (r # q \/ s \notin Rotated)
      <4>1. store'[s][r] = store[s][r]  BY <1>1, <2>a, <3>3, EvictionFrame
      <4>. QED  BY <3>3, <4>1
    <3>. QED  BY <3>1, <3>2, <3>3
  <2>5. /\ managed'[q] = KeepLast(managed[q], n)
        /\ \A r \in Roles : r # q => managed'[r] = managed[r]
    BY <1>1, <2>1 DEF TypeOK
  <2>6. RunsInv'
    <3>1. ASSUME NEW s \in Steps, NEW r \in Roles
          PROVE  store'[s][r].by <= run /\ store'[s][r].hfBy <= run
      <4>1. store[s][r].by <= run /\ store[s][r].hfBy <= run  BY DEF RunsInv
      <4>. QED  BY <1>1, <2>1, <2>4, <4>1 DEF Removed
    <3>. QED  BY <2>1, <3>1 DEF RunsInv
  <2>7. LimitInv'
    <3>1. n \in Nat  BY <1>1, CapacityType
    <3>2. Len(managed'[q]) <= Len(managed[q]) /\ Len(managed'[q]) \in Nat
      BY <1>1, <2>5, <3>1, KeepLastLen
    <3>3. Len(managed[q]) \in Nat /\ Keep \in Nat  BY <1>1 DEF CheckpointAssumption
    <3>. HIDE DEF q
    <3>. QED  BY <1>1, <2>5, <3>2, <3>3 DEF LimitInv
  <2>8. ListedInv'
    <3>. SUFFICES ASSUME NEW s \in Steps, NEW r \in Roles
                  PROVE  /\ InHand(s, r)' => ~store'[s][r].dropped
                         /\ OfRun(store'[s][r], run) =>
                              IF store'[s][r].dropped THEN FilesMayFail
                              ELSE s \in SetOf(managed'[r]) \/ InHand(s, r)'
      BY <2>1 DEF ListedInv
    <3>1. InHand(s, r)' <=> s = gs /\ r = q  BY <2>1 DEF InHand
    <3>2. CASE s = gs /\ r = q  BY <2>4, <3>1, <3>2
    <3>3. CASE /\ ~(s = gs /\ r = q) /\ r = q /\ s \in Rotated
               /\ Removed(store'[s][r], store[s][r]) /\ (store'[s][r].dropped => FilesMayFail)
      BY <2>1, <3>1, <3>3 DEF OfRun, Removed
    <3>4. CASE (r # q \/ s \notin Rotated) /\ store'[s][r] = store[s][r] /\ ~(s = gs /\ r = q)
      <4>1. OfRun(store[s][r], run) =>
              IF store[s][r].dropped THEN FilesMayFail ELSE s \in SetOf(managed[r])
        BY <2>1 DEF ListedInv, InHand
      <4>2. s \in SetOf(managed[r]) => s \in SetOf(managed'[r])
        BY <2>1, <2>5, <3>4 DEF Dropped, Rotated
      <4>. QED  BY <3>1, <3>4, <4>1, <4>2
    <3>. QED  BY <2>4, <3>2, <3>3, <3>4
  <2>. QED  BY <2>1, <2>6, <2>7, <2>8 DEF LiveInv
<1>6. CASE Register
  <2>. DEFINE all == Append(managed[q], gs)
              n == CapacityAfterSave(q)
  <2>1. /\ pc = "register" /\ pc' \in {"open", "data"} /\ gs \in Steps /\ run > 0 /\ UNCHANGED run
        /\ managed' = [managed EXCEPT ![q] = KeepLast(all, n)]
        /\ store' \in RemoveRoleDirs(store, Rotated, q, FilesMayFail)
        /\ Rotated = Dropped(all, n)
    BY <1>6 DEF Register, LiveInv, TypeOK, SavePCs, Rotated
  <2>2. /\ managed'[q] = KeepLast(all, n)
        /\ \A r \in Roles : r # q => managed'[r] = managed[r]
    BY <1>1, <2>1 DEF TypeOK
  <2>3. /\ all \in Seq(Steps) /\ n \in Nat
        /\ Len(all) = Len(managed[q]) + 1 /\ Len(managed[q]) \in Nat
        /\ SetOf(managed[q]) \cup {gs} \subseteq SetOf(all)
    <3>1. /\ all \in Seq(Steps) /\ Len(all) = Len(managed[q]) + 1 /\ Len(managed[q]) \in Nat
          /\ all[Len(all)] = gs /\ \A i \in 1 .. Len(managed[q]) : all[i] = managed[q][i]
      BY <1>1, <2>1, AppendProperties
    <3>2. DOMAIN all = 1 .. Len(all) /\ DOMAIN managed[q] = 1 .. Len(managed[q])
      BY <1>1, <3>1, LenProperties
    <3>. HIDE DEF all
    <3>3. SetOf(managed[q]) \cup {gs} \subseteq SetOf(all)  BY <3>1, <3>2 DEF SetOf
    <3>. QED  BY <1>1, <3>1, <3>3, CapacityType
  <2>4. ASSUME NEW s \in Steps, NEW r \in Roles
        PROVE  \/ /\ r = q /\ s \in Rotated
                  /\ Removed(store'[s][r], store[s][r]) /\ (store'[s][r].dropped => FilesMayFail)
               \/ (r # q \/ s \notin Rotated) /\ store'[s][r] = store[s][r]
    <3>1. CASE r = q /\ s \in Rotated  BY <1>1, <2>1, <3>1, RemovedDir
    <3>2. CASE r # q \/ s \notin Rotated  BY <1>1, <2>1, <3>2, EvictionFrame
    <3>. QED  BY <3>1, <3>2
  <2>5. RunsInv'
    <3>1. ASSUME NEW s \in Steps, NEW r \in Roles
          PROVE  store'[s][r].by <= run /\ store'[s][r].hfBy <= run
      <4>1. store[s][r].by <= run /\ store[s][r].hfBy <= run  BY DEF RunsInv
      <4>. QED  BY <1>1, <2>1, <2>4, <4>1 DEF Removed
    <3>. QED  BY <2>1, <3>1 DEF RunsInv
  <2>6. LimitInv'
    <3>1. Keep > 0 => n = Keep  BY DEF CapacityAfterSave
    <3>2. Len(managed'[q]) <= n  BY <2>2, <2>3, KeepLastLen
    <3>. HIDE DEF q, n
    <3>. QED  BY <2>2, <3>1, <3>2 DEF LimitInv
  <2>7. ListedInv'
    <3>. SUFFICES ASSUME NEW s \in Steps, NEW r \in Roles
                  PROVE  /\ ~InHand(s, r)'
                         /\ OfRun(store'[s][r], run) =>
                              IF store'[s][r].dropped THEN FilesMayFail ELSE s \in SetOf(managed'[r])
      BY <2>1 DEF ListedInv
    <3>1. ~InHand(s, r)'  BY <2>1 DEF InHand
    <3>2. CASE /\ r = q /\ s \in Rotated
               /\ Removed(store'[s][r], store[s][r]) /\ (store'[s][r].dropped => FilesMayFail)
      BY <2>1, <3>1, <3>2 DEF OfRun, Removed
    <3>3. CASE (r # q \/ s \notin Rotated) /\ store'[s][r] = store[s][r]
      <4>1. OfRun(store[s][r], run) =>
              IF store[s][r].dropped THEN FilesMayFail
              ELSE s \in SetOf(managed[r]) \/ (s = gs /\ r = q)
        BY <2>1 DEF ListedInv, InHand
      <4>2. s \in SetOf(managed[r]) \/ (s = gs /\ r = q) => s \in SetOf(managed'[r])
        BY <2>1, <2>2, <2>3, <3>3 DEF Dropped
      <4>. QED  BY <3>1, <3>3, <4>1, <4>2
    <3>. QED  BY <2>4, <3>2, <3>3
  <2>. QED  BY <2>1, <2>5, <2>6, <2>7 DEF LiveInv
<1>7. CASE FinishShards \/ WriteConfig \/ ShardsBarrier \/ FinishHF
  <2>1. /\ pc \in {"shards", "hf"} /\ pc' \in {"shards", "hf", "register"}
        /\ UNCHANGED <<gs, role, managed, run>> /\ gs \in Steps /\ run > 0
    BY <1>7 DEF FinishShards, WriteConfig, ShardsBarrier, FinishHF, TypeOK, SavePCs, LiveInv
  <2>2. store[gs][q] \in RoleDir  BY <1>1, <2>1
  <2>3. UNCHANGED store \/ \E d : /\ store' = SetDir(store, gs, q, d)
                                  /\ d.by = store[gs][q].by
                                  /\ d.hfBy = store[gs][q].hfBy \/ d.hfBy = run
                                  /\ d.dropped = store[gs][q].dropped
    <3>1. CASE FinishShards
      <4>1. [store[gs][q] EXCEPT !.shards = "whole"].by = store[gs][q].by
            /\ [store[gs][q] EXCEPT !.shards = "whole"].hfBy = store[gs][q].hfBy
            /\ [store[gs][q] EXCEPT !.shards = "whole"].dropped = store[gs][q].dropped
        BY <2>2 DEF RoleDir
      <4>. QED  BY <3>1, <4>1 DEF FinishShards
    <3>2. CASE WriteConfig
      <4>1. [store[gs][q] EXCEPT !.hfdir = TRUE].by = store[gs][q].by
            /\ [store[gs][q] EXCEPT !.hfdir = TRUE].hfBy = store[gs][q].hfBy
            /\ [store[gs][q] EXCEPT !.hfdir = TRUE].dropped = store[gs][q].dropped
        BY <2>2 DEF RoleDir
      <4>. QED  BY <3>2, <4>1 DEF WriteConfig
    <3>3. CASE ShardsBarrier
      <4>1. [store[gs][q] EXCEPT !.hf = "torn", !.hfBy = run].by = store[gs][q].by
            /\ [store[gs][q] EXCEPT !.hf = "torn", !.hfBy = run].hfBy = run
            /\ [store[gs][q] EXCEPT !.hf = "torn", !.hfBy = run].dropped = store[gs][q].dropped
        BY <2>2 DEF RoleDir
      <4>. QED  BY <3>3, <4>1 DEF ShardsBarrier
    <3>4. CASE FinishHF
      <4>1. [store[gs][q] EXCEPT !.hf = "whole"].by = store[gs][q].by
            /\ [store[gs][q] EXCEPT !.hf = "whole"].hfBy = store[gs][q].hfBy
            /\ [store[gs][q] EXCEPT !.hf = "whole"].dropped = store[gs][q].dropped
        BY <2>2 DEF RoleDir
      <4>. QED  BY <3>4, <4>1 DEF FinishHF
    <3>. QED  BY <1>7, <3>1, <3>2, <3>3, <3>4
  <2>4. ASSUME NEW s \in Steps, NEW r \in Roles
        PROVE  \/ store'[s][r] = store[s][r]
               \/ /\ s = gs /\ r = q /\ store'[s][r].by = store[s][r].by
                  /\ store'[s][r].hfBy = store[s][r].hfBy \/ store'[s][r].hfBy = run
                  /\ store'[s][r].dropped = store[s][r].dropped
    BY <1>1, <1>2, <2>1, <2>3
  <2>5. RunsInv'
    <3>1. ASSUME NEW s \in Steps, NEW r \in Roles
          PROVE  store'[s][r].by <= run /\ store'[s][r].hfBy <= run
      <4>1. store[s][r].by <= run /\ store[s][r].hfBy <= run  BY DEF RunsInv
      <4>. QED  BY <1>1, <2>4, <4>1
    <3>. QED  BY <2>1, <3>1 DEF RunsInv
  <2>6. ListedInv'
    <3>. SUFFICES ASSUME NEW s \in Steps, NEW r \in Roles
                  PROVE  /\ InHand(s, r)' => ~store'[s][r].dropped
                         /\ OfRun(store'[s][r], run) =>
                              IF store'[s][r].dropped THEN FilesMayFail
                              ELSE s \in SetOf(managed[r]) \/ InHand(s, r)'
      BY <2>1 DEF ListedInv
    <3>1. CASE s = gs /\ r = q
      <4>1. InHand(s, r) /\ InHand(s, r)'
        BY <1>7, <2>1, <3>1 DEF InHand
      <4>2. ~store'[s][r].dropped  BY <2>1, <2>4, <4>1 DEF ListedInv
      <4>. QED  BY <4>1, <4>2
    <3>2. CASE ~(s = gs /\ r = q)
      <4>1. store'[s][r] = store[s][r]  BY <2>4, <3>2
      <4>. QED  BY <2>1, <3>2, <4>1 DEF ListedInv, InHand
    <3>. QED  BY <3>1, <3>2
  <2>. QED  BY <2>1, <2>5, <2>6 DEF LiveInv, LimitInv
<1>8. ASSUME NEW t \in Steps, NEW p \in Roles, PruneRole(t, p)  PROVE RInv'
  <2>1. \A s \in Steps, r \in Roles : NoNewer(store'[s][r], store[s][r])
    BY <1>4, <1>8 DEF PruneRole
  <2>. QED  BY <1>8, <2>1, RetentionFrame DEF PruneRole
<1>9. CASE Crash
  <2>1. ASSUME NEW s \in Steps, NEW r \in Roles
        PROVE  NoNewer(store'[s][r], store[s][r]) \/ Removed(store'[s][r], store[s][r])
    <3>1. CASE store' \in RemoveRoleDirs(store, Rotated, q, TRUE)
      <4>0. PICK b : store' \in RemoveRoleDirs(store, Rotated, q, b)  BY <3>1
      <4>1. CASE r = q /\ s \in Rotated
        <5>1. Removed(store'[s][q], store[s][q])  BY <1>1, <4>0, <4>1, RemovedDir
        <5>. QED  BY <4>1, <5>1
      <4>2. CASE r # q \/ s \notin Rotated
        BY <1>1, <4>0, <4>2, EvictionFrame DEF NoNewer
      <4>. QED  BY <4>1, <4>2
    <3>. QED  BY <1>3, <1>4, <1>9, <3>1 DEF Crash
  <2>2. pc' = "down" /\ run' = run /\ managed' = [r \in Roles |-> <<>>]  BY <1>9 DEF Crash
  <2>3. RunsInv'
    <3>1. ASSUME NEW s \in Steps, NEW r \in Roles
          PROVE  store'[s][r].by <= run /\ store'[s][r].hfBy <= run
      <4>1. store[s][r].by <= run /\ store[s][r].hfBy <= run  BY DEF RunsInv
      <4>2. NoNewer(store'[s][r], store[s][r]) \/ Removed(store'[s][r], store[s][r])  BY <2>1
      <4>. QED  BY <1>1, <4>1, <4>2 DEF NoNewer, Removed
    <3>. QED  BY <2>2, <3>1 DEF RunsInv
  <2>4. LimitInv'
    <3>1. \A r \in Roles : Len(managed'[r]) = 0  BY <2>2, EmptySeq
    <3>. QED  BY <3>1 DEF LimitInv, CheckpointAssumption
  <2>. QED  BY <2>2, <2>3, <2>4 DEF LiveInv, ListedInv
<1>10. CASE Start
  <2>1. run' = run + 1 /\ UNCHANGED <<store, managed>>  BY <1>10 DEF Start, disk
  <2>2. ASSUME NEW s \in Steps, NEW r \in Roles
        PROVE  store[s][r].by <= run' /\ store[s][r].hfBy <= run' /\ ~OfRun(store[s][r], run')
    <3>1. store[s][r].by <= run /\ store[s][r].hfBy <= run  BY DEF RunsInv
    <3>2. store[s][r].by \in Nat /\ store[s][r].hfBy \in Nat  BY <1>1 DEF RoleDir, CheckpointAssumption
    <3>. QED  BY <1>1, <2>1, <3>1, <3>2 DEF OfRun
  <2>3. RunsInv' /\ ListedInv'
    <3>1. pc' \notin {"shards", "hf", "register"}  BY <1>10 DEF Start
    <3>. QED  BY <2>1, <2>2, <3>1 DEF RunsInv, ListedInv, InHand
  <2>4. LiveInv' /\ LimitInv'  BY <1>1, <2>1 DEF LiveInv, LimitInv
  <2>. QED  BY <2>3, <2>4
<1>11. ASSUME \/ \E t \in Steps : SaveBegin(t) \/ PruneData(t)
              \/ FinishData \/ CommitTracker \/ PruneDone
       PROVE  RInv'
  <2>1. /\ UNCHANGED <<store, managed, run>>
        /\ pc \notin {"down", "stuck", "shards", "hf", "register"}
        /\ pc' \notin {"shards", "hf", "register"}
    BY <1>11 DEF SaveBegin, PruneData, FinishData, CommitTracker, PruneDone, disk
  <2>2. \A s \in Steps, r \in Roles : NoNewer(store'[s][r], store[s][r])  BY <1>3, <2>1
  <2>. QED  BY <2>1, <2>2, RetentionFrame
<1>12. CASE UNCHANGED vars
  BY <1>12 DEF vars, RunsInv, LiveInv, LimitInv, ListedInv, InHand
<1>. QED  BY <1>5, <1>6, <1>7, <1>8, <1>9, <1>10, <1>11, <1>12 DEF Next

\* With any retention limit, resume mode and failures, removals included, a role
\* has once a save is over at most the limit of directories saved by this run
\* besides those that could not be removed, and none of these if none may fail
\* (ensure_checkpoint_capacity, register_checkpoint, rmtree with ignore_errors).
THEOREM RunRetentionCorrect == Spec => []RunRetention
<1>1. Init => RInv
  <2>1. Init => TypeOK  BY IInvInit DEF IInv
  <2>2. Init => RunsInv /\ LiveInv /\ ListedInv
    BY DEF Init, RunsInv, LiveInv, ListedInv, NoRoleDir
  <2>3. Init => LimitInv
    BY EmptySeq, CheckpointAssumption DEF Init, LimitInv, CheckpointAssumption
  <2>. QED  BY <2>1, <2>2, <2>3 DEF RInv
<1>2. RInv /\ TypeOK' /\ [Next]_vars => RInv'  BY RetentionStep, CheckpointAssumption
<1>3. RInv => RunRetention
  <2>. SUFFICES ASSUME RInv, pc = "train", Keep > 0, NEW r \in Roles
                PROVE  LET mine == {s \in Steps : /\ store[s][r] # NoRoleDir
                                                   /\ run \in {store[s][r].by, store[s][r].hfBy}}
                           left == {s \in mine : store[s][r].dropped}
                       IN Cardinality(mine \ left) <= Keep /\ (~FilesMayFail => left = {})
    BY DEF RunRetention
  <2>. DEFINE mine == {s \in Steps : store[s][r] # NoRoleDir /\ run \in {store[s][r].by, store[s][r].hfBy}}
              left == {s \in mine : store[s][r].dropped}
              D == mine \ left
  <2>1. managed[r] \in Seq(Steps)  BY DEF RInv, TypeOK
  <2>2. D \subseteq SetOf(managed[r])  BY DEF RInv, ListedInv, OfRun, InHand
  <2>2a. ~FilesMayFail => left = {}  BY DEF RInv, ListedInv, OfRun
  <2>3. IsFiniteSet(SetOf(managed[r])) /\ Cardinality(SetOf(managed[r])) <= Len(managed[r])
    BY <2>1, SetOfSize
  <2>4. IsFiniteSet(D) /\ Cardinality(D) <= Cardinality(SetOf(managed[r]))  BY <2>2, <2>3, FS_Subset
  <2>5. Len(managed[r]) <= Keep  BY DEF RInv, LimitInv
  <2>6. /\ Cardinality(D) \in Nat /\ Cardinality(SetOf(managed[r])) \in Nat
        /\ Len(managed[r]) \in Nat /\ Keep \in Nat
    BY <2>1, <2>3, <2>4, FS_CardinalityType, LenProperties, CheckpointAssumption DEF CheckpointAssumption
  <2>. HIDE DEF D
  <2>7. Cardinality(D) <= Keep  BY <2>3, <2>4, <2>5, <2>6
  <2>. QED  BY <2>2a, <2>7 DEF D
<1>. QED  BY TypeCorrect, <1>1, <1>2, <1>3, PTL DEF Spec
-----------------------------------------------------------------------------
(* One run without failures leaves one training state.                       *)

\* An exported checkpoint, or nothing; and one the loop can turn into that.
Clean(d) == d = NoRoleDir \/ (d.shards = "absent" /\ d.hf = "whole")
Ready(d) == Clean(d) \/ (d.hfdir /\ d.shards = "whole" /\ d.hf \in {"absent", "whole"})

\* The role directory whose files are being written.
InWork(s, r) == pc \in {"shards", "hf"} /\ s = gs /\ r = RoleOrder[role]

Live == pc \notin {"down", "stuck"}

UnusedInv == run = 0 => /\ pc = "down"
                        /\ \A s \in Steps : /\ data[s] = NoDataFile
                                            /\ \A r \in Roles : store[s][r] = NoRoleDir
ReadyInv  == Live => \A s \in Steps, r \in Roles : Ready(store[s][r]) \/ InWork(s, r)
WorkInv   ==
  LET d == store[gs][RoleOrder[role]] IN
  /\ pc = "shards" => d.hf \in {"absent", "whole"}
  /\ pc = "hf" => d.hfdir /\ d.shards = "whole"
\* What is not yet clean is still in the loop, and after it nothing is left.
PrunedInv ==
  pc \in {"prune", "train"} =>
    \A s \in Steps \ {gs} :
      /\ data[s].state = "absent" \/ (pc = "prune" /\ <<s, "data">> \in todo)
      /\ \A r \in Roles : Clean(store[s][r]) \/ (pc = "prune" /\ <<s, r>> \in todo)

CInv == TypeOK /\ UnusedInv /\ ReadyInv /\ WorkInv /\ PrunedInv

\* Without failures the loop makes every directory it visits clean.
LEMMA PruneCleans ==
  ASSUME NEW d \in RoleDir, Ready(d), NEW e \in EnsureHFThenPrune(d, FALSE)
  PROVE  Clean(e)
<1>1. ASSUME NEW x \in RoleDir, x.hf = "whole", NEW y \in PrunedShards(x, FALSE)  PROVE Clean(y)
  <2>1. y = [x EXCEPT !.shards = "absent", !.by = 0]  BY <1>1 DEF PrunedShards
  <2>. QED  BY <1>1, <2>1 DEF RoleDir, Clean
<1>2. CASE d = NoRoleDir
  <2>1. ~d.hfdir  BY <1>2 DEF NoRoleDir
  <2>. QED  BY <1>2, <2>1 DEF EnsureHFThenPrune, Clean
<1>3. CASE d.hf = "whole"
  <2>1. HFWeightsExist(d)  BY <1>3 DEF HFWeightsExist
  <2>2. CASE d.hfdir  BY <1>1, <1>3, <2>1, <2>2 DEF EnsureHFThenPrune
  <2>3. CASE ~d.hfdir
    <3>1. e = d  BY <2>3 DEF EnsureHFThenPrune
    <3>2. Clean(d)  BY <2>3 DEF Ready
    <3>. QED  BY <3>1, <3>2
  <2>. QED  BY <2>2, <2>3
<1>4. CASE d.hfdir /\ d.shards = "whole" /\ d.hf = "absent"
  <2>. DEFINE m0 == [d EXCEPT !.hf = "whole", !.hfBy = d.by]
  <2>1. MergeResults(d, FALSE) = {m0}  BY <1>4 DEF MergeResults
  <2>2. m0 \in RoleDir /\ m0.hf = "whole"  BY <1>4 DEF RoleDir, FileState
  <2>. HIDE DEF m0
  <2>3. e \in {m \in {m0} : m.hf # "whole"}
                \cup UNION {PrunedShards(m, FALSE) : m \in {x \in {m0} : x.hf = "whole"}}
    BY <1>4, <2>1 DEF EnsureHFThenPrune, HFWeightsExist
  <2>4. e \in PrunedShards(m0, FALSE)  BY <2>2, <2>3
  <2>. QED  BY <1>1, <2>2, <2>4
<1>. QED  BY <1>2, <1>3, <1>4 DEF Ready, Clean

LEMMA CleanStep ==
  ASSUME CheckpointAssumption, ~FilesMayFail, MaxRuns = 1, CInv, TypeOK', [Next]_vars
  PROVE  CInv'
<1>. USE DEF CInv
<1>. DEFINE q == RoleOrder[role]
<1>1. /\ q \in Roles /\ run \in 0 .. 1
      /\ \A s \in Steps, r \in Roles : store[s][r] \in RoleDir
  BY RoleInRoles DEF TypeOK
<1>2. ASSUME NEW t \in Steps, NEW p \in Roles, NEW d, store' = SetDir(store, t, p, d)
      PROVE  /\ store'[t][p] = d
             /\ \A s \in Steps, r \in Roles : t # s \/ p # r => store'[s][r] = store[s][r]
  BY <1>2 DEF SetDir, TypeOK
<1>3. Live => run = 1  BY <1>1 DEF UnusedInv, Live
<1>4. Clean(NoRoleDir)  BY DEF Clean
<1>a. ASSUME NEW st \in RemoveRoleDirs(store, Rotated, q, FilesMayFail), NEW s \in Steps, NEW r \in Roles
      PROVE  st[s][r] \in {store[s][r], NoRoleDir}
  <2>1. store \in Stores  BY DEF Stores, TypeOK
  <2>2. CASE r = q /\ s \in Rotated
    <3>1. st[s][r] \in Leftovers(store[s][r], FilesMayFail)  BY <1>1, <2>1, <2>2, Removal
    <3>. QED  BY <1>1, <3>1, LeftoverProperties
  <2>3. CASE r # q \/ s \notin Rotated  BY <1>1, <2>3, EvictionFrame
  <2>. QED  BY <2>2, <2>3
<1>5. CASE OpenRole
  <2>. DEFINE e == [store[gs][q] EXCEPT !.shards = Overwritten(@), !.by = run, !.dropped = FALSE]
  <2>1. /\ pc = "open" /\ pc' = "shards" /\ gs \in Steps /\ UNCHANGED <<gs, role, run>>
    BY <1>5 DEF OpenRole, TypeOK, SavePCs
  <2>0. PICK st \in RemoveRoleDirs(store, Rotated, q, FilesMayFail) : store' = SetDir(st, gs, q, e)
    BY <1>5 DEF OpenRole
  <2>2. /\ store'[gs][q] = e
        /\ \A s \in Steps, r \in Roles : s # gs \/ r # q => store'[s][r] = st[s][r]
    <3>. HIDE DEF e
    <3>0. store \in Stores  BY DEF Stores, TypeOK
    <3>1. st \in Stores  BY <1>1, <3>0, Removal
    <3>. QED  BY <1>1, <2>0, <2>1, <3>1 DEF SetDir, Stores
  <2>3. \A s \in Steps, r \in Roles : Ready(store[s][r])  BY <2>1 DEF ReadyInv, Live, InWork
  <2>4. e.hf = store[gs][q].hf /\ store[gs][q].hf \in {"absent", "whole"}
    <3>1. NoRoleDir.hf = "absent"  BY DEF NoRoleDir
    <3>2. Ready(store[gs][q])  BY <1>1, <2>1, <2>3
    <3>3. store[gs][q].hf \in {"absent", "whole"}  BY <3>1, <3>2 DEF Ready, Clean
    <3>. QED  BY <1>1, <2>1, <3>3 DEF RoleDir
  <2>5. ASSUME NEW s \in Steps, NEW r \in Roles, ~(s = gs /\ r = q)  PROVE Ready(store'[s][r])
    <3>1. store'[s][r] \in {store[s][r], NoRoleDir}  BY <1>a, <2>2, <2>5
    <3>. QED  BY <1>4, <2>3, <3>1 DEF Ready
  <2>6. ReadyInv'  BY <2>1, <2>5 DEF ReadyInv, InWork
  <2>7. WorkInv'  BY <2>1, <2>2, <2>4 DEF WorkInv
  <2>. QED  BY <1>3, <2>1, <2>6, <2>7 DEF UnusedInv, PrunedInv, Live
<1>6. CASE Register
  <2>1. /\ pc = "register" /\ pc' \in {"open", "data"} /\ UNCHANGED run
        /\ store' \in RemoveRoleDirs(store, Rotated, q, FilesMayFail)
    BY <1>6 DEF Register
  <2>2. ASSUME NEW s \in Steps, NEW r \in Roles  PROVE Ready(store'[s][r])
    <3>1. Ready(store[s][r])  BY <2>1 DEF ReadyInv, Live, InWork
    <3>2. store'[s][r] \in {store[s][r], NoRoleDir}  BY <1>a, <2>1
    <3>. QED  BY <1>4, <3>1, <3>2 DEF Ready
  <2>. QED  BY <1>3, <2>1, <2>2 DEF UnusedInv, ReadyInv, WorkInv, PrunedInv, Live
<1>7. ASSUME FinishShards \/ WriteConfig \/ ShardsBarrier \/ FinishHF  PROVE CInv'
  <2>1. /\ pc \in {"shards", "hf"} /\ pc' \in {"shards", "hf", "register"}
        /\ UNCHANGED <<gs, role, run>> /\ gs \in Steps
    BY <1>7 DEF FinishShards, WriteConfig, ShardsBarrier, FinishHF, TypeOK, SavePCs
  <2>. DEFINE c == store[gs][q]
  <2>2. c \in RoleDir /\ store[gs][q] = c  BY <1>1, <2>1
  <2>. HIDE DEF c
  <2>3. \E d : /\ store' = SetDir(store, gs, q, d)
               /\ pc' = "shards" => d.hf \in {"absent", "whole"}
               /\ pc' = "hf" => d.hfdir /\ d.shards = "whole"
               /\ pc' = "register" => Ready(d)
    <3>1. CASE FinishShards
      <4>. DEFINE d == [c EXCEPT !.shards = "whole"]
      <4>1. d.hf = c.hf /\ c.hf \in {"absent", "whole"}
        BY <2>2, <3>1 DEF RoleDir, FinishShards, WorkInv
      <4>2. store' = SetDir(store, gs, q, d) /\ pc' = "shards"  BY <2>2, <3>1 DEF FinishShards
      <4>. QED  BY <4>1, <4>2
    <3>2. CASE WriteConfig
      <4>. DEFINE d == [c EXCEPT !.hfdir = TRUE]
      <4>1. d.hf = c.hf /\ c.hf \in {"absent", "whole"}
        BY <2>2, <3>2 DEF RoleDir, WriteConfig, WorkInv
      <4>2. store' = SetDir(store, gs, q, d) /\ pc' = "shards"  BY <2>2, <3>2 DEF WriteConfig
      <4>. QED  BY <4>1, <4>2
    <3>3. CASE ShardsBarrier /\ SaveHF
      <4>. DEFINE d == [c EXCEPT !.hf = "torn", !.hfBy = run]
      <4>1. d.hfdir /\ d.shards = "whole"  BY <2>2, <3>3 DEF RoleDir, ShardsBarrier
      <4>2. store' = SetDir(store, gs, q, d) /\ pc' = "hf"  BY <2>2, <3>3 DEF ShardsBarrier
      <4>. QED  BY <4>1, <4>2
    <3>4. CASE ShardsBarrier /\ ~SaveHF
      <4>1. c.hfdir /\ c.shards = "whole" /\ c.hf \in {"absent", "whole"}
        BY <2>2, <3>4 DEF ShardsBarrier, WorkInv
      <4>2. store' = store /\ pc' = "register"  BY <3>4 DEF ShardsBarrier
      <4>3. store = SetDir(store, gs, q, c)  BY <1>1, <2>1, <2>2 DEF SetDir, TypeOK
      <4>. QED  BY <4>1, <4>2, <4>3 DEF Ready
    <3>5. CASE FinishHF
      <4>. DEFINE d == [c EXCEPT !.hf = "whole"]
      <4>1. d.hfdir /\ d.shards = "whole" /\ d.hf = "whole"
        BY <2>2, <3>5 DEF RoleDir, FinishHF, WorkInv
      <4>2. store' = SetDir(store, gs, q, d) /\ pc' = "register"  BY <2>2, <3>5 DEF FinishHF
      <4>. QED  BY <4>1, <4>2 DEF Ready
    <3>. QED  BY <1>7, <3>1, <3>2, <3>3, <3>4, <3>5
  <2>4. PICK d : /\ store' = SetDir(store, gs, q, d)
                 /\ pc' = "shards" => d.hf \in {"absent", "whole"}
                 /\ pc' = "hf" => d.hfdir /\ d.shards = "whole"
                 /\ pc' = "register" => Ready(d)
    BY <2>3
  <2>5. /\ store'[gs][q] = d
        /\ \A s \in Steps, r \in Roles : gs # s \/ q # r => store'[s][r] = store[s][r]
    BY <1>1, <1>2, <2>1, <2>4
  <2>6. WorkInv'  BY <2>1, <2>4, <2>5 DEF WorkInv
  <2>7. ReadyInv'
    <3>. SUFFICES ASSUME NEW s \in Steps, NEW r \in Roles
                  PROVE  Ready(store'[s][r]) \/ InWork(s, r)'
      BY DEF ReadyInv
    <3>1. CASE gs = s /\ q = r  BY <2>1, <2>4, <2>5, <3>1 DEF InWork
    <3>2. CASE gs # s \/ q # r
      <4>1. store'[s][r] = store[s][r] /\ Ready(store[s][r])
        BY <2>1, <2>5, <3>2 DEF ReadyInv, Live, InWork
      <4>. QED  BY <4>1
    <3>. QED  BY <3>1, <3>2
  <2>. QED  BY <1>3, <2>1, <2>6, <2>7 DEF UnusedInv, PrunedInv, Live
<1>8. ASSUME NEW t \in Steps, NEW p \in Roles, PruneRole(t, p)  PROVE CInv'
  <2>1. /\ pc = "prune" /\ UNCHANGED <<data, pc, gs, run>>
        /\ todo' = todo \ {<<t, p>>} /\ p # "data"
    BY <1>8 DEF PruneRole, CheckpointAssumption
  <2>2. PICK d \in EnsureHFThenPrune(store[t][p], FALSE) : store' = SetDir(store, t, p, d)
    BY <1>8 DEF PruneRole
  <2>3. Ready(store[t][p])  BY <2>1 DEF ReadyInv, Live, InWork
  <2>4. Clean(d)  BY <1>1, <2>2, <2>3, PruneCleans
  <2>5. ASSUME NEW s \in Steps, NEW r \in Roles
        PROVE  \/ Clean(store'[s][r])
               \/ store'[s][r] = store[s][r] /\ <<s, r>> # <<t, p>>
    BY <1>2, <2>2, <2>4
  <2>6. ReadyInv'  BY <2>1, <2>5 DEF ReadyInv, Live, InWork, Ready
  <2>7. PrunedInv'
    <3>. SUFFICES ASSUME NEW s \in Steps \ {gs}
                  PROVE  /\ data[s].state = "absent" \/ <<s, "data">> \in todo'
                         /\ \A r \in Roles : Clean(store'[s][r]) \/ <<s, r>> \in todo'
      BY <2>1 DEF PrunedInv
    <3>1. data[s].state = "absent" \/ <<s, "data">> \in todo'  BY <2>1 DEF PrunedInv
    <3>2. ASSUME NEW r \in Roles  PROVE Clean(store'[s][r]) \/ <<s, r>> \in todo'
      <4>1. Clean(store[s][r]) \/ <<s, r>> \in todo  BY <2>1 DEF PrunedInv
      <4>. QED  BY <2>1, <2>5, <4>1
    <3>. QED  BY <3>1, <3>2
  <2>. QED  BY <1>3, <2>1, <2>6, <2>7 DEF UnusedInv, WorkInv, Live
<1>9. ASSUME NEW t \in Steps, PruneData(t)  PROVE CInv'
  <2>1. /\ pc = "prune" /\ UNCHANGED <<store, pc, gs, role, run>>
        /\ todo' = todo \ {<<t, "data">>} /\ data' = [data EXCEPT ![t] = NoDataFile]
    BY <1>9 DEF PruneData
  <2>2. NoDataFile.state = "absent"  BY DEF NoDataFile
  <2>3. \A s \in Steps : data'[s].state = "absent" \/ (s # t /\ data'[s] = data[s])
    BY <2>1, <2>2 DEF TypeOK
  <2>4. \A r \in Roles : r # "data"  BY DEF CheckpointAssumption
  <2>5. PrunedInv'
    <3>. SUFFICES ASSUME NEW s \in Steps \ {gs}
                  PROVE  /\ data'[s].state = "absent" \/ <<s, "data">> \in todo'
                         /\ \A r \in Roles : Clean(store[s][r]) \/ <<s, r>> \in todo'
      BY <2>1 DEF PrunedInv
    <3>1. data'[s].state = "absent" \/ <<s, "data">> \in todo'  BY <2>1, <2>3 DEF PrunedInv
    <3>2. ASSUME NEW r \in Roles  PROVE Clean(store[s][r]) \/ <<s, r>> \in todo'
      BY <2>1, <2>4 DEF PrunedInv
    <3>. QED  BY <3>1, <3>2
  <2>. QED  BY <1>3, <2>1, <2>5 DEF UnusedInv, ReadyInv, WorkInv, Live, InWork
<1>10. CASE CommitTracker
  <2>1. /\ pc = "track" /\ pc' = "prune" /\ UNCHANGED <<store, data, gs, role, run>>
        /\ todo' = {x \in Steps \X Items :
                      /\ x[1] # gs
                      /\ IF x[2] = "data" THEN data[x[1]].state # "absent"
                                          ELSE store[x[1]][x[2]] # NoRoleDir}
    BY <1>10 DEF CommitTracker
  <2>2. ASSUME NEW s \in Steps \ {gs}
        PROVE  /\ data[s].state = "absent" \/ <<s, "data">> \in todo'
               /\ \A r \in Roles : Clean(store[s][r]) \/ <<s, r>> \in todo'
    <3>1. "data" \in Items /\ \A r \in Roles : r \in Items /\ r # "data"
      BY DEF Items, CheckpointAssumption
    <3>2. data[s].state = "absent" \/ <<s, "data">> \in todo'  BY <2>1, <3>1
    <3>3. ASSUME NEW r \in Roles  PROVE Clean(store[s][r]) \/ <<s, r>> \in todo'
      <4>1. CASE store[s][r] = NoRoleDir  BY <1>4, <4>1
      <4>2. CASE store[s][r] # NoRoleDir  BY <2>1, <3>1, <4>2
      <4>. QED  BY <4>1, <4>2
    <3>. QED  BY <3>2, <3>3
  <2>3. PrunedInv'  BY <2>1, <2>2 DEF PrunedInv
  <2>. QED  BY <1>3, <2>1, <2>3 DEF UnusedInv, ReadyInv, WorkInv, Live, InWork
<1>11. CASE PruneDone
  <2>1. /\ pc = "prune" /\ pc' = "train" /\ todo = {} /\ UNCHANGED <<store, data, gs, role, run>>
    BY <1>11 DEF PruneDone, disk
  <2>2. PrunedInv'  BY <2>1 DEF PrunedInv
  <2>. QED  BY <1>3, <2>1, <2>2 DEF UnusedInv, ReadyInv, WorkInv, Live, InWork
<1>12. ASSUME FinishData \/ \E t \in Steps : SaveBegin(t)  PROVE CInv'
  <2>1. /\ pc \in {"data", "train"} /\ pc' \in {"track", "open"} /\ UNCHANGED <<store, run>>
    BY <1>12 DEF FinishData, SaveBegin, disk
  <2>2. ReadyInv'  BY <2>1 DEF ReadyInv, Live, InWork
  <2>. QED  BY <1>3, <2>1, <2>2 DEF UnusedInv, WorkInv, PrunedInv, Live
<1>13. CASE Crash
  <2>1. pc \notin {"down", "stuck"} /\ pc' = "down" /\ run' = run  BY <1>13 DEF Crash
  <2>. QED  BY <1>3, <2>1 DEF UnusedInv, ReadyInv, WorkInv, PrunedInv, Live
<1>14. CASE Start
  <2>1. /\ run = 0 /\ run' = 1 /\ pc' \in {"train", "stuck"} /\ UNCHANGED <<store, data>>
    BY <1>1, <1>14 DEF Start, disk
  <2>2. \A s \in Steps : data[s].state = "absent" /\ \A r \in Roles : Clean(store[s][r])
    BY <1>4, <2>1 DEF UnusedInv, NoDataFile
  <2>. QED  BY <2>1, <2>2 DEF UnusedInv, ReadyInv, WorkInv, PrunedInv, Ready
<1>15. CASE UNCHANGED vars
  BY <1>15 DEF vars, UnusedInv, ReadyInv, WorkInv, PrunedInv, Live, InWork
<1>. QED
  BY <1>5, <1>6, <1>7, <1>8, <1>9, <1>10, <1>11, <1>12, <1>13, <1>14, <1>15 DEF Next

\* In a run where no merge and no removal fails, whatever the roles, steps,
\* contents and limit, the loop leaves the checkpoint just saved as the only
\* training state (the last loop of _save_checkpoint).
THEOREM OneTrainingStateCorrect ==
  ASSUME ~FilesMayFail, MaxRuns = 1
  PROVE  Spec => []OneTrainingState
<1>1. Init => CInv
  <2>1. Init => TypeOK  BY IInvInit DEF IInv
  <2>2. Init => UnusedInv /\ ReadyInv /\ WorkInv /\ PrunedInv
    BY DEF Init, UnusedInv, ReadyInv, WorkInv, PrunedInv, Live
  <2>. QED  BY <2>1, <2>2 DEF CInv
<1>2. CInv /\ TypeOK' /\ [Next]_vars => CInv'  BY CleanStep, CheckpointAssumption
<1>3. CInv => OneTrainingState
  BY DEF CInv, PrunedInv, OneTrainingState, Clean
<1>. QED  BY TypeCorrect, <1>1, <1>2, <1>3, PTL DEF Spec
=============================================================================
