-------------------------- MODULE FullyAsync_proofs --------------------------
(***************************************************************************)
(* Type correctness of FullyAsync, and what is left of the staleness       *)
(* budget: for every size of the queue, number of tasks and sync period,   *)
(* one sample over the budget at most, and one sample lost per weight sync *)
(* at most.  And that Rollouter and Trainer never wait for each other: who *)
(* wants the lock gets it (LockInv), and while the trainer waits at an     *)
(* empty queue the staleness counter is below its limit (FlowInv).         *)
(***************************************************************************)
EXTENDS FullyAsync, TLAPS

\* Who is where: the lock and the processor's hand.
PlaceInv ==
  /\ pc = "reap" => lock = "processor"
  /\ tpc = "count" => lock = "reset"
  /\ pc \in {"limit", "submit"} => held = 1
  /\ held = 1 => pc \in {"limit", "submit", "reap"}
  /\ pc = "submit" => Active < MaxConcurrent
  /\ pc \in {"ended", "over"} => generating + late < MaxConcurrent
  /\ late > 0 => pc = "over"
  /\ endQueued => pc = "over"
  /\ ending => pc = "over" /\ queue = 0 /\ ~endQueued
  /\ EndKept
  /\ IF tpc = "train" THEN have = Required ELSE have < Required
  /\ tpc \in {"collect", "train"} => ~ending
  /\ tpc \in {"sync", "reset", "count"} => version > 0

\* A sample escapes the count of reset_staleness only when there was one.
Over == IF Resets = 0 THEN 0 ELSE 1

BudgetInv ==
  /\ tpc = "count" => generating <= counted
  /\ Outstanding <= ahead
  /\ ahead <= staleness + Over
  /\ ahead <= MaxRequired + Over
  /\ pc = "get" => ahead < MaxRequired + Over
  /\ pc # "over" => Outstanding + dropped + Over <= ahead + Resets
  /\ pc = "over" => Outstanding + late + dropped <= MaxRequired + Resets
  /\ OneLostPerSync

\* A version that is due is saved before the next step is taken.
SaveInv ==
  \/ ckpt.version = version
  \/ SaveFreq = 0
  \/ version % SaveFreq # 0
  \/ localStep = 1 /\ tpc \in {"sync", "reset", "count", "save"}

\* Every sample fed is somewhere, trained on, dropped, or was in the hands of a
\* task that raised; at the end the trainer gives up less than a step.
Used == Required * Steps

AccountInv ==
  /\ tpc = "stopped" => ending
  /\ endFed # "none" => fed = Total
  /\ endFed = "taken" => pending = 0
  /\ ~crashed =>
       /\ pc \in {"finish", "ended", "over"} \/ (pc = "reap" /\ held = 0) => endFed = "taken"
       /\ pc \in {"ended", "over"} => generating = 0 /\ failed = 0
       /\ late = 0
       /\ ~ending => fed = pending + Outstanding + failed + have + Used + dropped
       /\ ending  => fed < pending + Outstanding + failed + Required + Used + dropped

\* Who holds the lock, and what a paused Rollouter is doing.
LockInv ==
  /\ lock = "reset" => tpc = "count"
  /\ lock = "processor" => pc = "reap"
  /\ pc = "reap" => Active > 0
  /\ paused <=> ~event
  /\ paused => pc \in {"drain", "ended", "over"}
  /\ endFed = "taken" => pc \in {"finish", "ended", "over"} \/ (pc = "reap" /\ held = 0)
  /\ tpc = "count" => counted <= MaxConcurrent
  /\ crashed => pc \in {"ended", "over"}

\* What the trainer has taken since the last reset: up to a sync period.
Resetting == tpc \in {"sync", "reset", "count"}
Taken == IF Resetting THEN Required * Trigger ELSE Required * (localStep - 1) + have

\* As long as the stream goes on, staleness exceeds the samples begun since the
\* last reset by the tasks it counted at most, and one for the end signal; and
\* samples begun since, that are neither under way nor taken nor with a task that
\* raised, were dropped by a queue so full that with what was taken of it since
\* there are as many as it has room for.
FlowInv ==
  ~crashed /\ pc # "over" =>
    /\ staleness <= ahead + MaxConcurrent + (IF endFed = "taken" THEN 1 ELSE 0)
    /\ ahead - Outstanding - Taken > failed => queue + Taken >= MaxRequired

IInv == TypeOK /\ PlaceInv /\ BudgetInv /\ AccountInv /\ SaveInv /\ SavedIsSynced /\ LockInv /\ FlowInv

-----------------------------------------------------------------------------
\* What the proofs use of the assumption: the products stay out of the way.
LEMMA ConstantTypes ==
  /\ Total \in Nat \ {0} /\ Required \in Nat \ {0} /\ Trigger \in Nat \ {0}
  /\ MaxRequired \in Nat /\ MaxConcurrent \in 1 .. MaxRequired /\ TasksMayFail \in BOOLEAN
  /\ PendingSize \in Nat \ {0} /\ SaveFreq \in Nat /\ TestFreq \in Nat \ {0}
BY FullyAsyncAssumption

-----------------------------------------------------------------------------
(* The initial state.                                                        *)

LEMMA InitInv == Init => IInv
<1>. SUFFICES ASSUME Init PROVE IInv  OBVIOUS
<1>. USE ConstantTypes DEF Init
<1>1. TypeOK
  <2>1. fed \in 0 .. Total /\ pending \in 0 .. PendingSize /\ endFed \in {"none", "pending", "taken"}  OBVIOUS
  <2>2. pc \in {"check", "decide", "pause", "drain", "get", "limit", "reap", "submit", "finish", "ended", "over"}  OBVIOUS
  <2>3. seen \in Nat /\ held \in {0, 1}  OBVIOUS
  <2>4a. crashed \in BOOLEAN  OBVIOUS
  <2>4. generating \in Nat /\ landed \in Nat /\ done \in Nat /\ failed \in Nat /\ Active <= MaxConcurrent  BY DEF Active
  <2>5. staleness \in Nat /\ paused \in BOOLEAN /\ event \in BOOLEAN  OBVIOUS
  <2>6. lock \in {"free", "processor", "reset"}  OBVIOUS
  <2>7. monitor \in {"idle", "decide", "resume"} /\ told \in Nat  OBVIOUS
  <2>8. queue \in 0 .. MaxRequired /\ QueueSize <= MaxRequired  BY DEF QueueSize
  <2>9. endQueued \in BOOLEAN /\ late \in Nat /\ dropped \in Nat  OBVIOUS
  <2>10. tpc \in {"collect", "train", "sync", "reset", "count", "save", "stopped"}  OBVIOUS
  <2>11. have \in 0 .. Required /\ counted \in Nat  OBVIOUS
  <2>12. localStep \in 1 .. Trigger /\ version \in Nat  OBVIOUS
  <2>13. ending \in BOOLEAN  OBVIOUS
  <2>14. ckpt \in [version : Nat, steps : Nat]  OBVIOUS
  <2>15. ahead \in Nat  OBVIOUS
  <2>. QED  BY <2>1, <2>2, <2>3, <2>4, <2>4a, <2>5, <2>6, <2>7, <2>8, <2>9, <2>10, <2>11, <2>12, <2>13, <2>14, <2>15 DEF TypeOK
<1>2. PlaceInv  BY DEF PlaceInv, EndKept
<1>3. BudgetInv  BY DEF BudgetInv, Over, Resets, Outstanding, OneLostPerSync
<1>4. SaveInv /\ SavedIsSynced  BY DEF SaveInv, SavedIsSynced
<1>5. AccountInv
  <2>1. Used = 0  BY DEF Used, Steps
  <2>. QED  BY <2>1 DEF AccountInv, Outstanding
<1>6. LockInv  BY DEF LockInv, Active
<1>7. FlowInv
  <2>1. Required * (1 - 1) + 0 = 0  OBVIOUS
  <2>2. Taken = 0  BY <2>1 DEF Taken, Resetting
  <2>. QED  BY <2>2 DEF FlowInv, Outstanding
<1>. QED  BY <1>1, <1>2, <1>3, <1>4, <1>5, <1>6, <1>7 DEF IInv

-----------------------------------------------------------------------------
\* Every step keeps the types.
LEMMA TypeStep == TypeOK /\ PlaceInv /\ [Next]_vars => TypeOK'
<1>. SUFFICES ASSUME TypeOK, PlaceInv, [Next]_vars PROVE TypeOK'  OBVIOUS
<1>. USE ConstantTypes DEF TypeOK, PlaceInv, EndKept, Active, QueueSize
<1>1. CASE FeedSample  BY <1>1 DEF FeedSample, rollouter, tasks, watch, mq, trainer
<1>2. CASE FeedEnd  BY <1>2 DEF FeedEnd, rollouter, tasks, watch, mq, trainer
<1>3. CASE AskQueue  BY <1>3 DEF AskQueue, feed, tasks, watch, mq, trainer
<1>4. CASE Decide  BY <1>4 DEF Decide, ShouldPause, feed, tasks, watch, mq, trainer
<1>5. CASE Pause  BY <1>5 DEF Pause, feed, tasks, watch, mq, trainer
<1>6. CASE Drain  BY <1>6 DEF Drain, feed, rollouter, watch, mq, trainer
<1>7. CASE Resume  BY <1>7 DEF Resume, feed, tasks, watch, mq, trainer
<1>8. CASE GetSample  BY <1>8 DEF GetSample, tasks, watch, mq, trainer
<1>9. CASE GetEnd  BY <1>9 DEF GetEnd, tasks, watch, mq, trainer
<1>10. CASE AtLimit  BY <1>10 DEF AtLimit, feed, tasks, watch, mq, trainer
<1>11. CASE Reap  BY <1>11 DEF Reap, feed, watch, mq, trainer
<1>12. CASE BelowLimit  BY <1>12 DEF BelowLimit, feed, tasks, watch, mq, trainer
<1>13. CASE Submit  BY <1>13 DEF Submit, feed, watch, mq, trainer
<1>14. CASE FinishWait  BY <1>14 DEF FinishWait, feed, tasks, watch, mq, trainer
<1>15. CASE Finish  BY <1>15 DEF Finish, feed, tasks, watch, mq, trainer
<1>16. CASE EndStream  BY <1>16 DEF EndStream, PutDrops, feed, tasks, watch, trainer
<1>17. CASE PutSample  BY <1>17 DEF PutSample, PutDrops, feed, rollouter, watch, trainer
<1>18. CASE TaskEnds  BY <1>18 DEF TaskEnds, feed, rollouter, watch, mq, trainer
<1>19. CASE MonitorAsk  BY <1>19 DEF MonitorAsk, feed, rollouter, tasks, mq, trainer
<1>20. CASE MonitorDecide  BY <1>20 DEF MonitorDecide, ShouldPause, feed, rollouter, tasks, mq, trainer
<1>21. CASE MonitorResume  BY <1>21 DEF MonitorResume, feed, tasks, mq, trainer
<1>22. CASE TakeSample  BY <1>22 DEF TakeSample, feed, rollouter, tasks, watch
<1>23. CASE TakeEnd
  <2>1. (fed \in 0 .. Total /\ pending \in 0 .. PendingSize /\ endFed \in {"none", "pending", "taken"})'  BY <1>23 DEF TakeEnd, feed, rollouter, tasks, watch
  <2>2. (pc \in {"check", "decide", "pause", "drain", "get", "limit", "reap", "submit", "finish", "ended", "over"})'  BY <1>23 DEF TakeEnd, feed, rollouter, tasks, watch
  <2>3. (seen \in Nat /\ held \in {0, 1})'  BY <1>23 DEF TakeEnd, feed, rollouter, tasks, watch
  <2>4. (generating \in Nat /\ landed \in Nat /\ done \in Nat /\ failed \in Nat /\ Active <= MaxConcurrent /\ crashed \in BOOLEAN)'  BY <1>23 DEF TakeEnd, feed, rollouter, tasks, watch
  <2>5. (staleness \in Nat /\ paused \in BOOLEAN /\ event \in BOOLEAN)'  BY <1>23 DEF TakeEnd, feed, rollouter, tasks, watch
  <2>6. (lock \in {"free", "processor", "reset"})'  BY <1>23 DEF TakeEnd, feed, rollouter, tasks, watch
  <2>7. (monitor \in {"idle", "decide", "resume"} /\ told \in Nat)'  BY <1>23 DEF TakeEnd, feed, rollouter, tasks, watch
  <2>8. (queue \in 0 .. MaxRequired /\ QueueSize <= MaxRequired)'  BY <1>23 DEF TakeEnd, feed, rollouter, tasks, watch
  <2>9. (endQueued \in BOOLEAN /\ late \in Nat /\ dropped \in Nat)'  BY <1>23 DEF TakeEnd, feed, rollouter, tasks, watch
  <2>10. (tpc \in {"collect", "train", "sync", "reset", "count", "save", "stopped"})'  BY <1>23 DEF TakeEnd, feed, rollouter, tasks, watch
  <2>11. (have \in 0 .. Required /\ counted \in Nat)'  BY <1>23 DEF TakeEnd, feed, rollouter, tasks, watch
  <2>12. (localStep \in 1 .. Trigger /\ version \in Nat)'  BY <1>23 DEF TakeEnd, feed, rollouter, tasks, watch
  <2>13. (ending \in BOOLEAN)'  BY <1>23 DEF TakeEnd, feed, rollouter, tasks, watch
  <2>14. (ckpt \in [version : Nat, steps : Nat])'  BY <1>23 DEF TakeEnd, feed, rollouter, tasks, watch
  <2>15. (ahead \in Nat)'  BY <1>23 DEF TakeEnd, feed, rollouter, tasks, watch
  <2>. QED  BY <2>1, <2>2, <2>3, <2>4, <2>5, <2>6, <2>7, <2>8, <2>9, <2>10, <2>11, <2>12, <2>13, <2>14, <2>15 DEF TypeOK
<1>24. CASE Train  BY <1>24 DEF Train, feed, rollouter, tasks, watch, mq
<1>25. CASE SyncWeights  BY <1>25 DEF SyncWeights, feed, rollouter, tasks, watch, mq
<1>26. CASE ResetBegin
  <2>1. (fed \in 0 .. Total /\ pending \in 0 .. PendingSize /\ endFed \in {"none", "pending", "taken"})'  BY <1>26 DEF ResetBegin, feed, tasks, watch, mq
  <2>2. (pc \in {"check", "decide", "pause", "drain", "get", "limit", "reap", "submit", "finish", "ended", "over"})'  BY <1>26 DEF ResetBegin, feed, tasks, watch, mq
  <2>3. (seen \in Nat /\ held \in {0, 1})'  BY <1>26 DEF ResetBegin, feed, tasks, watch, mq
  <2>4. (generating \in Nat /\ landed \in Nat /\ done \in Nat /\ failed \in Nat /\ Active <= MaxConcurrent /\ crashed \in BOOLEAN)'  BY <1>26 DEF ResetBegin, feed, tasks, watch, mq
  <2>5. (staleness \in Nat /\ paused \in BOOLEAN /\ event \in BOOLEAN)'  BY <1>26 DEF ResetBegin, feed, tasks, watch, mq
  <2>6. (lock \in {"free", "processor", "reset"})'  BY <1>26 DEF ResetBegin, feed, tasks, watch, mq
  <2>7. (monitor \in {"idle", "decide", "resume"} /\ told \in Nat)'  BY <1>26 DEF ResetBegin, feed, tasks, watch, mq
  <2>8. (queue \in 0 .. MaxRequired /\ QueueSize <= MaxRequired)'  BY <1>26 DEF ResetBegin, feed, tasks, watch, mq
  <2>9. (endQueued \in BOOLEAN /\ late \in Nat /\ dropped \in Nat)'  BY <1>26 DEF ResetBegin, feed, tasks, watch, mq
  <2>10. (tpc \in {"collect", "train", "sync", "reset", "count", "save", "stopped"})'  BY <1>26 DEF ResetBegin, feed, tasks, watch, mq
  <2>11. (have \in 0 .. Required /\ counted \in Nat)'  BY <1>26 DEF ResetBegin, feed, tasks, watch, mq
  <2>12. (localStep \in 1 .. Trigger /\ version \in Nat)'  BY <1>26 DEF ResetBegin, feed, tasks, watch, mq
  <2>13. (ending \in BOOLEAN)'  BY <1>26 DEF ResetBegin, feed, tasks, watch, mq
  <2>14. (ckpt \in [version : Nat, steps : Nat])'  BY <1>26 DEF ResetBegin, feed, tasks, watch, mq
  <2>15. (ahead \in Nat)'  BY <1>26 DEF ResetBegin, feed, tasks, watch, mq
  <2>. QED  BY <2>1, <2>2, <2>3, <2>4, <2>5, <2>6, <2>7, <2>8, <2>9, <2>10, <2>11, <2>12, <2>13, <2>14, <2>15 DEF TypeOK
<1>27. CASE ResetEnd  BY <1>27 DEF ResetEnd, feed, tasks, watch, mq
<1>28. CASE SaveStep  BY <1>28 DEF SaveStep, SaveDue, Steps, feed, rollouter, tasks, watch, mq
<1>30. CASE DrainRaises  BY <1>30 DEF DrainRaises, feed, watch, mq, trainer
<1>31. CASE ReapRaises  BY <1>31 DEF ReapRaises, feed, watch, mq, trainer
<1>32. CASE PutLate  BY <1>32 DEF PutLate, PutDrops, feed, rollouter, watch, trainer
<1>33. CASE TaskRaises  BY <1>33 DEF TaskRaises, feed, rollouter, watch, mq, trainer
<1>29. CASE UNCHANGED vars  BY <1>29 DEF vars, feed, rollouter, tasks, watch, mq, trainer
<1>. QED
  BY <1>1, <1>2, <1>3, <1>4, <1>5, <1>6, <1>7, <1>8, <1>9, <1>10, <1>11, <1>12, <1>13, <1>14, <1>15, <1>16, <1>17, <1>18, <1>19, <1>20, <1>21, <1>22, <1>23, <1>24, <1>25, <1>26, <1>27, <1>28, <1>29, <1>30, <1>31, <1>32, <1>33
     DEF Next, Processor, Monitor, Trainer

-----------------------------------------------------------------------------
\* Every step keeps everything in its place.
LEMMA PlaceStep == TypeOK /\ PlaceInv /\ [Next]_vars => PlaceInv'
<1>. SUFFICES ASSUME TypeOK, PlaceInv, [Next]_vars PROVE PlaceInv'  OBVIOUS
<1>. USE ConstantTypes DEF TypeOK, PlaceInv, EndKept, Active, QueueSize
<1>1. CASE FeedSample  BY <1>1 DEF FeedSample, rollouter, tasks, watch, mq, trainer
<1>2. CASE FeedEnd  BY <1>2 DEF FeedEnd, rollouter, tasks, watch, mq, trainer
<1>3. CASE AskQueue  BY <1>3 DEF AskQueue, feed, tasks, watch, mq, trainer
<1>4. CASE Decide  BY <1>4 DEF Decide, ShouldPause, feed, tasks, watch, mq, trainer
<1>5. CASE Pause  BY <1>5 DEF Pause, feed, tasks, watch, mq, trainer
<1>6. CASE Drain  BY <1>6 DEF Drain, feed, rollouter, watch, mq, trainer
<1>7. CASE Resume  BY <1>7 DEF Resume, feed, tasks, watch, mq, trainer
<1>8. CASE GetSample  BY <1>8 DEF GetSample, tasks, watch, mq, trainer
<1>9. CASE GetEnd  BY <1>9 DEF GetEnd, tasks, watch, mq, trainer
<1>10. CASE AtLimit  BY <1>10 DEF AtLimit, feed, tasks, watch, mq, trainer
<1>11. CASE Reap  BY <1>11 DEF Reap, feed, watch, mq, trainer
<1>12. CASE BelowLimit  BY <1>12 DEF BelowLimit, feed, tasks, watch, mq, trainer
<1>13. CASE Submit  BY <1>13 DEF Submit, feed, watch, mq, trainer
<1>14. CASE FinishWait  BY <1>14 DEF FinishWait, feed, tasks, watch, mq, trainer
<1>15. CASE Finish  BY <1>15 DEF Finish, feed, tasks, watch, mq, trainer
<1>16. CASE EndStream  BY <1>16 DEF EndStream, PutDrops, feed, tasks, watch, trainer
<1>17. CASE PutSample  BY <1>17 DEF PutSample, PutDrops, feed, rollouter, watch, trainer
<1>18. CASE TaskEnds  BY <1>18 DEF TaskEnds, feed, rollouter, watch, mq, trainer
<1>19. CASE MonitorAsk  BY <1>19 DEF MonitorAsk, feed, rollouter, tasks, mq, trainer
<1>20. CASE MonitorDecide  BY <1>20 DEF MonitorDecide, ShouldPause, feed, rollouter, tasks, mq, trainer
<1>21. CASE MonitorResume  BY <1>21 DEF MonitorResume, feed, tasks, mq, trainer
<1>22. CASE TakeSample  BY <1>22 DEF TakeSample, feed, rollouter, tasks, watch
<1>23. CASE TakeEnd  BY <1>23 DEF TakeEnd, feed, rollouter, tasks, watch
<1>24. CASE Train  BY <1>24 DEF Train, feed, rollouter, tasks, watch, mq
<1>25. CASE SyncWeights  BY <1>25 DEF SyncWeights, feed, rollouter, tasks, watch, mq
<1>26. CASE ResetBegin  BY <1>26 DEF ResetBegin, feed, tasks, watch, mq
<1>27. CASE ResetEnd  BY <1>27 DEF ResetEnd, feed, tasks, watch, mq
<1>28. CASE SaveStep  BY <1>28 DEF SaveStep, SaveDue, Steps, feed, rollouter, tasks, watch, mq
<1>30. CASE DrainRaises  BY <1>30 DEF DrainRaises, feed, watch, mq, trainer
<1>31. CASE ReapRaises  BY <1>31 DEF ReapRaises, feed, watch, mq, trainer
<1>32. CASE PutLate  BY <1>32 DEF PutLate, PutDrops, feed, rollouter, watch, trainer
<1>33. CASE TaskRaises  BY <1>33 DEF TaskRaises, feed, rollouter, watch, mq, trainer
<1>29. CASE UNCHANGED vars  BY <1>29 DEF vars, feed, rollouter, tasks, watch, mq, trainer
<1>. QED
  BY <1>1, <1>2, <1>3, <1>4, <1>5, <1>6, <1>7, <1>8, <1>9, <1>10, <1>11, <1>12, <1>13, <1>14, <1>15, <1>16, <1>17, <1>18, <1>19, <1>20, <1>21, <1>22, <1>23, <1>24, <1>25, <1>26, <1>27, <1>28, <1>29, <1>30, <1>31, <1>32, <1>33
     DEF Next, Processor, Monitor, Trainer

-----------------------------------------------------------------------------
\* Every step keeps the budget.
LEMMA BudgetStep == TypeOK /\ PlaceInv /\ BudgetInv /\ [Next]_vars => BudgetInv'
<1>. SUFFICES ASSUME TypeOK, PlaceInv, BudgetInv, [Next]_vars PROVE BudgetInv'  OBVIOUS
<1>. USE ConstantTypes DEF TypeOK, PlaceInv, EndKept, BudgetInv, OneLostPerSync, Over, Resets, Outstanding, Active, QueueSize
<1>1. CASE FeedSample  BY <1>1 DEF FeedSample, rollouter, tasks, watch, mq, trainer
<1>2. CASE FeedEnd  BY <1>2 DEF FeedEnd, rollouter, tasks, watch, mq, trainer
<1>3. CASE AskQueue  BY <1>3 DEF AskQueue, feed, tasks, watch, mq, trainer
<1>4. CASE Decide  BY <1>4 DEF Decide, ShouldPause, feed, tasks, watch, mq, trainer
<1>5. CASE Pause  BY <1>5 DEF Pause, feed, tasks, watch, mq, trainer
<1>6. CASE Drain  BY <1>6 DEF Drain, feed, rollouter, watch, mq, trainer
<1>7. CASE Resume  BY <1>7 DEF Resume, feed, tasks, watch, mq, trainer
<1>8. CASE GetSample  BY <1>8 DEF GetSample, tasks, watch, mq, trainer
<1>9. CASE GetEnd  BY <1>9 DEF GetEnd, tasks, watch, mq, trainer
<1>10. CASE AtLimit  BY <1>10 DEF AtLimit, feed, tasks, watch, mq, trainer
<1>11. CASE Reap  BY <1>11 DEF Reap, feed, watch, mq, trainer
<1>12. CASE BelowLimit  BY <1>12 DEF BelowLimit, feed, tasks, watch, mq, trainer
<1>13. CASE Submit  BY <1>13 DEF Submit, feed, watch, mq, trainer
<1>14. CASE FinishWait  BY <1>14 DEF FinishWait, feed, tasks, watch, mq, trainer
<1>15. CASE Finish  BY <1>15 DEF Finish, feed, tasks, watch, mq, trainer
<1>16. CASE EndStream  BY <1>16 DEF EndStream, PutDrops, feed, tasks, watch, trainer
<1>17. CASE PutSample  BY <1>17 DEF PutSample, PutDrops, feed, rollouter, watch, trainer
<1>18. CASE TaskEnds  BY <1>18 DEF TaskEnds, feed, rollouter, watch, mq, trainer
<1>19. CASE MonitorAsk  BY <1>19 DEF MonitorAsk, feed, rollouter, tasks, mq, trainer
<1>20. CASE MonitorDecide  BY <1>20 DEF MonitorDecide, ShouldPause, feed, rollouter, tasks, mq, trainer
<1>21. CASE MonitorResume  BY <1>21 DEF MonitorResume, feed, tasks, mq, trainer
<1>22. CASE TakeSample  BY <1>22 DEF TakeSample, feed, rollouter, tasks, watch
<1>23. CASE TakeEnd  BY <1>23 DEF TakeEnd, feed, rollouter, tasks, watch
<1>24. CASE Train  BY <1>24 DEF Train, feed, rollouter, tasks, watch, mq
<1>25. CASE SyncWeights  BY <1>25 DEF SyncWeights, feed, rollouter, tasks, watch, mq
<1>26. CASE ResetBegin  BY <1>26 DEF ResetBegin, feed, tasks, watch, mq
<1>27. CASE ResetEnd  BY <1>27 DEF ResetEnd, feed, tasks, watch, mq
<1>28. CASE SaveStep  BY <1>28 DEF SaveStep, SaveDue, Steps, feed, rollouter, tasks, watch, mq
<1>30. CASE DrainRaises  BY <1>30 DEF DrainRaises, feed, watch, mq, trainer
<1>31. CASE ReapRaises  BY <1>31 DEF ReapRaises, feed, watch, mq, trainer
<1>32. CASE PutLate  BY <1>32 DEF PutLate, PutDrops, feed, rollouter, watch, trainer
<1>33. CASE TaskRaises  BY <1>33 DEF TaskRaises, feed, rollouter, watch, mq, trainer
<1>29. CASE UNCHANGED vars  BY <1>29 DEF vars, feed, rollouter, tasks, watch, mq, trainer
<1>. QED
  BY <1>1, <1>2, <1>3, <1>4, <1>5, <1>6, <1>7, <1>8, <1>9, <1>10, <1>11, <1>12, <1>13, <1>14, <1>15, <1>16, <1>17, <1>18, <1>19, <1>20, <1>21, <1>22, <1>23, <1>24, <1>25, <1>26, <1>27, <1>28, <1>29, <1>30, <1>31, <1>32, <1>33
     DEF Next, Processor, Monitor, Trainer

-----------------------------------------------------------------------------
\* The samples used so far are a number, and only a training step adds to them.
LEMMA UsedFrame ==
  ASSUME TypeOK
  PROVE  /\ Used \in Nat
         /\ UNCHANGED <<version, localStep>> => Used' = Used
         /\ Train => Used' = Used + Required
<1>. USE ConstantTypes
<1>1. version * Trigger \in Nat /\ localStep \in Nat /\ localStep > 0  BY DEF TypeOK
<1>2. Steps \in Nat  BY <1>1 DEF Steps
<1>3. Used \in Nat  BY <1>2 DEF Used
<1>4. UNCHANGED <<version, localStep>> => Used' = Used  BY DEF Used, Steps
<1>5. ASSUME Train  PROVE Used' = Used + Required
  <2>1. Steps' = Steps + 1
    <3>1. CASE localStep < Trigger
      <4>1. version' = version /\ localStep' = localStep + 1  BY <1>5, <3>1 DEF Train
      <4>. QED  BY <1>1, <4>1 DEF Steps
    <3>2. CASE ~(localStep < Trigger)
      <4>1. version' = version + 1 /\ localStep' = 1 /\ localStep = Trigger
        BY <1>5, <3>2 DEF Train, TypeOK
      <4>2. (version + 1) * Trigger = version * Trigger + Trigger  BY DEF TypeOK
      <4>. QED  BY <1>1, <4>1, <4>2 DEF Steps
    <3>. QED  BY <3>1, <3>2
  <2>2. Required * (Steps + 1) = Required * Steps + Required  BY <1>2
  <2>. QED  BY <2>1, <2>2 DEF Used
<1>. QED  BY <1>3, <1>4, <1>5

\* Every step keeps the account.
LEMMA AccountStep == TypeOK /\ PlaceInv /\ AccountInv /\ [Next]_vars => AccountInv'
<1>. SUFFICES ASSUME TypeOK, PlaceInv, AccountInv, [Next]_vars PROVE AccountInv'  OBVIOUS
<1>. USE ConstantTypes, UsedFrame DEF TypeOK, PlaceInv, EndKept, AccountInv, Outstanding, Active, QueueSize
<1>1. CASE FeedSample  BY <1>1 DEF FeedSample, rollouter, tasks, watch, mq, trainer
<1>2. CASE FeedEnd  BY <1>2 DEF FeedEnd, rollouter, tasks, watch, mq, trainer
<1>3. CASE AskQueue  BY <1>3 DEF AskQueue, feed, tasks, watch, mq, trainer
<1>4. CASE Decide  BY <1>4 DEF Decide, ShouldPause, feed, tasks, watch, mq, trainer
<1>5. CASE Pause  BY <1>5 DEF Pause, feed, tasks, watch, mq, trainer
<1>6. CASE Drain  BY <1>6 DEF Drain, feed, rollouter, watch, mq, trainer
<1>7. CASE Resume  BY <1>7 DEF Resume, feed, tasks, watch, mq, trainer
<1>8. CASE GetSample  BY <1>8 DEF GetSample, tasks, watch, mq, trainer
<1>9. CASE GetEnd  BY <1>9 DEF GetEnd, tasks, watch, mq, trainer
<1>10. CASE AtLimit  BY <1>10 DEF AtLimit, feed, tasks, watch, mq, trainer
<1>11. CASE Reap  BY <1>11 DEF Reap, feed, watch, mq, trainer
<1>12. CASE BelowLimit  BY <1>12 DEF BelowLimit, feed, tasks, watch, mq, trainer
<1>13. CASE Submit  BY <1>13 DEF Submit, feed, watch, mq, trainer
<1>14. CASE FinishWait  BY <1>14 DEF FinishWait, feed, tasks, watch, mq, trainer
<1>15. CASE Finish  BY <1>15 DEF Finish, feed, tasks, watch, mq, trainer
<1>16. CASE EndStream  BY <1>16 DEF EndStream, PutDrops, feed, tasks, watch, trainer
<1>17. CASE PutSample  BY <1>17 DEF PutSample, PutDrops, feed, rollouter, watch, trainer
<1>18. CASE TaskEnds  BY <1>18 DEF TaskEnds, feed, rollouter, watch, mq, trainer
<1>19. CASE MonitorAsk  BY <1>19 DEF MonitorAsk, feed, rollouter, tasks, mq, trainer
<1>20. CASE MonitorDecide  BY <1>20 DEF MonitorDecide, ShouldPause, feed, rollouter, tasks, mq, trainer
<1>21. CASE MonitorResume  BY <1>21 DEF MonitorResume, feed, tasks, mq, trainer
<1>22. CASE TakeSample  BY <1>22 DEF TakeSample, feed, rollouter, tasks, watch
<1>23. CASE TakeEnd  BY <1>23 DEF TakeEnd, feed, rollouter, tasks, watch
<1>24. CASE Train  BY <1>24 DEF Train, feed, rollouter, tasks, watch, mq
<1>25. CASE SyncWeights  BY <1>25 DEF SyncWeights, feed, rollouter, tasks, watch, mq
<1>26. CASE ResetBegin  BY <1>26 DEF ResetBegin, feed, tasks, watch, mq
<1>27. CASE ResetEnd  BY <1>27 DEF ResetEnd, feed, tasks, watch, mq
<1>28. CASE SaveStep  BY <1>28 DEF SaveStep, SaveDue, Steps, feed, rollouter, tasks, watch, mq
<1>30. CASE DrainRaises  BY <1>30 DEF DrainRaises, feed, watch, mq, trainer
<1>31. CASE ReapRaises  BY <1>31 DEF ReapRaises, feed, watch, mq, trainer
<1>32. CASE PutLate  BY <1>32 DEF PutLate, PutDrops, feed, rollouter, watch, trainer
<1>33. CASE TaskRaises  BY <1>33 DEF TaskRaises, feed, rollouter, watch, mq, trainer
<1>29. CASE UNCHANGED vars  BY <1>29 DEF vars, feed, rollouter, tasks, watch, mq, trainer
<1>. QED
  BY <1>1, <1>2, <1>3, <1>4, <1>5, <1>6, <1>7, <1>8, <1>9, <1>10, <1>11, <1>12, <1>13, <1>14, <1>15, <1>16, <1>17, <1>18, <1>19, <1>20, <1>21, <1>22, <1>23, <1>24, <1>25, <1>26, <1>27, <1>28, <1>29, <1>30, <1>31, <1>32, <1>33
     DEF Next, Processor, Monitor, Trainer

-----------------------------------------------------------------------------
\* Every step keeps checkpoints and synced versions in line.
LEMMA SavedStep == TypeOK /\ PlaceInv /\ SaveInv /\ SavedIsSynced /\ [Next]_vars => (SaveInv /\ SavedIsSynced)'
<1>. SUFFICES ASSUME TypeOK, PlaceInv, SaveInv, SavedIsSynced, [Next]_vars PROVE (SaveInv /\ SavedIsSynced)'  OBVIOUS
<1>. USE ConstantTypes DEF TypeOK, PlaceInv, SaveInv, SavedIsSynced
<1>1. CASE FeedSample  BY <1>1 DEF FeedSample, rollouter, tasks, watch, mq, trainer
<1>2. CASE FeedEnd  BY <1>2 DEF FeedEnd, rollouter, tasks, watch, mq, trainer
<1>3. CASE AskQueue  BY <1>3 DEF AskQueue, feed, tasks, watch, mq, trainer
<1>4. CASE Decide  BY <1>4 DEF Decide, ShouldPause, feed, tasks, watch, mq, trainer
<1>5. CASE Pause  BY <1>5 DEF Pause, feed, tasks, watch, mq, trainer
<1>6. CASE Drain  BY <1>6 DEF Drain, feed, rollouter, watch, mq, trainer
<1>7. CASE Resume  BY <1>7 DEF Resume, feed, tasks, watch, mq, trainer
<1>8. CASE GetSample  BY <1>8 DEF GetSample, tasks, watch, mq, trainer
<1>9. CASE GetEnd  BY <1>9 DEF GetEnd, tasks, watch, mq, trainer
<1>10. CASE AtLimit  BY <1>10 DEF AtLimit, feed, tasks, watch, mq, trainer
<1>11. CASE Reap  BY <1>11 DEF Reap, feed, watch, mq, trainer
<1>12. CASE BelowLimit  BY <1>12 DEF BelowLimit, feed, tasks, watch, mq, trainer
<1>13. CASE Submit  BY <1>13 DEF Submit, feed, watch, mq, trainer
<1>14. CASE FinishWait  BY <1>14 DEF FinishWait, feed, tasks, watch, mq, trainer
<1>15. CASE Finish  BY <1>15 DEF Finish, feed, tasks, watch, mq, trainer
<1>16. CASE EndStream  BY <1>16 DEF EndStream, PutDrops, feed, tasks, watch, trainer
<1>17. CASE PutSample  BY <1>17 DEF PutSample, PutDrops, feed, rollouter, watch, trainer
<1>18. CASE TaskEnds  BY <1>18 DEF TaskEnds, feed, rollouter, watch, mq, trainer
<1>19. CASE MonitorAsk  BY <1>19 DEF MonitorAsk, feed, rollouter, tasks, mq, trainer
<1>20. CASE MonitorDecide  BY <1>20 DEF MonitorDecide, ShouldPause, feed, rollouter, tasks, mq, trainer
<1>21. CASE MonitorResume  BY <1>21 DEF MonitorResume, feed, tasks, mq, trainer
<1>22. CASE TakeSample  BY <1>22 DEF TakeSample, feed, rollouter, tasks, watch
<1>23. CASE TakeEnd  BY <1>23 DEF TakeEnd, feed, rollouter, tasks, watch
<1>24. CASE Train  BY <1>24 DEF Train, feed, rollouter, tasks, watch, mq
<1>25. CASE SyncWeights  BY <1>25 DEF SyncWeights, feed, rollouter, tasks, watch, mq
<1>26. CASE ResetBegin  BY <1>26 DEF ResetBegin, feed, tasks, watch, mq
<1>27. CASE ResetEnd  BY <1>27 DEF ResetEnd, feed, tasks, watch, mq
<1>28. CASE SaveStep
  <2>. DEFINE base == version * Trigger
  <2>1. /\ tpc = "save" /\ tpc' = (IF ending THEN "stopped" ELSE "collect")
        /\ UNCHANGED <<ending, version, localStep>>
    BY <1>28 DEF SaveStep
  <2>2. PICK expiring \in BOOLEAN :
          ckpt' = IF SaveDue(expiring) THEN [version |-> version, steps |-> Steps] ELSE ckpt
    BY <1>28 DEF SaveStep
  <2>3. base \in Nat /\ Steps = base + localStep - 1 /\ localStep \in 1 .. Trigger  BY DEF Steps
  <2>4. CASE SaveDue(expiring)
    <3>1. ckpt'.version = version /\ ckpt'.steps = base + localStep - 1  BY <2>2, <2>3, <2>4
    <3>2. version % SaveFreq = 0 => localStep = 1  BY <2>4 DEF SaveDue
    <3>. HIDE DEF base
    <3>3. ckpt'.steps - base \in 0 .. Trigger - 1 /\ (localStep = 1 => ckpt'.steps = base)
      BY <2>3, <3>1
    <3>. HIDE DEF TypeOK
    <3>. QED  BY <2>1, <3>1, <3>2, <3>3 DEF base
  <2>5. CASE ~SaveDue(expiring)
    <3>1. ckpt' = ckpt  BY <2>2, <2>5
    <3>2. ckpt.version = version \/ SaveFreq = 0 \/ (version % SaveFreq # 0 /\ ~ending)
      BY <2>5 DEF SaveDue
    <3>. HIDE DEF TypeOK
    <3>. QED  BY <2>1, <3>1, <3>2
  <2>. QED  BY <2>4, <2>5
<1>30. CASE DrainRaises  BY <1>30 DEF DrainRaises, feed, watch, mq, trainer
<1>31. CASE ReapRaises  BY <1>31 DEF ReapRaises, feed, watch, mq, trainer
<1>32. CASE PutLate  BY <1>32 DEF PutLate, PutDrops, feed, rollouter, watch, trainer
<1>33. CASE TaskRaises  BY <1>33 DEF TaskRaises, feed, rollouter, watch, mq, trainer
<1>29. CASE UNCHANGED vars  BY <1>29 DEF vars, feed, rollouter, tasks, watch, mq, trainer
<1>. QED
  BY <1>1, <1>2, <1>3, <1>4, <1>5, <1>6, <1>7, <1>8, <1>9, <1>10, <1>11, <1>12, <1>13, <1>14, <1>15, <1>16, <1>17, <1>18, <1>19, <1>20, <1>21, <1>22, <1>23, <1>24, <1>25, <1>26, <1>27, <1>28, <1>29, <1>30, <1>31, <1>32, <1>33
     DEF Next, Processor, Monitor, Trainer

-----------------------------------------------------------------------------
\* Every step keeps the lock with who may hold it.
LEMMA LockStep == TypeOK /\ PlaceInv /\ AccountInv /\ LockInv /\ [Next]_vars => LockInv'
<1>. SUFFICES ASSUME TypeOK, PlaceInv, LockInv, [Next]_vars PROVE LockInv'  OBVIOUS
<1>. USE ConstantTypes DEF TypeOK, PlaceInv, LockInv, Active
<1>1. CASE FeedSample  BY <1>1 DEF FeedSample, rollouter, tasks, watch, mq, trainer
<1>2. CASE FeedEnd  BY <1>2 DEF FeedEnd, rollouter, tasks, watch, mq, trainer
<1>3. CASE AskQueue  BY <1>3 DEF AskQueue, feed, tasks, watch, mq, trainer
<1>4. CASE Decide  BY <1>4 DEF Decide, ShouldPause, feed, tasks, watch, mq, trainer
<1>5. CASE Pause  BY <1>5 DEF Pause, feed, tasks, watch, mq, trainer
<1>6. CASE Drain  BY <1>6 DEF Drain, feed, rollouter, watch, mq, trainer
<1>7. CASE Resume  BY <1>7 DEF Resume, feed, tasks, watch, mq, trainer
<1>8. CASE GetSample  BY <1>8 DEF GetSample, tasks, watch, mq, trainer
<1>9. CASE GetEnd  BY <1>9 DEF GetEnd, tasks, watch, mq, trainer
<1>10. CASE AtLimit  BY <1>10 DEF AtLimit, feed, tasks, watch, mq, trainer
<1>11. CASE Reap  BY <1>11 DEF Reap, feed, watch, mq, trainer
<1>12. CASE BelowLimit  BY <1>12 DEF BelowLimit, feed, tasks, watch, mq, trainer
<1>13. CASE Submit  BY <1>13 DEF Submit, feed, watch, mq, trainer
<1>14. CASE FinishWait  BY <1>14 DEF FinishWait, feed, tasks, watch, mq, trainer
<1>15. CASE Finish  BY <1>15 DEF Finish, feed, tasks, watch, mq, trainer
<1>16. CASE EndStream  BY <1>16 DEF EndStream, PutDrops, feed, tasks, watch, trainer
<1>17. CASE PutSample  BY <1>17 DEF PutSample, PutDrops, feed, rollouter, watch, trainer
<1>18. CASE TaskEnds  BY <1>18 DEF TaskEnds, feed, rollouter, watch, mq, trainer
<1>19. CASE MonitorAsk  BY <1>19 DEF MonitorAsk, feed, rollouter, tasks, mq, trainer
<1>20. CASE MonitorDecide  BY <1>20 DEF MonitorDecide, ShouldPause, feed, rollouter, tasks, mq, trainer
<1>21. CASE MonitorResume  BY <1>21 DEF MonitorResume, feed, tasks, mq, trainer
<1>22. CASE TakeSample  BY <1>22 DEF TakeSample, feed, rollouter, tasks, watch
<1>23. CASE TakeEnd  BY <1>23 DEF TakeEnd, feed, rollouter, tasks, watch
<1>24. CASE Train  BY <1>24 DEF Train, feed, rollouter, tasks, watch, mq
<1>25. CASE SyncWeights  BY <1>25 DEF SyncWeights, feed, rollouter, tasks, watch, mq
<1>26. CASE ResetBegin  BY <1>26 DEF ResetBegin, feed, tasks, watch, mq
<1>27. CASE ResetEnd  BY <1>27 DEF ResetEnd, feed, tasks, watch, mq
<1>28. CASE SaveStep  BY <1>28 DEF SaveStep, SaveDue, Steps, feed, rollouter, tasks, watch, mq
<1>30. CASE DrainRaises  BY <1>30 DEF DrainRaises, feed, watch, mq, trainer
<1>31. CASE ReapRaises  BY <1>31 DEF ReapRaises, feed, watch, mq, trainer
<1>32. CASE PutLate  BY <1>32 DEF PutLate, PutDrops, feed, rollouter, watch, trainer
<1>33. CASE TaskRaises  BY <1>33 DEF TaskRaises, feed, rollouter, watch, mq, trainer
<1>29. CASE UNCHANGED vars  BY <1>29 DEF vars, feed, rollouter, tasks, watch, mq, trainer
<1>. QED
  BY <1>1, <1>2, <1>3, <1>4, <1>5, <1>6, <1>7, <1>8, <1>9, <1>10, <1>11, <1>12, <1>13, <1>14, <1>15, <1>16, <1>17, <1>18, <1>19, <1>20, <1>21, <1>22, <1>23, <1>24, <1>25, <1>26, <1>27, <1>28, <1>29, <1>30, <1>31, <1>32, <1>33
     DEF Next, Processor, Monitor, Trainer

-----------------------------------------------------------------------------
\* What the trainer has taken grows by the samples it takes, and starts again
\* with a reset.  When it waits for a sample it has not taken a period's worth.
LEMMA TakenFrame ==
  ASSUME TypeOK, PlaceInv
  PROVE  /\ Taken \in Nat
         /\ UNCHANGED <<tpc, have, localStep>> => Taken' = Taken
         /\ TakeSample => Taken' = Taken + 1
         /\ Train \/ SyncWeights \/ ResetBegin \/ SaveStep => Taken' = Taken
         /\ ResetEnd => Taken' \in Nat
         /\ tpc = "collect" => Taken < Required * Trigger
<1>. USE ConstantTypes
<1>. DEFINE Period == Required * Trigger
           Before(n) == Required * (n - 1)
<1>1. /\ localStep \in Nat /\ localStep > 0 /\ localStep <= Trigger
      /\ have \in Nat /\ have <= Required
  BY DEF TypeOK
<1>2. Period \in Nat /\ Before(localStep) \in Nat /\ Before(localStep) + Required <= Period
  <2>1. localStep - 1 \in Nat /\ Trigger - localStep \in Nat  BY <1>1
  <2>2. Period = Before(localStep) + Required + Required * (Trigger - localStep)  BY <1>1
  <2>3. Required * (Trigger - localStep) \in Nat  BY <2>1
  <2>4. Before(localStep) \in Nat  BY <2>1
  <2>. QED  BY <2>2, <2>3, <2>4
<1>3. /\ Before(Trigger) + Required = Period
      /\ Before(localStep + 1) = Before(localStep) + Required
      /\ Before(1) = 0
  BY <1>1
<1>4. /\ Taken  = IF Resetting THEN Period ELSE Before(localStep) + have
      /\ Taken' = IF Resetting' THEN Period ELSE Before(localStep') + have'
  BY DEF Taken
<1>. HIDE DEF Period, Before
<1>5. Taken \in Nat  BY <1>1, <1>2, <1>4
<1>6. UNCHANGED <<tpc, have, localStep>> => Taken' = Taken  BY <1>4 DEF Resetting
<1>7. TakeSample => Taken' = Taken + 1
  BY <1>1, <1>2, <1>4 DEF TakeSample, Resetting
<1>8. ASSUME Train  PROVE Taken' = Taken
  <2>1. have = Required /\ have' = 0 /\ ~Resetting  BY <1>8 DEF Train, PlaceInv, Resetting
  <2>2. CASE localStep < Trigger
    BY <1>8, <2>1, <2>2, <1>1, <1>2, <1>3, <1>4 DEF Train, Resetting
  <2>3. CASE ~(localStep < Trigger)
    <3>1. localStep = Trigger /\ Resetting'  BY <1>8, <2>3, <1>1 DEF Train, Resetting
    <3>. QED  BY <2>1, <3>1, <1>2, <1>3, <1>4
  <2>. QED  BY <2>2, <2>3
<1>9. SyncWeights \/ ResetBegin \/ SaveStep => Taken' = Taken
  BY <1>4 DEF SyncWeights, ResetBegin, SaveStep, Resetting
<1>10. ResetEnd => Taken' \in Nat
  BY <1>1, <1>2, <1>4 DEF ResetEnd, Resetting
<1>11. tpc = "collect" => Taken < Period
  BY <1>1, <1>2, <1>4 DEF PlaceInv, Resetting
<1>. QED  BY <1>5, <1>6, <1>7, <1>8, <1>9, <1>10, <1>11 DEF Period

\* Every step keeps the flow of samples.
LEMMA FlowStep == TypeOK /\ PlaceInv /\ LockInv /\ FlowInv /\ [Next]_vars => FlowInv'
<1>. SUFFICES ASSUME TypeOK, PlaceInv, LockInv, FlowInv, [Next]_vars PROVE FlowInv'  OBVIOUS
<1>. USE ConstantTypes, TakenFrame DEF TypeOK, PlaceInv, EndKept, FlowInv, LockInv, Outstanding, Active, QueueSize
<1>1. CASE FeedSample  BY <1>1 DEF FeedSample, rollouter, tasks, watch, mq, trainer
<1>2. CASE FeedEnd  BY <1>2 DEF FeedEnd, rollouter, tasks, watch, mq, trainer
<1>3. CASE AskQueue  BY <1>3 DEF AskQueue, feed, tasks, watch, mq, trainer
<1>4. CASE Decide  BY <1>4 DEF Decide, ShouldPause, feed, tasks, watch, mq, trainer
<1>5. CASE Pause  BY <1>5 DEF Pause, feed, tasks, watch, mq, trainer
<1>6. CASE Drain  BY <1>6 DEF Drain, feed, rollouter, watch, mq, trainer
<1>7. CASE Resume  BY <1>7 DEF Resume, feed, tasks, watch, mq, trainer
<1>8. CASE GetSample  BY <1>8 DEF GetSample, tasks, watch, mq, trainer
<1>9. CASE GetEnd  BY <1>9 DEF GetEnd, tasks, watch, mq, trainer
<1>10. CASE AtLimit  BY <1>10 DEF AtLimit, feed, tasks, watch, mq, trainer
<1>11. CASE Reap  BY <1>11 DEF Reap, feed, watch, mq, trainer
<1>12. CASE BelowLimit  BY <1>12 DEF BelowLimit, feed, tasks, watch, mq, trainer
<1>13. CASE Submit  BY <1>13 DEF Submit, feed, watch, mq, trainer
<1>14. CASE FinishWait  BY <1>14 DEF FinishWait, feed, tasks, watch, mq, trainer
<1>15. CASE Finish  BY <1>15 DEF Finish, feed, tasks, watch, mq, trainer
<1>16. CASE EndStream  BY <1>16 DEF EndStream, PutDrops, feed, tasks, watch, trainer
<1>17. CASE PutSample  BY <1>17 DEF PutSample, PutDrops, feed, rollouter, watch, trainer
<1>18. CASE TaskEnds  BY <1>18 DEF TaskEnds, feed, rollouter, watch, mq, trainer
<1>19. CASE MonitorAsk  BY <1>19 DEF MonitorAsk, feed, rollouter, tasks, mq, trainer
<1>20. CASE MonitorDecide  BY <1>20 DEF MonitorDecide, ShouldPause, feed, rollouter, tasks, mq, trainer
<1>21. CASE MonitorResume  BY <1>21 DEF MonitorResume, feed, tasks, mq, trainer
<1>22. CASE TakeSample  BY <1>22 DEF TakeSample, feed, rollouter, tasks, watch
<1>23. CASE TakeEnd  BY <1>23 DEF TakeEnd, feed, rollouter, tasks, watch
<1>24. CASE Train  BY <1>24 DEF Train, feed, rollouter, tasks, watch, mq
<1>25. CASE SyncWeights  BY <1>25 DEF SyncWeights, feed, rollouter, tasks, watch, mq
<1>26. CASE ResetBegin  BY <1>26 DEF ResetBegin, feed, tasks, watch, mq
<1>27. CASE ResetEnd  BY <1>27 DEF ResetEnd, feed, tasks, watch, mq
<1>28. CASE SaveStep  BY <1>28 DEF SaveStep, SaveDue, Steps, feed, rollouter, tasks, watch, mq
<1>30. CASE DrainRaises  BY <1>30 DEF DrainRaises, feed, watch, mq, trainer
<1>31. CASE ReapRaises  BY <1>31 DEF ReapRaises, feed, watch, mq, trainer
<1>32. CASE PutLate  BY <1>32 DEF PutLate, PutDrops, feed, rollouter, watch, trainer
<1>33. CASE TaskRaises  BY <1>33 DEF TaskRaises, feed, rollouter, watch, mq, trainer
<1>29. CASE UNCHANGED vars  BY <1>29 DEF vars, feed, rollouter, tasks, watch, mq, trainer
<1>. QED
  BY <1>1, <1>2, <1>3, <1>4, <1>5, <1>6, <1>7, <1>8, <1>9, <1>10, <1>11, <1>12, <1>13, <1>14, <1>15, <1>16, <1>17, <1>18, <1>19, <1>20, <1>21, <1>22, <1>23, <1>24, <1>25, <1>26, <1>27, <1>28, <1>29, <1>30, <1>31, <1>32, <1>33
     DEF Next, Processor, Monitor, Trainer

-----------------------------------------------------------------------------
(* The theorems.                                                             *)

\* Every reachable state satisfies the inductive invariant.
THEOREM Invariant == Spec => []IInv
<1>1. Init => IInv  BY InitInv
<1>2. IInv /\ [Next]_vars => IInv'
  BY TypeStep, PlaceStep, BudgetStep, AccountStep, SavedStep, LockStep, FlowStep DEF IInv
<1>. QED  BY <1>1, <1>2, PTL DEF Spec

\* The types hold: tasks never exceed their limit, nor samples the queue.
THEOREM TypeCorrect == Spec => []TypeOK
<1>1. IInv => TypeOK  BY DEF IInv
<1>. QED  BY <1>1, Invariant, PTL

\* The Rollouter exceeds its budget between two weight syncs by one sample at
\* most, for every queue size, number of tasks and sync period.
THEOREM BudgetAlmostKept == Spec => []BudgetOverByOne
<1>1. IInv => BudgetOverByOne
  BY ConstantTypes DEF IInv, BudgetInv, BudgetOverByOne, Over, TypeOK
<1>. QED  BY <1>1, Invariant, PTL

\* At most one sample is dropped per weight sync, and one for the end signal.
THEOREM FewSamplesLost == Spec => []OneLostPerSync
<1>1. IInv => OneLostPerSync  BY DEF IInv, BudgetInv
<1>. QED  BY <1>1, Invariant, PTL

\* When the trainer stops and no task has raised, it has used every sample but
\* the dropped ones and a rest too small for a step.
THEOREM AllSamplesUsedCorrect == Spec => []AllSamplesUsed
<1>1. ASSUME IInv, tpc = "stopped", ~crashed  PROVE Required * Steps + dropped + Required > Total
  <2>1. TypeOK /\ PlaceInv /\ AccountInv  BY <1>1 DEF IInv
  <2>2. Used \in Nat  BY <2>1, UsedFrame
  <2>3. Used + dropped + Required > Total
    BY <1>1, <2>1, <2>2, ConstantTypes DEF TypeOK, PlaceInv, AccountInv, Outstanding
  <2>. QED  BY <2>3 DEF Used
<1>2. IInv => AllSamplesUsed  BY <1>1 DEF AllSamplesUsed
<1>. QED  BY <1>2, Invariant, PTL

\* Samples that come in behind the end signal never push it out of the queue.
THEOREM EndSignalKept == Spec => []EndKept
<1>1. IInv => EndKept  BY DEF IInv, PlaceInv
<1>. QED  BY <1>1, Invariant, PTL

\* A checkpoint of a version due by its number holds the weights the Rollouter
\* knows as that version; one saved early holds less than a sync period of steps
\* more; and the version reached is saved when fit is over (_fit_save_checkpoint).
THEOREM CheckpointsAreSynced == Spec => []SavedIsSynced
<1>1. IInv => SavedIsSynced  BY DEF IInv
<1>. QED  BY <1>1, Invariant, PTL

\* The processor holds the lock only while it waits for a task there is, and the
\* reset only while it counts: who wants the lock gets it, or waits for a task.
LockPasses ==
  /\ lock = "processor" => pc = "reap" /\ Active > 0
  /\ lock = "reset" => tpc = "count"

\* reset_staleness never waits for a lock that is lost or whose holder waits for
\* nothing, also when the holder raises.
THEOREM LockComesBack == Spec => []LockPasses
<1>1. IInv => LockPasses  BY DEF IInv, LockInv, LockPasses
<1>. QED  BY <1>1, Invariant, PTL

\* The trainer waits for a sample: the queue is empty.
Awaits == tpc = "collect" /\ queue = 0 /\ ~endQueued

\* A task is at work, or the processor or who it waits for can take a step: the
\* feed for an empty pending queue, a task that is over for the lock, and for a
\* pause the monitor, which finds a reason to end it.
GoesOn ==
  \/ generating + landed > 0
  \/ pc \in {"check", "decide", "ended"}
  \/ pc \in {"pause", "limit", "submit", "finish"} /\ lock = "free" /\ ~paused
  \/ pc = "get" /\ (pending > 0 \/ fed < Total \/ endFed # "taken")
  \/ pc = "reap" /\ done + failed > 0
  \/ pc = "drain" /\ lock = "free" /\ (event \/ failed > 0 \/ ~ShouldPause(QueueSize))
NeverStarved == Awaits => GoesOn

\* README: trainer continues to consume.  It never waits for a Rollouter that is
\* paused for good: with room for the tasks beside the samples of a sync period
\* the staleness counter cannot stay full while the trainer has nothing to take,
\* although it counts tasks that are over.
THEOREM TrainerNeverStarved == TaskRoom /\ Spec => []NeverStarved
<1>. SUFFICES ASSUME TaskRoom PROVE Spec => []NeverStarved  OBVIOUS
<1>1. ASSUME IInv, Awaits  PROVE GoesOn
  <2>. USE ConstantTypes
  <2>1. /\ TypeOK /\ PlaceInv /\ LockInv /\ FlowInv /\ AccountInv  BY <1>1 DEF IInv
  <2>2. tpc = "collect" /\ queue = 0 /\ ~endQueued /\ ~ending
    BY <1>1, <2>1 DEF Awaits, PlaceInv
  <2>3. pc # "over"  BY <2>1, <2>2 DEF PlaceInv, EndKept
  <2>4. lock \in {"free", "processor"} /\ (lock = "processor" => pc = "reap")
    BY <2>1, <2>2 DEF TypeOK, LockInv
  <2>5. CASE pc = "reap"
    BY <2>1, <2>5 DEF LockInv, TypeOK, Active, GoesOn
  <2>6. CASE pc = "get"
    BY <2>1, <2>6 DEF LockInv, GoesOn
  <2>7. CASE pc \notin {"reap", "get", "drain"}
    BY <2>1, <2>3, <2>4, <2>7 DEF LockInv, TypeOK, GoesOn
  <2>8. CASE pc = "drain"
    <3>. SUFFICES ASSUME generating = 0, landed = 0, failed = 0  PROVE ~ShouldPause(QueueSize)
      BY <2>1, <2>4, <2>8 DEF TypeOK, GoesOn
    <3>1. ~crashed /\ endFed # "taken" /\ held = 0 /\ late = 0
      BY <2>1, <2>8 DEF LockInv, PlaceInv, TypeOK
    <3>2. Outstanding = 0 /\ QueueSize = 0  BY <2>2, <3>1 DEF Outstanding, QueueSize
    <3>3. Taken \in Nat /\ Taken < Required * Trigger  BY <2>1, <2>2, TakenFrame
    <3>4. Required * Trigger \in Nat /\ MaxConcurrent + Required * Trigger <= MaxRequired
      BY DEF TaskRoom
    <3>. DEFINE Period == Required * Trigger
    <3>. HIDE DEF Period
    <3>5. MaxConcurrent + Taken < MaxRequired  BY <3>3, <3>4 DEF Period
    <3>6. ahead \in Nat /\ staleness \in Nat  BY <2>1 DEF TypeOK
    <3>7. ~(ahead - Outstanding - Taken > failed)
      BY <2>1, <2>2, <2>3, <3>1, <3>3, <3>5 DEF FlowInv
    <3>8. ahead <= Taken  BY <3>2, <3>3, <3>6, <3>7
    <3>9. staleness <= ahead + MaxConcurrent  BY <2>1, <2>3, <3>1, <3>6 DEF FlowInv
    <3>10. staleness < MaxRequired  BY <3>3, <3>5, <3>6, <3>8, <3>9
    <3>11. ~(0 >= MaxRequired) /\ ~(staleness >= MaxRequired)  BY <3>3, <3>5, <3>6, <3>10
    <3>. QED  BY <3>2, <3>11 DEF ShouldPause
  <2>. QED  BY <2>5, <2>6, <2>7, <2>8
<1>2. IInv => NeverStarved  BY <1>1 DEF NeverStarved
<1>. QED  BY <1>2, Invariant, PTL
=============================================================================
