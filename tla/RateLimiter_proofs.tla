------------------------ MODULE RateLimiter_proofs -------------------------
(***************************************************************************)
(* Proofs about RateLimiter, for any requests, costs, windows and limits:  *)
(* the types, the rate and the sleeps of the buckets, and the limit on     *)
(* calls.                                                                  *)
(*                                                                         *)
(* The rate rests on a ledger: what the watched requests have taken, plus  *)
(* what the bucket has now, is at most a second's tokens and the ticks     *)
(* since (Ledger); so whoever took tokens as the i-th has only to sleep    *)
(* until i requests are paid for (Owed).  The limit on calls rests on the  *)
(* semaphore's count (PermitsCounted), and that on nobody being twice in   *)
(* its line (InLine) or decoded twice (DecodedOnce).  Nobody is lost: who  *)
(* waits for a thread or a permit is in the line for it (WaitsThere).      *)
(***************************************************************************)
EXTENDS RateLimiter, FiniteSetTheorems, TLAPS

Typed ==
    /\ async \in BOOLEAN
    /\ pc \in [Reqs -> Places]
    /\ timer \in [Reqs -> Nat]
    /\ tokens \in [Buckets -> {n \in Int : n <= Second}]
    /\ elapsed \in [Buckets -> Nat]
    /\ jobs \in Seq(Jobs)
    /\ decoding \subseteq Reqs
    /\ calls \subseteq Reqs
    /\ line \in Seq(Reqs)
    /\ permits \in Nat
    /\ since \in 0..Window
    /\ took \in Seq(Reqs)

(* A timer runs only where a request sleeps or calls.                      *)
TimersRunOut ==
    \A r \in Reqs : timer[r] > 0 => pc[r] \notin {"new", "decode", "line", "done"}

(* A response is decoded by one job, while its request waits for it.       *)
DecodedOnce ==
    /\ \A r \in decoding : pc[r] = "decode"
    /\ \A i \in 1..Len(jobs) : jobs[i][2] = "decode" =>
          /\ pc[jobs[i][1]] = "decode"
          /\ jobs[i][1] \notin decoding
          /\ \A j \in 1..Len(jobs) :
                jobs[j][2] = "decode" /\ jobs[j][1] = jobs[i][1] => i = j

(* The line holds requests at the semaphore, each once.                    *)
InLine ==
    /\ \A i \in 1..Len(line) : pc[line[i]] = "line"
    /\ \A i, j \in 1..Len(line) : line[i] = line[j] => i = j

Calling == {r \in Reqs : pc[r] = "call"}

PermitsCounted == permits + Cardinality(Calling) = MaxConcurrent

(* Only a coroutine's own request keeps it running.                        *)
CoroutinesAwaited == async => \A r \in calls : pc[r] = "call"

Ledger == Len(took) * Cost[Watched] + Refilled(Watched) <= Second + since

(* What a request that took tokens ahead still has to sleep.               *)
Remaining == [r \in Reqs |-> IF pc[r] = Paid[Watched] THEN timer[r] ELSE 0]

Owed == \A i \in 1..Len(took) : i * Cost[Watched] <= Second + since + Remaining[took[i]]

-----------------------------------------------------------------------------
LEMMA CostType ==
    /\ Cost \in [Buckets -> Nat]
    /\ Paid["rpm"] = "rpm_paid" /\ Paid["tpm"] = "tpm_paid"
    /\ After["rpm"] = "tpm" /\ After["tpm"] = "line"
    /\ Buckets = {"rpm", "tpm"} /\ Watched \in Buckets
BY SettingsAssumption DEF Cost, Buckets, Paid, After

(* The refill leaves no more than a second's tokens, and invents none.     *)
LEMMA RefilledBounds ==
    ASSUME Typed, NEW b \in Buckets
    PROVE  /\ Refilled(b) \in Int
           /\ Refilled(b) <= Second
           /\ Refilled(b) <= tokens[b] + elapsed[b]
BY SettingsAssumption DEF Typed, Refilled

LEMMA InitTyped == Init => Typed
BY SettingsAssumption DEF Init, Typed, Places, Buckets, Jobs

(* Types are kept, action by action.                                       *)
LEMMA TypedStep == Typed /\ [Next]_vars => Typed'
<1> SUFFICES ASSUME Typed, [Next]_vars PROVE Typed'
  OBVIOUS
<1> USE SettingsAssumption DEF Typed, bucketVars, poolVars, watchVars
<1>1. ASSUME NEW r \in Reqs, Arrive(r) PROVE Typed'
  <2>1. <<r, "decode">> \in Jobs
    BY DEF Jobs
  <2>2. jobs' \in Seq(Jobs)
    BY <1>1, <2>1 DEF Arrive
  <2> QED BY <1>1, <2>2 DEF Arrive, Places
<1>2. ASSUME StartJob PROVE Typed'
  <2>1. jobs # <<>> /\ Head(jobs) \in Jobs /\ Tail(jobs) \in Seq(Jobs)
    BY <1>2 DEF StartJob
  <2>2. Head(jobs)[1] \in Reqs
    BY <2>1 DEF Jobs
  <2> QED BY <1>2, <2>1, <2>2 DEF StartJob
<1>3. ASSUME NEW r \in Reqs, Decoded(r) PROVE Typed'
  BY <1>3 DEF Decoded, Places
<1>4. ASSUME NEW r \in Reqs, NEW b \in Buckets, Acquire(r, b) PROVE Typed'
  <2>0. Refilled(b) \in Int /\ Refilled(b) <= Second /\ Cost[b] \in Nat
    BY RefilledBounds, CostType
  <2>1. CASE TakeTokens(r, b)
    <3>1. /\ tokens' \in [Buckets -> {n \in Int : n <= Second}]
          /\ elapsed' \in [Buckets -> Nat]
      <4>1. Refilled(b) - Cost[b] \in {n \in Int : n <= Second}
        BY <2>0
      <4> QED BY <2>1, <4>1 DEF TakeTokens, SetTokens
    <3>2. pc' = [pc EXCEPT ![r] = After[b]] /\ line' \in Seq(Reqs)
      BY <2>1 DEF TakeTokens, Leave
    <3>3. After[b] \in Places
      BY CostType DEF Places
    <3>4. took' \in Seq(Reqs) /\ UNCHANGED since
      BY <2>1 DEF TakeTokens, Note
    <3> QED BY <2>0, <2>1, <3>1, <3>2, <3>3, <3>4 DEF TakeTokens
  <2>2. CASE SleepForTokens(r, b)
    <3>1. /\ tokens' = [tokens EXCEPT ![b] = Refilled(b)]
          /\ elapsed' = [elapsed EXCEPT ![b] = 0]
      BY <2>2 DEF SleepForTokens, SetTokens
    <3>2. Cost[b] - Refilled(b) \in Nat
      BY <2>0, <2>2 DEF SleepForTokens
    <3> QED BY <2>0, <2>2, <3>1, <3>2 DEF SleepForTokens
  <2>3. CASE TakeAhead(r, b)
    <3>1. /\ tokens' \in [Buckets -> {n \in Int : n <= Second}]
          /\ elapsed' \in [Buckets -> Nat]
      <4>1. Refilled(b) - Cost[b] \in {n \in Int : n <= Second}
        BY <2>0
      <4> QED BY <2>3, <4>1 DEF TakeAhead, SetTokens
    <3>2. Cost[b] - Refilled(b) \in Nat
      BY <2>0, <2>3 DEF TakeAhead
    <3>3. Paid[b] \in Places
      BY CostType DEF Places
    <3>4. took' \in Seq(Reqs) /\ UNCHANGED since
      BY <2>3 DEF TakeAhead, Note
    <3> QED BY <2>0, <2>3, <3>1, <3>2, <3>3, <3>4 DEF TakeAhead
  <2>4. CASE Slept(r, b)
    <3>1. pc' = [pc EXCEPT ![r] = After[b]] /\ line' \in Seq(Reqs)
      BY <2>4 DEF Slept, Leave
    <3>2. After[b] \in Places
      BY CostType DEF Places
    <3> QED BY <2>4, <3>1, <3>2 DEF Slept
  <2> QED BY <1>4, <2>1, <2>2, <2>3, <2>4 DEF Acquire
<1>5. ASSUME StartCall PROVE Typed'
  <2>1. Head(line) \in Reqs /\ Tail(line) \in Seq(Reqs)
    BY <1>5 DEF StartCall
  <2>2. jobs' \in Seq(Jobs) /\ calls' \subseteq Reqs
    <3>1. <<Head(line), "score">> \in Jobs
      BY <2>1 DEF Jobs
    <3>2. CASE async
      BY <1>5, <2>1, <3>2 DEF StartCall
    <3>3. CASE ~async
      <4>1. jobs' = Append(jobs, <<Head(line), "score">>) /\ calls' = calls
        BY <1>5, <3>3 DEF StartCall
      <4> QED BY <3>1, <4>1
    <3> QED BY <3>2, <3>3
  <2> QED BY <1>5, <2>1, <2>2 DEF StartCall, Places
<1>6. ASSUME NEW r \in Reqs, Answer(r) PROVE Typed'
  BY <1>6 DEF Answer, Return, Places
<1>7. ASSUME NEW r \in Reqs, TimedOut(r) PROVE Typed'
  BY <1>7 DEF TimedOut, Return, Places
<1>8. ASSUME NEW r \in Reqs, LateAnswer(r) PROVE Typed'
  BY <1>8 DEF LateAnswer
<1>9. ASSUME Tick PROVE Typed'
  <2>1. timer' \in [Reqs -> Nat]
    BY <1>9 DEF Tick
  <2>2. elapsed' \in [Buckets -> Nat]
    BY <1>9 DEF Tick
  <2>3. since' \in 0..Window /\ took' \in Seq(Reqs)
    <3>1. CASE since < Window /\ since' = since + 1 /\ UNCHANGED took
      BY <3>1
    <3>2. CASE since' = 0 /\ took' = <<>>
      BY <3>2
    <3> QED BY <1>9, <3>1, <3>2 DEF Tick
  <2> QED BY <1>9, <2>1, <2>2, <2>3 DEF Tick
<1>10. ASSUME UNCHANGED vars PROVE Typed'
  BY <1>10 DEF vars
<1> QED BY <1>1, <1>2, <1>3, <1>4, <1>5, <1>6, <1>7, <1>8, <1>9, <1>10 DEF Next

-----------------------------------------------------------------------------
(* Timers are set by sleepers and calls and are over when these go on.     *)
LEMMA TimersStep == Typed /\ TimersRunOut /\ [Next]_vars => TimersRunOut'
<1> SUFFICES ASSUME Typed, TimersRunOut, [Next]_vars, NEW s \in Reqs, timer'[s] > 0
             PROVE  pc'[s] \notin {"new", "decode", "line", "done"}
  BY DEF TimersRunOut
<1> USE DEF Typed, TimersRunOut, bucketVars, poolVars, watchVars
<1>1. ASSUME NEW r \in Reqs, Arrive(r) PROVE pc'[s] \notin {"new", "decode", "line", "done"}
  BY <1>1 DEF Arrive
<1>2. CASE StartJob
  BY <1>2 DEF StartJob
<1>3. ASSUME NEW r \in Reqs, Decoded(r) PROVE pc'[s] \notin {"new", "decode", "line", "done"}
  BY <1>3 DEF Decoded
<1>4. ASSUME NEW r \in Reqs, NEW b \in Buckets, Acquire(r, b)
      PROVE pc'[s] \notin {"new", "decode", "line", "done"}
  <2>1. CASE TakeTokens(r, b)
    BY <2>1, CostType DEF TakeTokens, Leave
  <2>2. CASE SleepForTokens(r, b)
    BY <2>2, CostType DEF SleepForTokens
  <2>3. CASE TakeAhead(r, b)
    BY <2>3, CostType DEF TakeAhead
  <2>4. CASE Slept(r, b)
    BY <2>4, CostType DEF Slept, Leave
  <2> QED BY <1>4, <2>1, <2>2, <2>3, <2>4 DEF Acquire
<1>5. CASE StartCall
  BY <1>5 DEF StartCall
<1>6. ASSUME NEW r \in Reqs, Answer(r) PROVE pc'[s] \notin {"new", "decode", "line", "done"}
  BY <1>6 DEF Answer, Return
<1>7. ASSUME NEW r \in Reqs, TimedOut(r) PROVE pc'[s] \notin {"new", "decode", "line", "done"}
  BY <1>7 DEF TimedOut, Return
<1>8. ASSUME NEW r \in Reqs, LateAnswer(r) PROVE pc'[s] \notin {"new", "decode", "line", "done"}
  BY <1>8 DEF LateAnswer
<1>9. CASE Tick
  BY <1>9 DEF Tick
<1>10. CASE UNCHANGED vars
  BY <1>10 DEF vars
<1> QED BY <1>1, <1>2, <1>3, <1>4, <1>5, <1>6, <1>7, <1>8, <1>9, <1>10 DEF Next

(* A response is decoded once.                                             *)
LEMMA DecodedOnceStep == Typed /\ DecodedOnce /\ InLine /\ [Next]_vars => DecodedOnce'
<1> SUFFICES ASSUME Typed, DecodedOnce, InLine, [Next]_vars PROVE DecodedOnce'
  OBVIOUS
<1> USE DEF Typed, bucketVars, poolVars, watchVars
<1>0. /\ \A i \in 1..Len(jobs) : jobs[i][1] \in Reqs
      /\ Len(jobs) \in Nat
  BY DEF Jobs
<1>a. ASSUME NEW r \in Reqs, pc[r] # "decode", NEW p, pc' = [pc EXCEPT ![r] = p],
             decoding' = decoding, UNCHANGED jobs
      PROVE DecodedOnce'
  BY <1>0, <1>a DEF DecodedOnce
<1>1. ASSUME NEW r \in Reqs, Arrive(r) PROVE DecodedOnce'
  <2>1. /\ pc[r] = "new" /\ pc' = [pc EXCEPT ![r] = "decode"]
        /\ jobs' = Append(jobs, <<r, "decode">>) /\ decoding' = decoding
    BY <1>1 DEF Arrive
  <2>2. /\ Len(jobs') = Len(jobs) + 1
        /\ \A i \in 1..Len(jobs) : jobs'[i] = jobs[i]
        /\ jobs'[Len(jobs) + 1] = <<r, "decode">>
    BY <2>1
  <2>3. r \notin decoding
    BY <2>1 DEF DecodedOnce
  <2>4. \A i \in 1..Len(jobs) : jobs[i][2] = "decode" => jobs[i][1] # r
    BY <2>1 DEF DecodedOnce
  <2>5. \A q \in decoding' : pc'[q] = "decode"
    BY <2>1 DEF DecodedOnce
  <2>6. ASSUME NEW i \in 1..Len(jobs'), jobs'[i][2] = "decode"
        PROVE  /\ pc'[jobs'[i][1]] = "decode"
               /\ jobs'[i][1] \notin decoding'
               /\ \A j \in 1..Len(jobs') :
                     jobs'[j][2] = "decode" /\ jobs'[j][1] = jobs'[i][1] => i = j
    <3>1. CASE i = Len(jobs) + 1
      <4>1. jobs'[i][1] = r
        BY <2>2, <3>1
      <4>2. ASSUME NEW j \in 1..Len(jobs'), jobs'[j][2] = "decode", jobs'[j][1] = r PROVE i = j
        <5>1. CASE j \in 1..Len(jobs)
          BY <2>2, <2>4, <4>2, <5>1
        <5> QED BY <1>0, <2>2, <3>1, <5>1
      <4> QED BY <2>1, <2>3, <4>1, <4>2
    <3>2. CASE i \in 1..Len(jobs)
      <4>1. jobs'[i] = jobs[i] /\ jobs[i][1] # r /\ jobs[i][1] \in Reqs
        BY <1>0, <2>2, <2>4, <2>6, <3>2
      <4>2. ASSUME NEW j \in 1..Len(jobs'), jobs'[j][2] = "decode", jobs'[j][1] = jobs[i][1]
            PROVE i = j
        <5>1. j # Len(jobs) + 1
          BY <2>2, <4>1, <4>2
        <5>2. j \in 1..Len(jobs)
          BY <1>0, <2>2, <5>1
        <5> QED BY <2>2, <2>6, <3>2, <4>1, <4>2, <5>2 DEF DecodedOnce
      <4> QED BY <2>1, <2>6, <3>2, <4>1, <4>2 DEF DecodedOnce
    <3> QED BY <1>0, <2>2, <3>1, <3>2
  <2> QED BY <2>5, <2>6 DEF DecodedOnce
<1>2. CASE StartJob
  <2> DEFINE h == Head(jobs)
  <2>1. /\ jobs # <<>> /\ jobs' = Tail(jobs) /\ pc' = pc
        /\ decoding' = IF h[2] = "decode" THEN decoding \cup {h[1]} ELSE decoding
    BY <1>2 DEF StartJob
  <2>2. /\ Len(jobs) >= 1 /\ Len(jobs') = Len(jobs) - 1 /\ h = jobs[1]
        /\ \A i \in 1..Len(jobs') : i + 1 \in 1..Len(jobs) /\ jobs'[i] = jobs[i + 1]
    BY <2>1
  <2>3. \A q \in decoding' : pc'[q] = "decode"
    BY <2>1, <2>2 DEF DecodedOnce
  <2>4. ASSUME NEW i \in 1..Len(jobs'), jobs'[i][2] = "decode"
        PROVE  /\ pc'[jobs'[i][1]] = "decode"
               /\ jobs'[i][1] \notin decoding'
               /\ \A j \in 1..Len(jobs') :
                     jobs'[j][2] = "decode" /\ jobs'[j][1] = jobs'[i][1] => i = j
    <3>1. i + 1 \in 1..Len(jobs) /\ jobs[i + 1] = jobs'[i] /\ 1 \in 1..Len(jobs) /\ 1 # i + 1
      BY <1>0, <2>2
    <3>2. /\ pc[jobs[i + 1][1]] = "decode" /\ jobs[i + 1][1] \notin decoding
          /\ \A j \in 1..Len(jobs) :
                jobs[j][2] = "decode" /\ jobs[j][1] = jobs[i + 1][1] => i + 1 = j
      BY <2>4, <3>1 DEF DecodedOnce
    <3>3. h[2] = "decode" => h[1] # jobs'[i][1]
      BY <2>2, <3>1, <3>2
    <3>4. ASSUME NEW j \in 1..Len(jobs'), jobs'[j][2] = "decode", jobs'[j][1] = jobs'[i][1]
          PROVE i = j
      <4>1. j + 1 \in 1..Len(jobs) /\ jobs[j + 1] = jobs'[j]
        BY <2>2
      <4>2. i + 1 = j + 1
        BY <3>1, <3>2, <3>4, <4>1
      <4> QED BY <1>0, <2>2, <4>2
    <3> QED BY <2>1, <3>1, <3>2, <3>3, <3>4
  <2> QED BY <2>3, <2>4 DEF DecodedOnce
<1>3. ASSUME NEW r \in Reqs, Decoded(r) PROVE DecodedOnce'
  BY <1>0, <1>3 DEF Decoded, DecodedOnce
<1>4. ASSUME NEW r \in Reqs, NEW b \in Buckets, Acquire(r, b) PROVE DecodedOnce'
  <2>1. CASE TakeTokens(r, b)
    BY <1>a, <2>1, CostType DEF TakeTokens, Leave
  <2>2. CASE SleepForTokens(r, b)
    BY <2>2 DEF SleepForTokens, DecodedOnce
  <2>3. CASE TakeAhead(r, b)
    BY <1>a, <2>3, CostType DEF TakeAhead
  <2>4. CASE Slept(r, b)
    BY <1>a, <2>4, CostType DEF Slept, Leave
  <2> QED BY <1>4, <2>1, <2>2, <2>3, <2>4 DEF Acquire
<1>5. CASE StartCall
  <2> DEFINE h == Head(line)
  <2>1. /\ line # <<>> /\ pc' = [pc EXCEPT ![h] = "call"] /\ decoding' = decoding
        /\ jobs' = IF async THEN jobs ELSE Append(jobs, <<h, "score">>)
    BY <1>5 DEF StartCall
  <2>2. h \in Reqs /\ pc[h] = "line"
    BY <2>1 DEF InLine
  <2>3. CASE async
    BY <1>a, <2>1, <2>2, <2>3
  <2>4. CASE ~async
    <3>1. /\ Len(jobs') = Len(jobs) + 1
          /\ \A i \in 1..Len(jobs) : jobs'[i] = jobs[i]
          /\ jobs'[Len(jobs) + 1][2] = "score"
      BY <2>1, <2>2, <2>4 DEF Jobs
    <3>2. \A i \in 1..Len(jobs') : jobs'[i][2] = "decode" =>
             i \in 1..Len(jobs) /\ jobs'[i] = jobs[i]
      <4> SUFFICES ASSUME NEW i \in 1..Len(jobs'), jobs'[i][2] = "decode"
                   PROVE  i \in 1..Len(jobs) /\ jobs'[i] = jobs[i]
        OBVIOUS
      <4>1. i # Len(jobs) + 1
        BY <3>1
      <4>2. i \in 1..Len(jobs)
        BY <1>0, <3>1, <4>1
      <4> QED BY <3>1, <4>2
    <3>3. \A q \in Reqs : pc[q] = "decode" => pc'[q] = "decode"
      BY <2>1, <2>2
    <3>4. \A q \in decoding' : pc'[q] = "decode"
      BY <2>1, <3>3 DEF DecodedOnce
    <3>5. ASSUME NEW i \in 1..Len(jobs'), jobs'[i][2] = "decode"
          PROVE  /\ pc'[jobs'[i][1]] = "decode"
                 /\ jobs'[i][1] \notin decoding'
                 /\ \A j \in 1..Len(jobs') :
                       jobs'[j][2] = "decode" /\ jobs'[j][1] = jobs'[i][1] => i = j
      <4>1. i \in 1..Len(jobs) /\ jobs'[i] = jobs[i] /\ jobs[i][1] \in Reqs
        BY <1>0, <3>2, <3>5
      <4>2. pc'[jobs[i][1]] = "decode" /\ jobs[i][1] \notin decoding'
        BY <2>1, <3>3, <3>5, <4>1 DEF DecodedOnce
      <4> QED BY <3>2, <3>5, <4>1, <4>2 DEF DecodedOnce
    <3> QED BY <3>4, <3>5 DEF DecodedOnce
  <2> QED BY <2>3, <2>4
<1>6. ASSUME NEW r \in Reqs, Answer(r) PROVE DecodedOnce'
  BY <1>a, <1>6 DEF Answer, Return
<1>7. ASSUME NEW r \in Reqs, TimedOut(r) PROVE DecodedOnce'
  BY <1>a, <1>7 DEF TimedOut, Return
<1>8. ASSUME NEW r \in Reqs, LateAnswer(r) PROVE DecodedOnce'
  BY <1>8 DEF LateAnswer, DecodedOnce
<1>9. CASE Tick
  BY <1>9 DEF Tick, DecodedOnce
<1>10. CASE UNCHANGED vars
  BY <1>10 DEF vars, DecodedOnce
<1> QED BY <1>1, <1>2, <1>3, <1>4, <1>5, <1>6, <1>7, <1>8, <1>9, <1>10 DEF Next

(* The line holds who is at the semaphore, each once.                      *)
LEMMA InLineStep == Typed /\ DecodedOnce /\ InLine /\ [Next]_vars => InLine'
<1> SUFFICES ASSUME Typed, DecodedOnce, InLine, [Next]_vars PROVE InLine'
  OBVIOUS
<1> USE DEF Typed, bucketVars, poolVars, watchVars
<1>0. Len(line) \in Nat /\ \A i \in 1..Len(line) : line[i] \in Reqs
  OBVIOUS
<1>a. ASSUME NEW r \in Reqs, pc[r] # "line", NEW p, pc' = [pc EXCEPT ![r] = p], UNCHANGED line
      PROVE InLine'
  BY <1>0, <1>a DEF InLine
<1>b. ASSUME NEW r \in Reqs, NEW b \in Buckets, pc[r] # "line", Leave(r, b) PROVE InLine'
  <2>1. CASE b = "rpm"
    BY <1>a, <1>b, <2>1, CostType DEF Leave
  <2>2. CASE b = "tpm"
    <3>1. pc' = [pc EXCEPT ![r] = "line"] /\ line' = Append(line, r)
      BY <1>b, <2>2, CostType DEF Leave
    <3>2. /\ Len(line') = Len(line) + 1
          /\ \A i \in 1..Len(line) : line'[i] = line[i] /\ line[i] # r
          /\ line'[Len(line) + 1] = r
      BY <1>0, <1>b, <3>1 DEF InLine
    <3>3. \A i \in 1..Len(line') : i \in 1..Len(line) \/ i = Len(line) + 1
      BY <1>0, <3>2
    <3>4. \A i \in 1..Len(line') : pc'[line'[i]] = "line"
      BY <1>0, <3>1, <3>2, <3>3 DEF InLine
    <3>5. \A i, j \in 1..Len(line') : line'[i] = line'[j] => i = j
      BY <3>2, <3>3 DEF InLine
    <3> QED BY <3>4, <3>5 DEF InLine
  <2> QED BY <2>1, <2>2, CostType
<1>1. ASSUME NEW r \in Reqs, Arrive(r) PROVE InLine'
  BY <1>1, <1>a DEF Arrive
<1>2. CASE StartJob
  BY <1>2 DEF StartJob, InLine
<1>3. ASSUME NEW r \in Reqs, Decoded(r) PROVE InLine'
  BY <1>3, <1>a DEF Decoded, DecodedOnce
<1>4. ASSUME NEW r \in Reqs, NEW b \in Buckets, Acquire(r, b) PROVE InLine'
  <2>1. CASE TakeTokens(r, b)
    BY <1>b, <2>1, CostType DEF TakeTokens
  <2>2. CASE SleepForTokens(r, b)
    BY <2>2 DEF SleepForTokens, InLine
  <2>3. CASE TakeAhead(r, b)
    BY <1>a, <2>3, CostType DEF TakeAhead
  <2>4. CASE Slept(r, b)
    BY <1>b, <2>4, CostType DEF Slept
  <2> QED BY <1>4, <2>1, <2>2, <2>3, <2>4 DEF Acquire
<1>5. CASE StartCall
  <2>1. /\ line # <<>> /\ pc' = [pc EXCEPT ![line[1]] = "call"] /\ line' = Tail(line)
    BY <1>5 DEF StartCall
  <2>2. /\ 1 \in 1..Len(line) /\ Len(line') = Len(line) - 1
        /\ \A i \in 1..Len(line') : line'[i] = line[i + 1] /\ i + 1 \in 1..Len(line) /\ i + 1 # 1
    BY <2>1, <1>0
  <2>3. \A i \in 1..Len(line') : line'[i] # line[1] /\ line'[i] \in Reqs
    BY <1>0, <2>2 DEF InLine
  <2>4. \A i \in 1..Len(line') : pc'[line'[i]] = "line"
    BY <1>0, <2>1, <2>2, <2>3 DEF InLine
  <2>5. ASSUME NEW i \in 1..Len(line'), NEW j \in 1..Len(line'), line'[i] = line'[j] PROVE i = j
    <3>1. /\ i + 1 \in 1..Len(line) /\ j + 1 \in 1..Len(line)
          /\ line[i + 1] = line[j + 1]
      BY <2>2, <2>5
    <3>2. i + 1 = j + 1
      BY <3>1 DEF InLine
    <3> QED BY <1>0, <2>2, <3>2
  <2> QED BY <2>4, <2>5 DEF InLine
<1>6. ASSUME NEW r \in Reqs, Answer(r) PROVE InLine'
  BY <1>a, <1>6 DEF Answer, Return
<1>7. ASSUME NEW r \in Reqs, TimedOut(r) PROVE InLine'
  BY <1>a, <1>7 DEF TimedOut, Return
<1>8. ASSUME NEW r \in Reqs, LateAnswer(r) PROVE InLine'
  BY <1>8 DEF LateAnswer, InLine
<1>9. CASE Tick
  BY <1>9 DEF Tick, InLine
<1>10. CASE UNCHANGED vars
  BY <1>10 DEF vars, InLine
<1> QED BY <1>1, <1>2, <1>3, <1>4, <1>5, <1>6, <1>7, <1>8, <1>9, <1>10 DEF Next

-----------------------------------------------------------------------------
(* The semaphore's value and the requests in a call make its permits.      *)
LEMMA PermitsStep ==
    Typed /\ DecodedOnce /\ InLine /\ PermitsCounted /\ [Next]_vars => PermitsCounted'
<1> SUFFICES ASSUME Typed, DecodedOnce, InLine, PermitsCounted, [Next]_vars PROVE PermitsCounted'
  OBVIOUS
<1> USE DEF Typed, bucketVars, poolVars, watchVars
<1>0. IsFiniteSet(Calling) /\ Cardinality(Calling) \in Nat
  <2>1. Calling \subseteq Reqs /\ IsFiniteSet(Reqs)
    BY SettingsAssumption DEF Calling
  <2> QED BY <2>1, FS_Subset, FS_CardinalityType
<1>a. ASSUME NEW r \in Reqs, pc[r] # "call", NEW p, p # "call",
             pc' = [pc EXCEPT ![r] = p], UNCHANGED permits
      PROVE PermitsCounted'
  <2>1. Calling' = Calling
    BY <1>a DEF Calling
  <2> QED BY <1>a, <2>1 DEF PermitsCounted
<1>b. ASSUME NEW r \in Reqs, pc[r] = "call", Return(r) PROVE PermitsCounted'
  <2>1. Calling' = Calling \ {r} /\ r \in Calling
    BY <1>b DEF Calling, Return
  <2>2. Cardinality(Calling') = Cardinality(Calling) - 1
    BY <1>0, <2>1, FS_RemoveElement
  <2> QED BY <1>0, <1>b, <2>2 DEF PermitsCounted, Return
<1>c. ASSUME UNCHANGED <<pc, permits>> PROVE PermitsCounted'
  BY <1>c DEF PermitsCounted, Calling
<1>1. ASSUME NEW r \in Reqs, Arrive(r) PROVE PermitsCounted'
  BY <1>1, <1>a DEF Arrive
<1>2. CASE StartJob
  BY <1>2, <1>c DEF StartJob
<1>3. ASSUME NEW r \in Reqs, Decoded(r) PROVE PermitsCounted'
  BY <1>3, <1>a DEF Decoded, DecodedOnce
<1>4. ASSUME NEW r \in Reqs, NEW b \in Buckets, Acquire(r, b) PROVE PermitsCounted'
  <2>1. CASE TakeTokens(r, b)
    BY <1>a, <2>1, CostType DEF TakeTokens, Leave
  <2>2. CASE SleepForTokens(r, b)
    BY <1>c, <2>2 DEF SleepForTokens
  <2>3. CASE TakeAhead(r, b)
    BY <1>a, <2>3, CostType DEF TakeAhead
  <2>4. CASE Slept(r, b)
    BY <1>a, <2>4, CostType DEF Slept, Leave
  <2> QED BY <1>4, <2>1, <2>2, <2>3, <2>4 DEF Acquire
<1>5. CASE StartCall
  <2> DEFINE h == Head(line)
  <2>1. h \in Reqs /\ pc[h] = "line"
    BY <1>5 DEF StartCall, InLine
  <2>2. Calling' = Calling \cup {h} /\ h \notin Calling
    BY <1>5, <2>1 DEF StartCall, Calling
  <2>3. Cardinality(Calling') = Cardinality(Calling) + 1
    BY <1>0, <2>2, FS_AddElement
  <2> QED BY <1>0, <1>5, <2>3 DEF PermitsCounted, StartCall
<1>6. ASSUME NEW r \in Reqs, Answer(r) PROVE PermitsCounted'
  BY <1>b, <1>6 DEF Answer
<1>7. ASSUME NEW r \in Reqs, TimedOut(r) PROVE PermitsCounted'
  BY <1>b, <1>7 DEF TimedOut
<1>8. ASSUME NEW r \in Reqs, LateAnswer(r) PROVE PermitsCounted'
  BY <1>8, <1>c DEF LateAnswer
<1>9. CASE Tick
  BY <1>9, <1>c DEF Tick
<1>10. CASE UNCHANGED vars
  BY <1>10, <1>c DEF vars
<1> QED BY <1>1, <1>2, <1>3, <1>4, <1>5, <1>6, <1>7, <1>8, <1>9, <1>10 DEF Next

(* Only its own request keeps a coroutine running.                         *)
LEMMA CoroutinesStep ==
    Typed /\ DecodedOnce /\ CoroutinesAwaited /\ [Next]_vars => CoroutinesAwaited'
<1> SUFFICES ASSUME Typed, DecodedOnce, CoroutinesAwaited, [Next]_vars, async',
                    NEW s \in calls'
             PROVE  pc'[s] = "call"
  BY DEF CoroutinesAwaited
<1> USE DEF Typed, CoroutinesAwaited, bucketVars, poolVars, watchVars
<1>1. ASSUME NEW r \in Reqs, Arrive(r) PROVE pc'[s] = "call"
  BY <1>1 DEF Arrive
<1>2. CASE StartJob
  BY <1>2 DEF StartJob
<1>3. ASSUME NEW r \in Reqs, Decoded(r) PROVE pc'[s] = "call"
  BY <1>3 DEF Decoded, DecodedOnce
<1>4. ASSUME NEW r \in Reqs, NEW b \in Buckets, Acquire(r, b) PROVE pc'[s] = "call"
  <2>1. CASE TakeTokens(r, b)
    BY <2>1, CostType DEF TakeTokens, Leave
  <2>2. CASE SleepForTokens(r, b)
    BY <2>2 DEF SleepForTokens
  <2>3. CASE TakeAhead(r, b)
    BY <2>3, CostType DEF TakeAhead
  <2>4. CASE Slept(r, b)
    BY <2>4, CostType DEF Slept, Leave
  <2> QED BY <1>4, <2>1, <2>2, <2>3, <2>4 DEF Acquire
<1>5. CASE StartCall
  BY <1>5 DEF StartCall
<1>6. ASSUME NEW r \in Reqs, Answer(r) PROVE pc'[s] = "call"
  BY <1>6 DEF Answer, Return
<1>7. ASSUME NEW r \in Reqs, TimedOut(r) PROVE pc'[s] = "call"
  BY <1>7 DEF TimedOut, Return
<1>8. ASSUME NEW r \in Reqs, LateAnswer(r) PROVE pc'[s] = "call"
  BY <1>8 DEF LateAnswer
<1>9. CASE Tick
  BY <1>9 DEF Tick
<1>10. CASE UNCHANGED vars
  BY <1>10 DEF vars
<1> QED BY <1>1, <1>2, <1>3, <1>4, <1>5, <1>6, <1>7, <1>8, <1>9, <1>10 DEF Next

-----------------------------------------------------------------------------
(* What acquire does to a bucket: it never has more than before.           *)
LEMMA AcquireBuckets ==
    ASSUME Typed, NEW r \in Reqs, NEW b \in Buckets, Acquire(r, b), NEW d \in Buckets
    PROVE  tokens'[d] + elapsed'[d] <= tokens[d] + elapsed[d]
<1> USE DEF Typed, SetTokens, bucketVars
<1>0. Refilled(b) \in Int /\ Refilled(b) <= tokens[b] + elapsed[b] /\ Cost[b] \in Nat
  BY RefilledBounds, CostType
<1>1. CASE TakeTokens(r, b)
  BY <1>0, <1>1 DEF TakeTokens
<1>2. CASE SleepForTokens(r, b)
  BY <1>0, <1>2 DEF SleepForTokens
<1>3. CASE TakeAhead(r, b)
  BY <1>0, <1>3 DEF TakeAhead
<1>4. CASE Slept(r, b)
  BY <1>4 DEF Slept
<1> QED BY <1>1, <1>2, <1>3, <1>4 DEF Acquire

(* Nobody sleeps for a bucket longer than its tokens are missing.          *)
LEMMA SleepsStep ==
    Typed /\ TimersRunOut /\ DecodedOnce /\ SleepsOnlyWhenShort /\ [Next]_vars
        => SleepsOnlyWhenShort'
<1> DEFINE Short(s, d) ==
      timer[s] > 0 =>
          /\ pc[s] = d => tokens[d] + elapsed[d] + timer[s] <= Cost[d]
          /\ pc[s] = Paid[d] => tokens[d] + elapsed[d] + timer[s] <= 0
<1> SUFFICES ASSUME Typed, TimersRunOut, DecodedOnce, SleepsOnlyWhenShort, [Next]_vars,
                    NEW s \in Reqs, NEW d \in Buckets
             PROVE  Short(s, d)'
  BY DEF SleepsOnlyWhenShort
<1> USE DEF Typed, bucketVars, poolVars, watchVars
<1>0. /\ Short(s, d) /\ Cost[d] \in Nat
      /\ timer[s] \in Nat /\ tokens[d] \in Int /\ elapsed[d] \in Nat
  BY CostType DEF SleepsOnlyWhenShort
<1>a. ASSUME UNCHANGED <<timer, tokens, elapsed>>, pc'[s] = pc[s] \/ pc'[s] \in {"decode", "line", "call", "done"}
      PROVE  Short(s, d)'
  BY <1>0, <1>a, CostType
<1>1. ASSUME NEW r \in Reqs, Arrive(r) PROVE Short(s, d)'
  BY <1>1, <1>a DEF Arrive
<1>2. CASE StartJob
  BY <1>2, <1>a DEF StartJob
<1>3. ASSUME NEW r \in Reqs, Decoded(r) PROVE Short(s, d)'
  <2>1. timer[r] = 0
    BY <1>3 DEF Decoded, DecodedOnce, TimersRunOut
  <2> QED BY <1>0, <1>3, <2>1 DEF Decoded
<1>4. ASSUME NEW r \in Reqs, NEW b \in Buckets, Acquire(r, b) PROVE Short(s, d)'
  <2>0. /\ tokens'[d] + elapsed'[d] <= tokens[d] + elapsed[d]
        /\ tokens'[d] \in Int /\ elapsed'[d] \in Nat
    BY <1>4, AcquireBuckets, TypedStep
  <2>1. CASE s # r
    <3>1. timer'[s] = timer[s] /\ pc'[s] = pc[s]
      <4>1. CASE TakeTokens(r, b)
        BY <2>1, <4>1 DEF TakeTokens, Leave
      <4>2. CASE SleepForTokens(r, b)
        BY <2>1, <4>2 DEF SleepForTokens
      <4>3. CASE TakeAhead(r, b)
        BY <2>1, <4>3 DEF TakeAhead
      <4>4. CASE Slept(r, b)
        BY <2>1, <4>4 DEF Slept, Leave
      <4> QED BY <1>4, <4>1, <4>2, <4>3, <4>4 DEF Acquire
    <3>2. tokens'[d] + elapsed'[d] + timer'[s] <= tokens[d] + elapsed[d] + timer[s]
      BY <1>0, <2>0, <3>1
    <3>3. tokens'[d] + elapsed'[d] + timer'[s] \in Int
      BY <1>0, <2>0, <3>1
    <3> QED BY <1>0, <3>1, <3>2, <3>3
  <2>2. CASE s = r
    <3>0. Refilled(b) \in Int /\ Cost[b] \in Nat
      BY RefilledBounds, CostType
    <3>1. CASE TakeTokens(r, b)
      BY <2>2, <3>1 DEF TakeTokens
    <3>2. CASE SleepForTokens(r, b)
      <4>1. /\ pc'[r] = b /\ timer'[r] = Cost[b] - Refilled(b)
            /\ tokens'[b] = Refilled(b) /\ elapsed'[b] = 0
        BY <3>2 DEF SleepForTokens, SetTokens
      <4>2. pc'[r] = d => d = b
        BY <4>1
      <4>3. pc'[r] # Paid[d]
        BY <4>1, CostType
      <4> QED BY <2>2, <3>0, <4>1, <4>2, <4>3
    <3>3. CASE TakeAhead(r, b)
      <4>1. /\ pc'[r] = Paid[b] /\ timer'[r] = Cost[b] - Refilled(b)
            /\ tokens'[b] = Refilled(b) - Cost[b] /\ elapsed'[b] = 0
        BY <3>3 DEF TakeAhead, SetTokens
      <4>2. pc'[r] # d /\ (pc'[r] = Paid[d] => d = b)
        BY <4>1, CostType
      <4> QED BY <2>2, <3>0, <4>1, <4>2
    <3>4. CASE Slept(r, b)
      BY <2>2, <3>4 DEF Slept
    <3> QED BY <1>4, <3>1, <3>2, <3>3, <3>4 DEF Acquire
  <2> QED BY <2>1, <2>2
<1>5. CASE StartCall
  BY <1>0, <1>5, CostType DEF StartCall
<1>6. ASSUME NEW r \in Reqs, Answer(r) PROVE Short(s, d)'
  BY <1>0, <1>6, CostType DEF Answer, Return
<1>7. ASSUME NEW r \in Reqs, TimedOut(r) PROVE Short(s, d)'
  BY <1>0, <1>7, CostType DEF TimedOut, Return
<1>8. ASSUME NEW r \in Reqs, LateAnswer(r) PROVE Short(s, d)'
  BY <1>8, <1>a DEF LateAnswer
<1>9. CASE Tick
  <2>1. /\ timer'[s] = IF timer[s] > 0 THEN timer[s] - 1 ELSE 0
        /\ elapsed'[d] = elapsed[d] \/ elapsed'[d] = elapsed[d] + 1
        /\ tokens'[d] = tokens[d] /\ pc'[s] = pc[s]
    BY <1>9 DEF Tick
  <2>2. CASE timer[s] > 0
    <3>1. tokens'[d] + elapsed'[d] + timer'[s] <= tokens[d] + elapsed[d] + timer[s]
      BY <1>0, <2>1, <2>2
    <3>2. tokens'[d] + elapsed'[d] + timer'[s] \in Int
      BY <1>0, <2>1, <2>2
    <3> QED BY <1>0, <2>1, <2>2, <3>1, <3>2
  <2>3. CASE timer[s] = 0
    BY <2>1, <2>3
  <2> QED BY <1>0, <2>2, <2>3
<1>10. CASE UNCHANGED vars
  BY <1>10, <1>a DEF vars
<1> QED BY <1>1, <1>2, <1>3, <1>4, <1>5, <1>6, <1>7, <1>8, <1>9, <1>10 DEF Next

-----------------------------------------------------------------------------
LEMMA OneMore == ASSUME NEW n \in Nat, NEW c \in Nat PROVE (n + 1) * c = n * c + c /\ n * c \in Nat
OBVIOUS

(* What acquire does to the watched bucket and to the watch: nothing, or   *)
(* one more request has taken its cost.                                    *)
LEMMA AcquireWatched ==
    ASSUME Typed, NEW r \in Reqs, NEW b \in Buckets, Acquire(r, b)
    PROVE  /\ UNCHANGED since
           /\ \/ took' = took /\ Refilled(Watched)' <= Refilled(Watched)
              \/ /\ took' = Append(took, r)
                 /\ Refilled(Watched)' = Refilled(Watched) - Cost[Watched]
                 /\ Remaining'[r] >= Cost[Watched] - Refilled(Watched)
<1> USE SettingsAssumption DEF Typed, SetTokens, bucketVars, watchVars
<1>0. /\ Refilled(b) \in Int /\ Refilled(b) <= Second /\ Refilled(b) <= tokens[b] + elapsed[b]
      /\ Refilled(Watched) \in Int
      /\ Cost[b] \in Nat /\ b # Paid[b] /\ After[b] # Paid[b]
  BY RefilledBounds, CostType
<1>a. ASSUME UNCHANGED <<tokens[Watched], elapsed[Watched]>>
      PROVE  Refilled(Watched)' = Refilled(Watched)
  BY <1>a DEF Refilled
<1>1. CASE TakeTokens(r, b)
  <2>0. UNCHANGED since
    BY <1>1 DEF TakeTokens, Note
  <2>1. CASE b = Watched
    <3>1. took' = Append(took, r)
      BY <1>1, <2>1 DEF TakeTokens, Note
    <3>2. tokens'[Watched] = Refilled(Watched) - Cost[Watched] /\ elapsed'[Watched] = 0
      BY <1>1, <2>1 DEF TakeTokens
    <3>3. Refilled(Watched)' = Refilled(Watched) - Cost[Watched]
      BY <1>0, <2>0, <2>1, <3>2 DEF Refilled
    <3>4. Remaining'[r] = 0
      BY <1>0, <1>1, <2>0, <2>1 DEF TakeTokens, Leave, Remaining
    <3> QED BY <1>0, <1>1, <2>0, <2>1, <3>1, <3>3, <3>4 DEF TakeTokens
  <2>2. CASE b # Watched
    BY <1>0, <1>1, <1>a, <2>0, <2>2 DEF TakeTokens, Note
  <2> QED BY <2>1, <2>2
<1>2. CASE SleepForTokens(r, b)
  <2>1. CASE b = Watched
    <3>1. tokens'[Watched] = Refilled(Watched) /\ elapsed'[Watched] = 0
      BY <1>2, <2>1 DEF SleepForTokens
    <3>2. Refilled(Watched)' = Refilled(Watched)
      BY <1>0, <2>1, <3>1 DEF Refilled
    <3> QED BY <1>0, <1>2, <3>2 DEF SleepForTokens
  <2>2. CASE b # Watched
    BY <1>0, <1>2, <1>a, <2>2 DEF SleepForTokens
  <2> QED BY <2>1, <2>2
<1>3. CASE TakeAhead(r, b)
  <2>0. UNCHANGED since
    BY <1>3 DEF TakeAhead, Note
  <2>1. CASE b = Watched
    <3>1. took' = Append(took, r)
      BY <1>3, <2>1 DEF TakeAhead, Note
    <3>2. tokens'[Watched] = Refilled(Watched) - Cost[Watched] /\ elapsed'[Watched] = 0
      BY <1>3, <2>1 DEF TakeAhead
    <3>3. Refilled(Watched)' = Refilled(Watched) - Cost[Watched]
      BY <1>0, <2>0, <2>1, <3>2 DEF Refilled
    <3>4. Remaining'[r] = Cost[Watched] - Refilled(Watched)
      BY <1>0, <1>3, <2>0, <2>1 DEF TakeAhead, Remaining
    <3> QED BY <1>0, <2>0, <2>1, <3>1, <3>3, <3>4
  <2>2. CASE b # Watched
    BY <1>0, <1>3, <1>a, <2>0, <2>2 DEF TakeAhead, Note
  <2> QED BY <2>1, <2>2
<1>4. CASE Slept(r, b)
  BY <1>0, <1>4, <1>a DEF Slept
<1> QED BY <1>1, <1>2, <1>3, <1>4 DEF Acquire

(* A step that leaves buckets and watch alone.                             *)
LEMMA LedgerUnchanged ==
    ASSUME Ledger, UNCHANGED <<tokens, elapsed, since, took>>
    PROVE  Ledger'
BY DEF Ledger, Refilled

LEMMA LedgerStep == Typed /\ Ledger /\ [Next]_vars => Ledger'
<1> SUFFICES ASSUME Typed, Ledger, [Next]_vars PROVE Ledger'
  OBVIOUS
<1>0. /\ Typed' /\ Cost[Watched] \in Nat /\ Len(took) \in Nat /\ since \in Int /\ Second \in Nat
      /\ Refilled(Watched) \in Int /\ Len(took) * Cost[Watched] \in Nat
  <2>1. Typed'
    BY TypedStep
  <2>2. Cost[Watched] \in Nat /\ Len(took) \in Nat /\ since \in Int /\ Second \in Nat /\ Watched \in Buckets
    BY SettingsAssumption, CostType DEF Typed
  <2>3. Refilled(Watched) \in Int
    BY <2>2, RefilledBounds
  <2>4. Len(took) * Cost[Watched] \in Nat
    BY <2>2, OneMore
  <2> QED BY <2>1, <2>2, <2>3, <2>4
<1>1. ASSUME NEW r \in Reqs, NEW b \in Buckets, Acquire(r, b) PROVE Ledger'
  <2>0. UNCHANGED since
    BY <1>1, AcquireWatched
  <2>1. CASE took' = took /\ Refilled(Watched)' <= Refilled(Watched)
    <3>1. Refilled(Watched)' \in Int
      <4>1. tokens'[Watched] \in Int /\ elapsed'[Watched] \in Int /\ Second \in Int
        <5>1. Typed' /\ Watched \in Buckets /\ Second \in Int
          BY <1>0, CostType
        <5>2. tokens' \in [Buckets -> {n \in Int : n <= Second}] /\ elapsed' \in [Buckets -> Nat]
          BY <5>1 DEF Typed
        <5> QED BY <5>1, <5>2
      <4> QED BY <4>1 DEF Refilled
    <3> QED BY <1>0, <2>0, <2>1, <3>1 DEF Ledger
  <2>2. CASE took' = Append(took, r) /\ Refilled(Watched)' = Refilled(Watched) - Cost[Watched]
    <3>1. Len(took') = Len(took) + 1
      BY <2>2 DEF Typed
    <3>2. Len(took') * Cost[Watched] = Len(took) * Cost[Watched] + Cost[Watched]
      BY <1>0, <3>1, OneMore
    <3> QED BY <1>0, <2>0, <2>2, <3>2 DEF Ledger
  <2> QED BY <1>1, <2>1, <2>2, AcquireWatched
<1>2. CASE Tick
  <2>1. /\ tokens' = tokens
        /\ Refilled(Watched)' <= Second
        /\ Refilled(Watched)' <= Refilled(Watched) + 1
        /\ Refilled(Watched)' \in Int
    BY <1>2, SettingsAssumption, CostType DEF Tick, Typed, Refilled
  <2>2. CASE since' = since + 1 /\ UNCHANGED took
    BY <1>0, <2>1, <2>2 DEF Ledger
  <2>3. CASE since' = 0 /\ took' = <<>>
    <3>1. Len(took') = 0 /\ 0 * Cost[Watched] = 0
      BY <1>0, <2>3
    <3> QED BY <1>0, <2>1, <2>3, <3>1 DEF Ledger
  <2> QED BY <1>2, <2>2, <2>3 DEF Tick
<1>3. ASSUME NEW r \in Reqs,
             Arrive(r) \/ Decoded(r) \/ Answer(r) \/ TimedOut(r) \/ LateAnswer(r)
      PROVE  Ledger'
  BY <1>3, LedgerUnchanged
     DEF Arrive, Decoded, Answer, TimedOut, LateAnswer, Return, bucketVars, watchVars
<1>4. CASE StartJob \/ StartCall
  BY <1>4, LedgerUnchanged DEF StartJob, StartCall, bucketVars, watchVars
<1>5. CASE UNCHANGED vars
  BY <1>5, LedgerUnchanged DEF vars, bucketVars, watchVars
<1> QED BY <1>1, <1>2, <1>3, <1>4, <1>5 DEF Next

LEMMA NoMore ==
    ASSUME NEW a \in Int, NEW c \in Int, NEW d \in Int, a <= c, c <= d PROVE a <= d
OBVIOUS

(* A step after which nobody has less to sleep.                            *)
LEMMA OwedUnchanged ==
    ASSUME Typed, Typed', Owed, UNCHANGED <<since, took>>,
           \A q \in Reqs : Remaining'[q] >= Remaining[q]
    PROVE  Owed'
<1> SUFFICES ASSUME NEW i \in 1..Len(took)
             PROVE  i * Cost[Watched] <= Second + since + Remaining'[took[i]]
  BY DEF Owed
<1>1. took[i] \in Reqs /\ i \in Nat /\ Watched \in Buckets /\ since \in Int /\ Second \in Int
  BY SettingsAssumption, CostType DEF Typed
<1>2. i * Cost[Watched] \in Int
  BY <1>1, CostType, OneMore
<1>3. Remaining[took[i]] \in Int /\ Remaining'[took[i]] \in Int
  BY <1>1 DEF Typed, Remaining
<1>4. i * Cost[Watched] <= Second + since + Remaining[took[i]]
  BY DEF Owed
<1>5. Second + since + Remaining[took[i]] <= Second + since + Remaining'[took[i]]
  BY <1>1, <1>3
<1> QED BY <1>1, <1>2, <1>3, <1>4, <1>5, NoMore

LEMMA OwedStep ==
    Typed /\ DecodedOnce /\ InLine /\ Ledger /\ Owed /\ [Next]_vars => Owed'
<1> SUFFICES ASSUME Typed, DecodedOnce, InLine, Ledger, Owed, [Next]_vars PROVE Owed'
  OBVIOUS
<1>0. /\ Typed' /\ Cost[Watched] \in Nat /\ Len(took) \in Nat /\ since \in Int /\ Second \in Nat
      /\ Refilled(Watched) \in Int /\ Len(took) * Cost[Watched] \in Nat
  <2>1. Typed'
    BY TypedStep
  <2>2. Cost[Watched] \in Nat /\ Len(took) \in Nat /\ since \in Int /\ Second \in Nat /\ Watched \in Buckets
    BY SettingsAssumption, CostType DEF Typed
  <2>3. Refilled(Watched) \in Int
    BY <2>2, RefilledBounds
  <2>4. Len(took) * Cost[Watched] \in Nat
    BY <2>2, OneMore
  <2> QED BY <2>1, <2>2, <2>3, <2>4
<1>q. \A q \in Reqs : Remaining[q] \in Nat /\ Remaining'[q] \in Nat
  BY <1>0 DEF Typed, Remaining
<1>p. Paid[Watched] \in {"rpm_paid", "tpm_paid"} /\ Paid[Watched] \notin Buckets
  BY CostType DEF Typed
<1>a. ASSUME UNCHANGED <<since, took>>,
             \A q \in Reqs : \/ timer'[q] = timer[q] /\ pc'[q] = pc[q]
                             \/ pc[q] # Paid[Watched]
      PROVE  Owed'
  <2>1. \A q \in Reqs : Remaining'[q] >= Remaining[q]
    BY <1>a, <1>q DEF Remaining
  <2> QED BY <1>0, <1>a, <2>1, OwedUnchanged
<1>1. ASSUME NEW r \in Reqs, NEW b \in Buckets, Acquire(r, b) PROVE Owed'
  <2>0. UNCHANGED since
    BY <1>1, AcquireWatched
  <2>1. \A q \in Reqs : Remaining'[q] >= Remaining[q]
    <3>1. Remaining[r] = 0
      BY <1>1, <1>p DEF Acquire, TakeTokens, SleepForTokens, TakeAhead, Slept, Remaining
    <3>2. \A q \in Reqs \ {r} : timer'[q] = timer[q] /\ pc'[q] = pc[q]
      <4>1. CASE TakeTokens(r, b)
        BY <4>1 DEF TakeTokens, Leave, Typed
      <4>2. CASE SleepForTokens(r, b)
        BY <4>2 DEF SleepForTokens, Typed
      <4>3. CASE TakeAhead(r, b)
        BY <4>3 DEF TakeAhead, Typed
      <4>4. CASE Slept(r, b)
        BY <4>4 DEF Slept, Leave, Typed
      <4> QED BY <1>1, <4>1, <4>2, <4>3, <4>4 DEF Acquire
    <3>3. \A q \in Reqs \ {r} : Remaining'[q] = Remaining[q]
      BY <2>0, <3>2 DEF Remaining
    <3> QED BY <1>q, <3>1, <3>3
  <2>2. CASE took' = took
    BY <1>0, <2>0, <2>1, <2>2, OwedUnchanged
  <2>3. CASE /\ took' = Append(took, r)
             /\ Remaining'[r] >= Cost[Watched] - Refilled(Watched)
    <3>1. /\ Len(took') = Len(took) + 1 /\ took'[Len(took) + 1] = r
          /\ \A i \in 1..Len(took) : took'[i] = took[i] /\ took[i] \in Reqs
      BY <2>3 DEF Typed
    <3> SUFFICES ASSUME NEW i \in 1..Len(took')
                 PROVE  i * Cost[Watched] <= Second + since + Remaining'[took'[i]]
      BY <2>0 DEF Owed, Remaining
    <3>2. CASE i = Len(took) + 1
      <4>1. i * Cost[Watched] = Len(took) * Cost[Watched] + Cost[Watched]
        BY <1>0, <3>2, OneMore
      <4>2. Len(took) * Cost[Watched] + Refilled(Watched) <= Second + since
        BY DEF Ledger
      <4> QED BY <1>0, <1>q, <2>3, <3>1, <3>2, <4>1, <4>2
    <3>3. CASE i \in 1..Len(took)
      <4>1. i * Cost[Watched] <= Second + since + Remaining[took[i]] /\ i * Cost[Watched] \in Nat
        BY <1>0, <3>3, OneMore DEF Owed
      <4>2. took'[i] = took[i] /\ took[i] \in Reqs
        BY <3>1, <3>3
      <4>3. /\ Remaining'[took[i]] >= Remaining[took[i]]
            /\ Remaining[took[i]] \in Nat /\ Remaining'[took[i]] \in Nat
        BY <1>q, <2>1, <4>2
      <4>4. Remaining'[took'[i]] = Remaining'[took[i]]
        BY <4>2
      <4> QED BY <1>0, <4>1, <4>3, <4>4
    <3> QED BY <1>0, <3>1, <3>2, <3>3
  <2> QED BY <1>1, <2>2, <2>3, AcquireWatched
<1>2. CASE Tick
  <2>1. CASE since' = since + 1 /\ UNCHANGED took
    <3>1. \A q \in Reqs : Remaining'[q] >= Remaining[q] - 1
      BY <1>2, <1>q DEF Tick, Typed, Remaining
    <3> SUFFICES ASSUME NEW i \in 1..Len(took)
                 PROVE  i * Cost[Watched] <= Second + since' + Remaining'[took[i]]
      <4>1. took' = took
        BY <1>2, <2>1 DEF Tick
      <4> QED BY <4>1 DEF Owed
    <3>2. took[i] \in Reqs /\ i \in Nat
      BY <1>0 DEF Typed
    <3>3. i * Cost[Watched] <= Second + since + Remaining[took[i]]
      BY DEF Owed
    <3>4. i * Cost[Watched] \in Int
      BY <1>0, <3>2, OneMore
    <3>5. /\ Second + since + Remaining[took[i]] \in Int
          /\ Second + since' + Remaining'[took[i]] \in Int
          /\ Second + since + Remaining[took[i]] <= Second + since' + Remaining'[took[i]]
      <4> DEFINE x == Remaining[took[i]]  y == Remaining'[took[i]]
      <4>1. x \in Int /\ y \in Int /\ y >= x - 1
        BY <1>q, <3>1, <3>2
      <4>2. since' = since + 1 /\ since \in Int /\ Second \in Int
        BY <1>0, <2>1
      <4> HIDE DEF x, y
      <4>3. /\ Second + since + x \in Int
            /\ Second + since' + y \in Int
            /\ Second + since + x <= Second + since' + y
        BY <4>1, <4>2
      <4> QED BY <4>3 DEF x, y
    <3> QED BY <3>3, <3>4, <3>5, NoMore
  <2>2. CASE since' = 0 /\ took' = <<>>
    BY <2>2 DEF Owed
  <2> QED BY <1>2, <2>1, <2>2 DEF Tick
<1>3. ASSUME NEW r \in Reqs, Arrive(r) PROVE Owed'
  BY <1>3, <1>a, <1>p DEF Arrive, Typed, watchVars
<1>4. ASSUME NEW r \in Reqs, Decoded(r) PROVE Owed'
  BY <1>4, <1>a, <1>p DEF Decoded, DecodedOnce, Typed, watchVars
<1>5. ASSUME NEW r \in Reqs, Answer(r) PROVE Owed'
  BY <1>5, <1>a, <1>p DEF Answer, Return, Typed, watchVars
<1>6. ASSUME NEW r \in Reqs, TimedOut(r) PROVE Owed'
  BY <1>6, <1>a, <1>p DEF TimedOut, Return, Typed, watchVars
<1>7. ASSUME NEW r \in Reqs, LateAnswer(r) PROVE Owed'
  BY <1>7, <1>a DEF LateAnswer, watchVars
<1>8. CASE StartJob
  BY <1>8, <1>a DEF StartJob, watchVars
<1>9. CASE StartCall
  <2>1. pc[Head(line)] = "line" /\ Head(line) \in Reqs
    BY <1>9 DEF StartCall, InLine, Typed
  <2> QED BY <1>9, <1>a, <1>p, <2>1 DEF StartCall, Typed, watchVars
<1>10. CASE UNCHANGED vars
  BY <1>10, <1>a DEF vars, watchVars
<1> QED BY <1>1, <1>2, <1>3, <1>4, <1>5, <1>6, <1>7, <1>8, <1>9, <1>10 DEF Next

-----------------------------------------------------------------------------
(* Where a request waits, somebody has it: a thread or the executor's      *)
(* queue its response, the semaphore's line the request itself.            *)
Listed(r) == \E i \in 1..Len(jobs) : jobs[i] = <<r, "decode">>
Queued(r) == \E i \in 1..Len(line) : line[i] = r

WaitsThere ==
    /\ \A r \in Reqs : pc[r] = "decode" => r \in decoding \/ Listed(r)
    /\ \A r \in Reqs : pc[r] = "line" => Queued(r)
    /\ \A r \in calls : pc[r] \in {"call", "done"}

LEMMA ListedKept ==
    ASSUME Typed, NEW r \in Reqs, Listed(r), NEW j \in Jobs, jobs' = Append(jobs, j) \/ jobs' = jobs
    PROVE  Listed(r)'
<1>1. PICK i \in 1..Len(jobs) : jobs[i] = <<r, "decode">>
  BY DEF Listed
<1>2. i \in 1..Len(jobs') /\ jobs'[i] = jobs[i]
  <2>1. CASE jobs' = jobs
    BY <1>1, <2>1
  <2>2. CASE jobs' = Append(jobs, j)
    <3>1. jobs \in Seq(Jobs) /\ Len(jobs) \in Nat
      BY DEF Typed
    <3>2. Len(jobs') = Len(jobs) + 1 /\ \A k \in 1..Len(jobs) : jobs'[k] = jobs[k]
      BY <2>2, <3>1
    <3> QED BY <1>1, <3>1, <3>2
  <2> QED BY <2>1, <2>2
<1> QED BY <1>1, <1>2 DEF Listed

LEMMA WaitsThereStep ==
    Typed /\ DecodedOnce /\ InLine /\ WaitsThere /\ [Next]_vars => WaitsThere'
<1> SUFFICES ASSUME Typed, DecodedOnce, InLine, WaitsThere, [Next]_vars, NEW s \in Reqs
             PROVE  /\ pc'[s] = "decode" => s \in decoding' \/ Listed(s)'
                    /\ pc'[s] = "line" => Queued(s)'
                    /\ s \in calls' => pc'[s] \in {"call", "done"}
  BY TypedStep DEF WaitsThere, Typed
<1> USE DEF Typed, bucketVars, poolVars, watchVars
<1> DEFINE There == /\ pc[s] = "decode" => s \in decoding \/ Listed(s)
                    /\ pc[s] = "line" => Queued(s)
                    /\ s \in calls => pc[s] \in {"call", "done"}
<1>0. There /\ Len(jobs) \in Nat /\ Len(line) \in Nat
  BY DEF WaitsThere
\* A step of r that leaves the queues alone.
<1>a. ASSUME NEW r \in Reqs, NEW p \in Places, pc' = [pc EXCEPT ![r] = p], p \notin {"decode", "line"},
             UNCHANGED <<jobs, line>>, decoding \ {r} \subseteq decoding', calls' \subseteq calls,
             r \in calls' => p \in {"call", "done"}
      PROVE  There'
  <2>1. UNCHANGED <<Listed(s), Queued(s)>>
    BY <1>a DEF Listed, Queued
  <2> QED BY <1>0, <1>a, <2>1
<1>b. ASSUME UNCHANGED <<pc, jobs, line>>, decoding \subseteq decoding', calls' \subseteq calls
      PROVE  There'
  <2>1. UNCHANGED <<Listed(s), Queued(s)>>
    BY <1>b DEF Listed, Queued
  <2> QED BY <1>0, <1>b, <2>1
<1>c. ASSUME NEW r \in Reqs, NEW b \in Buckets, pc[r] \in {b, Paid[b]}, Leave(r, b), UNCHANGED poolVars
      PROVE  There'
  <2>1. r \notin calls /\ pc[r] # "line" /\ pc[r] # "decode"
    BY <1>c, CostType DEF WaitsThere
  <2>2. CASE b = "rpm"
    BY <1>a, <1>c, <2>1, <2>2, CostType DEF Leave, Places
  <2>3. CASE b = "tpm"
    <3>1. pc' = [pc EXCEPT ![r] = "line"] /\ line' = Append(line, r)
      BY <1>c, <2>3, CostType DEF Leave
    <3>2. /\ Len(line') = Len(line) + 1 /\ line'[Len(line) + 1] = r
          /\ \A i \in 1..Len(line) : i \in 1..Len(line') /\ line'[i] = line[i]
      BY <1>0, <3>1
    <3>3. Queued(r)' /\ (Queued(s) => Queued(s)')
      <4>1. Len(line) + 1 \in 1..Len(line')
        BY <1>0, <3>2
      <4>2. Queued(r)'
        BY <3>2, <4>1 DEF Queued
      <4>3. Queued(s) => Queued(s)'
        BY <3>2 DEF Queued
      <4> QED BY <4>2, <4>3
    <3>4. Listed(s)' = Listed(s)
      BY <1>c DEF Listed
    <3> QED BY <1>0, <1>c, <2>1, <3>1, <3>3, <3>4
  <2> QED BY <2>2, <2>3, CostType
<1>1. ASSUME NEW r \in Reqs, Arrive(r) PROVE There'
  <2>1. /\ pc[r] = "new" /\ pc' = [pc EXCEPT ![r] = "decode"] /\ jobs' = Append(jobs, <<r, "decode">>)
        /\ UNCHANGED <<decoding, calls, line>>
    BY <1>1 DEF Arrive
  <2>2. <<r, "decode">> \in Jobs
    BY DEF Jobs
  <2>3. Listed(r)'
    <3>1. Len(jobs') = Len(jobs) + 1 /\ jobs'[Len(jobs) + 1] = <<r, "decode">>
      BY <2>1, <2>2
    <3>2. Len(jobs) + 1 \in 1..Len(jobs')
      BY <1>0, <3>1
    <3> QED BY <3>1, <3>2 DEF Listed
  <2>4. Listed(s) => Listed(s)'
    BY <2>1, <2>2, ListedKept
  <2>5. Queued(s)' = Queued(s)
    BY <2>1 DEF Queued
  <2>6. r \notin calls
    BY <2>1 DEF WaitsThere
  <2> QED BY <1>0, <2>1, <2>3, <2>4, <2>5, <2>6
<1>2. CASE StartJob
  <2> DEFINE h == Head(jobs)
  <2>1. /\ jobs # <<>> /\ jobs' = Tail(jobs) /\ UNCHANGED <<pc, line>>
        /\ decoding' = IF h[2] = "decode" THEN decoding \cup {h[1]} ELSE decoding
        /\ calls' = calls \/ (pc[h[1]] = "call" /\ calls' = calls \cup {h[1]})
    BY <1>2 DEF StartJob
  <2>2. /\ h = jobs[1] /\ Len(jobs') = Len(jobs) - 1
        /\ \A i \in 1..Len(jobs') : jobs'[i] = jobs[i + 1]
    BY <2>1
  <2>3. ASSUME Listed(s) PROVE s \in decoding' \/ Listed(s)'
    <3>1. PICK i \in 1..Len(jobs) : jobs[i] = <<s, "decode">>
      BY <2>3 DEF Listed
    <3>2. CASE i = 1
      BY <2>1, <2>2, <3>1, <3>2
    <3>3. CASE i # 1
      <4>1. i - 1 \in 1..Len(jobs') /\ i - 1 + 1 = i
        BY <1>0, <2>2, <3>3
      <4> QED BY <2>2, <3>1, <4>1 DEF Listed
    <3> QED BY <3>2, <3>3
  <2>4. Queued(s)' = Queued(s)
    BY <2>1 DEF Queued
  <2> QED BY <1>0, <2>1, <2>3, <2>4
<1>3. ASSUME NEW r \in Reqs, Decoded(r) PROVE There'
  <2>1. r \notin calls
    BY <1>3 DEF Decoded, DecodedOnce, WaitsThere
  <2> QED BY <1>3, <1>a, <2>1 DEF Decoded, Places
<1>4. ASSUME NEW r \in Reqs, NEW b \in Buckets, Acquire(r, b) PROVE There'
  <2>1. CASE TakeTokens(r, b)
    BY <1>c, <2>1 DEF TakeTokens
  <2>2. CASE SleepForTokens(r, b)
    BY <1>b, <2>2 DEF SleepForTokens
  <2>3. CASE TakeAhead(r, b)
    <3>1. pc[r] = b /\ r \notin calls
      BY <2>3, CostType DEF TakeAhead, WaitsThere
    <3> QED BY <1>a, <2>3, <3>1, CostType DEF TakeAhead, Places
  <2>4. CASE Slept(r, b)
    BY <1>c, <2>4 DEF Slept
  <2> QED BY <1>4, <2>1, <2>2, <2>3, <2>4 DEF Acquire
<1>5. CASE StartCall
  <2> DEFINE h == Head(line)
  <2>1. /\ line # <<>> /\ line' = Tail(line) /\ pc' = [pc EXCEPT ![h] = "call"] /\ UNCHANGED decoding
        /\ calls' \subseteq calls \cup {h}
        /\ jobs' = jobs \/ jobs' = Append(jobs, <<h, "score">>)
    BY <1>5 DEF StartCall
  <2>2. /\ h \in Reqs /\ h = line[1] /\ Len(line') = Len(line) - 1
        /\ \A i \in 1..Len(line') : line'[i] = line[i + 1]
    BY <2>1
  <2>3. <<h, "score">> \in Jobs
    BY <2>2 DEF Jobs
  <2>4. Listed(s) => Listed(s)'
    BY <2>1, <2>3, ListedKept
  <2>5. ASSUME Queued(s), s # h PROVE Queued(s)'
    <3>1. PICK i \in 1..Len(line) : line[i] = s
      BY <2>5 DEF Queued
    <3>2. i - 1 \in 1..Len(line') /\ i - 1 + 1 = i
      BY <1>0, <2>2, <2>5, <3>1
    <3> QED BY <2>2, <3>1, <3>2 DEF Queued
  <2> QED BY <1>0, <2>1, <2>2, <2>4, <2>5
<1>6. ASSUME NEW r \in Reqs, Answer(r) PROVE There'
  <2>1. r \notin decoding
    BY <1>6 DEF Answer, DecodedOnce
  <2> QED BY <1>6, <1>a DEF Answer, Return, Places
<1>7. ASSUME NEW r \in Reqs, TimedOut(r) PROVE There'
  BY <1>7, <1>a DEF TimedOut, Return, Places
<1>8. ASSUME NEW r \in Reqs, LateAnswer(r) PROVE There'
  BY <1>8, <1>b DEF LateAnswer
<1>9. CASE Tick
  BY <1>9, <1>b DEF Tick
<1>10. CASE UNCHANGED vars
  BY <1>10, <1>b DEF vars
<1> QED BY <1>1, <1>2, <1>3, <1>4, <1>5, <1>6, <1>7, <1>8, <1>9, <1>10 DEF Next

-----------------------------------------------------------------------------
IInv ==
    /\ WaitsThere
    /\ Typed
    /\ TimersRunOut
    /\ DecodedOnce
    /\ InLine
    /\ PermitsCounted
    /\ CoroutinesAwaited
    /\ SleepsOnlyWhenShort
    /\ Ledger
    /\ Owed

LEMMA InitIInv == Init => IInv
<1> SUFFICES ASSUME Init PROVE IInv
  OBVIOUS
<1>1. Typed
  BY InitTyped
<1>2. TimersRunOut /\ SleepsOnlyWhenShort
  BY DEF Init, TimersRunOut, SleepsOnlyWhenShort
<1>3. DecodedOnce /\ InLine /\ CoroutinesAwaited
  BY DEF Init, DecodedOnce, InLine, CoroutinesAwaited
<1>8. WaitsThere
  BY DEF Init, WaitsThere
<1>4. PermitsCounted
  <2>1. Calling = {}
    BY DEF Init, Calling
  <2> QED BY <2>1, FS_EmptySet, SettingsAssumption DEF Init, PermitsCounted
<1>5. Len(took) = 0 /\ since = 0
  BY DEF Init
<1>6. Ledger
  <2>1. Refilled(Watched) <= Second /\ Refilled(Watched) \in Int /\ Cost[Watched] \in Nat
    BY <1>1, RefilledBounds, CostType DEF Typed
  <2> QED BY <1>5, <2>1, SettingsAssumption DEF Ledger
<1>7. Owed
  BY <1>5 DEF Owed
<1> QED BY <1>1, <1>2, <1>3, <1>4, <1>6, <1>7, <1>8 DEF IInv

THEOREM IInvCorrect == Spec => []IInv
<1>1. IInv /\ [Next]_vars => IInv'
  BY TypedStep, TimersStep, DecodedOnceStep, InLineStep, PermitsStep, CoroutinesStep,
     SleepsStep, LedgerStep, OwedStep, WaitsThereStep DEF IInv
<1> QED BY InitIInv, <1>1, PTL DEF Spec

(* Types, and a semaphore whose value stays between 0 and its permits, for *)
(* any number of requests (limited.py, _semaphore).                        *)
THEOREM TypeCorrect == Spec => []TypeOK
<1>1. IInv => TypeOK
  <2> SUFFICES ASSUME IInv PROVE TypeOK
    OBVIOUS
  <2>1. Cardinality(Calling) \in Nat
    <3>1. Calling \subseteq Reqs
      BY DEF Calling
    <3> QED BY <3>1, SettingsAssumption, FS_Subset, FS_CardinalityType
  <2>2. permits \in 0..MaxConcurrent
    BY <2>1, SettingsAssumption DEF IInv, Typed, PermitsCounted
  <2> QED BY <2>2 DEF IInv, Typed, TypeOK
<1> QED BY IInvCorrect, <1>1, PTL

(* The token buckets keep their rate over any window, for any costs, below *)
(* or above what a bucket holds (AsyncTokenBucket.acquire).                *)
THEOREM RateKeptCorrect == Spec => []RateKept
<1>1. IInv => RateKept
  <2> SUFFICES ASSUME IInv, NEW i \in 1..Len(took), pc[took[i]] # Paid[Watched]
               PROVE  i * Cost[Watched] <= Second + since
    BY DEF RateKept
  <2>1. took[i] \in Reqs /\ since \in Int /\ Second \in Int
    BY SettingsAssumption DEF IInv, Typed
  <2>2. Remaining[took[i]] = 0
    BY <2>1 DEF Remaining
  <2>3. i * Cost[Watched] <= Second + since + Remaining[took[i]]
    BY DEF IInv, Owed
  <2>4. Second + since + Remaining[took[i]] = Second + since
    BY <2>1, <2>2
  <2> QED BY <2>3, <2>4
<1> QED BY IInvCorrect, <1>1, PTL

(* Nobody sleeps for tokens that are there (AsyncTokenBucket.acquire).     *)
THEOREM SleepsOnlyWhenShortCorrect == Spec => []SleepsOnlyWhenShort
<1>1. IInv => SleepsOnlyWhenShort
  BY DEF IInv
<1> QED BY IInvCorrect, <1>1, PTL

(* At most max_concurrent requests wait for a call, and no coroutine runs  *)
(* on without its request (RateLimitedRewardManager.run_single).           *)
THEOREM CallsWithinLimitCorrect == Spec => []CallsWithinLimit
<1>1. IInv => CallsWithinLimit
  <2> SUFFICES ASSUME IInv PROVE CallsWithinLimit
    OBVIOUS
  <2>1. Cardinality(Calling) \in Nat
    <3>1. Calling \subseteq Reqs
      BY DEF Calling
    <3> QED BY <3>1, SettingsAssumption, FS_Subset, FS_CardinalityType
  <2>2. Cardinality(Calling) <= MaxConcurrent
    BY <2>1, SettingsAssumption DEF IInv, Typed, PermitsCounted
  <2> QED BY <2>2 DEF IInv, CoroutinesAwaited, CallsWithinLimit, Calling
<1> QED BY IInvCorrect, <1>1, PTL

(* The calls that hang leave a thread of the executor over.                *)
ThreadsOver == Threads \in Nat /\ Cardinality(Hanging \cap Reqs) < Threads

(* A thread is free, or one is at work that comes back.                    *)
PoolGoesOn == ThreadsUsed < Threads \/ decoding # {} \/ \E r \in calls \ Hanging : pc[r] \in {"call", "done"}

(* No request is lost or waits for ever: a response that is to be decoded  *)
(* is with a thread or in the queue of an executor that goes on, and who   *)
(* is at the semaphore is in its line, which has a permit or a call with a *)
(* time limit that will give one back.  Everywhere else a request has its  *)
(* own step or timer.  This is the part of EveryRequestEnds that needs no  *)
(* fairness (run_single, compute_score, the semaphore of limited.py).      *)
THEOREM NobodyIsLost ==
    ThreadsOver /\ Spec =>
        [](\A r \in Reqs :
              /\ pc[r] = "decode" => r \in decoding \/ (Listed(r) /\ PoolGoesOn)
              /\ pc[r] = "line" => Queued(r) /\ (permits > 0 \/ \E d \in Reqs : pc[d] = "call"))
<1> SUFFICES ASSUME ThreadsOver
    PROVE  Spec => [](\A r \in Reqs :
              /\ pc[r] = "decode" => r \in decoding \/ (Listed(r) /\ PoolGoesOn)
              /\ pc[r] = "line" => Queued(r) /\ (permits > 0 \/ \E d \in Reqs : pc[d] = "call"))
  OBVIOUS
<1>1. ASSUME IInv
      PROVE  \A r \in Reqs :
               /\ pc[r] = "decode" => r \in decoding \/ (Listed(r) /\ PoolGoesOn)
               /\ pc[r] = "line" => Queued(r) /\ (permits > 0 \/ \E d \in Reqs : pc[d] = "call")
  <2>1. PoolGoesOn
    <3> SUFFICES ASSUME decoding = {}, calls \ Hanging = {} PROVE ThreadsUsed < Threads
      BY <1>1 DEF PoolGoesOn, IInv, WaitsThere
    <3>1. calls \subseteq Hanging \cap Reqs /\ IsFiniteSet(Hanging \cap Reqs)
      BY <1>1, SettingsAssumption, FS_Subset DEF IInv, Typed
    <3>2. /\ Cardinality(calls) <= Cardinality(Hanging \cap Reqs)
          /\ Cardinality(calls) \in Nat /\ Cardinality(Hanging \cap Reqs) \in Nat
      BY <3>1, FS_Subset, FS_CardinalityType
    <3>3. Cardinality(decoding) = 0
      BY FS_EmptySet
    <3> QED BY <1>1, <3>2, <3>3 DEF ThreadsOver, ThreadsUsed
  <2>2. permits > 0 \/ Calling # {}
    <3> SUFFICES ASSUME Calling = {} PROVE permits > 0
      OBVIOUS
    <3>1. Cardinality(Calling) = 0
      BY FS_EmptySet
    <3> QED BY <1>1, <3>1, SettingsAssumption DEF IInv, PermitsCounted, Typed
  <2> QED BY <1>1, <2>1, <2>2 DEF IInv, WaitsThere, Calling
<1> QED BY IInvCorrect, <1>1, PTL
=============================================================================
