---------------------------- MODULE RateLimiter ----------------------------
(***************************************************************************)
(* The rate limited reward manager of the reward loop                      *)
(* (verl/experimental/reward_loop/reward_manager/limited.py).  A request   *)
(* decodes its response in the thread pool of the event loop, takes its    *)
(* tokens from the buckets for requests and for tokens per minute, waits   *)
(* for the semaphore and calls compute_score with a time limit.            *)
(*                                                                         *)
(* Time is counted in ticks, and the tokens of a bucket in the ticks it    *)
(* takes to refill them: a bucket holds Second ticks (max_tokens is what   *)
(* one second refills) and a request costs Cost[b] of them, more than the  *)
(* bucket holds when the limit allows less than one request a second.      *)
(* Cost 0 stands for a limit that is None.  The event loop may be late: a  *)
(* timer that is due may run any number of ticks later.                    *)
(*                                                                         *)
(* An answer and an exception of compute_score release the same things, so *)
(* both are Answer; the scores themselves are left out.                    *)
(***************************************************************************)
EXTENDS Integers, Sequences, FiniteSets

CONSTANTS
    Reqs,           \* the requests (calls of run_single)
    Second,         \* ticks in a second: what a bucket holds
    RpmCost,        \* ticks the request limit refills for one request
    TpmCost,        \* ticks the token limit refills for one request's tokens
    MaxConcurrent,  \* permits of the semaphore
    Timeout,        \* ticks a call of compute_score may take
    Threads,        \* threads of the event loop's default executor
    Hanging,        \* requests whose compute_score never returns
    Watched,        \* the bucket whose rate is observed
    Window          \* longest time over which it is observed

ASSUME SettingsAssumption ==
    /\ IsFiniteSet(Reqs)
    /\ Second \in Nat \ {0}
    /\ RpmCost \in Nat
    /\ TpmCost \in Nat
    /\ MaxConcurrent \in Nat \ {0}
    /\ Timeout \in Nat \ {0}
    /\ Watched \in {"rpm", "tpm"}
    /\ Window \in Nat

VARIABLES
    async,      \* compute_score is a coroutine function
    pc,         \* where each request is in run_single
    timer,      \* ticks left of a request's sleep or time limit
    tokens,     \* per bucket: its tokens at the last update
    elapsed,    \* per bucket: ticks since the last update
    jobs,       \* jobs submitted to the executor and not begun
    decoding,   \* requests a thread decodes
    calls,      \* requests whose compute_score is executing
    line,       \* requests waiting for the semaphore
    permits,    \* value of the semaphore
    since,      \* observer: the ticks since the watch of Watched began
    took        \*   and the requests that took its tokens since, in order

bucketVars == <<tokens, elapsed>>
poolVars == <<jobs, decoding, calls>>
watchVars == <<since, took>>
vars == <<async, pc, timer, bucketVars, poolVars, line, permits, watchVars>>

-----------------------------------------------------------------------------
Buckets == {"rpm", "tpm"}

Cost == [b \in Buckets |-> IF b = "rpm" THEN RpmCost ELSE TpmCost]

(* Where a request is that has taken tokens the bucket does not have yet,  *)
(* and where it goes from the bucket.                                      *)
Paid == [b \in Buckets |-> IF b = "rpm" THEN "rpm_paid" ELSE "tpm_paid"]
After == [b \in Buckets |-> IF b = "rpm" THEN "tpm" ELSE "line"]

Places == {"new", "decode", "rpm", "rpm_paid", "tpm", "tpm_paid", "line",
           "call", "done"}

(* The threads in use: a compute_score that is no coroutine has one too.   *)
ThreadsUsed == Cardinality(decoding) + IF async THEN 0 ELSE Cardinality(calls)

Init ==
    /\ async \in BOOLEAN
    /\ pc = [r \in Reqs |-> "new"]
    /\ timer = [r \in Reqs |-> 0]
    /\ tokens = [b \in Buckets |-> Second]
    /\ elapsed = [b \in Buckets |-> 0]
    /\ jobs = <<>>
    /\ decoding = {}
    /\ calls = {}
    /\ line = <<>>
    /\ permits = MaxConcurrent
    /\ since = 0
    /\ took = <<>>

-----------------------------------------------------------------------------
(* The executor                                                            *)

(* run_single begins: the response is to be decoded in a thread.           *)
Arrive(r) ==
    /\ pc[r] = "new"
    /\ pc' = [pc EXCEPT ![r] = "decode"]
    /\ jobs' = Append(jobs, <<r, "decode">>)
    /\ UNCHANGED <<async, timer, bucketVars, decoding, calls, line, permits, watchVars>>

(* A free thread takes the oldest job; one that was cancelled is dropped.  *)
StartJob ==
    /\ jobs # <<>>
    /\ ThreadsUsed < Threads
    /\ jobs' = Tail(jobs)
    /\ LET r == Head(jobs)[1]
           decode == Head(jobs)[2] = "decode"
       IN /\ decoding' = IF decode THEN decoding \cup {r} ELSE decoding
          /\ calls' = IF ~decode /\ pc[r] = "call" THEN calls \cup {r} ELSE calls
    /\ UNCHANGED <<async, pc, timer, bucketVars, line, permits, watchVars>>

Decoded(r) ==
    /\ r \in decoding
    /\ decoding' = decoding \ {r}
    /\ pc' = [pc EXCEPT ![r] = "rpm"]
    /\ UNCHANGED <<async, timer, bucketVars, jobs, calls, line, permits, watchVars>>

-----------------------------------------------------------------------------
(* The buckets: the body of acquire holds the bucket's lock and does not   *)
(* await, so it is one step.                                               *)

(* The tokens of a bucket after the refill that begins every acquire.      *)
Refilled(b) == IF tokens[b] + elapsed[b] > Second THEN Second ELSE tokens[b] + elapsed[b]

SetTokens(b, n) ==
    /\ tokens' = [tokens EXCEPT ![b] = n]
    /\ elapsed' = [elapsed EXCEPT ![b] = 0]

(* The request leaves the bucket, to the next one or to the semaphore.     *)
Leave(r, b) ==
    /\ pc' = [pc EXCEPT ![r] = After[b]]
    /\ line' = IF After[b] = "line" THEN Append(line, r) ELSE line

(* The observer notes who takes tokens of the watched bucket.              *)
Note(r, b) ==
    /\ took' = IF b = Watched THEN Append(took, r) ELSE took
    /\ UNCHANGED since

(* The bucket has the tokens: they are taken and acquire returns.          *)
TakeTokens(r, b) ==
    /\ pc[r] = b
    /\ timer[r] = 0
    /\ Cost[b] <= Second
    /\ Refilled(b) >= Cost[b]
    /\ SetTokens(b, Refilled(b) - Cost[b])
    /\ Leave(r, b)
    /\ Note(r, b)
    /\ UNCHANGED <<async, timer, poolVars, permits>>

(* It has not: the request sleeps as long as the refill of what is missing *)
(* takes, then tries again.                                                *)
SleepForTokens(r, b) ==
    /\ pc[r] = b
    /\ timer[r] = 0
    /\ Cost[b] <= Second
    /\ Refilled(b) < Cost[b]
    /\ SetTokens(b, Refilled(b))
    /\ timer' = [timer EXCEPT ![r] = Cost[b] - Refilled(b)]
    /\ UNCHANGED <<async, pc, poolVars, line, permits, watchVars>>

\* Mutant of TakeAhead: the bucket is emptied instead of left in debt.
TakeAheadToZero(r, b) ==
    /\ pc[r] = b
    /\ timer[r] = 0
    /\ Cost[b] > Second
    /\ SetTokens(b, 0)
    /\ timer' = [timer EXCEPT ![r] = Cost[b] - Refilled(b)]
    /\ pc' = [pc EXCEPT ![r] = Paid[b]]
    /\ Note(r, b)
    /\ UNCHANGED <<async, poolVars, line, permits>>

(* A request that costs more than a bucket holds: it takes the tokens at   *)
(* once, which leaves less than none, and sleeps until they are refilled.  *)
TakeAhead(r, b) ==
    /\ pc[r] = b
    /\ timer[r] = 0
    /\ Cost[b] > Second
    /\ SetTokens(b, Refilled(b) - Cost[b])
    /\ timer' = [timer EXCEPT ![r] = Cost[b] - Refilled(b)]
    /\ pc' = [pc EXCEPT ![r] = Paid[b]]
    /\ Note(r, b)
    /\ UNCHANGED <<async, poolVars, line, permits>>

Slept(r, b) ==
    /\ pc[r] = Paid[b]
    /\ timer[r] = 0
    /\ Leave(r, b)
    /\ UNCHANGED <<async, timer, bucketVars, poolVars, permits, watchVars>>

Acquire(r, b) == TakeTokens(r, b) \/ SleepForTokens(r, b) \/ TakeAhead(r, b) \/ Slept(r, b)

-----------------------------------------------------------------------------
(* The call                                                                *)

(* The semaphore lets its oldest waiter in; the time limit begins, and a   *)
(* compute_score that is no coroutine goes to the executor.                *)
StartCall ==
    /\ line # <<>>
    /\ permits > 0
    /\ line' = Tail(line)
    /\ permits' = permits - 1
    /\ pc' = [pc EXCEPT ![Head(line)] = "call"]
    /\ timer' = [timer EXCEPT ![Head(line)] = Timeout]
    /\ IF async
       THEN calls' = calls \cup {Head(line)} /\ UNCHANGED jobs
       ELSE jobs' = Append(jobs, <<Head(line), "score">>) /\ UNCHANGED calls
    /\ UNCHANGED <<async, bucketVars, decoding, watchVars>>

(* The request returns and gives its permit back.                          *)
Return(r) ==
    /\ pc' = [pc EXCEPT ![r] = "done"]
    /\ timer' = [timer EXCEPT ![r] = 0]
    /\ permits' = permits + 1

Answer(r) ==
    /\ pc[r] = "call"
    /\ r \in calls \ Hanging
    /\ calls' = calls \ {r}
    /\ Return(r)
    /\ UNCHANGED <<async, bucketVars, jobs, decoding, line, watchVars>>

\* Mutant of TimedOut: a coroutine is not cancelled.
TimedOutRunsOn(r) ==
    /\ pc[r] = "call"
    /\ timer[r] = 0
    /\ Return(r)
    /\ UNCHANGED <<async, bucketVars, poolVars, line, watchVars>>

\* Mutant of TimedOut: the permit is not given back.
TimedOutKeepsPermit(r) ==
    /\ pc[r] = "call"
    /\ timer[r] = 0
    /\ calls' = IF async THEN calls \ {r} ELSE calls
    /\ pc' = [pc EXCEPT ![r] = "done"]
    /\ UNCHANGED <<async, timer, permits, bucketVars, jobs, decoding, line, watchVars>>

(* The time is over: a coroutine is cancelled, and so is a job that has    *)
(* not begun (StartJob drops it); a thread in compute_score runs on.       *)
TimedOut(r) ==
    /\ pc[r] = "call"
    /\ timer[r] = 0
    /\ calls' = IF async THEN calls \ {r} ELSE calls
    /\ Return(r)
    /\ UNCHANGED <<async, bucketVars, jobs, decoding, line, watchVars>>

(* A thread whose request has given up on it ends; nobody reads its answer. *)
LateAnswer(r) ==
    /\ pc[r] = "done"
    /\ r \in calls \ Hanging
    /\ calls' = calls \ {r}
    /\ UNCHANGED <<async, pc, timer, bucketVars, jobs, decoding, line, permits, watchVars>>

-----------------------------------------------------------------------------
(* A tick passes.  What a bucket has over one tick past full is not        *)
(* counted: the refill drops it.  The watch may begin anew at any tick and *)
(* does so at the latest after Window.                                     *)
Tick ==
    /\ timer' = [r \in Reqs |-> IF timer[r] > 0 THEN timer[r] - 1 ELSE 0]
    /\ elapsed' = [b \in Buckets |-> IF tokens[b] + elapsed[b] > Second
                                     THEN elapsed[b] ELSE elapsed[b] + 1]
    /\ \/ since < Window /\ since' = since + 1 /\ UNCHANGED took
       \/ since' = 0 /\ took' = <<>>
    /\ UNCHANGED <<async, pc, tokens, poolVars, line, permits>>

Next ==
    \/ \E r \in Reqs : Arrive(r) \/ Decoded(r) \/ Answer(r) \/ TimedOut(r) \/ LateAnswer(r)
    \/ \E r \in Reqs, b \in Buckets : Acquire(r, b)
    \/ StartJob
    \/ StartCall
    \/ Tick

(* Time passes, the loop runs what is due, threads take jobs, decoding     *)
(* ends and so does every call that does not hang.                         *)
Fairness ==
    /\ WF_vars(Tick)
    /\ WF_vars(StartJob)
    /\ WF_vars(StartCall)
    /\ \A r \in Reqs :
        /\ WF_vars(Decoded(r))
        /\ WF_vars(Answer(r))
        /\ WF_vars(LateAnswer(r))
        /\ WF_vars(TimedOut(r))
        /\ \A b \in Buckets : WF_vars(Acquire(r, b))

Spec == Init /\ [][Next]_vars /\ Fairness

-----------------------------------------------------------------------------
Jobs == Reqs \X {"decode", "score"}

(* Types: no bucket holds more than a second's tokens, and the semaphore's *)
(* value stays between zero and its permits.                               *)
TypeOK ==
    /\ async \in BOOLEAN
    /\ pc \in [Reqs -> Places]
    /\ timer \in [Reqs -> Nat]
    /\ tokens \in [Buckets -> {n \in Int : n <= Second}]
    /\ elapsed \in [Buckets -> Nat]
    /\ jobs \in Seq(Jobs)
    /\ decoding \subseteq Reqs
    /\ calls \subseteq Reqs
    /\ line \in Seq(Reqs)
    /\ permits \in 0..MaxConcurrent
    /\ since \in 0..Window
    /\ took \in Seq(Reqs)

(* The rate is kept: over any stretch of time, the i-th request to take    *)
(* tokens of a bucket leaves it no earlier than the bucket could refill    *)
(* what i requests cost beyond the second it holds, also when requests     *)
(* take tokens ahead and when the event loop is late.                      *)
RateKept ==
    \A i \in 1..Len(took) :
        pc[took[i]] # Paid[Watched] => i * Cost[Watched] <= Second + since

(* No needless sleep: a request sleeps for a bucket only as long as the    *)
(* tokens it waits for are really missing (for tokens taken ahead: as long *)
(* as the bucket is in debt), whatever the others take meanwhile.          *)
SleepsOnlyWhenShort ==
    \A r \in Reqs, b \in Buckets :
        timer[r] > 0 =>
            /\ pc[r] = b => tokens[b] + elapsed[b] + timer[r] <= Cost[b]
            /\ pc[r] = Paid[b] => tokens[b] + elapsed[b] + timer[r] <= 0

(* The calls that requests wait for are within max_concurrent, and a       *)
(* compute_score that is a coroutine never runs on when its request is     *)
(* over: what exceeds the limit is threads that were given up.             *)
CallsWithinLimit ==
    /\ Cardinality({r \in Reqs : pc[r] = "call"}) <= MaxConcurrent
    /\ async => \A r \in calls : pc[r] = "call"

(* Every request that arrives gets its reward, through the limits and past *)
(* the calls that hang, as long as these leave a thread over.              *)
EveryRequestEnds == []<>(\A r \in Reqs : pc[r] \in {"new", "done"})
=============================================================================
