---------------------------- MODULE MicroBatches ----------------------------
(***************************************************************************)
(* How a batch of sequences is balanced, dispatched and computed by data   *)
(* parallel ranks.  The controller pads the batch with synthetic rows to a *)
(* multiple of the mini-batch, partitions it over the ranks by the         *)
(* differencing method of Karmarkar and Karp, and calls all ranks twice:   *)
(* for log probs, whose outputs it concatenates, and for the updates, one  *)
(* per mini-batch.  In each forward_backward_batch the ranks agree on a    *)
(* number of micro-batches, each partitions its rows into that many by the *)
(* same method, runs them, and restores the order of its rows.             *)
(*                                                                         *)
(* The ranks run the same program but their own data, and every micro-     *)
(* batch is full of collectives: a rank that runs one more than the others *)
(* waits for ever.  The collectives of a micro-batch are one step here, as *)
(* are those that precede its split.                                       *)
(***************************************************************************)
EXTENDS Integers, FiniteSets, Sequences, SequencesExt

CONSTANTS
  Dp,        \* size of the data parallel group
  Received,  \* rows the batch has before it is padded
  Mini,      \* ppo_mini_batch_size * rollout.n
  MaxTokens, \* max_token_len of a micro-batch
  Lengths,   \* lengths of sequences
  Tokens(_)  \* the sum of a sequence of lengths

Ranks      == 1 .. Dp
Controller == 0
Processes  == 0 .. Dp

\* What _get_required_batch_multiple returns is Mini, a multiple of Dp.
Size    == Received + ((-Received) % Mini)
Chunk   == Size \div Dp
Share   == Mini \div Dp  \* mini_batch_size_per_gpu
Updates == Size \div Mini

ASSUME SplitAssumption ==
  /\ Dp \in Nat \ {0} /\ Received \in Nat \ {0} /\ Mini \in Nat \ {0} /\ Mini % Dp = 0
  /\ MaxTokens \in Nat /\ MaxTokens >= 2 /\ Lengths \subseteq 1 .. MaxTokens
ASSUME TokensAssumption ==
  \A n \in {Chunk, Share} : \A s \in [1 .. n -> 1 .. MaxTokens] : Tokens(s) \in Nat \ {0}

VARIABLES
  phase,  \* controller: what it does next
  lens,   \* controller: length of each row
  order,  \* controller: rows in the order of the batch
  result, \* controller: the rows that the outputs it got belong to
  heap,   \* of each process, while it partitions: the states in states_pq
  at,     \* rank: where it is in its call
  job,    \* rank: number of its forward_backward_batch in that call
  num,    \* rank: num_micro_batches
  micro,  \* rank: micro_bsz_idx, as a sequence of sets of positions
  ran,    \* rank: micro-batches it has run
  out     \* rank: the rows that the outputs it returns belong to

controller == <<phase, lens, order, result>>
rank       == <<at, job, num, micro, ran, out>>
vars       == <<controller, heap, rank>>

-----------------------------------------------------------------------------
(* The differencing method: k partitions of the items 1 .. n.  A state is a *)
(* decreasing list of k sets; two states are merged until one is left.      *)

Workload(length) == 24576 * length + length * length

\* The rows of the batch that rank r computes in its job.
First(r) == (r - 1) * Chunk + (IF phase = "infer" THEN 0 ELSE (job[r] - 1) * Share)
Amount   == IF phase = "infer" THEN Chunk ELSE Share
Batch(r) == [p \in 1 .. Amount |-> order[First(r) + p]]

Items(a)   == IF a = Controller THEN 1 .. Size ELSE 1 .. Amount
Parts(a)   == IF a = Controller THEN Dp ELSE num[a]
Work(a, p) == Workload(lens[IF a = Controller THEN p ELSE Batch(a)[p]])

EmptySet     == [items |-> {}, sum |-> 0]
Single(a, p) == [items |-> {p}, sum |-> Work(a, p)]

\* Set.__lt__, up to the last tie, between sets of the same sum and size.
NotLess(x, y) ==
  x.sum > y.sum \/ (x.sum = y.sum /\ Cardinality(x.items) >= Cardinality(y.items))

\* Mutant of Sorted: a merged state is not sorted again.
Unsorted(st, k) == TRUE

Sorted(st, k) == \A i, j \in 1 .. k : i < j => NotLess(st[i], st[j])

Spread(st, k) == st[1].sum - st[k].sum

\* The states whose spreads are largest are popped, ties broken either way.
PopTwo(a, s0, s1) ==
  /\ s0 \in heap[a] /\ s1 \in heap[a] \ {s0}
  /\ \A st \in heap[a] : Spread(st, Parts(a)) <= Spread(s0, Parts(a))
  /\ \A st \in heap[a] \ {s0} : Spread(st, Parts(a)) <= Spread(s1, Parts(a))

\* Mutant of Joined: largest set to largest set.
JoinedInOrder(s0, s1, k) == [i \in 1 .. k |->
  [items |-> s0[i].items \cup s1[i].items, sum |-> s0[i].sum + s1[i].sum]]

\* The largest set of one state gets the smallest of the other.
Joined(s0, s1, k) == [i \in 1 .. k |->
  [items |-> s0[i].items \cup s1[k + 1 - i].items, sum |-> s0[i].sum + s1[k + 1 - i].sum]]

Rearrangements(st, k) == {[i \in 1 .. k |-> st[f[i]]] : f \in Bijection(1 .. k, 1 .. k)}

\* One state for each item ...
OneByOne(a, k) == {[i \in 1 .. k |-> IF i = 1 THEN Single(a, p) ELSE EmptySet] : p \in Items(a)}

\* ... or, for partitions of the same size, one for every k items in a row of
\* the items sorted by workload.
InBlocks(a, k, sorted) ==
  {[i \in 1 .. k |-> Single(a, sorted[b * k + k + 1 - i])] : b \in 0 .. Cardinality(Items(a)) \div k - 1}
Ascending(a, f) ==
  /\ f \in [Items(a) -> Items(a)]
  /\ \A p, q \in Items(a) : p < q =>
       Work(a, f[p]) < Work(a, f[q]) \/ (Work(a, f[p]) = Work(a, f[q]) /\ f[p] < f[q])

Merge(a) ==
  /\ \E s0, s1 \in heap[a] : PopTwo(a, s0, s1) /\
       \E st \in Rearrangements(Joined(s0, s1, Parts(a)), Parts(a)) :
         Sorted(st, Parts(a)) /\ heap' = [heap EXCEPT ![a] = (heap[a] \ {s0, s1}) \cup {st}]
  /\ UNCHANGED <<controller, rank>>

Partitioned(a, st) == heap[a] = {st}

-----------------------------------------------------------------------------
(* The controller. *)

Init ==
  /\ phase = "balance" /\ lens \in [1 .. Received -> Lengths]
  /\ order = <<>> /\ result = <<>>
  /\ heap = [a \in Processes |-> {}]
  /\ at = [r \in Ranks |-> "count"] /\ job = [r \in Ranks |-> 1]
  /\ num = [r \in Ranks |-> 0] /\ micro = [r \in Ranks |-> <<>>]
  /\ ran = [r \in Ranks |-> 0] /\ out = [r \in Ranks |-> <<>>]

\* A synthetic row has one token of prompt and one of response.
Padded == [p \in 1 .. Size |-> IF p <= Received THEN lens[p] ELSE 2]

Upsample ==
  /\ phase = "balance"
  /\ lens' = Padded
  /\ phase' = "partition"
  /\ UNCHANGED <<order, result, heap, rank>>

Balance ==
  /\ phase = "partition" /\ heap[Controller] = {}
  /\ \E sorted \in Permutations(1 .. Size) :
       /\ Ascending(Controller, sorted)
       /\ heap' = [heap EXCEPT ![Controller] = InBlocks(Controller, Dp, sorted)]
  /\ UNCHANGED <<controller, rank>>

\* sorted(S): the item at place i is the one that has i - 1 smaller ones.
InOrder(S) ==
  [i \in 1 .. Cardinality(S) |-> CHOOSE p \in S : Cardinality({q \in S : q < p}) = i - 1]

\* What get_seqlen_balanced_partitions asserts of the partitions is a guard:
\* if it did not hold the calls would never return.
Reorder ==
  /\ phase = "partition"
  /\ \E st \in heap[Controller] :
       /\ Partitioned(Controller, st)
       /\ order' = FlattenSeq([i \in 1 .. Dp |-> InOrder(st[i].items)])
       /\ order' \in [1 .. Size -> 1 .. Size]
  /\ heap' = [heap EXCEPT ![Controller] = {}]
  /\ phase' = "infer"
  /\ UNCHANGED <<lens, result, rank>>

\* The call returns when all ranks have; outputs are concatenated by rank.
Collect ==
  /\ phase \in {"infer", "update"}
  /\ \A r \in Ranks : at[r] = "returned"
  /\ IF phase = "infer"
     THEN /\ result' = FlattenSeq(out)
          /\ phase' = "update" /\ at' = [r \in Ranks |-> "count"]
     ELSE phase' = "done" /\ UNCHANGED <<result, at>>
  /\ UNCHANGED <<lens, order, heap, job, num, micro, ran, out>>

-----------------------------------------------------------------------------
(* The ranks. *)

Least(a, b)   == IF a < b THEN a ELSE b
CeilDiv(a, b) == -((-a) \div b)

LocalCount(r) ==
  Least(Len(Batch(r)), CeilDiv(Tokens([p \in DOMAIN Batch(r) |-> lens[Batch(r)[p]]]), MaxTokens))

Count(r) ==
  /\ phase \in {"infer", "update"} /\ at[r] = "count"
  /\ num' = [num EXCEPT ![r] = LocalCount(r)]
  /\ at' = [at EXCEPT ![r] = "reduce"]
  /\ UNCHANGED <<controller, heap, job, micro, ran, out>>

\* Mutant of Reduce: same_micro_num_in_dp is off.
ReduceNothing ==
  /\ \A r \in Ranks : at[r] = "reduce"
  /\ at' = [r \in Ranks |-> "split"]
  /\ UNCHANGED <<controller, heap, job, num, micro, ran, out>>

Reduce ==
  /\ \A r \in Ranks : at[r] = "reduce"
  /\ \E r \in Ranks : /\ \A s \in Ranks : num[s] <= num[r]
                      /\ num' = [s \in Ranks |-> num[r]]
  /\ at' = [r \in Ranks |-> "split"]
  /\ UNCHANGED <<controller, heap, job, micro, ran, out>>

\* assert num_micro_batches <= num_groups
Split(r) ==
  /\ at[r] = "split"
  /\ IF num[r] > Len(Batch(r))
     THEN at' = [at EXCEPT ![r] = "raised"] /\ UNCHANGED heap
     ELSE /\ at' = [at EXCEPT ![r] = "merge"]
          /\ heap' = [heap EXCEPT ![r] = OneByOne(r, num[r])]
  /\ UNCHANGED <<controller, job, num, micro, ran, out>>

\* Smaller micro-batches go to both ends: every other one of the decreasing
\* list in reverse, then the others.  Sets of equal workload, which the code orders
\* by their first row, come in either order.
ToEnds(i, k) == LET half == (k + 1) \div 2
                IN  IF i <= half THEN 2 * (half - i) + 1 ELSE 2 * (i - half)

Arrange(r) ==
  /\ at[r] = "merge"
  /\ \E st \in heap[r] :
       /\ Partitioned(r, st)
       /\ micro' = [micro EXCEPT ![r] = [i \in 1 .. num[r] |-> st[ToEnds(i, num[r])].items]]
  /\ heap' = [heap EXCEPT ![r] = {}]
  /\ ran' = [ran EXCEPT ![r] = 0]
  /\ at' = [at EXCEPT ![r] = "micro"]
  /\ UNCHANGED <<controller, job, num, out>>

Forward ==
  /\ \A r \in Ranks : at[r] = "micro" /\ ran[r] < Len(micro[r])
  /\ ran' = [r \in Ranks |-> ran[r] + 1]
  /\ UNCHANGED <<controller, heap, at, job, num, micro, out>>

\* indices, and the outputs of the micro-batches one after the other.
Indices(r) == FlattenSeq([i \in DOMAIN micro[r] |-> InOrder(micro[r][i])])
Outputs(r) == [i \in DOMAIN Indices(r) |-> Batch(r)[Indices(r)[i]]]

\* Mutant of Restored: by the indices themselves.
RestoredByIndices(r) == [i \in DOMAIN Indices(r) |-> Outputs(r)[Indices(r)[i]]]

Restored(r) ==
  LET reverse == [p \in DOMAIN Indices(r) |-> CHOOSE i \in DOMAIN Indices(r) : Indices(r)[i] = p]
  IN  [i \in DOMAIN Indices(r) |-> Outputs(r)[reverse[i]]]

HasRun(r) == at[r] = "micro" /\ ran[r] = Len(micro[r])

\* infer_batch returns what it has; the next mini-batch of train_mini_batch.
Return(r) ==
  /\ HasRun(r) /\ (phase = "infer" \/ job[r] = Updates)
  /\ out' = [out EXCEPT ![r] = IF phase = "infer" THEN Restored(r) ELSE @]
  /\ at' = [at EXCEPT ![r] = "returned"]
  /\ UNCHANGED <<controller, heap, job, num, micro, ran>>

NextUpdate(r) ==
  /\ HasRun(r) /\ phase = "update" /\ job[r] < Updates
  /\ job' = [job EXCEPT ![r] = @ + 1]
  /\ at' = [at EXCEPT ![r] = "count"]
  /\ UNCHANGED <<controller, heap, num, micro, ran, out>>

-----------------------------------------------------------------------------
ControllerStep == Upsample \/ Balance \/ Reorder \/ Collect
RankStep(r)    == Count(r) \/ Split(r) \/ Arrange(r) \/ Return(r) \/ NextUpdate(r)
Collective     == Reduce \/ Forward

Next ==
  \/ ControllerStep \/ Collective
  \/ (\E r \in Ranks : RankStep(r)) \/ (\E a \in Processes : Merge(a))

Fairness ==
  /\ WF_vars(ControllerStep) /\ WF_vars(Collective)
  /\ \A r \in Ranks : WF_vars(RankStep(r))
  /\ \A a \in Processes : WF_vars(Merge(a))

Spec == Init /\ [][Next]_vars /\ Fairness

-----------------------------------------------------------------------------
TypeOK ==
  /\ phase \in {"balance", "partition", "infer", "update", "done"}
  /\ IF phase = "balance" THEN lens \in [1 .. Received -> 1 .. MaxTokens]
                          ELSE lens \in [1 .. Size -> 1 .. MaxTokens]
  /\ phase \in {"infer", "update", "done"} => order \in [1 .. Size -> 1 .. Size]
  /\ at \in [Ranks -> {"count", "reduce", "split", "merge", "micro", "returned", "raised"}]
  /\ job \in [Ranks -> 1 .. Updates]
  /\ num \in [Ranks -> Nat] /\ ran \in [Ranks -> Nat]

\* Ranks that wait in a collective wait in the same one: of the same mini-batch
\* and the same micro-batch, of the same number of them.
Waits(r) == at[r] = "reduce" \/ (at[r] = "micro" /\ ran[r] < Len(micro[r]))
SameCollective ==
  \A r, s \in Ranks : Waits(r) /\ Waits(s) =>
    /\ at[r] = at[s] /\ job[r] = job[s]
    /\ at[r] = "micro" => ran[r] = ran[s] /\ Len(micro[r]) = Len(micro[s])

\* Every row of a mini-batch is in exactly one micro-batch, and none is empty.
EachRowOnce ==
  \A r \in Ranks : at[r] = "micro" =>
    /\ \A p \in Items(r) : Cardinality({i \in DOMAIN micro[r] : p \in micro[r][i]}) = 1
    /\ \A i \in DOMAIN micro[r] : micro[r][i] # {} /\ micro[r][i] \subseteq Items(r)

\* No two partitions differ by more than the workload of a single sequence.
Balanced ==
  \A a \in Processes : \A st \in heap[a] : \A i, j \in 1 .. Parts(a) :
    \E p \in Items(a) : st[i].sum - st[j].sum <= Work(a, p)

\* The assertions about the number of micro-batches hold.
AssertsHold == \A r \in Ranks : at[r] # "raised"

\* The outputs the controller gets are in the order of its batch, which has
\* every row once.
RoundTrip ==
  phase \in {"update", "done"} =>
    /\ result = order
    /\ Len(order) = Size /\ ToSet(order) = 1 .. Size

\* Both calls return.
CallsReturn == <>(phase = "done")
=============================================================================
