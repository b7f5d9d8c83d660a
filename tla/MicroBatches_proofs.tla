------------------------ MODULE MicroBatches_proofs ------------------------
(***************************************************************************)
(* Proofs about MicroBatches.  The ranks move in lockstep: a rank leaves   *)
(* its last micro-batch only when all others have run theirs, because all  *)
(* run the same number, and at least one; so a collective that some ranks  *)
(* wait in is one that all come to.  In the differencing method the spread *)
(* of two states merged is no larger than that of one of them; their sets  *)
(* stay disjoint and cover the items, and the sets of a state are all      *)
(* filled or none has two items.                                           *)
(*                                                                         *)
(* The indices of a rank's micro-batches are then its rows, each once, so  *)
(* their inverse restores the order of its rows; the rows of the ranks one *)
(* after the other are the batch.                                          *)
(***************************************************************************)
EXTENDS MicroBatches, SequenceTheorems, FiniteSetTheorems, WellFoundedInduction, TLAPS

Types == TypeOK /\ micro = [r \in Ranks |-> micro[r]]

Before(r) == at[r] \in {"count", "reduce"}
Within(r) == at[r] \in {"split", "merge", "micro"}

\* The calls: both start with every rank at its first job.
Calls ==
  /\ phase \in {"balance", "partition"} => \A r \in Ranks : at[r] = "count"
  /\ phase \notin {"update", "done"} => \A r \in Ranks : job[r] = 1
  /\ phase = "done" => \A r \in Ranks : at[r] = "returned"

\* There is at least one micro-batch, and no more than rows.
Counted ==
  \A r \in Ranks : /\ at[r] # "raised"
                   /\ at[r] = "reduce" \/ Within(r) => num[r] \in 1 .. Amount
                   /\ at[r] = "micro" => Len(micro[r]) = num[r] /\ ran[r] <= num[r]

\* A rank only leaves its last micro-batch when the others have run it too: it
\* is one job ahead at most, and only of ranks that have nothing left to run.
Lockstep ==
  \A r, s \in Ranks :
    /\ Before(r) /\ Before(s) => job[r] = job[s]
    /\ Within(r) /\ Within(s) => job[r] = job[s] /\ num[r] = num[s]
    /\ at[r] = "micro" /\ at[s] = "micro" => ran[r] = ran[s]
    /\ at[r] = "micro" /\ at[s] \in {"split", "merge"} => ran[r] = 0
    /\ Within(r) /\ Before(s) => HasRun(r) /\ job[s] = job[r] + 1
    /\ Within(r) /\ at[s] = "returned" => HasRun(r) /\ (phase = "infer" \/ job[r] = Updates)
    /\ Before(r) => at[s] # "returned"

Inv == Types /\ Calls /\ Counted /\ Lockstep

-----------------------------------------------------------------------------
(* The shares divide the batch.                                            *)

LEMMA DivMod ==
  ASSUME NEW a \in Int, NEW b \in Nat \ {0}
  PROVE  /\ a = b * (a \div b) + (a % b)
         /\ a \div b \in Int /\ a % b \in 0 .. b - 1
  OBVIOUS

LEMMA Exact ==
  ASSUME NEW a \in Int, NEW b \in Nat \ {0}, a % b = 0
  PROVE  a = b * (a \div b) /\ a \div b \in Int
  BY DivMod

LEMMA PositiveFactor ==
  ASSUME NEW a \in Nat \ {0}, NEW b \in Nat \ {0}, NEW q \in Int, a = b * q
  PROVE  q \in Nat \ {0}
  OBVIOUS

LEMMA Multiple ==
  ASSUME NEW b \in Nat \ {0}, NEW q \in Int
  PROVE  (b * q) % b = 0
<1> DEFINE a == b * q  m == a % b  d == a \div b
<1>1. a \in Int
  OBVIOUS
<1> HIDE DEF a
<1>2. a = b * d + m /\ m \in 0 .. b - 1 /\ d \in Int
  BY <1>1, DivMod
<1> HIDE DEF m, d
<1>3. m = b * (q - d)
  BY <1>2 DEF a
<1>4. q - d = 0
  BY <1>2, <1>3
<1> QED
  BY <1>2, <1>3, <1>4 DEF m, a

LEMMA ModSum ==
  ASSUME NEW a \in Int, NEW b \in Nat \ {0}
  PROVE  (a + ((-a) % b)) % b = 0
<1> DEFINE m == (-a) % b  d == (-a) \div b
<1>1. -a = b * d + m /\ d \in Int /\ m \in Int
  BY DivMod
<1> HIDE DEF m, d
<1>2. a + m = b * (-d) /\ -d \in Int
  BY <1>1
<1> QED
  BY <1>2, Multiple DEF m

LEMMA Cancel ==
  ASSUME NEW b \in Nat \ {0}, NEW x \in Int, NEW y \in Int, b * x = b * y
  PROVE  x = y
  OBVIOUS

LEMMA Monotone ==
  ASSUME NEW c \in Nat, NEW x \in Int, NEW y \in Int, x <= y
  PROVE  x * c <= y * c
  OBVIOUS

LEMMA Sizes ==
  /\ Size \in Nat \ {0} /\ Chunk \in Nat \ {0} /\ Share \in Nat \ {0} /\ Updates \in Nat \ {0}
  /\ Received <= Size /\ Dp * Chunk = Size /\ Mini = Dp * Share /\ Chunk = Updates * Share
<1>1. /\ Dp \in Nat \ {0} /\ Received \in Nat \ {0} /\ Mini \in Nat \ {0}
      /\ Mini % Dp = 0
  BY SplitAssumption DEF SplitAssumption
<1>2. (-Received) % Mini \in Nat
  BY <1>1, DivMod
<1>3. Size \in Nat \ {0} /\ Received <= Size
  BY <1>1, <1>2 DEF Size
<1>4. Size % Mini = 0
  BY <1>1, ModSum DEF Size
<1>5. Size = Mini * Updates /\ Updates \in Nat \ {0}
  <2>1. Size = Mini * Updates /\ Updates \in Int
    BY <1>1, <1>3, <1>4, Exact DEF Updates
  <2> QED
    BY <1>1, <1>3, <2>1, PositiveFactor
<1>6. Mini = Dp * Share /\ Share \in Nat \ {0}
  <2>1. Mini = Dp * Share /\ Share \in Int
    BY <1>1, Exact DEF Share
  <2> QED
    BY <1>1, <2>1, PositiveFactor
<1>7. Size = Dp * (Updates * Share)
  BY <1>1, <1>5, <1>6
<1>8. Updates * Share \in Int
  BY <1>5, <1>6
<1>9. Size % Dp = 0
  BY <1>1, <1>7, <1>8, Multiple
<1>10. Size = Dp * Chunk /\ Chunk \in Nat \ {0}
  <2>1. Size = Dp * Chunk /\ Chunk \in Int
    BY <1>1, <1>3, <1>9, Exact DEF Chunk
  <2> QED
    BY <1>1, <1>3, <2>1, PositiveFactor
<1>11. Chunk = Updates * Share
  BY <1>1, <1>7, <1>8, <1>10, Cancel
<1> QED
  BY <1>3, <1>5, <1>6, <1>10, <1>11

\* The positions of the rows that a rank computes are positions of the batch.
LEMMA Positions ==
  ASSUME NEW r \in Ranks, job[r] \in 1 .. Updates, NEW p \in 1 .. Amount
  PROVE  First(r) + p \in 1 .. Size
<1>1. Dp \in Nat \ {0}
  BY SplitAssumption DEF SplitAssumption
<1>2. /\ Size \in Nat /\ Chunk \in Nat \ {0} /\ Share \in Nat \ {0} /\ Updates \in Nat
      /\ Dp * Chunk = Size /\ Chunk = Updates * Share
  BY Sizes
<1>3. r \in 1 .. Dp
  BY DEF Ranks
<1>4. (r - 1) * Chunk \in Nat /\ r * Chunk <= Size /\ r * Chunk = (r - 1) * Chunk + Chunk
  <2>1. r * Chunk <= Dp * Chunk
    BY <1>1, <1>2, <1>3, Monotone
  <2> QED
    BY <1>1, <1>2, <1>3, <2>1
<1>5. CASE phase = "infer"
  BY <1>2, <1>4, <1>5 DEF First, Amount
<1>6. CASE phase # "infer"
  <2>1. job[r] * Share <= Updates * Share
    BY <1>2, Monotone
  <2>2. (job[r] - 1) * Share \in Nat /\ job[r] * Share = (job[r] - 1) * Share + Share
    BY <1>2
  <2>3. p \in 1 .. Share /\ First(r) = (r - 1) * Chunk + (job[r] - 1) * Share
    BY <1>6 DEF First, Amount
  <2> QED
    BY <1>2, <1>4, <2>1, <2>2, <2>3
<1> QED
  BY <1>5, <1>6

LEMMA CeilDivPositive ==
  ASSUME NEW a \in Nat \ {0}, NEW b \in Nat \ {0}
  PROVE  CeilDiv(a, b) \in Nat \ {0}
<1> DEFINE q == (-a) \div b  m == (-a) % b
<1>1. -a = b * q + m /\ q \in Int /\ m \in 0 .. b - 1
  BY DivMod
<1>2. CeilDiv(a, b) = -q
  BY DEF CeilDiv
<1> HIDE DEF q, m
<1>3. b * q < 0
  BY <1>1
<1>4. q < 0
  BY <1>1, <1>3
<1> QED
  BY <1>1, <1>2, <1>4

LEMMA LocalCountBounded ==
  ASSUME Types, phase \in {"infer", "update"}, NEW r \in Ranks
  PROVE  LocalCount(r) \in 1 .. Amount
<1>1. Amount \in {Chunk, Share} /\ Amount \in Nat \ {0} /\ Size \in Nat
  BY Sizes DEF Amount
<1>2. job[r] \in 1 .. Updates /\ order \in [1 .. Size -> 1 .. Size]
      /\ lens \in [1 .. Size -> 1 .. MaxTokens]
  BY DEF Types, TypeOK
<1>3. Batch(r) \in [1 .. Amount -> 1 .. Size]
  <2>1. \A p \in 1 .. Amount : First(r) + p \in 1 .. Size
    BY <1>2, Positions
  <2> QED
    BY <1>2, <2>1 DEF Batch
<1>4. Len(Batch(r)) = Amount /\ DOMAIN Batch(r) = 1 .. Amount
  <2>1. Batch(r) \in Seq(1 .. Size)
    BY <1>1, <1>3
  <2> QED
    BY <1>1, <1>3, <2>1, LenProperties
<1> DEFINE s == [p \in DOMAIN Batch(r) |-> lens[Batch(r)[p]]]
<1>5. s \in [1 .. Amount -> 1 .. MaxTokens]
  BY <1>2, <1>3, <1>4
<1>6. LocalCount(r) = Least(Len(Batch(r)), CeilDiv(Tokens(s), MaxTokens))
  BY DEF LocalCount
<1> HIDE DEF s
<1>7. Tokens(s) \in Nat \ {0}
  BY <1>1, <1>5, TokensAssumption DEF TokensAssumption
<1>8. CeilDiv(Tokens(s), MaxTokens) \in Nat \ {0}
  BY <1>7, CeilDivPositive, SplitAssumption DEF SplitAssumption
<1> QED
  BY <1>1, <1>4, <1>6, <1>8 DEF Least

-----------------------------------------------------------------------------
(* The invariant.                                                          *)

LEMMA InitInv ==
  ASSUME Init
  PROVE  Inv
<1>1. Lengths \subseteq 1 .. MaxTokens
  BY SplitAssumption DEF SplitAssumption
<1>2. Types
  <2>1. lens \in [1 .. Received -> 1 .. MaxTokens]
    BY <1>1 DEF Init
  <2>2. job \in [Ranks -> 1 .. Updates]
    BY Sizes DEF Init
  <2> QED
    BY <2>1, <2>2 DEF Init, Types, TypeOK
<1>3. Calls
  BY DEF Init, Calls
<1>4. Counted
  BY DEF Init, Counted, Within
<1>5. Lockstep
  BY DEF Init, Lockstep, Before, Within
<1> QED
  BY <1>2, <1>3, <1>4, <1>5 DEF Inv

\* What the controller does before it calls the ranks, and what happens in a
\* heap, touches no rank.
LEMMA BeforeCalls ==
  ASSUME Inv, UNCHANGED rank, phase' \in {"partition", "infer"}, phase \in {"balance", "partition"},
         Types'
  PROVE  Inv'
<1>1. \A r \in Ranks : at[r] = "count" /\ job[r] = 1
  BY DEF Inv, Calls
<1>2. at' = at /\ job' = job /\ num' = num /\ ran' = ran /\ micro' = micro
  BY DEF rank
<1>3. Calls'
  BY <1>1, <1>2 DEF Calls
<1>4. Counted'
  BY <1>1, <1>2 DEF Counted, Within
<1>5. Lockstep'
  BY <1>1, <1>2 DEF Lockstep, Before, Within
<1> QED
  BY <1>3, <1>4, <1>5 DEF Inv

LEMMA HeapOnly ==
  ASSUME Inv, UNCHANGED <<controller, rank>>
  PROVE  Inv'
<1>1. UNCHANGED <<phase, lens, order, at, job, num, micro, ran>>
  BY DEF controller, rank
<1> QED
  BY <1>1 DEF Inv, Types, TypeOK, Calls, Counted, Lockstep, Before, Within, HasRun, Amount

LEMMA UpsampleInv ==
  ASSUME Inv, Upsample
  PROVE  Inv'
<1>1. Received \in Nat /\ Size \in Nat /\ 2 \in 1 .. MaxTokens
  BY Sizes, SplitAssumption DEF SplitAssumption
<1>2. lens' \in [1 .. Size -> 1 .. MaxTokens]
  BY <1>1 DEF Upsample, Padded, Inv, Types, TypeOK
<1>3. UNCHANGED rank /\ phase' = "partition" /\ phase = "balance" /\ order' = order
  BY DEF Upsample
<1>4. Types'
  BY <1>2, <1>3 DEF Inv, Types, TypeOK, rank
<1> QED
  BY <1>3, <1>4, BeforeCalls

LEMMA ReorderInv ==
  ASSUME Inv, Reorder
  PROVE  Inv'
<1>1. order' \in [1 .. Size -> 1 .. Size]
  BY DEF Reorder
<1>2. UNCHANGED rank /\ phase' = "infer" /\ phase = "partition" /\ lens' = lens
  BY DEF Reorder
<1>3. Types'
  BY <1>1, <1>2 DEF Inv, Types, TypeOK, rank
<1> QED
  BY <1>2, <1>3, BeforeCalls

LEMMA CollectInv ==
  ASSUME Inv, Collect
  PROVE  Inv'
<1>1. /\ \A r \in Ranks : at[r] = "returned"
      /\ UNCHANGED <<lens, order, job, num, micro, ran>>
  BY DEF Collect
<1>2. CASE phase = "infer"
  <2>1. phase' = "update" /\ at' = [r \in Ranks |-> "count"]
    BY <1>2 DEF Collect
  <2>2. \A r \in Ranks : job[r] = 1
    BY <1>2 DEF Inv, Calls
  <2>3. Types'
    BY <1>1, <1>2, <2>1 DEF Inv, Types, TypeOK
  <2>4. Calls' /\ Counted' /\ Lockstep'
    BY <1>1, <2>1, <2>2 DEF Calls, Counted, Lockstep, Before, Within
  <2> QED
    BY <2>3, <2>4 DEF Inv
<1>3. CASE phase # "infer"
  <2>1. phase' = "done" /\ at' = at /\ phase = "update"
    BY <1>3 DEF Collect
  <2>2. Types'
    BY <1>1, <2>1 DEF Inv, Types, TypeOK
  <2>3. Calls' /\ Counted' /\ Lockstep'
    BY <1>1, <2>1 DEF Calls, Counted, Lockstep, Before, Within
  <2> QED
    BY <2>2, <2>3 DEF Inv
<1> QED
  BY <1>2, <1>3

\* A rank in a call.
LEMMA InCall ==
  ASSUME Inv, NEW r \in Ranks, at[r] \notin {"count", "returned"}
  PROVE  phase \in {"infer", "update"}
  BY DEF Inv, Types, TypeOK, Calls

LEMMA CountInv ==
  ASSUME Inv, NEW r \in Ranks, Count(r)
  PROVE  Inv'
<1>1. /\ phase \in {"infer", "update"} /\ at[r] = "count"
      /\ num' = [num EXCEPT ![r] = LocalCount(r)] /\ at' = [at EXCEPT ![r] = "reduce"]
      /\ UNCHANGED <<phase, lens, order, job, micro, ran>>
  BY DEF Count, controller
<1>2. LocalCount(r) \in 1 .. Amount /\ LocalCount(r) \in Nat /\ Amount' = Amount
  BY <1>1, LocalCountBounded DEF Inv, Amount
<1>3. Types'
  BY <1>1, <1>2 DEF Inv, Types, TypeOK
<1>4. Calls'
  BY <1>1 DEF Inv, Calls, Types, TypeOK
<1>5. Counted'
  BY <1>1, <1>2 DEF Inv, Counted, Types, TypeOK, Within
<1>6. Lockstep'
  BY <1>1 DEF Inv, Lockstep, Types, TypeOK, Before, Within, HasRun
<1> QED
  BY <1>3, <1>4, <1>5, <1>6 DEF Inv

LEMMA ReduceInv ==
  ASSUME Inv, Reduce
  PROVE  Inv'
<1>1. PICK m \in Ranks : num' = [s \in Ranks |-> num[m]]
  BY DEF Reduce
<1>2. /\ \A r \in Ranks : at[r] = "reduce"
      /\ at' = [r \in Ranks |-> "split"]
      /\ UNCHANGED <<phase, lens, order, job, micro, ran>>
  BY DEF Reduce, controller
<1>3. num[m] \in 1 .. Amount /\ num[m] \in Nat /\ Amount' = Amount
  BY <1>2 DEF Inv, Counted, Types, TypeOK, Amount
<1>4. Types'
  BY <1>1, <1>2, <1>3 DEF Inv, Types, TypeOK
<1>5. phase \in {"infer", "update"}
  BY <1>2, InCall
<1>6. Calls'
  BY <1>2, <1>5 DEF Inv, Calls
<1>7. Counted'
  BY <1>1, <1>2, <1>3 DEF Counted, Within
<1>8. Lockstep'
  BY <1>1, <1>2 DEF Inv, Lockstep, Before, Within
<1> QED
  BY <1>4, <1>6, <1>7, <1>8 DEF Inv

LEMMA SplitInv ==
  ASSUME Inv, NEW r \in Ranks, Split(r)
  PROVE  Inv'
<1>1. at[r] = "split" /\ UNCHANGED <<phase, lens, order, job, num, micro, ran>>
  BY DEF Split, controller
<1>2. phase \in {"infer", "update"} /\ num[r] \in 1 .. Amount /\ Amount' = Amount
  BY <1>1, InCall DEF Inv, Counted, Within, Amount
<1>3. Len(Batch(r)) = Amount
  <2>1. Amount \in Nat
    BY Sizes DEF Amount
  <2>2. Batch(r) \in [1 .. Amount -> {order[First(r) + p] : p \in 1 .. Amount}]
    BY DEF Batch
  <2> HIDE DEF Batch
  <2> QED
    BY <2>1, <2>2, LenProperties
<1>4. at' = [at EXCEPT ![r] = "merge"]
  BY <1>2, <1>3 DEF Split
<1>5. Types'
  BY <1>1, <1>4 DEF Inv, Types, TypeOK
<1>6. Calls'
  BY <1>1, <1>2, <1>4 DEF Inv, Calls
<1>7. Counted'
  BY <1>1, <1>2, <1>4 DEF Inv, Counted, Types, TypeOK, Within
<1>8. Lockstep'
  BY <1>1, <1>4 DEF Inv, Lockstep, Types, TypeOK, Before, Within, HasRun
<1> QED
  BY <1>5, <1>6, <1>7, <1>8 DEF Inv

LEMMA ArrangeInv ==
  ASSUME Inv, NEW r \in Ranks, Arrange(r)
  PROVE  Inv'
<1>1. /\ at[r] = "merge" /\ at' = [at EXCEPT ![r] = "micro"] /\ ran' = [ran EXCEPT ![r] = 0]
      /\ UNCHANGED <<phase, lens, order, job, num>>
  BY DEF Arrange, controller
<1>2. PICK st \in heap[r] :
        micro' = [micro EXCEPT ![r] = [i \in 1 .. num[r] |-> st[ToEnds(i, num[r])].items]]
  BY DEF Arrange
<1>3. phase \in {"infer", "update"} /\ num[r] \in 1 .. Amount /\ num[r] \in Nat /\ Amount' = Amount
  BY <1>1, InCall DEF Inv, Types, TypeOK, Counted, Within, Amount
<1> DEFINE m == [i \in 1 .. num[r] |-> st[ToEnds(i, num[r])].items]
<1>4. Len(m) = num[r]
  <2>1. m \in [1 .. num[r] -> {st[ToEnds(i, num[r])].items : i \in 1 .. num[r]}]
    OBVIOUS
  <2> HIDE DEF m
  <2> QED
    BY <1>3, <2>1, LenProperties
<1> HIDE DEF m
<1>5. micro' = [micro EXCEPT ![r] = m]
  BY <1>2 DEF m
<1>6. /\ micro'[r] = m /\ \A s \in Ranks : s # r => micro'[s] = micro[s]
      /\ micro' = [s \in Ranks |-> micro'[s]]
  BY <1>5 DEF Inv, Types, TypeOK
<1>7. Types'
  BY <1>1, <1>6 DEF Inv, Types, TypeOK
<1>8. Calls'
  BY <1>1, <1>3 DEF Inv, Calls
<1>9. Counted'
  BY <1>1, <1>3, <1>4, <1>6 DEF Inv, Counted, Types, TypeOK, Within
<1>10. Lockstep'
  BY <1>1, <1>6 DEF Inv, Lockstep, Types, TypeOK, Before, Within, HasRun
<1> QED
  BY <1>7, <1>8, <1>9, <1>10 DEF Inv

LEMMA ForwardInv ==
  ASSUME Inv, Forward
  PROVE  Inv'
<1>1. /\ \A r \in Ranks : at[r] = "micro" /\ ran[r] < Len(micro[r])
      /\ ran' = [r \in Ranks |-> ran[r] + 1]
      /\ UNCHANGED <<phase, lens, order, at, job, num, micro>>
  BY DEF Forward, controller
<1>2. Amount' = Amount /\ \A r \in Ranks : ran[r] \in Nat /\ num[r] \in Nat
  BY <1>1 DEF Amount, Inv, Types, TypeOK
<1>3. Types'
  BY <1>1, <1>2 DEF Inv, Types, TypeOK
<1>4. Calls'
  BY <1>1 DEF Inv, Calls
<1>5. Counted'
  BY <1>1, <1>2 DEF Inv, Counted, Within
<1>6. Lockstep'
  BY <1>1, <1>2 DEF Inv, Lockstep, Before, Within
<1> QED
  BY <1>3, <1>4, <1>5, <1>6 DEF Inv

\* When one rank has run all its micro-batches, so have those of the same job.
LEMMA OthersHaveRun ==
  ASSUME Inv, NEW r \in Ranks, NEW s \in Ranks, HasRun(r), Within(s)
  PROVE  HasRun(s) /\ job[s] = job[r]
<1>1. Within(r) /\ at[r] = "micro"
  BY DEF HasRun, Within
<1>2. ran[r] = num[r] /\ num[r] # 0 /\ num[s] = num[r] /\ job[s] = job[r]
  BY <1>1 DEF HasRun, Inv, Counted, Lockstep
<1>3. at[s] = "micro"
  BY <1>1, <1>2 DEF Within, Inv, Lockstep
<1> QED
  BY <1>1, <1>2, <1>3 DEF HasRun, Inv, Counted, Lockstep

LEMMA ReturnInv ==
  ASSUME Inv, NEW r \in Ranks, Return(r)
  PROVE  Inv'
<1>1. /\ HasRun(r) /\ (phase = "infer" \/ job[r] = Updates)
      /\ at' = [at EXCEPT ![r] = "returned"]
      /\ UNCHANGED <<phase, lens, order, job, num, micro, ran>>
  BY DEF Return, controller
<1>2. phase \in {"infer", "update"} /\ Amount' = Amount /\ at[r] = "micro"
  BY <1>1, InCall DEF HasRun, Amount
<1>3. \A s \in Ranks : ~Before(s)
  <2> SUFFICES ASSUME NEW s \in Ranks, Before(s)
               PROVE  FALSE
    OBVIOUS
  <2>1. job[s] = job[r] + 1 /\ job[s] \in 1 .. Updates /\ Updates \in Nat
    BY <1>2, Sizes DEF Within, Inv, Lockstep, Types, TypeOK
  <2>2. phase = "infer" => job[s] = 1 /\ job[r] = 1
    BY DEF Inv, Calls
  <2> QED
    BY <1>1, <2>1, <2>2
<1>4. \A s \in Ranks : Within(s) => HasRun(s) /\ job[s] = job[r]
  BY <1>1, OthersHaveRun
<1>5. Types'
  BY <1>1 DEF Inv, Types, TypeOK
<1>6. Calls'
  BY <1>1, <1>2 DEF Inv, Calls
<1>7. Counted'
  BY <1>1, <1>2 DEF Inv, Counted, Types, TypeOK, Within
<1>8. Lockstep'
  BY <1>1, <1>3, <1>4 DEF Inv, Lockstep, Types, TypeOK, Before, Within, HasRun
<1> QED
  BY <1>5, <1>6, <1>7, <1>8 DEF Inv

LEMMA NextUpdateInv ==
  ASSUME Inv, NEW r \in Ranks, NextUpdate(r)
  PROVE  Inv'
<1>1. /\ HasRun(r) /\ phase = "update" /\ job[r] < Updates
      /\ job' = [job EXCEPT ![r] = @ + 1] /\ at' = [at EXCEPT ![r] = "count"]
      /\ UNCHANGED <<phase, lens, order, num, micro, ran>>
  BY DEF NextUpdate, controller
<1>2. at[r] = "micro" /\ Within(r) /\ Amount' = Amount /\ job[r] + 1 \in 1 .. Updates
  BY <1>1, Sizes DEF HasRun, Within, Amount, Inv, Types, TypeOK
<1>3. \A s \in Ranks : at[s] # "returned"
  <2>1. job[r] # Updates
    BY <1>1, Sizes DEF Inv, Types, TypeOK
  <2> QED
    BY <1>1, <1>2, <2>1 DEF Inv, Lockstep
<1>4. \A s \in Ranks : Within(s) => HasRun(s) /\ job[s] = job[r]
  BY <1>1, OthersHaveRun
<1>5. \A s \in Ranks : Before(s) => job[s] = job[r] + 1
  BY <1>2 DEF Inv, Lockstep
<1>6. Types'
  BY <1>1, <1>2 DEF Inv, Types, TypeOK
<1>7. Calls'
  BY <1>1 DEF Inv, Calls
<1>8. Counted'
  BY <1>1, <1>2 DEF Inv, Counted, Types, TypeOK, Within
<1>9. Lockstep'
  BY <1>1, <1>3, <1>4, <1>5 DEF Inv, Lockstep, Types, TypeOK, Before, Within, HasRun
<1> QED
  BY <1>6, <1>7, <1>8, <1>9 DEF Inv

LEMMA NextInv == Inv /\ [Next]_vars => Inv'
<1> SUFFICES ASSUME Inv, [Next]_vars
             PROVE  Inv'
  OBVIOUS
<1>1. CASE Upsample
  BY <1>1, UpsampleInv
<1>2. CASE Balance
  BY <1>2, HeapOnly DEF Balance
<1>3. CASE Reorder
  BY <1>3, ReorderInv
<1>4. CASE Collect
  BY <1>4, CollectInv
<1>5. CASE Reduce
  BY <1>5, ReduceInv
<1>6. CASE Forward
  BY <1>6, ForwardInv
<1>7. CASE \E r \in Ranks : RankStep(r)
  <2>1. PICK r \in Ranks : RankStep(r)
    BY <1>7
  <2> QED
    BY <2>1, CountInv, SplitInv, ArrangeInv, ReturnInv, NextUpdateInv DEF RankStep
<1>8. CASE \E a \in Processes : Merge(a)
  BY <1>8, HeapOnly DEF Merge
<1>9. CASE UNCHANGED vars
  BY <1>9, HeapOnly DEF vars
<1> QED
  BY <1>1, <1>2, <1>3, <1>4, <1>5, <1>6, <1>7, <1>8, <1>9 DEF Next, ControllerStep, Collective

THEOREM InvCorrect == Spec => []Inv
  BY InitInv, NextInv, PTL DEF Spec

\* The batch keeps its rows and the ranks their places, whatever the sizes.
THEOREM TypeCorrect == Spec => []TypeOK
<1>1. Inv => TypeOK  BY DEF Inv, Types
<1> QED
  BY <1>1, InvCorrect, PTL

\* Ranks that wait in a collective wait in the same one, for every number of
\* ranks, every batch and every limit on the tokens of a micro-batch.
THEOREM SameCollectiveCorrect == Spec => []SameCollective
<1>1. Inv => SameCollective
  <2> SUFFICES ASSUME Inv, NEW r \in Ranks, NEW s \in Ranks, Waits(r), Waits(s)
               PROVE  /\ at[r] = at[s] /\ job[r] = job[s]
                      /\ at[r] = "micro" => ran[r] = ran[s] /\ Len(micro[r]) = Len(micro[s])
    BY DEF SameCollective
  <2>1. \A q \in Ranks : at[q] = "micro" => ran[q] \in Nat /\ num[q] \in Nat /\ Len(micro[q]) = num[q]
    BY DEF Inv, Types, TypeOK, Counted
  <2>2. \A q \in Ranks : Waits(q) => ~HasRun(q)
    BY <2>1 DEF Waits, HasRun
  <2>3. CASE at[r] = "reduce" /\ at[s] = "reduce"
    BY <2>3 DEF Inv, Lockstep, Before
  <2>4. CASE at[r] = "micro" /\ at[s] = "micro"
    BY <2>1, <2>4 DEF Inv, Lockstep, Within
  <2>5. CASE at[r] # at[s]
    BY <2>2, <2>5 DEF Waits, Inv, Lockstep, Before, Within
  <2> QED
    BY <2>3, <2>4, <2>5 DEF Waits
<1> QED
  BY <1>1, InvCorrect, PTL

\* No rank waits for ever: when every rank that has not returned waits in a
\* collective, all ranks are in it, and it completes.
Completes ==
  (\A r \in Ranks : Waits(r) \/ at[r] = "returned") =>
    \/ \A r \in Ranks : at[r] = "returned"
    \/ \A r \in Ranks : at[r] = "reduce"
    \/ \A r \in Ranks : at[r] = "micro" /\ ran[r] < Len(micro[r])

\* A collective that some ranks wait in is never one that another does not come
\* to, for any number of ranks, lengths and micro-batches.
THEOREM CollectivesComplete == Spec => []Completes
<1>1. ASSUME Inv, SameCollective  PROVE Completes
  <2>. SUFFICES ASSUME \A r \in Ranks : Waits(r) \/ at[r] = "returned",
                       NEW r \in Ranks, Waits(r)
                PROVE  \/ \A s \in Ranks : at[s] = "reduce"
                       \/ \A s \in Ranks : at[s] = "micro" /\ ran[s] < Len(micro[s])
    BY DEF Completes
  <2>1. \A q \in Ranks : at[q] = "micro" => ran[q] \in Nat /\ Len(micro[q]) \in Nat
    BY <1>1 DEF Inv, Types, TypeOK, Counted
  <2>2. ~HasRun(r) /\ (Before(r) \/ Within(r))
    BY <2>1 DEF Waits, HasRun, Before, Within
  <2>3. \A s \in Ranks : at[s] # "returned"
    BY <1>1, <2>2 DEF Inv, Lockstep
  <2>4. \A s \in Ranks : Waits(s) /\ at[s] = at[r]
    BY <1>1, <2>3 DEF SameCollective
  <2>. QED
    BY <2>4 DEF Waits
<1>2. Spec => []SameCollective
  BY SameCollectiveCorrect
<1>. QED
  BY <1>1, <1>2, InvCorrect, PTL

\* The number of micro-batches the ranks agree on is never more than the rows
\* of any of them.
THEOREM AssertsHoldCorrect == Spec => []AssertsHold
<1>1. Inv => AssertsHold
  BY DEF Inv, Counted, AssertsHold
<1> QED
  BY <1>1, InvCorrect, PTL

-----------------------------------------------------------------------------
(* The differencing method: a state with k sets of items of I.  Sets that  *)
(* are empty come last.  Either none is, or none has two items, and then   *)
(* as many items as sets fill them all.                                    *)

Full(st, k) == \A i \in 1 .. k : st[i].items # {}
Thin(st, k) == \A i \in 1 .. k : \A p, q \in st[i].items : p = q

Shape(st, k, I) ==
  /\ st \in [1 .. k -> [items : SUBSET I, sum : Nat]]
  /\ Sorted(st, k)
  /\ \A i \in 1 .. k : st[i].items = {} <=> st[i].sum = 0
  /\ Full(st, k) \/ Thin(st, k)

LEMMA Decreasing ==
  ASSUME NEW k \in Nat, NEW I, NEW st, Shape(st, k, I), NEW i \in 1 .. k, NEW j \in i .. k
  PROVE  /\ j \in 1 .. k /\ st[i].sum \in Nat /\ st[j].sum \in Nat
         /\ st[i].sum >= st[j].sum
         /\ st[i].items = {} => st[j].items = {}
<1>1. j \in 1 .. k /\ st[i].sum \in Nat /\ st[j].sum \in Nat
  BY DEF Shape
<1>2. st[i].sum >= st[j].sum
  BY <1>1 DEF Shape, Sorted, NotLess
<1> QED
  BY <1>1, <1>2 DEF Shape

LEMMA ZeroSum ==
  ASSUME NEW a \in Nat, NEW b \in Nat
  PROVE  a + b = 0 <=> (a = 0 /\ b = 0)
  OBVIOUS

LEMMA Differences ==
  ASSUME NEW a \in Nat, NEW b \in Nat, NEW c \in Nat, NEW d \in Nat,
         NEW x \in Nat, NEW y \in Nat, a >= b, c >= d
  PROVE  /\ y >= x => (b + x) - (c + y) <= a - d
         /\ y >= x => (x + b) - (y + c) <= a - d
  OBVIOUS

LEMMA JoinedShape ==
  ASSUME NEW k \in Nat \ {0}, NEW I, NEW s0, NEW s1, Shape(s0, k, I), Shape(s1, k, I),
         NEW st \in Rearrangements(Joined(s0, s1, k), k), Sorted(st, k)
  PROVE  /\ Shape(st, k, I)
         /\ Spread(st, k) <= Spread(s0, k) \/ Spread(st, k) <= Spread(s1, k)
<1> DEFINE J == Joined(s0, s1, k)
<1>1. PICK f \in Bijection(1 .. k, 1 .. k) : st = [i \in 1 .. k |-> J[f[i]]]
  BY DEF Rearrangements
<1>2. f \in [1 .. k -> 1 .. k]
  BY DEF Bijection, Injection
<1>3. /\ \A i \in 1 .. k : s0[i] \in [items : SUBSET I, sum : Nat]
      /\ \A i \in 1 .. k : s1[i] \in [items : SUBSET I, sum : Nat]
  BY DEF Shape
<1>4. \A i \in 1 .. k : /\ k + 1 - i \in 1 .. k
                        /\ J[i].items = s0[i].items \cup s1[k + 1 - i].items
                        /\ J[i].sum = s0[i].sum + s1[k + 1 - i].sum
                        /\ J[i] \in [items : SUBSET I, sum : Nat]
  BY <1>3 DEF Joined
<1> HIDE DEF J
<1>5. st \in [1 .. k -> [items : SUBSET I, sum : Nat]]
  BY <1>1, <1>2, <1>4
<1>6. \A i \in 1 .. k : J[i].items = {} <=> J[i].sum = 0
  <2> SUFFICES ASSUME NEW i \in 1 .. k
               PROVE  J[i].items = {} <=> J[i].sum = 0
    OBVIOUS
  <2>1. s0[i].sum \in Nat /\ s1[k + 1 - i].sum \in Nat /\ k + 1 - i \in 1 .. k
    BY <1>3, <1>4
  <2>2. (s0[i].items = {} <=> s0[i].sum = 0) /\ (s1[k + 1 - i].items = {} <=> s1[k + 1 - i].sum = 0)
    BY <2>1 DEF Shape
  <2>3. J[i].items = {} <=> (s0[i].items = {} /\ s1[k + 1 - i].items = {})
    BY <1>4
  <2>4. J[i].sum = 0 <=> (s0[i].sum = 0 /\ s1[k + 1 - i].sum = 0)
    <3>1. J[i].sum = s0[i].sum + s1[k + 1 - i].sum
      BY <1>4
    <3>2. s0[i].sum + s1[k + 1 - i].sum = 0 <=> (s0[i].sum = 0 /\ s1[k + 1 - i].sum = 0)
      BY <2>1, ZeroSum
    <3> QED
      BY <3>1, <3>2, Zenon
  <2> QED
    BY <2>2, <2>3, <2>4, Zenon
<1>7. \A i \in 1 .. k : st[i].items = {} <=> st[i].sum = 0
  BY <1>1, <1>2, <1>6
<1>8. Full(J, k) \/ Thin(J, k)
  <2> SUFFICES ASSUME NEW e \in 1 .. k, J[e].items = {}
               PROVE  Thin(J, k)
    BY DEF Full
  <2>1. s0[e].items = {} /\ s1[k + 1 - e].items = {} /\ k + 1 - e \in 1 .. k
    BY <1>4
  <2>2. Thin(s0, k) /\ Thin(s1, k)
    BY <2>1 DEF Shape, Full
  <2>3. \A i \in 1 .. k : s0[i].items = {} \/ s1[k + 1 - i].items = {}
    <3> SUFFICES ASSUME NEW i \in 1 .. k
                 PROVE  s0[i].items = {} \/ s1[k + 1 - i].items = {}
      OBVIOUS
    <3>1. CASE i >= e
      <4>1. i \in e .. k
        BY <3>1
      <4> QED
        BY <2>1, <4>1, Decreasing
    <3>2. CASE i < e
      <4>1. k + 1 - i \in (k + 1 - e) .. k
        BY <3>2
      <4> QED
        BY <2>1, <4>1, Decreasing
    <3> QED
      BY <3>1, <3>2
  <2> QED
    BY <1>4, <2>2, <2>3 DEF Thin
<1>9. Full(st, k) \/ Thin(st, k)
  BY <1>1, <1>2, <1>8 DEF Full, Thin
<1>10. Spread(st, k) <= Spread(s0, k) \/ Spread(st, k) <= Spread(s1, k)
  <2>1. 1 \in 1 .. k /\ k \in 1 .. k
    OBVIOUS
  <2>2. PICK x \in 1 .. k, y \in 1 .. k : x = f[1] /\ y = f[k]
    BY <1>2, <2>1
  <2>3. Spread(st, k) = (s0[x].sum + s1[k + 1 - x].sum) - (s0[y].sum + s1[k + 1 - y].sum)
    BY <1>1, <1>4, <2>1, <2>2 DEF Spread
  <2>4. /\ s0[x].sum \in Nat /\ s0[y].sum \in Nat /\ s0[1].sum \in Nat /\ s0[k].sum \in Nat
        /\ s1[k + 1 - x].sum \in Nat /\ s1[k + 1 - y].sum \in Nat
        /\ s1[1].sum \in Nat /\ s1[k].sum \in Nat
        /\ k + 1 - x \in 1 .. k /\ k + 1 - y \in 1 .. k
    BY <1>3, <1>4, <2>1
  <2>5. /\ s0[1].sum >= s0[x].sum /\ s0[y].sum >= s0[k].sum
        /\ s1[1].sum >= s1[k + 1 - x].sum /\ s1[k + 1 - y].sum >= s1[k].sum
    BY <2>1, <2>4, Decreasing
  <2>6. CASE x <= y
    <3>1. s1[k + 1 - y].sum >= s1[k + 1 - x].sum
      <4>1. k + 1 - x \in (k + 1 - y) .. k
        BY <2>6
      <4> QED
        BY <2>4, <4>1, Decreasing
    <3> QED
      BY <2>3, <2>4, <2>5, <3>1, Differences DEF Spread
  <2>7. CASE y < x
    <3>1. s0[y].sum >= s0[x].sum
      <4>1. x \in y .. k
        BY <2>7
      <4> QED
        BY <4>1, Decreasing
    <3> QED
      BY <2>3, <2>4, <2>5, <3>1, Differences DEF Spread
  <2> QED
    BY <2>6, <2>7
<1> QED
  BY <1>5, <1>7, <1>9, <1>10 DEF Shape

LEMMA WorkPositive ==
  ASSUME Types, NEW a \in Processes, NEW p \in Items(a),
         IF a = Controller THEN phase # "balance" ELSE phase \in {"infer", "update"}
  PROVE  Work(a, p) \in Nat \ {0}
<1>1. \A l \in 1 .. MaxTokens : Workload(l) \in Nat \ {0}
  <2> SUFFICES ASSUME NEW l \in 1 .. MaxTokens
               PROVE  Workload(l) \in Nat \ {0}
    OBVIOUS
  <2>1. l * l \in Nat
    OBVIOUS
  <2> QED
    BY <2>1 DEF Workload
<1>2. CASE a = Controller
  BY <1>1, <1>2 DEF Work, Items, Types, TypeOK
<1>3. CASE a # Controller
  <2>1. a \in Ranks /\ p \in 1 .. Amount /\ job[a] \in 1 .. Updates
    BY <1>3, SplitAssumption DEF SplitAssumption, Ranks, Processes, Controller, Items, Types, TypeOK
  <2>2. First(a) + p \in 1 .. Size
    BY <2>1, Positions
  <2>3. Batch(a)[p] \in 1 .. Size
    BY <1>3, <2>1, <2>2 DEF Batch, Types, TypeOK
  <2> QED
    BY <1>1, <1>3, <2>3 DEF Work, Types, TypeOK
<1> QED
  BY <1>2, <1>3

LEMMA SingleInEach ==
  ASSUME NEW a, NEW p \in Items(a), Work(a, p) \in Nat \ {0}
  PROVE  /\ Single(a, p) \in [items : SUBSET Items(a), sum : Nat]
         /\ EmptySet \in [items : SUBSET Items(a), sum : Nat]
         /\ Single(a, p).sum = Work(a, p) /\ Single(a, p).items = {p}
         /\ EmptySet.sum = 0 /\ EmptySet.items = {}
         /\ Cardinality(Single(a, p).items) = 1 /\ Cardinality(EmptySet.items) = 0
<1>1. Cardinality({p}) = 1 /\ Cardinality({}) = 0
  BY FS_Singleton, FS_EmptySet
<1> QED
  BY <1>1 DEF Single, EmptySet

LEMMA OneByOneShape ==
  ASSUME NEW a, NEW k \in Nat \ {0}, NEW st \in OneByOne(a, k),
         \A p \in Items(a) : Work(a, p) \in Nat \ {0}
  PROVE  /\ Shape(st, k, Items(a))
         /\ \E p \in Items(a) : Spread(st, k) <= Work(a, p)
<1>1. PICK p \in Items(a) : st = [i \in 1 .. k |-> IF i = 1 THEN Single(a, p) ELSE EmptySet]
  BY DEF OneByOne
<1>2. /\ Single(a, p) \in [items : SUBSET Items(a), sum : Nat]
      /\ EmptySet \in [items : SUBSET Items(a), sum : Nat]
      /\ Single(a, p).sum = Work(a, p) /\ Single(a, p).items = {p}
      /\ EmptySet.sum = 0 /\ EmptySet.items = {}
      /\ Cardinality(EmptySet.items) = 0
      /\ Work(a, p) \in Nat \ {0}
  BY SingleInEach
<1>3. st \in [1 .. k -> [items : SUBSET Items(a), sum : Nat]]
  BY <1>1, <1>2
<1>4. \A i \in 1 .. k : st[i] = IF i = 1 THEN Single(a, p) ELSE EmptySet
  BY <1>1
<1>5. Sorted(st, k)
  BY <1>2, <1>4 DEF Sorted, NotLess
<1>6. \A i \in 1 .. k : st[i].items = {} <=> st[i].sum = 0
  BY <1>2, <1>4
<1>7. Thin(st, k)
  BY <1>2, <1>4 DEF Thin
<1>8. Spread(st, k) <= Work(a, p)
  BY <1>2, <1>4 DEF Spread
<1> QED
  BY <1>3, <1>5, <1>6, <1>7, <1>8 DEF Shape

LEMMA InBlocksShape ==
  ASSUME phase # "balance", Types, NEW sorted, Ascending(Controller, sorted),
         NEW st \in InBlocks(Controller, Dp, sorted)
  PROVE  /\ Shape(st, Dp, Items(Controller))
         /\ \E p \in Items(Controller) : Spread(st, Dp) <= Work(Controller, p)
<1> DEFINE a == Controller
<1>1. Dp \in Nat \ {0} /\ Size \in Nat \ {0} /\ Dp * Chunk = Size /\ Chunk \in Nat
  BY Sizes, SplitAssumption DEF SplitAssumption
<1>2. Items(a) = 1 .. Size /\ Cardinality(Items(a)) = Size /\ a \in Processes
  <2>1. Cardinality(1 .. Size) = Size
    BY <1>1, FS_Interval
  <2> QED
    BY <1>1, <2>1 DEF Items, Processes, Controller
<1>3. sorted \in [1 .. Size -> 1 .. Size]
  BY <1>2 DEF Ascending
<1>4. PICK b \in 0 .. Size \div Dp - 1 :
        st = [i \in 1 .. Dp |-> Single(a, sorted[b * Dp + Dp + 1 - i])]
  BY <1>2 DEF InBlocks
<1> DEFINE at1 == b * Dp
<1>5. at1 \in Nat /\ at1 + Dp <= Size
  <2>1. b + 1 <= Chunk /\ b \in Nat /\ b + 1 \in Int /\ Chunk \in Int /\ Dp \in Nat
    BY <1>1, <1>4 DEF Chunk
  <2>2. (b + 1) * Dp <= Chunk * Dp
    BY <1>1, <2>1, Monotone
  <2> QED
    BY <1>1, <2>1, <2>2
<1>6. \A i \in 1 .. Dp : at1 + Dp + 1 - i \in 1 .. Size
  BY <1>1, <1>5
<1> HIDE DEF at1
<1> DEFINE row(i) == sorted[at1 + Dp + 1 - i]
<1>7. \A i \in 1 .. Dp : row(i) \in Items(a) /\ st[i] = Single(a, row(i))
  BY <1>2, <1>3, <1>4, <1>6 DEF at1
<1>8. \A i \in 1 .. Dp : /\ Single(a, row(i)) \in [items : SUBSET Items(a), sum : Nat]
                         /\ st[i].sum = Work(a, row(i)) /\ st[i].items = {row(i)}
                         /\ Work(a, row(i)) \in Nat \ {0} /\ Cardinality(st[i].items) = 1
  <2> SUFFICES ASSUME NEW i \in 1 .. Dp
               PROVE  /\ Single(a, row(i)) \in [items : SUBSET Items(a), sum : Nat]
                      /\ st[i].sum = Work(a, row(i)) /\ st[i].items = {row(i)}
                      /\ Work(a, row(i)) \in Nat \ {0} /\ Cardinality(st[i].items) = 1
    OBVIOUS
  <2>1. row(i) \in Items(a) /\ st[i] = Single(a, row(i))
    BY <1>7
  <2> HIDE DEF row
  <2>2. Work(a, row(i)) \in Nat \ {0}
    BY <1>2, <2>1, WorkPositive
  <2> QED
    BY <2>1, <2>2, SingleInEach
<1>9. st \in [1 .. Dp -> [items : SUBSET Items(a), sum : Nat]]
  <2>1. st = [i \in 1 .. Dp |-> Single(a, row(i))]
    BY <1>4 DEF at1
  <2> QED
    BY <1>8, <2>1
<1>10. \A i, j \in 1 .. Dp : i < j => Work(a, row(j)) <= Work(a, row(i))
  <2> SUFFICES ASSUME NEW i \in 1 .. Dp, NEW j \in 1 .. Dp, i < j
               PROVE  Work(a, row(j)) <= Work(a, row(i))
    OBVIOUS
  <2>1. /\ at1 + Dp + 1 - j \in Items(a) /\ at1 + Dp + 1 - i \in Items(a)
        /\ at1 + Dp + 1 - j < at1 + Dp + 1 - i
    BY <1>1, <1>2, <1>5, <1>6
  <2>2. Work(a, row(j)) < Work(a, row(i)) \/ Work(a, row(j)) = Work(a, row(i))
    BY <2>1 DEF Ascending
  <2>3. Work(a, row(i)) \in Nat /\ Work(a, row(j)) \in Nat
    BY <1>8
  <2> QED
    BY <2>2, <2>3
<1> HIDE DEF row
<1>11. Sorted(st, Dp)
  BY <1>8, <1>10 DEF Sorted, NotLess
<1>12. Full(st, Dp) /\ \A i \in 1 .. Dp : st[i].items = {} <=> st[i].sum = 0
  BY <1>8 DEF Full
<1>13. Spread(st, Dp) <= Work(a, row(1))
  <2>1. 1 \in 1 .. Dp /\ Dp \in 1 .. Dp
    BY <1>1
  <2> QED
    BY <1>8, <2>1 DEF Spread
<1>14. row(1) \in Items(a)
  BY <1>1, <1>7
<1> QED
  BY <1>9, <1>11, <1>12, <1>13, <1>14 DEF Shape

\* As many items as sets fill them all: if a set e is empty no set has two
\* items, and the items would fit into one set fewer.
LEMMA AllFull ==
  ASSUME NEW k \in Nat \ {0}, NEW n \in Nat, k <= n, NEW st, Shape(st, k, 1 .. n),
         \A p \in 1 .. n : \E i \in 1 .. k : p \in st[i].items
  PROVE  Full(st, k)
<1> SUFFICES ASSUME NEW e \in 1 .. k, st[e].items = {}
             PROVE  FALSE
  BY DEF Full
<1>1. Thin(st, k)
  BY DEF Shape, Full
<1> DEFINE S == 1 .. n
           T == (1 .. k) \ {e}
           g == [p \in S |-> CHOOSE i \in 1 .. k : p \in st[i].items]
<1>2. \A p \in S : g[p] \in T /\ p \in st[g[p]].items
  OBVIOUS
<1>3. g \in [S -> T]
  BY <1>2
<1>4. IsFiniteSet(S) /\ Cardinality(S) = n
  BY FS_Interval
<1>5. IsFiniteSet(T) /\ Cardinality(T) = k - 1
  <2>1. IsFiniteSet(1 .. k) /\ Cardinality(1 .. k) = k
    BY FS_Interval
  <2> QED
    BY <2>1, FS_RemoveElement
<1> HIDE DEF g, S, T
<1>6. PICK p \in S, q \in S : p # q /\ g[p] = g[q]
  BY <1>3, <1>4, <1>5, FS_PigeonHole
<1> QED
  BY <1>1, <1>2, <1>6 DEF T, Thin

LEMMA ToEndsOnce ==
  ASSUME NEW k \in Nat \ {0}
  PROVE  /\ \A i \in 1 .. k : ToEnds(i, k) \in 1 .. k
         /\ \A i, j \in 1 .. k : ToEnds(i, k) = ToEnds(j, k) => i = j
         /\ \A j \in 1 .. k : \E i \in 1 .. k : ToEnds(i, k) = j
<1> DEFINE half == (k + 1) \div 2
<1>1. half \in 1 .. k /\ (k = 2 * half \/ k = 2 * half - 1)
  OBVIOUS
<1>2. \A i : ToEnds(i, k) = IF i <= half THEN 2 * (half - i) + 1 ELSE 2 * (i - half)
  BY DEF ToEnds
<1> HIDE DEF half
<1>3. \A i \in 1 .. k : ToEnds(i, k) \in 1 .. k
  BY <1>1, <1>2
<1>4. \A i, j \in 1 .. k : ToEnds(i, k) = ToEnds(j, k) => i = j
  BY <1>1, <1>2
<1>5. ASSUME NEW j \in 1 .. k
      PROVE  \E i \in 1 .. k : ToEnds(i, k) = j
  <2> DEFINE h == j \div 2
  <2>1. h \in Nat /\ (j = 2 * h \/ j = 2 * h + 1)
    OBVIOUS
  <2> HIDE DEF h
  <2>2. CASE j = 2 * h
    <3>1. half + h \in 1 .. k /\ ~(half + h <= half)
      BY <1>1, <2>1, <2>2
    <3>2. ToEnds(half + h, k) = j
      BY <1>1, <1>2, <2>1, <2>2, <3>1
    <3> QED
      BY <3>1, <3>2
  <2>3. CASE j = 2 * h + 1
    <3>1. half - h \in 1 .. k /\ half - h <= half
      BY <1>1, <2>1, <2>3
    <3>2. ToEnds(half - h, k) = j
      BY <1>1, <1>2, <2>1, <2>3, <3>1
    <3> QED
      BY <3>1, <3>2
  <2> QED
    BY <2>1, <2>2, <2>3
<1> QED
  BY <1>3, <1>4, <1>5

-----------------------------------------------------------------------------
(* The heaps and what becomes of them.                                     *)

Partitioning(a) == IF a = Controller THEN phase = "partition" ELSE at[a] = "merge"

HeapOK(a) ==
  heap[a] # {} =>
    /\ Partitioning(a)
    /\ \A st \in heap[a] : /\ Shape(st, Parts(a), Items(a))
                          /\ \E p \in Items(a) : Spread(st, Parts(a)) <= Work(a, p)

Disjoint(a) ==
  \A s0, s1 \in heap[a] : \A i, j \in 1 .. Parts(a) :
    s0 # s1 \/ i # j => s0[i].items \cap s1[j].items = {}

Covers(a) == \A p \in Items(a) : \E st \in heap[a] : \E i \in 1 .. Parts(a) : p \in st[i].items

Heaps ==
  /\ heap = [a \in Processes |-> heap[a]]
  /\ \A a \in Processes : HeapOK(a)
  /\ \A r \in Ranks : at[r] = "merge" => Disjoint(r) /\ Covers(r)

LEMMA RankFacts ==
  ASSUME NEW r \in Ranks
  PROVE  r \in Processes /\ r # Controller
  BY SplitAssumption DEF SplitAssumption, Ranks, Processes, Controller

LEMMA ProcessFacts ==
  ASSUME NEW a \in Processes, a # Controller
  PROVE  a \in Ranks
  BY SplitAssumption DEF SplitAssumption, Ranks, Processes, Controller

LEMMA PartsPositive ==
  ASSUME Inv, NEW a \in Processes, Partitioning(a)
  PROVE  Parts(a) \in Nat \ {0}
<1>1. CASE a = Controller
  BY <1>1, SplitAssumption DEF SplitAssumption, Parts
<1>2. CASE a # Controller
  <2>1. num[a] \in 1 .. Amount
    BY <1>2, ProcessFacts DEF Partitioning, Inv, Counted, Within
  <2>2. Amount \in Nat
    BY Sizes DEF Amount
  <2> QED
    BY <1>2, <2>1, <2>2 DEF Parts
<1> QED
  BY <1>1, <1>2

\* A heap is left alone while nothing it depends on changes.
LEMMA HeapFrame ==
  ASSUME NEW a \in Processes, HeapOK(a), heap'[a] = heap[a],
         heap[a] # {} => /\ Partitioning(a)'
                         /\ UNCHANGED <<phase, lens, order>>
                         /\ a # Controller => job'[a] = job[a] /\ num'[a] = num[a]
  PROVE  HeapOK(a)'
<1>1. CASE heap[a] = {}
  BY <1>1 DEF HeapOK
<1>2. CASE heap[a] # {}
  <2>1. Parts(a)' = Parts(a) /\ Items(a)' = Items(a)
    BY <1>2 DEF Parts, Items, Amount
  <2>2. \A p : Work(a, p)' = Work(a, p)
    <3>1. CASE a = Controller
      BY <1>2, <3>1 DEF Work
    <3>2. CASE a # Controller
      <4>1. First(a)' = First(a) /\ Amount' = Amount
        BY <1>2, <3>2 DEF First, Amount
      <4>2. Batch(a)' = Batch(a)
        BY <1>2, <4>1 DEF Batch
      <4> QED
        BY <1>2, <3>2, <4>2 DEF Work
    <3> QED
      BY <3>1, <3>2
  <2> QED
    BY <1>2, <2>1, <2>2 DEF HeapOK
<1> QED
  BY <1>1, <1>2

LEMMA PartitionFrame ==
  ASSUME NEW r \in Ranks, Disjoint(r), Covers(r), heap'[r] = heap[r],
         phase' = phase, num'[r] = num[r]
  PROVE  Disjoint(r)' /\ Covers(r)'
<1>1. Parts(r)' = Parts(r) /\ Items(r)' = Items(r)
  BY RankFacts DEF Parts, Items, Amount
<1> QED
  BY <1>1 DEF Disjoint, Covers

\* Nothing is partitioned in Idle, before or after.
Idle == phase # "partition" /\ \A r \in Ranks : at[r] # "merge"

LEMMA IdleHeaps ==
  ASSUME Heaps, Idle
  PROVE  \A a \in Processes : heap[a] = {}
  BY ProcessFacts DEF Heaps, HeapOK, Partitioning, Idle

LEMMA StaysIdle ==
  ASSUME Heaps, Idle, heap' = heap, \A r \in Ranks : at'[r] # "merge"
  PROVE  Heaps'
<1>1. \A a \in Processes : heap'[a] = {}
  BY IdleHeaps
<1> QED
  BY <1>1 DEF Heaps, HeapOK

\* A step of rank r that leaves the heaps alone, and is not at them itself.
LEMMA RankFrame ==
  ASSUME Inv, Heaps, NEW r \in Ranks, at[r] # "merge", at'[r] # "merge",
         UNCHANGED <<phase, lens, order, heap>>,
         \A s \in Ranks : s # r => at'[s] = at[s] /\ job'[s] = job[s] /\ num'[s] = num[s]
  PROVE  Heaps'
<1>1. ASSUME NEW a \in Processes
      PROVE  HeapOK(a)'
  <2>1. heap[a] # {} => Partitioning(a) /\ a # r
    BY RankFacts DEF Heaps, HeapOK, Partitioning
  <2>2. heap[a] # {} => Partitioning(a)'
    BY <2>1, ProcessFacts DEF Partitioning
  <2>3. a # Controller => a \in Ranks
    BY ProcessFacts
  <2> QED
    BY <2>1, <2>2, <2>3, HeapFrame DEF Heaps
<1>2. ASSUME NEW s \in Ranks, at'[s] = "merge"
      PROVE  Disjoint(s)' /\ Covers(s)'
  BY <1>2, PartitionFrame DEF Heaps
<1> QED
  BY <1>1, <1>2 DEF Heaps

LEMMA BalanceHeaps ==
  ASSUME Inv, Heaps, Balance
  PROVE  Heaps'
<1>1. /\ phase = "partition" /\ UNCHANGED <<phase, lens, order, at, job, num, micro, ran>>
      /\ \A r \in Ranks : at[r] = "count"
  BY DEF Balance, controller, rank, Inv, Calls
<1>2. PICK sorted : /\ Ascending(Controller, sorted)
                    /\ heap' = [heap EXCEPT ![Controller] = InBlocks(Controller, Dp, sorted)]
  BY DEF Balance
<1>3. heap'[Controller] = InBlocks(Controller, Dp, sorted) /\ \A r \in Ranks : heap'[r] = heap[r]
  <2>1. Controller \in Processes
    BY SplitAssumption DEF SplitAssumption, Processes, Controller
  <2> QED
    BY <1>2, <2>1, RankFacts DEF Heaps
<1>4. HeapOK(Controller)'
  <2>1. Parts(Controller)' = Dp /\ Items(Controller)' = Items(Controller)
    BY DEF Parts, Items
  <2>2. \A p : Work(Controller, p)' = Work(Controller, p)
    BY <1>1 DEF Work
  <2>3. \A st \in heap'[Controller] :
          /\ Shape(st, Dp, Items(Controller))
          /\ \E p \in Items(Controller) : Spread(st, Dp) <= Work(Controller, p)
    BY <1>1, <1>2, <1>3, InBlocksShape DEF Inv
  <2> QED
    BY <1>1, <2>1, <2>2, <2>3 DEF HeapOK, Partitioning
<1>5. \A r \in Ranks : heap'[r] = {}
  BY <1>1, <1>3, RankFacts DEF Heaps, HeapOK, Partitioning
<1>6. \A a \in Processes : HeapOK(a)'
  BY <1>4, <1>5, ProcessFacts DEF HeapOK
<1>7. heap' = [a \in Processes |-> heap'[a]]
  BY <1>2 DEF Heaps
<1> QED
  BY <1>1, <1>6, <1>7 DEF Heaps

LEMMA ReorderHeaps ==
  ASSUME Inv, Heaps, Reorder
  PROVE  Heaps'
<1>1. /\ phase = "partition" /\ UNCHANGED <<at, job, num, micro, ran>>
      /\ heap' = [heap EXCEPT ![Controller] = {}]
      /\ \A r \in Ranks : at[r] = "count"
  BY DEF Reorder, rank, Inv, Calls
<1>2. \A a \in Processes : heap'[a] = {}
  BY <1>1, RankFacts, ProcessFacts DEF Heaps, HeapOK, Partitioning
<1>3. heap' = [a \in Processes |-> heap'[a]]
  BY <1>1 DEF Heaps
<1> QED
  BY <1>1, <1>2, <1>3 DEF Heaps, HeapOK

LEMMA SplitHeaps ==
  ASSUME Inv, Heaps, NEW r \in Ranks, Split(r)
  PROVE  Heaps'
<1>1. /\ at[r] = "split" /\ UNCHANGED <<phase, lens, order, job, num, micro, ran>>
      /\ at'[r] # "raised" => /\ at' = [at EXCEPT ![r] = "merge"]
                               /\ heap' = [heap EXCEPT ![r] = OneByOne(r, num[r])]
  BY DEF Split, controller, Inv, Types, TypeOK
<1>2. at'[r] # "raised"
  BY SplitInv DEF Inv, Counted
<1>3. /\ heap'[r] = OneByOne(r, num[r]) /\ at'[r] = "merge"
      /\ \A a \in Processes : a # r => heap'[a] = heap[a]
      /\ \A s \in Ranks : s # r => at'[s] = at[s]
      /\ heap' = [a \in Processes |-> heap'[a]]
  BY <1>1, <1>2, RankFacts DEF Heaps, Inv, Types, TypeOK
<1>4. /\ Parts(r) = num[r] /\ Parts(r)' = num[r] /\ Items(r)' = Items(r)
      /\ Items(r) = 1 .. Amount /\ r # Controller
      /\ \A p : Work(r, p)' = Work(r, p)
  BY <1>1, RankFacts DEF Parts, Items, Work, Batch, First, Amount
<1>5. phase \in {"infer", "update"} /\ num[r] \in Nat \ {0}
  <2>1. phase \in {"infer", "update"} /\ num[r] \in 1 .. Amount
    BY <1>1, InCall DEF Inv, Counted, Within
  <2> QED
    BY <2>1, Sizes DEF Amount
<1>6. HeapOK(r)'
  <2>1. \A p \in Items(r) : Work(r, p) \in Nat \ {0}
    BY <1>4, <1>5, RankFacts, WorkPositive DEF Inv
  <2>2. \A st \in heap'[r] : /\ Shape(st, num[r], Items(r))
                            /\ \E p \in Items(r) : Spread(st, num[r]) <= Work(r, p)
    BY <1>3, <1>5, <2>1, OneByOneShape
  <2>3. Partitioning(r)'
    BY <1>3, <1>4 DEF Partitioning
  <2> QED
    BY <1>4, <2>2, <2>3 DEF HeapOK
<1>7. Disjoint(r)'
  <2> SUFFICES ASSUME NEW s0 \in OneByOne(r, num[r]), NEW s1 \in OneByOne(r, num[r]),
                      NEW i \in 1 .. num[r], NEW j \in 1 .. num[r], s0 # s1 \/ i # j,
                      NEW q, q \in s0[i].items, q \in s1[j].items
               PROVE  FALSE
    BY <1>3, <1>4 DEF Disjoint
  <2>1. PICK p \in Items(r) : s0 = [x \in 1 .. num[r] |-> IF x = 1 THEN Single(r, p) ELSE EmptySet]
    BY DEF OneByOne
  <2>2. PICK p1 \in Items(r) : s1 = [x \in 1 .. num[r] |-> IF x = 1 THEN Single(r, p1) ELSE EmptySet]
    BY DEF OneByOne
  <2>3. i = 1 /\ j = 1 /\ q = p /\ q = p1
    BY <2>1, <2>2 DEF Single, EmptySet
  <2> QED
    BY <2>1, <2>2, <2>3
<1>8. Covers(r)'
  <2> SUFFICES ASSUME NEW p \in Items(r)
               PROVE  \E st \in OneByOne(r, num[r]) : \E i \in 1 .. num[r] : p \in st[i].items
    BY <1>3, <1>4 DEF Covers
  <2> DEFINE st == [x \in 1 .. num[r] |-> IF x = 1 THEN Single(r, p) ELSE EmptySet]
  <2>1. st \in OneByOne(r, num[r])
    BY DEF OneByOne
  <2>2. 1 \in 1 .. num[r] /\ p \in st[1].items
    BY <1>5 DEF Single
  <2> QED
    BY <2>1, <2>2
<1>9. ASSUME NEW a \in Processes
      PROVE  HeapOK(a)'
  <2>1. CASE a = r
    BY <1>6, <2>1
  <2>2. CASE a # r
    <3>1. heap[a] # {} => Partitioning(a)
      BY DEF Heaps, HeapOK
    <3>2. Partitioning(a) => Partitioning(a)'
      BY <1>1, <1>3, <2>2, ProcessFacts DEF Partitioning
    <3> QED
      BY <1>1, <1>3, <2>2, <3>1, <3>2, HeapFrame DEF Heaps
  <2> QED
    BY <2>1, <2>2
<1>10. ASSUME NEW s \in Ranks, at'[s] = "merge"
       PROVE  Disjoint(s)' /\ Covers(s)'
  BY <1>1, <1>3, <1>7, <1>8, <1>10, RankFacts, PartitionFrame DEF Heaps
<1> QED
  BY <1>3, <1>9, <1>10 DEF Heaps

\* Merging two states loses no item.
LEMMA MergeCovers ==
  ASSUME Inv, Heaps, NEW a \in Processes, Merge(a), Covers(a)
  PROVE  Covers(a)'
<1> DEFINE k == Parts(a)
<1>1. PICK s0 \in heap[a], s1 \in heap[a] :
        \E st \in Rearrangements(Joined(s0, s1, k), k) :
             heap' = [heap EXCEPT ![a] = (heap[a] \ {s0, s1}) \cup {st}]
  BY DEF Merge
<1>2. PICK st \in Rearrangements(Joined(s0, s1, k), k) :
        heap' = [heap EXCEPT ![a] = (heap[a] \ {s0, s1}) \cup {st}]
  BY <1>1
<1>3. heap'[a] = (heap[a] \ {s0, s1}) \cup {st}
  BY <1>2 DEF Heaps
<1>4. k \in Nat \ {0}
  BY <1>1, PartsPositive DEF Heaps, HeapOK
<1>5. Parts(a)' = k /\ Items(a)' = Items(a)
  BY DEF Merge, controller, rank, Parts, Items, Amount
<1>6. \A p \in Items(a) : \E u \in heap[a] : \E i \in 1 .. k : p \in u[i].items
  BY DEF Covers
<1> HIDE DEF k
<1>7. PICK f \in Bijection(1 .. k, 1 .. k) : st = [i \in 1 .. k |-> Joined(s0, s1, k)[f[i]]]
  BY DEF Rearrangements
<1>8. f \in [1 .. k -> 1 .. k] /\ \A j \in 1 .. k : \E i \in 1 .. k : f[i] = j
  BY DEF Bijection, Injection, Surjection
<1>9. \A i \in 1 .. k : st[i].items = s0[f[i]].items \cup s1[k + 1 - f[i]].items
  <2> SUFFICES ASSUME NEW i \in 1 .. k
               PROVE  st[i].items = s0[f[i]].items \cup s1[k + 1 - f[i]].items
    OBVIOUS
  <2>1. f[i] \in 1 .. k /\ st[i] = Joined(s0, s1, k)[f[i]]
    BY <1>7, <1>8
  <2> QED
    BY <2>1 DEF Joined
<1> SUFFICES ASSUME NEW p \in Items(a)
             PROVE  \E u \in heap'[a] : \E i \in 1 .. k : p \in u[i].items
  BY <1>5 DEF Covers
<1>10. PICK u \in heap[a], i \in 1 .. k : p \in u[i].items
  BY <1>6
<1>11. CASE u = s0
  <2>1. PICK j \in 1 .. k : f[j] = i
    BY <1>8
  <2> QED
    BY <1>3, <1>9, <1>10, <1>11, <2>1
<1>12. CASE u = s1
  <2>1. k + 1 - i \in 1 .. k
    BY <1>4
  <2>2. PICK j \in 1 .. k : f[j] = k + 1 - i
    BY <1>8, <2>1
  <2>3. k + 1 - f[j] = i
    BY <1>4, <2>2
  <2> QED
    BY <1>3, <1>9, <1>10, <1>12, <2>3
<1>13. CASE u # s0 /\ u # s1
  BY <1>3, <1>10, <1>13
<1> QED
  BY <1>11, <1>12, <1>13

LEMMA MergeHeaps ==
  ASSUME Inv, Heaps, NEW a \in Processes, Merge(a)
  PROVE  Heaps'
<1> DEFINE k == Parts(a)
<1>1. UNCHANGED <<phase, lens, order, at, job, num, micro, ran>>
  BY DEF Merge, controller, rank
<1>2. PICK s0 \in heap[a], s1 \in heap[a] :
        /\ PopTwo(a, s0, s1)
        /\ \E st \in Rearrangements(Joined(s0, s1, k), k) :
             Sorted(st, k) /\ heap' = [heap EXCEPT ![a] = (heap[a] \ {s0, s1}) \cup {st}]
  BY DEF Merge
<1>3. PICK st \in Rearrangements(Joined(s0, s1, k), k) :
        Sorted(st, k) /\ heap' = [heap EXCEPT ![a] = (heap[a] \ {s0, s1}) \cup {st}]
  BY <1>2
<1>4. s0 # s1
  BY <1>2 DEF PopTwo
<1>5. /\ heap'[a] = (heap[a] \ {s0, s1}) \cup {st}
      /\ \A b \in Processes : b # a => heap'[b] = heap[b]
      /\ heap' = [b \in Processes |-> heap'[b]]
  BY <1>3 DEF Heaps
<1>6. Partitioning(a) /\ k \in Nat \ {0}
  BY <1>2, PartsPositive DEF Heaps, HeapOK
<1>7. /\ Shape(s0, k, Items(a)) /\ Shape(s1, k, Items(a))
      /\ \E p \in Items(a) : Spread(s0, k) <= Work(a, p)
      /\ \E p \in Items(a) : Spread(s1, k) <= Work(a, p)
  BY <1>2 DEF Heaps, HeapOK
<1>8. /\ Parts(a)' = k /\ Items(a)' = Items(a)
      /\ \A p : Work(a, p)' = Work(a, p)
      /\ \A b \in Processes : Partitioning(b)' = Partitioning(b)
  BY <1>1 DEF Parts, Items, Work, Batch, First, Amount, Partitioning
<1> HIDE DEF k
<1>9. /\ Shape(st, k, Items(a))
      /\ \E p \in Items(a) : Spread(st, k) <= Work(a, p)
  <2>1. /\ Shape(st, k, Items(a))
        /\ Spread(st, k) <= Spread(s0, k) \/ Spread(st, k) <= Spread(s1, k)
    BY <1>3, <1>6, <1>7, JoinedShape
  <2>2. Spread(st, k) \in Int /\ Spread(s0, k) \in Int /\ Spread(s1, k) \in Int
    <3>1. 1 \in 1 .. k /\ k \in 1 .. k
      BY <1>6
    <3> QED
      BY <1>7, <2>1, <3>1 DEF Spread, Shape
  <2>3. \A p \in Items(a) : Work(a, p) \in Nat
    <3>1. IF a = Controller THEN phase # "balance" ELSE phase \in {"infer", "update"}
      BY <1>6, ProcessFacts, InCall DEF Partitioning
    <3> QED
      BY <3>1, WorkPositive DEF Inv
  <2> QED
    BY <1>7, <2>1, <2>2, <2>3
<1>10. HeapOK(a)'
  <2>1. \A s \in heap'[a] : Shape(s, k, Items(a)) /\ \E p \in Items(a) : Spread(s, k) <= Work(a, p)
    BY <1>5, <1>9 DEF Heaps, HeapOK, k
  <2> QED
    BY <1>6, <1>8, <2>1 DEF HeapOK
<1>11. ASSUME NEW b \in Processes
       PROVE  HeapOK(b)'
  <2>1. CASE b = a
    BY <1>10, <2>1
  <2>2. CASE b # a
    <3>1. heap[b] # {} => Partitioning(b)'
      BY <1>8 DEF Heaps, HeapOK
    <3> QED
      BY <1>1, <1>5, <2>2, <3>1, HeapFrame DEF Heaps
  <2> QED
    BY <2>1, <2>2
<1>12. PICK f \in Bijection(1 .. k, 1 .. k) : st = [i \in 1 .. k |-> Joined(s0, s1, k)[f[i]]]
  BY DEF Rearrangements
<1>13. /\ f \in [1 .. k -> 1 .. k]
       /\ \A i, j \in 1 .. k : f[i] = f[j] => i = j
       /\ \A j \in 1 .. k : \E i \in 1 .. k : f[i] = j
  BY DEF Bijection, Injection, Surjection, IsInjective
<1>14. \A i \in 1 .. k : /\ f[i] \in 1 .. k /\ k + 1 - f[i] \in 1 .. k
                         /\ st[i].items = s0[f[i]].items \cup s1[k + 1 - f[i]].items
  <2> SUFFICES ASSUME NEW i \in 1 .. k
               PROVE  /\ f[i] \in 1 .. k /\ k + 1 - f[i] \in 1 .. k
                      /\ st[i].items = s0[f[i]].items \cup s1[k + 1 - f[i]].items
    OBVIOUS
  <2>1. f[i] \in 1 .. k
    BY <1>13
  <2>2. k + 1 - f[i] \in 1 .. k
    BY <1>6, <2>1
  <2>3. st[i] = Joined(s0, s1, k)[f[i]]
    BY <1>12
  <2> QED
    BY <2>1, <2>2, <2>3 DEF Joined
<1>15. ASSUME a \in Ranks
       PROVE  Disjoint(a)' /\ Covers(a)'
  <2>1. Disjoint(a) /\ Covers(a)
    BY <1>6, <1>15, RankFacts DEF Heaps, Partitioning
  <2>2. \A u, v \in heap[a] : \A i, j \in 1 .. k : u # v \/ i # j => u[i].items \cap v[j].items = {}
    BY <2>1 DEF Disjoint, k
  <2>3. ASSUME NEW u \in heap[a] \ {s0, s1}, NEW i \in 1 .. k, NEW j \in 1 .. k
        PROVE  u[i].items \cap st[j].items = {}
    <3>1. u[i].items \cap s0[f[j]].items = {} /\ u[i].items \cap s1[k + 1 - f[j]].items = {}
      BY <1>2, <1>14, <2>2, <2>3
    <3> QED
      BY <1>14, <3>1
  <2>4. ASSUME NEW i \in 1 .. k, NEW j \in 1 .. k, i # j
        PROVE  st[i].items \cap st[j].items = {}
    <3>1. f[i] # f[j] /\ k + 1 - f[i] # k + 1 - f[j]
      <4>1. f[i] # f[j] /\ f[i] \in 1 .. k /\ f[j] \in 1 .. k
        BY <1>13, <2>4
      <4> QED
        BY <1>6, <4>1
    <3>2. s0[f[i]].items \cap s0[f[j]].items = {} /\ s1[k + 1 - f[i]].items \cap s1[k + 1 - f[j]].items = {}
      BY <1>2, <1>14, <2>2, <3>1
    <3>3. s0[f[i]].items \cap s1[k + 1 - f[j]].items = {} /\ s1[k + 1 - f[i]].items \cap s0[f[j]].items = {}
      BY <1>2, <1>4, <1>14, <2>2
    <3> QED
      BY <1>14, <3>2, <3>3
  <2>5. Disjoint(a)'
    <3> SUFFICES ASSUME NEW u \in heap'[a], NEW v \in heap'[a], NEW i \in 1 .. k, NEW j \in 1 .. k,
                        u # v \/ i # j
                 PROVE  u[i].items \cap v[j].items = {}
      BY <1>8 DEF Disjoint
    <3>1. CASE u = st /\ v = st
      BY <2>4, <3>1
    <3>2. CASE u # st /\ v # st
      BY <1>5, <2>2, <3>2
    <3>3. CASE u # st /\ v = st
      BY <1>5, <2>3, <3>3
    <3>4. CASE u = st /\ v # st
      BY <1>5, <2>3, <3>4
    <3> QED
      BY <3>1, <3>2, <3>3, <3>4
  <2>6. Covers(a)'
    BY <2>1, MergeCovers
  <2> QED
    BY <2>5, <2>6
<1>16. ASSUME NEW s \in Ranks, at'[s] = "merge"
       PROVE  Disjoint(s)' /\ Covers(s)'
  <2>1. CASE s = a
    BY <1>15, <2>1
  <2>2. CASE s # a
    BY <1>1, <1>5, <1>16, <2>2, RankFacts, PartitionFrame DEF Heaps
  <2> QED
    BY <2>1, <2>2
<1> QED
  BY <1>5, <1>11, <1>16 DEF Heaps

LEMMA ArrangeHeaps ==
  ASSUME Inv, Heaps, NEW r \in Ranks, Arrange(r)
  PROVE  Heaps'
<1>1. /\ at[r] = "merge" /\ at' = [at EXCEPT ![r] = "micro"] /\ heap' = [heap EXCEPT ![r] = {}]
      /\ UNCHANGED <<phase, lens, order, job, num>>
  BY DEF Arrange, controller
<1>2. /\ heap'[r] = {} /\ at'[r] = "micro"
      /\ \A a \in Processes : a # r => heap'[a] = heap[a]
      /\ \A s \in Ranks : s # r => at'[s] = at[s]
      /\ heap' = [a \in Processes |-> heap'[a]]
  BY <1>1, RankFacts DEF Heaps, Inv, Types, TypeOK
<1>3. ASSUME NEW a \in Processes
      PROVE  HeapOK(a)'
  <2>1. CASE a = r
    BY <1>2, <2>1 DEF HeapOK
  <2>2. CASE a # r
    <3>1. heap[a] # {} => Partitioning(a)'
      BY <1>1, <1>2, <2>2, ProcessFacts DEF Heaps, HeapOK, Partitioning
    <3> QED
      BY <1>1, <1>2, <2>2, <3>1, HeapFrame DEF Heaps
  <2> QED
    BY <2>1, <2>2
<1>4. ASSUME NEW s \in Ranks, at'[s] = "merge"
      PROVE  Disjoint(s)' /\ Covers(s)'
  <2>1. s # r
    BY <1>2, <1>4
  <2> QED
    BY <1>1, <1>2, <1>4, <2>1, RankFacts, PartitionFrame DEF Heaps
<1> QED
  BY <1>2, <1>3, <1>4 DEF Heaps

\* What the last state in the heap makes of the rows.
LEMMA ArrangeOnce ==
  ASSUME Inv, Heaps, NEW r \in Ranks, Arrange(r)
  PROVE  /\ \A p \in Items(r) : Cardinality({i \in DOMAIN micro'[r] : p \in micro'[r][i]}) = 1
         /\ \A i \in DOMAIN micro'[r] : micro'[r][i] # {} /\ micro'[r][i] \subseteq Items(r)
<1> DEFINE k == num[r]
<1>1. at[r] = "merge" /\ r # Controller /\ Parts(r) = k
  BY RankFacts DEF Arrange, Parts
<1>2. PICK st \in heap[r] :
        /\ Partitioned(r, st)
        /\ micro' = [micro EXCEPT ![r] = [i \in 1 .. k |-> st[ToEnds(i, k)].items]]
  BY DEF Arrange
<1>3. /\ micro'[r] = [i \in 1 .. k |-> st[ToEnds(i, k)].items]
      /\ DOMAIN micro'[r] = 1 .. k
      /\ \A i \in 1 .. k : micro'[r][i] = st[ToEnds(i, k)].items
  BY <1>2 DEF Inv, Types, TypeOK
<1>4. k \in Nat \ {0} /\ k <= Amount /\ Amount \in Nat /\ Items(r) = 1 .. Amount
  <2>1. k \in 1 .. Amount /\ Amount \in Nat
    BY <1>1, Sizes DEF Inv, Counted, Within, Amount
  <2> QED
    BY <1>1, <2>1 DEF Items
<1>5. Shape(st, k, Items(r))
  BY <1>1, <1>2, RankFacts DEF Heaps, HeapOK
<1>6. \A p \in Items(r) : \E j \in 1 .. k : p \in st[j].items
  BY <1>1, <1>2 DEF Heaps, Covers, Partitioned
<1>7. \A i, j \in 1 .. k : i # j => st[i].items \cap st[j].items = {}
  BY <1>1, <1>2 DEF Heaps, Disjoint
<1> HIDE DEF k
<1>8. Full(st, k)
  BY <1>4, <1>5, <1>6, AllFull
<1>9. /\ \A i \in 1 .. k : ToEnds(i, k) \in 1 .. k
      /\ \A i, j \in 1 .. k : ToEnds(i, k) = ToEnds(j, k) => i = j
      /\ \A j \in 1 .. k : \E i \in 1 .. k : ToEnds(i, k) = j
  BY <1>4, ToEndsOnce
<1>10. ASSUME NEW p \in Items(r)
       PROVE  Cardinality({i \in DOMAIN micro'[r] : p \in micro'[r][i]}) = 1
  <2>1. PICK j \in 1 .. k : p \in st[j].items
    BY <1>6
  <2>2. PICK i \in 1 .. k : ToEnds(i, k) = j
    BY <1>9
  <2>3. \A x \in 1 .. k : p \in micro'[r][x] <=> x = i
    BY <1>3, <1>7, <1>9, <2>1, <2>2
  <2>4. {x \in DOMAIN micro'[r] : p \in micro'[r][x]} = {i}
    BY <1>3, <2>3
  <2> QED
    BY <2>4, FS_Singleton
<1>11. ASSUME NEW i \in DOMAIN micro'[r]
       PROVE  micro'[r][i] # {} /\ micro'[r][i] \subseteq Items(r)
  <2>1. i \in 1 .. k /\ ToEnds(i, k) \in 1 .. k /\ micro'[r][i] = st[ToEnds(i, k)].items
    BY <1>3, <1>9, <1>11
  <2> QED
    BY <1>5, <1>8, <2>1 DEF Shape, Full
<1> QED
  BY <1>10, <1>11

\* Nothing else happens to the micro-batches of a rank while it is at them.
LEMMA NextOnce ==
  ASSUME Inv, Heaps, EachRowOnce, [Next]_vars
  PROVE  EachRowOnce'
<1> SUFFICES ASSUME NEW r \in Ranks, at'[r] = "micro"
             PROVE  /\ \A p \in Items(r)' : Cardinality({i \in DOMAIN micro'[r] : p \in micro'[r][i]}) = 1
                    /\ \A i \in DOMAIN micro'[r] : micro'[r][i] # {} /\ micro'[r][i] \subseteq Items(r)'
  BY DEF EachRowOnce
<1>1. CASE Arrange(r)
  <2>1. Items(r)' = Items(r)
    BY <1>1, RankFacts DEF Arrange, controller, Items, Amount
  <2> QED
    BY <1>1, <2>1, ArrangeOnce
<1>2. CASE ~Arrange(r)
  <2>1. at[r] = "micro" /\ micro'[r] = micro[r] /\ phase' = phase
    <3>1. CASE ControllerStep
      <4>1. \A s \in Ranks : phase \in {"balance", "partition"} => at[s] = "count"
        BY DEF Inv, Calls
      <4> QED
        BY <3>1, <4>1 DEF ControllerStep, Upsample, Balance, Reorder, Collect, controller, rank
    <3>2. CASE Collective
      BY <3>2 DEF Collective, Reduce, Forward, controller
    <3>3. CASE \E s \in Ranks : RankStep(s)
      <4>1. PICK s \in Ranks : RankStep(s)
        BY <3>3
      <4>2. phase' = phase
        BY <4>1 DEF RankStep, Count, Split, Arrange, Return, NextUpdate, controller
      <4>3. CASE Arrange(s)
        <5>1. s # r
          BY <1>2, <4>3
        <5> QED
          BY <4>2, <4>3, <5>1 DEF Arrange, Inv, Types, TypeOK
      <4>4. CASE ~Arrange(s)
        <5>1. micro' = micro
          BY <4>1, <4>4 DEF RankStep, Count, Split, Return, NextUpdate
        <5>2. at'[s] # "micro" /\ \A q \in Ranks : q # s => at'[q] = at[q]
          BY <4>1, <4>4 DEF RankStep, Count, Split, Return, NextUpdate, Inv, Types, TypeOK
        <5> QED
          BY <4>2, <5>1, <5>2
      <4> QED
        BY <4>3, <4>4
    <3>4. CASE (\E a \in Processes : Merge(a)) \/ UNCHANGED vars
      BY <3>4 DEF Merge, vars, controller, rank
    <3> QED
      BY <3>1, <3>2, <3>3, <3>4 DEF Next
  <2>2. Items(r)' = Items(r)
    BY <2>1, RankFacts DEF Items, Amount
  <2> QED
    BY <2>1, <2>2 DEF EachRowOnce
<1> QED
  BY <1>1, <1>2

LEMMA NextHeaps ==
  ASSUME Inv, Heaps, [Next]_vars
  PROVE  Heaps'
<1>1. CASE Upsample
  <2>1. Idle /\ heap' = heap /\ UNCHANGED at
    BY <1>1 DEF Upsample, Idle, Inv, Calls, rank
  <2> QED
    BY <2>1, StaysIdle DEF Idle
<1>2. CASE Collect
  <2>1. Idle /\ heap' = heap /\ \A r \in Ranks : at'[r] # "merge"
    BY <1>2 DEF Collect, Idle
  <2> QED
    BY <2>1, StaysIdle
<1>3. CASE Collective
  <2>1. CASE Ranks = {}
    BY <2>1, SplitAssumption DEF SplitAssumption, Ranks
  <2>2. CASE Ranks # {}
    <3>1. heap' = heap /\ \A r \in Ranks : at[r] \in {"reduce", "micro"} /\ at'[r] # "merge"
      BY <1>3 DEF Collective, Reduce, Forward
    <3>2. Idle
      BY <2>2, <3>1, InCall DEF Idle
    <3> QED
      BY <3>1, <3>2, StaysIdle
  <2> QED
    BY <2>1, <2>2
<1>4. CASE \E r \in Ranks : Count(r) \/ Return(r) \/ NextUpdate(r)
  <2>1. PICK r \in Ranks : Count(r) \/ Return(r) \/ NextUpdate(r)
    BY <1>4
  <2>2. /\ at[r] # "merge" /\ at'[r] # "merge" /\ UNCHANGED <<phase, lens, order, heap>>
        /\ \A s \in Ranks : s # r => at'[s] = at[s] /\ job'[s] = job[s] /\ num'[s] = num[s]
    BY <2>1 DEF Count, Return, NextUpdate, HasRun, controller, Inv, Types, TypeOK
  <2> QED
    BY <2>2, RankFrame
<1>5. CASE \E r \in Ranks : Split(r) \/ Arrange(r)
  BY <1>5, SplitHeaps, ArrangeHeaps
<1>6. CASE UNCHANGED vars
  <2>1. UNCHANGED <<phase, lens, order, heap, at, job, num>>
    BY <1>6 DEF vars, controller, rank
  <2>2. \A a \in Processes : HeapOK(a)'
    BY <2>1, HeapFrame DEF Heaps, HeapOK, Partitioning
  <2>3. \A r \in Ranks : at'[r] = "merge" => Disjoint(r)' /\ Covers(r)'
    BY <2>1, PartitionFrame DEF Heaps
  <2> QED
    BY <2>1, <2>2, <2>3 DEF Heaps
<1> QED
  BY <1>1, <1>2, <1>3, <1>4, <1>5, <1>6, BalanceHeaps, ReorderHeaps, MergeHeaps
  DEF Next, ControllerStep, RankStep

LEMMA InitHeaps ==
  ASSUME Init
  PROVE  Heaps /\ EachRowOnce
  BY DEF Init, Heaps, HeapOK, EachRowOnce

THEOREM HeapsCorrect == Spec => [](Inv /\ Heaps /\ EachRowOnce)
  BY InitInv, NextInv, InitHeaps, NextHeaps, NextOnce, PTL DEF Spec

\* No row of a mini-batch is left out of the micro-batches or computed twice,
\* and no micro-batch is empty: the differencing method for any workloads.
THEOREM EachRowOnceCorrect == Spec => []EachRowOnce
  BY HeapsCorrect, PTL

\* No two partitions differ by more than one sequence, at any time.
THEOREM BalancedCorrect == Spec => []Balanced
<1>1. Inv /\ Heaps => Balanced
  <2> SUFFICES ASSUME Inv, Heaps, NEW a \in Processes, NEW st \in heap[a],
                      NEW i \in 1 .. Parts(a), NEW j \in 1 .. Parts(a)
               PROVE  \E p \in Items(a) : st[i].sum - st[j].sum <= Work(a, p)
    BY DEF Balanced
  <2> DEFINE k == Parts(a)
  <2>1. Partitioning(a) /\ Shape(st, k, Items(a))
    BY DEF Heaps, HeapOK
  <2>2. PICK p \in Items(a) : Spread(st, k) <= Work(a, p)
    BY DEF Heaps, HeapOK
  <2>3. k \in Nat \ {0}
    BY <2>1, PartsPositive
  <2>4. Work(a, p) \in Nat
    <3>1. IF a = Controller THEN phase # "balance" ELSE phase \in {"infer", "update"}
      BY <2>1, ProcessFacts, InCall DEF Partitioning
    <3> QED
      BY <3>1, WorkPositive DEF Inv
  <2> HIDE DEF k
  <2>5. i \in 1 .. k /\ j \in 1 .. k
    BY DEF k
  <2>6. /\ st[1].sum \in Nat /\ st[k].sum \in Nat /\ st[i].sum \in Nat /\ st[j].sum \in Nat
        /\ st[1].sum >= st[i].sum /\ st[j].sum >= st[k].sum
    <3>1. 1 \in 1 .. k /\ i \in 1 .. k /\ k \in j .. k
      BY <2>3, <2>5
    <3> QED
      BY <2>1, <2>3, <2>5, <3>1, Decreasing
  <2>7. st[i].sum - st[j].sum <= Work(a, p)
    BY <2>2, <2>4, <2>6 DEF Spread
  <2> QED
    BY <2>7
<1> QED
  BY <1>1, HeapsCorrect, PTL

-----------------------------------------------------------------------------
(* Sequences appended.  FlattenSeq is a recursive function; what it gives is *)
(* shown by induction on the number of sequences.  A set of numbers stands   *)
(* for the predicate that all numbers are to have.                           *)

\* The order of the numbers is well-founded.
LEMMA NatLess == IsWellFoundedOn({ss \in Nat \X Nat : ss[1] < ss[2]}, Nat)
  BY NatLessThanWellFounded DEF OpToRel

\* Induction: a set of numbers that has 0 and all successors has them all.
LEMMA SetInduction ==
  ASSUME NEW T \in SUBSET Nat, 0 \in T, \A n \in T : n + 1 \in T
  PROVE  T = Nat
<1> DEFINE D == Nat \ T
           R == {ss \in Nat \X Nat : ss[1] < ss[2]}
<1>1. SUFFICES ASSUME D # {} PROVE FALSE
  OBVIOUS
<1>2. PICK x \in D : \A y \in D : ~(<<y, x>> \in R)
  <2>1. D \subseteq Nat /\ IsWellFoundedOn(R, Nat)
    BY NatLess
  <2> HIDE DEF D, R
  <2> QED
    BY <1>1, <2>1, WFMin
<1>3. x # 0 /\ x - 1 \in Nat /\ (x - 1) + 1 = x
  OBVIOUS
<1>4. x - 1 \in D /\ <<x - 1, x>> \in R
  BY <1>3
<1> QED
  BY <1>2, <1>4

\* FlattenSeq appends the sequences one after the other.
Appending(f, s) == f = [i \in 1 .. Len(s) |-> IF i = 1 THEN s[i] ELSE f[i - 1] \o s[i]]

LEMMA AppendingExists ==
  ASSUME NEW S, NEW s \in Seq(Seq(S))
  PROVE  \E f \in [1 .. Len(s) -> Seq(S)] : Appending(f, s)
<1> DEFINE L == Len(s)
           Good(f, n) == \A i \in 1 .. n : i <= L => f[i] = IF i = 1 THEN s[i] ELSE f[i - 1] \o s[i]
           T == {n \in Nat : \E f \in [1 .. n -> Seq(S)] : Good(f, n)}
<1>0. L \in Nat /\ \A i \in 1 .. L : s[i] \in Seq(S)
  OBVIOUS
<1>1. 0 \in T
  <2>1. 1 .. 0 = {}
    OBVIOUS
  <2>2. [i \in 1 .. 0 |-> <<>>] \in [1 .. 0 -> Seq(S)]
    BY <2>1, Zenon
  <2>3. Good([i \in 1 .. 0 |-> <<>>], 0)
    BY <2>1, Zenon
  <2> HIDE DEF Good
  <2> QED
    BY <2>2, <2>3
<1>2. ASSUME NEW n \in T
      PROVE  n + 1 \in T
  <2>1. n \in Nat
    OBVIOUS
  <2>2. PICK f \in [1 .. n -> Seq(S)] : Good(f, n)
    OBVIOUS
  <2> DEFINE last == IF n + 1 > L THEN <<>> ELSE IF n = 0 THEN s[1] ELSE f[n] \o s[n + 1]
             g    == [i \in 1 .. n + 1 |-> IF i <= n THEN f[i] ELSE last]
  <2>3. last \in Seq(S)
    <3>1. CASE n + 1 > L
      BY <3>1
    <3>2. CASE n + 1 <= L /\ n = 0
      <4>1. 1 \in 1 .. L
        BY <1>0, <3>2
      <4> QED
        BY <1>0, <3>2, <4>1
    <3>3. CASE n + 1 <= L /\ n # 0
      <4>1. n + 1 \in 1 .. L /\ n \in 1 .. n
        BY <1>0, <2>1, <3>3
      <4>2. s[n + 1] \in Seq(S) /\ f[n] \in Seq(S)
        BY <1>0, <2>2, <4>1
      <4>3. last = f[n] \o s[n + 1]
        <5>1. ~(n + 1 > L)
          BY <1>0, <2>1, <3>3
        <5> HIDE DEF L
        <5> QED
          BY <3>3, <5>1, Zenon
      <4> HIDE DEF last
      <4> QED
        BY <4>2, <4>3
    <3> QED
      BY <1>0, <2>1, <3>1, <3>2, <3>3
  <2>4. g \in [1 .. n + 1 -> Seq(S)]
    <3> HIDE DEF last
    <3>1. \A i \in 1 .. n + 1 : i <= n => i \in 1 .. n
      BY <2>1
    <3> QED
      BY <2>2, <2>3, <3>1
  <2>5. Good(g, n + 1)
    <3> SUFFICES ASSUME NEW i \in 1 .. n + 1, i <= L
                 PROVE  g[i] = IF i = 1 THEN s[i] ELSE g[i - 1] \o s[i]
      OBVIOUS
    <3>1. CASE i <= n
      <4>1. i \in 1 .. n /\ g[i] = f[i] /\ (i # 1 => i - 1 \in 1 .. n + 1 /\ i - 1 <= n /\ g[i - 1] = f[i - 1])
        BY <2>1, <3>1
      <4>2. f[i] = IF i = 1 THEN s[i] ELSE f[i - 1] \o s[i]
        BY <2>2, <4>1
      <4> HIDE DEF g
      <4> QED
        BY <4>1, <4>2
    <3>2. CASE i = n + 1
      <4>1. g[i] = last /\ (n # 0 => n \in 1 .. n + 1 /\ g[n] = f[n])
        BY <2>1, <3>2
      <4>2. last = IF n = 0 THEN s[1] ELSE f[n] \o s[n + 1]
        BY <1>0, <2>1, <3>2
      <4>3. i - 1 = n /\ (i = 1 <=> n = 0)
        BY <2>1, <3>2
      <4> HIDE DEF g, last
      <4> QED
        BY <3>2, <4>1, <4>2, <4>3
    <3> QED
      BY <2>1, <3>1, <3>2
  <2> HIDE DEF g, last, Good
  <2> QED
    BY <2>1, <2>4, <2>5
<1>3. L \in T
  <2> HIDE DEF T, L
  <2>1. T \in SUBSET Nat
    BY DEF T
  <2> QED
    BY <1>0, <1>1, <1>2, <2>1, SetInduction
<1>4. PICK f \in [1 .. L -> Seq(S)] : Good(f, L)
  BY <1>3
<1>5. f = [i \in 1 .. L |-> IF i = 1 THEN s[i] ELSE f[i - 1] \o s[i]]
  <2>1. \A i \in 1 .. L : i <= L
    BY <1>0
  <2>2. \A i \in 1 .. L : f[i] = IF i = 1 THEN s[i] ELSE f[i - 1] \o s[i]
    <3> HIDE DEF L
    <3> QED
      BY <1>4, <2>1, Zenon
  <2> HIDE DEF L
  <2> QED
    BY <1>4, <2>2
<1> QED
  BY <1>4, <1>5 DEF Appending

LEMMA Flattened ==
  ASSUME NEW S, NEW s \in Seq(Seq(S)), Len(s) # 0
  PROVE  \E f \in [1 .. Len(s) -> Seq(S)] :
           /\ f[1] = s[1]
           /\ \A i \in 1 .. Len(s) - 1 : f[i + 1] = f[i] \o s[i + 1]
           /\ FlattenSeq(s) = f[Len(s)]
<1> DEFINE L == Len(s)
           g == CHOOSE h : Appending(h, s)
<1>0. L \in Nat \ {0} /\ 1 \in 1 .. L /\ \A i \in 1 .. L : s[i] \in Seq(S)
  OBVIOUS
<1>1. Appending(g, s)
  <2>1. \E h : Appending(h, s)
    BY AppendingExists
  <2> QED
    BY <2>1, Zenon
<1>2. FlattenSeq(s) = g[L]
  <2>1. FlattenSeq(s) = (CHOOSE h : h = [i \in 1 .. Len(s) |-> IF i = 1 THEN s[i] ELSE h[i - 1] \o s[i]])[Len(s)]
    BY Zenon DEF FlattenSeq
  <2> QED
    BY <2>1, Zenon DEF Appending
<1> HIDE DEF g
<1>3. g = [i \in 1 .. L |-> IF i = 1 THEN s[i] ELSE g[i - 1] \o s[i]]
  BY <1>1 DEF Appending
<1>4. g[1] = s[1]
  BY <1>0, <1>3
<1>5. ASSUME NEW i \in 1 .. L - 1
      PROVE  g[i + 1] = g[i] \o s[i + 1]
  <2>1. i + 1 \in 1 .. L /\ i + 1 # 1 /\ (i + 1) - 1 = i
    BY <1>0
  <2>2. g[i + 1] = g[(i + 1) - 1] \o s[i + 1]
    <3> HIDE DEF L
    <3> QED
      BY <1>3, <2>1, Zenon
  <2> QED
    BY <2>1, <2>2
<1>6. \A i \in 1 .. L : g[i] \in Seq(S)
  <2> DEFINE T == {n \in Nat : n + 1 \in 1 .. L => g[n + 1] \in Seq(S)}
  <2>1. 0 \in T
    <3>1. 0 + 1 = 1 /\ g[1] \in Seq(S)
      BY <1>0, <1>4
    <3> QED
      BY <3>1
  <2>2. ASSUME NEW n \in T
        PROVE  n + 1 \in T
    <3>1. SUFFICES ASSUME (n + 1) + 1 \in 1 .. L
                   PROVE  g[(n + 1) + 1] \in Seq(S)
      OBVIOUS
    <3>2. n \in Nat /\ n + 1 \in 1 .. L - 1 /\ n + 1 \in 1 .. L
      BY <1>0, <3>1
    <3>3. g[n + 1] \in Seq(S) /\ s[(n + 1) + 1] \in Seq(S)
      BY <1>0, <3>1, <3>2
    <3>4. g[(n + 1) + 1] = g[n + 1] \o s[(n + 1) + 1]
      BY <1>5, <3>2
    <3> QED
      BY <3>3, <3>4
  <2>3. T = Nat
    <3>1. T \in SUBSET Nat
      OBVIOUS
    <3> HIDE DEF T
    <3> QED
      BY <2>1, <2>2, <3>1, SetInduction
  <2> SUFFICES ASSUME NEW i \in 1 .. L
               PROVE  g[i] \in Seq(S)
    OBVIOUS
  <2>4. i - 1 \in Nat /\ (i - 1) + 1 = i
    BY <1>0
  <2>5. i - 1 \in T
    BY <2>3, <2>4
  <2> QED
    BY <2>4, <2>5
<1>7. g \in [1 .. L -> Seq(S)]
  <2>1. DOMAIN g = 1 .. L
    BY <1>3
  <2> HIDE DEF L
  <2> QED
    BY <1>3, <1>6, <2>1
<1> QED
  BY <1>2, <1>4, <1>5, <1>7

\* What is in one of the sequences is in all of them appended.
LEMMA FlattenHas ==
  ASSUME NEW S, NEW s \in Seq(Seq(S)), Len(s) # 0, NEW i \in 1 .. Len(s), NEW j \in 1 .. Len(s[i])
  PROVE  /\ FlattenSeq(s) \in Seq(S)
         /\ \E p \in 1 .. Len(FlattenSeq(s)) : FlattenSeq(s)[p] = s[i][j]
<1> DEFINE L == Len(s)
           Has(t) == \E p \in 1 .. Len(t) : t[p] = s[i][j]
<1>0. L \in Nat \ {0} /\ (\A x \in 1 .. L : s[x] \in Seq(S)) /\ i \in 1 .. L
  OBVIOUS
<1>1. PICK f \in [1 .. L -> Seq(S)] :
        /\ f[1] = s[1]
        /\ \A x \in 1 .. L - 1 : f[x + 1] = f[x] \o s[x + 1]
        /\ FlattenSeq(s) = f[L]
  BY Flattened
<1>2. ASSUME NEW t \in Seq(S), NEW u \in Seq(S), Has(t)
      PROVE  Has(t \o u)
  <2>1. PICK p \in 1 .. Len(t) : t[p] = s[i][j]
    BY <1>2
  <2>2. p \in 1 .. Len(t \o u) /\ (t \o u)[p] = t[p]
    OBVIOUS
  <2> QED
    BY <2>1, <2>2
<1>3. ASSUME NEW t \in Seq(S)
      PROVE  Has(t \o s[i])
  <2>1. s[i] \in Seq(S) /\ Len(t) + j \in 1 .. Len(t \o s[i]) /\ (t \o s[i])[Len(t) + j] = s[i][j]
    BY <1>0
  <2> QED
    BY <2>1
<1> DEFINE T == {n \in Nat : i + n <= L => Has(f[i + n])}
<1>4. 0 \in T
  <2>1. i + 0 = i
    BY <1>0
  <2>2. CASE i = 1
    BY <1>1, <2>1, <2>2
  <2>3. CASE i # 1
    <3>1. i - 1 \in 1 .. L - 1 /\ i - 1 \in 1 .. L /\ (i - 1) + 1 = i
      BY <1>0, <2>3
    <3>2. f[i] = f[i - 1] \o s[i] /\ f[i - 1] \in Seq(S)
      BY <1>1, <3>1
    <3>3. Has(f[i])
      <4> HIDE DEF Has
      <4> QED
        BY <1>3, <3>2
    <3> HIDE DEF Has
    <3> QED
      BY <2>1, <3>3
  <2> QED
    BY <2>2, <2>3
<1>5. ASSUME NEW n \in T
      PROVE  n + 1 \in T
  <2>1. SUFFICES ASSUME i + (n + 1) <= L
                 PROVE  Has(f[i + (n + 1)])
    OBVIOUS
  <2>2. n \in Nat /\ i + n \in 1 .. L - 1 /\ i + n \in 1 .. L /\ i + n <= L
        /\ (i + n) + 1 = i + (n + 1) /\ (i + n) + 1 \in 1 .. L
    BY <1>0, <2>1
  <2>3. Has(f[i + n])
    BY <2>2
  <2>4. f[i + n] \in Seq(S) /\ s[(i + n) + 1] \in Seq(S) /\ f[(i + n) + 1] = f[i + n] \o s[(i + n) + 1]
    BY <1>0, <1>1, <2>2
  <2> HIDE DEF Has, L
  <2>5. Has(f[(i + n) + 1])
    BY <1>2, <2>3, <2>4
  <2> QED
    BY <2>2, <2>5
<1>6. T = Nat
  <2>1. T \in SUBSET Nat
    OBVIOUS
  <2> HIDE DEF T
  <2> QED
    BY <1>4, <1>5, <2>1, SetInduction
<1>7. Has(f[L])
  <2>1. L - i \in Nat /\ i + (L - i) = L /\ L <= L
    BY <1>0
  <2>2. L - i \in T
    BY <1>6, <2>1
  <2> HIDE DEF Has, L
  <2> QED
    BY <2>1, <2>2
<1>8. FlattenSeq(s) \in Seq(S)
  <2>1. L \in 1 .. L
    BY <1>0
  <2> HIDE DEF L
  <2> QED
    BY <1>1, <2>1
<1> QED
  BY <1>1, <1>7, <1>8

\* Sequences without repetition that have nothing in common stay so appended.
LEMMA FlattenOnce ==
  ASSUME NEW S, NEW s \in Seq(Seq(S)), Len(s) # 0,
         \A i \in 1 .. Len(s) : \A p, q \in 1 .. Len(s[i]) : s[i][p] = s[i][q] => p = q,
         \A i, j \in 1 .. Len(s) : i # j =>
           \A p \in 1 .. Len(s[i]) : \A q \in 1 .. Len(s[j]) : s[i][p] # s[j][q]
  PROVE  \A p, q \in 1 .. Len(FlattenSeq(s)) : FlattenSeq(s)[p] = FlattenSeq(s)[q] => p = q
<1> DEFINE L == Len(s)
           Once(t) == \A p, q \in 1 .. Len(t) : t[p] = t[q] => p = q
           From(t, n) == \A p \in 1 .. Len(t) : \E i \in 1 .. n : \E q \in 1 .. Len(s[i]) : t[p] = s[i][q]
<1>0. L \in Nat \ {0} /\ (\A x \in 1 .. L : s[x] \in Seq(S)) /\ (\A x \in 1 .. L : Once(s[x]))
  OBVIOUS
<1>1. PICK f \in [1 .. L -> Seq(S)] :
        /\ f[1] = s[1]
        /\ \A x \in 1 .. L - 1 : f[x + 1] = f[x] \o s[x + 1]
        /\ FlattenSeq(s) = f[L]
  BY Flattened
<1> DEFINE T == {n \in Nat : n + 1 <= L => Once(f[n + 1]) /\ From(f[n + 1], n + 1)}
<1>2. 0 \in T
  <2>1. 0 + 1 = 1 /\ 1 \in 1 .. L /\ 1 \in 1 .. 1
    BY <1>0
  <2>2. Once(f[1])
    BY <1>0, <1>1, <2>1
  <2>3. From(f[1], 1)
    BY <1>1, <2>1
  <2> HIDE DEF Once, From
  <2> QED
    BY <2>1, <2>2, <2>3
<1>3. ASSUME NEW n \in T
      PROVE  n + 1 \in T
  <2>1. SUFFICES ASSUME (n + 1) + 1 <= L
                 PROVE  Once(f[(n + 1) + 1]) /\ From(f[(n + 1) + 1], (n + 1) + 1)
    OBVIOUS
  <2> DEFINE m == n + 1
  <2>2. m \in Nat /\ m \in 1 .. L - 1 /\ m \in 1 .. L /\ m + 1 \in 1 .. L /\ n + 1 <= L
    BY <1>0, <2>1
  <2>3. Once(f[m]) /\ From(f[m], m)
    BY <2>2
  <2> DEFINE t == f[m]
             u == s[m + 1]
  <2>4. t \in Seq(S) /\ u \in Seq(S) /\ f[m + 1] = t \o u /\ Once(u)
    <3> HIDE DEF m, Once
    <3> QED
      BY <1>0, <1>1, <2>2
  <2>5. ASSUME NEW p \in 1 .. Len(t), NEW q \in 1 .. Len(u)
        PROVE  t[p] # u[q]
    <3>1. PICK i \in 1 .. m : \E x \in 1 .. Len(s[i]) : t[p] = s[i][x]
      BY <2>3
    <3>2. PICK x \in 1 .. Len(s[i]) : t[p] = s[i][x]
      BY <3>1
    <3>3. i \in 1 .. L /\ i # m + 1
      <4> HIDE DEF m, L
      <4> QED
        BY <1>0, <2>2
    <3>4. s[i][x] # s[m + 1][q]
      <4>1. m + 1 \in 1 .. L /\ q \in 1 .. Len(s[m + 1]) /\ x \in 1 .. Len(s[i])
        BY <2>2
      <4>2. \A y, z \in 1 .. L : y # z =>
              \A v \in 1 .. Len(s[y]) : \A w \in 1 .. Len(s[z]) : s[y][v] # s[z][w]
        OBVIOUS
      <4> HIDE DEF m
      <4> QED
        BY ONLY <3>3, <4>1, <4>2
    <3> HIDE DEF m
    <3> QED
      BY <3>2, <3>4
  <2>6. /\ Len(t) \in Nat /\ Len(u) \in Nat /\ Len(t \o u) = Len(t) + Len(u)
        /\ \A p \in 1 .. Len(t) + Len(u) :
             (t \o u)[p] = IF p <= Len(t) THEN t[p] ELSE u[p - Len(t)]
    <3> HIDE DEF t, u
    <3> QED
      BY <2>4
  <2>7. Once(t \o u)
    <3> HIDE DEF t, u
    <3> SUFFICES ASSUME NEW p \in 1 .. Len(t) + Len(u), NEW q \in 1 .. Len(t) + Len(u),
                        (t \o u)[p] = (t \o u)[q]
                 PROVE  p = q
      BY <2>6
    <3>1. CASE p <= Len(t) /\ q <= Len(t)
      <4>1. p \in 1 .. Len(t) /\ q \in 1 .. Len(t) /\ t[p] = t[q]
        BY <2>6, <3>1
      <4> QED
        BY <2>3, <4>1 DEF t
    <3>2. CASE p <= Len(t) /\ ~(q <= Len(t))
      <4>1. p \in 1 .. Len(t) /\ q - Len(t) \in 1 .. Len(u) /\ t[p] = u[q - Len(t)]
        BY <2>6, <3>2
      <4> QED
        BY <2>5, <4>1
    <3>3. CASE ~(p <= Len(t)) /\ q <= Len(t)
      <4>1. q \in 1 .. Len(t) /\ p - Len(t) \in 1 .. Len(u) /\ t[q] = u[p - Len(t)]
        BY <2>6, <3>3
      <4> QED
        BY <2>5, <4>1
    <3>4. CASE ~(p <= Len(t)) /\ ~(q <= Len(t))
      <4>1. p - Len(t) \in 1 .. Len(u) /\ q - Len(t) \in 1 .. Len(u) /\ u[p - Len(t)] = u[q - Len(t)]
        BY <2>6, <3>4
      <4>2. p - Len(t) = q - Len(t)
        BY <2>4, <4>1
      <4> QED
        BY <2>6, <4>2
    <3> QED
      BY <3>1, <3>2, <3>3, <3>4
  <2>8. From(t \o u, m + 1)
    <3> SUFFICES ASSUME NEW p \in 1 .. Len(t) + Len(u)
                 PROVE  \E i \in 1 .. m + 1 : \E q \in 1 .. Len(s[i]) : (t \o u)[p] = s[i][q]
      <4> HIDE DEF t, u, m
      <4> QED
        BY <2>6
    <3>1. CASE p <= Len(t)
      <4>1. p \in 1 .. Len(t) /\ (t \o u)[p] = t[p]
        <5> HIDE DEF t, u
        <5> QED
          BY <2>6, <3>1
      <4>2. PICK i \in 1 .. m : \E q \in 1 .. Len(s[i]) : t[p] = s[i][q]
        BY <2>3, <4>1
      <4>3. i \in 1 .. m + 1
        BY <2>2
      <4> HIDE DEF t, u, m
      <4> QED
        BY <4>1, <4>2, <4>3
    <3>2. CASE ~(p <= Len(t))
      <4>1. p - Len(t) \in 1 .. Len(u) /\ (t \o u)[p] = u[p - Len(t)]
        <5> HIDE DEF t, u
        <5> QED
          BY <2>6, <3>2
      <4>2. m + 1 \in 1 .. m + 1
        BY <2>2
      <4>3. (t \o u)[p] = s[m + 1][p - Len(t)] /\ p - Len(t) \in 1 .. Len(s[m + 1])
        <5> HIDE DEF t, m
        <5> QED
          BY <4>1 DEF u
      <4>4. \E q \in 1 .. Len(s[m + 1]) : (t \o u)[p] = s[m + 1][q]
        BY <4>3
      <4> HIDE DEF t, u, m
      <4> QED
        BY <4>2, <4>4
    <3> QED
      BY <3>1, <3>2
  <2> HIDE DEF t, u, Once, From
  <2> QED
    BY <2>4, <2>7, <2>8
<1>4. T = Nat
  <2>1. T \in SUBSET Nat
    OBVIOUS
  <2> HIDE DEF T
  <2> QED
    BY <1>2, <1>3, <2>1, SetInduction
<1>5. Once(f[L])
  <2>1. L - 1 \in Nat /\ (L - 1) + 1 = L /\ L <= L
    BY <1>0
  <2>2. L - 1 \in T
    BY <1>4, <2>1
  <2> HIDE DEF Once, From, L
  <2> QED
    BY <2>1, <2>2
<1> HIDE DEF L
<1> QED
  BY <1>1, <1>5

LEMMA SameInterval ==
  ASSUME NEW a \in Nat, NEW b \in Nat, 1 .. a = 1 .. b
  PROVE  a = b
<1>1. a # 0 => a \in 1 .. a
  OBVIOUS
<1>2. b # 0 => b \in 1 .. b
  OBVIOUS
<1> QED
  BY <1>1, <1>2

\* Slices of length k of a sequence, appended, are the sequence.  They are cut
\* at the places o.
Cuts(o, k, d, N) ==
  /\ o \in [0 .. d -> 0 .. N] /\ o[0] = 0 /\ o[d] = N
  /\ \A i \in 1 .. d : o[i] = o[i - 1] + k
Slices(w, o, k, d) == [i \in 1 .. d |-> [p \in 1 .. k |-> w[o[i - 1] + p]]]

LEMMA FlattenSlices ==
  ASSUME NEW N \in Nat, NEW w \in [1 .. N -> 1 .. N], NEW k \in Nat, NEW d \in Nat \ {0},
         NEW o, Cuts(o, k, d, N)
  PROVE  FlattenSeq(Slices(w, o, k, d)) = w
<1> DEFINE s == Slices(w, o, k, d)
           S == 1 .. N
<1>0. s = [i \in 1 .. d |-> [p \in 1 .. k |-> w[o[i - 1] + p]]]
  BY DEF Slices
<1> HIDE DEF s, S
<1>. USE DEF Cuts
<1>1. ASSUME NEW i \in 1 .. d
      PROVE  /\ o[i] \in Nat /\ o[i - 1] \in Nat /\ o[i] = o[i - 1] + k
             /\ \A p \in 1 .. k : o[i - 1] + p \in 1 .. N
  <2>1. i - 1 \in 0 .. d /\ i \in 0 .. d
    OBVIOUS
  <2>2. o[i] \in 0 .. N /\ o[i - 1] \in 0 .. N /\ o[i] = o[i - 1] + k
    BY <2>1
  <2>3. \A a, b \in 0 .. N : b = a + k => a \in Nat /\ b \in Nat /\ \A p \in 1 .. k : a + p \in 1 .. N
    OBVIOUS
  <2> QED
    BY ONLY <2>2, <2>3
<1>2. s \in Seq(Seq(S)) /\ Len(s) = d /\ \A i \in 1 .. d : s[i] \in Seq(S)
  <2>1. ASSUME NEW i \in 1 .. d
        PROVE  s[i] \in Seq(S)
    <3>1. \A p \in 1 .. k : w[o[i - 1] + p] \in S
      BY <1>1 DEF S
    <3>2. [p \in 1 .. k |-> w[o[i - 1] + p]] \in Seq(S)
      BY <3>1
    <3> QED
      BY <1>0, <3>2
  <2>2. DOMAIN s = 1 .. d
    BY <1>0
  <2>3. s = [i \in 1 .. d |-> s[i]]
    BY <1>0
  <2>4. s \in [1 .. d -> Seq(S)]
    BY <2>1, <2>3
  <2> QED
    BY <2>1, <2>4
<1>3. PICK f \in [1 .. d -> Seq(S)] :
        /\ f[1] = s[1]
        /\ \A x \in 1 .. d - 1 : f[x + 1] = f[x] \o s[x + 1]
        /\ FlattenSeq(s) = f[d]
  <2>1. Len(s) # 0
    BY <1>2
  <2>2. PICK f \in [1 .. Len(s) -> Seq(S)] :
        /\ f[1] = s[1]
        /\ \A x \in 1 .. Len(s) - 1 : f[x + 1] = f[x] \o s[x + 1]
        /\ FlattenSeq(s) = f[Len(s)]
    BY <1>2, <2>1, Flattened
  <2> QED
    BY <1>2, <2>2
<1> DEFINE Prefix(n) == f[n] = [p \in 1 .. o[n] |-> w[p]]
           T == {n \in Nat : n + 1 <= d => Prefix(n + 1)}
<1>4. 0 \in T
  <2>1. 0 + 1 = 1 /\ 1 - 1 = 0 /\ 1 \in 1 .. d
    OBVIOUS
  <2>2. o[1] = k /\ s[1] = [p \in 1 .. k |-> w[0 + p]]
    BY <1>0, <1>1, <2>1
  <2>3. [p \in 1 .. k |-> w[0 + p]] = [p \in 1 .. k |-> w[p]]
    OBVIOUS
  <2>4. Prefix(1)
    BY <1>3, <2>2, <2>3
  <2> HIDE DEF Prefix
  <2> QED
    BY <2>1, <2>4
<1>5. ASSUME NEW n \in T
      PROVE  n + 1 \in T
  <2>1. SUFFICES ASSUME (n + 1) + 1 <= d
                 PROVE  Prefix((n + 1) + 1)
    OBVIOUS
  <2> DEFINE m == n + 1
             end == o[m]
             part == [p \in 1 .. k |-> w[end + p]]
             t == f[m]
  <2>2. m \in Nat /\ m \in 1 .. d - 1 /\ m \in 1 .. d /\ m + 1 \in 1 .. d /\ (m + 1) - 1 = m /\ n + 1 <= d
    BY <2>1
  <2>3. t = [p \in 1 .. end |-> w[p]]
    BY <2>2
  <2>4. end \in Nat /\ o[m + 1] = end + k
    <3> HIDE DEF m
    <3> QED
      BY <1>1, <2>2
  <2>5. s[m + 1] = part
    <3> HIDE DEF m
    <3> QED
      BY <1>0, <2>2
  <2>6. f[m + 1] = t \o part
    <3> HIDE DEF m, part
    <3> QED
      BY <1>3, <2>2, <2>5
  <2>7. t \in Seq(S) /\ part \in Seq(S)
    <3>1. s[m + 1] \in Seq(S)
      BY <1>2, <2>2
    <3> HIDE DEF m, part
    <3> QED
      BY <1>3, <2>2, <2>5, <3>1
  <2>8. Len(t) = end /\ Len(part) = k
    <3>1. DOMAIN t = 1 .. end /\ DOMAIN part = 1 .. k
      BY <2>3
    <3> HIDE DEF t, part, end
    <3>2. 1 .. Len(t) = 1 .. end /\ Len(t) \in Nat
      BY <2>7, <3>1, LenProperties
    <3>3. 1 .. Len(part) = 1 .. k /\ Len(part) \in Nat
      BY <2>7, <3>1, LenProperties
    <3> QED
      BY <2>4, <3>2, <3>3, SameInterval
  <2>9. /\ DOMAIN (t \o part) = 1 .. end + k
        /\ \A p \in 1 .. end + k : (t \o part)[p] = w[p]
    <3>1. \A p \in 1 .. end : t[p] = w[p]
      BY <2>3
    <3>2. \A p \in 1 .. k : part[p] = w[end + p]
      OBVIOUS
    <3> HIDE DEF t, part, end
    <3>3. /\ DOMAIN (t \o part) = 1 .. end + k
          /\ \A p \in 1 .. end + k :
               (t \o part)[p] = IF p <= end THEN t[p] ELSE part[p - end]
      <4>1. t \o part \in Seq(S) /\ Len(t \o part) = end + k
        BY <2>7, <2>8, ConcatProperties
      <4>2. DOMAIN (t \o part) = 1 .. end + k
        BY <4>1, LenProperties
      <4> QED
        BY <2>7, <2>8, <4>2, ConcatProperties
    <3>4. ASSUME NEW p \in 1 .. end + k
          PROVE  (t \o part)[p] = w[p]
      <4>1. CASE p <= end
        <5>1. p \in 1 .. end
          BY <2>4, <4>1
        <5> QED
          BY <3>1, <3>3, <4>1, <5>1
      <4>2. CASE ~(p <= end)
        <5>1. p - end \in 1 .. k /\ end + (p - end) = p
          BY <2>4, <4>2
        <5>2. (t \o part)[p] = part[p - end]
          BY <3>3, <4>2
        <5> QED
          BY <3>2, <5>1, <5>2
      <4> QED
        BY <4>1, <4>2
    <3> QED
      BY <3>3, <3>4
  <2>10. t \o part = [p \in 1 .. end + k |-> w[p]]
    <3> HIDE DEF t, part, end
    <3>1. t \o part \in Seq(S)
      BY <2>7, ConcatProperties
    <3>2. t \o part \in [1 .. Len(t \o part) -> S]
      BY <3>1, LenProperties
    <3> QED
      BY <2>9, <3>2
  <2>11. Prefix(m + 1)
    <3> HIDE DEF t, part, end
    <3> QED
      BY <2>4, <2>6, <2>10
  <2> HIDE DEF Prefix
  <2> QED
    BY <2>11
<1>6. T = Nat
  <2>1. T \in SUBSET Nat
    OBVIOUS
  <2> HIDE DEF T
  <2> QED
    BY <1>4, <1>5, <2>1, SetInduction
<1>7. Prefix(d)
  <2>1. d - 1 \in Nat /\ (d - 1) + 1 = d /\ d <= d
    OBVIOUS
  <2>2. d - 1 \in T
    BY <1>6, <2>1
  <2> HIDE DEF Prefix
  <2> QED
    BY <2>1, <2>2
<1>8. w = [p \in 1 .. N |-> w[p]]
  OBVIOUS
<1> QED
  BY <1>3, <1>7, <1>8 DEF s

\* Sorting a set of rows lists each of them once.
LEMMA InOrderLists ==
  ASSUME NEW n \in Nat, NEW S \in SUBSET (1 .. n)
  PROVE  /\ InOrder(S) \in Seq(S) /\ IsFiniteSet(S)
         /\ \A i, j \in 1 .. Len(InOrder(S)) : InOrder(S)[i] = InOrder(S)[j] => i = j
         /\ \A p \in S : \E i \in 1 .. Len(InOrder(S)) : InOrder(S)[i] = p
<1> DEFINE below(p) == {q \in S : q < p}
           k == Cardinality(S)
           f == [p \in S |-> Cardinality(below(p)) + 1]
<1>1. IsFiniteSet(S) /\ k \in Nat
  <2>1. IsFiniteSet(1 .. n)
    BY FS_Interval
  <2> QED
    BY <2>1, FS_Subset, FS_CardinalityType
<1>2. ASSUME NEW p \in S
      PROVE  IsFiniteSet(below(p)) /\ Cardinality(below(p)) \in Nat /\ Cardinality(below(p)) < k
  <2>1. below(p) \subseteq S /\ below(p) # S
    <3>1. ~(p < p)
      OBVIOUS
    <3> QED
      BY <3>1
  <2> HIDE DEF below
  <2> QED
    BY <1>1, <2>1, FS_Subset, FS_CardinalityType
<1>3. ASSUME NEW p \in S, NEW q \in S, p < q
      PROVE  Cardinality(below(p)) < Cardinality(below(q))
  <2>1. below(p) \subseteq below(q) /\ below(p) # below(q)
    <3>1. p \in below(q) /\ p \notin below(p)
      BY <1>3
    <3>2. \A x \in S : x < p => x < q
      BY <1>3
    <3> QED
      BY <3>1, <3>2
  <2>2. /\ IsFiniteSet(below(q))
        /\ Cardinality(below(p)) \in Nat /\ Cardinality(below(q)) \in Nat
    BY <1>2
  <2> HIDE DEF below
  <2>3. Cardinality(below(p)) <= Cardinality(below(q)) /\ Cardinality(below(p)) # Cardinality(below(q))
    BY <2>1, <2>2, FS_Subset
  <2> QED
    BY <2>2, <2>3
<1>4. f \in Injection(S, 1 .. k)
  <2>1. \A p \in S : Cardinality(below(p)) + 1 \in 1 .. k
    <3> HIDE DEF below, k
    <3> QED
      BY <1>1, <1>2
  <2>2. \A p, q \in S : f[p] = f[q] => p = q
    <3> SUFFICES ASSUME NEW p \in S, NEW q \in S, f[p] = f[q], p # q
                 PROVE  FALSE
      OBVIOUS
    <3>1. p < q \/ q < p
      OBVIOUS
    <3>2. Cardinality(below(p)) \in Nat /\ Cardinality(below(q)) \in Nat
      BY <1>2
    <3>3. Cardinality(below(p)) + 1 = Cardinality(below(q)) + 1
      <4> HIDE DEF below
      <4> QED
        OBVIOUS
    <3> HIDE DEF below, f
    <3> QED
      BY <1>3, <3>1, <3>2, <3>3
  <2> HIDE DEF below, k
  <2> QED
    BY <2>1, <2>2 DEF Injection, IsInjective
<1>5. f \in Surjection(S, 1 .. k)
  <2>1. IsFiniteSet(1 .. k) /\ Cardinality(1 .. k) = k
    <3> HIDE DEF k
    <3>1. 1 \in Int /\ k \in Int
      BY <1>1
    <3> QED
      BY <1>1, <3>1, FS_Interval
  <2> HIDE DEF f
  <2> QED
    BY <1>1, <1>4, <2>1, FS_Injection
<1> DEFINE t == InOrder(S)
<1>6. t = [i \in 1 .. k |-> CHOOSE p \in S : Cardinality(below(p)) = i - 1]
  BY DEF InOrder
<1>7. ASSUME NEW i \in 1 .. k
      PROVE  t[i] \in S /\ f[t[i]] = i
  <2>1. PICK p \in S : f[p] = i
    BY <1>5 DEF Surjection
  <2>2. Cardinality(below(p)) \in Nat /\ Cardinality(below(p)) + 1 = i
    <3>1. f[p] = Cardinality(below(p)) + 1
      OBVIOUS
    <3> HIDE DEF below, f
    <3> QED
      BY <1>2, <2>1, <3>1
  <2>3. Cardinality(below(p)) = i - 1
    <3> HIDE DEF below
    <3> QED
      BY <2>2
  <2> DEFINE c == CHOOSE x \in S : Cardinality(below(x)) = i - 1
  <2>4. c \in S /\ Cardinality(below(c)) = i - 1
    <3> HIDE DEF below
    <3> QED
      BY <2>3
  <2>5. t[i] = c
    <3> HIDE DEF c, below, t, k
    <3> QED
      BY <1>6 DEF c
  <2>6. f[c] = Cardinality(below(c)) + 1
    <3> HIDE DEF c
    <3> QED
      BY <2>4
  <2>7. (i - 1) + 1 = i
    <3> HIDE DEF k
    <3> QED
      BY <1>1
  <2> HIDE DEF t, c, below, f, k
  <2> QED
    BY <2>4, <2>5, <2>6, <2>7
<1>8. DOMAIN t = 1 .. k
  <2> HIDE DEF k, below
  <2> QED
    BY <1>6
<1> HIDE DEF t, k, below
<1>9. t = [i \in 1 .. k |-> t[i]]
  BY <1>6
<1>10. t \in [1 .. k -> S]
  BY <1>7, <1>9
<1>11. t \in Seq(S) /\ Len(t) = k
  BY <1>1, <1>10
<1>12. f \in [S -> 1 .. k] /\ \A p, q \in S : f[p] = f[q] => p = q
  <2> HIDE DEF f
  <2> QED
    BY <1>4 DEF Injection, IsInjective
<1> HIDE DEF f
<1>13. \A p \in S : f[p] \in 1 .. k /\ t[f[p]] = p
  BY <1>7, <1>12
<1>14. \A i, j \in 1 .. k : t[i] = t[j] => i = j
  BY <1>7
<1> QED
  BY <1>1, <1>11, <1>13, <1>14 DEF t

\* A list of the numbers up to n without repetition has length n.
LEMMA ListOfAll ==
  ASSUME NEW n \in Nat, NEW t \in Seq(1 .. n),
         \A p, q \in 1 .. Len(t) : t[p] = t[q] => p = q,
         \A x \in 1 .. n : \E p \in 1 .. Len(t) : t[p] = x
  PROVE  Len(t) = n
<1>1. /\ Len(t) \in Nat /\ t \in [1 .. Len(t) -> 1 .. n]
  BY LenProperties
<1>2. t \in Injection(1 .. Len(t), 1 .. n) /\ t \in Surjection(1 .. Len(t), 1 .. n)
  BY <1>1 DEF Injection, IsInjective, Surjection
<1>3. /\ IsFiniteSet(1 .. n) /\ Cardinality(1 .. n) = n
      /\ Cardinality(1 .. Len(t)) = Len(t)
  <2>1. IsFiniteSet(1 .. n) /\ Cardinality(1 .. n) = IF 1 > n THEN 0 ELSE n - 1 + 1
    BY FS_Interval
  <2>2. Cardinality(1 .. Len(t)) = IF 1 > Len(t) THEN 0 ELSE Len(t) - 1 + 1
    <3>1. 1 \in Int /\ Len(t) \in Int
      BY <1>1
    <3> QED
      BY <3>1, FS_Interval
  <2> QED
    BY <1>1, <2>1, <2>2
<1> QED
  BY <1>2, <1>3, FS_Injection

\* Sets of rows in a sequence, one after the other, each in order.
Listing(g, k) == FlattenSeq([i \in 1 .. k |-> InOrder(g[i])])

LEMMA ListOfSets ==
  ASSUME NEW n \in Nat, NEW k \in Nat \ {0}, NEW g \in [1 .. k -> SUBSET (1 .. n)],
         \A p \in 1 .. n : \E i \in 1 .. k : p \in g[i]
  PROVE  /\ Listing(g, k) \in Seq(1 .. n)
         /\ \A p \in 1 .. n : \E x \in 1 .. Len(Listing(g, k)) : Listing(g, k)[x] = p
         /\ (\A i, j \in 1 .. k : i # j => g[i] \cap g[j] = {}) => Len(Listing(g, k)) = n
<1> DEFINE t == Listing(g, k)
           s == [i \in 1 .. k |-> InOrder(g[i])]
<1>1. ASSUME NEW i \in 1 .. k
      PROVE  /\ s[i] \in Seq(1 .. n) /\ s[i] \in Seq(g[i])
             /\ \A x, y \in 1 .. Len(s[i]) : s[i][x] = s[i][y] => x = y
             /\ \A p \in g[i] : \E x \in 1 .. Len(s[i]) : s[i][x] = p
  <2>1. g[i] \in SUBSET (1 .. n) /\ s[i] = InOrder(g[i])
    OBVIOUS
  <2>2. /\ s[i] \in Seq(g[i])
        /\ \A x, y \in 1 .. Len(s[i]) : s[i][x] = s[i][y] => x = y
        /\ \A p \in g[i] : \E x \in 1 .. Len(s[i]) : s[i][x] = p
    <3>1. InOrder(g[i]) \in Seq(g[i])
      BY <2>1, InOrderLists
    <3>2. \A x, y \in 1 .. Len(InOrder(g[i])) : InOrder(g[i])[x] = InOrder(g[i])[y] => x = y
      BY <2>1, InOrderLists
    <3>3. \A p \in g[i] : \E x \in 1 .. Len(InOrder(g[i])) : InOrder(g[i])[x] = p
      BY <2>1, InOrderLists
    <3> HIDE DEF s
    <3> QED
      BY <2>1, <3>1, <3>2, <3>3
  <2>3. s[i] \in Seq(1 .. n)
    <3> HIDE DEF s
    <3> QED
      BY <2>1, <2>2
  <2> QED
    BY <2>2, <2>3
<1>2. s \in Seq(Seq(1 .. n)) /\ Len(s) = k
  <2>1. s = [i \in 1 .. k |-> s[i]]
    OBVIOUS
  <2>2. s \in [1 .. k -> Seq(1 .. n)]
    BY <1>1, <2>1
  <2> QED
    BY <2>2
<1>3. t = FlattenSeq(s)
  BY DEF Listing
<1> HIDE DEF s, t
<1>4. ASSUME NEW p \in 1 .. n
      PROVE  t \in Seq(1 .. n) /\ \E x \in 1 .. Len(t) : t[x] = p
  <2>1. PICK i \in 1 .. k : p \in g[i]
    OBVIOUS
  <2>2. PICK j \in 1 .. Len(s[i]) : s[i][j] = p
    BY <1>1, <2>1
  <2>3. Len(s) # 0 /\ i \in 1 .. Len(s)
    BY <1>2
  <2>4. s \in Seq(Seq(1 .. n)) /\ j \in 1 .. Len(s[i])
    BY <1>2
  <2>5. /\ FlattenSeq(s) \in Seq(1 .. n)
        /\ \E x \in 1 .. Len(FlattenSeq(s)) : FlattenSeq(s)[x] = s[i][j]
    BY ONLY <2>3, <2>4, FlattenHas
  <2> QED
    BY <1>3, <2>2, <2>5
<1>5. t \in Seq(1 .. n)
  <2>1. Len(s) # 0
    BY <1>2
  <2>2. PICK f \in [1 .. Len(s) -> Seq(1 .. n)] : FlattenSeq(s) = f[Len(s)]
    BY <1>2, <2>1, Flattened
  <2>3. Len(s) \in 1 .. Len(s)
    BY <1>2
  <2> QED
    BY <1>3, <2>2, <2>3
<1>6. ASSUME \A i, j \in 1 .. k : i # j => g[i] \cap g[j] = {}
      PROVE  \A p, q \in 1 .. Len(t) : t[p] = t[q] => p = q
  <2>1. ASSUME NEW i \in 1 .. k, NEW j \in 1 .. k, i # j,
               NEW x \in 1 .. Len(s[i]), NEW y \in 1 .. Len(s[j])
        PROVE  s[i][x] # s[j][y]
    <3>1. s[i] \in Seq(g[i]) /\ s[j] \in Seq(g[j])
      BY <1>1
    <3>2. s[i][x] \in g[i]
      BY ONLY <3>1, x \in 1 .. Len(s[i]), LenProperties
    <3>3. s[j][y] \in g[j]
      BY ONLY <3>1, y \in 1 .. Len(s[j]), LenProperties
    <3> QED
      BY <1>6, <2>1, <3>2, <3>3
  <2>2. \A i \in 1 .. Len(s) : \A x, y \in 1 .. Len(s[i]) : s[i][x] = s[i][y] => x = y
    BY <1>1, <1>2
  <2>3. Len(s) # 0
    BY <1>2
  <2>4. \A p, q \in 1 .. Len(FlattenSeq(s)) : FlattenSeq(s)[p] = FlattenSeq(s)[q] => p = q
    <3>1. \A i, j \in 1 .. Len(s) : i # j =>
            \A x \in 1 .. Len(s[i]) : \A y \in 1 .. Len(s[j]) : s[i][x] # s[j][y]
      BY <1>2, <2>1
    <3>2. s \in Seq(Seq(1 .. n))
      BY <1>2
    <3> QED
      BY ONLY <2>2, <2>3, <3>1, <3>2, FlattenOnce
  <2> QED
    BY <1>3, <2>4
<1>7. ASSUME \A i, j \in 1 .. k : i # j => g[i] \cap g[j] = {}
      PROVE  Len(t) = n
  <2>1. \A p, q \in 1 .. Len(t) : t[p] = t[q] => p = q
    BY <1>6, <1>7
  <2>2. \A p \in 1 .. n : \E x \in 1 .. Len(t) : t[x] = p
    BY <1>4
  <2> QED
    BY ONLY <1>5, <2>1, <2>2, n \in Nat, ListOfAll
<1> QED
  BY <1>4, <1>5, <1>7 DEF t

-----------------------------------------------------------------------------
(* The way there and back.                                                 *)

\* The states of the controller cover the batch, and so does what becomes of them.
Ordered ==
  /\ heap[Controller] # {} => Covers(Controller)
  /\ phase \in {"infer", "update", "done"} => \A p \in 1 .. Size : \E i \in 1 .. Size : order[i] = p

\* What a rank returns belongs to its rows, in their order.
Answered ==
  /\ out = [r \in Ranks |-> out[r]]
  /\ \A r \in Ranks : at[r] = "micro" => micro[r] = [i \in 1 .. num[r] |-> micro[r][i]]
  /\ phase = "infer" => \A r \in Ranks : at[r] = "returned" => out[r] = Batch(r)
  /\ phase \in {"update", "done"} => result = order

\* An ascending list of the rows has them all.
LEMMA AscendingAll ==
  ASSUME phase # "balance", Types, NEW f, Ascending(Controller, f)
  PROVE  f \in [1 .. Size -> 1 .. Size] /\ \A p \in 1 .. Size : \E i \in 1 .. Size : f[i] = p
<1> DEFINE a == Controller
<1>1. Items(a) = 1 .. Size /\ a \in Processes
  BY SplitAssumption DEF SplitAssumption, Items, Processes, Controller
<1>2. f \in [1 .. Size -> 1 .. Size]
  BY <1>1 DEF Ascending
<1>3. ASSUME NEW p \in 1 .. Size, NEW q \in 1 .. Size, p < q
      PROVE  f[p] # f[q]
  <2>1. Work(a, f[p]) < Work(a, f[q]) \/ f[p] < f[q]
    BY <1>1, <1>3 DEF Ascending
  <2>2. f[p] \in 1 .. Size /\ Work(a, f[p]) \in Nat
    BY <1>1, <1>2, WorkPositive
  <2> QED
    BY <2>1, <2>2
<1>4. \A p, q \in 1 .. Size : f[p] = f[q] => p = q
  <2> SUFFICES ASSUME NEW p \in 1 .. Size, NEW q \in 1 .. Size, f[p] = f[q], p # q
               PROVE  FALSE
    OBVIOUS
  <2>1. p < q \/ q < p
    BY Sizes
  <2> QED
    BY <1>3, <2>1
<1>5. f \in Injection(1 .. Size, 1 .. Size)
  BY <1>2, <1>4 DEF Injection, IsInjective
<1>6. IsFiniteSet(1 .. Size)
  <2>1. 1 \in Int /\ Size \in Int
    BY Sizes
  <2> QED
    BY <2>1, FS_Interval
<1>7. f \in Surjection(1 .. Size, 1 .. Size)
  BY <1>5, <1>6, FS_Injection
<1> QED
  BY <1>2, <1>7 DEF Surjection

LEMMA BalanceCovers ==
  ASSUME Inv, Heaps, Balance
  PROVE  Covers(Controller)'
<1> DEFINE a == Controller
<1>1. phase = "partition" /\ a \in Processes /\ Items(a) = 1 .. Size /\ Parts(a)' = Dp /\ Items(a)' = 1 .. Size
  BY SplitAssumption DEF SplitAssumption, Balance, Items, Parts, Processes, Controller
<1>2. PICK sorted : Ascending(a, sorted) /\ heap' = [heap EXCEPT ![a] = InBlocks(a, Dp, sorted)]
  BY DEF Balance
<1>3. heap'[a] = InBlocks(a, Dp, sorted)
  BY <1>1, <1>2 DEF Heaps
<1>4. /\ sorted \in [1 .. Size -> 1 .. Size]
      /\ \A p \in 1 .. Size : \E i \in 1 .. Size : sorted[i] = p
  BY <1>1, <1>2, AscendingAll DEF Inv
<1>5. Dp \in Nat \ {0} /\ Size \in Nat \ {0} /\ Dp * Chunk = Size /\ Chunk \in Nat /\ Chunk = Size \div Dp
  BY Sizes, SplitAssumption DEF SplitAssumption, Chunk
<1>6. Cardinality(Items(a)) = Size
  <2>1. 1 \in Int /\ Size \in Int
    BY <1>5
  <2>2. Cardinality(1 .. Size) = Size
    BY <1>5, <2>1, FS_Interval
  <2> QED
    BY <1>1, <2>2
<1> SUFFICES ASSUME NEW p \in 1 .. Size
             PROVE  \E st \in heap'[a] : \E i \in 1 .. Dp : p \in st[i].items
  BY <1>1 DEF Covers
<1>7. PICK m \in 1 .. Size : sorted[m] = p
  BY <1>4
<1> DEFINE b == (m - 1) \div Dp
           c == (m - 1) % Dp
<1>8. m - 1 = Dp * b + c /\ b \in Int /\ c \in 0 .. Dp - 1
  <2>1. m - 1 \in Int
    BY <1>5
  <2> QED
    BY <1>5, <2>1, DivMod
<1> HIDE DEF b, c
<1>9. b \in 0 .. Chunk - 1
  <2>1. b < Chunk
    <3> SUFFICES ASSUME ~(b < Chunk)
                 PROVE  FALSE
      OBVIOUS
    <3>1. Chunk <= b
      BY <1>5, <1>8
    <3>2. Chunk * Dp <= b * Dp
      BY <1>5, <1>8, <3>1, Monotone
    <3>3. Chunk * Dp = Size /\ b * Dp = Dp * b /\ Dp * b \in Int
      BY <1>5, <1>8
    <3> QED
      BY <1>5, <1>8, <3>2, <3>3
  <2>2. b >= 0
    <3> SUFFICES ASSUME ~(b >= 0)
                 PROVE  FALSE
      OBVIOUS
    <3>1. b + 1 <= 0 /\ b + 1 \in Int /\ 0 \in Int
      BY <1>8
    <3>2. (b + 1) * Dp <= 0 * Dp
      BY <1>5, <3>1, Monotone
    <3>3. (b + 1) * Dp = Dp * b + Dp /\ 0 * Dp = 0 /\ Dp * b \in Int
      BY <1>5, <1>8
    <3> QED
      BY <1>5, <1>8, <3>2, <3>3
  <2> QED
    BY <1>5, <1>8, <2>1, <2>2
<1> DEFINE i == Dp - c
           st == [j \in 1 .. Dp |-> Single(a, sorted[b * Dp + Dp + 1 - j])]
<1>10. i \in 1 .. Dp /\ b * Dp + Dp + 1 - i = m
  <2>1. b * Dp = Dp * b /\ Dp * b \in Int
    BY <1>5, <1>8
  <2> QED
    BY <1>5, <1>8, <2>1
<1>11. st \in InBlocks(a, Dp, sorted)
  BY <1>5, <1>6, <1>9 DEF InBlocks
<1>12. p \in st[i].items
  <2> HIDE DEF i
  <2>1. st[i] = Single(a, p)
    BY <1>7, <1>10
  <2> QED
    BY <2>1 DEF Single
<1> QED
  BY <1>3, <1>10, <1>11, <1>12

\* The indices of a rank that has run its micro-batches are its rows, each once,
\* so restoring them gives the rows in their order.
LEMMA RestoredIsBatch ==
  ASSUME Inv, EachRowOnce, Answered, NEW r \in Ranks, at[r] = "micro"
  PROVE  Restored(r) = Batch(r)
<1> DEFINE n == Amount
           k == num[r]
           g == micro[r]
           t == Indices(r)
           B == Batch(r)
<1>1. k \in Nat \ {0} /\ n \in Nat /\ Items(r) = 1 .. n
  <2>1. k \in 1 .. n /\ n \in Nat
    BY Sizes DEF Inv, Counted, Within, Amount
  <2> QED
    BY <2>1, RankFacts DEF Items
<1>2. g = [i \in 1 .. k |-> g[i]] /\ DOMAIN g = 1 .. k
  <2>1. g = [i \in 1 .. k |-> g[i]]
    BY DEF Answered
  <2> HIDE DEF g
  <2> QED
    BY <2>1
<1>3. /\ \A p \in 1 .. n : Cardinality({i \in 1 .. k : p \in g[i]}) = 1
      /\ \A i \in 1 .. k : g[i] \in SUBSET (1 .. n)
  <2>1. /\ \A p \in Items(r) : Cardinality({i \in DOMAIN g : p \in g[i]}) = 1
        /\ \A i \in DOMAIN g : g[i] \subseteq Items(r)
    BY DEF EachRowOnce
  <2> HIDE DEF g, n, k
  <2> QED
    BY <1>1, <1>2, <2>1
<1>4. t = Listing(g, k)
  <2>1. t = FlattenSeq([i \in DOMAIN g |-> InOrder(g[i])])
    BY DEF Indices
  <2> HIDE DEF t, g, k
  <2> QED
    BY <1>2, <2>1 DEF Listing
<1>5. B = [p \in 1 .. n |-> B[p]]
  BY DEF Batch
<1>6. Restored(r) =
        LET back == [p \in DOMAIN t |-> CHOOSE i \in DOMAIN t : t[i] = p]
        IN  [i \in DOMAIN t |-> [j \in DOMAIN t |-> B[t[j]]][back[i]]]
  BY DEF Restored, Outputs
<1> HIDE DEF n, k, g, t, B
<1>7. ASSUME NEW p \in 1 .. n
      PROVE  \E i \in 1 .. k : \A j \in 1 .. k : p \in g[j] <=> j = i
  <2> DEFINE I == {i \in 1 .. k : p \in g[i]}
  <2>1. Cardinality(I) = 1
    BY <1>3
  <2>2. IsFiniteSet(I)
    <3>1. IsFiniteSet(1 .. k)
      BY <1>1, FS_Interval
    <3> QED
      BY <3>1, FS_Subset
  <2>3. PICK i : I = {i}
    <3> HIDE DEF I
    <3> QED
      BY <2>1, <2>2, FS_Singleton
  <2> QED
    BY <2>3
<1>8. g \in [1 .. k -> SUBSET (1 .. n)]
  BY <1>2, <1>3
<1>9. \A p \in 1 .. n : \E i \in 1 .. k : p \in g[i]
  BY <1>7
<1>10. \A i, j \in 1 .. k : i # j => g[i] \cap g[j] = {}
  <2> SUFFICES ASSUME NEW i \in 1 .. k, NEW j \in 1 .. k, i # j, NEW p \in g[i] \cap g[j]
               PROVE  FALSE
    OBVIOUS
  <2>1. p \in 1 .. n
    BY <1>3
  <2> QED
    BY <1>7, <2>1
<1>11. /\ t \in Seq(1 .. n) /\ Len(t) = n
       /\ \A p \in 1 .. n : \E x \in 1 .. Len(t) : t[x] = p
  <2>1. Listing(g, k) \in Seq(1 .. n)
    BY <1>1, <1>8, <1>9, ListOfSets
  <2>2. \A p \in 1 .. n : \E x \in 1 .. Len(Listing(g, k)) : Listing(g, k)[x] = p
    BY <1>1, <1>8, <1>9, ListOfSets
  <2>3. Len(Listing(g, k)) = n
    BY <1>1, <1>8, <1>9, <1>10, ListOfSets
  <2> QED
    BY <1>4, <2>1, <2>2, <2>3
<1>12. DOMAIN t = 1 .. n
  BY <1>11, LenProperties
<1> DEFINE back == [p \in 1 .. n |-> CHOOSE i \in 1 .. n : t[i] = p]
<1>13. ASSUME NEW p \in 1 .. n
       PROVE  back[p] \in 1 .. n /\ t[back[p]] = p
  BY <1>11
<1>14. Restored(r) = [i \in 1 .. n |-> [j \in 1 .. n |-> B[t[j]]][back[i]]]
  BY <1>6, <1>12
<1> HIDE DEF back
<1>15. \A i \in 1 .. n : [j \in 1 .. n |-> B[t[j]]][back[i]] = B[i]
  BY <1>13
<1>16. Restored(r) = [i \in 1 .. n |-> B[i]]
  BY <1>14, <1>15
<1> QED
  BY <1>5, <1>16 DEF B

\* The rows of the ranks, one after the other, are the batch.
LEMMA BatchesAreOrder ==
  ASSUME phase = "infer", order \in [1 .. Size -> 1 .. Size]
  PROVE  FlattenSeq([r \in Ranks |-> Batch(r)]) = order
<1> DEFINE o == [i \in 0 .. Dp |-> i * Chunk]
           s == [r \in Ranks |-> Batch(r)]
<1>1. Dp \in Nat \ {0} /\ Size \in Nat /\ Chunk \in Nat /\ Dp * Chunk = Size
  BY Sizes, SplitAssumption DEF SplitAssumption
<1>2. \A i \in 0 .. Dp : i * Chunk \in 0 .. Size
  <2> SUFFICES ASSUME NEW i \in 0 .. Dp
               PROVE  i * Chunk \in 0 .. Size
    OBVIOUS
  <2>1. i * Chunk <= Dp * Chunk
    BY <1>1, Monotone
  <2>2. i * Chunk \in Nat
    BY <1>1
  <2> QED
    BY <1>1, <2>1, <2>2
<1>3. o \in [0 .. Dp -> 0 .. Size] /\ o[0] = 0 /\ o[Dp] = Size
  BY <1>1, <1>2
<1>4. \A i \in 1 .. Dp : o[i] = o[i - 1] + Chunk
  <2> SUFFICES ASSUME NEW i \in 1 .. Dp
               PROVE  o[i] = o[i - 1] + Chunk
    OBVIOUS
  <2>1. i \in 0 .. Dp /\ i - 1 \in 0 .. Dp
    BY <1>1
  <2>2. i * Chunk = (i - 1) * Chunk + Chunk
    BY <1>1
  <2> QED
    BY <2>1, <2>2
<1>5. s = Slices(order, o, Chunk, Dp)
  <2>1. ASSUME NEW i \in 1 .. Dp
        PROVE  Batch(i) = [p \in 1 .. Chunk |-> order[o[i - 1] + p]]
    <3>1. o[i - 1] = (i - 1) * Chunk
      BY <1>1
    <3>2. First(i) = (i - 1) * Chunk
      <4>1. (i - 1) * Chunk + 0 = (i - 1) * Chunk
        BY <1>1
      <4> QED
        BY <4>1 DEF First
    <3> QED
      BY <3>1, <3>2 DEF Batch, Amount
  <2> HIDE DEF o
  <2> QED
    BY <2>1 DEF Ranks, Slices
<1> HIDE DEF o, s
<1>6. FlattenSeq(s) = order
  <2>1. Dp \in Nat \ {0} /\ Size \in Nat /\ Chunk \in Nat
    BY <1>1
  <2>2. Cuts(o, Chunk, Dp, Size)
    BY <1>3, <1>4 DEF Cuts
  <2>3. FlattenSeq(Slices(order, o, Chunk, Dp)) = order
    BY <2>1, <2>2, FlattenSlices
  <2> QED
    BY <1>5, <2>3
<1> QED
  BY <1>6 DEF s

LEMMA ReorderOrdered ==
  ASSUME Inv, Heaps, Ordered, Reorder
  PROVE  Ordered'
<1> DEFINE a == Controller
<1>1. a \in Processes /\ Items(a) = 1 .. Size /\ Parts(a) = Dp /\ Dp \in Nat \ {0} /\ Size \in Nat
  BY Sizes, SplitAssumption DEF SplitAssumption, Items, Parts, Processes, Controller
<1>2. /\ heap' = [heap EXCEPT ![a] = {}] /\ order' \in [1 .. Size -> 1 .. Size]
      /\ \E st \in heap[a] : /\ Partitioned(a, st)
                             /\ order' = FlattenSeq([i \in 1 .. Dp |-> InOrder(st[i].items)])
  BY DEF Reorder
<1>3. heap'[a] = {}
  BY <1>1, <1>2 DEF Heaps
<1>4. PICK st \in heap[a] : /\ heap[a] = {st}
                            /\ order' = FlattenSeq([i \in 1 .. Dp |-> InOrder(st[i].items)])
  BY <1>2 DEF Partitioned
<1>5. \A p \in 1 .. Size : \E i \in 1 .. Dp : p \in st[i].items
  BY <1>1, <1>4 DEF Ordered, Covers
<1>6. \A i \in 1 .. Dp : st[i].items \in SUBSET (1 .. Size)
  BY <1>1 DEF Heaps, HeapOK, Shape
<1> DEFINE g == [i \in 1 .. Dp |-> st[i].items]
<1>7. order' = Listing(g, Dp)
  <2>1. [i \in 1 .. Dp |-> InOrder(st[i].items)] = [i \in 1 .. Dp |-> InOrder(g[i])]
    OBVIOUS
  <2> HIDE DEF g
  <2> QED
    BY <1>4, <2>1 DEF Listing
<1>8. /\ g \in [1 .. Dp -> SUBSET (1 .. Size)]
      /\ \A p \in 1 .. Size : \E i \in 1 .. Dp : p \in g[i]
  BY <1>5, <1>6
<1> HIDE DEF g
<1>9. /\ Listing(g, Dp) \in Seq(1 .. Size)
      /\ \A p \in 1 .. Size : \E x \in 1 .. Len(Listing(g, Dp)) : Listing(g, Dp)[x] = p
  BY <1>1, <1>8, ListOfSets
<1>10. DOMAIN Listing(g, Dp) = 1 .. Len(Listing(g, Dp))
  BY <1>9, LenProperties
<1>11. 1 .. Len(Listing(g, Dp)) = 1 .. Size
  BY <1>2, <1>7, <1>10
<1>12. \A p \in 1 .. Size : \E x \in 1 .. Size : order'[x] = p
  BY <1>7, <1>9, <1>11
<1> QED
  BY <1>3, <1>12 DEF Ordered

LEMMA OrderedFrame ==
  ASSUME Ordered, heap'[Controller] = heap[Controller], order' = order,
         phase' \in {"infer", "update", "done"} => phase \in {"infer", "update", "done"}
  PROVE  Ordered'
<1>1. Covers(Controller) => Covers(Controller)'
  BY DEF Covers, Items, Parts
<1> QED
  BY <1>1 DEF Ordered

LEMMA NextOrdered ==
  ASSUME Inv, Heaps, Ordered, [Next]_vars
  PROVE  Ordered'
<1>0. Controller \in Processes
  BY SplitAssumption DEF SplitAssumption, Processes, Controller
<1>1. CASE Upsample
  BY <1>1, OrderedFrame DEF Upsample
<1>2. CASE Balance
  <2>1. Covers(Controller)'
    BY <1>2, BalanceCovers
  <2>2. phase' = "partition"
    BY <1>2 DEF Balance, controller
  <2> QED
    BY <2>1, <2>2 DEF Ordered
<1>3. CASE Reorder
  BY <1>3, ReorderOrdered
<1>4. CASE Collect
  BY <1>4, OrderedFrame DEF Collect
<1>5. CASE Collective
  BY <1>5, OrderedFrame DEF Collective, Reduce, Forward, controller
<1>6. ASSUME NEW r \in Ranks, RankStep(r)
      PROVE  Ordered'
  <2>1. UNCHANGED controller /\ (heap' = heap \/ \E x : heap' = [heap EXCEPT ![r] = x])
    BY <1>6 DEF RankStep, Count, Split, Arrange, Return, NextUpdate
  <2>2. heap'[Controller] = heap[Controller]
    BY <1>0, <2>1, RankFacts DEF Heaps
  <2> QED
    BY <2>1, <2>2, OrderedFrame DEF controller
<1>7. ASSUME NEW a \in Processes, Merge(a)
      PROVE  Ordered'
  <2>1. UNCHANGED controller /\ heap[a] # {} /\ \E x : heap' = [heap EXCEPT ![a] = x]
    BY <1>7 DEF Merge
  <2>2. CASE a = Controller
    <3>1. Covers(a)'
      BY <1>7, <2>1, <2>2, MergeCovers DEF Ordered
    <3>2. phase' = "partition"
      BY <1>0, <2>1, <2>2 DEF Heaps, HeapOK, Partitioning, controller
    <3> QED
      BY <2>2, <3>1, <3>2 DEF Ordered
  <2>3. CASE a # Controller
    <3>1. heap'[Controller] = heap[Controller]
      BY <1>0, <2>1, <2>3 DEF Heaps
    <3> QED
      BY <2>1, <3>1, OrderedFrame DEF controller
  <2> QED
    BY <2>2, <2>3
<1>8. CASE UNCHANGED vars
  BY <1>8, OrderedFrame DEF vars, controller
<1> QED
  BY <1>1, <1>2, <1>3, <1>4, <1>5, <1>6, <1>7, <1>8 DEF Next, ControllerStep

\* What a rank has is left alone while its rows and its micro-batches are.
LEMMA AnsweredFrame ==
  ASSUME Answered, UNCHANGED <<phase, order, result, job>>,
         out' = [r \in Ranks |-> out'[r]],
         \A r \in Ranks : at'[r] = "micro" => micro'[r] = [i \in 1 .. num'[r] |-> micro'[r][i]],
         \A r \in Ranks : phase = "infer" /\ at'[r] = "returned" =>
           (at[r] = "returned" /\ out'[r] = out[r]) \/ out'[r] = Batch(r)
  PROVE  Answered'
<1>1. \A r \in Ranks : Batch(r)' = Batch(r)
  BY DEF Batch, First, Amount
<1> QED
  BY <1>1 DEF Answered

LEMMA CollectAnswered ==
  ASSUME Inv, Answered, Collect
  PROVE  Answered'
<1>1. UNCHANGED <<order, num, micro, out>> /\ \A r \in Ranks : at[r] = "returned"
  BY DEF Collect
<1>2. CASE phase = "infer"
  <2>1. result' = FlattenSeq(out) /\ phase' = "update" /\ at' = [r \in Ranks |-> "count"]
    BY <1>2 DEF Collect
  <2>2. out = [r \in Ranks |-> Batch(r)]
    BY <1>1, <1>2 DEF Answered
  <2>3. FlattenSeq([r \in Ranks |-> Batch(r)]) = order
    BY <1>2, BatchesAreOrder DEF Inv, Types, TypeOK
  <2>4. result' = order
    BY <2>1, <2>2, <2>3
  <2> QED
    BY <1>1, <2>1, <2>4 DEF Answered
<1>3. CASE phase # "infer"
  <2>1. phase = "update" /\ phase' = "done" /\ result' = result /\ at' = at
    BY <1>3 DEF Collect
  <2> QED
    BY <1>1, <2>1 DEF Answered
<1> QED
  BY <1>2, <1>3

LEMMA NextAnswered ==
  ASSUME Inv, EachRowOnce, Answered, [Next]_vars
  PROVE  Answered'
<1>1. CASE Upsample \/ Balance \/ Reorder
  <2>1. phase \in {"balance", "partition"} /\ phase' \notin {"update", "done"} /\ UNCHANGED rank
    BY <1>1 DEF Upsample, Balance, Reorder, controller
  <2>2. \A r \in Ranks : at'[r] = "count"
    BY <2>1 DEF Inv, Calls, rank
  <2> QED
    BY <2>1, <2>2 DEF Answered, rank
<1>2. CASE Collect
  BY <1>2, CollectAnswered
<1>3. CASE Reduce
  <2>1. UNCHANGED <<phase, order, result, job, out>> /\ \A r \in Ranks : at'[r] = "split"
    BY <1>3 DEF Reduce, controller
  <2> QED
    BY <2>1, AnsweredFrame DEF Answered
<1>4. CASE Forward
  <2>1. UNCHANGED <<phase, order, result, job, out, at, micro, num>>
    BY <1>4 DEF Forward, controller
  <2> QED
    BY <2>1, AnsweredFrame DEF Answered
<1>5. ASSUME NEW r \in Ranks, Count(r) \/ Split(r)
      PROVE  Answered'
  <2>1. /\ UNCHANGED <<phase, order, result, job, out, micro>>
        /\ at'[r] \notin {"micro", "returned"}
        /\ \A s \in Ranks : s # r => at'[s] = at[s] /\ num'[s] = num[s]
    BY <1>5 DEF Count, Split, controller, Inv, Types, TypeOK
  <2> QED
    BY <2>1, AnsweredFrame DEF Answered
<1>6. ASSUME NEW r \in Ranks, Arrange(r)
      PROVE  Answered'
  <2>1. /\ UNCHANGED <<phase, order, result, job, out, num>>
        /\ at'[r] = "micro"
        /\ \A s \in Ranks : s # r => at'[s] = at[s] /\ micro'[s] = micro[s]
    BY <1>6 DEF Arrange, controller, Inv, Types, TypeOK
  <2>2. PICK st : micro' = [micro EXCEPT ![r] = [i \in 1 .. num[r] |-> st[ToEnds(i, num[r])].items]]
    BY <1>6 DEF Arrange
  <2>3. micro'[r] = [i \in 1 .. num[r] |-> st[ToEnds(i, num[r])].items]
    BY <2>2 DEF Inv, Types
  <2>4. micro'[r] = [i \in 1 .. num[r] |-> micro'[r][i]]
    BY <2>3
  <2> QED
    BY <2>1, <2>4, AnsweredFrame DEF Answered
<1>7. ASSUME NEW r \in Ranks, Return(r)
      PROVE  Answered'
  <2>1. /\ UNCHANGED <<phase, order, result, job, num, micro>>
        /\ at[r] = "micro" /\ at'[r] = "returned"
        /\ \A s \in Ranks : s # r => at'[s] = at[s]
        /\ out' = [out EXCEPT ![r] = IF phase = "infer" THEN Restored(r) ELSE @]
    BY <1>7 DEF Return, HasRun, controller, Inv, Types, TypeOK
  <2>2. out' = [s \in Ranks |-> out'[s]] /\ \A s \in Ranks : s # r => out'[s] = out[s]
    BY <2>1 DEF Answered
  <2>3. phase = "infer" => out'[r] = Batch(r)
    BY <2>1, RestoredIsBatch DEF Answered
  <2> QED
    BY <2>1, <2>2, <2>3, AnsweredFrame DEF Answered
<1>8. ASSUME NEW r \in Ranks, NextUpdate(r)
      PROVE  Answered'
  <2>1. /\ UNCHANGED <<phase, order, result, num, micro, out>> /\ phase = "update"
        /\ at'[r] = "count" /\ \A s \in Ranks : s # r => at'[s] = at[s]
    BY <1>8 DEF NextUpdate, controller, Inv, Types, TypeOK
  <2> QED
    BY <2>1 DEF Answered
<1>9. CASE (\E a \in Processes : Merge(a)) \/ UNCHANGED vars
  <2>1. UNCHANGED <<phase, order, result, job, out, at, micro, num>>
    BY <1>9 DEF Merge, vars, controller, rank
  <2> QED
    BY <2>1, AnsweredFrame DEF Answered
<1> QED
  BY <1>1, <1>2, <1>3, <1>4, <1>5, <1>6, <1>7, <1>8, <1>9
  DEF Next, ControllerStep, Collective, RankStep

\* The outputs the controller gets are those of its rows, in the order of the
\* batch, which has every row once: through dispatch, micro-batches of any
\* shape, their reordering and its inverse, and collection.
THEOREM RoundTripCorrect == Spec => []RoundTrip
<1>1. Init => Ordered /\ Answered
  BY SplitAssumption DEF SplitAssumption, Init, Ordered, Answered, Processes, Controller
<1>2. Inv /\ Ordered /\ Answered => RoundTrip
  <2> SUFFICES ASSUME Inv, Ordered, Answered, phase \in {"update", "done"}
               PROVE  result = order /\ Len(order) = Size /\ ToSet(order) = 1 .. Size
    BY DEF RoundTrip
  <2>1. order \in [1 .. Size -> 1 .. Size] /\ \A p \in 1 .. Size : \E i \in 1 .. Size : order[i] = p
    BY DEF Inv, Types, TypeOK, Ordered
  <2>2. Len(order) = Size
    BY <2>1, Sizes
  <2>3. ToSet(order) = 1 .. Size
    BY <2>1 DEF ToSet
  <2> QED
    BY <2>2, <2>3 DEF Answered
<1> QED
  BY HeapsCorrect, NextOrdered, NextAnswered, <1>1, <1>2, PTL DEF Spec
=============================================================================
