------------------------ MODULE WeightTransfer_proofs ------------------------
(***************************************************************************)
(* That no buffer is written while it is read, and that every vLLM process *)
(* loads all weights in order and whole, for any number of workers,        *)
(* weights and sizes.                                                      *)
(*                                                                         *)
(* A worker is in possession of one of its buffers, read_buf, and          *)
(* everything it still has to read is in that one (Owned); it gives it     *)
(* away only in TakeBucket, which finds nothing left to read.              *)
(*                                                                         *)
(* What has to be loaded is followed backwards along the stages, from      *)
(* "loaded" over the shared buffer, the weight in hand and the chunks not  *)
(* yielded to the bucket received, the one broadcast and the one filled:   *)
(* each stage ends at the position in the weights at which the one before  *)
(* it begins, and what a stage will be asked for is in its buffer or in a  *)
(* copy not done yet that reads from a buffer still in place (WholeInv).   *)
(*                                                                         *)
(* The bucket marked as the last ends every stage in turn (EndInv): nobody *)
(* ends with weights missing, and somebody can go on until all have ended. *)
(***************************************************************************)
EXTENDS WeightTransfer, SequenceTheorems, TLAPS

-----------------------------------------------------------------------------
(* Types, by the process that has the variables.  A chunk lies within its  *)
(* buffer, and a weight that fits into a buffer is not cut: without these  *)
(* two a copy could reach past the end.                                    *)

CutChunk == {c \in Chunk : /\ c.at + c.size <= BucketSize
                           /\ ~Large(c.w) => c.from = 0 /\ c.size = Sizes[c.w]}
CutBucket == [meta : Seq(CutChunk), is_last : BOOLEAN]
CutCopy   == {c \in Copy : c.from + c.size <= BucketSize}
HandSet   == {h \in [w : 0 .. Len(Sizes), buf : {1, 2}, at : Slots] :
                h.w # 0 /\ ~Large(h.w) => h.at + Sizes[h.w] <= BucketSize}
Op      == [stage : {"none", "running", "joined", "complete"}, buf : {1, 2}, bucket : CutBucket]
Buffers == [{1, 2} -> [Slots -> Unit]]
Req     == [stage : {"closed", "none", "sent", "replied", "over"},
            meta : Seq(Entry), is_last : BOOLEAN, done : Nat]

TrainerType ==
  /\ split \in [w : Nat \ {0}, from : Nat]
  /\ More => split.from < Sizes[split.w] /\ (~Large(split.w) => split.from = 0)
  /\ bucket_meta \in Seq(CutChunk) /\ offset \in 0 .. BucketSize
  /\ send_buf \in {1, 2} /\ sending \in BOOLEAN
LinkType ==
  /\ op \in [Ranks -> Op] /\ topic \in [Workers -> Seq(CutBucket)]
  /\ mem \in [Ranks -> Buffers]
ReceiverType ==
  /\ read_buf \in [Workers -> {1, 2}] /\ todo \in [Workers -> Seq(CutChunk)]
  /\ last \in [Workers -> BOOLEAN]
  /\ merging \in [Workers -> [w : 0 .. Len(Sizes), at : Nat]]
  /\ copies \in [Workers -> Seq(CutCopy)]
SenderType ==
  /\ hand \in [Workers -> HandSet]
  /\ ipc \in [Workers -> [Slots -> Unit]] /\ ipc_meta \in [Workers -> Seq(Entry)]
  /\ ipc_offset \in [Workers -> 0 .. BucketSize]
RequestType == request \in [Workers -> Req]

Types == TrainerType /\ LinkType /\ ReceiverType /\ SenderType /\ RequestType

USE TransferAssumption

\* More elements in the set, more sequences.
LEMMA SeqLarger == ASSUME NEW S, NEW T, S \subseteq T PROVE Seq(S) \subseteq Seq(T)
  OBVIOUS

LEMMA TypesGiveTypeOK == Types => TypeOK
<1> SUFFICES ASSUME Types PROVE TypeOK OBVIOUS
<1>1. CutChunk \subseteq Chunk /\ CutCopy \subseteq Copy BY DEF CutChunk, CutCopy
<1>2. Seq(CutChunk) \subseteq Seq(Chunk) /\ Seq(CutCopy) \subseteq Seq(Copy)
  BY <1>1, SeqLarger
<1>3. CutBucket \subseteq Bucket BY <1>2 DEF CutBucket, Bucket
<1>4. Seq(CutBucket) \subseteq Seq(Bucket) BY <1>3, SeqLarger
<1>5. op \in [Ranks -> [stage : {"none", "running", "joined", "complete"},
                        buf : {1, 2}, bucket : Bucket]]
  BY <1>3 DEF Types, LinkType, Op
<1>6. topic \in [Workers -> Seq(Bucket)]
  BY <1>4 DEF Types, LinkType
<1>7. mem \in [Ranks -> [{1, 2} -> [Slots -> Unit]]]
  BY DEF Types, LinkType, Buffers
<1>8. todo \in [Workers -> Seq(Chunk)] /\ copies \in [Workers -> Seq(Copy)]
  BY <1>2 DEF Types, ReceiverType
<1>9. hand \in [Workers -> [w : 0 .. Len(Sizes), buf : {1, 2}, at : Slots]]
  BY DEF Types, SenderType, HandSet
<1>10. request \in [Workers -> [stage : {"closed", "none", "sent", "replied", "over"},
                                meta : Seq(Entry), is_last : BOOLEAN, done : Nat]]
  BY DEF Types, RequestType, Req
<1>11. bucket_meta \in Seq(Chunk) BY <1>2 DEF Types, TrainerType
<1>12. /\ split \in [w : Nat \ {0}, from : Nat] /\ offset \in 0 .. BucketSize
       /\ send_buf \in {1, 2} /\ sending \in BOOLEAN
  BY DEF Types, TrainerType
<1>13. /\ read_buf \in [Workers -> {1, 2}] /\ last \in [Workers -> BOOLEAN]
       /\ merging \in [Workers -> [w : 0 .. Len(Sizes), at : Nat]]
  BY DEF Types, ReceiverType
<1>14. /\ ipc \in [Workers -> [Slots -> Unit]] /\ ipc_meta \in [Workers -> Seq(Entry)]
       /\ ipc_offset \in [Workers -> 0 .. BucketSize]
  BY DEF Types, SenderType
<1> QED
  <2> HIDE DEF Types
  <2> QED BY <1>5, <1>6, <1>7, <1>8, <1>9, <1>10, <1>11, <1>12, <1>13, <1>14 DEF TypeOK

LEMMA TypesInit == Init => Types
<1> SUFFICES ASSUME Init PROVE Types OBVIOUS
<1>1. 0 \in Slots /\ BucketSize \in Nat \ {0} /\ Len(Sizes) \in Nat BY DEF Slots
<1>2. TrainerType
  <2>1. 1 <= Len(Sizes) => Sizes[1] \in Nat \ {0} OBVIOUS
  <2>2. split = [w |-> 1, from |-> 0] /\ split.w = 1 /\ split.from = 0 BY DEF Init
  <2>3. More => split.from < Sizes[split.w] /\ (~Large(split.w) => split.from = 0)
    BY <1>1, <2>1, <2>2 DEF More
  <2>4. bucket_meta = <<>> /\ offset = 0 /\ send_buf = 1 /\ sending = FALSE BY DEF Init
  <2>5. 0 \in 0 .. BucketSize /\ 1 \in Nat \ {0} /\ bucket_meta \in Seq(CutChunk)
    BY <1>1, <2>4
  <2>6. split \in [w : Nat \ {0}, from : Nat] BY <2>2
  <2> HIDE DEF More
  <2> QED BY <2>3, <2>4, <2>5, <2>6 DEF TrainerType
<1>3. NoBucket \in CutBucket BY DEF NoBucket, CutBucket
<1>4. Empty \in Unit BY <1>1 DEF Empty, Unit
<1>5. LinkType
  <2>1. op \in [Ranks -> Op] BY <1>3 DEF Init, Op
  <2>2. topic \in [Workers -> Seq(CutBucket)] BY DEF Init
  <2>3. mem \in [Ranks -> Buffers] BY <1>4 DEF Init, Buffers
  <2> QED BY <2>1, <2>2, <2>3 DEF LinkType
<1>6. ReceiverType BY <1>1 DEF Init, ReceiverType, NoWeight
<1>7. SenderType
  <2>1. NoHand \in HandSet BY <1>1 DEF NoHand, HandSet
  <2> QED BY <1>1, <1>4, <2>1 DEF Init, SenderType
<1>8. RequestType BY DEF Init, RequestType, Req
<1> QED BY <1>2, <1>5, <1>6, <1>7, <1>8 DEF Types

-----------------------------------------------------------------------------
(* Every action keeps the types. *)

\* What the trainer knows of the chunk it comes to next.
LEMMA NextChunkCut ==
  ASSUME TrainerType, More, offset + NextChunk.size <= BucketSize
  PROVE  NextChunk \in CutChunk
<1>1. split.w \in Weights BY DEF TrainerType, More, Weights
<1>2. Sizes[split.w] \in Nat \ {0} BY <1>1 DEF Weights
<1>3. split.from \in Nat /\ split.from < Sizes[split.w] /\ offset \in Nat /\ BucketSize \in Nat \ {0}
  BY DEF TrainerType
<1> DEFINE n == ChunkSize(Sizes[split.w] - split.from)
<1>4. n \in 1 .. BucketSize /\ n <= Sizes[split.w] - split.from
  BY <1>2, <1>3 DEF ChunkSize, Smaller
<1>5. NextChunk = [w |-> split.w, from |-> split.from, size |-> n, at |-> offset] BY DEF NextChunk
<1>6. offset + n <= BucketSize BY <1>5
<1>7. offset \in Slots BY <1>3, <1>4, <1>6 DEF Slots
<1>8. ~Large(split.w) => split.from = 0 /\ n = Sizes[split.w]
  BY <1>2, <1>3 DEF TrainerType, Large, ChunkSize, Smaller
<1> HIDE DEF n
<1>9. NextChunk \in Chunk BY <1>1, <1>3, <1>4, <1>5, <1>7 DEF Chunk
<1> QED BY <1>5, <1>6, <1>8, <1>9 DEF CutChunk

LEMMA OperationType ==
  ASSUME NEW buf \in {1, 2}, NEW bucket \in CutBucket PROVE Operation(buf, bucket) \in Op
  BY DEF Operation, Op

LEMMA NoBucketType == NoBucket \in CutBucket
  BY DEF NoBucket, CutBucket

LEMMA SendBucketTypes == ASSUME Types, SendBucket PROVE Types'
<1>1. [meta |-> bucket_meta, is_last |-> FALSE] \in CutBucket
  BY DEF Types, TrainerType, CutBucket
<1>2. send_buf \in {1, 2} BY DEF Types, TrainerType
<1>3. op' \in [Ranks -> Op]
  BY <1>1, <1>2, OperationType DEF SendBucket, Types, LinkType
<1>4. Other(send_buf) \in {1, 2} BY <1>2 DEF Other
<1>5. TrainerType' BY <1>4 DEF Types, TrainerType, SendBucket, More
<1>6. LinkType' BY <1>3 DEF Types, LinkType, SendBucket
<1>7. UNCHANGED <<receiver, sender, request>> BY DEF SendBucket
<1>8. ReceiverType' /\ SenderType' /\ RequestType'
  BY <1>7 DEF Types, ReceiverType, SenderType, RequestType, receiver, sender
<1> QED BY <1>5, <1>6, <1>8 DEF Types

LEMMA SendLastTypes == ASSUME Types, SendLast PROVE Types'
<1>1. [meta |-> bucket_meta, is_last |-> TRUE] \in CutBucket
  BY DEF Types, TrainerType, CutBucket
<1>2. send_buf \in {1, 2} BY DEF Types, TrainerType
<1>3. op' \in [Ranks -> Op]
  BY <1>1, <1>2, OperationType DEF SendLast, Types, LinkType
<1>5. TrainerType' BY DEF Types, TrainerType, SendLast, More
<1>6. LinkType' BY <1>3 DEF Types, LinkType, SendLast
<1>7. UNCHANGED <<receiver, sender, request>> BY DEF SendLast
<1>8. ReceiverType' /\ SenderType' /\ RequestType'
  BY <1>7 DEF Types, ReceiverType, SenderType, RequestType, receiver, sender
<1> QED BY <1>5, <1>6, <1>8 DEF Types

LEMMA FillChunkTypes == ASSUME Types, FillChunk PROVE Types'
<1>1. TrainerType /\ LinkType /\ More /\ offset + NextChunk.size <= BucketSize BY DEF Types, FillChunk
<1>2. NextChunk \in CutChunk BY <1>1, NextChunkCut
<1>3. /\ NextChunk.w = split.w /\ NextChunk.from = split.from /\ NextChunk.at = offset
      /\ NextChunk.size = ChunkSize(Sizes[split.w] - split.from)
  BY DEF NextChunk
<1>4. NextChunk.size \in 1 .. BucketSize BY <1>2 DEF CutChunk, Chunk
<1>5. split.w \in Weights /\ Sizes[split.w] \in Nat \ {0} BY <1>1 DEF TrainerType, More, Weights
<1>6. /\ split \in [w : Nat \ {0}, from : Nat] /\ split.from < Sizes[split.w] /\ offset \in 0 .. BucketSize
      /\ (~Large(split.w) => split.from = 0)
  BY <1>1 DEF TrainerType
<1>7. split' \in [w : Nat \ {0}, from : Nat]
      /\ (More' => split'.from < Sizes[split'.w] /\ (~Large(split'.w) => split'.from = 0))
  <2>1. CASE split.from + NextChunk.size < Sizes[split.w]
    <3>1. split' = [split EXCEPT !.from = @ + NextChunk.size] BY <2>1 DEF FillChunk
    <3>2. split'.w = split.w /\ split'.from = split.from + NextChunk.size /\ split' \in [w : Nat \ {0}, from : Nat]
      BY <3>1, <1>4, <1>6
    <3>3. Large(split.w)
      BY <2>1, <1>3, <1>5, <1>6 DEF Large, ChunkSize, Smaller
    <3> QED BY <2>1, <3>2, <3>3
  <2>2. CASE ~(split.from + NextChunk.size < Sizes[split.w])
    <3>1. split' = [w |-> split.w + 1, from |-> 0] BY <2>2 DEF FillChunk
    <3>2. split'.w = split.w + 1 /\ split'.from = 0 /\ split' \in [w : Nat \ {0}, from : Nat]
      BY <3>1, <1>6
    <3>3. More' => split'.w \in Weights BY <3>2, <1>6 DEF More, Weights
    <3>4. More' => Sizes[split'.w] \in Nat \ {0} BY <3>3 DEF Weights
    <3> QED BY <3>2, <3>4
  <2> QED BY <2>1, <2>2
<1>8. bucket_meta' \in Seq(CutChunk) BY <1>1, <1>2, AppendProperties DEF TrainerType, FillChunk
<1>9. offset' \in 0 .. BucketSize BY <1>1, <1>4, <1>6 DEF FillChunk
<1>10. send_buf' \in {1, 2} /\ sending' \in BOOLEAN BY <1>1 DEF TrainerType, FillChunk
<1>11. TrainerType' BY <1>7, <1>8, <1>9, <1>10 DEF TrainerType
<1>12. mem' \in [Ranks -> Buffers]
  <2>1. send_buf \in {1, 2} /\ mem \in [Ranks -> Buffers] BY <1>1 DEF TrainerType, LinkType
  <2>2. Trainer \in Ranks BY DEF Ranks
  <2>3. mem[Trainer][send_buf] \in [Slots -> Unit] BY <2>1, <2>2 DEF Buffers
  <2>4. ASSUME NEW s \in Slots, s \in NextChunk.at .. NextChunk.at + NextChunk.size - 1
        PROVE  <<NextChunk.w, NextChunk.from + s - NextChunk.at>> \in Unit
    BY <2>4, <1>3, <1>4, <1>5, <1>6 DEF Unit, Slots, Weights
  <2>5. Written(mem[Trainer][send_buf], NextChunk) \in [Slots -> Unit]
    <3> HIDE DEF NextChunk, Unit, Slots
    <3> QED BY <2>3, <2>4 DEF Written
  <2>6. mem' = [mem EXCEPT ![Trainer][send_buf] = Written(mem[Trainer][send_buf], NextChunk)]
    BY DEF FillChunk
  <2> QED BY <2>1, <2>2, <2>5, <2>6 DEF Buffers
<1>13. LinkType' BY <1>1, <1>12 DEF LinkType, FillChunk
<1>14. UNCHANGED <<receiver, sender, request>> BY DEF FillChunk
<1>15. ReceiverType' /\ SenderType' /\ RequestType'
  BY <1>14 DEF Types, ReceiverType, SenderType, RequestType, receiver, sender
<1> QED BY <1>11, <1>13, <1>15 DEF Types

LEMMA PublishTypes == ASSUME Types, Publish PROVE Types'
<1>1. op' \in [Ranks -> Op] BY DEF Publish, Types, LinkType, Op
<1>2. topic' \in [Workers -> Seq(CutBucket)]
  <2>1. op[Trainer].bucket \in CutBucket BY DEF Types, LinkType, Op, Ranks
  <2>2. \A r \in Workers : Append(topic[r], op[Trainer].bucket) \in Seq(CutBucket)
    BY <2>1, AppendProperties DEF Types, LinkType
  <2> QED BY <2>2 DEF Publish
<1>3. LinkType' BY <1>1, <1>2 DEF Types, LinkType, Publish
<1>4. UNCHANGED <<trainer, receiver, sender, request>> BY DEF Publish
<1>5. TrainerType' /\ ReceiverType' /\ SenderType' /\ RequestType'
  BY <1>4 DEF Types, TrainerType, More, ReceiverType, SenderType, RequestType, trainer, receiver, sender
<1> QED BY <1>3, <1>5 DEF Types

LEMMA BroadcastTypes == ASSUME Types, Broadcast PROVE Types'
<1>1. op' \in [Ranks -> Op] BY DEF Broadcast, Types, LinkType, Op
<1>2. mem' \in [Ranks -> Buffers]
  <2>1. Trainer \in Ranks /\ mem \in [Ranks -> Buffers] BY DEF Types, LinkType, Ranks
  <2>2. op[Trainer].buf \in {1, 2} BY <2>1 DEF Types, LinkType, Op
  <2>3. mem[Trainer][op[Trainer].buf] \in [Slots -> Unit] BY <2>1, <2>2 DEF Buffers
  <2>4. \A p \in Ranks : [mem[p] EXCEPT ![op[p].buf] = mem[Trainer][op[Trainer].buf]] \in Buffers
    BY <2>1, <2>3 DEF Buffers
  <2> QED BY <2>4 DEF Broadcast
<1>3. LinkType' BY <1>1, <1>2 DEF Types, LinkType, Broadcast
<1>4. UNCHANGED <<trainer, receiver, sender, request>> BY DEF Broadcast
<1>5. TrainerType' /\ ReceiverType' /\ SenderType' /\ RequestType'
  BY <1>4 DEF Types, TrainerType, More, ReceiverType, SenderType, RequestType, trainer, receiver, sender
<1> QED BY <1>3, <1>5 DEF Types

LEMMA GetMetadataTypes == ASSUME Types, NEW r \in Workers, GetMetadata(r) PROVE Types'
<1>1. topic[r] \in Seq(CutBucket) /\ topic[r] # <<>> BY DEF Types, LinkType, GetMetadata
<1>2. Head(topic[r]) \in CutBucket /\ Tail(topic[r]) \in Seq(CutBucket)
  BY <1>1, HeadTailProperties
<1>3. op' \in [Ranks -> Op]
  <2>1. op[r] \in Op /\ r \in Ranks BY DEF Types, LinkType, Ranks
  <2>2. [op[r] EXCEPT !.stage = "joined", !.bucket = Head(topic[r])] \in Op
    BY <2>1, <1>2 DEF Op
  <2>3. op' = [op EXCEPT ![r] = [op[r] EXCEPT !.stage = "joined", !.bucket = Head(topic[r])]]
    BY <2>1 DEF GetMetadata, Types, LinkType
  <2> QED BY <2>1, <2>2, <2>3 DEF Types, LinkType
<1>4. topic' \in [Workers -> Seq(CutBucket)] BY <1>2 DEF GetMetadata, Types, LinkType
<1>5. LinkType' BY <1>3, <1>4 DEF Types, LinkType, GetMetadata
<1>6. UNCHANGED <<trainer, receiver, sender, request>> BY DEF GetMetadata
<1>7. TrainerType' /\ ReceiverType' /\ SenderType' /\ RequestType'
  BY <1>6 DEF Types, TrainerType, More, ReceiverType, SenderType, RequestType, trainer, receiver, sender
<1> QED BY <1>5, <1>7 DEF Types

\* The trainer is not touched by the steps of a worker.
LEMMA TrainerKept == ASSUME TrainerType, UNCHANGED trainer PROVE TrainerType'
  BY DEF TrainerType, trainer, More

LEMMA ConnectTypes == ASSUME Types, NEW r \in Workers, Connect(r) PROVE Types'
<1>1. read_buf[r] \in {1, 2} BY DEF Types, ReceiverType
<1>2. Operation(Other(read_buf[r]), NoBucket) \in Op
  BY <1>1, OperationType, NoBucketType DEF Other
<1>3. LinkType' BY <1>2 DEF Types, LinkType, Connect
<1>4. RequestType' BY DEF Types, RequestType, Req, Connect
<1>5. UNCHANGED <<trainer, receiver, sender>> BY DEF Connect
<1>6. ReceiverType' /\ SenderType' BY <1>5 DEF Types, ReceiverType, SenderType, receiver, sender
<1> QED BY <1>3, <1>4, <1>5, <1>6, TrainerKept DEF Types

LEMMA TakeBucketTypes == ASSUME Types, NEW r \in Workers, TakeBucket(r) PROVE Types'
<1>1. read_buf[r] \in {1, 2} BY DEF Types, ReceiverType
<1>2. Operation(read_buf[r], NoBucket) \in Op /\ Other(read_buf[r]) \in {1, 2}
  BY <1>1, OperationType, NoBucketType DEF Other
<1>3. op[r] \in Op BY DEF Types, LinkType, Ranks
<1>4. op[r].bucket.meta \in Seq(CutChunk) /\ op[r].bucket.is_last \in BOOLEAN
  BY <1>3 DEF Op, CutBucket
<1>5. op' \in [Ranks -> Op] BY <1>2 DEF Types, LinkType, TakeBucket
<1>6. LinkType' BY <1>5 DEF Types, LinkType, TakeBucket
<1>7. ReceiverType'
  <2>1. ReceiverType BY DEF Types
  <2>2. read_buf' \in [Workers -> {1, 2}] BY <2>1, <1>2 DEF ReceiverType, TakeBucket
  <2>3. todo' \in [Workers -> Seq(CutChunk)] BY <2>1, <1>4 DEF ReceiverType, TakeBucket
  <2>4. last' \in [Workers -> BOOLEAN] BY <2>1, <1>4 DEF ReceiverType, TakeBucket
  <2> QED BY <2>1, <2>2, <2>3, <2>4 DEF ReceiverType, TakeBucket
<1>8. UNCHANGED <<trainer, sender, request>> BY DEF TakeBucket
<1>9. SenderType' /\ RequestType' BY <1>8 DEF Types, SenderType, RequestType, sender
<1> QED BY <1>6, <1>7, <1>8, <1>9, TrainerKept DEF Types

LEMMA YieldViewTypes == ASSUME Types, NEW r \in Workers, YieldView(r) PROVE Types'
<1>1. todo[r] \in Seq(CutChunk) /\ todo[r] # <<>> BY DEF Types, ReceiverType, YieldView
<1>2. Head(todo[r]) \in CutChunk /\ Tail(todo[r]) \in Seq(CutChunk) BY <1>1, HeadTailProperties
<1>3. read_buf[r] \in {1, 2} BY DEF Types, ReceiverType
<1>4. [w |-> Head(todo[r]).w, buf |-> read_buf[r], at |-> Head(todo[r]).at] \in HandSet
  <2>1. ~Large(Head(todo[r]).w) BY DEF YieldView
  <2> QED BY <1>2, <1>3, <2>1 DEF HandSet, CutChunk, Chunk, Weights
<1>5. hand' \in [Workers -> HandSet] BY <1>4 DEF Types, SenderType, YieldView
<1>6. SenderType' BY <1>5 DEF Types, SenderType, YieldView
<1>7. todo' \in [Workers -> Seq(CutChunk)] BY <1>2 DEF Types, ReceiverType, YieldView
<1>8. ReceiverType' BY <1>7 DEF Types, ReceiverType, YieldView
<1>9. UNCHANGED <<trainer, link, request>> BY DEF YieldView
<1>10. LinkType' /\ RequestType' BY <1>9 DEF Types, LinkType, RequestType, link
<1> QED BY <1>6, <1>8, <1>9, <1>10, TrainerKept DEF Types

LEMMA MergeChunkTypes == ASSUME Types, NEW r \in Workers, MergeChunk(r) PROVE Types'
<1> DEFINE c == Head(todo[r])
<1>1. todo[r] \in Seq(CutChunk) /\ todo[r] # <<>> BY DEF Types, ReceiverType, MergeChunk
<1>2. c \in CutChunk /\ Tail(todo[r]) \in Seq(CutChunk) BY <1>1, HeadTailProperties
<1>3. read_buf[r] \in {1, 2} BY DEF Types, ReceiverType
<1>4. Large(c.w) BY DEF MergeChunk
<1>5. /\ c.w \in 0 .. Len(Sizes) /\ c.from \in Nat /\ c.size \in 1 .. BucketSize /\ c.at \in Slots
      /\ c.at + c.size <= BucketSize
  BY <1>2 DEF CutChunk, Chunk, Weights
<1>6. 0 \in Slots BY DEF Slots
<1>7. SenderType'
  <2>1. [w |-> c.w, buf |-> read_buf[r], at |-> 0] \in HandSet BY <1>3, <1>4, <1>5, <1>6 DEF HandSet
  <2>2. hand' = [hand EXCEPT ![r] = [w |-> c.w, buf |-> read_buf[r], at |-> 0]] \/ hand' = hand
    BY DEF MergeChunk
  <2>3. hand' \in [Workers -> HandSet] BY <2>1, <2>2 DEF Types, SenderType
  <2> QED BY <2>3 DEF Types, SenderType, MergeChunk
<1>8. ReceiverType'
  <2>1. ReceiverType BY DEF Types
  <2>2. todo' \in [Workers -> Seq(CutChunk)] BY <2>1, <1>2 DEF ReceiverType, MergeChunk
  <2>3. copies' \in [Workers -> Seq(CutCopy)]
    <3>1. [buf |-> read_buf[r], from |-> c.at, size |-> c.size, to |-> "tensor", at |-> c.from] \in CutCopy
      BY <1>3, <1>5 DEF CutCopy, Copy
    <3>2. copies[r] \in Seq(CutCopy) BY <2>1 DEF ReceiverType
    <3>3. Append(copies[r], [buf |-> read_buf[r], from |-> c.at, size |-> c.size,
                             to |-> "tensor", at |-> c.from]) \in Seq(CutCopy)
      BY <3>1, <3>2, AppendProperties
    <3>4. copies' = [copies EXCEPT ![r] = Append(copies[r],
            [buf |-> read_buf[r], from |-> c.at, size |-> c.size, to |-> "tensor", at |-> c.from])]
      BY <2>1 DEF ReceiverType, MergeChunk
    <3> QED BY <2>1, <3>3, <3>4 DEF ReceiverType
  <2>4. merging' \in [Workers -> [w : 0 .. Len(Sizes), at : Nat]]
    <3>1. merging[r] \in [w : 0 .. Len(Sizes), at : Nat] BY <2>1 DEF ReceiverType
    <3> DEFINE n == [w |-> c.w, at |-> (IF merging[r].w = 0 THEN 0 ELSE merging[r].at) + c.size]
    <3>2. n \in [w : 0 .. Len(Sizes), at : Nat] BY <3>1, <1>5
    <3>3. NoWeight \in [w : 0 .. Len(Sizes), at : Nat] BY DEF NoWeight
    <3>4. merging' = [merging EXCEPT ![r] = NoWeight] \/ merging' = [merging EXCEPT ![r] = n]
      BY <2>1 DEF ReceiverType, MergeChunk
    <3> HIDE DEF n
    <3> QED BY <2>1, <3>2, <3>3, <3>4 DEF ReceiverType
  <2> QED BY <2>1, <2>2, <2>3, <2>4 DEF ReceiverType, MergeChunk
<1>9. UNCHANGED <<trainer, link, request>> BY DEF MergeChunk
<1>10. LinkType' /\ RequestType' BY <1>9 DEF Types, LinkType, RequestType, link
<1> QED BY <1>7, <1>8, <1>9, <1>10, TrainerKept DEF Types

LEMMA CopyLandsTypes == ASSUME Types, NEW r \in Workers, CopyLands(r) PROVE Types'
<1> DEFINE c == Head(copies[r])
           unit(i) == mem[r][c.buf][c.from + i - c.at]
<1>1. copies[r] \in Seq(CutCopy) /\ copies[r] # <<>> BY DEF Types, ReceiverType, CopyLands
<1>2. c \in CutCopy /\ Tail(copies[r]) \in Seq(CutCopy) BY <1>1, HeadTailProperties
<1>3. /\ c.buf \in {1, 2} /\ c.from \in Slots /\ c.size \in 1 .. BucketSize /\ c.at \in Nat
      /\ c.from + c.size <= BucketSize
  BY <1>2 DEF CutCopy, Copy
<1>4. ReceiverType' BY <1>2 DEF Types, ReceiverType, CopyLands
<1>5. ASSUME NEW i \in Nat, i \in c.at .. c.at + c.size - 1 PROVE unit(i) \in Unit
  <2>1. c.from + i - c.at \in Slots
    <3>1. c.from \in Nat BY <1>3 DEF Slots
    <3> HIDE DEF c
    <3>2. c.size \in Nat /\ c.at \in Nat /\ i \in Nat /\ c.at <= i /\ i <= c.at + c.size - 1
      BY <1>3, <1>5
    <3>3. c.from + i - c.at \in Nat /\ c.from + i - c.at <= c.from + c.size - 1  BY <3>1, <3>2
    <3>4. c.from + c.size - 1 <= BucketSize - 1  BY <1>3, <3>1, <3>2
    <3> QED BY <3>1, <3>2, <3>3, <3>4 DEF Slots
  <2>2. mem[r] \in Buffers BY DEF Types, LinkType, Ranks
  <2>3. mem[r][c.buf] \in [Slots -> Unit] BY <2>2, <1>3 DEF Buffers
  <2> HIDE DEF c
  <2> QED BY <2>1, <2>3
<1>6. ipc' \in [Workers -> [Slots -> Unit]]
  <2>1. ipc[r] \in [Slots -> Unit] /\ ipc \in [Workers -> [Slots -> Unit]] BY DEF Types, SenderType
  <2> DEFINE new == [i \in Slots |-> IF i \in c.at .. c.at + c.size - 1 THEN unit(i) ELSE ipc[r][i]]
  <2>2. new \in [Slots -> Unit]
    <3>1. \A i \in Slots : i \in Nat BY DEF Slots
    <3> HIDE DEF c, unit, Unit, Slots
    <3> QED BY <2>1, <1>5, <3>1
  <2>3. ipc' = ipc \/ ipc' = [ipc EXCEPT ![r] = new] BY <2>1 DEF CopyLands
  <2> HIDE DEF new
  <2> QED BY <2>1, <2>2, <2>3
<1>7. SenderType' BY <1>6 DEF Types, SenderType, CopyLands
<1>8. UNCHANGED <<trainer, link, request>> BY DEF CopyLands
<1>9. LinkType' /\ RequestType' BY <1>8 DEF Types, LinkType, RequestType, link
<1> QED BY <1>4, <1>7, <1>8, <1>9, TrainerKept DEF Types

LEMMA PackTypes == ASSUME Types, NEW r \in Workers, Pack(r) PROVE Types'
<1> DEFINE h == hand[r]
<1>1. h \in HandSet /\ h.w # 0 BY DEF Types, SenderType, Pack, InHand
<1>2. h.w \in Weights /\ h.buf \in {1, 2} /\ h.at \in Slots BY <1>1 DEF HandSet, Weights
<1>3. Sizes[h.w] \in Nat \ {0} BY <1>2 DEF Weights
<1>4. ipc_offset[r] \in 0 .. BucketSize BY DEF Types, SenderType
<1>5. ipc_offset[r] + Sizes[h.w] <= BucketSize BY DEF Pack, Fits
<1>6. ~Large(h.w) BY <1>3, <1>4, <1>5 DEF Large
<1>7. h.at + Sizes[h.w] <= BucketSize BY <1>1, <1>6 DEF HandSet
<1>8. ipc_offset[r] \in Slots BY <1>3, <1>4, <1>5 DEF Slots
<1>9. SenderType'
  <2>1. SenderType BY DEF Types
  <2>2. [w |-> h.w, at |-> ipc_offset[r]] \in Entry BY <1>2, <1>8 DEF Entry
  <2>3. Append(ipc_meta[r], [w |-> h.w, at |-> ipc_offset[r]]) \in Seq(Entry)
    BY <2>1, <2>2, AppendProperties DEF SenderType
  <2>4. ipc_meta' \in [Workers -> Seq(Entry)] BY <2>1, <2>3 DEF SenderType, Pack
  <2>5. NoHand \in HandSet
    <3>1. 0 \in Slots /\ Len(Sizes) \in Nat BY DEF Slots
    <3> QED BY <3>1 DEF NoHand, HandSet
  <2>6. hand' \in [Workers -> HandSet] BY <2>1, <2>5 DEF SenderType, Pack
  <2>7. ipc_offset[r] + Sizes[h.w] \in 0 .. BucketSize BY <1>3, <1>4, <1>5
  <2>8. ipc_offset' \in [Workers -> 0 .. BucketSize] BY <2>1, <2>7 DEF SenderType, Pack
  <2> QED BY <2>1, <2>4, <2>6, <2>8 DEF SenderType, Pack
<1>10. ReceiverType'
  <2>1. ReceiverType BY DEF Types
  <2> DEFINE c == [buf |-> h.buf, from |-> h.at, size |-> Sizes[h.w], to |-> "ipc", at |-> ipc_offset[r]]
  <2>2. c \in CutCopy
    <3>1. Sizes[h.w] \in 1 .. BucketSize /\ ipc_offset[r] \in Nat BY <1>3, <1>4, <1>5
    <3> QED BY <1>2, <1>7, <3>1 DEF CutCopy, Copy
  <2>3. copies' = [copies EXCEPT ![r] = Append(copies[r], c)] BY <2>1 DEF ReceiverType, Pack
  <2> HIDE DEF c
  <2>4. Append(copies[r], c) \in Seq(CutCopy) BY <2>1, <2>2, AppendProperties DEF ReceiverType
  <2>5. copies' \in [Workers -> Seq(CutCopy)] BY <2>1, <2>3, <2>4 DEF ReceiverType
  <2> QED BY <2>1, <2>5 DEF ReceiverType, Pack
<1>11. UNCHANGED <<trainer, link, request>> BY DEF Pack
<1>12. LinkType' /\ RequestType' BY <1>11 DEF Types, LinkType, RequestType, link
<1> QED BY <1>9, <1>10, <1>11, <1>12, TrainerKept DEF Types

\* What a request may be made of.
LEMMA RequestsType ==
  ASSUME Types, NEW r \in Workers, NEW meta \in Seq(Entry), NEW l \in BOOLEAN,
         request' = [request EXCEPT ![r] = Request(meta, l)]
  PROVE  RequestType'
<1>1. Request(meta, l) \in Req BY DEF Request, Req
<1> QED BY <1>1 DEF Types, RequestType

LEMMA SendTypes ==
  ASSUME Types, NEW r \in Workers, Flush(r) \/ SendLarge(r) \/ FlushLast(r) PROVE Types'
<1>1. RequestType'
  <2>1. ipc_meta[r] \in Seq(Entry) BY DEF Types, SenderType
  <2>2. CASE Flush(r) BY <2>1, <2>2, RequestsType DEF Flush
  <2>3. CASE FlushLast(r) BY <2>1, <2>3, RequestsType DEF FlushLast
  <2>4. CASE SendLarge(r)
    <3>1. hand[r] \in HandSet /\ hand[r].w # 0 BY <2>4 DEF Types, SenderType, SendLarge, InHand
    <3>2. [w |-> hand[r].w, at |-> 0] \in Entry BY <3>1 DEF HandSet, Entry, Weights, Slots
    <3>3. <<[w |-> hand[r].w, at |-> 0]>> \in Seq(Entry) BY <3>2
    <3> QED BY <2>4, <3>3, RequestsType DEF SendLarge
  <2> QED BY <2>2, <2>3, <2>4
<1>2. UNCHANGED <<trainer, link, receiver, sender>> BY DEF Flush, SendLarge, FlushLast
<1>3. LinkType' /\ ReceiverType' /\ SenderType'
  BY <1>2 DEF Types, LinkType, ReceiverType, SenderType, link, receiver, sender
<1> QED BY <1>1, <1>2, <1>3, TrainerKept DEF Types

LEMMA GetReplyTypes == ASSUME Types, NEW r \in Workers, GetReply(r) PROVE Types'
<1>1. SenderType'
  <2>1. SenderType BY DEF Types
  <2>2. NoHand \in HandSet
    <3>1. 0 \in Slots /\ Len(Sizes) \in Nat BY DEF Slots
    <3> QED BY <3>1 DEF NoHand, HandSet
  <2>3. hand' \in [Workers -> HandSet] BY <2>1, <2>2 DEF SenderType, GetReply
  <2>4. ipc_meta' = ipc_meta \/ ipc_meta' = [ipc_meta EXCEPT ![r] = <<>>] BY DEF GetReply
  <2>5. ipc_offset' = ipc_offset \/ ipc_offset' = [ipc_offset EXCEPT ![r] = 0] BY DEF GetReply
  <2>6. ipc_meta' \in [Workers -> Seq(Entry)] 
    <3>1. <<>> \in Seq(Entry) OBVIOUS
    <3> QED BY <2>1, <2>4, <3>1 DEF SenderType
  <2>7. 0 \in 0 .. BucketSize OBVIOUS
  <2>8. ipc_offset' \in [Workers -> 0 .. BucketSize] BY <2>1, <2>5, <2>7 DEF SenderType
  <2> QED BY <2>1, <2>3, <2>6, <2>8 DEF SenderType, GetReply
<1>2. RequestType' BY DEF Types, RequestType, Req, GetReply
<1>3. UNCHANGED <<trainer, link, receiver>> BY DEF GetReply
<1>4. LinkType' /\ ReceiverType' BY <1>3 DEF Types, LinkType, ReceiverType, link, receiver
<1> QED BY <1>1, <1>2, <1>3, <1>4, TrainerKept DEF Types

LEMMA ServeTypes == ASSUME Types, NEW r \in Workers, LoadWeight(r) \/ Reply(r) PROVE Types'
<1>1. RequestType'
  <2>1. request \in [Workers -> Req] /\ request[r].done \in Nat BY DEF Types, RequestType, Req
  <2>2. CASE Reply(r) BY <2>1, <2>2 DEF RequestType, Req, Reply
  <2>3. CASE LoadWeight(r)
    <3>1. request' = [request EXCEPT ![r].done = request[r].done + 1]
      BY <2>1, <2>3 DEF LoadWeight
    <3>2. [request[r] EXCEPT !.done = request[r].done + 1] \in Req
      <4>1. request[r] \in Req /\ request[r].done + 1 \in Nat BY <2>1
      <4> QED BY <4>1 DEF Req
    <3>3. request' = [request EXCEPT ![r] = [request[r] EXCEPT !.done = request[r].done + 1]]
      BY <2>1, <3>1
    <3> QED BY <2>1, <3>2, <3>3 DEF RequestType
  <2> QED BY <2>2, <2>3
<1>2. UNCHANGED <<trainer, link, receiver, sender>> BY DEF LoadWeight, Reply
<1>3. LinkType' /\ ReceiverType' /\ SenderType'
  BY <1>2 DEF Types, LinkType, ReceiverType, SenderType, link, receiver, sender
<1> QED BY <1>1, <1>2, <1>3, TrainerKept DEF Types

LEMMA TypesNext == Types /\ [Next]_vars => Types'
<1> SUFFICES ASSUME Types, [Next]_vars PROVE Types' OBVIOUS
<1>1. CASE TrainerSteps
  BY <1>1, SendBucketTypes, FillChunkTypes, SendLastTypes, PublishTypes, BroadcastTypes
     DEF TrainerSteps
<1>2. ASSUME NEW r \in Workers, WorkerSteps(r) PROVE Types'
  BY <1>2, ConnectTypes, GetMetadataTypes, TakeBucketTypes, YieldViewTypes, MergeChunkTypes,
     CopyLandsTypes, PackTypes, SendTypes, GetReplyTypes, ServeTypes DEF WorkerSteps
<1>3. CASE UNCHANGED vars
  BY <1>3 DEF vars, trainer, link, receiver, sender, Types, TrainerType, More, LinkType,
              ReceiverType, SenderType, RequestType
<1> QED BY <1>1, <1>2, <1>3 DEF Next

\* The state stays well formed: no chunk and no copy reaches past the end of
\* a buffer, and no bucket is filled beyond its size.
THEOREM TypeCorrect == Spec => []TypeOK
<1>1. Init => Types BY TypesInit
<1>2. Types /\ [Next]_vars => Types' BY TypesNext
<1> QED BY <1>1, <1>2, TypesGiveTypeOK, PTL DEF Spec

-----------------------------------------------------------------------------
(* What a worker still has to read is in the buffer it holds. *)

Apart(r) == InFlight(r) => op[r].buf # read_buf[r]
Held(r)  == hand[r].w # 0 => hand[r].buf = read_buf[r]
Queued(r) == \A k \in 1 .. Len(copies[r]) : copies[r][k].buf = read_buf[r]
TrainerApart == InFlight(Trainer) /\ ~sending => op[Trainer].buf # send_buf

Owned == TrainerApart /\ \A r \in Workers : Apart(r) /\ Held(r) /\ Queued(r)

LEMMA OwnedGivesBuffersApart == Owned => BuffersApart
  BY DEF Owned, Apart, Held, Queued, TrainerApart, BuffersApart

LEMMA OwnedInit == Init => Owned
<1> SUFFICES ASSUME Init PROVE Owned OBVIOUS
<1>1. \A p \in Ranks : op[p].stage = "none" BY DEF Init
<1>2. \A r \in Workers : hand[r].w = 0 /\ copies[r] = <<>> BY DEF Init, NoHand
<1> QED BY <1>1, <1>2 DEF Owned, Apart, Held, Queued, TrainerApart, InFlight, Ranks

LEMMA OwnedTrainerSteps == ASSUME Types, Owned, TrainerSteps PROVE Owned'
<1> USE DEF Owned, Apart, Held, Queued, TrainerApart, InFlight
<1>1. Trainer \in Ranks /\ Workers \subseteq Ranks /\ op \in [Ranks -> Op] BY DEF Ranks, Types, LinkType
<1>2. CASE SendBucket
  <2>1. send_buf \in {1, 2} BY DEF Types, TrainerType
  <2>2. op'[Trainer].buf = send_buf /\ \A r \in Workers : op'[r] = op[r]
    BY <1>1, <1>2 DEF SendBucket, Operation
  <2>3. send_buf' # send_buf BY <1>2, <2>1 DEF SendBucket, Other
  <2> QED BY <1>2, <2>2, <2>3 DEF SendBucket, receiver, sender
<1>3. CASE FillChunk BY <1>3 DEF FillChunk, receiver, sender
<1>4. CASE SendLast
  <2>1. sending' /\ \A r \in Workers : op'[r] = op[r] BY <1>1, <1>4 DEF SendLast
  <2> QED BY <1>4, <2>1 DEF SendLast, receiver, sender
<1>5. CASE Publish
  <2>1. op'[Trainer].buf = op[Trainer].buf /\ op[Trainer].stage = "running"
        /\ \A r \in Workers : op'[r] = op[r]
    BY <1>1, <1>5 DEF Publish
  <2> QED BY <1>5, <2>1 DEF Publish, trainer, receiver, sender
<1>6. CASE Broadcast
  <2>1. \A p \in Ranks : op'[p].stage = "complete" BY <1>1, <1>6 DEF Broadcast, Op
  <2> QED BY <1>1, <1>6, <2>1 DEF Broadcast, receiver, sender
<1> QED BY <1>2, <1>3, <1>4, <1>5, <1>6 DEF TrainerSteps

\* A step of worker r leaves the other ranks alone.
LEMMA OwnedByOne ==
  ASSUME Types, Owned, NEW r \in Workers, UNCHANGED trainer,
         \A p \in Ranks : p # r => op'[p] = op[p],
         \A q \in Workers : q # r => /\ read_buf'[q] = read_buf[q] /\ hand'[q] = hand[q]
                                     /\ copies'[q] = copies[q],
         Apart(r)', Held(r)', Queued(r)'
  PROVE  Owned'
<1>1. TrainerApart' BY DEF Owned, TrainerApart, InFlight, Ranks, trainer
<1>2. ASSUME NEW q \in Workers, q # r PROVE Apart(q)' /\ Held(q)' /\ Queued(q)'
  BY <1>2 DEF Owned, Apart, Held, Queued, InFlight, Ranks
<1> QED BY <1>1, <1>2 DEF Owned

LEMMA OwnedWorkerSteps == ASSUME Types, Owned, NEW r \in Workers, WorkerSteps(r) PROVE Owned'
<1>1. /\ op \in [Ranks -> Op] /\ r \in Ranks
      /\ read_buf \in [Workers -> {1, 2}] /\ read_buf[r] \in {1, 2}
      /\ hand \in [Workers -> HandSet]
      /\ copies \in [Workers -> Seq(CutCopy)] /\ copies[r] \in Seq(CutCopy)
  BY DEF Types, LinkType, ReceiverType, SenderType, Ranks
<1>2. Apart(r) /\ Held(r) /\ Queued(r) BY DEF Owned
<1>3. CASE Connect(r)
  <2>1. op'[r].buf = Other(read_buf[r]) BY <1>1, <1>3 DEF Connect, Operation
  <2>2. Apart(r)' BY <1>1, <1>3, <2>1 DEF Apart, Connect, receiver, Other
  <2>3. Held(r)' /\ Queued(r)' BY <1>2, <1>3 DEF Held, Queued, Connect, receiver, sender
  <2> QED BY <1>1, <1>3, <2>2, <2>3, OwnedByOne DEF Connect, receiver, sender
<1>4. CASE GetMetadata(r)
  <2>1. op'[r].buf = op[r].buf /\ op[r].stage = "running" BY <1>1, <1>4 DEF GetMetadata
  <2>2. Apart(r)' BY <1>2, <1>4, <2>1 DEF Apart, InFlight, GetMetadata, receiver
  <2>3. Held(r)' /\ Queued(r)' BY <1>2, <1>4 DEF Held, Queued, GetMetadata, receiver, sender
  <2> QED BY <1>1, <1>4, <2>2, <2>3, OwnedByOne DEF GetMetadata, receiver, sender
<1>5. CASE TakeBucket(r)
  <2>1. hand'[r].w = 0 /\ copies'[r] = <<>> BY <1>5 DEF TakeBucket, Asked, Synchronized, sender
  <2>2. read_buf'[r] = Other(read_buf[r]) BY <1>1, <1>5 DEF TakeBucket
  <2>3. Apart(r)'
    <3>1. CASE op[r].bucket.is_last
      <4>1. op'[r].stage = "complete" BY <1>5, <3>1 DEF TakeBucket
      <4> QED BY <4>1 DEF Apart, InFlight
    <3>2. CASE ~op[r].bucket.is_last
      <4>1. op'[r].buf = read_buf[r] BY <1>1, <1>5, <3>2 DEF TakeBucket, Operation
      <4> QED BY <1>1, <2>2, <4>1 DEF Apart, Other
    <3> QED BY <3>1, <3>2
  <2>4. Held(r)' /\ Queued(r)' BY <2>1 DEF Held, Queued
  <2> QED BY <1>1, <1>5, <2>3, <2>4, OwnedByOne DEF TakeBucket, sender
<1>6. CASE YieldView(r)
  <2>1. hand'[r].buf = read_buf[r] BY <1>1, <1>6 DEF YieldView
  <2>2. Held(r)' BY <1>6, <2>1 DEF Held, YieldView
  <2>3. Apart(r)' /\ Queued(r)' BY <1>2, <1>6 DEF Apart, Queued, InFlight, YieldView, link
  <2> QED BY <1>1, <1>6, <2>2, <2>3, OwnedByOne DEF YieldView, link
<1>7. CASE MergeChunk(r)
  <2> DEFINE c == [buf |-> read_buf[r], from |-> Head(todo[r]).at, size |-> Head(todo[r]).size,
                   to |-> "tensor", at |-> Head(todo[r]).from]
  <2>1. c.buf = read_buf[r] OBVIOUS
  <2>2. copies'[r] = Append(copies[r], c) BY <1>1, <1>7 DEF MergeChunk
  <2>3. read_buf' = read_buf BY <1>7 DEF MergeChunk
  <2>4. hand'[r] = hand[r] \/ hand'[r].buf = read_buf[r] BY <1>1, <1>7 DEF MergeChunk
  <2> HIDE DEF c
  <2>5. Queued(r)'
    <3>1. ASSUME NEW k \in 1 .. Len(copies'[r]) PROVE copies'[r][k].buf = read_buf[r]
      <4>1. CASE k <= Len(copies[r]) BY <1>1, <1>2, <2>2, <4>1 DEF Queued
      <4>2. CASE k = Len(copies[r]) + 1 BY <1>1, <2>1, <2>2, <4>2
      <4> QED BY <1>1, <2>2, <4>1, <4>2
    <3> QED BY <2>3, <3>1 DEF Queued
  <2>6. Held(r)' BY <1>2, <2>3, <2>4 DEF Held
  <2>7. Apart(r)' BY <1>2, <1>7 DEF Apart, InFlight, MergeChunk, link
  <2>8. \A q \in Workers : q # r => hand'[q] = hand[q] /\ copies'[q] = copies[q]
    BY <1>1, <1>7 DEF MergeChunk
  <2> QED BY <1>1, <1>7, <2>3, <2>5, <2>6, <2>7, <2>8, OwnedByOne DEF MergeChunk, link
<1>8. CASE CopyLands(r)
  <2>1. copies'[r] = Tail(copies[r]) /\ copies[r] # <<>> BY <1>1, <1>8 DEF CopyLands
  <2>2. \A k \in 1 .. Len(copies'[r]) : copies'[r][k].buf = read_buf[r]
    BY <1>1, <1>2, <2>1 DEF Queued
  <2>3. Queued(r)' BY <1>8, <2>2 DEF Queued, CopyLands
  <2>4. Apart(r)' /\ Held(r)' BY <1>2, <1>8 DEF Apart, Held, InFlight, CopyLands, link
  <2> QED BY <1>1, <1>8, <2>3, <2>4, OwnedByOne DEF CopyLands, link
<1>9. CASE Pack(r)
  <2> DEFINE c == [buf |-> hand[r].buf, from |-> hand[r].at, size |-> Sizes[hand[r].w],
                   to |-> "ipc", at |-> ipc_offset[r]]
  <2>1. c.buf = read_buf[r] BY <1>2, <1>9 DEF Held, Pack, InHand
  <2>2. copies'[r] = Append(copies[r], c) BY <1>1, <1>9 DEF Pack
  <2>3. read_buf' = read_buf /\ hand'[r].w = 0 BY <1>1, <1>9 DEF Pack, NoHand
  <2> HIDE DEF c
  <2>4. Queued(r)' BY <1>1, <1>2, <2>1, <2>2, <2>3 DEF Queued
  <2>5. Held(r)' BY <2>3 DEF Held
  <2>6. Apart(r)' BY <1>2, <1>9 DEF Apart, InFlight, Pack, link
  <2> QED BY <1>1, <1>9, <2>4, <2>5, <2>6, OwnedByOne DEF Pack, link
<1>10. CASE Flush(r) \/ SendLarge(r) \/ FlushLast(r) \/ LoadWeight(r) \/ Reply(r)
  <2>1. UNCHANGED <<trainer, link, receiver, sender>>
    BY <1>10 DEF Flush, SendLarge, FlushLast, LoadWeight, Reply
  <2> QED BY <2>1 DEF Owned, Apart, Held, Queued, TrainerApart, InFlight, trainer, link, receiver, sender
<1>11. CASE GetReply(r)
  <2>1. hand'[r] = hand[r] \/ hand'[r].w = 0 BY <1>1, <1>11 DEF GetReply, NoHand
  <2>2. UNCHANGED <<trainer, link, receiver>> BY <1>11 DEF GetReply
  <2>3. Apart(r)' /\ Held(r)' /\ Queued(r)'
    BY <1>2, <2>1, <2>2 DEF Apart, Held, Queued, InFlight, link, receiver
  <2>4. \A q \in Workers : q # r => hand'[q] = hand[q] BY <1>1, <1>11 DEF GetReply
  <2> QED BY <2>2, <2>3, <2>4, OwnedByOne DEF link, receiver
<1> QED BY <1>3, <1>4, <1>5, <1>6, <1>7, <1>8, <1>9, <1>10, <1>11 DEF WorkerSteps

LEMMA OwnedNext == Types /\ Owned /\ [Next]_vars => Owned'
<1>1. CASE UNCHANGED vars
  BY <1>1 DEF vars, trainer, link, receiver, sender, Owned, Apart, Held, Queued, TrainerApart, InFlight
<1> QED BY <1>1, OwnedTrainerSteps, OwnedWorkerSteps DEF Next

\* Neither the trainer nor any worker writes to a buffer that is still read,
\* or reads one that is still written.
THEOREM BuffersAreApart == Spec => []BuffersApart
<1>1. Init => Types /\ Owned BY TypesInit, OwnedInit
<1>2. Types /\ Owned /\ [Next]_vars => Types' /\ Owned' BY TypesNext, OwnedNext
<1> QED BY <1>1, <1>2, OwnedGivesBuffersApart, PTL DEF Spec

-----------------------------------------------------------------------------
(* The order and the contents of what is on its way from the trainer to the  *)
(* vLLM processes.  A position in the weights, which the trainer's split is   *)
(* the last of, is handed back from stage to stage: the chunks each stage has *)
(* follow each other and end where those of the stage before it begin.       *)

\* The position in the weights: the weight and the unit of it that come next.
Cursor(c) == [w |-> c.w, from |-> c.from]
After(c)  == IF c.from + c.size < Sizes[c.w] THEN [w |-> c.w, from |-> c.from + c.size]
             ELSE [w |-> c.w + 1, from |-> 0]

\* Where chunks begin that end before v, and that they follow each other.
Start(meta, v) == IF meta = <<>> THEN v ELSE Cursor(meta[1])
Chain(meta, v) == \A k \in 1 .. Len(meta) :
  /\ meta[k].from + meta[k].size <= Sizes[meta[k].w]
  /\ After(meta[k]) = (IF k = Len(meta) THEN v ELSE Cursor(meta[k + 1]))

\* The chunks are in the buffer.
Holds(buffer, meta) == \A k \in 1 .. Len(meta) : \A i \in 0 .. meta[k].size - 1 :
  buffer[meta[k].at + i] = <<meta[k].w, meta[k].from + i>>

\* A bucket is on its way to all workers or to none, and each has it once.
Connected(r) ==
  /\ IF op[Trainer].stage = "joined"
     THEN \/ topic[r] = <<op[Trainer].bucket>> /\ op[r].stage # "joined"
          \/ topic[r] = <<>> /\ op[r].stage = "joined" /\ op[r].bucket = op[Trainer].bucket
     ELSE topic[r] = <<>> /\ op[r].stage # "joined"
  /\ request[r].stage = "closed" => op[r].stage = "none"
  /\ last[r] => op[r].stage = "complete"
  /\ op[r].stage # "none" /\ ~last[r] => op[r].buf # read_buf[r]

\* What the trainer has not broadcast yet, and what it has not begun to.
Unsent  == IF sending THEN split ELSE Start(bucket_meta, split)
Reached == IF InFlight(Trainer) THEN Start(op[Trainer].bucket.meta, Unsent) ELSE Unsent

Sends ==
  /\ sending => ~More
  /\ Chain(bucket_meta, split)
  /\ Chain(op[Trainer].bucket.meta, Unsent)
  /\ \A k \in 1 .. Len(bucket_meta) : bucket_meta[k].at + bucket_meta[k].size <= offset
  /\ Holds(mem[Trainer][send_buf], bucket_meta)
  /\ InFlight(Trainer) => Holds(mem[Trainer][op[Trainer].buf], op[Trainer].bucket.meta)

\* A worker has received a bucket and not begun to yield it.
Waiting(r) == op[r].stage = "complete" /\ ~last[r]
Taken(r)   == IF Waiting(r) THEN Start(op[r].bucket.meta, Reached) ELSE Reached
Place(r)   == Start(todo[r], Taken(r))

Receives(r) ==
  /\ Waiting(r) => /\ Chain(op[r].bucket.meta, Reached)
                   /\ Holds(mem[r][op[r].buf], op[r].bucket.meta)
  /\ Chain(todo[r], Taken(r))
  /\ Holds(mem[r][read_buf[r]], todo[r])

\* The weight the generator is in, or the next.
Merges(r) ==
  IF merging[r].w # 0
  THEN /\ Place(r) = [w |-> merging[r].w, from |-> merging[r].at]
       /\ 0 < merging[r].at /\ merging[r].at < Sizes[merging[r].w]
       /\ hand[r].w = 0
  ELSE Place(r).from = 0

\* Hands on one weight after the other.
NotPacked(r) == IF hand[r].w # 0 THEN hand[r].w ELSE Place(r).w
Busy(r)      == request[r].stage \in {"sent", "replied"}
Ordered(r) ==
  /\ hand[r].w # 0 => Place(r).w = hand[r].w + 1
  /\ \A k \in 1 .. Len(ipc_meta[r]) :
       ipc_meta[r][k].w = NotPacked(r) - Len(ipc_meta[r]) + k - 1
  /\ Len(loaded[r]) = NotPacked(r) - 1 - Len(ipc_meta[r]) + (IF Busy(r) THEN request[r].done ELSE 0)

Asks(r) ==
  /\ Busy(r) =>
       /\ request[r].done <= Len(request[r].meta)
       /\ request[r].stage = "replied" => request[r].done = Len(request[r].meta)
       /\ \/ request[r].meta = ipc_meta[r] /\ copies[r] = <<>>
          \/ /\ request[r].meta = <<[w |-> hand[r].w, at |-> 0]>>
             /\ hand[r].w # 0 /\ Large(hand[r].w) /\ ipc_meta[r] = <<>>
             /\ request[r].done > 0 => copies[r] = <<>>
  /\ ipc_meta[r] = <<>> => ipc_offset[r] = 0
  /\ \A k \in 1 .. Len(ipc_meta[r]) :
       ~Large(ipc_meta[r][k].w) /\ ipc_meta[r][k].at + Sizes[ipc_meta[r][k].w] <= ipc_offset[r]

\* The larger weight that is put together, and how much of it.
Merging(r) == IF merging[r].w # 0 THEN merging[r].w ELSE hand[r].w
Merged(r)  == IF merging[r].w # 0 THEN merging[r].at
              ELSE IF hand[r].w # 0 /\ Large(hand[r].w) THEN Sizes[hand[r].w] ELSE 0
Filled(r, to) == IF to = "ipc" THEN ipc_offset[r] ELSE Merged(r)
Value(r, to)  == IF to = "ipc" THEN ipc[r] ELSE tensor[r]

\* What has to be at place s, of the shared buffer or the tensor.
Due(r, to, s, u) ==
  \/ /\ to = "ipc"
     /\ \E k \in 1 .. Len(ipc_meta[r]) :
          /\ s \in ipc_meta[r][k].at .. ipc_meta[r][k].at + Sizes[ipc_meta[r][k].w] - 1
          /\ u = <<ipc_meta[r][k].w, s - ipc_meta[r][k].at>>
  \/ to = "tensor" /\ s \in 0 .. Merged(r) - 1 /\ u = <<Merging(r), s>>

Lands(c, s) == s \in c.at .. c.at + c.size - 1

Copied(r) ==
  /\ hand[r].w # 0 /\ ~Large(hand[r].w) =>
       \A i \in Units(hand[r].w) : mem[r][read_buf[r]][hand[r].at + i] = <<hand[r].w, i>>
  /\ Merged(r) > 0 => DOMAIN tensor[r] = Units(Merging(r))
  /\ \A k \in 1 .. Len(copies[r]) : copies[r][k].at + copies[r][k].size <= Filled(r, copies[r][k].to)
  /\ \A k \in 1 .. Len(copies[r]) : \A s, u :
       Lands(copies[r][k], s) /\ Due(r, copies[r][k].to, s, u) =>
         mem[r][read_buf[r]][copies[r][k].from + s - copies[r][k].at] = u
  /\ \A to \in {"ipc", "tensor"} : \A s, u : Due(r, to, s, u) =>
       \/ Value(r, to)[s] = u
       \/ \E k \in 1 .. Len(copies[r]) : copies[r][k].to = to /\ Lands(copies[r][k], s)

\* The weights loaded so far are the first ones, and whole.
Loads(r) ==
  /\ loaded[r] \in Seq({Whole(w) : w \in Weights}) /\ Len(loaded[r]) <= Len(Sizes)
  /\ \A w \in 1 .. Len(loaded[r]) : loaded[r][w] = Whole(w)

\* Each worker has these two; what they are made of is said elsewhere.
Shapes == loaded = [r \in Workers |-> loaded[r]] /\ tensor = [r \in Workers |-> tensor[r]]

WholeInv ==
  /\ Sends
  /\ Shapes
  /\ \A r \in Workers : /\ Connected(r) /\ Receives(r) /\ Merges(r) /\ Ordered(r)
                        /\ Asks(r) /\ Copied(r) /\ Loads(r)

-----------------------------------------------------------------------------
(* Chains of chunks. *)

LEMMA CutChunkParts ==
  ASSUME NEW c \in CutChunk
  PROVE  /\ c.w \in Weights /\ c.from \in Nat /\ c.size \in 1 .. BucketSize /\ c.at \in Slots
         /\ Sizes[c.w] \in Nat \ {0} /\ c.w \in Nat \ {0} /\ c.size \in Nat \ {0} /\ c.at \in Nat
         /\ c.at + c.size <= BucketSize /\ (~Large(c.w) => c.from = 0 /\ c.size = Sizes[c.w])
<1>1. /\ c.w \in Weights /\ c.from \in Nat /\ c.size \in 1 .. BucketSize /\ c.at \in Slots
      /\ c.at + c.size <= BucketSize /\ (~Large(c.w) => c.from = 0 /\ c.size = Sizes[c.w])
  BY DEF CutChunk, Chunk
<1>2. Sizes[c.w] \in Nat \ {0} /\ c.w \in Nat \ {0}  BY <1>1 DEF Weights
<1> QED BY <1>1, <1>2 DEF Slots

LEMMA ChainAppend ==
  ASSUME NEW m \in Seq(CutChunk), NEW c \in CutChunk, c.from + c.size <= Sizes[c.w],
         Chain(m, Cursor(c))
  PROVE  Chain(Append(m, c), After(c)) /\ Start(Append(m, c), After(c)) = Start(m, Cursor(c))
<1> DEFINE n == Append(m, c)
<1>1. /\ Len(n) = Len(m) + 1 /\ Len(m) \in Nat /\ n # <<>>
      /\ \A k \in 1 .. Len(m) : n[k] = m[k]
      /\ n[Len(m) + 1] = c
  OBVIOUS
<1> HIDE DEF n
<1>2. ASSUME NEW k \in 1 .. Len(n)
      PROVE  /\ n[k].from + n[k].size <= Sizes[n[k].w]
             /\ After(n[k]) = (IF k = Len(n) THEN After(c) ELSE Cursor(n[k + 1]))
  <2>1. CASE k = Len(m) + 1  BY <1>1, <2>1
  <2>2. CASE k = Len(m)
    <3>1. k \in 1 .. Len(m) /\ n[k] = m[k] /\ n[k + 1] = c /\ k # Len(n)  BY <1>1, <1>2, <2>2
    <3> QED BY <2>2, <3>1 DEF Chain
  <2>3. CASE k < Len(m)
    <3>1. k \in 1 .. Len(m) /\ k + 1 \in 1 .. Len(m) /\ n[k] = m[k] /\ n[k + 1] = m[k + 1]
          /\ k # Len(n) /\ k # Len(m)
      BY <1>1, <1>2, <2>3
    <3> QED BY <3>1 DEF Chain
  <2> QED BY <1>1, <1>2, <2>1, <2>2, <2>3
<1>3. Start(n, After(c)) = Start(m, Cursor(c))
  <2>1. CASE m = <<>>  BY <1>1, <2>1 DEF Start
  <2>2. CASE m # <<>>
    <3>1. 1 \in 1 .. Len(m)  BY <2>2
    <3> QED BY <1>1, <2>2, <3>1 DEF Start
  <2> QED BY <2>1, <2>2
<1> QED BY <1>2, <1>3 DEF Chain, n

LEMMA TailItems ==
  ASSUME NEW S, NEW m \in Seq(S), m # <<>>
  PROVE  /\ Len(m) \in Nat \ {0} /\ Tail(m) \in Seq(S) /\ Len(Tail(m)) = Len(m) - 1
         /\ Head(m) = m[1] /\ m[1] \in S
         /\ \A k \in 1 .. Len(Tail(m)) : Tail(m)[k] = m[k + 1]
<1>1. /\ Len(m) \in Nat \ {0} /\ Tail(m) \in Seq(S) /\ Len(Tail(m)) = Len(m) - 1
      /\ \A k \in 1 .. Len(Tail(m)) : Tail(m)[k] = m[k + 1]
  BY HeadTailProperties
<1>2. Head(m) = m[1] /\ m[1] \in S  OBVIOUS
<1> QED BY <1>1, <1>2

LEMMA ChainTail ==
  ASSUME NEW m \in Seq(CutChunk), m # <<>>, NEW v, Chain(m, v)
  PROVE  /\ Chain(Tail(m), v) /\ Start(Tail(m), v) = After(Head(m))
         /\ Start(m, v) = Cursor(Head(m)) /\ Head(m) \in CutChunk /\ Tail(m) \in Seq(CutChunk)
         /\ Head(m).from + Head(m).size <= Sizes[Head(m).w]
<1> DEFINE n == Tail(m)
<1>1. /\ Len(m) \in Nat \ {0} /\ Len(n) = Len(m) - 1 /\ Head(m) = m[1] /\ n \in Seq(CutChunk)
      /\ \A k \in 1 .. Len(n) : n[k] = m[k + 1]
      /\ m[1] \in CutChunk /\ (n = <<>> <=> Len(m) = 1)
  <2>1. Len(n) = Len(m) - 1 /\ n \in Seq(CutChunk)  BY TailItems
  <2>2. n = <<>> <=> Len(n) = 0  BY <2>1, EmptySeq
  <2> QED BY <2>1, <2>2, TailItems
<1> HIDE DEF n
<1>2. Chain(n, v)
  <2>1. ASSUME NEW k \in 1 .. Len(n)
        PROVE  /\ n[k].from + n[k].size <= Sizes[n[k].w]
               /\ After(n[k]) = (IF k = Len(n) THEN v ELSE Cursor(n[k + 1]))
    <3>1. k + 1 \in 1 .. Len(m) /\ n[k] = m[k + 1] /\ (k = Len(n) <=> k + 1 = Len(m))
          /\ (k # Len(n) => n[k + 1] = m[k + 1 + 1])
      BY <1>1, <2>1
    <3> QED BY <3>1 DEF Chain
  <2> QED BY <2>1 DEF Chain
<1>3. /\ m[1].from + m[1].size <= Sizes[m[1].w]
      /\ After(m[1]) = (IF 1 = Len(m) THEN v ELSE Cursor(m[1 + 1]))
  BY <1>1 DEF Chain
<1>4. Start(n, v) = After(m[1])
  <2>1. CASE Len(m) = 1  BY <1>1, <1>3, <2>1 DEF Start
  <2>2. CASE Len(m) # 1
    <3>1. n # <<>> /\ n[1] = m[1 + 1]  BY <1>1, <2>2
    <3> QED BY <1>3, <2>2, <3>1 DEF Start
  <2> QED BY <2>1, <2>2
<1>5. Start(m, v) = Cursor(m[1])  BY DEF Start
<1> QED BY <1>1, <1>2, <1>3, <1>4, <1>5 DEF n

LEMMA HoldsTail ==
  ASSUME NEW m \in Seq(CutChunk), m # <<>>, NEW buffer, Holds(buffer, m)
  PROVE  /\ Holds(buffer, Tail(m))
         /\ \A i \in 0 .. Head(m).size - 1 :
              buffer[Head(m).at + i] = <<Head(m).w, Head(m).from + i>>
<1>1. /\ Len(m) \in Nat \ {0} /\ Len(Tail(m)) = Len(m) - 1 /\ Head(m) = m[1]
      /\ \A k \in 1 .. Len(Tail(m)) : Tail(m)[k] = m[k + 1] /\ k + 1 \in 1 .. Len(m)
      /\ 1 \in 1 .. Len(m)
  BY TailItems
<1>2. Holds(buffer, Tail(m))
  <2>1. ASSUME NEW k \in 1 .. Len(Tail(m)), NEW i \in 0 .. Tail(m)[k].size - 1
        PROVE  buffer[Tail(m)[k].at + i] = <<Tail(m)[k].w, Tail(m)[k].from + i>>
    <3>1. Tail(m)[k] = m[k + 1] /\ k + 1 \in 1 .. Len(m)  BY <1>1
    <3>2. i \in 0 .. m[k + 1].size - 1  BY <2>1, <3>1
    <3> HIDE DEF Holds
    <3>3. buffer[m[k + 1].at + i] = <<m[k + 1].w, m[k + 1].from + i>>  BY <3>1, <3>2 DEF Holds
    <3> QED BY <3>1, <3>3
  <2> QED BY <2>1 DEF Holds
<1>3. \A i \in 0 .. m[1].size - 1 : buffer[m[1].at + i] = <<m[1].w, m[1].from + i>>
  BY <1>1 DEF Holds
<1> QED BY <1>1, <1>2, <1>3

LEMMA EmptyChain ==
  ASSUME NEW v, NEW buffer
  PROVE  Chain(<<>>, v) /\ Start(<<>>, v) = v /\ Holds(buffer, <<>>)
BY DEF Chain, Start, Holds

-----------------------------------------------------------------------------
(* The trainer's part. *)

\* What a step of a worker leaves alone.
LEMMA WorkerFrame ==
  ASSUME Types, Shapes, NEW r \in Workers, WorkerSteps(r)
  PROVE  /\ UNCHANGED <<trainer, mem>>
         /\ \A p \in Ranks : p # r => op'[p] = op[p]
         /\ op'[Trainer] = op[Trainer]
         /\ \A q \in Workers : q # r =>
              /\ topic'[q] = topic[q] /\ read_buf'[q] = read_buf[q] /\ todo'[q] = todo[q]
              /\ last'[q] = last[q] /\ merging'[q] = merging[q] /\ tensor'[q] = tensor[q]
              /\ hand'[q] = hand[q] /\ copies'[q] = copies[q] /\ ipc'[q] = ipc[q]
              /\ ipc_meta'[q] = ipc_meta[q] /\ ipc_offset'[q] = ipc_offset[q]
              /\ request'[q] = request[q] /\ loaded'[q] = loaded[q]
<1> USE DEF WorkerSteps, Connect, GetMetadata, TakeBucket, YieldView, MergeChunk, CopyLands, Pack,
            Flush, SendLarge, FlushLast, GetReply, LoadWeight, Reply
<1>1. r # Trainer /\ Trainer \in Ranks /\ r \in Ranks  BY DEF Ranks
<1>2. UNCHANGED <<trainer, mem>>  BY DEF trainer, link, receiver, sender
<1>3. \A p \in Ranks : p # r => op'[p] = op[p]
  <2>1. op \in [Ranks -> Op]  BY DEF Types, LinkType
  <2> QED BY <1>1, <2>1 DEF trainer, link, receiver, sender
<1>4. ASSUME NEW q \in Workers, q # r
      PROVE  /\ topic'[q] = topic[q] /\ read_buf'[q] = read_buf[q] /\ todo'[q] = todo[q]
             /\ last'[q] = last[q] /\ merging'[q] = merging[q]
  <2>1. /\ topic \in [Workers -> Seq(CutBucket)] /\ read_buf \in [Workers -> {1, 2}]
        /\ todo \in [Workers -> Seq(CutChunk)] /\ last \in [Workers -> BOOLEAN]
        /\ merging \in [Workers -> [w : 0 .. Len(Sizes), at : Nat]]
    BY DEF Types, LinkType, ReceiverType
  <2> QED BY <1>4, <2>1 DEF trainer, link, receiver, sender
<1>5. ASSUME NEW q \in Workers, q # r
      PROVE  tensor'[q] = tensor[q] /\ copies'[q] = copies[q] /\ loaded'[q] = loaded[q]
  <2>1. copies \in [Workers -> Seq(CutCopy)]  BY DEF Types, ReceiverType
  <2>2. DOMAIN tensor = Workers /\ DOMAIN loaded = Workers  BY DEF Shapes
  <2>3. tensor'[q] = tensor[q]  BY <1>5, <2>2 DEF trainer, link, receiver, sender
  <2>4. loaded'[q] = loaded[q]  BY <1>5, <2>2 DEF trainer, link, receiver, sender
  <2> QED BY <1>5, <2>1, <2>3, <2>4 DEF trainer, link, receiver, sender
<1>6. ASSUME NEW q \in Workers, q # r
      PROVE  /\ hand'[q] = hand[q] /\ ipc'[q] = ipc[q] /\ ipc_meta'[q] = ipc_meta[q]
             /\ ipc_offset'[q] = ipc_offset[q] /\ request'[q] = request[q]
  <2>1. /\ hand \in [Workers -> HandSet] /\ ipc \in [Workers -> [Slots -> Unit]]
        /\ ipc_meta \in [Workers -> Seq(Entry)] /\ ipc_offset \in [Workers -> 0 .. BucketSize]
        /\ request \in [Workers -> Req]
    BY DEF Types, SenderType, RequestType
  <2> QED BY <1>6, <2>1 DEF trainer, link, receiver, sender
<1> HIDE DEF WorkerSteps
<1> QED BY <1>1, <1>2, <1>3, <1>4, <1>5, <1>6

LEMMA TrainerParts ==
  ASSUME Types
  PROVE  /\ bucket_meta \in Seq(CutChunk) /\ op[Trainer] \in Op /\ Trainer \in Ranks
         /\ op[Trainer].bucket \in CutBucket /\ op[Trainer].bucket.meta \in Seq(CutChunk)
         /\ op \in [Ranks -> Op] /\ send_buf \in {1, 2} /\ sending \in BOOLEAN
         /\ op[Trainer].buf \in {1, 2}
<1>1. op \in [Ranks -> Op] /\ Trainer \in Ranks  BY DEF Types, LinkType, Ranks
<1>2. op[Trainer] \in Op  BY <1>1
<1> QED BY <1>1, <1>2 DEF Types, TrainerType, Op, CutBucket

\* The chunk the trainer fills in is the next one of the weights.
LEMMA FillsNext ==
  ASSUME Types, FillChunk
  PROVE  /\ NextChunk \in CutChunk /\ Cursor(NextChunk) = split /\ After(NextChunk) = split'
         /\ NextChunk.from + NextChunk.size <= Sizes[NextChunk.w] /\ NextChunk.at = offset
<1>1. TrainerType /\ More /\ offset + NextChunk.size <= BucketSize BY DEF Types, FillChunk
<1>2. NextChunk \in CutChunk BY <1>1, NextChunkCut
<1>3. /\ NextChunk.w = split.w /\ NextChunk.from = split.from /\ NextChunk.at = offset
      /\ NextChunk.size = ChunkSize(Sizes[split.w] - split.from)
  BY DEF NextChunk
<1>4. split \in [w : Nat \ {0}, from : Nat] /\ split.w \in Weights /\ Sizes[split.w] \in Nat \ {0}
      /\ split.from < Sizes[split.w]
  BY <1>1 DEF TrainerType, More, Weights
<1>5. split = [w |-> split.w, from |-> split.from]  BY <1>4
<1>6. NextChunk.from + NextChunk.size <= Sizes[NextChunk.w]
  BY <1>3, <1>4 DEF ChunkSize, Smaller
<1>7. split' = After(NextChunk)
  <2>1. CASE split.from + NextChunk.size < Sizes[split.w]
    <3>1. split' = [split EXCEPT !.from = split.from + NextChunk.size]  BY <2>1 DEF FillChunk
    <3>2. split' = [w |-> split.w, from |-> split.from + NextChunk.size]  BY <1>4, <3>1
    <3> QED BY <1>3, <2>1, <3>2 DEF After
  <2>2. CASE ~(split.from + NextChunk.size < Sizes[split.w])
    <3>1. split' = [w |-> split.w + 1, from |-> 0]  BY <2>2 DEF FillChunk
    <3> QED BY <1>3, <2>2, <3>1 DEF After
  <2> QED BY <2>1, <2>2
<1> QED BY <1>2, <1>3, <1>5, <1>6, <1>7 DEF Cursor

LEMMA SendBucketSends ==
  ASSUME Types, Sends, SendBucket \/ SendLast  PROVE Sends' /\ Reached' = Reached
<1>1. /\ bucket_meta \in Seq(CutChunk) /\ op \in [Ranks -> Op] /\ Trainer \in Ranks
      /\ send_buf \in {1, 2}
  BY TrainerParts
<1>2. /\ op'[Trainer].bucket.meta = bucket_meta /\ op'[Trainer].buf = send_buf
      /\ op'[Trainer].stage = "running" /\ UNCHANGED <<split, mem>> /\ ~InFlight(Trainer)
      /\ ~sending
  <2>1. op' = [op EXCEPT ![Trainer] = op'[Trainer]]  BY <1>1 DEF SendBucket, SendLast
  <2>2. More => ~sending  BY DEF Sends
  <2> QED BY <1>1, <2>1, <2>2 DEF SendBucket, SendLast, Operation, OpComplete, InFlight
<1>3. Unsent' = split
  BY <1>2, EmptyChain DEF Unsent, SendBucket, SendLast
<1>4. Reached' = Start(bucket_meta, split) /\ Reached = Start(bucket_meta, split)
  BY <1>2, <1>3 DEF Reached, Unsent, InFlight
<1>5. Chain(bucket_meta, split) /\ Holds(mem[Trainer][send_buf], bucket_meta)  BY DEF Sends
<1>6. sending' => ~More'  BY <1>2 DEF SendBucket, SendLast, More
<1>7. CASE SendBucket
  <2>1. bucket_meta' = <<>>  BY <1>7 DEF SendBucket
  <2>2. Chain(bucket_meta', split') /\ Holds(mem'[Trainer][send_buf'], bucket_meta')
        /\ \A k \in 1 .. Len(bucket_meta') : bucket_meta'[k].at + bucket_meta'[k].size <= offset'
    BY <2>1, EmptyChain
  <2> QED BY <1>2, <1>3, <1>4, <1>5, <1>6, <2>2 DEF Sends
<1>8. CASE SendLast
  <2>1. UNCHANGED <<bucket_meta, offset, send_buf>>  BY <1>8 DEF SendLast
  <2> QED BY <1>2, <1>3, <1>4, <1>5, <1>6, <2>1 DEF Sends
<1> QED BY <1>7, <1>8

LEMMA FillChunkSends ==
  ASSUME Types, Owned, Sends, FillChunk  PROVE Sends' /\ Reached' = Reached
<1> DEFINE c == NextChunk
           old == mem[Trainer][send_buf]
           new == mem'[Trainer][send_buf]
<1>1. /\ bucket_meta \in Seq(CutChunk) /\ op \in [Ranks -> Op] /\ Trainer \in Ranks
      /\ send_buf \in {1, 2} /\ op[Trainer].buf \in {1, 2} /\ op[Trainer].bucket.meta \in Seq(CutChunk)
  BY TrainerParts
<1>2. /\ c \in CutChunk /\ Cursor(c) = split /\ After(c) = split' /\ c.at = offset
      /\ c.from + c.size <= Sizes[c.w]
  BY FillsNext
<1>3. c.from \in Nat /\ c.size \in Nat \ {0} /\ c.at \in Nat /\ c.at + c.size <= BucketSize
  BY <1>2, CutChunkParts
<1>4. /\ bucket_meta' = Append(bucket_meta, c) /\ offset' = c.at + c.size
      /\ UNCHANGED <<send_buf, sending, op>> /\ More
  BY <1>2 DEF FillChunk
<1>5. ~sending  BY <1>4 DEF Sends
<1>6. mem \in [Ranks -> Buffers] /\ old \in [Slots -> Unit]
  BY <1>1 DEF Types, LinkType, Buffers
<1>7. new = Written(old, c)
      /\ \A b \in {1, 2} : b # send_buf => mem'[Trainer][b] = mem[Trainer][b]
  <2>1. mem' = [mem EXCEPT ![Trainer][send_buf] = Written(mem[Trainer][send_buf], NextChunk)]
    BY DEF FillChunk
  <2>2. mem[Trainer] \in Buffers  BY <1>1, <1>6
  <2> HIDE DEF c
  <2> QED BY <1>1, <1>6, <2>1, <2>2 DEF Buffers, c
<1> HIDE DEF c, old, new
<1>8. Chain(bucket_meta', split') /\ Start(bucket_meta', split') = Start(bucket_meta, split)
  <2>1. Chain(bucket_meta, Cursor(c))  BY <1>2 DEF Sends
  <2> QED BY <1>1, <1>2, <1>4, <2>1, ChainAppend
<1>9. Unsent' = Unsent /\ Reached' = Reached
  <2>1. Unsent' = Unsent  BY <1>4, <1>5, <1>8 DEF Unsent
  <2> QED BY <1>4, <2>1 DEF Reached, InFlight
<1>10. /\ Len(bucket_meta') = Len(bucket_meta) + 1 /\ Len(bucket_meta) \in Nat
       /\ \A k \in 1 .. Len(bucket_meta) : bucket_meta'[k] = bucket_meta[k] /\ bucket_meta[k] \in CutChunk
       /\ bucket_meta'[Len(bucket_meta) + 1] = c
  BY <1>1, <1>2, <1>4, AppendProperties, ElementOfSeq, LenProperties
<1>11. ASSUME NEW k \in 1 .. Len(bucket_meta')
       PROVE  /\ bucket_meta'[k].at + bucket_meta'[k].size <= offset'
              /\ \A i \in 0 .. bucket_meta'[k].size - 1 :
                   new[bucket_meta'[k].at + i] = <<bucket_meta'[k].w, bucket_meta'[k].from + i>>
  <2>1. CASE k = Len(bucket_meta) + 1
    <3>1. bucket_meta'[k] = c /\ c.at + c.size <= offset'  BY <1>3, <1>4, <1>10, <2>1
    <3>2. ASSUME NEW i \in 0 .. c.size - 1  PROVE new[c.at + i] = <<c.w, c.from + i>>
      <4>1. /\ c.at + i \in Slots /\ c.at + i \in c.at .. c.at + c.size - 1
            /\ c.from + (c.at + i) - c.at = c.from + i
        BY <1>3, <3>2 DEF Slots
      <4> QED BY <1>7, <4>1 DEF Written
    <3> QED BY <3>1, <3>2
  <2>2. CASE k # Len(bucket_meta) + 1
    <3> DEFINE d == bucket_meta[k]
    <3>1. k \in 1 .. Len(bucket_meta) /\ bucket_meta'[k] = d /\ d \in CutChunk  BY <1>10, <1>11, <2>2
    <3>2. d.at + d.size <= c.at /\ \A i \in 0 .. d.size - 1 : old[d.at + i] = <<d.w, d.from + i>>
      BY <1>2, <3>1 DEF Sends, Holds, old
    <3>3. d.at \in Nat /\ d.size \in Nat  BY <3>1, CutChunkParts
    <3> HIDE DEF d
    <3>4. ASSUME NEW i \in 0 .. d.size - 1  PROVE new[d.at + i] = <<d.w, d.from + i>>
      <4>1. d.at + i \in Slots /\ d.at + i \notin c.at .. c.at + c.size - 1
        <5>1. i \in Nat /\ i < d.size  BY <3>3, <3>4
        <5>2. d.at + d.size <= c.at  BY <3>2
        <5>3. d.at + i \in Nat /\ d.at + i < c.at  BY <1>3, <3>3, <5>1, <5>2
        <5> QED BY <1>3, <5>3 DEF Slots
      <4>2. new[d.at + i] = old[d.at + i]  BY <1>7, <4>1 DEF Written
      <4> QED BY <3>2, <4>2
    <3>5. d.at + d.size <= offset'  BY <1>3, <1>4, <3>2, <3>3
    <3> QED BY <3>1, <3>4, <3>5
  <2> QED BY <2>1, <2>2
<1>12. Holds(mem'[Trainer][send_buf'], bucket_meta')  BY <1>4, <1>11 DEF Holds, new
<1>13. InFlight(Trainer)' =>
         Holds(mem'[Trainer][op'[Trainer].buf], op'[Trainer].bucket.meta)
  <2>1. ASSUME InFlight(Trainer)  PROVE mem'[Trainer][op[Trainer].buf] = mem[Trainer][op[Trainer].buf]
    <3>1. op[Trainer].buf # send_buf  BY <1>5, <2>1 DEF Owned, TrainerApart
    <3> QED BY <1>1, <1>7, <3>1
  <2>2. InFlight(Trainer)' = InFlight(Trainer)  BY <1>4 DEF InFlight
  <2> QED BY <1>4, <2>1, <2>2 DEF Sends
<1>14. Chain(op'[Trainer].bucket.meta, Unsent')  BY <1>4, <1>9 DEF Sends
<1> QED BY <1>4, <1>5, <1>8, <1>9, <1>11, <1>12, <1>13, <1>14 DEF Sends

LEMMA PublishSends ==
  ASSUME Types, Sends, Publish  PROVE Sends' /\ Reached' = Reached
<1>1. /\ UNCHANGED <<split, bucket_meta, offset, send_buf, sending, mem>> /\ InFlight(Trainer)
      /\ op'[Trainer].bucket = op[Trainer].bucket /\ op'[Trainer].buf = op[Trainer].buf
      /\ InFlight(Trainer)'
  BY TrainerParts DEF Publish, trainer, InFlight
<1>2. Unsent' = Unsent  BY <1>1 DEF Unsent
<1>3. Reached' = Reached  BY <1>1, <1>2 DEF Reached
<1> QED BY <1>1, <1>2, <1>3 DEF Sends, More

LEMMA BroadcastSends ==
  ASSUME Types, Sends, Broadcast
  PROVE  /\ Sends' /\ Reached' = Unsent /\ Unsent' = Unsent
         /\ Reached = Start(op[Trainer].bucket.meta, Unsent)
<1>1. /\ UNCHANGED <<split, bucket_meta, offset, send_buf, sending>> /\ InFlight(Trainer)
      /\ op'[Trainer].bucket = op[Trainer].bucket /\ ~InFlight(Trainer)'
  BY TrainerParts DEF Broadcast, trainer, InFlight, Op
<1>2. mem'[Trainer] = mem[Trainer]
  <2>1. mem[Trainer] \in Buffers  BY TrainerParts DEF Types, LinkType
  <2> QED BY <2>1, TrainerParts DEF Broadcast, Buffers
<1>3. Unsent' = Unsent  BY <1>1 DEF Unsent
<1>4. Reached' = Unsent /\ Reached = Start(op[Trainer].bucket.meta, Unsent)
  BY <1>1, <1>3 DEF Reached
<1> QED BY <1>1, <1>2, <1>3, <1>4 DEF Sends, More

LEMMA TrainerKeptSends ==
  ASSUME Sends, UNCHANGED <<trainer, mem>>, op'[Trainer] = op[Trainer]
  PROVE  Sends' /\ Reached' = Reached
<1>1. Unsent' = Unsent  BY DEF Unsent, trainer
<1>2. Reached' = Reached  BY <1>1 DEF Reached, InFlight
<1> QED BY <1>1, <1>2 DEF Sends, More, InFlight, trainer

-----------------------------------------------------------------------------
(* The way of a bucket to a worker. *)

LEMMA OtherBuffer ==
  ASSUME NEW b \in {1, 2}
  PROVE  Other(b) \in {1, 2} /\ Other(b) # b /\ \A c \in {1, 2} : c # b => c = Other(b)
BY DEF Other

LEMMA ConnectedTrainer ==
  ASSUME Types, NEW r \in Workers, Connected(r), TrainerSteps  PROVE Connected(r)'
<1>1. op \in [Ranks -> Op] /\ Trainer \in Ranks /\ r \in Ranks /\ r # Trainer
      /\ topic \in [Workers -> Seq(CutBucket)]
  BY TrainerParts DEF Ranks, Types, LinkType
<1>2. CASE SendBucket \/ SendLast
  <2>1. /\ op[Trainer].stage # "joined" /\ op'[Trainer].stage = "running" /\ op'[r] = op[r]
        /\ UNCHANGED <<topic, request, last, read_buf>>
    BY <1>1, <1>2 DEF SendBucket, SendLast, OpComplete, Operation, receiver
  <2> QED BY <2>1 DEF Connected
<1>3. CASE FillChunk  BY <1>3 DEF FillChunk, receiver, Connected
<1>4. CASE Publish
  <2>1. /\ op[Trainer].stage = "running" /\ op'[Trainer].stage = "joined" /\ op'[r] = op[r]
        /\ op'[Trainer].bucket = op[Trainer].bucket
        /\ topic'[r] = Append(topic[r], op[Trainer].bucket) /\ UNCHANGED <<request, last, read_buf>>
    BY <1>1, <1>4 DEF Publish, receiver
  <2>2. topic[r] = <<>> /\ op[r].stage # "joined"  BY <2>1 DEF Connected
  <2>3. topic'[r] = <<op[Trainer].bucket>>  BY <2>1, <2>2
  <2> QED BY <2>1, <2>2, <2>3 DEF Connected
<1>5. CASE Broadcast
  <2>1. /\ op[Trainer].stage = "joined" /\ op[r].stage = "joined"
        /\ op'[Trainer].stage = "complete" /\ op'[r].stage = "complete" /\ op'[r].buf = op[r].buf
        /\ UNCHANGED <<topic, request, last, read_buf>>
    BY <1>1, <1>5 DEF Broadcast, receiver, Op
  <2>2. topic[r] = <<>>  BY <2>1 DEF Connected
  <2> QED BY <2>1, <2>2 DEF Connected
<1> QED BY <1>2, <1>3, <1>4, <1>5 DEF TrainerSteps

LEMMA ConnectedWorker ==
  ASSUME Types, Shapes, NEW r \in Workers, Connected(r), WorkerSteps(r)  PROVE Connected(r)'
<1>1. op \in [Ranks -> Op] /\ r \in Ranks /\ r # Trainer /\ topic \in [Workers -> Seq(CutBucket)]
      /\ request \in [Workers -> Req] /\ read_buf \in [Workers -> {1, 2}]
      /\ last \in [Workers -> BOOLEAN] /\ op'[Trainer] = op[Trainer]
  BY WorkerFrame DEF Ranks, Types, LinkType, RequestType, ReceiverType
<1>2. CASE Connect(r)
  <2>1. /\ op[r].stage = "none" /\ op'[r] = Operation(Other(read_buf[r]), NoBucket)
        /\ read_buf[r] \in {1, 2}
        /\ request'[r].stage = "none" /\ UNCHANGED <<topic, last, read_buf>>
    BY <1>1, <1>2 DEF Connect, receiver, Connected, Req
  <2>2. op'[r].stage = "running" /\ op'[r].buf = Other(read_buf[r])  BY <2>1 DEF Operation
  <2>3. op'[r].buf # read_buf'[r]  BY <2>1, <2>2, OtherBuffer
  <2> QED BY <1>1, <2>1, <2>2, <2>3 DEF Connected
<1>3. CASE GetMetadata(r)
  <2>1. /\ op[r].stage = "running" /\ topic[r] # <<>> /\ op'[r].stage = "joined"
        /\ op'[r].bucket = Head(topic[r]) /\ op'[r].buf = op[r].buf /\ topic'[r] = Tail(topic[r])
        /\ UNCHANGED <<request, last, read_buf>>
    BY <1>1, <1>3 DEF GetMetadata, receiver, Op
  <2>2. op[Trainer].stage = "joined" /\ topic[r] = <<op[Trainer].bucket>>  BY <2>1 DEF Connected
  <2>3. topic'[r] = <<>> /\ op'[r].bucket = op[Trainer].bucket  BY <2>1, <2>2
  <2> QED BY <1>1, <2>1, <2>2, <2>3 DEF Connected
<1>4. CASE TakeBucket(r)
  <2>1. /\ op[r].stage = "complete" /\ ~last[r] /\ last'[r] = op[r].bucket.is_last
        /\ read_buf'[r] = Other(read_buf[r]) /\ UNCHANGED <<topic, request>>
        /\ request[r].stage = "none"
        /\ (IF op[r].bucket.is_last THEN op' = op
            ELSE op'[r] = Operation(read_buf[r], NoBucket))
    BY <1>1, <1>4 DEF TakeBucket, Asked
  <2>2. CASE op[r].bucket.is_last  BY <1>1, <2>1, <2>2 DEF Connected
  <2>3. CASE ~op[r].bucket.is_last
    <3>1. op'[r].stage = "running" /\ op'[r].buf = read_buf[r]  BY <2>1, <2>3 DEF Operation
    <3>2. read_buf[r] \in {1, 2}  BY <1>1
    <3>3. op'[r].buf # read_buf'[r]  BY <2>1, <3>1, <3>2, OtherBuffer
    <3> QED BY <1>1, <2>1, <2>3, <3>1, <3>3 DEF Connected
  <2> QED BY <2>2, <2>3
<1>5. CASE YieldView(r) \/ MergeChunk(r) \/ CopyLands(r) \/ Pack(r)
  BY <1>1, <1>5 DEF YieldView, MergeChunk, CopyLands, Pack, link, Connected
<1>6. CASE Flush(r) \/ SendLarge(r) \/ FlushLast(r) \/ GetReply(r) \/ LoadWeight(r) \/ Reply(r)
  <2>1. UNCHANGED <<link, last, read_buf>> /\ request[r].stage # "closed"
    BY <1>1, <1>6 DEF Flush, SendLarge, FlushLast, GetReply, LoadWeight, Reply, receiver,
                      InHand, Asked
  <2>2. request'[r].stage # "closed"
    <3>1. CASE Flush(r) \/ SendLarge(r) \/ FlushLast(r)
      BY <1>1, <3>1 DEF Flush, SendLarge, FlushLast, Request
    <3>2. CASE GetReply(r) \/ Reply(r)
      <4>1. request'[r].stage \in {"over", "none", "replied"}  BY <1>1, <3>2 DEF GetReply, Reply, Req
      <4> QED BY <4>1
    <3>3. CASE LoadWeight(r)
      <4>1. request'[r].stage = request[r].stage  BY <1>1, <3>3 DEF LoadWeight, Req
      <4> QED BY <2>1, <4>1
    <3> QED BY <1>6, <3>1, <3>2, <3>3
  <2> QED BY <2>1, <2>2 DEF Connected, link
<1> QED BY <1>2, <1>3, <1>4, <1>5, <1>6 DEF WorkerSteps

-----------------------------------------------------------------------------
(* What the stages of a worker have. *)

Stages(r) == Receives(r) /\ Merges(r) /\ Ordered(r) /\ Asks(r) /\ Copied(r) /\ Loads(r)

Position == [w : Nat \ {0}, from : Nat]

LEMMA StartType ==
  ASSUME NEW m \in Seq(CutChunk), NEW v \in Position  PROVE Start(m, v) \in Position
<1>1. CASE m = <<>>  BY <1>1 DEF Start
<1>2. CASE m # <<>>
  <2>1. m[1] \in CutChunk  BY <1>2, TailItems
  <2> QED BY <1>2, <2>1, CutChunkParts DEF Start, Cursor, Position
<1> QED BY <1>1, <1>2

LEMMA WorkerParts ==
  ASSUME Types, NEW r \in Workers
  PROVE  /\ r \in Ranks /\ r # Trainer
         /\ read_buf[r] \in {1, 2} /\ todo[r] \in Seq(CutChunk) /\ last[r] \in BOOLEAN
         /\ merging[r] \in [w : 0 .. Len(Sizes), at : Nat] /\ copies[r] \in Seq(CutCopy)
         /\ hand[r] \in HandSet /\ hand[r].w \in 0 .. Len(Sizes)
         /\ ipc[r] \in [Slots -> Unit] /\ ipc_meta[r] \in Seq(Entry)
         /\ ipc_offset[r] \in 0 .. BucketSize /\ request[r] \in Req /\ op[r] \in Op
         /\ op[r].bucket \in CutBucket /\ op[r].bucket.meta \in Seq(CutChunk)
<1>1. r \in Ranks /\ r # Trainer  BY DEF Ranks
<1>2. op[r] \in Op  BY <1>1 DEF Types, LinkType
<1>3. op[r].bucket \in CutBucket /\ op[r].bucket.meta \in Seq(CutChunk)  BY <1>2 DEF Op, CutBucket
<1>4. hand[r] \in HandSet  BY DEF Types, SenderType
<1>5. hand[r].w \in 0 .. Len(Sizes)  BY <1>4 DEF HandSet
<1> QED BY <1>1, <1>2, <1>3, <1>4, <1>5 DEF Types, ReceiverType, SenderType, RequestType

LEMMA PlaceType ==
  ASSUME Types, NEW r \in Workers
  PROVE  Reached \in Position /\ Taken(r) \in Position /\ Place(r) \in Position
         /\ Place(r).w \in Nat \ {0} /\ Place(r).from \in Nat
<1>1. split \in Position  BY DEF Types, TrainerType, Position
<1>2. Unsent \in Position  BY <1>1, TrainerParts, StartType DEF Unsent
<1>3. Reached \in Position  BY <1>2, TrainerParts, StartType DEF Reached
<1>4. Taken(r) \in Position  BY <1>3, WorkerParts, StartType DEF Taken
<1>5. Place(r) \in Position  BY <1>4, WorkerParts, StartType DEF Place
<1> QED BY <1>3, <1>4, <1>5 DEF Position

LEMMA ShapesNext == ASSUME Types, Shapes, Next  PROVE Shapes'
<1>1. CASE TrainerSteps
  <2>1. UNCHANGED <<tensor, loaded>>
    BY <1>1 DEF TrainerSteps, SendBucket, FillChunk, SendLast, Publish, Broadcast, receiver
  <2> QED BY <2>1 DEF Shapes
<1>2. ASSUME NEW r \in Workers, WorkerSteps(r)  PROVE Shapes'
  <2>1. loaded = [q \in Workers |-> loaded[q]] /\ tensor = [q \in Workers |-> tensor[q]]
    BY DEF Shapes
  <2>2. CASE MergeChunk(r) \/ CopyLands(r)
    <3>1. loaded' = loaded  BY <2>2 DEF MergeChunk, CopyLands
    <3>2. tensor' = tensor \/ \E x : tensor' = [tensor EXCEPT ![r] = x]
      BY <2>2 DEF MergeChunk, CopyLands
    <3>3. tensor' = [q \in Workers |-> tensor'[q]]  BY <2>1, <3>2
    <3> QED BY <2>1, <3>1, <3>3 DEF Shapes
  <2>3. CASE LoadWeight(r)
    <3>1. tensor' = tensor  BY <2>3 DEF LoadWeight, receiver
    <3>2. \E x : loaded' = [loaded EXCEPT ![r] = x]  BY <2>3 DEF LoadWeight
    <3>3. loaded' = [q \in Workers |-> loaded'[q]]  BY <2>1, <3>2
    <3> QED BY <2>1, <3>1, <3>3 DEF Shapes
  <2>4. CASE ~(MergeChunk(r) \/ CopyLands(r) \/ LoadWeight(r))
    <3>1. UNCHANGED <<tensor, loaded>>
      BY <1>2, <2>4 DEF WorkerSteps, Connect, GetMetadata, TakeBucket, YieldView, Pack, Flush,
                        SendLarge, FlushLast, GetReply, Reply, receiver
    <3> QED BY <3>1 DEF Shapes
  <2> QED BY <2>2, <2>3, <2>4
<1> QED BY <1>1, <1>2 DEF Next

\* What each part depends on.
LEMMA ReceivesKept ==
  ASSUME NEW r \in Workers, Receives(r), Reached' = Reached, mem'[r] = mem[r], op'[r] = op[r],
         read_buf'[r] = read_buf[r], todo'[r] = todo[r], last'[r] = last[r]
  PROVE  Receives(r)' /\ Place(r)' = Place(r)
<1>1. Waiting(r)' = Waiting(r) /\ Taken(r)' = Taken(r)  BY DEF Waiting, Taken
<1>2. Place(r)' = Place(r)  BY <1>1 DEF Place
<1> QED BY <1>1, <1>2 DEF Receives

LEMMA MergesKept ==
  ASSUME NEW r \in Workers, Merges(r), Place(r)' = Place(r), merging'[r] = merging[r],
         hand'[r] = hand[r]
  PROVE  Merges(r)'
BY DEF Merges

LEMMA OrderedKept ==
  ASSUME NEW r \in Workers, Ordered(r), Place(r)' = Place(r), hand'[r] = hand[r],
         ipc_meta'[r] = ipc_meta[r], loaded'[r] = loaded[r], Busy(r)' = Busy(r),
         Busy(r) => request'[r].done = request[r].done
  PROVE  Ordered(r)'
<1>1. NotPacked(r)' = NotPacked(r)  BY DEF NotPacked
<1>2. Len(loaded'[r]) = NotPacked(r)' - 1 - Len(ipc_meta'[r])
                        + (IF Busy(r)' THEN request'[r].done ELSE 0)
  BY <1>1 DEF Ordered
<1> QED BY <1>1, <1>2 DEF Ordered

LEMMA AsksKept ==
  ASSUME NEW r \in Workers, Asks(r), request'[r] = request[r], hand'[r] = hand[r] \/ ~Busy(r),
         ipc_meta'[r] = ipc_meta[r], ipc_offset'[r] = ipc_offset[r],
         Busy(r) /\ copies[r] = <<>> => copies'[r] = <<>>
  PROVE  Asks(r)'
<1>1. Busy(r)' = Busy(r)  BY DEF Busy
<1> QED BY <1>1 DEF Asks

LEMMA CopiedKept ==
  ASSUME NEW r \in Workers, Copied(r),
         merging'[r] = merging[r], tensor'[r] = tensor[r], hand'[r] = hand[r],
         copies'[r] = copies[r], ipc'[r] = ipc[r], ipc_meta'[r] = ipc_meta[r],
         ipc_offset'[r] = ipc_offset[r],
         hand[r].w # 0 \/ Len(copies[r]) # 0 => mem'[r][read_buf'[r]] = mem[r][read_buf[r]],
         Len(copies[r]) \in Nat
  PROVE  Copied(r)'
<1>1. Merging(r)' = Merging(r) /\ Merged(r)' = Merged(r)  BY DEF Merging, Merged
<1>2. \A to : Filled(r, to)' = Filled(r, to) /\ Value(r, to)' = Value(r, to)
  BY <1>1 DEF Filled, Value
<1>3. \A to, s, u : Due(r, to, s, u)' <=> Due(r, to, s, u)  BY <1>1 DEF Due
<1>4. hand'[r].w # 0 /\ ~Large(hand'[r].w) =>
       \A i \in Units(hand'[r].w) : mem'[r][read_buf'[r]][hand'[r].at + i] = <<hand'[r].w, i>>
  BY DEF Copied
<1>5. Merged(r)' > 0 => DOMAIN tensor'[r] = Units(Merging(r)')  BY <1>1 DEF Copied
<1>6. ASSUME NEW k \in 1 .. Len(copies'[r])
      PROVE  (copies[r][k].at + copies[r][k].size <= Filled(r, copies[r][k].to))'
  <2>1. copies[r][k].at + copies[r][k].size <= Filled(r, copies[r][k].to)  BY <1>6 DEF Copied
  <2> QED BY <1>1, <2>1 DEF Filled
<1>7. ASSUME NEW k \in 1 .. Len(copies'[r]), NEW s, NEW u,
             Lands(copies'[r][k], s), Due(r, copies[r][k].to, s, u)'
      PROVE  mem'[r][read_buf'[r]][copies'[r][k].from + s - copies'[r][k].at] = u
  <2>1. Due(r, copies[r][k].to, s, u)  BY <1>1, <1>7 DEF Due
  <2>2. mem'[r][read_buf'[r]] = mem[r][read_buf[r]]  BY <1>7
  <2> QED BY <1>7, <2>1, <2>2 DEF Copied
<1>8. ASSUME NEW to \in {"ipc", "tensor"}, NEW s, NEW u, Due(r, to, s, u)'
      PROVE  \/ Value(r, to)'[s] = u
             \/ \E k \in 1 .. Len(copies'[r]) : copies'[r][k].to = to /\ Lands(copies'[r][k], s)
  <2>1. Due(r, to, s, u)  BY <1>3, <1>8
  <2> QED BY <1>2, <2>1 DEF Copied
<1> QED BY <1>4, <1>5, <1>6, <1>7, <1>8 DEF Copied, Units

\* A worker is kept as it is by whoever does not touch it.
LEMMA StagesKept ==
  ASSUME Types, NEW r \in Workers, Stages(r), Reached' = Reached, mem'[r] = mem[r],
         op'[r] = op[r], read_buf'[r] = read_buf[r], todo'[r] = todo[r], last'[r] = last[r],
         merging'[r] = merging[r], tensor'[r] = tensor[r], hand'[r] = hand[r],
         copies'[r] = copies[r], ipc'[r] = ipc[r], ipc_meta'[r] = ipc_meta[r],
         ipc_offset'[r] = ipc_offset[r], request'[r] = request[r], loaded'[r] = loaded[r]
  PROVE  Stages(r)'
<1>1. /\ Receives(r) /\ Merges(r) /\ Ordered(r) /\ Asks(r) /\ Copied(r) /\ Loads(r)
      /\ Busy(r)' = Busy(r) /\ Len(copies[r]) \in Nat
  BY WorkerParts DEF Stages, Busy
<1>2. Receives(r)' /\ Place(r)' = Place(r)  BY <1>1, ReceivesKept
<1>3. Merges(r)'  BY <1>1, <1>2, MergesKept
<1>4. Ordered(r)'  BY <1>1, <1>2, OrderedKept
<1>5. Asks(r)'  BY <1>1, AsksKept
<1>6. Copied(r)'  BY <1>1, CopiedKept
<1>7. Loads(r)'  BY <1>1 DEF Loads
<1> QED BY <1>2, <1>3, <1>4, <1>5, <1>6, <1>7 DEF Stages

\* The broadcast moves a bucket from the trainer into the buffers the workers
\* do not read from, and with it the place the trainer has reached.
LEMMA BroadcastStages ==
  ASSUME Types, Sends, NEW r \in Workers, Connected(r), Stages(r), Broadcast
  PROVE  Stages(r)'
<1>1. /\ Receives(r) /\ Merges(r) /\ Ordered(r) /\ Asks(r) /\ Copied(r) /\ Loads(r)
      /\ Len(copies[r]) \in Nat /\ op[r] \in Op /\ op[Trainer] \in Op
      /\ r \in Ranks /\ Trainer \in Ranks
  BY WorkerParts, TrainerParts DEF Stages
<1>2. /\ op[r].stage = "joined" /\ op[Trainer].stage = "joined"
      /\ op'[r].stage = "complete" /\ op'[r].buf = op[r].buf /\ op'[r].bucket = op[r].bucket
      /\ op[r].buf \in {1, 2}
      /\ UNCHANGED <<receiver, sender, request, loaded>>
  BY <1>1 DEF Broadcast, Op
<1>3. op[r].bucket = op[Trainer].bucket /\ ~last[r] /\ op[r].buf # read_buf[r]
  BY <1>2 DEF Connected
<1>4. mem[r] \in Buffers /\ read_buf[r] \in {1, 2}  BY <1>1 DEF Types, LinkType, ReceiverType
<1>5. mem'[r] = [mem[r] EXCEPT ![op[r].buf] = mem[Trainer][op[Trainer].buf]]
  BY <1>1 DEF Broadcast
<1>6. /\ mem'[r][read_buf[r]] = mem[r][read_buf[r]]
      /\ mem'[r][op[r].buf] = mem[Trainer][op[Trainer].buf]
  BY <1>2, <1>3, <1>4, <1>5 DEF Buffers
<1>7. /\ Reached' = Unsent /\ Reached = Start(op[r].bucket.meta, Unsent)
      /\ Chain(op[r].bucket.meta, Unsent)
      /\ Holds(mem[Trainer][op[Trainer].buf], op[r].bucket.meta)
  BY <1>2, <1>3, BroadcastSends DEF Sends, InFlight
<1>8. ~Waiting(r) /\ Waiting(r)'  BY <1>2, <1>3 DEF Waiting, receiver
<1>9. Taken(r) = Reached /\ Taken(r)' = Reached  BY <1>2, <1>7, <1>8 DEF Taken
<1>10. Place(r)' = Place(r)  BY <1>2, <1>9 DEF Place, receiver
<1>11. Receives(r)'
  <2>1. Chain(todo[r], Reached) /\ Holds(mem[r][read_buf[r]], todo[r])
    BY <1>1, <1>9 DEF Receives
  <2>2. todo'[r] = todo[r] /\ read_buf'[r] = read_buf[r]  BY <1>2 DEF receiver
  <2> QED BY <1>2, <1>6, <1>7, <1>9, <2>1, <2>2 DEF Receives
<1>12. Merges(r)'  BY <1>1, <1>2, <1>10, MergesKept DEF receiver, sender
<1>13. Ordered(r)'  BY <1>1, <1>2, <1>10, OrderedKept DEF sender, Busy
<1>14. Asks(r)'  BY <1>1, <1>2, AsksKept DEF sender, receiver
<1>15. Copied(r)'
  <2>1. mem'[r][read_buf'[r]] = mem[r][read_buf[r]]  BY <1>2, <1>6 DEF receiver
  <2> QED BY <1>1, <1>2, <2>1, CopiedKept DEF receiver, sender
<1>16. Loads(r)'  BY <1>1, <1>2 DEF Loads
<1> QED BY <1>11, <1>12, <1>13, <1>14, <1>15, <1>16 DEF Stages

LEMMA TrainerStages ==
  ASSUME Types, Owned, Sends, NEW r \in Workers, Connected(r), Stages(r), TrainerSteps
  PROVE  Sends' /\ Stages(r)'
<1>1. CASE Broadcast  BY <1>1, BroadcastSends, BroadcastStages
<1>2. CASE SendBucket \/ SendLast \/ FillChunk \/ Publish
  <2>1. Sends' /\ Reached' = Reached
    BY <1>2, SendBucketSends, FillChunkSends, PublishSends
  <2>2. /\ UNCHANGED <<receiver, sender, request, loaded>>
        /\ op'[r] = op[r] /\ mem'[r] = mem[r]
    <3>1. /\ op \in [Ranks -> Op] /\ mem \in [Ranks -> Buffers]
          /\ r \in Ranks /\ r # Trainer /\ Trainer \in Ranks
      BY WorkerParts, TrainerParts DEF Types, LinkType
    <3> QED BY <1>2, <3>1 DEF SendBucket, SendLast, FillChunk, Publish
  <2>3. Stages(r)'  BY <2>1, <2>2, StagesKept DEF receiver, sender
  <2> QED BY <2>1, <2>3
<1> QED BY <1>1, <1>2 DEF TrainerSteps

\* A worker is not touched by what another one does.
LEMMA OtherWorker ==
  ASSUME Types, Shapes, Sends, NEW r \in Workers, WorkerSteps(r),
         NEW q \in Workers, q # r, Connected(q), Stages(q)
  PROVE  Connected(q)' /\ Stages(q)'
<1>1. q \in Ranks /\ q # Trainer  BY WorkerParts
<1>2. /\ UNCHANGED <<trainer, mem>> /\ op'[q] = op[q] /\ op'[Trainer] = op[Trainer]
      /\ topic'[q] = topic[q] /\ read_buf'[q] = read_buf[q] /\ todo'[q] = todo[q]
      /\ last'[q] = last[q] /\ merging'[q] = merging[q] /\ tensor'[q] = tensor[q]
      /\ hand'[q] = hand[q] /\ copies'[q] = copies[q] /\ ipc'[q] = ipc[q]
      /\ ipc_meta'[q] = ipc_meta[q] /\ ipc_offset'[q] = ipc_offset[q]
      /\ request'[q] = request[q] /\ loaded'[q] = loaded[q]
  BY <1>1, WorkerFrame
<1>3. Connected(q)'  BY <1>2 DEF Connected
<1>4. Reached' = Reached  BY <1>2, TrainerKeptSends
<1>5. Stages(q)'  BY <1>2, <1>4, StagesKept
<1> QED BY <1>3, <1>5

-----------------------------------------------------------------------------
(* The steps of a worker. *)

\* What no step of a worker but CopyLands and Broadcast has to say again.
LEMMA WorkerStep ==
  ASSUME Types, Shapes, Sends, NEW r \in Workers, WorkerSteps(r), Stages(r)
  PROVE  /\ Receives(r) /\ Merges(r) /\ Ordered(r) /\ Asks(r) /\ Copied(r) /\ Loads(r)
         /\ Reached' = Reached /\ mem'[r] = mem[r] /\ Len(copies[r]) \in Nat
         /\ Place(r).w \in Nat \ {0} /\ Place(r).from \in Nat
<1>1. UNCHANGED <<trainer, mem>> /\ op'[Trainer] = op[Trainer]  BY WorkerFrame
<1>2. Reached' = Reached  BY <1>1, TrainerKeptSends
<1> QED BY <1>1, <1>2, WorkerParts, PlaceType DEF Stages

LEMMA ConnectStages ==
  ASSUME Types, Shapes, Sends, NEW r \in Workers, Connected(r), Stages(r),
         Connect(r) \/ GetMetadata(r)
  PROVE  Stages(r)'
<1>1. WorkerSteps(r)  BY DEF WorkerSteps
<1>2. /\ Receives(r) /\ Merges(r) /\ Ordered(r) /\ Asks(r) /\ Copied(r) /\ Loads(r)
      /\ Reached' = Reached /\ mem'[r] = mem[r] /\ Len(copies[r]) \in Nat
  BY <1>1, WorkerStep
<1>3. UNCHANGED <<receiver, sender, loaded>> BY DEF Connect, GetMetadata
<1>4. /\ op[r].stage \in {"none", "running"} /\ op'[r].stage \in {"running", "joined"}
      /\ Busy(r)' = Busy(r) /\ (Busy(r) => request'[r] = request[r])
  <2>1. op \in [Ranks -> Op] /\ request \in [Workers -> Req] /\ r \in Ranks
    BY WorkerParts DEF Types, LinkType, RequestType
  <2>2. CASE Connect(r)
    BY <2>1, <2>2 DEF Connect, Busy, Connected, Operation, Req
  <2>3. CASE GetMetadata(r)  BY <2>1, <2>3 DEF GetMetadata, Busy, Op
  <2> QED BY <2>2, <2>3
<1>5. ~Waiting(r) /\ ~Waiting(r)'  BY <1>4 DEF Waiting
<1>6. Taken(r) = Reached /\ Taken(r)' = Reached  BY <1>2, <1>5 DEF Taken
<1>7. Place(r)' = Place(r)  BY <1>3, <1>6 DEF Place, receiver
<1>8. Receives(r)'  BY <1>2, <1>3, <1>5, <1>6 DEF Receives, receiver
<1>9. Merges(r)'  BY <1>2, <1>3, <1>7, MergesKept DEF receiver, sender
<1>10. Ordered(r)'  BY <1>2, <1>3, <1>4, <1>7, OrderedKept DEF sender
<1>11. Asks(r)'  BY <1>2, <1>3, <1>4 DEF sender, receiver, Asks, Busy
<1>12. Copied(r)'  BY <1>2, <1>3, CopiedKept DEF receiver, sender
<1>13. Loads(r)'  BY <1>2, <1>3 DEF Loads
<1> QED BY <1>8, <1>9, <1>10, <1>11, <1>12, <1>13 DEF Stages

\* The bucket received becomes the one that is yielded.
LEMMA TakeBucketStages ==
  ASSUME Types, Shapes, Sends, NEW r \in Workers, Connected(r), Stages(r), TakeBucket(r)
  PROVE  Stages(r)'
<1>1. WorkerSteps(r)  BY DEF WorkerSteps
<1>2. /\ Receives(r) /\ Merges(r) /\ Ordered(r) /\ Asks(r) /\ Copied(r) /\ Loads(r)
      /\ Reached' = Reached /\ mem'[r] = mem[r] /\ Len(copies[r]) \in Nat
  BY <1>1, WorkerStep
<1>3. /\ Waiting(r) /\ todo[r] = <<>> /\ copies[r] = <<>> /\ hand[r].w = 0
      /\ op[r].stage = "complete" /\ op[r].buf # read_buf[r] /\ read_buf[r] \in {1, 2}
      /\ op[r].buf \in {1, 2} /\ request[r].stage = "none"
  BY WorkerParts DEF TakeBucket, Asked, Waiting, Synchronized, Connected, Op
<1>4. /\ read_buf'[r] = op[r].buf /\ todo'[r] = op[r].bucket.meta
      /\ last'[r] = op[r].bucket.is_last
      /\ UNCHANGED <<merging, tensor, copies, sender, request, loaded>>
  BY <1>3, WorkerParts, OtherBuffer DEF TakeBucket, Types, ReceiverType
<1>5. ~Waiting(r)'
  <2>1. CASE op[r].bucket.is_last  BY <1>4, <2>1 DEF Waiting
  <2>2. CASE ~op[r].bucket.is_last
    <3>1. op' = [op EXCEPT ![r] = Operation(read_buf[r], NoBucket)]  BY <2>2 DEF TakeBucket
    <3>2. op'[r].stage = "running"  BY <3>1, WorkerParts DEF Types, LinkType, Operation
    <3> QED BY <3>2 DEF Waiting
  <2> QED BY <2>1, <2>2
<1>6. Taken(r) = Start(op[r].bucket.meta, Reached) /\ Taken(r)' = Reached
  BY <1>2, <1>3, <1>5 DEF Taken
<1>7. Place(r) = Taken(r) /\ Place(r)' = Place(r)
  BY <1>3, <1>4, <1>6, EmptyChain DEF Place
<1>8. Receives(r)'  BY <1>2, <1>3, <1>4, <1>5, <1>6 DEF Receives
<1>9. Merges(r)'  BY <1>2, <1>4, <1>7, MergesKept DEF sender
<1>10. Ordered(r)'  BY <1>2, <1>4, <1>7, OrderedKept DEF sender, Busy
<1>11. Asks(r)'  BY <1>2, <1>4, AsksKept DEF sender
<1>12. Copied(r)'  BY <1>2, <1>3, <1>4, CopiedKept, EmptySeq DEF sender
<1>13. Loads(r)'  BY <1>2, <1>4 DEF Loads
<1> QED BY <1>8, <1>9, <1>10, <1>11, <1>12, <1>13 DEF Stages

\* What the generator goes by: the chunk it comes to is the next one of the
\* weights, continues the weight that is put together, and is in its buffer.
Coming(r) == Head(todo[r])

LEMMA NextYielded ==
  ASSUME Types, NEW r \in Workers, Receives(r), Merges(r), todo[r] # <<>>, hand[r].w = 0
  PROVE  /\ Coming(r) \in CutChunk /\ Place(r) = Cursor(Coming(r)) /\ Place(r).w = Coming(r).w /\ Place(r).from = Coming(r).from
         /\ Coming(r).from + Coming(r).size <= Sizes[Coming(r).w]
         /\ \A i \in 0 .. Coming(r).size - 1 : mem[r][read_buf[r]][Coming(r).at + i] = <<Coming(r).w, Coming(r).from + i>>
         /\ Chain(Tail(todo[r]), Taken(r)) /\ Start(Tail(todo[r]), Taken(r)) = After(Coming(r))
         /\ Holds(mem[r][read_buf[r]], Tail(todo[r]))
         /\ merging[r].w # 0 => merging[r].w = Coming(r).w /\ merging[r].at = Coming(r).from /\ 0 < Coming(r).from
         /\ merging[r].w = 0 => Coming(r).from = 0
         /\ Merged(r) = Coming(r).from /\ (Coming(r).from > 0 => Merging(r) = Coming(r).w)
<1>1. todo[r] \in Seq(CutChunk) /\ Chain(todo[r], Taken(r)) /\ Holds(mem[r][read_buf[r]], todo[r])
  BY WorkerParts DEF Receives
<1>2. /\ Coming(r) \in CutChunk /\ Place(r) = Cursor(Coming(r)) /\ Coming(r).from + Coming(r).size <= Sizes[Coming(r).w]
      /\ Chain(Tail(todo[r]), Taken(r)) /\ Start(Tail(todo[r]), Taken(r)) = After(Coming(r))
  BY <1>1, ChainTail DEF Place, Coming
<1>3. /\ Holds(mem[r][read_buf[r]], Tail(todo[r]))
      /\ \A i \in 0 .. Coming(r).size - 1 : mem[r][read_buf[r]][Coming(r).at + i] = <<Coming(r).w, Coming(r).from + i>>
  <2>1. \A i \in 0 .. Head(todo[r]).size - 1 :
          mem[r][read_buf[r]][Head(todo[r]).at + i] = <<Head(todo[r]).w, Head(todo[r]).from + i>>
    BY <1>1, HoldsTail
  <2>2. Holds(mem[r][read_buf[r]], Tail(todo[r]))  BY <1>1, HoldsTail
  <2> QED BY <2>1, <2>2 DEF Coming
<1>4. Place(r).w = Coming(r).w /\ Place(r).from = Coming(r).from  BY <1>2 DEF Cursor
<1>5. merging[r].w # 0 => merging[r].w = Coming(r).w /\ merging[r].at = Coming(r).from /\ 0 < Coming(r).from
  <2>1. ASSUME merging[r].w # 0
        PROVE  Place(r) = [w |-> merging[r].w, from |-> merging[r].at] /\ 0 < merging[r].at
    BY <2>1 DEF Merges
  <2>2. ASSUME merging[r].w # 0
        PROVE  Place(r).w = merging[r].w /\ Place(r).from = merging[r].at
    BY <2>1, <2>2
  <2> QED BY <1>4, <2>1, <2>2
<1>6. merging[r].w = 0 => Coming(r).from = 0  BY <1>4 DEF Merges
<1>7. Merged(r) = Coming(r).from /\ (Coming(r).from > 0 => Merging(r) = Coming(r).w)
  BY <1>5, <1>6 DEF Merged, Merging
<1> QED BY <1>2, <1>3, <1>4, <1>5, <1>6, <1>7

\* Nothing of Asks is disturbed while the vLLM process has no request.
LEMMA AsksIdle ==
  ASSUME NEW r \in Workers, Asks(r), ~Busy(r), request'[r] = request[r],
         ipc_meta'[r] = ipc_meta[r], ipc_offset'[r] = ipc_offset[r]
  PROVE  Asks(r)' /\ ~Busy(r)'
<1>1. ~Busy(r)'  BY DEF Busy
<1> QED BY <1>1 DEF Asks

\* The next weight, or the next chunk of a larger one, is taken from todo.
LEMMA TakesFromTodo ==
  ASSUME NEW r \in Workers, Receives(r), Reached' = Reached, mem'[r] = mem[r],
         op'[r] = op[r], last'[r] = last[r], read_buf'[r] = read_buf[r],
         todo'[r] = Tail(todo[r]), Chain(Tail(todo[r]), Taken(r)),
         Holds(mem[r][read_buf[r]], Tail(todo[r]))
  PROVE  Receives(r)' /\ Place(r)' = Start(Tail(todo[r]), Taken(r))
<1>1. Waiting(r)' = Waiting(r) /\ Taken(r)' = Taken(r)  BY DEF Waiting, Taken
<1> QED BY <1>1 DEF Receives, Place

LEMMA YieldViewStages ==
  ASSUME Types, Shapes, Sends, NEW r \in Workers, Stages(r), YieldView(r)
  PROVE  Stages(r)'
<1>1. WorkerSteps(r)  BY DEF WorkerSteps
<1>2. /\ Receives(r) /\ Merges(r) /\ Ordered(r) /\ Asks(r) /\ Copied(r) /\ Loads(r)
      /\ Reached' = Reached /\ mem'[r] = mem[r] /\ Len(copies[r]) \in Nat
  BY <1>1, WorkerStep
<1> DEFINE c == Coming(r)
<1>3. /\ todo[r] # <<>> /\ ~Large(c.w) /\ hand[r].w = 0 /\ request[r].stage = "none"
      /\ hand'[r] = [w |-> c.w, buf |-> read_buf[r], at |-> c.at]
      /\ todo'[r] = Tail(todo[r])
      /\ UNCHANGED <<link, read_buf, last, merging, tensor, copies, ipc, ipc_meta,
                     ipc_offset, request, loaded>>
  BY DEF YieldView, Asked, Coming, Types, SenderType, ReceiverType
<1> HIDE DEF c
<1>4. /\ c \in CutChunk /\ Place(r) = Cursor(c) /\ Place(r).w = c.w /\ Place(r).from = c.from
      /\ \A i \in 0 .. c.size - 1 : mem[r][read_buf[r]][c.at + i] = <<c.w, c.from + i>>
      /\ Chain(Tail(todo[r]), Taken(r)) /\ Start(Tail(todo[r]), Taken(r)) = After(c)
      /\ Holds(mem[r][read_buf[r]], Tail(todo[r]))
      /\ merging[r].w # 0 => 0 < c.from
      /\ Merged(r) = c.from
  BY <1>2, <1>3, NextYielded DEF c
<1>5. /\ c.w \in Nat \ {0} /\ c.from = 0 /\ c.size = Sizes[c.w] /\ Sizes[c.w] \in Nat \ {0}
  BY <1>3, <1>4, CutChunkParts
<1>6. merging[r].w = 0 /\ Merged(r) = 0  BY <1>4, <1>5
<1>7. After(c) = [w |-> c.w + 1, from |-> 0]  BY <1>5 DEF After
<1>8. Receives(r)' /\ Place(r)' = After(c)
  BY <1>2, <1>3, <1>4, TakesFromTodo DEF link
<1>9. Place(r)'.w = c.w + 1 /\ Place(r)'.from = 0  BY <1>7, <1>8
<1>10. Merges(r)'  BY <1>3, <1>6, <1>9 DEF Merges
<1>11. Asks(r)' /\ ~Busy(r)' /\ ~Busy(r)  BY <1>2, <1>3, AsksIdle DEF Busy
<1>12. hand'[r].w = c.w /\ hand'[r].at = c.at  BY <1>3
<1>13. Ordered(r)'
  <2>1. NotPacked(r)' = c.w /\ NotPacked(r) = c.w
    BY <1>3, <1>4, <1>5, <1>12 DEF NotPacked
  <2> QED BY <1>2, <1>3, <1>9, <1>11, <1>12, <2>1 DEF Ordered
<1>14. Copied(r)'
  <2>1. Merged(r)' = 0  BY <1>3, <1>6, <1>12 DEF Merged
  <2>2. \A to : Filled(r, to)' = Filled(r, to) /\ Value(r, to)' = Value(r, to)
    BY <1>3, <1>6, <2>1 DEF Filled, Value
  <2>3. \A to, s, u : Due(r, to, s, u)' <=> Due(r, to, s, u)
    BY <1>3, <1>6, <2>1 DEF Due
  <2>4. ASSUME NEW i \in Units(c.w)  PROVE mem[r][read_buf[r]][c.at + i] = <<c.w, i>>
    <3>1. i \in 0 .. c.size - 1 /\ c.from + i = i  BY <1>5, <2>4 DEF Units
    <3> QED BY <1>4, <3>1
  <2>5. ASSUME NEW k \in 1 .. Len(copies'[r])
        PROVE  (copies[r][k].at + copies[r][k].size <= Filled(r, copies[r][k].to))'
    <3>1. copies[r][k].at + copies[r][k].size <= Filled(r, copies[r][k].to)
      BY <1>2, <1>3, <2>5 DEF Copied
    <3> QED BY <1>3, <1>6, <2>1, <3>1 DEF Filled
  <2>6. ASSUME NEW k \in 1 .. Len(copies'[r]), NEW s, NEW u,
               Lands(copies'[r][k], s), Due(r, copies[r][k].to, s, u)'
        PROVE  mem'[r][read_buf'[r]][copies'[r][k].from + s - copies'[r][k].at] = u
    <3>1. Due(r, copies[r][k].to, s, u)  BY <1>3, <1>6, <2>1, <2>6 DEF Due
    <3> QED BY <1>2, <1>3, <2>6, <3>1 DEF Copied, link
  <2>7. ASSUME NEW to \in {"ipc", "tensor"}, NEW s, NEW u, Due(r, to, s, u)'
        PROVE  \/ Value(r, to)'[s] = u
               \/ \E k \in 1 .. Len(copies'[r]) : copies'[r][k].to = to /\ Lands(copies'[r][k], s)
    <3>1. Due(r, to, s, u)  BY <2>3, <2>7
    <3>2. \/ Value(r, to)[s] = u
          \/ \E k \in 1 .. Len(copies[r]) : copies[r][k].to = to /\ Lands(copies[r][k], s)
      BY <1>2, <3>1 DEF Copied
    <3> QED BY <1>3, <2>2, <3>2
  <2>8. /\ hand'[r].w # 0 /\ ~Large(hand'[r].w) =>
             \A i \in Units(hand'[r].w) :
               mem'[r][read_buf'[r]][hand'[r].at + i] = <<hand'[r].w, i>>
        /\ Merged(r)' > 0 => DOMAIN tensor'[r] = Units(Merging(r)')
    <3>1. mem'[r] = mem[r] /\ read_buf'[r] = read_buf[r]  BY <1>2, <1>3
    <3> QED BY <1>12, <2>1, <2>4, <3>1
  <2> QED BY <2>5, <2>6, <2>7, <2>8 DEF Copied, Units
<1>15. Loads(r)'  BY <1>2, <1>3 DEF Loads
<1> QED BY <1>8, <1>10, <1>11, <1>13, <1>14, <1>15 DEF Stages

LEMMA CutCopyParts ==
  ASSUME NEW r \in Workers, Types, NEW k \in 1 .. Len(copies[r])
  PROVE  /\ copies[r][k].from \in Nat /\ copies[r][k].size \in Nat \ {0} /\ copies[r][k].at \in Nat
         /\ copies[r][k].to \in {"ipc", "tensor"}
<1>1. copies[r] \in Seq(CutCopy)  BY WorkerParts
<1>2. copies[r][k] \in CutCopy  BY <1>1
<1> QED BY <1>2 DEF CutCopy, Copy, Slots

LEMMA MergeChunkStages ==
  ASSUME Types, Shapes, Sends, NEW r \in Workers, Stages(r), MergeChunk(r)
  PROVE  Stages(r)'
<1>1. WorkerSteps(r)  BY DEF WorkerSteps
<1>2. /\ Receives(r) /\ Merges(r) /\ Ordered(r) /\ Asks(r) /\ Copied(r) /\ Loads(r)
      /\ Reached' = Reached /\ mem'[r] = mem[r] /\ Len(copies[r]) \in Nat
  BY <1>1, WorkerStep
<1> DEFINE c == Coming(r)
           new == [buf |-> read_buf[r], from |-> c.at, size |-> c.size,
                   to |-> "tensor", at |-> c.from]
<1>3. /\ todo[r] # <<>> /\ Large(c.w) /\ hand[r].w = 0 /\ request[r].stage = "none"
      /\ todo'[r] = Tail(todo[r]) /\ copies'[r] = Append(copies[r], new)
      /\ tensor'[r] = IF merging[r].w # 0 THEN tensor[r] ELSE [i \in Units(c.w) |-> Empty]
      /\ UNCHANGED <<link, read_buf, last, ipc, ipc_meta, ipc_offset, request, loaded>>
  BY DEF MergeChunk, Asked, Coming, Types, SenderType, ReceiverType, Shapes
<1>4. /\ c \in CutChunk /\ Place(r) = Cursor(c) /\ Place(r).w = c.w /\ Place(r).from = c.from
      /\ c.from + c.size <= Sizes[c.w]
      /\ \A i \in 0 .. c.size - 1 : mem[r][read_buf[r]][c.at + i] = <<c.w, c.from + i>>
      /\ Chain(Tail(todo[r]), Taken(r)) /\ Start(Tail(todo[r]), Taken(r)) = After(c)
      /\ Holds(mem[r][read_buf[r]], Tail(todo[r]))
      /\ merging[r].w # 0 => merging[r].w = c.w /\ merging[r].at = c.from /\ 0 < c.from
      /\ merging[r].w = 0 => c.from = 0
      /\ Merged(r) = c.from /\ (c.from > 0 => Merging(r) = c.w)
  BY <1>2, <1>3, NextYielded DEF c
<1>5. /\ c.w \in Nat \ {0} /\ c.from \in Nat /\ c.size \in Nat \ {0} /\ Sizes[c.w] \in Nat \ {0}
      /\ c.at \in Nat /\ c.w \in Weights
  BY <1>4, CutChunkParts
<1>6. Receives(r)' /\ Place(r)' = After(c)
  BY <1>2, <1>3, <1>4, TakesFromTodo DEF link
\* After the step c.from + c.size units of the weight are put together.
<1>7. /\ IF c.from + c.size = Sizes[c.w]
         THEN merging'[r] = NoWeight /\ hand'[r].w = c.w
         ELSE merging'[r] = [w |-> c.w, at |-> c.from + c.size] /\ hand'[r].w = 0
  <2>1. merging \in [Workers -> [w : 0 .. Len(Sizes), at : Nat]] /\ hand \in [Workers -> HandSet]
    BY DEF Types, ReceiverType, SenderType
  <2>2. CASE c.from + c.size = Sizes[c.w]
    BY <2>1, <2>2 DEF MergeChunk, Coming
  <2>3. CASE c.from + c.size # Sizes[c.w]
    <3>1. /\ hand' = hand
          /\ merging' = [merging EXCEPT ![r] =
               [w |-> c.w, at |-> (IF merging[r].w = 0 THEN 0 ELSE merging[r].at) + c.size]]
      BY <2>3 DEF MergeChunk, Coming
    <3>2. (IF merging[r].w = 0 THEN 0 ELSE merging[r].at) = c.from  BY <1>4
    <3>3. merging'[r] = [w |-> c.w, at |-> c.from + c.size]  BY <2>1, <3>1, <3>2
    <3> QED BY <1>3, <2>3, <3>1, <3>3
  <2> QED BY <2>2, <2>3
<1> HIDE DEF c
<1>8. /\ Merged(r)' = c.from + c.size /\ Merging(r)' = c.w
      /\ hand'[r].w # 0 => hand'[r].w = c.w
  <2>1. CASE c.from + c.size = Sizes[c.w]
    <3>1. merging'[r].w = 0 /\ hand'[r].w = c.w  BY <1>7, <2>1 DEF NoWeight
    <3> QED BY <1>3, <1>5, <2>1, <3>1 DEF Merged, Merging
  <2>2. CASE c.from + c.size # Sizes[c.w]
    <3>1. merging'[r].w = c.w /\ merging'[r].at = c.from + c.size /\ hand'[r].w = 0
      BY <1>7, <2>2
    <3> QED BY <1>5, <3>1 DEF Merged, Merging
  <2> QED BY <2>1, <2>2
<1>9. Merges(r)' /\ Ordered(r)'
  <2>1. Busy(r)' = Busy(r) /\ ~Busy(r)  BY <1>3 DEF Busy
  <2>2. NotPacked(r) = c.w  BY <1>3, <1>4 DEF NotPacked
  <2>3. CASE c.from + c.size = Sizes[c.w]
    <3>1. Place(r)' = [w |-> c.w + 1, from |-> 0]  BY <1>5, <1>6, <2>3 DEF After
    <3>2. Place(r)'.w = c.w + 1 /\ Place(r)'.from = 0  BY <3>1
    <3>3. merging'[r].w = 0 /\ hand'[r].w = c.w  BY <1>7, <2>3 DEF NoWeight
    <3>4. NotPacked(r)' = c.w  BY <1>5, <3>3 DEF NotPacked
    <3> QED BY <1>2, <1>3, <2>1, <2>2, <3>2, <3>3, <3>4 DEF Merges, Ordered
  <2>4. CASE c.from + c.size # Sizes[c.w]
    <3>1. Place(r)' = [w |-> c.w, from |-> c.from + c.size] /\ c.from + c.size < Sizes[c.w]
      <4>1. c.from + c.size < Sizes[c.w]
        <5>1. c.from \in Nat /\ c.size \in Nat /\ Sizes[c.w] \in Nat  BY <1>5
        <5>2. c.from + c.size <= Sizes[c.w]  BY <1>4
        <5> QED BY <2>4, <5>1, <5>2
      <4> QED BY <1>6, <4>1 DEF After
    <3>2. Place(r)'.w = c.w /\ Place(r)'.from = c.from + c.size  BY <3>1
    <3>3. merging'[r].w = c.w /\ merging'[r].at = c.from + c.size /\ hand'[r].w = 0
      BY <1>7, <2>4
    <3>4. NotPacked(r)' = c.w  BY <3>2, <3>3 DEF NotPacked
    <3>5. 0 < c.from + c.size  BY <1>5
    <3>6. Merges(r)'  BY <1>5, <3>1, <3>3, <3>5 DEF Merges
    <3>7. Ordered(r)'  BY <1>2, <1>3, <2>1, <2>2, <3>3, <3>4 DEF Ordered
    <3> QED BY <3>6, <3>7
  <2> QED BY <2>3, <2>4
<1>10. Asks(r)'  BY <1>2, <1>3, AsksIdle DEF Busy
<1>11. /\ Len(copies'[r]) = Len(copies[r]) + 1 /\ copies'[r][Len(copies[r]) + 1] = new
       /\ \A k \in 1 .. Len(copies[r]) : copies'[r][k] = copies[r][k]
  <2> HIDE DEF new
  <2> QED BY <1>3, WorkerParts
<1>12. /\ new.from = c.at /\ new.size = c.size /\ new.to = "tensor" /\ new.at = c.from
  OBVIOUS
<1> HIDE DEF new
<1>13. \A s, u : Due(r, "ipc", s, u)' <=> Due(r, "ipc", s, u)  BY <1>3 DEF Due
\* What was due of the weight is due of it still.
<1>14. ASSUME NEW s, NEW u, Due(r, "tensor", s, u)'
       PROVE  /\ s \in 0 .. c.from + c.size - 1 /\ u = <<c.w, s>>
              /\ s < c.from => Due(r, "tensor", s, u) /\ tensor'[r] = tensor[r]
  <2>1. s \in 0 .. c.from + c.size - 1 /\ u = <<c.w, s>>
    <3>1. s \in 0 .. Merged(r)' - 1 /\ u = <<Merging(r)', s>>  BY <1>14 DEF Due
    <3>2. Merged(r)' = c.from + c.size /\ Merging(r)' = c.w  BY <1>8
    <3>3. c.from \in Nat /\ c.size \in Nat  BY <1>5
    <3>4. u = <<c.w, s>>  BY <3>1, <3>2
    <3> QED BY <3>1, <3>2, <3>3, <3>4
  <2>2. ASSUME s < c.from  PROVE Due(r, "tensor", s, u) /\ tensor'[r] = tensor[r]
    <3>1. c.from > 0 /\ s \in 0 .. c.from - 1  BY <1>5, <2>1, <2>2
    <3>2. merging[r].w # 0  BY <1>4, <3>1
    <3> QED BY <1>3, <1>4, <2>1, <3>1, <3>2 DEF Due
  <2> QED BY <2>1, <2>2
<1>15. DOMAIN tensor'[r] = Units(c.w)
  <2>1. CASE merging[r].w # 0
    <3>1. c.from > 0 /\ Merging(r) = c.w /\ Merged(r) = c.from  BY <1>4, <2>1
    <3>2. DOMAIN tensor[r] = Units(Merging(r))  BY <1>2, <3>1 DEF Copied
    <3> QED BY <1>3, <2>1, <3>1, <3>2
  <2>2. CASE merging[r].w = 0  BY <1>3, <2>2
  <2> QED BY <2>1, <2>2
<1>16. ASSUME NEW k \in 1 .. Len(copies'[r])
       PROVE  (copies[r][k].at + copies[r][k].size <= Filled(r, copies[r][k].to))'
  <2>1. CASE k = Len(copies[r]) + 1
    <3>1. copies'[r][k] = new  BY <1>11, <2>1
    <3>2. new.at + new.size <= Merged(r)'  BY <1>5, <1>8, <1>12
    <3> QED BY <1>12, <3>1, <3>2 DEF Filled
  <2>2. CASE k # Len(copies[r]) + 1
    <3>1. k \in 1 .. Len(copies[r]) /\ copies'[r][k] = copies[r][k]
      BY <1>2, <1>11, <1>16, <2>2
    <3>2. copies[r][k].at + copies[r][k].size <= Filled(r, copies[r][k].to)
      BY <1>2, <3>1 DEF Copied
    <3>3. /\ copies[r][k].at \in Nat /\ copies[r][k].size \in Nat
          /\ copies[r][k].to \in {"ipc", "tensor"}
      BY <3>1, CutCopyParts
    <3>4. CASE copies[r][k].to = "ipc"  BY <1>3, <3>1, <3>2, <3>4 DEF Filled
    <3>5. CASE copies[r][k].to = "tensor"
      <4>1. copies[r][k].at + copies[r][k].size <= c.from  BY <1>4, <3>2, <3>5 DEF Filled
      <4>2. copies[r][k].at + copies[r][k].size <= c.from + c.size
        <5>1. c.from \in Nat /\ c.size \in Nat  BY <1>5
        <5> QED BY <3>3, <4>1, <5>1
      <4>3. copies[r][k].at + copies[r][k].size <= Merged(r)'  BY <1>8, <4>2
      <4> QED BY <3>1, <3>5, <4>3 DEF Filled
    <3> QED BY <3>3, <3>4, <3>5
  <2> QED BY <2>1, <2>2
<1>17. ASSUME NEW k \in 1 .. Len(copies'[r]), NEW s, NEW u,
              Lands(copies'[r][k], s), Due(r, copies[r][k].to, s, u)'
       PROVE  mem'[r][read_buf'[r]][copies'[r][k].from + s - copies'[r][k].at] = u
  <2>1. mem'[r][read_buf'[r]] = mem[r][read_buf[r]]  BY <1>2, <1>3
  <2>2. CASE k = Len(copies[r]) + 1
    <3>1. copies'[r][k] = new  BY <1>11, <2>2
    <3>2. s \in c.from .. c.from + c.size - 1  BY <1>12, <1>17, <3>1 DEF Lands
    <3>3. Due(r, "tensor", s, u)'  BY <1>12, <1>17, <3>1 DEF Due
    <3>4. u = <<c.w, s>>  BY <1>14, <3>3
    <3>5. s - c.from \in 0 .. c.size - 1 /\ c.from + (s - c.from) = s
          /\ c.at + (s - c.from) = c.at + s - c.from
      BY <1>5, <3>2
    <3>6. mem[r][read_buf[r]][c.at + s - c.from] = <<c.w, s>>  BY <1>4, <3>5
    <3> QED BY <1>12, <2>1, <3>1, <3>4, <3>6
  <2>3. CASE k # Len(copies[r]) + 1
    <3>1. k \in 1 .. Len(copies[r]) /\ copies'[r][k] = copies[r][k]
      BY <1>2, <1>11, <1>17, <2>3
    <3>2. /\ copies[r][k].at \in Nat /\ copies[r][k].size \in Nat
          /\ copies[r][k].to \in {"ipc", "tensor"}
      BY <3>1, CutCopyParts
    <3>3. Due(r, copies[r][k].to, s, u)
      <4>1. CASE copies[r][k].to = "ipc"
        <5>1. Due(r, "ipc", s, u)'  BY <1>17, <3>1, <4>1 DEF Due
        <5> QED BY <1>13, <4>1, <5>1
      <4>2. CASE copies[r][k].to = "tensor"
        <5>1. Due(r, "tensor", s, u)'  BY <1>17, <3>1, <4>2 DEF Due
        <5>2. copies[r][k].at + copies[r][k].size <= c.from
          BY <1>2, <1>4, <3>1, <4>2 DEF Copied, Filled
        <5>3. s < c.from  BY <1>5, <1>17, <3>1, <3>2, <5>2 DEF Lands
        <5> QED BY <1>14, <4>2, <5>1, <5>3
      <4> QED BY <3>2, <4>1, <4>2
    <3>4. mem[r][read_buf[r]][copies[r][k].from + s - copies[r][k].at] = u
      BY <1>2, <1>17, <3>1, <3>3 DEF Copied
    <3> QED BY <2>1, <3>1, <3>4
  <2> QED BY <2>2, <2>3
<1>18. ASSUME NEW to \in {"ipc", "tensor"}, NEW s, NEW u, Due(r, to, s, u)'
       PROVE  \/ Value(r, to)'[s] = u
              \/ \E k \in 1 .. Len(copies'[r]) : copies'[r][k].to = to /\ Lands(copies'[r][k], s)
  <2>1. ASSUME Due(r, to, s, u), Value(r, to)' = Value(r, to)
        PROVE  \/ Value(r, to)'[s] = u
               \/ \E k \in 1 .. Len(copies'[r]) : copies'[r][k].to = to /\ Lands(copies'[r][k], s)
    <3>1. \/ Value(r, to)[s] = u
          \/ \E k \in 1 .. Len(copies[r]) : copies[r][k].to = to /\ Lands(copies[r][k], s)
      BY <1>2, <2>1 DEF Copied
    <3>2. ASSUME NEW k \in 1 .. Len(copies[r]), copies[r][k].to = to, Lands(copies[r][k], s)
          PROVE  \E j \in 1 .. Len(copies'[r]) : copies'[r][j].to = to /\ Lands(copies'[r][j], s)
      <4>1. k \in 1 .. Len(copies'[r]) /\ copies'[r][k] = copies[r][k]  BY <1>2, <1>11, <3>2
      <4> QED BY <3>2, <4>1
    <3> QED BY <2>1, <3>1, <3>2
  <2>2. CASE to = "ipc"
    <3>1. Due(r, to, s, u)  BY <1>13, <1>18, <2>2
    <3>2. Value(r, to)' = Value(r, to)  BY <1>3, <2>2 DEF Value
    <3> QED BY <2>1, <3>1, <3>2
  <2>3. CASE to = "tensor" /\ s < c.from
    <3>1. Due(r, "tensor", s, u)'  BY <1>18, <2>3
    <3>2. Due(r, to, s, u) /\ tensor'[r] = tensor[r]  BY <1>14, <2>3, <3>1
    <3>3. Value(r, to)' = Value(r, to)  BY <2>3, <3>2 DEF Value
    <3> QED BY <2>1, <3>2, <3>3
  <2>4. CASE to = "tensor" /\ ~(s < c.from)
    <3>1. Due(r, "tensor", s, u)'  BY <1>18, <2>4
    <3>2. s \in 0 .. c.from + c.size - 1  BY <1>14, <3>1
    <3>3. s \in new.at .. new.at + new.size - 1  BY <1>5, <1>12, <2>4, <3>2
    <3>4. Lands(copies'[r][Len(copies[r]) + 1], s)  BY <1>11, <3>3 DEF Lands
    <3>5. Len(copies[r]) + 1 \in 1 .. Len(copies'[r])  BY <1>2, <1>11
    <3> QED BY <1>11, <1>12, <2>4, <3>4, <3>5
  <2> QED BY <2>2, <2>3, <2>4
<1>19. Copied(r)'
  <2>1. hand'[r].w # 0 => Large(hand'[r].w)  BY <1>3, <1>8
  <2>2. DOMAIN tensor'[r] = Units(Merging(r)')  BY <1>8, <1>15
  <2> QED BY <1>16, <1>17, <1>18, <2>1, <2>2 DEF Copied, Units
<1>20. Loads(r)'  BY <1>2, <1>3 DEF Loads
<1> QED BY <1>6, <1>9, <1>10, <1>19, <1>20 DEF Stages

\* A place at which something is due is one of the buffer or of the tensor.
LEMMA DueWithin ==
  ASSUME Types, NEW r \in Workers, Merges(r), Asks(r), Copied(r),
         NEW to \in {"ipc", "tensor"}, NEW s, NEW u, Due(r, to, s, u)
  PROVE  /\ s \in Int
         /\ to = "ipc" => s \in Slots /\ s < ipc_offset[r]
         /\ to = "tensor" => s \in DOMAIN tensor[r] /\ s < Merged(r)
<1>1. CASE to = "ipc"
  <2>1. PICK k \in 1 .. Len(ipc_meta[r]) :
          s \in ipc_meta[r][k].at .. ipc_meta[r][k].at + Sizes[ipc_meta[r][k].w] - 1
    BY <1>1 DEF Due
  <2> DEFINE e == ipc_meta[r][k]
  <2>2. e \in Entry  BY WorkerParts
  <2>3. e.at \in Nat /\ Sizes[e.w] \in Nat \ {0}  BY <2>2 DEF Entry, Weights, Slots
  <2>4. e.at + Sizes[e.w] <= ipc_offset[r]  BY DEF Asks
  <2>5. ipc_offset[r] \in Nat /\ ipc_offset[r] <= BucketSize /\ BucketSize \in Nat
    BY WorkerParts
  <2>6. s \in e.at .. e.at + Sizes[e.w] - 1  BY <2>1
  <2> HIDE DEF e
  <2>7. s \in Nat /\ s < e.at + Sizes[e.w]  BY <2>3, <2>6
  <2> QED BY <1>1, <2>3, <2>4, <2>5, <2>7 DEF Slots
<1>2. CASE to = "tensor"
  <2>1. s \in 0 .. Merged(r) - 1  BY <1>2 DEF Due
  <2>2. Merged(r) \in Nat /\ (Merged(r) > 0 => Merged(r) <= Sizes[Merging(r)])
        /\ (Merged(r) > 0 => Sizes[Merging(r)] \in Nat)
    <3>1. merging[r].w \in 0 .. Len(Sizes) /\ merging[r].at \in Nat /\ hand[r].w \in 0 .. Len(Sizes)
      BY WorkerParts
    <3>2. CASE merging[r].w # 0
      BY <3>1, <3>2 DEF Merged, Merging, Merges
    <3>3. CASE merging[r].w = 0 /\ hand[r].w # 0
      BY <3>1, <3>3 DEF Merged, Merging
    <3>4. CASE merging[r].w = 0 /\ hand[r].w = 0  BY <3>4 DEF Merged
    <3> QED BY <3>2, <3>3, <3>4
  <2>3. s \in Nat /\ s < Merged(r) /\ Merged(r) > 0  BY <2>1, <2>2
  <2>4. DOMAIN tensor[r] = 0 .. Sizes[Merging(r)] - 1  BY <2>3 DEF Copied, Units
  <2>5. s \in 0 .. Sizes[Merging(r)] - 1  BY <2>2, <2>3
  <2> QED BY <1>2, <2>3, <2>4, <2>5
<1> QED BY <1>1, <1>2

LEMMA CopyLandsStages ==
  ASSUME Types, Owned, Shapes, Sends, NEW r \in Workers, Stages(r), CopyLands(r)
  PROVE  Stages(r)'
<1>1. WorkerSteps(r)  BY DEF WorkerSteps
<1>2. /\ Receives(r) /\ Merges(r) /\ Ordered(r) /\ Asks(r) /\ Copied(r) /\ Loads(r)
      /\ Reached' = Reached /\ mem'[r] = mem[r] /\ Len(copies[r]) \in Nat
  BY <1>1, WorkerStep
<1> DEFINE c == Head(copies[r])
           here == c.at .. c.at + c.size - 1
           unit(i) == mem[r][c.buf][c.from + i - c.at]
<1>3. /\ copies[r] # <<>> /\ copies'[r] = Tail(copies[r])
      /\ ipc'[r] = IF c.to = "tensor" THEN ipc[r]
                   ELSE [i \in Slots |-> IF i \in here THEN unit(i) ELSE ipc[r][i]]
      /\ tensor'[r] = IF c.to = "ipc" THEN tensor[r]
                      ELSE [i \in DOMAIN tensor[r] |->
                              IF i \in here THEN unit(i) ELSE tensor[r][i]]
      /\ UNCHANGED <<trainer, link, read_buf, todo, last, merging, hand, ipc_meta, ipc_offset,
                     request, loaded>>
  BY DEF CopyLands, Types, ReceiverType, SenderType, Shapes
<1>4. /\ Len(copies[r]) \in Nat \ {0} /\ Len(copies'[r]) = Len(copies[r]) - 1
      /\ c = copies[r][1] /\ \A k \in 1 .. Len(copies'[r]) : copies'[r][k] = copies[r][k + 1]
  <2>1. copies[r] \in Seq(CutCopy) /\ copies[r] # <<>> /\ copies'[r] = Tail(copies[r])
    BY <1>3, WorkerParts
  <2>2. /\ Len(copies[r]) \in Nat \ {0} /\ Len(Tail(copies[r])) = Len(copies[r]) - 1
        /\ Head(copies[r]) = copies[r][1]
        /\ \A k \in 1 .. Len(Tail(copies[r])) : Tail(copies[r])[k] = copies[r][k + 1]
    BY <2>1, TailItems
  <2> QED BY <2>1, <2>2
<1>5. 1 \in 1 .. Len(copies[r]) /\ c.buf = read_buf[r]  BY <1>4 DEF Owned, Queued
<1>6. c.at \in Nat /\ c.size \in Nat /\ c.from \in Nat /\ c.to \in {"ipc", "tensor"}
  BY <1>4, <1>5, CutCopyParts
<1> HIDE DEF c
<1>7. Receives(r)' /\ Place(r)' = Place(r)  BY <1>2, <1>3, ReceivesKept DEF link
<1>8. Merges(r)'  BY <1>2, <1>3, <1>7, MergesKept
<1>9. Ordered(r)'  BY <1>2, <1>3, <1>7, OrderedKept DEF Busy
<1>10. Asks(r)'
  <2>1. Busy(r)' = Busy(r)  BY <1>3 DEF Busy
  <2>2. Busy(r) /\ copies[r] = <<>> => copies'[r] = <<>>  BY <1>3
  <2> QED BY <1>2, <1>3, <2>2, AsksKept
<1>11. Merged(r)' = Merged(r) /\ Merging(r)' = Merging(r)  BY <1>3 DEF Merged, Merging
<1>12. \A to, s, u : Due(r, to, s, u)' <=> Due(r, to, s, u)  BY <1>3, <1>11 DEF Due
<1>13. DOMAIN tensor'[r] = DOMAIN tensor[r]  BY <1>3
<1>14. ASSUME NEW k \in 1 .. Len(copies'[r])
       PROVE  k + 1 \in 1 .. Len(copies[r]) /\ copies'[r][k] = copies[r][k + 1]
  BY <1>4, <1>14
<1>15. ASSUME NEW k \in 1 .. Len(copies'[r])
       PROVE  (copies[r][k].at + copies[r][k].size <= Filled(r, copies[r][k].to))'
  <2>1. copies[r][k + 1].at + copies[r][k + 1].size <= Filled(r, copies[r][k + 1].to)
    BY <1>2, <1>14, <1>15 DEF Copied
  <2> QED BY <1>3, <1>11, <1>14, <1>15, <2>1 DEF Filled
<1>16. ASSUME NEW k \in 1 .. Len(copies'[r]), NEW s, NEW u,
              Lands(copies'[r][k], s), Due(r, copies[r][k].to, s, u)'
       PROVE  mem'[r][read_buf'[r]][copies'[r][k].from + s - copies'[r][k].at] = u
  <2>1. k + 1 \in 1 .. Len(copies[r]) /\ copies'[r][k] = copies[r][k + 1]  BY <1>14, <1>16
  <2>2. Due(r, copies[r][k + 1].to, s, u)  BY <1>3, <1>11, <1>16, <2>1 DEF Due
  <2>3. mem[r][read_buf[r]][copies[r][k + 1].from + s - copies[r][k + 1].at] = u
    BY <1>2, <1>16, <2>1, <2>2 DEF Copied
  <2> QED BY <1>2, <1>3, <2>1, <2>3
\* What lands is what is due, and what was there stays where it does not.
<1>17. ASSUME NEW to \in {"ipc", "tensor"}, NEW s, NEW u, Due(r, to, s, u)'
       PROVE  \/ Value(r, to)'[s] = u
              \/ \E k \in 1 .. Len(copies'[r]) : copies'[r][k].to = to /\ Lands(copies'[r][k], s)
  <2>1. Due(r, to, s, u)  BY <1>12, <1>17
  <2>2. to = "ipc" => s \in Slots
    BY <1>2, <2>1, DueWithin
  <2>3. to = "tensor" => s \in DOMAIN tensor[r]
    BY <1>2, <2>1, DueWithin
  <2>4. CASE c.to = to /\ s \in here
    <3>1. Lands(c, s)  BY <2>4 DEF Lands
    <3>2. unit(s) = u
      <4>1. Lands(copies[r][1], s) /\ Due(r, copies[r][1].to, s, u)  BY <1>4, <2>1, <2>4, <3>1
      <4>2. mem[r][read_buf[r]][copies[r][1].from + s - copies[r][1].at] = u
        BY <1>2, <1>5, <4>1 DEF Copied
      <4> QED BY <1>4, <1>5, <4>2
    <3> HIDE DEF unit, here
    <3>3. Value(r, to)'[s] = unit(s)
      <4>1. CASE to = "ipc"
        <5>1. ipc'[r] = [i \in Slots |-> IF i \in here THEN unit(i) ELSE ipc[r][i]]
          BY <1>3, <2>4, <4>1
        <5> QED BY <2>2, <2>4, <4>1, <5>1 DEF Value
      <4>2. CASE to = "tensor"
        <5>1. tensor'[r] = [i \in DOMAIN tensor[r] |-> IF i \in here THEN unit(i) ELSE tensor[r][i]]
          BY <1>3, <2>4, <4>2
        <5> QED BY <2>3, <2>4, <4>2, <5>1 DEF Value
      <4> QED BY <4>1, <4>2
    <3> QED BY <3>2, <3>3
  <2>5. CASE ~(c.to = to /\ s \in here)
    <3> HIDE DEF unit
    <3>1. Value(r, to)'[s] = Value(r, to)[s]
      <4>1. CASE to = "ipc"
        <5> HIDE DEF here
        <5>1. ipc'[r][s] = ipc[r][s]  BY <1>3, <1>6, <2>2, <2>5, <4>1
        <5> QED BY <4>1, <5>1 DEF Value
      <4>2. CASE to = "tensor"
        <5> HIDE DEF here
        <5>1. tensor'[r][s] = tensor[r][s]  BY <1>3, <1>6, <2>3, <2>5, <4>2
        <5> QED BY <4>2, <5>1 DEF Value
      <4> QED BY <4>1, <4>2
    <3>2. \/ Value(r, to)[s] = u
          \/ \E k \in 1 .. Len(copies[r]) : copies[r][k].to = to /\ Lands(copies[r][k], s)
      BY <1>2, <2>1 DEF Copied
    <3>3. ASSUME NEW k \in 1 .. Len(copies[r]), copies[r][k].to = to, Lands(copies[r][k], s)
          PROVE  \E j \in 1 .. Len(copies'[r]) : copies'[r][j].to = to /\ Lands(copies'[r][j], s)
      <4>1. k # 1  BY <1>4, <2>5, <3>3 DEF Lands
      <4>2. k - 1 \in 1 .. Len(copies'[r]) /\ (k - 1) + 1 = k  BY <1>4, <3>3, <4>1
      <4>3. copies'[r][k - 1] = copies[r][k]  BY <1>4, <4>2
      <4> QED BY <3>3, <4>2, <4>3
    <3> QED BY <3>1, <3>2, <3>3
  <2> QED BY <2>4, <2>5
<1>18. Copied(r)'
  <2>1. hand'[r].w # 0 /\ ~Large(hand'[r].w) =>
         \A i \in Units(hand'[r].w) : mem'[r][read_buf'[r]][hand'[r].at + i] = <<hand'[r].w, i>>
    <3>1. hand'[r] = hand[r] /\ mem'[r] = mem[r] /\ read_buf'[r] = read_buf[r]  BY <1>2, <1>3
    <3> QED BY <1>2, <3>1 DEF Copied
  <2>2. Merged(r)' > 0 => DOMAIN tensor'[r] = Units(Merging(r)')
    BY <1>2, <1>11, <1>13 DEF Copied
  <2> QED BY <1>15, <1>16, <1>17, <2>1, <2>2 DEF Copied, Units
<1>19. Loads(r)'  BY <1>2, <1>3 DEF Loads
<1> QED BY <1>7, <1>8, <1>9, <1>10, <1>18, <1>19 DEF Stages

LEMMA EntryParts ==
  ASSUME Types, NEW r \in Workers, NEW k \in 1 .. Len(ipc_meta[r])
  PROVE  /\ ipc_meta[r][k].w \in Weights /\ ipc_meta[r][k].at \in Nat
         /\ Sizes[ipc_meta[r][k].w] \in Nat \ {0}
<1>1. ipc_meta[r][k] \in Entry  BY WorkerParts
<1> QED BY <1>1 DEF Entry, Weights, Slots

\* The weight in hand goes behind what is in the shared buffer.
LEMMA PackStages ==
  ASSUME Types, Owned, Shapes, Sends, NEW r \in Workers, Stages(r), Pack(r)
  PROVE  Stages(r)'
<1>1. WorkerSteps(r)  BY DEF WorkerSteps
<1>2. /\ Receives(r) /\ Merges(r) /\ Ordered(r) /\ Asks(r) /\ Copied(r) /\ Loads(r)
      /\ Reached' = Reached /\ mem'[r] = mem[r] /\ Len(copies[r]) \in Nat
      /\ Place(r).w \in Nat \ {0}
  BY <1>1, WorkerStep
<1> DEFINE w == hand[r].w
           n == Sizes[w]
           o == ipc_offset[r]
           entry == [w |-> w, at |-> o]
           new == [buf |-> hand[r].buf, from |-> hand[r].at, size |-> n, to |-> "ipc", at |-> o]
<1>3. /\ w # 0 /\ o + n <= BucketSize /\ request[r].stage = "none"
      /\ ipc_meta'[r] = Append(ipc_meta[r], entry) /\ copies'[r] = Append(copies[r], new)
      /\ ipc_offset'[r] = o + n /\ hand'[r] = NoHand
      /\ UNCHANGED <<trainer, link, read_buf, todo, last, merging, tensor, ipc, request, loaded>>
  BY DEF Pack, InHand, Fits, Types, ReceiverType, SenderType
<1>4. /\ w \in Nat \ {0} /\ w \in Weights /\ n \in Nat \ {0} /\ o \in Nat /\ hand[r].at \in Nat
      /\ BucketSize \in Nat
  <2>1. w \in Weights  BY <1>3, WorkerParts DEF Weights
  <2>2. hand[r].at \in Slots  BY WorkerParts DEF HandSet
  <2> QED BY <2>1, <2>2, WorkerParts DEF Weights, Slots
<1>5. ~Large(w) /\ merging[r].w = 0 /\ hand'[r].w = 0
  <2>1. n <= BucketSize  BY <1>3, <1>4
  <2>2. merging[r].w = 0  BY <1>2, <1>3 DEF Merges
  <2> QED BY <1>3, <1>4, <2>1, <2>2 DEF Large, NoHand
<1>6. Merged(r) = 0 /\ Merged(r)' = 0  BY <1>3, <1>5 DEF Merged
<1>7. Receives(r)' /\ Place(r)' = Place(r)  BY <1>2, <1>3, ReceivesKept DEF link
<1>8. Merges(r)'  BY <1>2, <1>3, <1>5, <1>7 DEF Merges
<1>9. /\ Len(ipc_meta[r]) \in Nat /\ Len(ipc_meta'[r]) = Len(ipc_meta[r]) + 1
      /\ ipc_meta'[r][Len(ipc_meta[r]) + 1] = entry
      /\ \A k \in 1 .. Len(ipc_meta[r]) : ipc_meta'[r][k] = ipc_meta[r][k]
  <2> HIDE DEF entry
  <2>1. ipc_meta[r] \in Seq(Entry)  BY WorkerParts
  <2> QED BY <1>3, <2>1
<1>10. /\ Len(copies'[r]) = Len(copies[r]) + 1 /\ copies'[r][Len(copies[r]) + 1] = new
       /\ \A k \in 1 .. Len(copies[r]) : copies'[r][k] = copies[r][k]
  <2> HIDE DEF new
  <2>1. copies[r] \in Seq(CutCopy)  BY WorkerParts
  <2> QED BY <1>3, <2>1
<1>11. entry.w = w /\ entry.at = o /\ new.from = hand[r].at /\ new.size = n /\ new.to = "ipc"
       /\ new.at = o
  OBVIOUS
<1> HIDE DEF entry, new
<1>12. ASSUME NEW k \in 1 .. Len(ipc_meta'[r]), k # Len(ipc_meta[r]) + 1
       PROVE  k \in 1 .. Len(ipc_meta[r]) /\ ipc_meta'[r][k] = ipc_meta[r][k]
  BY <1>9, <1>12
<1>13. ASSUME NEW k \in 1 .. Len(copies'[r]), k # Len(copies[r]) + 1
       PROVE  k \in 1 .. Len(copies[r]) /\ copies'[r][k] = copies[r][k]
  BY <1>2, <1>10, <1>13
<1>14. ~Busy(r) /\ ~Busy(r)'  BY <1>3 DEF Busy
<1>15. Ordered(r)'
  <2>1. NotPacked(r) = w /\ NotPacked(r)' = w + 1
    <3>1. Place(r)'.w = w + 1  BY <1>2, <1>3, <1>7 DEF Ordered
    <3> QED BY <1>3, <1>5, <3>1 DEF NotPacked
  <2>2. Len(loaded[r]) = w - 1 - Len(ipc_meta[r])  BY <1>2, <1>4, <1>9, <1>14, <2>1 DEF Ordered
  <2>3. Len(loaded'[r]) = (w + 1) - 1 - Len(ipc_meta'[r])
    <3>1. loaded'[r] = loaded[r] /\ Len(ipc_meta'[r]) = Len(ipc_meta[r]) + 1  BY <1>3, <1>9
    <3>2. w \in Int /\ Len(ipc_meta[r]) \in Int  BY <1>4, <1>9
    <3> HIDE DEF w
    <3>3. (w + 1) - 1 - Len(ipc_meta'[r]) = w - 1 - Len(ipc_meta[r])
      <4>1. \A a, b \in Int : (a + 1) - 1 - (b + 1) = a - 1 - b  OBVIOUS
      <4> QED BY <3>1, <3>2, <4>1
    <3>4. Len(loaded'[r]) = w - 1 - Len(ipc_meta[r])  BY <2>2, <3>1
    <3> QED BY ONLY <3>3, <3>4
  <2>4. ASSUME NEW k \in 1 .. Len(ipc_meta'[r])
        PROVE  ipc_meta'[r][k].w = (w + 1) - Len(ipc_meta'[r]) + k - 1
    <3>1. CASE k = Len(ipc_meta[r]) + 1
      <4>1. ipc_meta'[r][k].w = w  BY <1>9, <1>11, <3>1
      <4>2. w \in Int /\ Len(ipc_meta[r]) \in Int /\ Len(ipc_meta'[r]) = Len(ipc_meta[r]) + 1
        BY <1>4, <1>9
      <4> HIDE DEF w
      <4> QED BY <3>1, <4>1, <4>2
    <3>2. CASE k # Len(ipc_meta[r]) + 1
      <4>1. k \in 1 .. Len(ipc_meta[r]) /\ ipc_meta'[r][k] = ipc_meta[r][k]  BY <1>12, <3>2
      <4>2. ipc_meta[r][k].w = w - Len(ipc_meta[r]) + k - 1  BY <1>2, <2>1, <4>1 DEF Ordered
      <4> QED BY <1>4, <1>9, <4>1, <4>2
    <3> QED BY <3>1, <3>2
  <2>5. Len(loaded'[r]) = NotPacked(r)' - 1 - Len(ipc_meta'[r]) + 0
    BY <1>4, <1>9, <2>1, <2>3
  <2> QED BY <1>5, <1>14, <2>1, <2>4, <2>5 DEF Ordered
<1>16. Asks(r)'
  <2>1. ipc_meta'[r] # <<>>  BY <1>9
  <2>2. ASSUME NEW k \in 1 .. Len(ipc_meta'[r])
        PROVE  /\ ~Large(ipc_meta'[r][k].w)
               /\ ipc_meta'[r][k].at + Sizes[ipc_meta'[r][k].w] <= ipc_offset'[r]
    <3>1. CASE k = Len(ipc_meta[r]) + 1  BY <1>3, <1>4, <1>5, <1>9, <1>11, <3>1
    <3>2. CASE k # Len(ipc_meta[r]) + 1
      <4>1. k \in 1 .. Len(ipc_meta[r]) /\ ipc_meta'[r][k] = ipc_meta[r][k]  BY <1>12, <3>2
      <4>2. ~Large(ipc_meta[r][k].w) /\ ipc_meta[r][k].at + Sizes[ipc_meta[r][k].w] <= o
        BY <1>2, <4>1 DEF Asks
      <4>3. ipc_meta[r][k].at \in Nat /\ Sizes[ipc_meta[r][k].w] \in Nat  BY <4>1, EntryParts
      <4> HIDE DEF n, w, o
      <4>4. ipc_meta[r][k].at + Sizes[ipc_meta[r][k].w] <= o + n  BY <1>4, <4>2, <4>3
      <4> QED BY <1>3, <4>1, <4>2, <4>4 DEF Large
    <3> QED BY <3>1, <3>2
  <2> QED BY <1>14, <2>1, <2>2 DEF Asks, Large
\* Where the new weight goes nothing was due.
<1>17. ASSUME NEW s, NEW u, Due(r, "ipc", s, u)'
       PROVE  \/ Due(r, "ipc", s, u) /\ s < o
              \/ s \in o .. o + n - 1 /\ u = <<w, s - o>>
  <2>1. PICK k \in 1 .. Len(ipc_meta'[r]) :
          /\ s \in ipc_meta'[r][k].at .. ipc_meta'[r][k].at + Sizes[ipc_meta'[r][k].w] - 1
          /\ u = <<ipc_meta'[r][k].w, s - ipc_meta'[r][k].at>>
    BY <1>17 DEF Due
  <2>2. CASE k = Len(ipc_meta[r]) + 1
    <3>1. ipc_meta'[r][k].w = w /\ ipc_meta'[r][k].at = o  BY <1>9, <1>11, <2>2
    <3> QED BY <2>1, <3>1
  <2>3. CASE k # Len(ipc_meta[r]) + 1
    <3>1. k \in 1 .. Len(ipc_meta[r]) /\ ipc_meta'[r][k] = ipc_meta[r][k]  BY <1>12, <2>3
    <3>2. Due(r, "ipc", s, u)  BY <2>1, <3>1 DEF Due
    <3>3. s < o  BY <1>2, <3>2, DueWithin
    <3> QED BY <3>2, <3>3
  <2> QED BY <2>2, <2>3
<1>18. \A s, u : ~Due(r, "tensor", s, u)'  BY <1>6 DEF Due
<1>19. ASSUME NEW k \in 1 .. Len(copies'[r])
       PROVE  (copies[r][k].at + copies[r][k].size <= Filled(r, copies[r][k].to))'
  <2>1. CASE k = Len(copies[r]) + 1
    <3>1. copies'[r][k] = new  BY <1>10, <2>1
    <3> QED BY <1>3, <1>4, <1>11, <3>1 DEF Filled
  <2>2. CASE k # Len(copies[r]) + 1
    <3>1. k \in 1 .. Len(copies[r]) /\ copies'[r][k] = copies[r][k]  BY <1>13, <1>19, <2>2
    <3>2. copies[r][k].at + copies[r][k].size <= Filled(r, copies[r][k].to)
      BY <1>2, <3>1 DEF Copied
    <3>3. /\ copies[r][k].at \in Nat /\ copies[r][k].size \in Nat
          /\ copies[r][k].to \in {"ipc", "tensor"}
      BY <3>1, CutCopyParts
    <3>4. CASE copies[r][k].to = "ipc"
      <4>1. copies[r][k].at + copies[r][k].size <= o  BY <3>2, <3>4 DEF Filled
      <4> HIDE DEF n, w, o
      <4>2. copies[r][k].at + copies[r][k].size <= o + n  BY <1>4, <3>3, <4>1
      <4> QED BY <1>3, <3>1, <3>4, <4>2 DEF Filled
    <3>5. CASE copies[r][k].to = "tensor"  BY <1>6, <3>1, <3>2, <3>5 DEF Filled
    <3> QED BY <3>3, <3>4, <3>5
  <2> QED BY <2>1, <2>2
<1>20. ASSUME NEW k \in 1 .. Len(copies'[r]), NEW s, NEW u,
              Lands(copies'[r][k], s), Due(r, copies[r][k].to, s, u)'
       PROVE  mem'[r][read_buf'[r]][copies'[r][k].from + s - copies'[r][k].at] = u
  <2>1. mem'[r][read_buf'[r]] = mem[r][read_buf[r]]  BY <1>2, <1>3
  <2>2. CASE k = Len(copies[r]) + 1
    <3>1. copies'[r][k] = new  BY <1>10, <2>2
    <3>2. s \in o .. o + n - 1  BY <1>11, <1>20, <3>1 DEF Lands
    <3>3. Due(r, "ipc", s, u)'  BY <1>11, <1>20, <3>1 DEF Due
    <3>4. s - o \in 0 .. n - 1 /\ s - o \in Int /\ ~(s < o) /\ hand[r].at + (s - o) = hand[r].at + s - o
      <4> HIDE DEF n, w, o
      <4> QED BY <1>4, <3>2
    <3>5. u = <<w, s - o>>  BY <1>17, <3>3, <3>4
    <3>6. \A i \in Units(hand[r].w) : mem[r][read_buf[r]][hand[r].at + i] = <<hand[r].w, i>>
      BY <1>2, <1>3, <1>5 DEF Copied
    <3>7. mem[r][read_buf[r]][hand[r].at + s - o] = <<w, s - o>>
      <4>1. s - o \in Units(hand[r].w)  BY <3>4 DEF Units
      <4> QED BY <3>4, <3>6, <4>1
    <3> QED BY <1>11, <2>1, <3>1, <3>5, <3>7
  <2>3. CASE k # Len(copies[r]) + 1
    <3>1. k \in 1 .. Len(copies[r]) /\ copies'[r][k] = copies[r][k]  BY <1>13, <1>20, <2>3
    <3>2. /\ copies[r][k].at \in Nat /\ copies[r][k].size \in Nat
          /\ copies[r][k].to \in {"ipc", "tensor"}
      BY <3>1, CutCopyParts
    <3>3. copies[r][k].to = "ipc"
      <4>1. ASSUME copies[r][k].to = "tensor"  PROVE FALSE
        <5>1. Due(r, "tensor", s, u)'  BY <1>20, <3>1, <4>1 DEF Due
        <5> QED BY <1>18, <5>1
      <4> QED BY <3>2, <4>1
    <3>4. Due(r, "ipc", s, u)'  BY <1>20, <3>1, <3>3 DEF Due
    <3>5. copies[r][k].at + copies[r][k].size <= o  BY <1>2, <3>1, <3>3 DEF Copied, Filled
    <3>6. s \in copies[r][k].at .. copies[r][k].at + copies[r][k].size - 1
      BY <1>20, <3>1 DEF Lands
    <3>7. s < o
      <4> HIDE DEF n, w, o
      <4> QED BY <1>4, <3>2, <3>5, <3>6
    <3>8. Due(r, "ipc", s, u)
      <4>1. ~(s \in o .. o + n - 1)
        <5> HIDE DEF n, w, o
        <5> QED BY <1>4, <3>2, <3>6, <3>7
      <4> QED BY <1>17, <3>4, <4>1
    <3>9. mem[r][read_buf[r]][copies[r][k].from + s - copies[r][k].at] = u
      <4>1. Lands(copies[r][k], s) /\ Due(r, copies[r][k].to, s, u)  BY <1>20, <3>1, <3>3, <3>8
      <4> QED BY <1>2, <3>1, <4>1 DEF Copied
    <3> QED BY <2>1, <3>1, <3>9
  <2> QED BY <2>2, <2>3
<1>21. ASSUME NEW to \in {"ipc", "tensor"}, NEW s, NEW u, Due(r, to, s, u)'
       PROVE  \/ Value(r, to)'[s] = u
              \/ \E k \in 1 .. Len(copies'[r]) : copies'[r][k].to = to /\ Lands(copies'[r][k], s)
  <2>1. to = "ipc"  BY <1>18, <1>21
  <2>2. Due(r, "ipc", s, u)'  BY <1>21, <2>1
  <2>3. CASE Due(r, "ipc", s, u) /\ s < o
    <3>1. \/ Value(r, "ipc")[s] = u
          \/ \E k \in 1 .. Len(copies[r]) : copies[r][k].to = "ipc" /\ Lands(copies[r][k], s)
      BY <1>2, <2>3 DEF Copied
    <3>2. ASSUME NEW k \in 1 .. Len(copies[r]), copies[r][k].to = "ipc", Lands(copies[r][k], s)
          PROVE  \E j \in 1 .. Len(copies'[r]) : copies'[r][j].to = to /\ Lands(copies'[r][j], s)
      <4>1. k \in 1 .. Len(copies'[r]) /\ copies'[r][k] = copies[r][k]  BY <1>2, <1>10, <3>2
      <4> QED BY <2>1, <3>2, <4>1
    <3>3. Value(r, to)' = Value(r, "ipc")  BY <1>3, <2>1 DEF Value
    <3> QED BY <3>1, <3>2, <3>3
  <2>4. CASE s \in o .. o + n - 1
    <3>1. s \in new.at .. new.at + new.size - 1  BY <1>11, <2>4
    <3>2. Lands(copies'[r][Len(copies[r]) + 1], s)  BY <1>10, <3>1 DEF Lands
    <3>3. Len(copies[r]) + 1 \in 1 .. Len(copies'[r])  BY <1>2, <1>10
    <3> QED BY <1>10, <1>11, <2>1, <3>2, <3>3
  <2> QED BY <1>17, <2>2, <2>3, <2>4
<1>22. Copied(r)'  BY <1>5, <1>6, <1>19, <1>20, <1>21 DEF Copied
<1>23. Loads(r)'  BY <1>2, <1>3 DEF Loads
<1> QED BY <1>7, <1>8, <1>15, <1>16, <1>22, <1>23 DEF Stages

\* What a step that concerns requests only leaves as it was.
LEMMA RequestKeeps ==
  ASSUME Types, NEW r \in Workers, Stages(r), Reached' = Reached, UNCHANGED <<link, receiver, sender>>
  PROVE  Receives(r)' /\ Place(r)' = Place(r) /\ Merges(r)' /\ Copied(r)'
         /\ NotPacked(r)' = NotPacked(r)
<1>1. Receives(r) /\ Merges(r) /\ Copied(r) /\ Len(copies[r]) \in Nat  BY WorkerParts DEF Stages
<1>2. Receives(r)' /\ Place(r)' = Place(r)  BY <1>1, ReceivesKept DEF link, receiver
<1>3. Merges(r)'  BY <1>1, <1>2, MergesKept DEF receiver, sender
<1>4. Copied(r)'  BY <1>1, CopiedKept DEF link, receiver, sender
<1> QED BY <1>2, <1>3, <1>4 DEF NotPacked, sender

\* Of an entry only the whole weight is in the shared buffer, and of the
\* weight in hand only the whole of it in the tensor, once the copies are done.
LEMMA AskForStages ==
  ASSUME Types, Shapes, Sends, NEW r \in Workers, Stages(r),
         Flush(r) \/ SendLarge(r) \/ FlushLast(r)
  PROVE  Stages(r)'
<1>1. WorkerSteps(r)  BY DEF WorkerSteps
<1>2. /\ Receives(r) /\ Merges(r) /\ Ordered(r) /\ Asks(r) /\ Copied(r) /\ Loads(r)
      /\ Reached' = Reached
  BY <1>1, WorkerStep
<1>3. /\ request[r].stage = "none" /\ UNCHANGED <<link, receiver, sender, loaded>>
      /\ request'[r].stage = "sent" /\ request'[r].done = 0
      /\ \/ request'[r].meta = ipc_meta[r] /\ copies[r] = <<>>
         \/ /\ request'[r].meta = <<[w |-> hand[r].w, at |-> 0]>>
            /\ hand[r].w # 0 /\ ~Fits(r) /\ ipc_meta[r] = <<>>
  BY DEF Flush, SendLarge, FlushLast, Asked, InHand, Synchronized, Request, Types, RequestType
<1>4. Receives(r)' /\ Place(r)' = Place(r) /\ Merges(r)' /\ Copied(r)'
      /\ NotPacked(r)' = NotPacked(r)
  BY <1>2, <1>3, RequestKeeps
<1>5. ~Busy(r) /\ Busy(r)'  BY <1>3 DEF Busy
<1>6. Ordered(r)'
  <2>1. Len(loaded[r]) = NotPacked(r) - 1 - Len(ipc_meta[r]) + 0  BY <1>2, <1>5 DEF Ordered
  <2>2. ipc_meta'[r] = ipc_meta[r] /\ hand'[r] = hand[r]  BY <1>3 DEF sender
  <2> QED BY <1>2, <1>3, <1>4, <1>5, <2>1, <2>2 DEF Ordered
<1>7. ipc_meta[r] = <<>> /\ hand[r].w # 0 /\ ~Fits(r) => Large(hand[r].w)
  <2>1. ASSUME hand[r].w # 0  PROVE Sizes[hand[r].w] \in Nat
    BY <2>1, WorkerParts
  <2>2. ipc_meta[r] = <<>> => ipc_offset[r] = 0  BY <1>2 DEF Asks
  <2> QED BY <2>1, <2>2 DEF Fits, Large
<1>8. Asks(r)'
  <2>1. /\ ipc_meta'[r] = ipc_meta[r] /\ hand'[r] = hand[r] /\ copies'[r] = copies[r]
        /\ ipc_offset'[r] = ipc_offset[r]
    BY <1>3 DEF sender, receiver
  <2>2. 0 <= Len(request'[r].meta)
    <3>1. request'[r].meta = ipc_meta[r] \/ request'[r].meta = <<[w |-> hand[r].w, at |-> 0]>>
      BY <1>3
    <3>2. Len(ipc_meta[r]) \in Nat  BY WorkerParts
    <3> QED BY <3>1, <3>2
  <2> QED BY <1>2, <1>3, <1>5, <1>7, <2>1, <2>2 DEF Asks, Large
<1>9. Loads(r)'  BY <1>2, <1>3 DEF Loads
<1> QED BY <1>4, <1>6, <1>8, <1>9 DEF Stages

\* The reply to a bucket comes when all of it is loaded, and so does the reply
\* to a larger weight: what is given up is not needed any more.
LEMMA GetReplyStages ==
  ASSUME Types, Shapes, Sends, NEW r \in Workers, Stages(r), GetReply(r)
  PROVE  Stages(r)'
<1>1. WorkerSteps(r)  BY DEF WorkerSteps
<1>2. /\ Receives(r) /\ Merges(r) /\ Ordered(r) /\ Asks(r) /\ Copied(r) /\ Loads(r)
      /\ Reached' = Reached /\ mem'[r] = mem[r] /\ Place(r).w \in Nat \ {0}
  BY <1>1, WorkerStep
<1>3. /\ request[r].stage = "replied" /\ request'[r].stage \in {"over", "none"}
      /\ UNCHANGED <<trainer, link, receiver, ipc, loaded>>
  BY DEF GetReply, Types, RequestType, Req
<1>4. Busy(r) /\ ~Busy(r)' /\ request[r].done = Len(request[r].meta)
  BY <1>2, <1>3 DEF Busy, Asks
<1>5. Receives(r)' /\ Place(r)' = Place(r)  BY <1>2, <1>3, ReceivesKept DEF link, receiver
<1>6. Loads(r)'  BY <1>2, <1>3 DEF Loads
<1>7. Len(ipc_meta[r]) \in Nat /\ hand[r].w \in Nat  BY WorkerParts
<1>8. CASE OfLarge(request[r].meta)
  <2>1. hand'[r] = NoHand /\ UNCHANGED <<ipc_meta, ipc_offset>>
    BY <1>8 DEF GetReply, Types, SenderType
  <2>2. request[r].meta # ipc_meta[r]
    <3>1. ipc_meta[r] \in Seq(Entry)  BY WorkerParts
    <3>2. \A k \in 1 .. Len(ipc_meta[r]) : ~Large(ipc_meta[r][k].w)  BY <1>2 DEF Asks
    <3>3. DOMAIN ipc_meta[r] = 1 .. Len(ipc_meta[r])  BY <3>1, LenProperties
    <3>4. ~OfLarge(ipc_meta[r])  BY <3>2, <3>3 DEF OfLarge
    <3> QED BY <1>8, <3>4
  <2>3. /\ request[r].meta = <<[w |-> hand[r].w, at |-> 0]>>
        /\ hand[r].w # 0 /\ Large(hand[r].w) /\ ipc_meta[r] = <<>> /\ copies[r] = <<>>
    <3>1. /\ request[r].meta = <<[w |-> hand[r].w, at |-> 0]>>
          /\ hand[r].w # 0 /\ Large(hand[r].w) /\ ipc_meta[r] = <<>>
          /\ request[r].done > 0 => copies[r] = <<>>
      BY <1>2, <1>4, <2>2 DEF Asks
    <3>2. request[r].done = 1  BY <1>4, <3>1
    <3> QED BY <3>1, <3>2
  <2>4. hand'[r].w = 0 /\ merging[r].w = 0 /\ Place(r).from = 0  BY <1>2, <2>1, <2>3 DEF NoHand, Merges
  <2>5. Merges(r)'  BY <1>3, <1>5, <2>4 DEF Merges, receiver
  <2>6. Ordered(r)'
    <3>1. Place(r).w = hand[r].w + 1 /\ NotPacked(r) = hand[r].w  BY <1>2, <2>3 DEF Ordered, NotPacked
    <3>2. NotPacked(r)' = hand[r].w + 1  BY <1>5, <2>4, <3>1 DEF NotPacked
    <3>3. Len(ipc_meta[r]) = 0 /\ request[r].done = 1  BY <1>4, <2>3
    <3>4. Len(loaded[r]) = hand[r].w - 1 - 0 + 1  BY <1>2, <1>4, <3>1, <3>3 DEF Ordered
    <3>5. Len(loaded'[r]) = (hand[r].w + 1) - 1 - 0 + 0  BY <1>3, <1>7, <3>4
    <3>6. ipc_meta'[r] = <<>> /\ Len(ipc_meta'[r]) = 0  BY <2>1, <2>3, <3>3
    <3>7. Len(loaded'[r]) = NotPacked(r)' - 1 - Len(ipc_meta'[r]) + 0  BY <3>2, <3>5, <3>6
    <3> QED BY <1>4, <2>4, <3>6, <3>7 DEF Ordered
  <2>7. Asks(r)'  BY <1>2, <1>4, <2>1 DEF Asks
  <2>8. Copied(r)'
    <3>1. Merged(r)' = 0  BY <1>3, <2>4 DEF Merged, receiver
    <3>2. copies'[r] = <<>> /\ ipc_meta'[r] = <<>> /\ Len(copies'[r]) = 0 /\ Len(ipc_meta'[r]) = 0
      BY <1>3, <2>1, <2>3 DEF receiver
    <3>3. \A to, s, u : ~Due(r, to, s, u)'  BY <3>1, <3>2 DEF Due
    <3> QED BY <2>4, <3>1, <3>2, <3>3 DEF Copied
  <2> QED BY <1>5, <1>6, <2>5, <2>6, <2>7, <2>8 DEF Stages
<1>9. CASE ~OfLarge(request[r].meta)
  <2>1. ipc_meta'[r] = <<>> /\ ipc_offset'[r] = 0 /\ hand' = hand /\ Len(ipc_meta'[r]) = 0
    BY <1>9 DEF GetReply, Types, SenderType
  <2>2. request[r].meta = ipc_meta[r] /\ copies[r] = <<>>
    <3>1. ASSUME request[r].meta = <<[w |-> hand[r].w, at |-> 0]>>, Large(hand[r].w)  PROVE FALSE
      <4>1. 1 \in DOMAIN request[r].meta /\ request[r].meta[1].w = hand[r].w  BY <3>1
      <4> QED BY <1>9, <3>1, <4>1 DEF OfLarge
    <3> QED BY <1>2, <1>4, <3>1 DEF Asks
  <2>3. Merges(r)'  BY <1>2, <1>3, <1>5, <2>1, MergesKept DEF receiver
  <2>4. Ordered(r)'
    <3>1. NotPacked(r)' = NotPacked(r) /\ NotPacked(r) \in Nat
      BY <1>2, <1>5, <1>7, <2>1 DEF NotPacked
    <3>2. request[r].done = Len(ipc_meta[r])  BY <1>4, <2>2
    <3>3. Len(loaded[r]) = NotPacked(r) - 1 - Len(ipc_meta[r]) + Len(ipc_meta[r])
      BY <1>2, <1>4, <3>2 DEF Ordered
    <3>4. Len(loaded'[r]) = NotPacked(r)' - 1 - Len(ipc_meta'[r]) + 0
      BY <1>3, <1>7, <2>1, <3>1, <3>3
    <3>5. hand'[r].w # 0 => Place(r)'.w = hand'[r].w + 1  BY <1>2, <1>5, <2>1 DEF Ordered
    <3> QED BY <1>4, <2>1, <3>4, <3>5 DEF Ordered
  <2>5. Asks(r)'  BY <1>4, <2>1 DEF Asks
  <2>6. Copied(r)'
    <3>1. Merged(r)' = Merged(r) /\ Merging(r)' = Merging(r) /\ tensor'[r] = tensor[r]
      BY <1>3, <2>1 DEF Merged, Merging, receiver
    <3>2. copies'[r] = <<>> /\ Len(copies'[r]) = 0 /\ mem'[r] = mem[r] /\ read_buf'[r] = read_buf[r]
      BY <1>2, <1>3, <2>2 DEF receiver
    <3>3. \A s, u : ~Due(r, "ipc", s, u)'  BY <2>1 DEF Due
    <3>4. \A s, u : Due(r, "tensor", s, u)' <=> Due(r, "tensor", s, u)  BY <3>1 DEF Due
    <3>5. ASSUME NEW s, NEW u, Due(r, "tensor", s, u)'  PROVE Value(r, "tensor")'[s] = u
      <4>1. Value(r, "tensor")[s] = u  BY <1>2, <2>2, <3>4, <3>5 DEF Copied
      <4> QED BY <3>1, <4>1 DEF Value
    <3>6. hand'[r].w # 0 /\ ~Large(hand'[r].w) =>
           \A i \in Units(hand'[r].w) : mem'[r][read_buf'[r]][hand'[r].at + i] = <<hand'[r].w, i>>
      BY <1>2, <2>1, <3>2 DEF Copied
    <3>7. Merged(r)' > 0 => DOMAIN tensor'[r] = Units(Merging(r)')  BY <1>2, <3>1 DEF Copied
    <3>8. ASSUME NEW to \in {"ipc", "tensor"}, NEW s, NEW u, Due(r, to, s, u)'
          PROVE  Value(r, to)'[s] = u
      BY <3>3, <3>5, <3>8
    <3>9. \A k : ~(k \in 1 .. Len(copies'[r]))  BY <3>2
    <3> HIDE DEF Large
    <3> QED BY <3>6, <3>7, <3>8, <3>9 DEF Copied, Units
  <2> QED BY <1>5, <1>6, <2>3, <2>4, <2>5, <2>6 DEF Stages
<1> QED BY <1>8, <1>9

\* The weight that is loaded is the next one, and all of it is there.
LEMMA LoadsNext ==
  ASSUME Types, NEW r \in Workers, Merges(r), Ordered(r), Asks(r), Copied(r), LoadWeight(r),
         Place(r).w \in Nat \ {0}
  PROVE  /\ request[r].meta[request[r].done + 1].w = Len(loaded[r]) + 1
         /\ Len(loaded[r]) + 1 \in Weights
         /\ [i \in 1 .. Sizes[Len(loaded[r]) + 1] |->
               IF Large(Len(loaded[r]) + 1) THEN tensor[r][i - 1]
               ELSE ipc[r][request[r].meta[request[r].done + 1].at + i - 1]]
            = Whole(Len(loaded[r]) + 1)
         /\ copies[r] = <<>>
<1> DEFINE e == request[r].meta[request[r].done + 1]
           n == Len(loaded[r]) + 1
<1>1. /\ request[r].stage = "sent" /\ request[r].done < Len(request[r].meta)
      /\ (Large(e.w) => copies[r] = <<>>)
  BY DEF LoadWeight, Synchronized
<1>2. request[r].meta \in Seq(Entry) /\ request[r].done \in Nat /\ hand[r].w \in Nat
      /\ Len(request[r].meta) \in Nat
  <2>1. request[r].meta \in Seq(Entry) /\ request[r].done \in Nat  BY WorkerParts DEF Req
  <2> QED BY <2>1, WorkerParts
<1>3. request[r].done + 1 \in 1 .. Len(request[r].meta)  BY <1>1, <1>2
<1>4. e \in Entry  BY <1>2, <1>3
<1>5. e.w \in Weights /\ e.at \in Nat /\ Sizes[e.w] \in Nat \ {0} /\ e.w \in Nat
  BY <1>4 DEF Entry, Weights, Slots
<1>6. Busy(r)  BY <1>1 DEF Busy
<1>7. NotPacked(r) \in Nat  BY <1>2 DEF NotPacked
<1>8. Len(loaded[r]) = NotPacked(r) - 1 - Len(ipc_meta[r]) + request[r].done
  BY <1>6 DEF Ordered
<1>9. CASE request[r].meta = ipc_meta[r] /\ copies[r] = <<>>
  <2>1. e = ipc_meta[r][request[r].done + 1] /\ request[r].done + 1 \in 1 .. Len(ipc_meta[r])
    BY <1>3, <1>9
  <2>2. e.w = NotPacked(r) - Len(ipc_meta[r]) + (request[r].done + 1) - 1
    BY <2>1 DEF Ordered
  <2>3. ~Large(e.w)  BY <2>1 DEF Asks
  <2>4. Len(ipc_meta[r]) \in Nat  BY <1>2, <1>9
  <2> HIDE DEF e
  <2>5. e.w = n
    <3>1. \A a, b, d \in Int : a - b + (d + 1) - 1 = (a - 1 - b + d) + 1  OBVIOUS
    <3>2. NotPacked(r) - Len(ipc_meta[r]) + (request[r].done + 1) - 1
            = (NotPacked(r) - 1 - Len(ipc_meta[r]) + request[r].done) + 1
      <4>1. NotPacked(r) \in Int /\ Len(ipc_meta[r]) \in Int /\ request[r].done \in Int
        BY <1>2, <1>7, <2>4
      <4> QED BY ONLY <3>1, <4>1
    <3> QED BY ONLY <1>8, <2>2, <3>2
  <2>6. ASSUME NEW i \in 1 .. Sizes[e.w]  PROVE ipc[r][e.at + i - 1] = <<e.w, i - 1>>
    <3> DEFINE s == e.at + i - 1
    <3>1. s \in e.at .. e.at + Sizes[e.w] - 1 /\ s - e.at = i - 1  BY <1>5, <2>6
    <3> HIDE DEF s
    <3>2. Due(r, "ipc", s, <<e.w, i - 1>>)  BY <2>1, <3>1 DEF Due
    <3>3. Value(r, "ipc")[s] = <<e.w, i - 1>>
      <4>1. Len(copies[r]) = 0  BY <1>9
      <4> QED BY <3>2, <4>1 DEF Copied
    <3>4. ipc[r][s] = <<e.w, i - 1>>  BY <3>3 DEF Value
    <3> QED BY <3>4 DEF s
  <2>7. [i \in 1 .. Sizes[e.w] |-> ipc[r][e.at + i - 1]] = Whole(e.w)  BY <2>6 DEF Whole
  <2>8. [i \in 1 .. Sizes[e.w] |->
           IF Large(e.w) THEN tensor[r][i - 1] ELSE ipc[r][e.at + i - 1]] = Whole(e.w)
    BY <2>3, <2>6 DEF Whole
  <2> HIDE DEF n
  <2>9. n \in Weights /\ [i \in 1 .. Sizes[n] |->
           IF Large(n) THEN tensor[r][i - 1] ELSE ipc[r][e.at + i - 1]] = Whole(n)
    BY <1>5, <2>5, <2>8
  <2> QED BY <1>9, <2>5, <2>9 DEF e, n
<1>10. CASE /\ request[r].meta = <<[w |-> hand[r].w, at |-> 0]>>
            /\ hand[r].w # 0 /\ Large(hand[r].w) /\ ipc_meta[r] = <<>>
  <2>1. request[r].done = 0 /\ e.w = hand[r].w /\ e.at = 0
    <3>1. Len(request[r].meta) = 1  BY <1>10
    <3>2. request[r].done = 0  BY <1>1, <1>2, <3>1
    <3>3. e = [w |-> hand[r].w, at |-> 0]  BY <1>10, <3>2
    <3> QED BY <3>2, <3>3
  <2> HIDE DEF e
  <2>2. copies[r] = <<>> /\ Len(copies[r]) = 0  BY <1>1, <1>10, <2>1
  <2>3. e.w = n
    <3>1. NotPacked(r) = hand[r].w /\ Len(ipc_meta[r]) = 0  BY <1>10 DEF NotPacked
    <3> QED BY <1>2, <1>8, <2>1, <3>1
  <2>4. merging[r].w = 0  BY <1>10 DEF Merges
  <2>5. Merged(r) = Sizes[e.w] /\ Merging(r) = e.w
    BY <1>10, <2>1, <2>4 DEF Merged, Merging
  <2>6. ASSUME NEW i \in 1 .. Sizes[e.w]  PROVE tensor[r][i - 1] = <<e.w, i - 1>>
    <3>1. i - 1 \in 0 .. Sizes[e.w] - 1  BY <1>5, <2>6
    <3>2. Due(r, "tensor", i - 1, <<e.w, i - 1>>)  BY <2>5, <3>1 DEF Due
    <3>3. Value(r, "tensor")[i - 1] = <<e.w, i - 1>>  BY <2>2, <3>2 DEF Copied
    <3> QED BY <3>3 DEF Value
  <2>7. [i \in 1 .. Sizes[e.w] |->
           IF Large(e.w) THEN tensor[r][i - 1] ELSE ipc[r][e.at + i - 1]] = Whole(e.w)
    BY <1>10, <2>1, <2>6 DEF Whole
  <2> HIDE DEF n
  <2>8. n \in Weights /\ [i \in 1 .. Sizes[n] |->
           IF Large(n) THEN tensor[r][i - 1] ELSE ipc[r][e.at + i - 1]] = Whole(n)
    BY <1>5, <2>3, <2>7
  <2> QED BY <2>2, <2>3, <2>8 DEF e, n
<1> QED BY <1>6, <1>9, <1>10 DEF Asks

LEMMA LoadWeightStages ==
  ASSUME Types, Shapes, Sends, NEW r \in Workers, Stages(r), LoadWeight(r)
  PROVE  Stages(r)'
<1>1. WorkerSteps(r)  BY DEF WorkerSteps
<1>2. /\ Receives(r) /\ Merges(r) /\ Ordered(r) /\ Asks(r) /\ Copied(r) /\ Loads(r)
      /\ Reached' = Reached /\ Place(r).w \in Nat \ {0}
  BY <1>1, WorkerStep
<1> DEFINE n == Len(loaded[r]) + 1
           e == request[r].meta[request[r].done + 1]
           value == [i \in 1 .. Sizes[n] |->
                       IF Large(n) THEN tensor[r][i - 1] ELSE ipc[r][e.at + i - 1]]
<1>3. e.w = n /\ n \in Weights /\ value = Whole(n) /\ copies[r] = <<>>  BY <1>2, LoadsNext
<1>4. /\ request[r].stage = "sent" /\ request[r].done < Len(request[r].meta)
      /\ request[r].done \in Nat /\ Len(request[r].meta) \in Nat
      /\ request'[r] = [request[r] EXCEPT !.done = request[r].done + 1]
      /\ UNCHANGED <<link, receiver, sender>>
  BY WorkerParts DEF LoadWeight, Types, RequestType, Req
<1>5. /\ request'[r].stage = "sent" /\ request'[r].meta = request[r].meta
      /\ request'[r].done = request[r].done + 1
  <2>1. request[r] \in Req  BY WorkerParts
  <2> QED BY <1>4, <2>1 DEF Req
<1>6. Receives(r)' /\ Place(r)' = Place(r) /\ Merges(r)' /\ Copied(r)'
      /\ NotPacked(r)' = NotPacked(r)
  BY <1>2, <1>4, RequestKeeps
<1>7. loaded'[r] = Append(loaded[r], Whole(n))
  <2>1. loaded'[r] = Append(loaded[r], [i \in 1 .. Sizes[e.w] |->
                       IF Large(e.w) THEN tensor[r][i - 1] ELSE ipc[r][e.at + i - 1]])
    BY DEF LoadWeight, Shapes
  <2> HIDE DEF e, n
  <2> QED BY <1>3, <2>1
<1>8. loaded[r] \in Seq({Whole(w) : w \in Weights}) /\ Len(loaded[r]) \in Nat
  BY <1>2 DEF Loads
<1>9. /\ Len(loaded'[r]) = n /\ loaded'[r][n] = Whole(n)
      /\ \A w \in 1 .. Len(loaded[r]) : loaded'[r][w] = loaded[r][w]
      /\ loaded'[r] \in Seq({Whole(w) : w \in Weights})
  <2>1. Whole(n) \in {Whole(w) : w \in Weights}  BY <1>3
  <2> HIDE DEF Whole
  <2> DEFINE W == {Whole(w) : w \in Weights}
             x == Whole(n)
  <2>2. x \in W /\ loaded[r] \in Seq(W) /\ loaded'[r] = Append(loaded[r], x)
    BY <1>7, <1>8, <2>1
  <2> HIDE DEF W, x
  <2>3. /\ Len(loaded'[r]) = Len(loaded[r]) + 1 /\ loaded'[r][Len(loaded[r]) + 1] = x
        /\ \A w \in 1 .. Len(loaded[r]) : loaded'[r][w] = loaded[r][w]
        /\ loaded'[r] \in Seq(W)
    BY <2>2, AppendProperties
  <2> QED BY <2>3 DEF W, x
<1>10. Busy(r) /\ Busy(r)'  BY <1>4, <1>5 DEF Busy
<1>11. Loads(r)'
  <2>1. n \in 1 .. Len(Sizes)  BY <1>3 DEF Weights
  <2>2. ASSUME NEW w \in 1 .. Len(loaded'[r])  PROVE loaded'[r][w] = Whole(w)
    <3>1. CASE w = n  BY <1>9, <3>1
    <3>2. CASE w # n
      <4>1. w \in 1 .. Len(loaded[r])  BY <1>8, <1>9, <2>2, <3>2
      <4> QED BY <1>2, <1>9, <4>1 DEF Loads
    <3> QED BY <3>1, <3>2
  <2>3. Len(loaded'[r]) <= Len(Sizes)  BY <1>9, <2>1
  <2> HIDE DEF n
  <2> QED BY <1>9, <2>2, <2>3 DEF Loads, Weights, Whole
<1>12. Ordered(r)'
  <2>1. ipc_meta'[r] = ipc_meta[r] /\ hand'[r] = hand[r]  BY <1>4 DEF sender
  <2>2. Len(loaded[r]) = NotPacked(r) - 1 - Len(ipc_meta[r]) + request[r].done
    BY <1>2, <1>10 DEF Ordered
  <2>3. NotPacked(r) \in Int /\ Len(ipc_meta[r]) \in Int
    BY <1>2, WorkerParts DEF NotPacked
  <2>4. NotPacked(r) - 1 - Len(ipc_meta[r]) + (request[r].done + 1) = n
    <3>1. \A a, b, d \in Int : a - 1 - b + (d + 1) = (a - 1 - b + d) + 1  OBVIOUS
    <3>2. NotPacked(r) - 1 - Len(ipc_meta[r]) + (request[r].done + 1)
            = (NotPacked(r) - 1 - Len(ipc_meta[r]) + request[r].done) + 1
      <4>1. request[r].done \in Int  BY <1>4
      <4> QED BY ONLY <2>3, <3>1, <4>1
    <3> QED BY ONLY <2>2, <3>2
  <2>5. Len(loaded'[r]) = NotPacked(r)' - 1 - Len(ipc_meta'[r]) + request'[r].done
    BY <1>5, <1>6, <1>9, <2>1, <2>4
  <2> HIDE DEF n
  <2> QED BY <1>2, <1>6, <1>10, <2>1, <2>5 DEF Ordered
<1>13. Asks(r)'
  <2>1. /\ ipc_meta'[r] = ipc_meta[r] /\ hand'[r] = hand[r] /\ copies'[r] = <<>>
        /\ ipc_offset'[r] = ipc_offset[r]
    BY <1>3, <1>4 DEF sender, receiver
  <2>2. request'[r].done <= Len(request'[r].meta)  BY <1>4, <1>5
  <2>3. \/ request[r].meta = ipc_meta[r]
        \/ /\ request[r].meta = <<[w |-> hand[r].w, at |-> 0]>>
           /\ hand[r].w # 0 /\ Large(hand[r].w) /\ ipc_meta[r] = <<>>
    BY <1>2, <1>10 DEF Asks
  <2> QED BY <1>2, <1>5, <2>1, <2>2, <2>3 DEF Asks, Large
<1> QED BY <1>6, <1>11, <1>12, <1>13 DEF Stages

LEMMA ReplyStages ==
  ASSUME Types, Shapes, Sends, NEW r \in Workers, Stages(r), Reply(r)
  PROVE  Stages(r)'
<1>1. WorkerSteps(r)  BY DEF WorkerSteps
<1>2. /\ Ordered(r) /\ Asks(r) /\ Loads(r) /\ Reached' = Reached
  BY <1>1, WorkerStep
<1>3. /\ request[r].stage = "sent" /\ request[r].done = Len(request[r].meta)
      /\ request'[r].stage = "replied" /\ request'[r].meta = request[r].meta
      /\ request'[r].done = request[r].done
      /\ UNCHANGED <<link, receiver, sender, loaded>>
  BY DEF Reply, Types, RequestType, Req
<1>4. Receives(r)' /\ Place(r)' = Place(r) /\ Merges(r)' /\ Copied(r)'
  BY <1>2, <1>3, RequestKeeps
<1>5. Busy(r) /\ Busy(r)'  BY <1>3 DEF Busy
<1>6. Ordered(r)'  BY <1>2, <1>3, <1>4, <1>5, OrderedKept DEF sender
<1>7. Asks(r)'  BY <1>2, <1>3, <1>5 DEF Asks, sender, receiver
<1>8. Loads(r)'  BY <1>2, <1>3 DEF Loads
<1> QED BY <1>4, <1>6, <1>7, <1>8 DEF Stages

LEMMA WorkerStages ==
  ASSUME Types, Owned, Shapes, Sends, NEW r \in Workers, Connected(r), Stages(r), WorkerSteps(r)
  PROVE  Stages(r)'
<1>1. CASE Connect(r) \/ GetMetadata(r)  BY <1>1, ConnectStages
<1>2. CASE TakeBucket(r)  BY <1>2, TakeBucketStages
<1>3. CASE YieldView(r)  BY <1>3, YieldViewStages
<1>4. CASE MergeChunk(r)  BY <1>4, MergeChunkStages
<1>5. CASE CopyLands(r)  BY <1>5, CopyLandsStages
<1>6. CASE Pack(r)  BY <1>6, PackStages
<1>7. CASE Flush(r) \/ SendLarge(r) \/ FlushLast(r)  BY <1>7, AskForStages
<1>8. CASE GetReply(r)  BY <1>8, GetReplyStages
<1>9. CASE LoadWeight(r)  BY <1>9, LoadWeightStages
<1>10. CASE Reply(r)  BY <1>10, ReplyStages
<1> QED BY <1>1, <1>2, <1>3, <1>4, <1>5, <1>6, <1>7, <1>8, <1>9, <1>10 DEF WorkerSteps

-----------------------------------------------------------------------------
LEMMA WholeInit == Init => WholeInv
<1> SUFFICES ASSUME Init  PROVE WholeInv  OBVIOUS
<1>1. Len(<<>>) = 0 /\ Trainer \in Ranks  BY DEF Ranks
<1>2. Unsent = [w |-> 1, from |-> 0] /\ Reached = [w |-> 1, from |-> 0]
  BY <1>1 DEF Init, Unsent, Reached, Start, InFlight
<1>3. Sends  BY <1>1 DEF Init, Sends, Chain, Holds, NoBucket, InFlight
<1>4. Shapes  BY DEF Init, Shapes
<1>5. ASSUME NEW r \in Workers
      PROVE  Connected(r) /\ Receives(r) /\ Merges(r) /\ Ordered(r) /\ Asks(r) /\ Copied(r) /\ Loads(r)
  <2>1. /\ r \in Ranks /\ op[r].stage = "none" /\ op[Trainer].stage = "none" /\ topic[r] = <<>>
        /\ ~last[r] /\ todo[r] = <<>> /\ merging[r].w = 0 /\ hand[r].w = 0 /\ copies[r] = <<>>
        /\ ipc_meta[r] = <<>> /\ ipc_offset[r] = 0 /\ request[r].stage = "closed"
        /\ loaded[r] = <<>>
    BY <1>1 DEF Init, Ranks, NoWeight, NoHand
  <2>2. ~Waiting(r) /\ ~Busy(r) /\ Merged(r) = 0  BY <2>1 DEF Waiting, Busy, Merged
  <2>3. Place(r) = [w |-> 1, from |-> 0]  BY <1>2, <2>1, <2>2 DEF Place, Taken, Start
  <2>4. Place(r).w = 1 /\ Place(r).from = 0 /\ NotPacked(r) = 1
    BY <2>1, <2>3 DEF NotPacked
  <2>5. Connected(r)  BY <2>1 DEF Connected
  <2>6. Receives(r)  BY <2>1, <2>2, EmptyChain DEF Receives
  <2>7. Merges(r) /\ Ordered(r)  BY <1>1, <2>1, <2>2, <2>4 DEF Merges, Ordered
  <2>8. Asks(r)  BY <1>1, <2>1, <2>2 DEF Asks
  <2>9. Copied(r)
    <3>1. \A to, s, u : ~Due(r, to, s, u)  BY <1>1, <2>1, <2>2 DEF Due
    <3> QED BY <1>1, <2>1, <2>2, <3>1 DEF Copied
  <2>10. Loads(r)  BY <1>1, <2>1 DEF Loads
  <2> QED BY <2>5, <2>6, <2>7, <2>8, <2>9, <2>10
<1> QED BY <1>3, <1>4, <1>5 DEF WholeInv

LEMMA WholeNext == Types /\ Owned /\ WholeInv /\ [Next]_vars => WholeInv'
<1> SUFFICES ASSUME Types, Owned, WholeInv, [Next]_vars  PROVE WholeInv'  OBVIOUS
<1>1. Sends /\ Shapes /\ \A r \in Workers : Connected(r) /\ Stages(r)
  BY DEF WholeInv, Stages
<1>2. CASE TrainerSteps
  <2>1. Workers # {}  OBVIOUS
  <2>2. Sends'  BY <1>1, <1>2, <2>1, TrainerStages
  <2>3. \A r \in Workers : Connected(r)' /\ Stages(r)'
    BY <1>1, <1>2, TrainerStages, ConnectedTrainer
  <2>4. Shapes'  BY <1>1, <1>2, ShapesNext DEF Next
  <2> QED BY <2>2, <2>3, <2>4 DEF WholeInv, Stages
<1>3. ASSUME NEW r \in Workers, WorkerSteps(r)  PROVE WholeInv'
  <2>1. UNCHANGED <<trainer, mem>> /\ op'[Trainer] = op[Trainer]  BY <1>1, <1>3, WorkerFrame
  <2>2. Sends'  BY <1>1, <2>1, TrainerKeptSends
  <2>3. Connected(r)' /\ Stages(r)'  BY <1>1, <1>3, ConnectedWorker, WorkerStages
  <2>4. \A q \in Workers : q # r => Connected(q)' /\ Stages(q)'  BY <1>1, <1>3, OtherWorker
  <2>5. Shapes'  BY <1>1, <1>3, ShapesNext DEF Next
  <2> QED BY <2>2, <2>3, <2>4, <2>5 DEF WholeInv, Stages
<1>4. CASE UNCHANGED vars
  <2>1. UNCHANGED <<trainer, mem, op, topic, receiver, sender, request, loaded>>
    BY <1>4 DEF vars, link
  <2>2. Sends' /\ Reached' = Reached  BY <1>1, <2>1, TrainerKeptSends
  <2>3. \A r \in Workers : Connected(r)'  BY <1>1, <2>1 DEF Connected, receiver
  <2>4. \A r \in Workers : Stages(r)'  BY <1>1, <2>1, <2>2, StagesKept DEF receiver, sender
  <2>5. Shapes'  BY <1>1, <2>1 DEF Shapes, receiver
  <2> QED BY <2>2, <2>3, <2>4, <2>5 DEF WholeInv, Stages
<1> QED BY <1>2, <1>3, <1>4 DEF Next

\* Every vLLM process loads the weights in the trainer's order, each once and
\* whole, however many workers, weights and units there are.
THEOREM WholeInOrderCorrect == Spec => []WholeInOrder
<1>1. Init => Types /\ Owned /\ WholeInv  BY TypesInit, OwnedInit, WholeInit
<1>2. Types /\ Owned /\ WholeInv /\ [Next]_vars => Types' /\ Owned' /\ WholeInv'
  BY TypesNext, OwnedNext, WholeNext
<1>3. WholeInv => WholeInOrder  BY DEF WholeInv, Loads, WholeInOrder
<1> QED BY <1>1, <1>2, <1>3, PTL DEF Spec
-----------------------------------------------------------------------------
(* The end of a transfer.  The bucket marked as the last is the trainer's last *)
(* operation, and reaches every worker; a worker that has begun to yield it    *)
(* finds all weights in what it has yet to hand on.                            *)

\* The vLLM process has been told, or is, that it has everything.
Closing(r) == request[r].stage \in {"sent", "replied", "over"} /\ request[r].is_last

EndOf(r) ==
  /\ request[r].stage = "closed" <=> op[r].stage = "none"
  /\ op[r].stage = "complete" /\ op[r].bucket.is_last
       <=> sending /\ op[Trainer].stage = "complete"
  /\ last[r] => op[r].stage = "complete" /\ op[r].bucket.is_last
  /\ request[r].stage = "over" => request[r].is_last /\ ipc_meta[r] = <<>>
  /\ Closing(r) => last[r] /\ todo[r] = <<>> /\ hand[r].w = 0

SplitEnd ==
  /\ split.w <= Len(Sizes) + 1 /\ (~More => split.from = 0)
  /\ sending <=> op[Trainer].bucket.is_last
  /\ sending => op[Trainer].stage # "none"

EndInv == SplitEnd /\ \A r \in Workers : EndOf(r)

LEMMA EndInit == Init => EndInv
<1> SUFFICES ASSUME Init  PROVE EndInv  OBVIOUS
<1>1. Trainer \in Ranks /\ Len(Sizes) \in Nat  BY DEF Ranks
<1>2. SplitEnd  BY <1>1 DEF Init, SplitEnd, NoBucket
<1>3. ASSUME NEW r \in Workers  PROVE EndOf(r)
  <2>1. /\ r \in Ranks /\ op[r].stage = "none" /\ ~sending /\ request[r].stage = "closed" /\ ~last[r]
    BY DEF Init, Ranks
  <2> QED BY <2>1 DEF EndOf, Closing
<1> QED BY <1>2, <1>3 DEF EndInv

\* What EndOf(r) looks at.
LEMMA EndOfKept ==
  ASSUME NEW r \in Workers, EndOf(r), op'[r] = op[r], request'[r] = request[r], last'[r] = last[r],
         todo'[r] = todo[r], hand'[r] = hand[r], ipc_meta'[r] = ipc_meta[r],
         (sending /\ op[Trainer].stage = "complete")' <=> sending /\ op[Trainer].stage = "complete"
  PROVE  EndOf(r)'
BY DEF EndOf, Closing

LEMMA EndTrainer ==
  ASSUME Types, Sends, EndInv, \A r \in Workers : Connected(r), TrainerSteps
  PROVE  EndInv'
<1>1. /\ op \in [Ranks -> Op] /\ Trainer \in Ranks /\ Workers \subseteq Ranks /\ Trainer \notin Workers
      /\ sending \in BOOLEAN /\ split \in Position /\ Len(Sizes) \in Nat
  BY TrainerParts DEF Ranks, Types, TrainerType, Position
<1>2. SplitEnd /\ \A r \in Workers : EndOf(r)  BY DEF EndInv
<1>3. CASE SendBucket \/ SendLast
  <2>1. /\ ~sending /\ op'[Trainer].stage = "running" /\ sending' \in BOOLEAN
        /\ op'[Trainer].bucket.is_last = sending' /\ \A r \in Workers : op'[r] = op[r]
        /\ UNCHANGED <<split, request, receiver, sender>>
    <3>1. CASE SendBucket
      <4>1. ~sending /\ sending' = sending  BY <3>1 DEF Sends, SendBucket
      <4> QED BY <1>1, <3>1, <4>1 DEF SendBucket, Operation
    <3>2. CASE SendLast
      <4>1. ~sending /\ sending' = TRUE  BY <3>2 DEF SendLast
      <4> QED BY <1>1, <3>2, <4>1 DEF SendLast, Operation
    <3> QED BY <1>3, <3>1, <3>2
  <2>2. SplitEnd'  BY <1>2, <2>1 DEF SplitEnd, More
  <2>3. \A r \in Workers : EndOf(r)'
    BY <1>2, <2>1, EndOfKept DEF receiver, sender
  <2> QED BY <2>2, <2>3 DEF EndInv
<1>4. CASE FillChunk
  <2>1. UNCHANGED <<op, sending, request, receiver, sender>> /\ More  BY <1>4 DEF FillChunk
  <2>2. /\ split' = [w |-> split.w, from |-> split.from + NextChunk.size]
           \/ split' = [w |-> split.w + 1, from |-> 0]
    BY <1>4, <1>1, FillsNext DEF After, Cursor
  <2>3. split.w \in Nat /\ split.w <= Len(Sizes)  BY <1>1, <2>1 DEF More, Position
  <2>4. split'.w <= Len(Sizes) + 1 /\ (~More' => split'.from = 0)
    BY <1>1, <2>2, <2>3 DEF More
  <2>5. SplitEnd'  BY <1>2, <2>1, <2>4 DEF SplitEnd
  <2>6. \A r \in Workers : EndOf(r)'  BY <1>2, <2>1, EndOfKept DEF receiver, sender
  <2> QED BY <2>5, <2>6 DEF EndInv
<1>5. CASE Publish
  <2>1. /\ op[Trainer].stage = "running" /\ op'[Trainer].stage = "joined"
        /\ op'[Trainer].bucket = op[Trainer].bucket /\ \A r \in Workers : op'[r] = op[r]
        /\ UNCHANGED <<split, sending, request, receiver, sender>>
    BY <1>1, <1>5 DEF Publish, trainer, Op
  <2>2. SplitEnd'  BY <1>2, <2>1 DEF SplitEnd, More
  <2>3. \A r \in Workers : EndOf(r)'  BY <1>2, <2>1, EndOfKept DEF receiver, sender
  <2> QED BY <2>2, <2>3 DEF EndInv
<1>6. CASE Broadcast
  <2>1. /\ \A p \in Ranks : /\ op[p].stage = "joined" /\ op'[p].stage = "complete"
                            /\ op'[p].bucket = op[p].bucket
        /\ UNCHANGED <<split, sending, request, receiver, sender>>
    BY <1>1, <1>6 DEF Broadcast, trainer, Op
  <2>2. SplitEnd'  BY <1>1, <1>2, <2>1 DEF SplitEnd, More
  <2>3. ASSUME NEW r \in Workers  PROVE EndOf(r)'
    <3>1. op[r].stage = "joined" /\ op[Trainer].stage = "joined" /\ op'[r].stage = "complete"
          /\ op'[Trainer].stage = "complete" /\ op'[r].bucket = op[r].bucket
      BY <1>1, <2>1
    <3>2. op[r].bucket = op[Trainer].bucket /\ ~last[r]  BY <3>1 DEF Connected
    <3>3. request[r].stage # "closed" /\ ~Closing(r) /\ request[r].stage # "over"
      BY <1>2, <3>1, <3>2 DEF EndOf, Closing
    <3>4. sending <=> op[r].bucket.is_last  BY <1>2, <3>2 DEF SplitEnd
    <3> QED BY <2>1, <3>1, <3>2, <3>3, <3>4 DEF EndOf, Closing, receiver
  <2> QED BY <2>2, <2>3 DEF EndInv
<1> QED BY <1>3, <1>4, <1>5, <1>6 DEF TrainerSteps

LEMMA EndWorker ==
  ASSUME Types, Shapes, EndInv, NEW r \in Workers, Connected(r), Stages(r), WorkerSteps(r)
  PROVE  EndInv'
<1>1. /\ op \in [Ranks -> Op] /\ r \in Ranks /\ r # Trainer /\ op[r] \in Op
      /\ request \in [Workers -> Req] /\ last \in [Workers -> BOOLEAN]
      /\ todo \in [Workers -> Seq(CutChunk)] /\ hand \in [Workers -> HandSet]
      /\ ipc_meta \in [Workers -> Seq(Entry)]
  BY WorkerParts DEF Types, LinkType, RequestType, ReceiverType, SenderType
<1>2. EndOf(r) /\ SplitEnd /\ Connected(r) /\ Asks(r)  BY DEF EndInv, Stages
<1>3. UNCHANGED trainer /\ op'[Trainer] = op[Trainer]  BY WorkerFrame
<1>4. SplitEnd'  BY <1>2, <1>3 DEF SplitEnd, More, trainer
<1>5. sending' = sending  BY <1>3 DEF trainer
<1>6. ASSUME NEW q \in Workers, q # r  PROVE EndOf(q)'
  <2>1. q \in Ranks  BY DEF Ranks
  <2> QED BY <1>3, <1>5, <1>6, <2>1, WorkerFrame, EndOfKept DEF EndInv
<1>7. EndOf(r)'
  <2>1. CASE Connect(r)
    <3>1. /\ request[r].stage = "closed" /\ request'[r].stage = "none" /\ op'[r].stage = "running"
          /\ UNCHANGED <<receiver, sender>>
      BY <1>1, <2>1 DEF Connect, Operation, Req
    <3> QED BY <1>2, <1>3, <1>5, <3>1 DEF EndOf, Closing, receiver
  <2>2. CASE GetMetadata(r)
    <3>1. /\ op[r].stage = "running" /\ op'[r].stage = "joined" /\ UNCHANGED <<request, receiver, sender>>
      BY <1>1, <2>2 DEF GetMetadata, Op
    <3> QED BY <1>2, <1>3, <1>5, <3>1 DEF EndOf, Closing, receiver, sender
  <2>3. CASE TakeBucket(r)
    <3>1. /\ op[r].stage = "complete" /\ ~last[r] /\ last'[r] = op[r].bucket.is_last
          /\ request[r].stage = "none" /\ UNCHANGED <<request, sender>>
          /\ IF op[r].bucket.is_last THEN op' = op ELSE op'[r].stage = "running"
      BY <1>1, <2>3 DEF TakeBucket, Asked, Operation
    <3> QED BY <1>2, <1>3, <1>5, <3>1 DEF EndOf, Closing
  <2>4. CASE YieldView(r) \/ MergeChunk(r) \/ CopyLands(r) \/ Pack(r)
    <3>1. UNCHANGED <<op, request, last>>
      BY <2>4 DEF YieldView, MergeChunk, CopyLands, Pack, link
    <3>2. CASE CopyLands(r)
      BY <1>2, <1>3, <1>5, <3>1, <3>2, EndOfKept DEF CopyLands
    <3>3. CASE YieldView(r) \/ MergeChunk(r) \/ Pack(r)
      <4>1. request[r].stage = "none"  BY <3>3 DEF YieldView, MergeChunk, Pack, Asked, InHand
      <4> QED BY <1>2, <1>3, <1>5, <3>1, <4>1 DEF EndOf, Closing
    <3> QED BY <2>4, <3>2, <3>3
  <2>5. CASE Flush(r) \/ SendLarge(r)
    <3>1. /\ request[r].stage = "none" /\ request'[r].stage = "sent" /\ ~request'[r].is_last
          /\ UNCHANGED <<link, receiver, sender>>
      BY <1>1, <2>5 DEF Flush, SendLarge, InHand, Request
    <3> QED BY <1>2, <1>3, <1>5, <3>1 DEF EndOf, Closing, link, receiver
  <2>6. CASE FlushLast(r)
    <3>1. /\ request[r].stage = "none" /\ request'[r].stage = "sent"
          /\ last[r] /\ todo[r] = <<>> /\ hand[r].w = 0 /\ UNCHANGED <<link, receiver, sender>>
      BY <1>1, <2>6 DEF FlushLast, Asked, Request
    <3> QED BY <1>2, <1>3, <1>5, <3>1 DEF EndOf, Closing, link, receiver, sender
  <2>7. CASE LoadWeight(r) \/ Reply(r)
    <3>1. /\ request[r].stage = "sent" /\ request'[r].stage \in {"sent", "replied"}
          /\ request'[r].is_last = request[r].is_last /\ UNCHANGED <<link, receiver, sender>>
      BY <1>1, <2>7 DEF LoadWeight, Reply, Req
    <3> QED BY <1>2, <1>3, <1>5, <3>1 DEF EndOf, Closing, link, receiver, sender
  <2>8. CASE GetReply(r)
    <3>1. /\ request[r].stage = "replied" /\ UNCHANGED <<link, receiver>>
          /\ request'[r].is_last = request[r].is_last
          /\ request'[r].stage = IF request[r].is_last THEN "over" ELSE "none"
      BY <1>1, <2>8 DEF GetReply, Req
    <3>2. CASE ~request[r].is_last
      BY <1>2, <1>3, <1>5, <3>1, <3>2 DEF EndOf, Closing, link, receiver
    <3>3. CASE request[r].is_last
      <4>1. last[r] /\ todo[r] = <<>> /\ hand[r].w = 0
        BY <1>2, <3>1, <3>3 DEF EndOf, Closing
      <4>2. request[r].meta = ipc_meta[r]  BY <1>2, <3>1, <4>1 DEF Asks, Busy
      <4>3. ~OfLarge(request[r].meta)
        <5>1. ipc_meta[r] \in Seq(Entry)  BY <1>1
        <5>2. DOMAIN ipc_meta[r] = 1 .. Len(ipc_meta[r])  BY <5>1
        <5> QED BY <1>2, <4>2, <5>2 DEF OfLarge, Asks
      <4>4. ipc_meta'[r] = <<>> /\ hand' = hand  BY <1>1, <2>8, <4>3 DEF GetReply
      <4> QED BY <1>2, <1>3, <1>5, <3>1, <3>3, <4>1, <4>4 DEF EndOf, Closing, link, receiver
    <3> QED BY <3>2, <3>3
  <2> QED BY <2>1, <2>2, <2>3, <2>4, <2>5, <2>6, <2>7, <2>8 DEF WorkerSteps
<1> QED BY <1>4, <1>6, <1>7 DEF EndInv

LEMMA EndNext == Types /\ WholeInv /\ EndInv /\ [Next]_vars => EndInv'
<1> SUFFICES ASSUME Types, WholeInv, EndInv, [Next]_vars  PROVE EndInv'  OBVIOUS
<1>1. Sends /\ Shapes /\ \A r \in Workers : Connected(r) /\ Stages(r)
  BY DEF WholeInv, Stages
<1>2. CASE UNCHANGED vars
  <2>1. UNCHANGED <<split, sending, op, receiver, sender, request>>  BY <1>2 DEF vars, trainer, link
  <2>2. SplitEnd'  BY <2>1 DEF EndInv, SplitEnd, More
  <2>3. \A r \in Workers : EndOf(r)'  BY <2>1, EndOfKept DEF EndInv, receiver, sender
  <2> QED BY <2>2, <2>3 DEF EndInv
<1> QED BY <1>1, <1>2, EndTrainer, EndWorker DEF Next

LEMMA TransferInvariant == Spec => [](Types /\ Owned /\ WholeInv /\ EndInv)
<1>1. Init => Types /\ Owned /\ WholeInv /\ EndInv
  BY TypesInit, OwnedInit, WholeInit, EndInit
<1>2. Types /\ Owned /\ WholeInv /\ EndInv /\ [Next]_vars => (Types /\ Owned /\ WholeInv /\ EndInv)'
  BY TypesNext, OwnedNext, WholeNext, EndNext
<1> QED BY <1>1, <1>2, PTL DEF Spec

\* Where a worker is that has begun to yield the last bucket and yielded it all.
LEMMA PlaceAtEnd ==
  ASSUME Types, Sends, EndInv, NEW r \in Workers, last[r], todo[r] = <<>>
  PROVE  Place(r).w = Len(Sizes) + 1
<1>1. sending /\ op[Trainer].stage = "complete" /\ SplitEnd  BY DEF EndInv, EndOf
<1>2. Place(r) = split
  BY <1>1 DEF Place, Taken, Waiting, Reached, Unsent, InFlight, Start
<1>3. split.w \in Nat /\ ~More /\ Len(Sizes) \in Nat
  BY <1>1 DEF Sends, Types, TrainerType
<1>4. split.w = Len(Sizes) + 1  BY <1>1, <1>3 DEF SplitEnd, More
<1> QED BY <1>2, <1>4

\* A worker whose transfer is over has handed on every weight.
AllLoaded == \A r \in Workers : request[r].stage = "over" => Len(loaded[r]) = Len(Sizes)

\* No vLLM process is left with a part of the new weights and the rest of the
\* old: when it is told that it has them all it has, however buckets, chunks and
\* large weights fall.  The weights themselves are whole by WholeInOrder.
THEOREM AllLoadedCorrect == Spec => []AllLoaded
<1>1. ASSUME Types, WholeInv, EndInv, NEW r \in Workers, request[r].stage = "over"
      PROVE  Len(loaded[r]) = Len(Sizes)
  <2>1. last[r] /\ todo[r] = <<>> /\ hand[r].w = 0 /\ ipc_meta[r] = <<>>
    BY <1>1 DEF EndInv, EndOf, Closing
  <2>2. Place(r).w = Len(Sizes) + 1  BY <1>1, <2>1, PlaceAtEnd DEF WholeInv
  <2>3. Len(loaded[r]) = NotPacked(r) - 1 - Len(ipc_meta[r])
                           + (IF Busy(r) THEN request[r].done ELSE 0)
    BY <1>1 DEF WholeInv, Ordered
  <2>4. ~Busy(r) /\ NotPacked(r) = Len(Sizes) + 1  BY <1>1, <2>1, <2>2 DEF Busy, NotPacked
  <2> QED BY <2>1, <2>3, <2>4
<1>2. Types /\ WholeInv /\ EndInv => AllLoaded  BY <1>1 DEF AllLoaded
<1> QED BY <1>2, TransferInvariant, PTL

-----------------------------------------------------------------------------
(* Nobody waits for nothing.                                                 *)

\* The trainer fills or sends a bucket or publishes its metadata, or the
\* broadcast takes place.
TrainerGoes ==
  \/ More /\ (offset + NextChunk.size <= BucketSize \/ OpComplete(Trainer))
  \/ ~More /\ ~sending /\ OpComplete(Trainer)
  \/ op[Trainer].stage = "running"
  \/ \A p \in Ranks : op[p].stage = "joined"

\* A worker, its device or its vLLM process can take a step: connect, receive
\* metadata, finish a copy, hand on the weight in hand, yield, take the bucket
\* received or say that the last was, load, reply or take the reply.
WorkerGoes(r) ==
  \/ request[r].stage \in {"closed", "replied"}
  \/ op[r].stage = "running" /\ topic[r] # <<>>
  \/ copies[r] # <<>>
  \/ InHand(r)
  \/ Asked(r) /\ (todo[r] # <<>> \/ last[r] \/ op[r].stage = "complete")
  \/ request[r].stage = "sent" /\ request[r].done <= Len(request[r].meta)

SomebodyGoes ==
  \/ \A r \in Workers : request[r].stage = "over"
  \/ TrainerGoes
  \/ \E r \in Workers : WorkerGoes(r)

\* A worker that cannot take a step has handed on all it has received and waits
\* for the trainer's next bucket, or is over.
LEMMA WaitsForBucket ==
  ASSUME Types, NEW r \in Workers, Asks(r), EndOf(r), ~WorkerGoes(r)
  PROVE  request[r].stage = "over" \/ (~last[r] /\ op[r].stage \in {"running", "joined"})
<1>1. \/ request[r].stage \in {"none", "sent"} /\ op[r].stage # "none"
      \/ request[r].stage = "over"
  BY WorkerParts DEF WorkerGoes, EndOf, Req
<1>2. request[r].stage # "sent"  BY DEF WorkerGoes, Asks, Busy
<1>3. CASE request[r].stage = "none"
  <2>1. Asked(r)  BY <1>3 DEF WorkerGoes, InHand, Asked
  <2> QED BY <1>1, <1>3, <2>1, WorkerParts DEF WorkerGoes, Op
<1> QED BY <1>1, <1>2, <1>3

\* A transfer never gets stuck, for any number of workers: as long as it is not
\* over for all of them somebody can take a step.  The trainer never waits in a
\* broadcast that a worker does not come to, nor a worker for a bucket that is
\* not sent, though each waits for the other in turn and for its own device.
THEOREM TransferNeverStuck == Spec => []SomebodyGoes
<1>1. ASSUME Types, WholeInv, EndInv, ~TrainerGoes, \A r \in Workers : ~WorkerGoes(r)
      PROVE  \A r \in Workers : request[r].stage = "over"
  <2>1. \A r \in Workers :
          request[r].stage = "over" \/ (~last[r] /\ op[r].stage \in {"running", "joined"})
    BY <1>1, WaitsForBucket DEF WholeInv, EndInv
  <2>2. \A r \in Workers : request[r].stage = "over" =>
          sending /\ op[Trainer].stage = "complete"
    BY <1>1 DEF EndInv, EndOf, Closing
  <2>3. op[Trainer].stage # "running" /\ op[Trainer] \in Op
    BY <1>1, TrainerParts DEF TrainerGoes
  <2>4. CASE op[Trainer].stage \in {"none", "complete"}
    <3>1. OpComplete(Trainer)  BY <2>4 DEF OpComplete
    <3>2. sending /\ op[Trainer].stage = "complete"
      BY <1>1, <2>4, <3>1 DEF TrainerGoes, EndInv, SplitEnd
    <3>3. \A r \in Workers : op[r].stage = "complete"  BY <1>1, <3>2 DEF EndInv, EndOf
    <3> QED BY <2>1, <3>3
  <2>5. CASE op[Trainer].stage = "joined"
    <3>1. \A r \in Workers : ~last[r] /\ op[r].stage \in {"running", "joined"}
      BY <2>1, <2>2, <2>5
    <3>2. ASSUME NEW r \in Workers  PROVE op[r].stage = "joined"
      <4>1. op[r].stage # "joined" => topic[r] = <<op[Trainer].bucket>>
        BY <1>1, <2>5 DEF WholeInv, Connected
      <4>2. topic[r] = <<op[Trainer].bucket>> => topic[r] # <<>>  OBVIOUS
      <4> QED BY <1>1, <3>1, <4>1, <4>2 DEF WorkerGoes
    <3>3. \A p \in Ranks : op[p].stage = "joined"  BY <2>5, <3>2 DEF Ranks
    <3> QED BY <1>1, <3>3 DEF TrainerGoes
  <2> QED BY <2>3, <2>4, <2>5 DEF Op
<1>2. Types /\ WholeInv /\ EndInv => SomebodyGoes  BY <1>1 DEF SomebodyGoes
<1> QED BY <1>2, TransferInvariant, PTL
=============================================================================
