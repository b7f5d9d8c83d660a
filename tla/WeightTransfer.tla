--------------------------- MODULE WeightTransfer ---------------------------
(***************************************************************************)
(* One transfer of the weights, from the trainer's rank 0 through every    *)
(* rollout worker into its vLLM process.  The trainer cuts the weights     *)
(* into chunks, packs these into buckets and broadcasts bucket after       *)
(* bucket from two buffers (NCCLCheckpointEngine.send_weights).  A worker  *)
(* receives into two buffers of its own, puts the chunks together again    *)
(* (merge_weight_chunks) and hands every weight on: packed into one more   *)
(* buffer, which it shares with the vLLM process, or, when it is larger    *)
(* than that, by its address (BucketedWeightSender).  The vLLM process     *)
(* loads what it is asked to and answers (BucketedWeightReceiver).         *)
(*                                                                         *)
(* Weights are numbered.  Unit i of weight w is <<w, i>>; a unit stands    *)
(* for a number of bytes.  Copies on the device are queued and done later: *)
(* "copies" is the stream they are queued on.                              *)
(***************************************************************************)
EXTENDS Integers, Sequences, FiniteSets

CONSTANTS
  Workers,    \* the rollout ranks: one worker and one vLLM process each
  Sizes,      \* Sizes[w]: units of weight w, in the order the trainer yields them
  BucketSize  \* update_weights_bucket_megabytes, in units, of all the buffers

Trainer == "trainer"

ASSUME TransferAssumption ==
  /\ IsFiniteSet(Workers) /\ Workers # {} /\ Trainer \notin Workers
  /\ Sizes \in Seq(Nat \ {0})
  /\ BucketSize \in Nat \ {0}

VARIABLES
  split,       \* trainer: the chunk split_weight_chunks comes to next
  bucket_meta, \* trainer: chunks in the bucket it fills
  offset,      \* trainer: units in that bucket
  send_buf,    \* trainer: the buffer it fills, 1 or 2
  sending,     \* trainer: send_weights is past its loop
  op,          \* trainer and workers: the last BroadcastOperation of each
  topic,       \* workers: metadata published to the worker and not yet received
  mem,         \* trainer and workers: the two buffers of each
  read_buf,    \* worker: the buffer it yields from (its send_buf)
  todo,        \* worker: chunks of that buffer it has not yielded
  last,        \* worker: that bucket is the last one
  merging,     \* worker: merge_name and merge_offset, [w |-> 0, at |-> 0] for none
  tensor,      \* worker: merge_weight, by unit
  hand,        \* worker: the weight the bucketed sender is at and where it is
  copies,      \* worker: copies queued on the device and not yet done
  ipc,         \* worker: the buffer shared with its vLLM process
  ipc_meta,    \* worker: weights in it, [w, at] each
  ipc_offset,  \* worker: units in it
  request,     \* worker and vLLM process: the request on their socket
  loaded       \* vLLM process: the weights loaded, as the units they were given

trainer  == <<split, bucket_meta, offset, send_buf, sending>>
link     == <<op, topic, mem>>
receiver == <<read_buf, todo, last, merging, tensor, copies>>
sender   == <<hand, ipc, ipc_meta, ipc_offset>>
vars     == <<trainer, link, receiver, sender, request, loaded>>

Ranks   == Workers \cup {Trainer}
Weights == 1 .. Len(Sizes)
Slots   == 0 .. BucketSize - 1
Units(w) == 0 .. Sizes[w] - 1
Empty   == <<0, 0>>
NoWeight == [w |-> 0, at |-> 0]
NoHand  == [w |-> 0, buf |-> 1, at |-> 0]
Other(buf) == 3 - buf
Large(w)   == Sizes[w] > BucketSize

Unit   == (0 .. Len(Sizes)) \X Nat
Chunk  == [w : Weights, from : Nat, size : 1 .. BucketSize, at : Slots]
Entry  == [w : Weights, at : Slots]
Copy   == [buf : {1, 2}, from : Slots, size : 1 .. BucketSize, to : {"ipc", "tensor"}, at : Nat]
Bucket == [meta : Seq(Chunk), is_last : BOOLEAN]
NoBucket == [meta |-> <<>>, is_last |-> FALSE]

TypeOK ==
  /\ split \in [w : Nat \ {0}, from : Nat]
  /\ bucket_meta \in Seq(Chunk) /\ offset \in 0 .. BucketSize
  /\ send_buf \in {1, 2} /\ sending \in BOOLEAN
  /\ op \in [Ranks -> [stage : {"none", "running", "joined", "complete"},
                       buf : {1, 2}, bucket : Bucket]]
  /\ topic \in [Workers -> Seq(Bucket)]
  /\ mem \in [Ranks -> [{1, 2} -> [Slots -> Unit]]]
  /\ read_buf \in [Workers -> {1, 2}] /\ todo \in [Workers -> Seq(Chunk)]
  /\ last \in [Workers -> BOOLEAN]
  /\ merging \in [Workers -> [w : 0 .. Len(Sizes), at : Nat]]
  /\ hand \in [Workers -> [w : 0 .. Len(Sizes), buf : {1, 2}, at : Slots]]
  /\ copies \in [Workers -> Seq(Copy)]
  /\ ipc \in [Workers -> [Slots -> Unit]] /\ ipc_meta \in [Workers -> Seq(Entry)]
  /\ ipc_offset \in [Workers -> 0 .. BucketSize]
  /\ request \in [Workers -> [stage : {"closed", "none", "sent", "replied", "over"},
                              meta : Seq(Entry), is_last : BOOLEAN, done : Nat]]

Init ==
  /\ split = [w |-> 1, from |-> 0] /\ bucket_meta = <<>> /\ offset = 0
  /\ send_buf = 1 /\ sending = FALSE
  /\ op = [p \in Ranks |-> [stage |-> "none", buf |-> 1, bucket |-> NoBucket]]
  /\ topic = [r \in Workers |-> <<>>]
  /\ mem = [p \in Ranks |-> [b \in {1, 2} |-> [s \in Slots |-> Empty]]]
  /\ read_buf = [r \in Workers |-> 1] /\ todo = [r \in Workers |-> <<>>]
  /\ last = [r \in Workers |-> FALSE]
  /\ merging = [r \in Workers |-> NoWeight] /\ tensor = [r \in Workers |-> <<>>]
  /\ hand = [r \in Workers |-> NoHand] /\ copies = [r \in Workers |-> <<>>]
  /\ ipc = [r \in Workers |-> [s \in Slots |-> Empty]]
  /\ ipc_meta = [r \in Workers |-> <<>>] /\ ipc_offset = [r \in Workers |-> 0]
  /\ request = [r \in Workers |->
       [stage |-> "closed", meta |-> <<>>, is_last |-> FALSE, done |-> 0]]
  /\ loaded = [r \in Workers |-> <<>>]

-----------------------------------------------------------------------------
(* The trainer's rank 0: send_weights. *)

More == split.w <= Len(Sizes)

Smaller(a, b) == IF a < b THEN a ELSE b

\* What is left of a weight is cut at the size of a whole bucket, wherever
\* in the current bucket the chunk will go.
ChunkSize(left) == Smaller(left, BucketSize)

NextChunk == [w |-> split.w, from |-> split.from,
              size |-> ChunkSize(Sizes[split.w] - split.from), at |-> offset]

\* wait_for_complete of the previous operation, if there was one.
OpComplete(p) == op[p].stage \in {"none", "complete"}

Operation(buf, bucket) == [stage |-> "running", buf |-> buf, bucket |-> bucket]

\* A bug: the buffers are not swapped.
SendBucketSameBuffer ==
  /\ More /\ offset + NextChunk.size > BucketSize
  /\ OpComplete(Trainer)
  /\ op' = [op EXCEPT ![Trainer] = Operation(send_buf, [meta |-> bucket_meta, is_last |-> FALSE])]
  /\ bucket_meta' = <<>> /\ offset' = 0
  /\ UNCHANGED <<split, send_buf, sending, topic, mem, receiver, sender, request, loaded>>

\* The chunk does not fit: broadcast the bucket and go on in the other buffer.
SendBucket ==
  /\ More /\ offset + NextChunk.size > BucketSize
  /\ OpComplete(Trainer)
  /\ op' = [op EXCEPT ![Trainer] = Operation(send_buf, [meta |-> bucket_meta, is_last |-> FALSE])]
  /\ send_buf' = Other(send_buf) /\ bucket_meta' = <<>> /\ offset' = 0
  /\ UNCHANGED <<split, sending, topic, mem, receiver, sender, request, loaded>>

Written(buffer, chunk) ==
  [s \in Slots |-> IF s \in chunk.at .. chunk.at + chunk.size - 1
                   THEN <<chunk.w, chunk.from + s - chunk.at>> ELSE buffer[s]]

FillChunk ==
  /\ More /\ offset + NextChunk.size <= BucketSize
  /\ bucket_meta' = Append(bucket_meta, NextChunk)
  /\ mem' = [mem EXCEPT ![Trainer][send_buf] = Written(@, NextChunk)]
  /\ offset' = offset + NextChunk.size
  /\ split' = IF split.from + NextChunk.size < Sizes[split.w]
              THEN [split EXCEPT !.from = @ + NextChunk.size]
              ELSE [w |-> split.w + 1, from |-> 0]
  /\ UNCHANGED <<send_buf, sending, op, topic, receiver, sender, request, loaded>>

\* A bug: nothing tells the workers that this bucket is the last.
SendLastUnmarked ==
  /\ ~More /\ ~sending /\ OpComplete(Trainer)
  /\ op' = [op EXCEPT ![Trainer] = Operation(send_buf, [meta |-> bucket_meta, is_last |-> FALSE])]
  /\ sending' = TRUE
  /\ UNCHANGED <<split, bucket_meta, offset, send_buf, topic, mem, receiver, sender,
                 request, loaded>>

SendLast ==
  /\ ~More /\ ~sending /\ OpComplete(Trainer)
  /\ op' = [op EXCEPT ![Trainer] = Operation(send_buf, [meta |-> bucket_meta, is_last |-> TRUE])]
  /\ sending' = TRUE
  /\ UNCHANGED <<split, bucket_meta, offset, send_buf, topic, mem, receiver, sender,
                 request, loaded>>

-----------------------------------------------------------------------------
(* BroadcastOperation: metadata over PUB/SUB, then the buffer over NCCL,   *)
(* which takes place when every rank has joined.                           *)

Publish ==
  /\ op[Trainer].stage = "running"
  /\ topic' = [r \in Workers |-> Append(topic[r], op[Trainer].bucket)]
  /\ op' = [op EXCEPT ![Trainer].stage = "joined"]
  /\ UNCHANGED <<trainer, mem, receiver, sender, request, loaded>>

GetMetadata(r) ==
  /\ op[r].stage = "running" /\ topic[r] # <<>>
  /\ op' = [op EXCEPT ![r].stage = "joined", ![r].bucket = Head(topic[r])]
  /\ topic' = [topic EXCEPT ![r] = Tail(@)]
  /\ UNCHANGED <<trainer, mem, receiver, sender, request, loaded>>

Broadcast ==
  /\ \A p \in Ranks : op[p].stage = "joined"
  /\ mem' = [p \in Ranks |-> [mem[p] EXCEPT ![op[p].buf] = mem[Trainer][op[Trainer].buf]]]
  /\ op' = [p \in Ranks |-> [op[p] EXCEPT !.stage = "complete"]]
  /\ UNCHANGED <<trainer, topic, receiver, sender, request, loaded>>

-----------------------------------------------------------------------------
(* A rollout worker: _receive_weight_chunks and merge_weight_chunks are    *)
(* the generator that async_send_weights loops over.                       *)

\* The handshake about the shared buffer; then the generator starts.
Connect(r) ==
  /\ request[r].stage = "closed"
  /\ request' = [request EXCEPT ![r].stage = "none"]
  /\ op' = [op EXCEPT ![r] = Operation(Other(read_buf[r]), NoBucket)]
  /\ UNCHANGED <<trainer, topic, mem, receiver, sender, loaded>>

\* Between two weights: the sender asks the generator for the next.
Asked(r) == request[r].stage = "none" /\ hand[r].w = 0

\* torch.cuda.synchronize and get_torch_device().synchronize.
Synchronized(r) == copies[r] = <<>>

\* All of a bucket is yielded and the next has come: swap the buffers and
\* start to receive into the one that is free.
TakeBucket(r) ==
  /\ Asked(r) /\ todo[r] = <<>> /\ ~last[r]
  /\ op[r].stage = "complete"
  /\ Synchronized(r)
  /\ read_buf' = [read_buf EXCEPT ![r] = Other(@)]
  /\ todo' = [todo EXCEPT ![r] = op[r].bucket.meta]
  /\ last' = [last EXCEPT ![r] = op[r].bucket.is_last]
  /\ op' = IF op[r].bucket.is_last THEN op
           ELSE [op EXCEPT ![r] = Operation(read_buf[r], NoBucket)]
  /\ UNCHANGED <<trainer, topic, mem, merging, tensor, copies, sender, request, loaded>>

\* A weight that fits into a bucket is a view of the receive buffer.
YieldView(r) ==
  /\ Asked(r) /\ todo[r] # <<>> /\ ~Large(Head(todo[r]).w)
  /\ hand' = [hand EXCEPT ![r] =
       [w |-> Head(todo[r]).w, buf |-> read_buf[r], at |-> Head(todo[r]).at]]
  /\ todo' = [todo EXCEPT ![r] = Tail(@)]
  /\ UNCHANGED <<trainer, link, read_buf, last, merging, tensor, copies, ipc, ipc_meta,
                 ipc_offset, request, loaded>>

\* The chunks of a larger one are copied into a tensor of its own.
MergeChunk(r) == LET chunk == Head(todo[r]) IN
  /\ Asked(r) /\ todo[r] # <<>> /\ Large(chunk.w)
  /\ tensor' = IF merging[r].w # 0 THEN tensor
               ELSE [tensor EXCEPT ![r] = [i \in Units(chunk.w) |-> Empty]]
  /\ copies' = [copies EXCEPT ![r] = Append(@,
       [buf |-> read_buf[r], from |-> chunk.at, size |-> chunk.size,
        to |-> "tensor", at |-> chunk.from])]
  /\ IF chunk.from + chunk.size = Sizes[chunk.w]
     THEN /\ merging' = [merging EXCEPT ![r] = NoWeight]
          /\ hand' = [hand EXCEPT ![r] = [w |-> chunk.w, buf |-> read_buf[r], at |-> 0]]
     ELSE /\ merging' = [merging EXCEPT ![r] =
               [w |-> chunk.w, at |-> (IF @.w = 0 THEN 0 ELSE @.at) + chunk.size]]
          /\ hand' = hand
  /\ todo' = [todo EXCEPT ![r] = Tail(@)]
  /\ UNCHANGED <<trainer, link, read_buf, last, ipc, ipc_meta, ipc_offset, request, loaded>>

\* The oldest copy of the stream is done.
CopyLands(r) == LET copy == Head(copies[r])
                    here == copy.at .. copy.at + copy.size - 1
                    unit(i) == mem[r][copy.buf][copy.from + i - copy.at] IN
  /\ copies[r] # <<>>
  /\ copies' = [copies EXCEPT ![r] = Tail(@)]
  /\ ipc' = IF copy.to = "tensor" THEN ipc
            ELSE [ipc EXCEPT ![r] = [i \in Slots |-> IF i \in here THEN unit(i) ELSE @[i]]]
  /\ tensor' = IF copy.to = "ipc" THEN tensor
               ELSE [tensor EXCEPT ![r] = [i \in DOMAIN @ |-> IF i \in here THEN unit(i) ELSE @[i]]]
  /\ UNCHANGED <<trainer, link, read_buf, todo, last, merging, hand, ipc_meta, ipc_offset,
                 request, loaded>>

-----------------------------------------------------------------------------
(* The bucketed sender of the worker: async_send_weights. *)

InHand(r) == request[r].stage = "none" /\ hand[r].w # 0

Fits(r) == ipc_offset[r] + Sizes[hand[r].w] <= BucketSize

Pack(r) ==
  /\ InHand(r) /\ Fits(r)
  /\ ipc_meta' = [ipc_meta EXCEPT ![r] = Append(@, [w |-> hand[r].w, at |-> ipc_offset[r]])]
  /\ copies' = [copies EXCEPT ![r] = Append(@,
       [buf |-> hand[r].buf, from |-> hand[r].at, size |-> Sizes[hand[r].w],
        to |-> "ipc", at |-> ipc_offset[r]])]
  /\ ipc_offset' = [ipc_offset EXCEPT ![r] = @ + Sizes[hand[r].w]]
  /\ hand' = [hand EXCEPT ![r] = NoHand]
  /\ UNCHANGED <<trainer, link, read_buf, todo, last, merging, tensor, ipc, request, loaded>>

Request(meta, is_last) == [stage |-> "sent", meta |-> meta, is_last |-> is_last, done |-> 0]

\* The bucket so far goes first, whether or not the weight fits into an empty one.
Flush(r) ==
  /\ InHand(r) /\ ~Fits(r) /\ ipc_meta[r] # <<>>
  /\ Synchronized(r)
  /\ request' = [request EXCEPT ![r] = Request(ipc_meta[r], FALSE)]
  /\ UNCHANGED <<trainer, link, receiver, sender, loaded>>

\* _direct_send_large_weight: the vLLM process is given the weight's own memory.
SendLarge(r) ==
  /\ InHand(r) /\ ~Fits(r) /\ ipc_meta[r] = <<>>
  /\ request' = [request EXCEPT ![r] = Request(<<[w |-> hand[r].w, at |-> 0]>>, FALSE)]
  /\ UNCHANGED <<trainer, link, receiver, sender, loaded>>

\* A bug: the last bucket is sent before the copies into it are done.
FlushLastAtOnce(r) ==
  /\ Asked(r) /\ todo[r] = <<>> /\ last[r]
  /\ request' = [request EXCEPT ![r] = Request(ipc_meta[r], TRUE)]
  /\ UNCHANGED <<trainer, link, receiver, sender, loaded>>

FlushLast(r) ==
  /\ Asked(r) /\ todo[r] = <<>> /\ last[r]
  /\ Synchronized(r)
  /\ request' = [request EXCEPT ![r] = Request(ipc_meta[r], TRUE)]
  /\ UNCHANGED <<trainer, link, receiver, sender, loaded>>

OfLarge(meta) == \E k \in DOMAIN meta : Large(meta[k].w)

\* The reply to a bucket empties it; the reply to a large weight ends its turn.
GetReply(r) ==
  /\ request[r].stage = "replied"
  /\ request' = [request EXCEPT ![r].stage = IF request[r].is_last THEN "over" ELSE "none"]
  /\ IF OfLarge(request[r].meta)
     THEN /\ hand' = [hand EXCEPT ![r] = NoHand]
          /\ UNCHANGED <<ipc_meta, ipc_offset>>
     ELSE /\ ipc_meta' = [ipc_meta EXCEPT ![r] = <<>>]
          /\ ipc_offset' = [ipc_offset EXCEPT ![r] = 0]
          /\ UNCHANGED hand
  /\ UNCHANGED <<trainer, link, receiver, ipc, loaded>>

-----------------------------------------------------------------------------
(* The vLLM process: receive_weights and the callback of each bucket. *)

\* A weight of the request is loaded, from the shared buffer or, after the
\* event that comes with its handle, from its own memory.
LoadWeight(r) == LET e == request[r].meta[request[r].done + 1] IN
  /\ request[r].stage = "sent" /\ request[r].done < Len(request[r].meta)
  /\ Large(e.w) => Synchronized(r)
  /\ loaded' = [loaded EXCEPT ![r] = Append(@,
       [i \in 1 .. Sizes[e.w] |-> IF Large(e.w) THEN tensor[r][i - 1] ELSE ipc[r][e.at + i - 1]])]
  /\ request' = [request EXCEPT ![r].done = @ + 1]
  /\ UNCHANGED <<trainer, link, receiver, sender>>

Reply(r) ==
  /\ request[r].stage = "sent" /\ request[r].done = Len(request[r].meta)
  /\ request' = [request EXCEPT ![r].stage = "replied"]
  /\ UNCHANGED <<trainer, link, receiver, sender, loaded>>

-----------------------------------------------------------------------------
TrainerSteps == SendBucket \/ FillChunk \/ SendLast \/ Publish \/ Broadcast
WorkerSteps(r) ==
  \/ Connect(r) \/ GetMetadata(r) \/ TakeBucket(r) \/ YieldView(r) \/ MergeChunk(r)
  \/ CopyLands(r) \/ Pack(r) \/ Flush(r) \/ SendLarge(r) \/ FlushLast(r) \/ GetReply(r)
  \/ LoadWeight(r) \/ Reply(r)

Next == TrainerSteps \/ \E r \in Workers : WorkerSteps(r)

Spec == Init /\ [][Next]_vars /\ WF_vars(Next)

-----------------------------------------------------------------------------
\* Every vLLM process loads the weights in the trainer's order, each of them
\* once and whole: no unit of it comes from a buffer that was not filled yet
\* or was filled anew.
Whole(w) == [i \in 1 .. Sizes[w] |-> <<w, i - 1>>]
WholeInOrder == \A r \in Workers :
  /\ Len(loaded[r]) <= Len(Sizes)
  /\ \A w \in 1 .. Len(loaded[r]) : loaded[r][w] = Whole(w)

\* Of its two buffers a rank broadcasts or receives one while it works on the
\* other: the trainer never fills the one in flight, and a worker has nothing
\* left to read, yield or copy in the one it receives into.
InFlight(p) == op[p].stage \in {"running", "joined"}
BuffersApart ==
  /\ InFlight(Trainer) /\ ~sending => op[Trainer].buf # send_buf
  /\ \A r \in Workers : InFlight(r) =>
       /\ op[r].buf # read_buf[r]
       /\ hand[r].w # 0 => hand[r].buf # op[r].buf
       /\ \A k \in 1 .. Len(copies[r]) : copies[r][k].buf # op[r].buf

\* The transfer comes to its end with all weights loaded everywhere: no rank
\* waits for a broadcast another has not joined or for a reply that is not due.
TransferEnds ==
  <>(\A r \in Workers : request[r].stage = "over" /\ Len(loaded[r]) = Len(Sizes))
=============================================================================
