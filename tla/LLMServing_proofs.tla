------------------------- MODULE LLMServing_proofs -------------------------
(***************************************************************************)
(* Proofs about LLMServing, for any numbers of servers, conversations and  *)
(* updates of the weights.                                                 *)
(*                                                                         *)
(* Five inductive invariants.  Counted: a conversation holds a server      *)
(* exactly while its call is there, and owes a release only when it holds  *)
(* none.  Cached: the LRU list has each cached conversation once.          *)
(* Versioned: what is true of weights, labels and pauses in each phase of  *)
(* an update; where a server can generate, it has the current version.     *)
(* BudgetInv: wherever a call may be made there is room for a token.       *)
(* PauseInv: when engines are paused, failed aborts or not; with the last  *)
(* and the first it follows that no call and no update waits for ever for  *)
(* one that waits for it.                                                  *)
(***************************************************************************)
EXTENDS LLMServing, FiniteSetTheorems, SequenceTheorems, WellFoundedInduction, TLAPS

InCall == {"calling", "running", "replied"}

Typed ==
  /\ inflight \in [Servers -> Int]
  /\ route \in [Conversations -> ServerOrNone] /\ recent \in Seq(Conversations)
  /\ pc \in [Conversations -> {"acquire", "calling", "running", "replied", "tools", "over", "failed"}]
  /\ prompt \in [Conversations -> 1 .. PromptLength]
  /\ tokens \in [Conversations -> Seq(Int)]
  /\ quota \in [Conversations -> Nat]
  /\ aborted \in [Conversations -> BOOLEAN]
  /\ replied \in [Conversations -> Nat]
  /\ lo \in [Conversations -> Int] /\ hi \in [Conversations -> Int]
  /\ held \in [Conversations -> ServerOrNone] /\ owed \in [Conversations -> ServerOrNone]
  /\ home \in [Conversations -> ServerOrNone]
  /\ paused \in [Servers -> BOOLEAN] /\ weights \in [Servers -> Int]
  /\ label \in [Servers -> Nat]
  /\ target \in Nat /\ phase \in {"idle", "abort", "drain", "load", "resume"}
  /\ acked \subseteq Servers /\ slipped \subseteq Servers

HoldsInCall ==
  \A c \in Conversations :
    /\ pc[c] \in InCall <=> held[c] # NoServer
    /\ held[c] # NoServer => owed[c] = NoServer

Counted == Typed /\ HoldsInCall /\ InflightExact

Cached ==
  /\ Len(recent) <= CacheSize
  /\ \A i, j \in DOMAIN recent : recent[i] = recent[j] => i = j
  /\ \A c \in Conversations : route[c] # NoServer <=> \E i \in DOMAIN recent : recent[i] = c

\* The version that servers generate with while no abort has failed.
Current == IF phase \in {"abort", "drain", "load"} THEN target - 1 ELSE target

UpdateOrder ==
  /\ phase \in {"abort", "drain", "load"} => target > 0
  /\ \A s \in Servers :
       /\ phase = "abort" /\ s \in acked => paused[s]
       /\ phase \in {"drain", "load"} => paused[s]
       /\ phase = "resume" /\ s \notin acked => paused[s]
       /\ paused[s] => \A c \in Conversations : ~(pc[c] = "running" /\ held[c] = s)
       /\ phase # "load" => weights[s] = Current /\ label[s] = Current
       /\ phase = "load" /\ s \in acked => weights[s] = target /\ label[s] = target

TokensCurrent ==
  \A c \in Conversations :
    /\ \A i \in DOMAIN tokens[c] : tokens[c][i] # Tool => 0 <= tokens[c][i] /\ tokens[c][i] <= Current
    /\ \A i, j \in DOMAIN tokens[c] :
         tokens[c][i] # Tool /\ tokens[c][j] # Tool /\ i < j => tokens[c][i] <= tokens[c][j]

LabelsOf(c) ==
  /\ hi[c] = -1 <=> lo[c] = -1
  /\ lo[c] >= -1 /\ hi[c] <= Current /\ lo[c] <= hi[c]
  /\ pc[c] = "replied" =>
       /\ hi[c] <= replied[c] /\ replied[c] <= Current
       /\ \A i \in DOMAIN tokens[c] : tokens[c][i] <= replied[c]
  /\ pc[c] # "failed" /\ lo[c] = -1 =>
       /\ pc[c] \in {"acquire", "calling"} => tokens[c] = << >>
       /\ pc[c] \in InCall \cup {"acquire"}
       /\ \A i \in DOMAIN tokens[c] : tokens[c][i] = IF pc[c] = "replied" THEN replied[c] ELSE Current
  /\ lo[c] # -1 => \A i \in DOMAIN tokens[c] : tokens[c][i] # Tool => lo[c] <= tokens[c][i]
  /\ pc[c] \in {"acquire", "calling", "tools", "over"} =>
       \A i \in DOMAIN tokens[c] : tokens[c][i] # Tool => tokens[c][i] <= hi[c]

LabelsCurrent == \A c \in Conversations : LabelsOf(c)

Versioned == UpdateOrder /\ TokensCurrent /\ LabelsCurrent

-----------------------------------------------------------------------------
(* Types.                                                                    *)

LEMMA TypedInit == Init => Typed
  BY ServingAssumption DEF Init, Typed, ServerOrNone

\* Moving an element of a sequence to its end keeps the sequence's elements.
LEMMA TouchedType ==
  ASSUME NEW c \in Conversations, recent \in Seq(Conversations),
         \E i \in DOMAIN recent : recent[i] = c
  PROVE  /\ Touched(c) \in Seq(Conversations)
         /\ Len(Touched(c)) = Len(recent)
         /\ \E i \in DOMAIN recent : recent[i] = c /\
              \A k \in DOMAIN recent :
                Touched(c)[k] = IF k < i THEN recent[k] ELSE IF k < Len(recent) THEN recent[k + 1] ELSE c
<1> DEFINE i == CHOOSE i \in DOMAIN recent : recent[i] = c
           front == SubSeq(recent, 1, i - 1)
           back == SubSeq(recent, i + 1, Len(recent))
<1>1. i \in 1 .. Len(recent) /\ recent[i] = c
  OBVIOUS
<1> HIDE DEF i
<1>2. front \in Seq(Conversations) /\ Len(front) = i - 1 /\ \A k \in 1 .. i - 1 : front[k] = recent[k]
  BY <1>1
<1>3. /\ back \in Seq(Conversations) /\ Len(back) = Len(recent) - i
      /\ \A k \in 1 .. Len(recent) - i : back[k] = recent[i + k]
  BY <1>1
<1> HIDE DEF front, back
<1>4. Touched(c) = Append(front \o back, c)
  BY DEF Touched, i, front, back
<1>5. front \o back \in Seq(Conversations) /\ Len(front \o back) = Len(recent) - 1
  <2>1. front \o back \in Seq(Conversations)
    BY <1>2, <1>3
  <2>2. Len(front \o back) = Len(front) + Len(back)
    BY <1>2, <1>3, ConcatProperties
  <2> QED BY <1>1, <1>2, <1>3, <2>1, <2>2
<1>6. ASSUME NEW k \in 1 .. Len(recent) - 1
      PROVE  (front \o back)[k] = IF k < i THEN recent[k] ELSE recent[k + 1]
  <2>1. CASE k < i
    <3>1. k \in 1 .. Len(front)
      BY <1>1, <1>2, <2>1
    <3>2. (front \o back)[k] = front[k]
      BY <1>2, <1>3, <3>1
    <3> QED BY <1>2, <2>1, <3>1, <3>2
  <2>2. CASE k >= i
    <3>1. k - (i - 1) \in 1 .. Len(back)
      BY <1>1, <1>3, <2>2
    <3>2. (front \o back)[k] = back[k - (i - 1)]
      BY <1>1, <1>2, <1>3, <2>2, <3>1
    <3>3. back[k - (i - 1)] = recent[i + (k - (i - 1))]
      BY <1>3, <3>1
    <3>4. i + (k - (i - 1)) = k + 1
      BY <1>1
    <3> QED BY <1>1, <2>2, <3>2, <3>3, <3>4
  <2>3. k < i \/ k >= i
    BY <1>1
  <2> QED BY <2>1, <2>2, <2>3
<1>7. Touched(c) \in Seq(Conversations) /\ Len(Touched(c)) = Len(recent)
  BY <1>1, <1>4, <1>5
<1>8. ASSUME NEW k \in DOMAIN recent
      PROVE  Touched(c)[k] = IF k < i THEN recent[k] ELSE IF k < Len(recent) THEN recent[k + 1] ELSE c
  <2> HIDE DEF front, back
  <2>1. CASE k = Len(recent)
    BY <1>1, <1>4, <1>5, <2>1
  <2>2. CASE k # Len(recent)
    <3>1. k \in 1 .. Len(recent) - 1
      BY <2>2
    <3>2. Touched(c)[k] = (front \o back)[k]
      BY <1>4, <1>5, <3>1
    <3>3. (front \o back)[k] = IF k < i THEN recent[k] ELSE recent[k + 1]
      BY <1>6, <3>1
    <3>4. k < Len(recent)
      BY <3>1
    <3> QED BY <3>2, <3>3, <3>4
  <2> QED BY <2>1, <2>2
<1> QED BY <1>1, <1>7, <1>8

LEMMA TypedStep == ASSUME Counted, Cached, [Next]_vars PROVE Typed'
<1> USE ServingAssumption DEF Counted, Typed, HoldsInCall, InCall, ServerOrNone,
        balancer, conversations, servers, manager
<1>1. ASSUME NEW c \in Conversations, AcquireSticky(c) PROVE Typed'
  <2>1. Touched(c) \in Seq(Conversations)
    BY <1>1, TouchedType DEF AcquireSticky, Cached
  <2>2. route[c] \in Servers
    BY <1>1 DEF AcquireSticky
  <2>3. inflight' \in [Servers -> Int]
    BY <1>1, <2>2 DEF AcquireSticky, Grant
  <2> QED BY <1>1, <2>1, <2>2, <2>3 DEF AcquireSticky, Grant
<1>2. ASSUME NEW c \in Conversations, AcquireLeastLoaded(c) PROVE Typed'
  <2> PICK s \in Servers : Grant(c, s) /\
        \/ /\ Len(recent) < CacheSize
           /\ recent' = Append(recent, c)
           /\ route' = [route EXCEPT ![c] = s]
        \/ /\ Len(recent) >= CacheSize
           /\ recent' = Append(Tail(recent), c)
           /\ route' = [route EXCEPT ![Head(recent)] = NoServer, ![c] = s]
    BY <1>2 DEF AcquireLeastLoaded
  <2>1. recent' \in Seq(Conversations)
    <3>1. recent \in Seq(Conversations)
      OBVIOUS
    <3> HIDE DEF Counted
    <3>2. CASE recent' = Append(recent, c)
      BY <3>1, <3>2
    <3>3. CASE Len(recent) >= CacheSize /\ recent' = Append(Tail(recent), c)
      <4>1. Len(recent) # 0
        BY <3>1, <3>3
      <4>2. recent # << >>
        BY <4>1
      <4>3. Tail(recent) \in Seq(Conversations)
        BY <3>1, <4>2, HeadTailProperties
      <4> QED BY <3>3, <4>3
    <3> QED BY <3>2, <3>3
  <2>2. route' \in [Conversations -> ServerOrNone]
    OBVIOUS
  <2>3. inflight' = [inflight EXCEPT ![s] = inflight[s] + 1] /\ inflight[s] \in Int
    BY DEF Grant
  <2>4. inflight \in [Servers -> Int]
    OBVIOUS
  <2>5. inflight' \in [Servers -> Int]
    <3> HIDE DEF Counted
    <3> QED BY <2>3, <2>4
  <2> QED BY <2>1, <2>2, <2>5 DEF Grant
<1>3. ASSUME NEW c \in Conversations, Release(c) PROVE Typed'
  <2>1. owed[c] \in Servers
    BY <1>3 DEF Release
  <2>2. inflight' \in [Servers -> Int] /\ owed' \in [Conversations -> ServerOrNone]
    BY <1>3, <2>1 DEF Release
  <2> QED BY <1>3, <2>2 DEF Release
<1>4. ASSUME NEW c \in Conversations, Accept(c) PROVE Typed'
  <2>1. Budget(c) \in Nat
    BY DEF Budget, ContextLength
  <2> QED BY <1>4, <2>1 DEF Accept
<1>5. ASSUME NEW c \in Conversations, Generate(c) PROVE Typed'
  <2>1. held[c] \in Servers
    BY <1>5 DEF Generate
  <2>2. weights[held[c]] \in Int /\ label[held[c]] \in Nat
    BY <2>1
  <2>3. tokens' \in [Conversations -> Seq(Int)]
    BY <1>5, <2>2 DEF Generate
  <2>4. quota' = [quota EXCEPT ![c] = quota[c] - 1] \/ quota' = [quota EXCEPT ![c] = 0]
    BY <1>5 DEF Generate
  <2>6. quota[c] - 1 \in Nat
    BY <1>5 DEF Generate
  <2>8. quota \in [Conversations -> Nat]
    OBVIOUS
  <2>7. quota' \in [Conversations -> Nat]
    <3> HIDE DEF Counted
    <3> QED BY <2>4, <2>6, <2>8
  <2>5. /\ pc' \in [Conversations -> {"acquire", "calling", "running", "replied", "tools", "over", "failed"}]
        /\ aborted' \in [Conversations -> BOOLEAN] /\ replied' \in [Conversations -> Nat]
    BY <1>5, <2>2 DEF Generate
  <2> QED BY <1>5, <2>3, <2>7, <2>5 DEF Generate
<1>6. ASSUME NEW c \in Conversations, Continue(c) \/ EndTurn(c) PROVE Typed'
  <2>1. /\ LetGo(c) /\ Labelled(c)
        /\ pc' \in [Conversations -> {"acquire", "calling", "running", "replied", "tools", "over", "failed"}]
        /\ UNCHANGED <<balancer, prompt, tokens, quota, aborted, home, servers, manager>>
    BY <1>6 DEF Continue, EndTurn
  <2>2. /\ lo' \in [Conversations -> Int] /\ hi' \in [Conversations -> Int]
        /\ replied' \in [Conversations -> Nat]
    BY <2>1 DEF Labelled
  <2>3. owed' \in [Conversations -> ServerOrNone] /\ held' \in [Conversations -> ServerOrNone]
    BY <2>1 DEF LetGo
  <2> QED BY <2>1, <2>2, <2>3
<1>7. ASSUME NEW c \in Conversations, CallTools(c) PROVE Typed'
  <2> PICK n \in 1 .. MaxAnswer :
        \/ pc' = [pc EXCEPT ![c] = "over"] /\ UNCHANGED tokens
        \/ /\ tokens' = [tokens EXCEPT ![c] = @ \o [i \in 1 .. n |-> Tool]]
           /\ pc' = [pc EXCEPT ![c] = "acquire"]
    BY <1>7 DEF CallTools
  <2>1. [i \in 1 .. n |-> Tool] \in Seq(Int)
    BY DEF Tool
  <2>2. tokens[c] \o [i \in 1 .. n |-> Tool] \in Seq(Int)
    BY <2>1
  <2>3. tokens' \in [Conversations -> Seq(Int)]
    BY <2>2
  <2>4. pc' \in [Conversations -> {"acquire", "calling", "running", "replied", "tools", "over", "failed"}]
    OBVIOUS
  <2> QED BY <1>7, <2>3, <2>4 DEF CallTools
<1>8. ASSUME NEW c \in Conversations, Raise(c) PROVE Typed'
  BY <1>8 DEF Raise, LetGo
<1>9. CASE StartUpdate
  BY <1>9 DEF StartUpdate, BeginPhase
<1>10. CASE NextPhase
  BY <1>10 DEF NextPhase, AllAcked, BeginPhase
<1>11. ASSUME NEW s \in Servers, Abort(s) PROVE Typed'
  <2>1. pc' \in [Conversations -> {"acquire", "calling", "running", "replied", "tools", "over", "failed"}]
    BY <1>11 DEF Abort
  <2>2. aborted' \in [Conversations -> BOOLEAN]
    BY <1>11 DEF Abort
  <2>3. replied' \in [Conversations -> Nat]
    BY <1>11 DEF Abort
  <2>4. quota' \in [Conversations -> Nat]
    BY <1>11 DEF Abort
  <2> QED BY <1>11, <2>1, <2>2, <2>3, <2>4 DEF Abort, Ack
<1>12. ASSUME NEW s \in Servers, AbortSlips(s) PROVE Typed'
  BY <1>12 DEF AbortSlips, Ack
<1>13. ASSUME NEW s \in Servers, ServerStep(s) PROVE Typed'
  <2>1. CASE Drain(s)
    BY <2>1 DEF Drain, Ack
  <2>2. CASE BeginLoad(s)
    BY <2>2 DEF BeginLoad, Torn
  <2>3. CASE EndLoad(s)
    BY <2>3 DEF EndLoad
  <2>4. CASE SetGlobalSteps(s)
    BY <2>4 DEF SetGlobalSteps, Ack
  <2>5. CASE Resume(s)
    BY <2>5 DEF Resume, Ack
  <2> QED BY <1>13, <2>1, <2>2, <2>3, <2>4, <2>5 DEF ServerStep
<1>14. CASE UNCHANGED vars
  BY <1>14 DEF vars
<1> QED BY <1>1, <1>2, <1>3, <1>4, <1>5, <1>6, <1>7, <1>8, <1>9, <1>10, <1>11, <1>12, <1>13, <1>14
       DEF Next, ConversationStep

-----------------------------------------------------------------------------
(* The load balancer's counters.                                             *)

Unit(x, s)    == IF x = s THEN 1 ELSE 0
CountOf(f, s) == Cardinality({d \in Conversations : f[d] = s})

\* Moving one conversation's entry moves one unit of the count.
LEMMA CountMoves ==
  ASSUME NEW f, NEW g, NEW c \in Conversations, NEW s,
         \A d \in Conversations \ {c} : g[d] = f[d]
  PROVE  /\ CountOf(f, s) \in Nat
         /\ CountOf(g, s) = CountOf(f, s) + Unit(g[c], s) - Unit(f[c], s)
<1> DEFINE F == {d \in Conversations : f[d] = s}
           G == {d \in Conversations : g[d] = s}
           R == F \ {c}
<1>1. IsFiniteSet(F) /\ IsFiniteSet(R)
  BY ServingAssumption, FS_Subset
<1>2. Cardinality(R) \in Nat /\ Cardinality(F) \in Nat
  BY <1>1, FS_CardinalityType
<1>3. Cardinality(R \cup {c}) = Cardinality(R) + 1
  BY <1>1, FS_AddElement
<1>4. F = IF f[c] = s THEN R \cup {c} ELSE R
  OBVIOUS
<1>5. G = IF g[c] = s THEN R \cup {c} ELSE R
  OBVIOUS
<1> HIDE DEF F, G, R
<1>6. Cardinality(F) = Cardinality(R) + Unit(f[c], s)
  BY <1>2, <1>3, <1>4 DEF Unit
<1>7. Cardinality(G) = Cardinality(R) + Unit(g[c], s)
  BY <1>2, <1>3, <1>5 DEF Unit
<1>8. Cardinality(G) = Cardinality(F) + Unit(g[c], s) - Unit(f[c], s)
  BY <1>2, <1>6, <1>7 DEF Unit
<1> QED BY <1>2, <1>8 DEF F, G, CountOf

Holding(s) == CountOf(held, s)
Owing(s)   == CountOf(owed, s)

LEMMA GrantExact ==
  ASSUME Counted, NEW c \in Conversations, NEW s \in Servers, held[c] = NoServer,
         Grant(c, s)
  PROVE  InflightExact'
<1> SUFFICES ASSUME NEW t \in Servers PROVE inflight'[t] = Holding(t)' + Owing(t)'
  BY DEF InflightExact, Holding, Owing, CountOf
<1>1. Holding(t)' = Holding(t) + (IF s = t THEN 1 ELSE 0) /\ Holding(t) \in Nat
  <2>1. held \in [Conversations -> ServerOrNone] /\ s \in ServerOrNone
    BY DEF Counted, Typed, ServerOrNone
  <2>2. held' = [held EXCEPT ![c] = s]
    BY DEF Grant
  <2>3. \A d \in Conversations \ {c} : held'[d] = held[d]
    BY <2>1, <2>2
  <2>4. /\ CountOf(held, t) \in Nat
        /\ CountOf(held', t) =
             CountOf(held, t) + Unit(held'[c], t) - Unit(held[c], t)
    BY <2>3, CountMoves
  <2>5. Holding(t) = CountOf(held, t) /\ Holding(t)' = CountOf(held', t)
    BY DEF Holding, CountOf
  <2> QED BY <2>1, <2>2, <2>4, <2>5, ServingAssumption DEF Unit
<1>2. Owing(t)' = Owing(t)
  BY DEF Owing, Grant
<1>3. inflight[t] = Holding(t) + Owing(t)
  BY DEF Counted, InflightExact, Holding, Owing, CountOf
<1>4. inflight'[t] = inflight[t] + (IF s = t THEN 1 ELSE 0)
  BY DEF Grant, Counted, Typed
<1>5. inflight[t] \in Int
  BY DEF Counted, Typed
<1> HIDE DEF Holding, Owing
<1>6. Owing(t) \in Int
  <2>1. owed \in [Conversations -> ServerOrNone]
    BY DEF Counted, Typed
  <2>2. IsFiniteSet({d \in Conversations : owed[d] = t})
    BY ServingAssumption, FS_Subset
  <2> QED BY <2>2, FS_CardinalityType DEF Owing, CountOf
<1> QED BY <1>1, <1>2, <1>3, <1>4, <1>5, <1>6

LEMMA LetGoExact ==
  ASSUME Counted, NEW c \in Conversations, pc[c] \in InCall, LetGo(c), UNCHANGED inflight
  PROVE  InflightExact'
<1> SUFFICES ASSUME NEW t \in Servers PROVE inflight'[t] = Holding(t)' + Owing(t)'
  BY DEF InflightExact, Holding, Owing, CountOf
<1>0. /\ held \in [Conversations -> ServerOrNone] /\ owed \in [Conversations -> ServerOrNone]
      /\ held[c] \in Servers /\ owed[c] = NoServer /\ NoServer \in ServerOrNone
  BY DEF Counted, Typed, HoldsInCall, ServerOrNone
<1>1. Holding(t)' = Holding(t) - (IF held[c] = t THEN 1 ELSE 0) /\ Holding(t) \in Nat
  <2>1. held' = [held EXCEPT ![c] = NoServer]
    BY DEF LetGo
  <2>2. \A d \in Conversations \ {c} : held'[d] = held[d]
    BY <1>0, <2>1
  <2>3. /\ CountOf(held, t) \in Nat
        /\ CountOf(held', t) =
             CountOf(held, t) + Unit(held'[c], t) - Unit(held[c], t)
    BY <2>2, CountMoves
  <2>4. Holding(t) = CountOf(held, t) /\ Holding(t)' = CountOf(held', t)
    BY DEF Holding, CountOf
  <2> QED BY <1>0, <2>1, <2>3, <2>4, ServingAssumption DEF Unit
<1>2. Owing(t)' = Owing(t) + (IF held[c] = t THEN 1 ELSE 0) /\ Owing(t) \in Nat
  <2>1. owed' = [owed EXCEPT ![c] = held[c]] /\ held[c] \in ServerOrNone
    BY <1>0 DEF LetGo, ServerOrNone
  <2>2. owed'[c] = held[c]
    BY <1>0, <2>1
  <2>3. \A d \in Conversations \ {c} : owed'[d] = owed[d]
    BY <1>0, <2>1
  <2>4. /\ CountOf(owed, t) \in Nat
        /\ CountOf(owed', t) =
             CountOf(owed, t) + Unit(owed'[c], t) - Unit(owed[c], t)
    BY <2>3, CountMoves
  <2>5. owed[c] # t
    BY <1>0, ServingAssumption
  <2>6. Owing(t) = CountOf(owed, t) /\ Owing(t)' = CountOf(owed', t)
    BY DEF Owing, CountOf
  <2> QED BY <2>2, <2>4, <2>5, <2>6 DEF Unit
<1>3. inflight[t] = Holding(t) + Owing(t) /\ inflight'[t] = inflight[t]
  BY DEF Counted, InflightExact, Holding, Owing, CountOf
<1> HIDE DEF Holding, Owing
<1> QED BY <1>1, <1>2, <1>3

LEMMA ReleaseExact ==
  ASSUME Counted, NEW c \in Conversations, Release(c)
  PROVE  InflightExact'
<1> SUFFICES ASSUME NEW t \in Servers PROVE inflight'[t] = Holding(t)' + Owing(t)'
  BY DEF InflightExact, Holding, Owing, CountOf
<1>0. /\ owed \in [Conversations -> ServerOrNone] /\ owed[c] \in Servers
      /\ NoServer \in ServerOrNone /\ inflight \in [Servers -> Int]
  BY DEF Counted, Typed, ServerOrNone, Release
<1>1. Owing(t)' = Owing(t) - (IF owed[c] = t THEN 1 ELSE 0) /\ Owing(t) \in Nat
  <2>1. owed' = [owed EXCEPT ![c] = NoServer]
    BY DEF Release
  <2>2. \A d \in Conversations \ {c} : owed'[d] = owed[d]
    BY <1>0, <2>1
  <2>3. /\ CountOf(owed, t) \in Nat
        /\ CountOf(owed', t) =
             CountOf(owed, t) + Unit(owed'[c], t) - Unit(owed[c], t)
    BY <2>2, CountMoves
  <2>4. Owing(t) = CountOf(owed, t) /\ Owing(t)' = CountOf(owed', t)
    BY DEF Owing, CountOf
  <2> QED BY <1>0, <2>1, <2>3, <2>4, ServingAssumption DEF Unit
<1>2. Holding(t)' = Holding(t)
  BY DEF Holding, Release
<1>3. Holding(t) \in Nat
  <2>1. IsFiniteSet({d \in Conversations : held[d] = t})
    BY ServingAssumption, FS_Subset
  <2> QED BY <2>1, FS_CardinalityType DEF Holding, CountOf
<1>4. inflight[t] = Holding(t) + Owing(t)
  BY DEF Counted, InflightExact, Holding, Owing, CountOf
<1>5. inflight'[t] = inflight[t] - (IF owed[c] = t THEN 1 ELSE 0)
  BY <1>0 DEF Release
<1> HIDE DEF Holding, Owing
<1> QED BY <1>1, <1>2, <1>3, <1>4, <1>5

LEMMA HoldsStep == ASSUME Counted, [Next]_vars PROVE HoldsInCall'
<1> USE ServingAssumption DEF InCall, ServerOrNone, balancer, conversations, servers, manager
<1>0. Typed /\ HoldsInCall
  BY DEF Counted
<1>1. ASSUME NEW c \in Conversations, NEW s \in Servers, pc[c] = "acquire", owed[c] = NoServer, Grant(c, s)
      PROVE  HoldsInCall'
  BY <1>0, <1>1 DEF Typed, HoldsInCall, Grant
<1>2. ASSUME NEW c \in Conversations, AcquireSticky(c) PROVE HoldsInCall'
  <2>1. route[c] \in Servers
    BY <1>0, <1>2 DEF Typed, AcquireSticky
  <2> QED BY <1>1, <1>2, <2>1 DEF AcquireSticky
<1>3. ASSUME NEW c \in Conversations, AcquireLeastLoaded(c) PROVE HoldsInCall'
  BY <1>1, <1>3 DEF AcquireLeastLoaded
<1>4. ASSUME NEW c \in Conversations, Release(c) PROVE HoldsInCall'
  BY <1>0, <1>4 DEF Typed, HoldsInCall, Release
<1>5. ASSUME NEW c \in Conversations, Accept(c) PROVE HoldsInCall'
  BY <1>0, <1>5 DEF Typed, HoldsInCall, Accept
<1>6. ASSUME NEW c \in Conversations, Generate(c) PROVE HoldsInCall'
  BY <1>0, <1>6 DEF Typed, HoldsInCall, Generate
<1>7. ASSUME NEW c \in Conversations, Continue(c) \/ EndTurn(c) \/ Raise(c) PROVE HoldsInCall'
  <2>1. /\ LetGo(c) /\ pc[c] \in InCall
        /\ \/ pc' = [pc EXCEPT ![c] = "acquire"] \/ pc' = [pc EXCEPT ![c] = "over"]
           \/ pc' = [pc EXCEPT ![c] = "tools"] \/ pc' = [pc EXCEPT ![c] = "failed"]
    BY <1>7 DEF Continue, EndTurn, Raise
  <2> QED BY <1>0, <2>1 DEF Typed, HoldsInCall, LetGo
<1>8. ASSUME NEW c \in Conversations, CallTools(c) PROVE HoldsInCall'
  <2>1. /\ pc[c] = "tools" /\ UNCHANGED <<held, owed>>
        /\ pc' = [pc EXCEPT ![c] = "over"] \/ pc' = [pc EXCEPT ![c] = "acquire"]
    BY <1>8 DEF CallTools
  <2> QED BY <1>0, <2>1 DEF Typed, HoldsInCall
<1>9. ASSUME NEW s \in Servers, Abort(s) PROVE HoldsInCall'
  <2>1. \A c \in Conversations : pc'[c] \in InCall <=> pc[c] \in InCall
    BY <1>9 DEF Abort, RunningOn
  <2>2. UNCHANGED <<held, owed>>
    BY <1>9 DEF Abort
  <2> QED BY <1>0, <2>1, <2>2 DEF HoldsInCall
<1>10. ASSUME UNCHANGED conversations PROVE HoldsInCall'
  BY <1>0, <1>10 DEF HoldsInCall
<1>11. StartUpdate \/ NextPhase \/ (UNCHANGED vars) => UNCHANGED conversations
  BY DEF StartUpdate, NextPhase, vars
<1>12. \A s \in Servers : AbortSlips(s) \/ ServerStep(s) => UNCHANGED conversations
  BY DEF AbortSlips, ServerStep, Drain, BeginLoad, EndLoad, SetGlobalSteps, Resume
<1> HIDE DEF conversations
<1> QED BY <1>2, <1>3, <1>4, <1>5, <1>6, <1>7, <1>8, <1>9, <1>10, <1>11, <1>12 DEF Next, ConversationStep

LEMMA ExactStep == ASSUME Counted, [Next]_vars PROVE InflightExact'
<1> USE DEF balancer, conversations, servers, manager
<1>1. ASSUME UNCHANGED <<inflight, held, owed>> PROVE InflightExact'
  BY <1>1 DEF Counted, InflightExact
<1>2. ASSUME NEW c \in Conversations, AcquireSticky(c) PROVE InflightExact'
  <2>1. route[c] \in Servers /\ held[c] = NoServer
    BY <1>2 DEF Counted, Typed, HoldsInCall, InCall, ServerOrNone, AcquireSticky
  <2> QED BY <1>2, <2>1, GrantExact DEF AcquireSticky
<1>3. ASSUME NEW c \in Conversations, AcquireLeastLoaded(c) PROVE InflightExact'
  <2>1. held[c] = NoServer
    BY <1>3 DEF Counted, HoldsInCall, InCall, AcquireLeastLoaded
  <2> QED BY <1>3, <2>1, GrantExact DEF AcquireLeastLoaded
<1>4. ASSUME NEW c \in Conversations, Release(c) PROVE InflightExact'
  BY <1>4, ReleaseExact
<1>5. ASSUME NEW c \in Conversations, Continue(c) \/ EndTurn(c) \/ Raise(c) PROVE InflightExact'
  <2>1. LetGo(c) /\ pc[c] \in InCall /\ UNCHANGED inflight
    BY <1>5 DEF Continue, EndTurn, Raise, InCall
  <2> QED BY <2>1, LetGoExact
<1>6. ASSUME NEW c \in Conversations, Accept(c) \/ Generate(c) \/ CallTools(c)
      PROVE UNCHANGED <<inflight, held, owed>>
  BY <1>6 DEF Accept, Generate, CallTools
<1>7. StartUpdate \/ NextPhase \/ (UNCHANGED vars) => UNCHANGED <<inflight, held, owed>>
  BY DEF StartUpdate, NextPhase, vars
<1>8. \A s \in Servers : Abort(s) \/ AbortSlips(s) \/ ServerStep(s) => UNCHANGED <<inflight, held, owed>>
  BY DEF Abort, AbortSlips, ServerStep, Drain, BeginLoad, EndLoad, SetGlobalSteps, Resume, Ack
<1> QED BY <1>1, <1>2, <1>3, <1>4, <1>5, <1>6, <1>7, <1>8 DEF Next, ConversationStep

-----------------------------------------------------------------------------
(* The routing cache.                                                        *)

CachedSticky == Cached /\ StickySession

LEMMA CachedStep == ASSUME Counted, CachedSticky, [Next]_vars PROVE CachedSticky'
<1> USE ServingAssumption DEF balancer, conversations, servers, manager
<1>0. /\ recent \in Seq(Conversations) /\ route \in [Conversations -> ServerOrNone]
      /\ home \in [Conversations -> ServerOrNone]
  BY DEF Counted, Typed
<1>1. ASSUME UNCHANGED <<recent, route, home>> PROVE CachedSticky'
  BY <1>1 DEF CachedSticky, Cached, StickySession
<1>2. ASSUME NEW c \in Conversations, AcquireSticky(c) PROVE CachedSticky'
  <2>0. \E i \in DOMAIN recent : recent[i] = c
    BY <1>2 DEF CachedSticky, Cached, AcquireSticky
  <2>1. PICK i \in DOMAIN recent : recent[i] = c /\
           \A k \in DOMAIN recent :
             Touched(c)[k] = IF k < i THEN recent[k] ELSE IF k < Len(recent) THEN recent[k + 1] ELSE c
    BY <1>0, <2>0, TouchedType
  <2>2. Len(Touched(c)) = Len(recent) /\ Touched(c) \in Seq(Conversations)
    BY <1>0, <2>0, TouchedType
  <2>3. recent' = Touched(c) /\ route' = route /\ home' = [home EXCEPT ![c] = route[c]]
    BY <1>2 DEF AcquireSticky, Grant
  <2>4. Len(recent) \in Nat /\ DOMAIN recent = 1 .. Len(recent) /\ DOMAIN recent' = 1 .. Len(recent)
    BY <1>0, <2>2, <2>3
  <2>5. \A k, l \in DOMAIN recent : recent[k] = recent[l] => k = l
    BY DEF CachedSticky, Cached
  <2>6. \A k, l \in DOMAIN recent' : recent'[k] = recent'[l] => k = l
    BY <2>1, <2>3, <2>4, <2>5
  <2>7. ASSUME NEW d \in Conversations
        PROVE  (\E k \in DOMAIN recent' : recent'[k] = d) <=> (\E k \in DOMAIN recent : recent[k] = d)
    <3>1. ASSUME NEW k \in DOMAIN recent', recent'[k] = d PROVE \E l \in DOMAIN recent : recent[l] = d
      BY <2>1, <2>3, <2>4, <3>1
    <3>2. ASSUME NEW k \in DOMAIN recent, recent[k] = d PROVE \E l \in DOMAIN recent' : recent'[l] = d
      <4>1. CASE k < i
        BY <2>1, <2>3, <2>4, <3>2, <4>1
      <4>2. CASE k = i
        BY <2>1, <2>3, <2>4, <3>2, <4>2
      <4>3. CASE k > i
        <5>1. k - 1 \in 1 .. Len(recent) /\ ~(k - 1 < i) /\ k - 1 < Len(recent) /\ (k - 1) + 1 = k
          BY <2>4, <4>3
        <5>2. recent'[k - 1] = d
          BY <2>1, <2>3, <2>4, <3>2, <5>1
        <5> QED BY <2>4, <5>1, <5>2
      <4> QED BY <2>4, <4>1, <4>2, <4>3
    <3> QED BY <3>1, <3>2
  <2>8. Cached'
    BY <2>2, <2>3, <2>6, <2>7 DEF CachedSticky, Cached
  <2>9. StickySession'
    BY <1>0, <2>2, <2>3 DEF CachedSticky, StickySession
  <2> QED BY <2>8, <2>9 DEF CachedSticky
<1>3. ASSUME NEW c \in Conversations, AcquireLeastLoaded(c) PROVE CachedSticky'
  <2>0. Len(recent) \in Nat /\ DOMAIN recent = 1 .. Len(recent)
    BY <1>0
  <2>1. ASSUME NEW s \in Servers, Grant(c, s), Len(recent) < CacheSize, recent' = Append(recent, c),
               route' = [route EXCEPT ![c] = s], route[c] = NoServer
        PROVE  CachedSticky'
    <3>1. /\ Len(recent') = Len(recent) + 1 /\ DOMAIN recent' = 1 .. Len(recent) + 1
          /\ \A k \in 1 .. Len(recent) + 1 : recent'[k] = IF k <= Len(recent) THEN recent[k] ELSE c
      BY <1>0, <2>1
    <3>2. \A k \in DOMAIN recent : recent[k] # c
      BY <2>1 DEF CachedSticky, Cached
    <3>3. \A k, l \in DOMAIN recent' : recent'[k] = recent'[l] => k = l
      BY <2>0, <3>1, <3>2 DEF CachedSticky, Cached
    <3>4. \A d \in Conversations : route'[d] # NoServer <=> \E k \in DOMAIN recent' : recent'[k] = d
      BY <1>0, <2>0, <2>1, <3>1, <3>2 DEF CachedSticky, Cached
    <3>5. home' = [home EXCEPT ![c] = s]
      BY <2>1 DEF Grant
    <3>6. StickySession'
      <4> SUFFICES ASSUME NEW d \in Conversations, home'[d] # NoServer
                   PROVE  route'[d] = home'[d]
        BY DEF StickySession
      <4>1. CASE d = c
        <5>1. route'[c] = s /\ home'[c] = s
          BY <1>0, <2>1, <3>5
        <5> QED BY <4>1, <5>1
      <4>2. CASE d # c
        <5>1. home'[d] = home[d] /\ route'[d] = route[d]
          BY <1>0, <2>1, <3>5, <4>2
        <5>2. ~(Len(recent) = CacheSize)
          <6>1. Len(recent) < CacheSize /\ CacheSize \in Nat
            BY <2>1
          <6>2. \A a, b \in Nat : a < b => a # b
            OBVIOUS
          <6> QED BY <2>0, <6>1, <6>2
        <5> QED BY <5>1, <5>2 DEF CachedSticky, StickySession
      <4> QED BY <4>1, <4>2
    <3>7. Len(recent') <= CacheSize
      BY <2>0, <2>1, <3>1
    <3> QED BY <3>3, <3>4, <3>6, <3>7 DEF CachedSticky, Cached
  <2>2. ASSUME NEW s \in Servers, Grant(c, s), Len(recent) >= CacheSize, recent' = Append(Tail(recent), c),
               route' = [route EXCEPT ![Head(recent)] = NoServer, ![c] = s], route[c] = NoServer
        PROVE  CachedSticky'
    <3>0. Len(recent) = CacheSize /\ Len(recent) >= 1
      BY <2>0, <2>2 DEF CachedSticky, Cached
    <3>1. /\ Len(recent') = Len(recent) /\ DOMAIN recent' = 1 .. Len(recent)
          /\ \A k \in 1 .. Len(recent) : recent'[k] = IF k < Len(recent) THEN recent[k + 1] ELSE c
      <4>1. recent # << >>
        BY <1>0, <3>0
      <4>2. /\ Tail(recent) \in Seq(Conversations) /\ Len(Tail(recent)) = Len(recent) - 1
            /\ \A k \in 1 .. Len(recent) - 1 : Tail(recent)[k] = recent[k + 1]
        BY <1>0, <4>1, HeadTailProperties
      <4> QED BY <2>0, <2>2, <3>0, <4>2
    <3>2. Head(recent) = recent[1] /\ recent[1] \in Conversations
      BY <1>0, <3>0
    <3>3. \A k \in DOMAIN recent : recent[k] # c
      BY <2>2 DEF CachedSticky, Cached
    <3>4. \A k, l \in DOMAIN recent : recent[k] = recent[l] => k = l
      BY DEF CachedSticky, Cached
    <3>5. \A k, l \in DOMAIN recent' : recent'[k] = recent'[l] => k = l
      BY <2>0, <3>0, <3>1, <3>3, <3>4
    <3>6. route' = [route EXCEPT ![recent[1]] = NoServer, ![c] = s] /\ recent[1] # c
      BY <2>0, <2>2, <3>0, <3>2, <3>3
    <3>7. ASSUME NEW d \in Conversations PROVE route'[d] # NoServer <=> \E k \in DOMAIN recent' : recent'[k] = d
      <4>1. CASE d = c
        BY <1>0, <2>0, <3>0, <3>1, <3>6, <4>1
      <4>2. CASE d = recent[1]
        BY <1>0, <2>0, <3>0, <3>1, <3>2, <3>4, <3>6, <4>2
      <4>3. CASE d # c /\ d # recent[1]
        <5>1. route'[d] = route[d]
          BY <1>0, <3>6, <4>3
        <5>2. ASSUME NEW k \in DOMAIN recent, recent[k] = d PROVE \E l \in DOMAIN recent' : recent'[l] = d
          <6>1. k - 1 \in 1 .. Len(recent) /\ k - 1 < Len(recent) /\ (k - 1) + 1 = k
            BY <2>0, <4>3, <5>2
          <6>2. recent'[k - 1] = d
            BY <3>1, <5>2, <6>1
          <6> QED BY <3>1, <6>1, <6>2
        <5>3. ASSUME NEW k \in DOMAIN recent', recent'[k] = d PROVE \E l \in DOMAIN recent : recent[l] = d
          BY <2>0, <3>0, <3>1, <4>3, <5>3
        <5> QED BY <5>1, <5>2, <5>3 DEF CachedSticky, Cached
      <4> QED BY <4>1, <4>2, <4>3
    <3>8. home' = [home EXCEPT ![c] = s]
      BY <2>2 DEF Grant
    <3>9. StickySession'
      <4> SUFFICES ASSUME NEW d \in Conversations, home'[d] # NoServer
                   PROVE  route'[d] = home'[d] \/ (route'[d] = NoServer /\ Len(recent') = CacheSize)
        BY DEF StickySession
      <4>1. CASE d = c
        <5>1. route'[c] = s /\ home'[c] = s
          BY <1>0, <3>6, <3>8
        <5>2. route'[d] = home'[d]
          BY <4>1, <5>1
        <5> QED BY <5>2
      <4>2. CASE d # c
        <5>1. home'[d] = home[d]
          BY <1>0, <3>8, <4>2
        <5>2. route'[d] = route[d] \/ route'[d] = NoServer
          BY <1>0, <3>6, <4>2
        <5> QED BY <3>0, <3>1, <5>1, <5>2 DEF CachedSticky, StickySession
      <4> QED BY <4>1, <4>2
    <3>10. Len(recent') <= CacheSize
      BY <2>0, <3>0, <3>1
    <3> QED BY <3>5, <3>7, <3>9, <3>10 DEF CachedSticky, Cached
  <2> QED BY <1>3, <2>1, <2>2 DEF AcquireLeastLoaded
<1>4. ASSUME NEW c \in Conversations,
             Release(c) \/ Accept(c) \/ Generate(c) \/ Continue(c) \/ EndTurn(c) \/ CallTools(c) \/ Raise(c)
      PROVE  UNCHANGED <<recent, route, home>>
  BY <1>4 DEF Release, Accept, Generate, Continue, EndTurn, CallTools, Raise
<1>5. StartUpdate \/ NextPhase \/ (UNCHANGED vars) => UNCHANGED <<recent, route, home>>
  BY DEF StartUpdate, NextPhase, vars
<1>6. \A s \in Servers : Abort(s) \/ AbortSlips(s) \/ ServerStep(s) => UNCHANGED <<recent, route, home>>
  BY DEF Abort, AbortSlips, ServerStep, Drain, BeginLoad, EndLoad, SetGlobalSteps, Resume, Ack
<1> QED BY <1>1, <1>2, <1>3, <1>4, <1>5, <1>6 DEF Next, ConversationStep

-----------------------------------------------------------------------------
(* Versions and labels.                                                      *)

VersionedInv == slipped = {} => Versioned

LEMMA UpdateOrderStep ==
  ASSUME Counted, UpdateOrder, [Next]_vars, slipped' = {}
  PROVE  UpdateOrder'
<1> USE DEF balancer, conversations, servers, manager
<1>0. /\ target \in Nat /\ acked \subseteq Servers
      /\ phase \in {"idle", "abort", "drain", "load", "resume"}
      /\ paused \in [Servers -> BOOLEAN] /\ weights \in [Servers -> Int] /\ label \in [Servers -> Nat]
      /\ pc \in [Conversations -> {"acquire", "calling", "running", "replied", "tools", "over", "failed"}]
  BY DEF Counted, Typed
<1>1. ASSUME UNCHANGED <<servers, phase, acked, target>>,
             \A d \in Conversations : pc'[d] = "running" => pc[d] = "running" /\ held'[d] = held[d]
      PROVE  UpdateOrder'
  BY <1>1 DEF UpdateOrder, Current
<1>2. ASSUME NEW c \in Conversations, Accept(c) PROVE UpdateOrder'
  BY <1>0, <1>2 DEF Accept, UpdateOrder, Current
<1>3. ASSUME NEW c \in Conversations, ConversationStep(c) \/ Raise(c), ~Accept(c)
      PROVE  /\ UNCHANGED <<servers, phase, acked, target>>
             /\ \A d \in Conversations : pc'[d] = "running" => pc[d] = "running" /\ held'[d] = held[d]
  <2>1. CASE AcquireSticky(c) \/ AcquireLeastLoaded(c)
    BY <1>0, <2>1 DEF AcquireSticky, AcquireLeastLoaded, Grant, Counted, Typed
  <2>2. CASE Release(c)
    BY <2>2 DEF Release
  <2>3. CASE Generate(c)
    BY <1>0, <2>3 DEF Generate
  <2>4. CASE Continue(c) \/ EndTurn(c) \/ Raise(c)
    BY <1>0, <2>4 DEF Continue, EndTurn, Raise, LetGo, Counted, Typed
  <2>5. CASE CallTools(c)
    BY <1>0, <2>5 DEF CallTools
  <2> QED BY <1>3, <2>1, <2>2, <2>3, <2>4, <2>5 DEF ConversationStep
<1>4. CASE StartUpdate
  BY <1>0, <1>4 DEF StartUpdate, BeginPhase, UpdateOrder, Current
<1>5. CASE NextPhase
  <2>1. UNCHANGED <<servers, target, pc, held>>
    BY <1>5 DEF NextPhase
  <2>2. CASE AllAcked("abort") /\ BeginPhase("drain")
    BY <1>0, <2>1, <2>2 DEF AllAcked, BeginPhase, UpdateOrder, Current
  <2>3. CASE AllAcked("drain") /\ BeginPhase("load")
    BY <1>0, <2>1, <2>3 DEF AllAcked, BeginPhase, UpdateOrder, Current
  <2>4. CASE AllAcked("load") /\ BeginPhase("resume")
    BY <1>0, <2>1, <2>4 DEF AllAcked, BeginPhase, UpdateOrder, Current
  <2>5. CASE AllAcked("resume") /\ BeginPhase("idle")
    BY <1>0, <2>1, <2>5 DEF AllAcked, BeginPhase, UpdateOrder, Current
  <2> QED BY <1>5, <2>2, <2>3, <2>4, <2>5 DEF NextPhase
<1>6. ASSUME NEW s \in Servers, Abort(s) PROVE UpdateOrder'
  <2>1. /\ phase = "abort" /\ phase' = "abort" /\ acked' = acked \cup {s}
        /\ UNCHANGED <<target, weights, label, held>>
        /\ paused' = [paused EXCEPT ![s] = TRUE]
    BY <1>6 DEF Abort, Ack
  <2>2. \A d \in Conversations :
          pc'[d] = "running" => pc[d] = "running" /\ held[d] # s
    BY <1>6 DEF Abort, RunningOn
  <2> QED BY <1>0, <2>1, <2>2 DEF UpdateOrder, Current
<1>7. ASSUME NEW s \in Servers, AbortSlips(s) PROVE FALSE
  BY <1>7 DEF AbortSlips
<1>8. ASSUME NEW s \in Servers, ServerStep(s) PROVE UpdateOrder'
  <2>1. CASE Drain(s)
    BY <1>0, <2>1 DEF Drain, Ack, UpdateOrder, Current
  <2>2. CASE BeginLoad(s)
    BY <1>0, <2>2 DEF BeginLoad, UpdateOrder, Current
  <2>3. CASE EndLoad(s)
    BY <1>0, <2>3 DEF EndLoad, UpdateOrder, Current
  <2>4. CASE SetGlobalSteps(s)
    BY <1>0, <2>4 DEF SetGlobalSteps, Ack, UpdateOrder, Current
  <2>5. CASE Resume(s)
    BY <1>0, <2>5 DEF Resume, Ack, UpdateOrder, Current
  <2> QED BY <1>8, <2>1, <2>2, <2>3, <2>4, <2>5 DEF ServerStep
<1>9. CASE UNCHANGED vars
  BY <1>1, <1>9 DEF vars
<1> QED BY <1>1, <1>2, <1>3, <1>4, <1>5, <1>6, <1>7, <1>8, <1>9 DEF Next

LEMMA CurrentType == ASSUME Counted, UpdateOrder PROVE Current \in Nat
  BY DEF Counted, Typed, UpdateOrder, Current

\* The current version never goes back, and no call runs when it moves on.
LEMMA CurrentStep ==
  ASSUME Counted, UpdateOrder, [Next]_vars
  PROVE  /\ Current' >= Current /\ Current' \in Int
         /\ Current' # Current => (UNCHANGED conversations) /\ \A c \in Conversations : pc[c] # "running"
<1> USE DEF balancer, servers, manager
<1>0. Current \in Nat /\ target \in Nat
  BY CurrentType DEF Counted, Typed
<1>1. ASSUME UNCHANGED <<phase, target>> PROVE Current' = Current
  BY <1>1 DEF Current
<1>2. CASE StartUpdate
  BY <1>0, <1>2 DEF StartUpdate, BeginPhase, Current
<1>3. CASE NextPhase
  <2>1. CASE AllAcked("load") /\ BeginPhase("resume")
    <3>1. Current = target - 1 /\ Current' = target' /\ target' = target
      BY <1>3, <2>1 DEF NextPhase, AllAcked, BeginPhase, Current
    <3>2. UNCHANGED conversations
      BY <1>3 DEF NextPhase
    <3>3. \A s \in Servers : paused[s]
      BY <2>1 DEF AllAcked, UpdateOrder
    <3>4. \A c \in Conversations : pc[c] = "running" => held[c] \in Servers
      BY DEF Counted, Typed, HoldsInCall, InCall, ServerOrNone
    <3>5. \A c \in Conversations : pc[c] # "running"
      BY <3>3, <3>4 DEF UpdateOrder
    <3> QED BY <1>0, <3>1, <3>2, <3>5
  <2>2. CASE ~(AllAcked("load") /\ BeginPhase("resume"))
    <3>1. Current' = Current
      BY <1>3, <2>2 DEF NextPhase, AllAcked, BeginPhase, Current
    <3> QED BY <1>0, <3>1
  <2> QED BY <2>1, <2>2
<1>4. ASSUME NEW c \in Conversations, ConversationStep(c) \/ Raise(c) PROVE UNCHANGED <<phase, target>>
  BY <1>4 DEF ConversationStep, AcquireSticky, AcquireLeastLoaded, Grant, Release, Accept, Generate, Continue,
              EndTurn, CallTools, Raise
<1>5. ASSUME NEW s \in Servers, Abort(s) \/ AbortSlips(s) \/ ServerStep(s) PROVE UNCHANGED <<phase, target>>
  BY <1>5 DEF Abort, AbortSlips, ServerStep, Drain, BeginLoad, EndLoad, SetGlobalSteps, Resume, Ack
<1>6. UNCHANGED vars => UNCHANGED <<phase, target>>
  BY DEF vars
<1>7. Current' = Current \/ StartUpdate \/ NextPhase
  BY <1>1, <1>4, <1>5, <1>6 DEF Next
<1> QED BY <1>0, <1>2, <1>3, <1>7

\* Wherever a call runs, the server has the current version and says so.
LEMMA RunsCurrent ==
  ASSUME Counted, UpdateOrder, NEW c \in Conversations, pc[c] = "running"
  PROVE  weights[held[c]] = Current /\ label[held[c]] = Current
<1>1. held[c] \in Servers
  BY DEF Counted, Typed, HoldsInCall, InCall, ServerOrNone
<1> QED BY <1>1 DEF UpdateOrder

\* A tool's answer adds nothing but marks.
LEMMA AnswerTokens ==
  ASSUME tokens \in [Conversations -> Seq(Int)], NEW c \in Conversations, NEW n \in Nat,
         tokens' = [tokens EXCEPT ![c] = tokens[c] \o [i \in 1 .. n |-> Tool]]
  PROVE  \A i \in DOMAIN tokens'[c] :
           tokens'[c][i] # Tool => i \in DOMAIN tokens[c] /\ tokens'[c][i] = tokens[c][i] /\ tokens[c][i] \in Int
<1> DEFINE answer == [i \in 1 .. n |-> Tool]
<1>1. answer \in Seq(Int) /\ Len(answer) = n /\ \A i \in 1 .. n : answer[i] = Tool
  BY DEF Tool
<1>2. tokens'[c] = tokens[c] \o answer /\ tokens[c] \in Seq(Int) /\ Len(tokens[c]) \in Nat
  OBVIOUS
<1> HIDE DEF answer
<1>3. /\ tokens[c] \o answer \in Seq(Int) /\ Len(tokens[c] \o answer) = Len(tokens[c]) + n
      /\ \A i \in 1 .. Len(tokens[c]) + n :
           (tokens[c] \o answer)[i] = IF i <= Len(tokens[c]) THEN tokens[c][i] ELSE answer[i - Len(tokens[c])]
  <2>1. Len(tokens[c]) + Len(answer) = Len(tokens[c]) + n
    BY <1>1
  <2> QED BY <1>1, <1>2, <2>1, ConcatProperties
<1>4. \A i \in 1 .. Len(tokens[c]) + n : ~(i <= Len(tokens[c])) => i - Len(tokens[c]) \in 1 .. n
  BY <1>2
<1> QED BY <1>1, <1>2, <1>3, <1>4

LEMMA TokensStep ==
  ASSUME Counted, UpdateOrder, TokensCurrent, [Next]_vars
  PROVE  TokensCurrent'
<1> USE DEF balancer, servers, manager
<1>0. /\ tokens \in [Conversations -> Seq(Int)] /\ Current \in Nat /\ Current' \in Int
      /\ Current' >= Current
  BY CurrentType, CurrentStep DEF Counted, Typed
<1>1. ASSUME UNCHANGED tokens PROVE TokensCurrent'
  <2>1. \A c \in Conversations : \A i \in DOMAIN tokens[c] : tokens[c][i] \in Int
    BY <1>0
  <2> QED BY <1>0, <1>1, <2>1 DEF TokensCurrent
<1>2. ASSUME NEW c \in Conversations, Generate(c) PROVE TokensCurrent'
  <2>1. tokens' = [tokens EXCEPT ![c] = Append(tokens[c], Current)] /\ Current' = Current
    BY <1>2, RunsCurrent, CurrentStep DEF Generate, Current
  <2>2. \A d \in Conversations : d # c => tokens'[d] = tokens[d]
    BY <1>0, <2>1
  <2>3. /\ tokens'[c] = Append(tokens[c], Current) /\ Len(tokens[c]) \in Nat
        /\ DOMAIN tokens'[c] = 1 .. Len(tokens[c]) + 1
        /\ \A i \in 1 .. Len(tokens[c]) : tokens'[c][i] = tokens[c][i] /\ tokens[c][i] \in Int
        /\ tokens'[c][Len(tokens[c]) + 1] = Current
    BY <1>0, <2>1
  <2>4. ASSUME NEW i \in DOMAIN tokens'[c], tokens'[c][i] # Tool
        PROVE  0 <= tokens'[c][i] /\ tokens'[c][i] <= Current
    BY <1>0, <2>3, <2>4 DEF TokensCurrent
  <2>5. ASSUME NEW i \in DOMAIN tokens'[c], NEW j \in DOMAIN tokens'[c],
               tokens'[c][i] # Tool, tokens'[c][j] # Tool, i < j
        PROVE  tokens'[c][i] <= tokens'[c][j]
    <3>1. CASE j = Len(tokens[c]) + 1
      BY <2>3, <2>4, <2>5, <3>1
    <3>2. CASE j # Len(tokens[c]) + 1
      <4>1. i \in 1 .. Len(tokens[c]) /\ j \in 1 .. Len(tokens[c])
        BY <2>3, <2>5, <3>2
      <4> QED BY <2>3, <2>5, <4>1 DEF TokensCurrent
    <3> QED BY <3>1, <3>2
  <2> QED BY <2>1, <2>2, <2>4, <2>5 DEF TokensCurrent
<1>3. ASSUME NEW c \in Conversations, CallTools(c) PROVE TokensCurrent'
  <2>1. PICK n \in 1 .. MaxAnswer :
          (UNCHANGED tokens) \/ tokens' = [tokens EXCEPT ![c] = tokens[c] \o [i \in 1 .. n |-> Tool]]
    BY <1>3 DEF CallTools
  <2>2. CASE tokens' = [tokens EXCEPT ![c] = tokens[c] \o [i \in 1 .. n |-> Tool]]
    <3>1. \A d \in Conversations : d # c => tokens'[d] = tokens[d]
      BY <1>0, <2>2
    <3>4. \A i \in DOMAIN tokens'[c] :
            tokens'[c][i] # Tool => i \in DOMAIN tokens[c] /\ tokens'[c][i] = tokens[c][i] /\ tokens[c][i] \in Int
      BY <1>0, <2>2, AnswerTokens, ServingAssumption
    <3>5. ASSUME NEW i \in DOMAIN tokens'[c], tokens'[c][i] # Tool
          PROVE  0 <= tokens'[c][i] /\ tokens'[c][i] <= Current'
      BY <1>0, <3>4, <3>5 DEF TokensCurrent
    <3>6. ASSUME NEW i \in DOMAIN tokens'[c], NEW j \in DOMAIN tokens'[c],
                 tokens'[c][i] # Tool, tokens'[c][j] # Tool, i < j
          PROVE  tokens'[c][i] <= tokens'[c][j]
      BY <3>4, <3>6 DEF TokensCurrent
    <3>7. ASSUME NEW d \in Conversations, d # c, NEW i \in DOMAIN tokens'[d], tokens'[d][i] # Tool
          PROVE  0 <= tokens'[d][i] /\ tokens'[d][i] <= Current'
      BY <1>0, <3>1, <3>7 DEF TokensCurrent
    <3> QED BY <3>1, <3>5, <3>6, <3>7 DEF TokensCurrent
  <2> QED BY <1>1, <2>1, <2>2
<1>4. ASSUME NEW c \in Conversations,
             AcquireSticky(c) \/ AcquireLeastLoaded(c) \/ Release(c) \/ Accept(c) \/ Continue(c) \/ EndTurn(c) \/ Raise(c)
      PROVE UNCHANGED tokens
  BY <1>4 DEF AcquireSticky, AcquireLeastLoaded, Grant, Release, Accept, Continue, EndTurn, Raise
<1>5. ASSUME NEW s \in Servers, Abort(s) \/ AbortSlips(s) \/ ServerStep(s) PROVE UNCHANGED tokens
  BY <1>5 DEF Abort, AbortSlips, ServerStep, Drain, BeginLoad, EndLoad, SetGlobalSteps, Resume, Ack, conversations
<1>6. StartUpdate \/ NextPhase \/ (UNCHANGED vars) => UNCHANGED tokens
  BY DEF StartUpdate, NextPhase, vars, conversations
<1> QED BY <1>1, <1>2, <1>3, <1>4, <1>5, <1>6 DEF Next, ConversationStep

LEMMA LabelsFrame ==
  ASSUME Counted, UpdateOrder, LabelsCurrent, [Next]_vars, NEW d \in Conversations,
         tokens'[d] = tokens[d], pc'[d] = pc[d], lo'[d] = lo[d], hi'[d] = hi[d], replied'[d] = replied[d]
  PROVE  LabelsOf(d)'
<1>1. LabelsOf(d)
  BY DEF LabelsCurrent
<1>2. /\ Current \in Nat /\ Current' \in Int /\ Current' >= Current
      /\ pc[d] = "running" => Current' = Current
  BY CurrentType, CurrentStep
<1>3. hi[d] \in Int /\ replied[d] \in Int
  BY DEF Counted, Typed
<1>4. pc[d] \in {"acquire", "calling"} /\ tokens[d] = << >> => \A i \in DOMAIN tokens[d] : FALSE
  OBVIOUS
<1> QED BY <1>1, <1>2, <1>3, <1>4 DEF LabelsOf, InCall

LEMMA LabelsStep ==
  ASSUME Counted, UpdateOrder, TokensCurrent, LabelsCurrent, [Next]_vars
  PROVE  LabelsCurrent'
<1> USE DEF InCall
<1>0. /\ tokens \in [Conversations -> Seq(Int)]
      /\ pc \in [Conversations -> {"acquire", "calling", "running", "replied", "tools", "over", "failed"}]
      /\ lo \in [Conversations -> Int] /\ hi \in [Conversations -> Int] /\ replied \in [Conversations -> Nat]
      /\ Current \in Nat
  BY CurrentType DEF Counted, Typed
<1>1. ASSUME UNCHANGED <<tokens, pc, lo, hi, replied>> PROVE LabelsCurrent'
  BY <1>1, LabelsFrame DEF LabelsCurrent
<1>2. ASSUME NEW c \in Conversations, NEW p,
             UNCHANGED <<tokens, lo, hi, replied>>, pc' = [pc EXCEPT ![c] = p], Current' = Current,
             \/ pc[c] = "acquire" /\ p = "calling"
             \/ pc[c] = "calling" /\ p = "running"
             \/ pc[c] = "tools" /\ p = "over"
             \/ p = "failed"
      PROVE  LabelsCurrent'
  <2>1. ASSUME NEW d \in Conversations, d # c PROVE LabelsOf(d)'
    BY <1>0, <1>2, <2>1, LabelsFrame
  <2>2. LabelsOf(c)'
    <3>1. LabelsOf(c)
      BY DEF LabelsCurrent
    <3>2. pc'[c] = p
      BY <1>0, <1>2
    <3> QED BY <1>0, <1>2, <3>1, <3>2 DEF LabelsOf
  <2> QED BY <2>1, <2>2 DEF LabelsCurrent
<1>3. ASSUME NEW c \in Conversations, Generate(c) PROVE LabelsCurrent'
  <2>1. /\ tokens' = [tokens EXCEPT ![c] = Append(tokens[c], Current)] /\ Current' = Current
        /\ \/ UNCHANGED <<pc, replied>>
           \/ pc' = [pc EXCEPT ![c] = "replied"] /\ replied' = [replied EXCEPT ![c] = Current]
        /\ UNCHANGED <<lo, hi>> /\ pc[c] = "running"
    BY <1>3, RunsCurrent, CurrentStep DEF Generate
  <2>2. ASSUME NEW d \in Conversations, d # c PROVE LabelsOf(d)'
    BY <1>0, <2>1, <2>2, LabelsFrame
  <2>3. /\ DOMAIN tokens'[c] = 1 .. Len(tokens[c]) + 1 /\ Len(tokens[c]) \in Nat
        /\ DOMAIN tokens[c] = 1 .. Len(tokens[c])
        /\ \A i \in 1 .. Len(tokens[c]) : tokens'[c][i] = tokens[c][i] /\ tokens[c][i] \in Int
        /\ tokens'[c][Len(tokens[c]) + 1] = Current
    BY <1>0, <2>1
  <2>4. ASSUME NEW i \in DOMAIN tokens'[c] PROVE tokens'[c][i] <= Current
    <3>1. CASE i = Len(tokens[c]) + 1
      BY <1>0, <2>3, <3>1
    <3>2. CASE i \in 1 .. Len(tokens[c])
      <4>1. tokens[c][i] # Tool => tokens[c][i] <= Current
        BY <2>3, <3>2 DEF TokensCurrent
      <4>2. Tool <= Current
        BY <1>0 DEF Tool
      <4> QED BY <2>3, <3>2, <4>1, <4>2
    <3> QED BY <2>3, <3>1, <3>2
  <2>5. LabelsOf(c)
    BY DEF LabelsCurrent
  <2>6. lo'[c] = lo[c] /\ hi'[c] = hi[c] /\ lo[c] \in Int /\ hi[c] \in Int /\ hi[c] <= Current
    BY <1>0, <2>1, <2>5 DEF LabelsOf
  <2>7. lo[c] = -1 => \A i \in DOMAIN tokens'[c] : tokens'[c][i] = Current
    BY <2>1, <2>3, <2>5 DEF LabelsOf
  <2>8. lo[c] # -1 => \A i \in DOMAIN tokens'[c] : tokens'[c][i] # Tool => lo[c] <= tokens'[c][i]
    <3>1. lo[c] <= Current
      BY <1>0, <2>5, <2>6 DEF LabelsOf
    <3>2. lo[c] # -1 => \A i \in DOMAIN tokens[c] : tokens[c][i] # Tool => lo[c] <= tokens[c][i]
      BY <2>5 DEF LabelsOf
    <3>3. ASSUME NEW i \in DOMAIN tokens'[c], lo[c] # -1, tokens'[c][i] # Tool PROVE lo[c] <= tokens'[c][i]
      <4>1. CASE i = Len(tokens[c]) + 1
        BY <2>3, <3>1, <4>1
      <4>2. CASE i \in 1 .. Len(tokens[c])
        BY <2>3, <3>2, <3>3, <4>2
      <4> QED BY <2>3, <4>1, <4>2
    <3> QED BY <3>3
  <2>9. pc'[c] = "running" \/ (pc'[c] = "replied" /\ replied'[c] = Current)
    BY <1>0, <2>1
  <2>10. LabelsOf(c)'
    BY <1>0, <2>1, <2>4, <2>5, <2>6, <2>7, <2>8, <2>9 DEF LabelsOf
  <2> QED BY <2>2, <2>10 DEF LabelsCurrent
<1>4. ASSUME NEW c \in Conversations, Continue(c) \/ EndTurn(c) PROVE LabelsCurrent'
  <2>1. /\ pc[c] = "replied" /\ Labelled(c) /\ UNCHANGED <<tokens, manager>>
        /\ pc' = [pc EXCEPT ![c] = "acquire"] \/ pc' = [pc EXCEPT ![c] = "over"] \/ pc' = [pc EXCEPT ![c] = "tools"]
    BY <1>4 DEF Continue, EndTurn
  <2>2. ASSUME NEW d \in Conversations, d # c PROVE LabelsOf(d)'
    BY <1>0, <2>1, <2>2, LabelsFrame DEF Labelled
  <2>3. Current' = Current
    BY <2>1 DEF Current, manager
  <2>4. LabelsOf(c)
    BY DEF LabelsCurrent
  <2>5. /\ lo'[c] = (IF lo[c] = -1 THEN replied[c] ELSE lo[c]) /\ hi'[c] = replied[c]
        /\ tokens'[c] = tokens[c] /\ pc'[c] \in {"acquire", "over", "tools"}
        /\ replied[c] \in Nat /\ lo[c] \in Int /\ hi[c] \in Int
        /\ \A i \in DOMAIN tokens[c] : tokens[c][i] \in Int
    BY <1>0, <2>1 DEF Labelled
  <2>6. LabelsOf(c)'
    BY <1>0, <2>1, <2>3, <2>4, <2>5 DEF LabelsOf
  <2> QED BY <2>2, <2>6 DEF LabelsCurrent
<1>5. ASSUME NEW c \in Conversations, CallTools(c) PROVE LabelsCurrent'
  <2>1. pc[c] = "tools" /\ UNCHANGED <<lo, hi, replied, manager>>
    BY <1>5 DEF CallTools
  <2>2. Current' = Current
    BY <2>1 DEF Current, manager
  <2>3. CASE pc' = [pc EXCEPT ![c] = "over"] /\ UNCHANGED tokens
    BY <1>2, <2>1, <2>2, <2>3
  <2>4. ASSUME NEW n \in 1 .. MaxAnswer, tokens' = [tokens EXCEPT ![c] = tokens[c] \o [i \in 1 .. n |-> Tool]],
               pc' = [pc EXCEPT ![c] = "acquire"]
        PROVE  LabelsCurrent'
    <3>1. ASSUME NEW d \in Conversations, d # c PROVE LabelsOf(d)'
      BY <1>0, <2>1, <2>4, <3>1, LabelsFrame
    <3>2. \A i \in DOMAIN tokens'[c] : tokens'[c][i] # Tool => i \in DOMAIN tokens[c] /\ tokens'[c][i] = tokens[c][i]
      BY <1>0, <2>4, AnswerTokens, ServingAssumption
    <3>3. LabelsOf(c)
      BY DEF LabelsCurrent
    <3>4. lo[c] # -1 /\ pc'[c] = "acquire" /\ lo'[c] = lo[c] /\ hi'[c] = hi[c]
      BY <1>0, <2>1, <2>4, <3>3 DEF LabelsOf
    <3>5. LabelsOf(c)'
      BY <2>1, <2>2, <3>2, <3>3, <3>4 DEF LabelsOf
    <3> QED BY <3>1, <3>5 DEF LabelsCurrent
  <2> QED BY <1>5, <2>3, <2>4 DEF CallTools
<1>6. ASSUME NEW s \in Servers, Abort(s) PROVE LabelsCurrent'
  <2>1. ASSUME NEW d \in Conversations, d \notin RunningOn(s) PROVE LabelsOf(d)'
    <3>1. /\ pc'[d] = pc[d] /\ replied'[d] = replied[d]
          /\ UNCHANGED <<tokens, lo, hi>>
      BY <1>6, <2>1 DEF Abort
    <3> QED BY <3>1, LabelsFrame
  <2>2. ASSUME NEW d \in Conversations, d \in RunningOn(s) PROVE LabelsOf(d)'
    <3>1. /\ pc[d] = "running" /\ pc'[d] = "replied" /\ replied'[d] = Current
          /\ UNCHANGED <<tokens, lo, hi>> /\ Current' = Current
      BY <1>6, <2>2, RunsCurrent, CurrentStep DEF Abort, RunningOn
    <3>2. LabelsOf(d)
      BY DEF LabelsCurrent
    <3>3. \A i \in DOMAIN tokens[d] : tokens[d][i] \in Int /\ tokens[d][i] <= Current
      BY <1>0 DEF TokensCurrent, Tool
    <3> QED BY <1>0, <3>1, <3>2, <3>3 DEF LabelsOf
  <2> QED BY <2>1, <2>2 DEF LabelsCurrent
<1>7. ASSUME NEW c \in Conversations, AcquireSticky(c) \/ AcquireLeastLoaded(c) \/ Accept(c) \/ Raise(c)
      PROVE  LabelsCurrent'
  <2>1. /\ UNCHANGED <<tokens, lo, hi, replied, manager>>
        /\ \/ pc[c] = "acquire" /\ pc' = [pc EXCEPT ![c] = "calling"]
           \/ pc[c] = "calling" /\ pc' = [pc EXCEPT ![c] = "running"]
           \/ pc' = [pc EXCEPT ![c] = "failed"]
    BY <1>7 DEF AcquireSticky, AcquireLeastLoaded, Grant, Accept, Raise
  <2>2. Current' = Current
    BY <2>1 DEF Current, manager
  <2>3. CASE pc[c] = "acquire" /\ pc' = [pc EXCEPT ![c] = "calling"]
    BY <1>2, <2>1, <2>2, <2>3
  <2>4. CASE pc[c] = "calling" /\ pc' = [pc EXCEPT ![c] = "running"]
    BY <1>2, <2>1, <2>2, <2>4
  <2>5. CASE pc' = [pc EXCEPT ![c] = "failed"]
    BY <1>2, <2>1, <2>2, <2>5
  <2> QED BY <2>1, <2>3, <2>4, <2>5
<1>8. ASSUME NEW c \in Conversations, Release(c) PROVE UNCHANGED <<tokens, pc, lo, hi, replied>>
  BY <1>8 DEF Release
<1>9. ASSUME NEW s \in Servers, AbortSlips(s) \/ ServerStep(s) PROVE UNCHANGED <<tokens, pc, lo, hi, replied>>
  BY <1>9 DEF AbortSlips, ServerStep, Drain, BeginLoad, EndLoad, SetGlobalSteps, Resume, conversations
<1>10. StartUpdate \/ NextPhase \/ (UNCHANGED vars) => UNCHANGED <<tokens, pc, lo, hi, replied>>
  BY DEF StartUpdate, NextPhase, vars, conversations
<1> QED BY <1>1, <1>3, <1>4, <1>5, <1>6, <1>7, <1>8, <1>9, <1>10 DEF Next, ConversationStep

-----------------------------------------------------------------------------
(* The theorems.                                                             *)

LEMMA CountedInv == Spec => [](Counted /\ CachedSticky)
<1>1. Init => Counted /\ CachedSticky
  <2> SUFFICES ASSUME Init PROVE Counted /\ CachedSticky
    OBVIOUS
  <2>1. Typed
    BY TypedInit
  <2>2. HoldsInCall
    BY DEF Init, HoldsInCall, InCall
  <2>3. ASSUME NEW s \in Servers
        PROVE  inflight[s] = Cardinality({c \in Conversations : held[c] = s})
                           + Cardinality({c \in Conversations : owed[c] = s})
    <3>1. {c \in Conversations : held[c] = s} = {} /\ {c \in Conversations : owed[c] = s} = {}
      BY ServingAssumption DEF Init
    <3>2. inflight[s] = 0 /\ Cardinality({}) = 0
      BY FS_EmptySet DEF Init
    <3> QED BY <3>1, <3>2
  <2>4. CachedSticky
    BY ServingAssumption DEF Init, CachedSticky, Cached, StickySession
  <2> QED BY <2>1, <2>2, <2>3, <2>4 DEF Counted, InflightExact
<1>2. Counted /\ CachedSticky /\ [Next]_vars => (Counted /\ CachedSticky)'
  BY TypedStep, HoldsStep, ExactStep, CachedStep DEF Counted, CachedSticky
<1> QED BY <1>1, <1>2, PTL DEF Spec

LEMMA VersionedInvariant == Spec => []VersionedInv
<1>1. Init => VersionedInv
  <2> SUFFICES ASSUME Init PROVE Versioned
    BY DEF VersionedInv
  <2>1. UpdateOrder
    BY DEF Init, UpdateOrder, Current
  <2>2. TokensCurrent /\ LabelsCurrent
    BY DEF Init, TokensCurrent, LabelsCurrent, LabelsOf, Current, InCall
  <2> QED BY <2>1, <2>2 DEF Versioned
<1>2. Counted /\ CachedSticky /\ VersionedInv /\ [Next]_vars => VersionedInv'
  <2> SUFFICES ASSUME Counted, CachedSticky, VersionedInv, [Next]_vars, slipped' = {} PROVE Versioned'
    BY DEF VersionedInv
  <2>1. slipped \subseteq slipped'
    BY DEF Next, vars, manager, ConversationStep, AcquireSticky, AcquireLeastLoaded, Grant, Release, Accept,
           Generate, Continue, EndTurn, CallTools, Raise, StartUpdate, NextPhase, Abort, AbortSlips, ServerStep,
           Drain, BeginLoad, EndLoad, SetGlobalSteps, Resume
  <2>2. UpdateOrder /\ TokensCurrent /\ LabelsCurrent
    BY <2>1 DEF VersionedInv, Versioned
  <2> QED BY <2>2, UpdateOrderStep, TokensStep, LabelsStep DEF Versioned
<1> QED BY <1>1, <1>2, CountedInv, PTL DEF Spec

\* The state stays well formed; in particular no counter of the load balancer
\* ever falls below zero, so release_server never raises.
THEOREM TypeCorrect == Spec => []TypeOK
<1>1. Counted => TypeOK
  <2> SUFFICES ASSUME Counted PROVE TypeOK
    OBVIOUS
  <2>1. ASSUME NEW s \in Servers PROVE inflight[s] \in Nat
    <3>1. IsFiniteSet({c \in Conversations : held[c] = s}) /\ IsFiniteSet({c \in Conversations : owed[c] = s})
      BY ServingAssumption, FS_Subset
    <3>2. /\ Cardinality({c \in Conversations : held[c] = s}) \in Nat
          /\ Cardinality({c \in Conversations : owed[c] = s}) \in Nat
      BY <3>1, FS_CardinalityType
    <3>3. inflight[s] = Cardinality({c \in Conversations : held[c] = s})
                      + Cardinality({c \in Conversations : owed[c] = s})
      BY DEF Counted, InflightExact
    <3> QED BY <3>2, <3>3
  <2>2. inflight \in [Servers -> Nat]
    BY <2>1 DEF Counted, Typed
  <2> QED BY <2>2 DEF Counted, Typed, TypeOK
<1> QED BY <1>1, CountedInv, PTL

\* The in-flight counters of the load balancer are exact however calls end.
THEOREM InflightIsExact == Spec => []InflightExact
<1>1. Counted => InflightExact
  BY DEF Counted
<1> QED BY <1>1, CountedInv, PTL

\* A conversation leaves its server only when the full cache has dropped it.
THEOREM SessionsAreSticky == Spec => []StickySession
<1>1. CachedSticky => StickySession
  BY DEF CachedSticky
<1> QED BY <1>1, CountedInv, PTL

\* While aborts work, the tokens of a conversation come from whole weights of
\* versions that never go back, over any number of interruptions and servers.
THEOREM VersionsAreInOrder == Spec => []VersionsInOrder
<1>1. Counted /\ VersionedInv => VersionsInOrder
  <2> SUFFICES ASSUME Counted, VersionedInv, slipped = {},
                      NEW c \in Conversations, NEW i \in Sampled(c), NEW j \in Sampled(c)
               PROVE  tokens[c][i] # Torn /\ (i < j => tokens[c][i] <= tokens[c][j])
    BY DEF VersionsInOrder
  <2>1. TokensCurrent
    BY DEF VersionedInv, Versioned
  <2> QED BY <2>1 DEF TokensCurrent, Sampled, Torn
<1> QED BY <1>1, CountedInv, VersionedInvariant, PTL

\* The labels of a returned response enclose the versions of all its tokens.
THEOREM LabelsDoEnclose == Spec => []LabelsEnclose
<1>1. Counted /\ VersionedInv => LabelsEnclose
  <2> SUFFICES ASSUME Counted, VersionedInv, slipped = {}, NEW c \in Conversations,
                      pc[c] \in {"acquire", "tools", "over"}, hi[c] # -1, NEW i \in Sampled(c)
               PROVE  lo[c] <= tokens[c][i] /\ tokens[c][i] <= hi[c]
    BY DEF LabelsEnclose
  <2>1. LabelsOf(c)
    BY DEF VersionedInv, Versioned, LabelsCurrent
  <2> QED BY <2>1 DEF LabelsOf, Sampled
<1> QED BY <1>1, CountedInv, VersionedInvariant, PTL

-----------------------------------------------------------------------------
(* The token budget.                                                         *)

\* There is room for a token wherever a call may be made, and a running call
\* keeps within the room it was given.
BudgetOf(c) ==
  /\ ContextLength(c) <= PromptLength + ResponseLength
  /\ pc[c] \in {"acquire", "calling"} => ContextLength(c) < PromptLength + ResponseLength
  /\ pc[c] = "running" => quota[c] > 0 /\ ContextLength(c) + quota[c] <= PromptLength + ResponseLength
  /\ pc[c] = "replied" /\ aborted[c] => ContextLength(c) < PromptLength + ResponseLength

BudgetInv == \A c \in Conversations : BudgetOf(c)

LEMMA BudgetStep == ASSUME Typed, Typed', BudgetInv, [Next]_vars PROVE BudgetInv'
<1> DEFINE M == PromptLength + ResponseLength
<1>0. PromptLength \in Nat \ {0} /\ ResponseLength \in Nat \ {0} /\ MaxAnswer \in Nat \ {0}
  BY ServingAssumption
<1>1. ASSUME NEW d \in Conversations
      PROVE  /\ prompt[d] \in 1 .. PromptLength /\ tokens[d] \in Seq(Int) /\ quota[d] \in Nat
             /\ Len(tokens[d]) \in Nat /\ ContextLength(d) \in Nat
             /\ ContextLength(d) = prompt[d] + Len(tokens[d])
             /\ ContextLength(d)' = prompt'[d] + Len(tokens'[d])
             /\ BudgetOf(d)
  <2>1. prompt[d] \in 1 .. PromptLength /\ tokens[d] \in Seq(Int) /\ quota[d] \in Nat
    BY DEF Typed
  <2>2. Len(tokens[d]) \in Nat
    BY <2>1
  <2> QED BY <1>0, <2>1, <2>2 DEF ContextLength, BudgetInv
<1>2. ASSUME NEW d \in Conversations, prompt'[d] = prompt[d], tokens'[d] = tokens[d],
             pc'[d] = pc[d], quota'[d] = quota[d], aborted'[d] = aborted[d]
      PROVE  BudgetOf(d)'
  <2>1. ContextLength(d)' = ContextLength(d)
    BY <1>2 DEF ContextLength
  <2> QED BY <1>1, <1>2, <2>1 DEF BudgetOf
\* A step of c that leaves its context as it is, and its quota out of it.
<1>3. ASSUME NEW d \in Conversations, prompt'[d] = prompt[d], tokens'[d] = tokens[d],
             pc'[d] # "running",
             pc'[d] \in {"acquire", "calling"} => ContextLength(d) < M,
             pc'[d] = "replied" /\ aborted'[d] => ContextLength(d) < M
      PROVE  BudgetOf(d)'
  <2>1. ContextLength(d)' = ContextLength(d)
    BY <1>3 DEF ContextLength
  <2> QED BY <1>1, <1>3, <2>1 DEF BudgetOf
<1> SUFFICES ASSUME NEW d \in Conversations PROVE BudgetOf(d)'
  BY DEF BudgetInv
<1>4. ASSUME NEW c \in Conversations, NEW s \in ServerOrNone, pc[c] = "acquire", Grant(c, s)  PROVE BudgetOf(d)'
  <2>1. CASE d = c
    <3>1. pc'[d] = "calling" /\ prompt'[d] = prompt[d] /\ tokens'[d] = tokens[d]
      BY <1>4, <2>1 DEF Grant, Typed
    <3>2. ContextLength(d) < M
      BY <1>1, <1>4, <2>1 DEF BudgetOf
    <3> QED BY <1>3, <3>1, <3>2
  <2>2. CASE d # c
    BY <1>2, <1>4, <2>2 DEF Grant, Typed
  <2> QED BY <2>1, <2>2
<1>5. ASSUME NEW c \in Conversations, AcquireSticky(c) \/ AcquireLeastLoaded(c)  PROVE BudgetOf(d)'
  <2>1. CASE AcquireSticky(c)
    <3>1. route[c] \in ServerOrNone
      BY DEF Typed
    <3> QED BY <1>4, <2>1, <3>1 DEF AcquireSticky
  <2>2. CASE AcquireLeastLoaded(c)
    BY <1>4, <2>2 DEF AcquireLeastLoaded, ServerOrNone
  <2> QED BY <1>5, <2>1, <2>2
<1>6. ASSUME NEW c \in Conversations, Accept(c)  PROVE BudgetOf(d)'
  <2>1. CASE d = c
    <3>1. pc[d] = "calling" /\ pc'[d] = "running" /\ quota'[d] = Budget(d)
          /\ prompt'[d] = prompt[d] /\ tokens'[d] = tokens[d]
      BY <1>6, <2>1 DEF Accept, Typed
    <3>2. ContextLength(d)' = ContextLength(d)
      BY <3>1 DEF ContextLength
    <3>3. ContextLength(d) < M
      BY <1>1, <3>1 DEF BudgetOf
    <3>4. Budget(d) > 0 /\ ContextLength(d) + Budget(d) <= M
      BY <1>0, <1>1, <3>3 DEF Budget
    <3> QED BY <1>1, <3>1, <3>2, <3>3, <3>4 DEF BudgetOf
  <2>2. CASE d # c
    BY <1>2, <1>6, <2>2 DEF Accept, Typed
  <2> QED BY <2>1, <2>2
<1>7. ASSUME NEW c \in Conversations, Generate(c)  PROVE BudgetOf(d)'
  <2>1. CASE d = c
    <3>1. /\ pc[d] = "running" /\ prompt'[d] = prompt[d]
          /\ tokens'[d] = Append(tokens[d], weights[held[d]])
      BY <1>7, <2>1 DEF Generate, Typed
    <3>2. Len(tokens'[d]) = Len(tokens[d]) + 1
      BY <1>1, <3>1
    <3>3. ContextLength(d)' = ContextLength(d) + 1
      <4>1. ContextLength(d)' = prompt[d] + (Len(tokens[d]) + 1)
        BY <3>1, <3>2 DEF ContextLength
      <4>2. prompt[d] \in Int /\ Len(tokens[d]) \in Int /\ ContextLength(d) = prompt[d] + Len(tokens[d])
        BY <1>1
      <4> QED BY <4>1, <4>2
    <3>4. ContextLength(d) + quota[d] <= M
      BY <1>1, <3>1 DEF BudgetOf
    <3>5. CASE quota[d] > 1 /\ quota'[d] = quota[d] - 1 /\ pc'[d] = pc[d]
      BY <1>0, <1>1, <3>1, <3>3, <3>4, <3>5 DEF BudgetOf
    <3>6. CASE quota[d] > 0 /\ pc'[d] = "replied" /\ aborted'[d] = FALSE
      BY <1>0, <1>1, <3>3, <3>4, <3>6 DEF BudgetOf
    <3> QED BY <1>7, <2>1, <3>5, <3>6 DEF Generate, Typed
  <2>2. CASE d # c
    BY <1>2, <1>7, <2>2 DEF Generate, Typed
  <2> QED BY <2>1, <2>2
<1>8. ASSUME NEW c \in Conversations, Continue(c)  PROVE BudgetOf(d)'
  <2>1. CASE d = c
    <3>1. pc[d] = "replied" /\ aborted[d] /\ pc'[d] = "acquire" /\ prompt'[d] = prompt[d] /\ tokens'[d] = tokens[d]
      BY <1>8, <2>1 DEF Continue, Typed
    <3>2. ContextLength(d) < M
      BY <1>1, <3>1 DEF BudgetOf
    <3> QED BY <1>3, <3>1, <3>2
  <2>2. CASE d # c
    BY <1>2, <1>8, <2>2 DEF Continue, Typed
  <2> QED BY <2>1, <2>2
<1>9. ASSUME NEW c \in Conversations, EndTurn(c) \/ Raise(c)  PROVE BudgetOf(d)'
  <2>1. CASE d = c
    <3>1. pc'[d] \in {"over", "tools", "failed"} /\ prompt'[d] = prompt[d] /\ tokens'[d] = tokens[d]
      BY <1>9, <2>1 DEF EndTurn, Raise, Typed
    <3> QED BY <1>3, <3>1
  <2>2. CASE d # c
    <3>1. CASE EndTurn(c)
      BY <1>2, <2>2, <3>1 DEF EndTurn, Typed
    <3>2. CASE Raise(c)
      BY <1>2, <2>2, <3>2 DEF Raise, Typed
    <3> QED BY <1>9, <3>1, <3>2
  <2> QED BY <2>1, <2>2
<1>10. ASSUME NEW c \in Conversations, CallTools(c)  PROVE BudgetOf(d)'
  <2>1. PICK n \in 1 .. MaxAnswer :
          \/ pc' = [pc EXCEPT ![c] = "over"] /\ UNCHANGED tokens
          \/ /\ Len(tokens[c]) + n < ResponseLength
             /\ tokens' = [tokens EXCEPT ![c] = @ \o [i \in 1 .. n |-> Tool]]
             /\ pc' = [pc EXCEPT ![c] = "acquire"]
    BY <1>10 DEF CallTools
  <2>2. UNCHANGED <<prompt, quota, aborted>> /\ n \in Nat
    BY <1>0, <1>10 DEF CallTools
  <2>3. CASE d = c /\ pc' = [pc EXCEPT ![c] = "over"] /\ UNCHANGED tokens
    <3>1. pc'[d] = "over" /\ prompt'[d] = prompt[d] /\ tokens'[d] = tokens[d]
      BY <2>2, <2>3 DEF Typed
    <3> QED BY <1>3, <3>1
  <2>4. CASE d = c /\ /\ Len(tokens[c]) + n < ResponseLength
                      /\ tokens' = [tokens EXCEPT ![c] = @ \o [i \in 1 .. n |-> Tool]]
                      /\ pc' = [pc EXCEPT ![c] = "acquire"]
    <3>1. pc'[d] = "acquire" /\ prompt'[d] = prompt[d] /\ tokens'[d] = tokens[d] \o [i \in 1 .. n |-> Tool]
      BY <2>2, <2>4 DEF Typed
    <3>2. [i \in 1 .. n |-> Tool] \in Seq({Tool}) /\ Len([i \in 1 .. n |-> Tool]) = n
      BY <2>2
    <3>3. Len(tokens'[d]) = Len(tokens[d]) + n
      <4> DEFINE answer == [i \in 1 .. n |-> Tool]
      <4>1. answer \in Seq(Int) /\ Len(answer) = n
        BY <3>2 DEF Tool
      <4> HIDE DEF answer
      <4>2. Len(tokens[d] \o answer) = Len(tokens[d]) + Len(answer)
        BY <1>1, <4>1, ConcatProperties
      <4> QED BY <3>1, <4>1, <4>2 DEF answer
    <3>4. ContextLength(d)' = prompt[d] + (Len(tokens[d]) + n)
      BY <3>1, <3>3 DEF ContextLength
    <3>5. prompt[d] \in 1 .. PromptLength /\ Len(tokens[d]) \in Int /\ Len(tokens[d]) + n < ResponseLength
      BY <1>1, <2>4
    <3>6. ContextLength(d)' < M /\ ContextLength(d)' \in Int
      BY <1>0, <2>2, <3>4, <3>5
    <3> QED BY <1>0, <3>1, <3>6 DEF BudgetOf
  <2>5. CASE d # c
    BY <1>2, <2>1, <2>2, <2>5 DEF Typed
  <2> QED BY <2>1, <2>3, <2>4, <2>5
<1>11. ASSUME NEW s \in Servers, Abort(s)  PROVE BudgetOf(d)'
  <2>1. CASE d \in RunningOn(s)
    <3>1. pc[d] = "running" /\ pc'[d] = "replied" /\ prompt'[d] = prompt[d] /\ tokens'[d] = tokens[d]
      BY <1>11, <2>1 DEF Abort, RunningOn
    <3>2. ContextLength(d) < M
      BY <1>0, <1>1, <3>1 DEF BudgetOf
    <3> QED BY <1>3, <3>1, <3>2
  <2>2. CASE d \notin RunningOn(s)
    BY <1>2, <1>11, <2>2 DEF Abort, Typed
  <2> QED BY <2>1, <2>2
<1>12. ASSUME \/ \E c \in Conversations : Release(c)
              \/ StartUpdate \/ NextPhase
              \/ \E s \in Servers : AbortSlips(s) \/ ServerStep(s)
              \/ UNCHANGED vars
       PROVE  UNCHANGED <<pc, prompt, tokens, quota, aborted>>
  BY <1>12 DEF Release, StartUpdate, NextPhase, AbortSlips, ServerStep, Drain, BeginLoad, EndLoad,
               SetGlobalSteps, Resume, conversations, vars
<1>13. ASSUME UNCHANGED <<pc, prompt, tokens, quota, aborted>>  PROVE BudgetOf(d)'
  BY <1>2, <1>13
<1> QED
  BY <1>5, <1>6, <1>7, <1>8, <1>9, <1>10, <1>11, <1>12, <1>13 DEF Next, ConversationStep

\* For any lengths, turns and interruptions: no call asks a server for nothing,
\* and no conversation outgrows the context (generate of the server).
THEOREM BudgetIsKept == Spec => []BudgetKept
<1>1. Init => BudgetInv
  <2> SUFFICES ASSUME Init, NEW c \in Conversations PROVE BudgetOf(c)
    BY DEF BudgetInv
  <2>1. prompt[c] \in 1 .. PromptLength /\ Len(tokens[c]) = 0 /\ pc[c] = "acquire"
    BY DEF Init
  <2> QED BY <2>1, ServingAssumption DEF BudgetOf, ContextLength
<1>2. BudgetInv => BudgetKept
  BY DEF BudgetInv, BudgetOf, BudgetKept
<1>3. Counted /\ Counted' /\ BudgetInv /\ [Next]_vars => BudgetInv'
  BY BudgetStep DEF Counted
<1> QED BY <1>1, <1>2, <1>3, CountedInv, PTL DEF Spec

-----------------------------------------------------------------------------
(* Nobody waits for somebody who waits for him.                              *)

\* Outside an update no engine is paused, and in its last phase only those
\* that have not answered yet; aborts may have failed.
PauseInv ==
  \A s \in Servers : paused[s] => phase # "idle" /\ (phase = "resume" => s \notin acked)

LEMMA PauseStep == ASSUME Typed, PauseInv, [Next]_vars PROVE PauseInv'
<1>1. ASSUME NEW s \in Servers, Abort(s) PROVE PauseInv'
  BY <1>1 DEF Abort, Ack, PauseInv, Typed
<1>2. ASSUME NEW s \in Servers, Resume(s) PROVE PauseInv'
  BY <1>2 DEF Resume, Ack, PauseInv, Typed
<1>3. ASSUME NEW s \in Servers, AbortSlips(s) \/ Drain(s) \/ SetGlobalSteps(s) PROVE PauseInv'
  BY <1>3 DEF AbortSlips, Drain, SetGlobalSteps, Ack, PauseInv, servers, conversations
<1>4. CASE StartUpdate \/ NextPhase
  BY <1>4 DEF StartUpdate, NextPhase, AllAcked, BeginPhase, PauseInv, servers
<1>5. ASSUME NEW c \in Conversations, ConversationStep(c) \/ Raise(c) PROVE UNCHANGED <<paused, phase, acked>>
  BY <1>5 DEF ConversationStep, AcquireSticky, AcquireLeastLoaded, Grant, Release, Accept, Generate, Continue,
              EndTurn, CallTools, Raise, servers, manager
<1>6. ASSUME NEW s \in Servers, BeginLoad(s) \/ EndLoad(s) PROVE UNCHANGED <<paused, phase, acked>>
  BY <1>6 DEF BeginLoad, EndLoad, manager
<1>7. CASE UNCHANGED <<paused, phase, acked>>
  BY <1>7 DEF PauseInv
<1>8. UNCHANGED vars => UNCHANGED <<paused, phase, acked>>
  BY DEF vars, servers, manager
<1> QED BY <1>1, <1>2, <1>3, <1>4, <1>5, <1>6, <1>7, <1>8 DEF Next, ServerStep

\* Some server has the fewest calls in flight.
LEMMA LeastLoaded ==
  ASSUME inflight \in [Servers -> Nat]
  PROVE  \E s \in Servers : \A t \in Servers : inflight[s] <= inflight[t]
<1> DEFINE T == {inflight[s] : s \in Servers}
<1>1. T \subseteq Nat /\ T # {}
  BY ServingAssumption
<1>2. \E x \in T : \A y \in T : ~(<<y, x>> \in OpToRel(<, Nat))
  BY <1>1, WFMin, NatLessThanWellFounded
<1>3. PICK x \in T : \A y \in T : ~(<<y, x>> \in OpToRel(<, Nat))
  BY <1>2
<1>4. ASSUME NEW y \in T PROVE x <= y
  <2>1. x \in Nat /\ y \in Nat
    BY <1>1
  <2>2. ~(y < x)
    BY <1>3, <2>1 DEF OpToRel
  <2> QED BY <2>1, <2>2
<1>5. PICK s \in Servers : x = inflight[s]
  OBVIOUS
<1> QED BY <1>4, <1>5

\* A call that nothing keeps waiting: what the load balancer, the server or the
\* client is to do next can be done.
Moves(c) ==
  \/ /\ pc[c] = "acquire"
     /\ \/ owed[c] # NoServer \/ route[c] # NoServer
        \/ \E s \in Servers : \A t \in Servers : inflight[s] <= inflight[t]
  \/ pc[c] = "calling" /\ ~paused[held[c]]
  \/ pc[c] = "running" /\ quota[c] > 0
  \/ pc[c] \in {"replied", "tools"}

\* The update goes on: all servers have answered in this phase, or one of the
\* others can, or what it waits for is a call that moves.
UpdateMoves ==
  /\ phase # "idle"
  /\ \/ acked = Servers
     \/ \E s \in Servers \ acked : phase = "drain" => \A c \in RunningOn(s) : Moves(c)

\* Any conversation that has not ended moves, or it waits for a paused engine
\* while the update that paused it goes on; and no phase of an update waits
\* for a call that waits for it.  So a weight update in the middle of a
\* response, aborts that fail and servers that raise never stop the rollout:
\* the part of ConversationsEnd that needs no fairness.
THEOREM NobodyIsStuck ==
  Spec => [](/\ \A c \in Conversations :
                  pc[c] \notin {"over", "failed"} =>
                    Moves(c) \/ (pc[c] = "calling" /\ paused[held[c]] /\ UpdateMoves)
             /\ phase # "idle" => UpdateMoves)
<1>1. Init => PauseInv
  BY DEF Init, PauseInv
<1>2. Counted /\ PauseInv /\ [Next]_vars => PauseInv'
  BY PauseStep DEF Counted
<1>3. ASSUME Counted, TypeOK, BudgetKept, PauseInv
      PROVE  /\ \A c \in Conversations :
                  pc[c] \notin {"over", "failed"} =>
                    Moves(c) \/ (pc[c] = "calling" /\ paused[held[c]] /\ UpdateMoves)
             /\ phase # "idle" => UpdateMoves
  <2>1. ASSUME NEW c \in Conversations, pc[c] = "acquire" PROVE Moves(c)
    BY <1>3, <2>1, LeastLoaded DEF TypeOK, Moves
  <2>2. ASSUME NEW c \in Conversations, pc[c] = "running" PROVE Moves(c)
    BY <1>3, <2>2 DEF BudgetKept, Moves
  <2>3. ASSUME phase # "idle" PROVE UpdateMoves
    <3>1. CASE acked = Servers
      BY <2>3, <3>1 DEF UpdateMoves
    <3>2. CASE acked # Servers
      <4>1. PICK s \in Servers \ acked : TRUE
        BY <1>3, <3>2 DEF TypeOK
      <4>2. \A c \in RunningOn(s) : Moves(c)
        BY <2>2 DEF RunningOn
      <4> QED BY <2>3, <4>1, <4>2 DEF UpdateMoves
    <3> QED BY <3>1, <3>2
  <2>4. ASSUME NEW c \in Conversations, pc[c] = "calling", paused[held[c]] PROVE UpdateMoves
    <3>1. held[c] \in Servers
      BY <1>3, <2>4 DEF Counted, HoldsInCall, InCall, Typed, ServerOrNone
    <3> QED BY <1>3, <2>3, <2>4, <3>1 DEF PauseInv
  <2>5. ASSUME NEW c \in Conversations, pc[c] \notin {"acquire", "running", "over", "failed"},
               ~(pc[c] = "calling" /\ paused[held[c]])
        PROVE  Moves(c)
    BY <1>3, <2>5 DEF TypeOK, Moves
  <2> QED BY <2>1, <2>2, <2>3, <2>4, <2>5
<1> QED BY <1>1, <1>2, <1>3, CountedInv, TypeCorrect, BudgetIsKept, PTL DEF Spec
=============================================================================
