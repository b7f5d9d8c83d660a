----------------------------- MODULE LLMServing -----------------------------
(***************************************************************************)
(* Generation while the weights change.  Conversations of the agent loop   *)
(* ask the load balancer for a server, generate there, call a tool and     *)
(* generate again; the trainer's CheckpointEngineManager now and then      *)
(* pauses all the servers, gives them new weights and lets them go on.  An *)
(* interrupted conversation keeps its tokens and continues from them,      *)
(* perhaps on another server.                                              *)
(*                                                                         *)
(* A token is the version of the weights that made it, or a mark: Torn,    *)
(* half-loaded weights, and Tool, a token of a tool's answer.  A call on a *)
(* remote actor is split from its execution there.                         *)
(***************************************************************************)
EXTENDS Integers, Sequences, FiniteSets

CONSTANTS
  Servers,         \* the replicas' servers
  NoServer,        \* none of them
  Conversations,   \* request_ids of the agent loop
  CacheSize,       \* entries of the load balancer's routing cache
  PromptLength,    \* rollout.prompt_length
  ResponseLength,  \* rollout.response_length
  MaxVersion,      \* bound: weight updates
  MaxAnswer,       \* bound: tokens of a tool's answer
  PartialRollout,  \* async_training.partial_rollout
  FaultsHappen     \* a server may raise in generate and fail to abort

ASSUME ServingAssumption ==
  /\ IsFiniteSet(Servers) /\ Servers # {} /\ NoServer \notin Servers
  /\ IsFiniteSet(Conversations)
  /\ CacheSize \in Nat \ {0}
  /\ PromptLength \in Nat \ {0} /\ ResponseLength \in Nat \ {0}
  /\ MaxVersion \in Nat /\ MaxAnswer \in Nat \ {0}
  /\ PartialRollout \in BOOLEAN /\ FaultsHappen \in BOOLEAN

Torn     == -1
Tool     == -2

VARIABLES
  inflight, \* load balancer: _inflight_requests
  route,    \* load balancer: _request_id_to_server, NoServer when not cached
  recent,   \* the conversations in that LRU cache, least recently used first
  pc,       \* where each conversation is
  prompt,   \* length of its prompt
  tokens,   \* what follows the prompt: generated so far, and tools' answers
  quota,    \* tokens its call on the server may still generate
  aborted,  \* its last call came back with stop_reason "aborted"
  replied,  \* the global_steps that call came back with
  lo,       \* min_global_steps, -1 before the first call returns
  hi,       \* max_global_steps
  held,     \* the server it has acquired
  owed,     \* the server of a release_server that is still on its way
  home,     \* history: the server it was last routed to
  paused,   \* server: generation is paused
  weights,  \* server: version of the weights in the engine
  label,    \* server: global_steps
  target,   \* manager: the trainer's version
  phase,    \* manager: where update_weights is
  acked,    \* manager: servers done with this phase
  slipped   \* history: servers that once failed to abort

balancer      == <<inflight, route, recent>>
conversations == <<pc, prompt, tokens, quota, aborted, replied, lo, hi, held, owed, home>>
servers       == <<paused, weights, label>>
manager       == <<target, phase, acked, slipped>>
vars          == <<balancer, conversations, servers, manager>>

ServerOrNone == Servers \cup {NoServer}

TypeOK ==
  /\ inflight \in [Servers -> Nat]
  /\ route \in [Conversations -> ServerOrNone] /\ recent \in Seq(Conversations)
  /\ pc \in [Conversations -> {"acquire", "calling", "running", "replied", "tools", "over", "failed"}]
  /\ prompt \in [Conversations -> 1 .. PromptLength]
  /\ tokens \in [Conversations -> Seq(Int)]
  /\ quota \in [Conversations -> Nat]
  /\ aborted \in [Conversations -> BOOLEAN]
  /\ replied \in [Conversations -> Nat]
  /\ lo \in [Conversations -> Int] /\ hi \in [Conversations -> Int]
  /\ held \in [Conversations -> ServerOrNone] /\ owed \in [Conversations -> ServerOrNone]
  /\ home \in [Conversations -> ServerOrNone]
  /\ paused \in [Servers -> BOOLEAN] /\ weights \in [Servers -> Int]
  /\ label \in [Servers -> Nat]
  /\ target \in Nat /\ phase \in {"idle", "abort", "drain", "load", "resume"}
  /\ acked \subseteq Servers /\ slipped \subseteq Servers

\* After the first synchronisation, which gives every server version 0.
Init ==
  /\ inflight = [s \in Servers |-> 0]
  /\ route = [c \in Conversations |-> NoServer] /\ recent = << >>
  /\ pc = [c \in Conversations |-> "acquire"]
  /\ prompt \in [Conversations -> 1 .. PromptLength]
  /\ tokens = [c \in Conversations |-> << >>]
  /\ quota = [c \in Conversations |-> 0]
  /\ aborted = [c \in Conversations |-> FALSE] /\ replied = [c \in Conversations |-> 0]
  /\ lo = [c \in Conversations |-> -1] /\ hi = [c \in Conversations |-> -1]
  /\ held = [c \in Conversations |-> NoServer] /\ owed = [c \in Conversations |-> NoServer]
  /\ home = [c \in Conversations |-> NoServer]
  /\ paused = [s \in Servers |-> FALSE]
  /\ weights = [s \in Servers |-> 0] /\ label = [s \in Servers |-> 0]
  /\ target = 0 /\ phase = "idle" /\ acked = {} /\ slipped = {}

-----------------------------------------------------------------------------
(* GlobalRequestLoadBalancer.  Calls of one caller reach it in the order   *)
(* they were made, so a conversation's release comes before its next       *)
(* acquire; the calls of different callers are not ordered.                *)

\* The LRU order once c has been looked up: c moves to the end.
Touched(c) ==
  LET i == CHOOSE i \in DOMAIN recent : recent[i] = c
  IN  Append(SubSeq(recent, 1, i - 1) \o SubSeq(recent, i + 1, Len(recent)), c)

Grant(c, s) ==
  /\ inflight' = [inflight EXCEPT ![s] = @ + 1]
  /\ held' = [held EXCEPT ![c] = s]
  /\ home' = [home EXCEPT ![c] = s]
  /\ pc' = [pc EXCEPT ![c] = "calling"]
  /\ aborted' = [aborted EXCEPT ![c] = FALSE]
  /\ UNCHANGED <<prompt, tokens, quota, replied, lo, hi, owed, servers, manager>>

\* A known conversation goes where it went before.
AcquireSticky(c) ==
  /\ pc[c] = "acquire" /\ owed[c] = NoServer
  /\ route[c] # NoServer
  /\ Grant(c, route[c])
  /\ recent' = Touched(c)
  /\ UNCHANGED route

\* One that is not in the cache goes to a least loaded server and is entered;
\* the full cache drops its oldest entry.
AcquireLeastLoaded(c) ==
  /\ pc[c] = "acquire" /\ owed[c] = NoServer
  /\ route[c] = NoServer
  /\ \E s \in Servers :
       /\ \A t \in Servers : inflight[s] <= inflight[t]
       /\ Grant(c, s)
       /\ \/ /\ Len(recent) < CacheSize
             /\ recent' = Append(recent, c)
             /\ route' = [route EXCEPT ![c] = s]
          \/ /\ Len(recent) >= CacheSize
             /\ recent' = Append(Tail(recent), c)
             /\ route' = [route EXCEPT ![Head(recent)] = NoServer, ![c] = s]

Release(c) ==
  /\ owed[c] # NoServer
  /\ inflight' = [inflight EXCEPT ![owed[c]] = @ - 1]
  /\ owed' = [owed EXCEPT ![c] = NoServer]
  /\ UNCHANGED <<route, recent, pc, prompt, tokens, quota, aborted, replied, lo, hi, held, home,
                 servers, manager>>

-----------------------------------------------------------------------------
(* generate on the server, and FullyLLMServerClient.generate around it.      *)

ContextLength(c) == prompt[c] + Len(tokens[c])

\* Mutant of Budget: the whole response length for every call.
BudgetWhole(c) == ResponseLength

\* max_tokens of a call that names no limit, with max_model_len = prompt_length
\* + response_length.
Budget(c) ==
  LET room == PromptLength + ResponseLength - ContextLength(c)
  IN  IF room <= 0 THEN 0 ELSE IF room < ResponseLength THEN room ELSE ResponseLength

\* A paused engine keeps the call waiting.
Accept(c) ==
  /\ pc[c] = "calling" /\ ~paused[held[c]]
  /\ quota' = [quota EXCEPT ![c] = Budget(c)]
  /\ pc' = [pc EXCEPT ![c] = "running"]
  /\ UNCHANGED <<balancer, prompt, tokens, aborted, replied, lo, hi, held, owed, home, servers, manager>>

\* One more token.  It may be the last: a stop token, or the budget is used up.
\* The reply carries the server's global_steps of that moment.
Generate(c) ==
  /\ pc[c] = "running" /\ quota[c] > 0
  /\ tokens' = [tokens EXCEPT ![c] = Append(@, weights[held[c]])]
  /\ \/ /\ quota[c] > 1
        /\ quota' = [quota EXCEPT ![c] = @ - 1]
        /\ UNCHANGED <<pc, aborted, replied>>
     \/ /\ quota' = [quota EXCEPT ![c] = 0]
        /\ pc' = [pc EXCEPT ![c] = "replied"]
        /\ aborted' = [aborted EXCEPT ![c] = FALSE]
        /\ replied' = [replied EXCEPT ![c] = label[held[c]]]
  /\ UNCHANGED <<balancer, prompt, lo, hi, held, owed, home, servers, manager>>

\* What every return of a call does first: the release is sent, not awaited.
LetGo(c) ==
  /\ owed' = [owed EXCEPT ![c] = held[c]]
  /\ held' = [held EXCEPT ![c] = NoServer]

\* Mutant of Labelled: the last version is only noted with the first.
LabelledOnce(c) ==
  /\ lo' = [lo EXCEPT ![c] = IF @ = -1 THEN replied[c] ELSE @]
  /\ hi' = [hi EXCEPT ![c] = IF @ = -1 THEN replied[c] ELSE @]
  /\ replied' = [replied EXCEPT ![c] = 0]

\* The labels of a conversation: the first call's, the last call's.
Labelled(c) ==
  /\ lo' = [lo EXCEPT ![c] = IF @ = -1 THEN replied[c] ELSE @]
  /\ hi' = [hi EXCEPT ![c] = replied[c]]
  /\ replied' = [replied EXCEPT ![c] = 0]

\* An interrupted call is made again with what it has generated so far.
Continue(c) ==
  /\ pc[c] = "replied" /\ aborted[c] /\ PartialRollout
  /\ LetGo(c) /\ Labelled(c)
  /\ pc' = [pc EXCEPT ![c] = "acquire"]
  /\ UNCHANGED <<balancer, prompt, tokens, quota, aborted, home, servers, manager>>

\* The turn is over; the agent loop stops there or goes on with a tool call.
EndTurn(c) ==
  /\ pc[c] = "replied" /\ ~(aborted[c] /\ PartialRollout)
  /\ LetGo(c) /\ Labelled(c)
  /\ \/ pc' = [pc EXCEPT ![c] = "over"]
     \/ /\ Len(tokens[c]) < ResponseLength
        /\ pc' = [pc EXCEPT ![c] = "tools"]
  /\ UNCHANGED <<balancer, prompt, tokens, quota, aborted, home, servers, manager>>

\* The answer of the tools is added if it leaves room for another turn.
CallTools(c) ==
  /\ pc[c] = "tools"
  /\ \E n \in 1 .. MaxAnswer :
       \/ /\ Len(tokens[c]) + n >= ResponseLength
          /\ pc' = [pc EXCEPT ![c] = "over"]
          /\ UNCHANGED tokens
       \/ /\ Len(tokens[c]) + n < ResponseLength
          /\ tokens' = [tokens EXCEPT ![c] = @ \o [i \in 1 .. n |-> Tool]]
          /\ pc' = [pc EXCEPT ![c] = "acquire"]
  /\ UNCHANGED <<balancer, prompt, quota, aborted, replied, lo, hi, held, owed, home, servers, manager>>

\* Mutant of Raise: no finally around the call.
RaiseLeaks(c) ==
  /\ FaultsHappen /\ pc[c] \in {"calling", "running"}
  /\ held' = [held EXCEPT ![c] = NoServer]
  /\ pc' = [pc EXCEPT ![c] = "failed"]
  /\ quota' = [quota EXCEPT ![c] = 0]
  /\ UNCHANGED <<balancer, prompt, tokens, aborted, replied, lo, hi, owed, home, servers, manager>>

\* generate raises on the server: the exception ends the conversation, the
\* server is released all the same.
Raise(c) ==
  /\ FaultsHappen /\ pc[c] \in {"calling", "running"}
  /\ LetGo(c)
  /\ pc' = [pc EXCEPT ![c] = "failed"]
  /\ quota' = [quota EXCEPT ![c] = 0]
  /\ UNCHANGED <<balancer, prompt, tokens, aborted, replied, lo, hi, home, servers, manager>>

-----------------------------------------------------------------------------
(* CheckpointEngineManager.update_weights: each phase is a call on all the *)
(* servers, and the next begins when all have answered.                    *)

BeginPhase(p) == phase' = p /\ acked' = {}

StartUpdate ==
  /\ phase = "idle" /\ target < MaxVersion
  /\ target' = target + 1
  /\ BeginPhase("abort")
  /\ UNCHANGED <<balancer, conversations, servers, slipped>>

AllAcked(p) == phase = p /\ acked = Servers

NextPhase ==
  /\ \/ AllAcked("abort") /\ BeginPhase("drain")
     \/ AllAcked("drain") /\ BeginPhase("load")
     \/ AllAcked("load") /\ BeginPhase("resume")
     \/ AllAcked("resume") /\ BeginPhase("idle")
  /\ UNCHANGED <<balancer, conversations, servers, target, slipped>>

Ack(p, s) ==
  /\ phase = p /\ s \notin acked
  /\ acked' = acked \cup {s}
  /\ UNCHANGED <<balancer, phase, target>>

RunningOn(s) == {c \in Conversations : pc[c] = "running" /\ held[c] = s}

\* Mutant of Abort: the requests are aborted, the engine is not paused.
AbortOnly(s) ==
  /\ Ack("abort", s)
  /\ pc' = [c \in Conversations |-> IF c \in RunningOn(s) THEN "replied" ELSE pc[c]]
  /\ aborted' = [c \in Conversations |-> c \in RunningOn(s) \/ aborted[c]]
  /\ replied' = [c \in Conversations |-> IF c \in RunningOn(s) THEN label[s] ELSE replied[c]]
  /\ quota' = [c \in Conversations |-> IF c \in RunningOn(s) THEN 0 ELSE quota[c]]
  /\ UNCHANGED <<prompt, tokens, lo, hi, held, owed, home, servers, slipped>>

\* abort_all_requests pauses the engine, and what it runs comes back aborted.
Abort(s) ==
  /\ Ack("abort", s)
  /\ paused' = [paused EXCEPT ![s] = TRUE]
  /\ pc' = [c \in Conversations |-> IF c \in RunningOn(s) THEN "replied" ELSE pc[c]]
  /\ aborted' = [c \in Conversations |-> c \in RunningOn(s) \/ aborted[c]]
  /\ replied' = [c \in Conversations |-> IF c \in RunningOn(s) THEN label[s] ELSE replied[c]]
  /\ quota' = [c \in Conversations |-> IF c \in RunningOn(s) THEN 0 ELSE quota[c]]
  /\ UNCHANGED <<prompt, tokens, lo, hi, held, owed, home, weights, label, slipped>>

\* It swallows its exceptions: the manager is told that all is well.
AbortSlips(s) ==
  /\ FaultsHappen /\ Ack("abort", s)
  /\ slipped' = slipped \cup {s}
  /\ UNCHANGED <<conversations, servers>>

\* Mutant of Drain: the calls a paused engine keeps waiting are waited for too.
DrainAll(s) ==
  /\ Ack("drain", s)
  /\ \A c \in Conversations : pc[c] \in {"calling", "running"} => held[c] # s
  /\ UNCHANGED <<conversations, servers, slipped>>

\* sleep: a standalone server keeps its memory, but its requests are waited for.
Drain(s) ==
  /\ Ack("drain", s)
  /\ RunningOn(s) = {}
  /\ UNCHANGED <<conversations, servers, slipped>>

BeginLoad(s) ==
  /\ phase = "load" /\ s \notin acked /\ weights[s] \notin {Torn, target}
  /\ weights' = [weights EXCEPT ![s] = Torn]
  /\ UNCHANGED <<balancer, conversations, paused, label, manager>>

EndLoad(s) ==
  /\ phase = "load" /\ weights[s] = Torn
  /\ weights' = [weights EXCEPT ![s] = target]
  /\ UNCHANGED <<balancer, conversations, paused, label, manager>>

\* set_global_steps comes after the weights are in.
SetGlobalSteps(s) ==
  /\ Ack("load", s)
  /\ weights[s] = target
  /\ label' = [label EXCEPT ![s] = target]
  /\ UNCHANGED <<conversations, paused, weights, slipped>>

Resume(s) ==
  /\ Ack("resume", s)
  /\ paused' = [paused EXCEPT ![s] = FALSE]
  /\ UNCHANGED <<conversations, weights, label, slipped>>

ConversationStep(c) ==
  \/ AcquireSticky(c) \/ AcquireLeastLoaded(c) \/ Release(c)
  \/ Accept(c) \/ Generate(c) \/ Continue(c) \/ EndTurn(c) \/ CallTools(c)

ServerStep(s) ==
  \/ Drain(s) \/ BeginLoad(s) \/ EndLoad(s) \/ SetGlobalSteps(s) \/ Resume(s)

Next ==
  \/ \E c \in Conversations : ConversationStep(c) \/ Raise(c)
  \/ StartUpdate \/ NextPhase
  \/ \E s \in Servers : Abort(s) \/ AbortSlips(s) \/ ServerStep(s)

Spec == Init /\ [][Next]_vars

\* Messages arrive, the engines generate and the manager's calls return.  An
\* update need not begin and nothing has to fail.
Fairness ==
  /\ \A c \in Conversations : WF_vars(ConversationStep(c)) /\ WF_vars(Release(c))
  /\ WF_vars(NextPhase)
  /\ \A s \in Servers : WF_vars(Abort(s) \/ AbortSlips(s)) /\ WF_vars(ServerStep(s))

FairSpec == Spec /\ Fairness

-----------------------------------------------------------------------------
(* Properties.                                                               *)

\* The load balancer's counters are exact: each call in progress and each release
\* on its way is counted once, whether calls return, are aborted or raise.
\* Otherwise load leaks onto a server for good, or release_server raises.
InflightExact ==
  \A s \in Servers :
    inflight[s] = Cardinality({c \in Conversations : held[c] = s})
                + Cardinality({c \in Conversations : owed[c] = s})

\* A conversation stays on its server unless the full cache has dropped it.
StickySession ==
  \A c \in Conversations :
    home[c] # NoServer =>
      \/ route[c] = home[c]
      \/ route[c] = NoServer /\ Len(recent) = CacheSize

Sampled(c) == {i \in DOMAIN tokens[c] : tokens[c][i] # Tool}

\* However a conversation is interrupted and moved, its tokens come from whole
\* weights of versions that never go back, as long as no abort has failed.
VersionsInOrder ==
  slipped = {} =>
    \A c \in Conversations : \A i, j \in Sampled(c) :
      tokens[c][i] # Torn /\ (i < j => tokens[c][i] <= tokens[c][j])

\* min_global_steps and max_global_steps, by which the trainer judges how stale
\* a sample is, enclose the versions of all its tokens once a call has returned.
LabelsEnclose ==
  slipped = {} =>
    \A c \in Conversations : pc[c] \in {"acquire", "tools", "over"} /\ hi[c] # -1 =>
      \A i \in Sampled(c) : lo[c] <= tokens[c][i] /\ tokens[c][i] <= hi[c]

\* No call asks a server for nothing or for more than the context holds,
\* whatever was generated before it was interrupted.
BudgetKept ==
  \A c \in Conversations :
    /\ pc[c] = "running" => quota[c] > 0
    /\ ContextLength(c) <= PromptLength + ResponseLength

\* Every conversation comes to its end, also when a weight update meets it in
\* the middle: no phase of the manager waits for a call that waits for it.
ConversationsEnd == \A c \in Conversations : <>(pc[c] \in {"over", "failed"})
=============================================================================
