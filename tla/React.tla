------------------------------- MODULE React --------------------------------
(***************************************************************************)
(* The ReAct enforcer of one analysis session (cmd/xpsd/react.go), with    *)
(* the two sides that drive it: the hooks the Copilot runtime calls around *)
(* every tool call, and the session events its event goroutine delivers    *)
(* later, in the order they were emitted.  Several tool calls may be in    *)
(* flight at once, and a post-tool hook counts its call under the mutex    *)
(* before it builds the reply outside it.                                  *)
(*                                                                         *)
(* Left out: phase and the counters nudges, denials, truncations and       *)
(* dedupSkips, which the code writes and only ever logs; the wording of    *)
(* the texts the hooks return, except whether a reply says the budget is   *)
(* exhausted; the token limit, which only the progress line shows; the     *)
(* model and the last context size, which the usage hands on for display.  *)
(***************************************************************************)
EXTENDS Integers, Sequences

CONSTANTS
  Keys,        \* tool name and arguments of a call, as callCacheKey joins them
  MaxCycles,   \* opts.MaxCycles, 0 = unlimited
  MaxTokens,   \* opts.MaxTokens, 0 = unlimited
  Strict,      \* opts.StrictReact
  Parallel,    \* calls the runtime keeps in flight at once
  MaxCalls,    \* bound: calls admitted when no budget stops them
  MaxTurns,    \* bound: model turns in one session
  MaxContext,  \* bound: context size the runtime reports
  MaxQueue     \* bound: events emitted and not yet delivered

ASSUME ReactAssumption ==
  /\ MaxCycles \in Nat /\ MaxTokens \in Nat /\ Strict \in BOOLEAN
  /\ Parallel \in Nat \ {0} /\ MaxCalls \in Nat \ {0}
  /\ MaxTurns \in Nat /\ MaxContext \in Nat /\ MaxQueue \in Nat

VARIABLES
  session,       \* "new", "open", then how SendAndWait returned
  \* the enforcer's fields
  cycle, sawThought, seenCalls, currentTokens,
  requests, promptTokens, toolCalls, nanoAIU, hasCost,
  replies,       \* post-tool hooks past their first unlock: the cycle each saw
  usageOut,      \* the caller's SessionUsage, zero until RunSession fills it
  \* the runtime and the model
  events,        \* emitted events the handler has not seen yet, in order
  stated,        \* has the model stated a thought since its last result or turn?
  context,       \* context size the runtime last reported
  turns, billed, charged, \* turns ended, context they re-sent, cost reported
  admitted,      \* calls the pre-tool hook let through
  ran, repeated, \* keys let through, keys let through more than once
  refused,       \* keys refused, by the reason given to the model
  told           \* has a reply said that the budget is exhausted?

enforcer == <<cycle, sawThought, seenCalls, currentTokens, requests,
              promptTokens, toolCalls, nanoAIU, hasCost>>
runtime  == <<stated, context, turns, billed, charged>>
history  == <<admitted, ran, repeated, refused, told>>
vars     == <<session, enforcer, replies, usageOut, events, runtime, history>>

Reasons == {"cycles", "tokens", "repeat", "thought"}
Usage   == [toolCalls : Nat, requests : Nat, promptTokens : Nat,
            nanoAIU : Nat, hasCost : BOOLEAN]
NoUsage == [toolCalls |-> 0, requests |-> 0, promptTokens |-> 0,
            nanoAIU |-> 0, hasCost |-> FALSE]
Event   == [kind : {"thought", "turnEnd", "usage", "usageInfo"}, amount : Nat]

InFlight == admitted - toolCalls
IsOpen   == session = "open"

-----------------------------------------------------------------------------
(* Forms some definitions below would take under a slip in the code.       *)
LateCycleLimit    == MaxCycles > 0 /\ cycle > MaxCycles + 1
LooseTokenLimit   == MaxTokens > 0 /\ currentTokens > MaxTokens
RecordLastOnly(k) == seenCalls' = {k}
EarlyExhausted(c) == MaxCycles > 0 /\ MaxCycles - c <= 1
LateExhausted(c)  == MaxCycles > 0 /\ MaxCycles - c < 0
DeafToThought     == UNCHANGED sawThought
BillLivePrompt    == promptTokens' = promptTokens + context
NeverReply(c)     == FALSE /\ replies' = replies \ {c} /\ UNCHANGED told
-----------------------------------------------------------------------------
Init ==
  /\ session = "new"
  /\ cycle = 0 /\ sawThought = FALSE /\ seenCalls = {} /\ currentTokens = 0
  /\ requests = 0 /\ promptTokens = 0 /\ toolCalls = 0
  /\ nanoAIU = 0 /\ hasCost = FALSE
  /\ replies = {} /\ usageOut = NoUsage
  /\ events = <<>>
  /\ stated = FALSE /\ context = 0 /\ turns = 0 /\ billed = 0 /\ charged = 0
  /\ admitted = 0 /\ ran = {} /\ repeated = {} /\ told = FALSE
  /\ refused = [r \in Reasons |-> {}]

(* onUserPrompt: the prompt is submitted and the cycle budget starts.      *)
UserPrompt ==
  /\ session = "new"
  /\ session' = "open"
  /\ cycle' = 1 /\ sawThought' = FALSE /\ seenCalls' = {}
  /\ UNCHANGED <<currentTokens, requests, promptTokens, toolCalls, nanoAIU,
                 hasCost, replies, usageOut, events, runtime, history>>

-----------------------------------------------------------------------------
(* The pre-tool hook: one atomic step under the mutex.                     *)

CycleLimit == MaxCycles > 0 /\ cycle > MaxCycles
TokenLimit == MaxTokens > 0 /\ currentTokens >= MaxTokens

(* A call not seen before is recorded, whether or not it is let through.   *)
Record(k) == seenCalls' = seenCalls \cup {k}

Refuse(k, reason) ==
  /\ refused' = [refused EXCEPT ![reason] = @ \cup {k}]
  /\ UNCHANGED <<admitted, ran, repeated>>

LetThrough(k) ==
  /\ admitted < MaxCalls
  /\ admitted' = admitted + 1
  /\ ran' = ran \cup {k}
  /\ repeated' = repeated \cup (ran \cap {k})
  /\ UNCHANGED refused

PreToolUse(k) ==
  /\ IsOpen /\ InFlight < Parallel
  /\ \/ /\ CycleLimit
        /\ Refuse(k, "cycles") /\ UNCHANGED seenCalls
     \/ /\ ~CycleLimit /\ TokenLimit
        /\ Refuse(k, "tokens") /\ UNCHANGED seenCalls
     \/ /\ ~CycleLimit /\ ~TokenLimit /\ Strict /\ k \in seenCalls
        /\ Refuse(k, "repeat") /\ UNCHANGED seenCalls
     \/ /\ ~CycleLimit /\ ~TokenLimit /\ Strict /\ k \notin seenCalls
        /\ ~sawThought
        /\ Refuse(k, "thought") /\ Record(k)
     \/ /\ ~CycleLimit /\ ~TokenLimit
        /\ Strict => (k \notin seenCalls /\ sawThought)
        /\ LetThrough(k) /\ Record(k)
  /\ UNCHANGED <<session, cycle, sawThought, currentTokens, requests,
                 promptTokens, toolCalls, nanoAIU, hasCost, replies, usageOut,
                 events, runtime, told>>

-----------------------------------------------------------------------------
(* The post-tool hook: counted under the mutex, answered outside it.       *)

PostToolUse ==
  /\ IsOpen /\ InFlight > 0
  /\ cycle' = cycle + 1 /\ toolCalls' = toolCalls + 1
  /\ sawThought' = FALSE /\ stated' = FALSE
  /\ replies' = replies \cup {cycle}
  /\ UNCHANGED <<session, seenCalls, currentTokens, requests, promptTokens,
                 nanoAIU, hasCost, usageOut, events, context, turns, billed,
                 charged, history>>

(* remaining <= 0 for the cycle the hook read before it unlocked.          *)
Exhausted(c) == MaxCycles > 0 /\ MaxCycles - c <= 0

Reply(c) == replies' = replies \ {c} /\ told' = (told \/ Exhausted(c))

PostReply(c) ==
  /\ IsOpen /\ c \in replies
  /\ Reply(c)
  /\ UNCHANGED <<session, enforcer, usageOut, events, runtime,
                 admitted, ran, repeated, refused>>

-----------------------------------------------------------------------------
(* The runtime emits an event; its goroutine delivers it later.            *)

Emit(kind, amount) ==
  /\ IsOpen /\ Len(events) < MaxQueue
  /\ events' = Append(events, [kind |-> kind, amount |-> amount])
  /\ UNCHANGED <<session, enforcer, replies, usageOut, history>>

Think ==
  /\ Emit("thought", 0)
  /\ stated' = TRUE
  /\ UNCHANGED <<context, turns, billed, charged>>

EndTurn ==
  /\ turns < MaxTurns
  /\ Emit("turnEnd", 0)
  /\ stated' = FALSE /\ turns' = turns + 1 /\ billed' = billed + context
  /\ UNCHANGED <<context, charged>>

ReportContext(n) ==
  /\ n # context
  /\ Emit("usageInfo", n)
  /\ context' = n
  /\ UNCHANGED <<stated, turns, billed, charged>>

ReportCost ==
  /\ charged < turns
  /\ Emit("usage", 1)
  /\ charged' = charged + 1
  /\ UNCHANGED <<stated, context, turns, billed>>

HearThought == sawThought' = TRUE

(* A turn bills the context as the last report the handler saw gave it.    *)
BillPrompt == promptTokens' = promptTokens + currentTokens

EventHandler ==
  /\ IsOpen /\ events # <<>>
  /\ events' = Tail(events)
  /\ LET e == Head(events)
     IN  \/ /\ e.kind = "thought"
            /\ HearThought
            /\ UNCHANGED <<currentTokens, requests, promptTokens, nanoAIU, hasCost>>
         \/ /\ e.kind = "turnEnd"
            /\ sawThought' = FALSE
            /\ requests' = requests + 1 /\ BillPrompt
            /\ UNCHANGED <<currentTokens, nanoAIU, hasCost>>
         \/ /\ e.kind = "usage"
            /\ nanoAIU' = nanoAIU + e.amount /\ hasCost' = TRUE
            /\ UNCHANGED <<sawThought, currentTokens, requests, promptTokens>>
         \/ /\ e.kind = "usageInfo"
            /\ currentTokens' = e.amount
            /\ UNCHANGED <<sawThought, requests, promptTokens, nanoAIU, hasCost>>
  /\ UNCHANGED <<session, cycle, seenCalls, toolCalls, replies, usageOut,
                 runtime, history>>

-----------------------------------------------------------------------------
(* The end of the session.                                                 *)

UsageNow == [toolCalls |-> toolCalls, requests |-> requests,
             promptTokens |-> promptTokens, nanoAIU |-> nanoAIU,
             hasCost |-> hasCost]

(* SendAndWait returns on the idle event, the last of the queue, so every  *)
(* earlier event has been handled.  The reply may be empty, which the      *)
(* caller sees as an error, but the usage is written first.                *)
Answer ==
  /\ IsOpen /\ InFlight = 0 /\ replies = {} /\ events = <<>>
  /\ session' \in {"answered", "empty"}
  /\ usageOut' = UsageNow
  /\ UNCHANGED <<enforcer, replies, events, runtime, history>>

(* SendAndWait gives up, on the session timeout or an error: RunSession    *)
(* returns at once and usageOut stays as it was.                           *)
Abort ==
  /\ IsOpen
  /\ session' = "failed"
  /\ UNCHANGED <<enforcer, replies, usageOut, events, runtime, history>>

Next ==
  \/ UserPrompt
  \/ \E k \in Keys : PreToolUse(k)
  \/ PostToolUse
  \/ \E c \in replies : PostReply(c)
  \/ Think
  \/ EndTurn
  \/ \E n \in 0..MaxContext : ReportContext(n)
  \/ ReportCost
  \/ EventHandler
  \/ Answer
  \/ Abort

Spec == Init /\ [][Next]_vars

(* Every post-tool hook that has unlocked runs to its return.              *)
FairSpec == Spec /\ \A c \in 1..MaxCalls : WF_vars(PostReply(c))

-----------------------------------------------------------------------------
TypeOK ==
  /\ session \in {"new", "open", "answered", "empty", "failed"}
  /\ cycle \in Nat /\ sawThought \in BOOLEAN /\ seenCalls \subseteq Keys
  /\ currentTokens \in Nat /\ requests \in Nat /\ promptTokens \in Nat
  /\ toolCalls \in Nat /\ nanoAIU \in Nat /\ hasCost \in BOOLEAN
  /\ replies \subseteq Nat /\ usageOut \in Usage
  /\ events \in Seq(Event)
  /\ stated \in BOOLEAN /\ context \in Nat /\ turns \in Nat
  /\ billed \in Nat /\ charged \in Nat
  /\ admitted \in Nat /\ ran \subseteq Keys /\ repeated \subseteq Keys
  /\ told \in BOOLEAN
  /\ refused \in [Reasons -> SUBSET Keys]

(* The cycle budget, which onPreToolUse checks and onPostToolUse counts,   *)
(* is passed by the calls already in flight when it is spent, less one,    *)
(* and never by more, whatever the order of the hooks.                     *)
CallsBounded == MaxCycles > 0 => admitted <= MaxCycles + Parallel - 1

(* The model is never refused a call for the cycle limit out of the blue:  *)
(* a reply saying that the budget is exhausted was returned before, or is  *)
(* on its way from a post-tool hook that has already counted its call.     *)
ToldBeforeRefused ==
  refused["cycles"] # {} => told \/ \E c \in replies : Exhausted(c)

(* A strict enforcer lets each tool and arguments through at most once,    *)
(* also when the second call comes while the first is still running.       *)
StrictRunsOnce == Strict => repeated = {}

(* The budget in inductive form: the cycle is one past the calls counted,  *)
(* a hook in progress holds a cycle already passed, and whoever is told    *)
(* that the budget is exhausted, or refused for it, is so once it is spent.*)
Spent == MaxCycles > 0 /\ toolCalls >= MaxCycles
BudgetInv ==
  /\ session = "new" => cycle = 0 /\ toolCalls = 0 /\ admitted = 0
  /\ session # "new" => cycle = toolCalls + 1
  /\ toolCalls <= admitted
  /\ \A c \in replies : c <= toolCalls
  /\ told => Spent
  /\ refused["cycles"] # {} => Spent
  /\ Spent => told \/ \E c \in replies : Exhausted(c)
  /\ CallsBounded

(* Strict: what ran is recorded, so that a second call of it is refused.   *)
RecordInv ==
  /\ session = "new" => ran = {}
  /\ ran \subseteq seenCalls
  /\ StrictRunsOnce

(* The advice and the limit agree: once a reply has said that the budget   *)
(* is exhausted, the pre-tool hook lets no call through.                   *)
NoCallAfterTold == [][told => admitted' = admitted]_vars

(* A thought the model has stated since its last result, and whose event   *)
(* has been delivered, is seen: it is not wiped by an older turn's end.    *)
ThoughtSeen == IsOpen /\ stated /\ events = <<>> => sawThought

(* No call is let through once the handler has been told of a context at   *)
(* the token ceiling or above, whatever the calls in flight.               *)
TokenStop ==
  [][MaxTokens > 0 /\ events = <<>> /\ context >= MaxTokens
       => admitted' = admitted]_vars

(* The usage RunSession hands to its caller is what the session did: every *)
(* call let through, every turn, the context each turn re-sent as it was   *)
(* when the turn ended, and the cost reported, known only if reported.     *)
UsageExact ==
  session \in {"answered", "empty"} =>
    usageOut = [toolCalls |-> admitted, requests |-> turns,
                promptTokens |-> billed, nanoAIU |-> charged,
                hasCost |-> charged > 0]

(* The enforcer keeps the budget the session promises.                     *)
Budget == INSTANCE ToolBudget WITH
            Budget <- MaxCycles, InFlight <- Parallel, completed <- toolCalls
BudgetKept == Budget!Spec

(* A model whose budget is spent comes to know it, or the session is over. *)
SpentIsTold ==
  Spent ~> (told \/ ~IsOpen)
=============================================================================
