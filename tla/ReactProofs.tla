---------------------------- MODULE ReactProofs -----------------------------
(***************************************************************************)
(* Proofs about the ReAct enforcer for every number of keys, budget and    *)
(* degree of parallelism.                                                  *)
(***************************************************************************)
EXTENDS React, TLAPS

(* The queue of events keeps its type when the runtime adds one.           *)
LEMMA EmitType ==
  ASSUME NEW kind \in {"thought", "turnEnd", "usage", "usageInfo"},
         NEW amount \in Nat, TypeOK, Emit(kind, amount)
  PROVE  /\ events' \in Seq(Event)
         /\ UNCHANGED <<session, enforcer, replies, usageOut, history>>
  BY DEF Emit, TypeOK, Event

(* Every step preserves the types of the enforcer's fields, of the hooks   *)
(* in progress, of the event queue and of the histories.                   *)
LEMMA TypeStep == TypeOK /\ [Next]_vars => TypeOK'
<1> SUFFICES ASSUME TypeOK, [Next]_vars PROVE TypeOK'
  OBVIOUS
<1> USE ReactAssumption DEF TypeOK
<1>1. CASE UserPrompt
  BY <1>1 DEF UserPrompt, runtime, history
<1>2. ASSUME NEW k \in Keys, PreToolUse(k) PROVE TypeOK'
  <2>1. refused' \in [Reasons -> SUBSET Keys] /\ seenCalls' \subseteq Keys
    BY <1>2 DEF PreToolUse, Refuse, LetThrough, Record, Reasons
  <2>2. admitted' \in Nat /\ ran' \subseteq Keys /\ repeated' \subseteq Keys
    BY <1>2 DEF PreToolUse, Refuse, LetThrough
  <2>3. QED
    BY <1>2, <2>1, <2>2 DEF PreToolUse, runtime
<1>3. CASE PostToolUse
  <2>1. cycle' \in Nat /\ toolCalls' \in Nat /\ replies' \subseteq Nat
    BY <1>3 DEF PostToolUse
  <2>2. sawThought' \in BOOLEAN /\ stated' \in BOOLEAN
    BY <1>3 DEF PostToolUse
  <2>3. UNCHANGED <<session, seenCalls, currentTokens, requests, promptTokens,
                    nanoAIU, hasCost, usageOut, events, context, turns,
                    billed, charged, admitted, ran, repeated, refused, told>>
    BY <1>3 DEF PostToolUse, history
  <2>4. QED
    BY <2>1, <2>2, <2>3
<1>4. ASSUME NEW c \in replies, PostReply(c) PROVE TypeOK'
  BY <1>4 DEF PostReply, Reply, Exhausted, enforcer, runtime
<1>5. CASE Think
  <2>1. events' \in Seq(Event)
        /\ UNCHANGED <<session, enforcer, replies, usageOut, history>>
    BY <1>5, EmitType DEF Think
  <2>2. QED
    BY <1>5, <2>1 DEF Think, enforcer, history
<1>6. CASE EndTurn
  <2>1. events' \in Seq(Event)
        /\ UNCHANGED <<session, enforcer, replies, usageOut, history>>
    BY <1>6, EmitType DEF EndTurn
  <2>2. turns' \in Nat /\ billed' \in Nat
    BY <1>6 DEF EndTurn
  <2>3. stated' \in BOOLEAN /\ UNCHANGED <<context, charged>>
    BY <1>6 DEF EndTurn
  <2>4. QED
    BY <2>1, <2>2, <2>3 DEF enforcer, history
<1>7. ASSUME NEW n \in 0..MaxContext, ReportContext(n) PROVE TypeOK'
  <2>0. n \in Nat
    OBVIOUS
  <2>1. events' \in Seq(Event)
        /\ UNCHANGED <<session, enforcer, replies, usageOut, history>>
    BY <1>7, <2>0, EmitType DEF ReportContext
  <2>2. context' \in Nat /\ UNCHANGED <<stated, turns, billed, charged>>
    BY <1>7 DEF ReportContext
  <2>3. QED
    BY <2>1, <2>2 DEF enforcer, history
<1>8. CASE ReportCost
  <2>1. events' \in Seq(Event)
        /\ UNCHANGED <<session, enforcer, replies, usageOut, history>>
    BY <1>8, EmitType DEF ReportCost
  <2>2. charged' \in Nat /\ UNCHANGED <<stated, context, turns, billed>>
    BY <1>8 DEF ReportCost
  <2>3. QED
    BY <2>1, <2>2 DEF enforcer, history
<1>9. CASE EventHandler
  <2>1. Head(events) \in Event /\ Tail(events) \in Seq(Event)
    BY <1>9 DEF EventHandler
  <2>2. Head(events).amount \in Nat
    BY <2>1 DEF Event
  <2>3. /\ currentTokens' \in Nat /\ requests' \in Nat
        /\ promptTokens' \in Nat /\ nanoAIU' \in Nat
    BY <1>9, <2>2 DEF EventHandler, BillPrompt
  <2>7. sawThought' \in BOOLEAN /\ hasCost' \in BOOLEAN
    BY <1>9 DEF EventHandler, HearThought
  <2>4. events' \in Seq(Event)
    BY <1>9, <2>1 DEF EventHandler
  <2>5. UNCHANGED <<session, cycle, seenCalls, toolCalls, replies, usageOut,
                    stated, context, turns, billed, charged, admitted, ran,
                    repeated, refused, told>>
    BY <1>9 DEF EventHandler, runtime, history
  <2>6. QED
    BY <2>3, <2>4, <2>5, <2>7
<1>10. CASE Answer
  BY <1>10 DEF Answer, UsageNow, Usage, enforcer, runtime, history
<1>11. CASE Abort
  BY <1>11 DEF Abort, enforcer, runtime, history
<1>12. CASE UNCHANGED vars
  BY <1>12 DEF vars, enforcer, runtime, history
<1>13. QED
  BY <1>1, <1>2, <1>3, <1>4, <1>5, <1>6, <1>7, <1>8, <1>9, <1>10, <1>11, <1>12
     DEF Next

(* The enforcer's fields, the hooks in progress and the queue of events    *)
(* keep their types in every behaviour (react.go, ReactEnforcer).          *)
THEOREM TypeCorrect == Spec => []TypeOK
<1>1. Init => TypeOK
  <2> SUFFICES ASSUME Init PROVE TypeOK
    OBVIOUS
  <2>1. usageOut \in Usage /\ refused \in [Reasons -> SUBSET Keys]
    BY DEF Init, NoUsage, Usage, Reasons
  <2>2. /\ cycle \in Nat /\ currentTokens \in Nat /\ requests \in Nat
        /\ promptTokens \in Nat /\ toolCalls \in Nat /\ nanoAIU \in Nat
        /\ context \in Nat /\ turns \in Nat /\ billed \in Nat
        /\ charged \in Nat /\ admitted \in Nat
    BY DEF Init
  <2>3. /\ seenCalls \subseteq Keys /\ replies \subseteq Nat
        /\ events \in Seq(Event) /\ ran \subseteq Keys /\ repeated \subseteq Keys
    BY DEF Init
  <2>4. /\ session \in {"new", "open", "answered", "empty", "failed"}
        /\ sawThought \in BOOLEAN /\ hasCost \in BOOLEAN
        /\ stated \in BOOLEAN /\ told \in BOOLEAN
    BY DEF Init
  <2>5. QED
    BY <2>1, <2>2, <2>3, <2>4 DEF TypeOK
<1>2. QED
  BY <1>1, TypeStep, PTL DEF Spec

-----------------------------------------------------------------------------
(* No step but the pre-tool hook touches what it decides on.               *)
LEMMA OtherSteps ==
  ASSUME TypeOK, [Next]_vars, ~ \E k \in Keys : PreToolUse(k)
  PROVE  UNCHANGED <<admitted, ran, repeated, refused>>
  BY DEF Next, vars, history, UserPrompt, PostToolUse, PostReply, Think,
         EndTurn, ReportContext, ReportCost, Emit, EventHandler, Answer, Abort

(* The steps that count nothing leave the budget alone.                    *)
LEMMA BudgetFrame ==
  ASSUME BudgetInv,
         UNCHANGED <<cycle, toolCalls, replies, told, admitted, refused>>,
         session = "new" <=> session' = "new"
  PROVE  BudgetInv'
  BY DEF BudgetInv, Spent, CallsBounded, Exhausted

LEMMA BudgetStep == TypeOK /\ BudgetInv /\ [Next]_vars => BudgetInv'
<1> SUFFICES ASSUME TypeOK, BudgetInv, [Next]_vars PROVE BudgetInv'
  OBVIOUS
<1> USE ReactAssumption
<1>1. CASE UserPrompt
  BY <1>1 DEF UserPrompt, history, BudgetInv, Spent, CallsBounded, Exhausted,
              TypeOK
<1>2. ASSUME NEW k \in Keys, PreToolUse(k) PROVE BudgetInv'
  <2>1. /\ session = "open" /\ admitted - toolCalls < Parallel
        /\ cycle = toolCalls + 1
        /\ UNCHANGED <<session, cycle, toolCalls, replies, told>>
    BY <1>2 DEF PreToolUse, BudgetInv, IsOpen, InFlight
  <2>2. CASE CycleLimit
    <3>1. Spent
      BY <2>1, <2>2 DEF CycleLimit, Spent, TypeOK
    <3>2. UNCHANGED admitted
      BY <1>2, <2>2 DEF PreToolUse, Refuse
    <3>3. QED
      BY <2>1, <3>1, <3>2 DEF BudgetInv, Spent, CallsBounded, Exhausted
  <2>3. CASE ~CycleLimit
    <3>1. MaxCycles > 0 => toolCalls < MaxCycles
      BY <2>1, <2>3 DEF CycleLimit, TypeOK
    <3>2. admitted' = admitted \/ admitted' = admitted + 1
      BY <1>2 DEF PreToolUse, Refuse, LetThrough
    <3>3. UNCHANGED refused["cycles"]
      BY <1>2, <2>3 DEF PreToolUse, Refuse, LetThrough, TypeOK, Reasons
    <3>4. /\ toolCalls' <= admitted'
          /\ MaxCycles > 0 => admitted' <= MaxCycles + Parallel - 1
      BY <2>1, <3>1, <3>2 DEF BudgetInv, CallsBounded, TypeOK
    <3>5. QED
      BY <2>1, <3>3, <3>4 DEF BudgetInv, Spent, CallsBounded, Exhausted
  <2>4. QED
    BY <2>2, <2>3
<1>3. CASE PostToolUse
  <2>1. /\ session = "open" /\ toolCalls < admitted /\ cycle = toolCalls + 1
        /\ cycle' = cycle + 1 /\ toolCalls' = toolCalls + 1
        /\ replies' = replies \cup {cycle}
        /\ UNCHANGED <<session, admitted, told, refused>>
    BY <1>3 DEF PostToolUse, history, IsOpen, InFlight, BudgetInv, TypeOK
  <2>2. Spent => Spent'
    BY <2>1 DEF Spent, TypeOK
  <2>3. Spent' => told \/ \E c \in replies' : Exhausted(c)
    BY <2>1 DEF Spent, Exhausted, TypeOK
  <2>4. \A c \in replies' : c <= toolCalls'
    BY <2>1 DEF BudgetInv, TypeOK
  <2>5. QED
    BY <2>1, <2>2, <2>3, <2>4 DEF BudgetInv, CallsBounded, TypeOK, Exhausted
<1>4. ASSUME NEW c \in replies, PostReply(c) PROVE BudgetInv'
  <2>1. /\ session = "open" /\ replies' = replies \ {c}
        /\ told' = (told \/ Exhausted(c))
        /\ UNCHANGED <<session, cycle, toolCalls, admitted, refused>>
    BY <1>4 DEF PostReply, Reply, IsOpen, enforcer
  <2>2. Exhausted(c) => Spent
    BY DEF Exhausted, Spent, BudgetInv, TypeOK
  <2>3. QED
    BY <2>1, <2>2 DEF BudgetInv, Spent, CallsBounded, Exhausted
<1>5. CASE Think \/ EndTurn \/ ReportCost
           \/ \E n \in 0..MaxContext : ReportContext(n)
  <2>1. UNCHANGED <<session, enforcer, replies, usageOut, history>>
    BY <1>5 DEF Think, EndTurn, ReportCost, ReportContext, Emit
  <2>2. QED
    BY <2>1, BudgetFrame DEF enforcer, history
<1>6. CASE EventHandler
  BY <1>6, BudgetFrame DEF EventHandler, history
<1>7. CASE Answer
  BY <1>7, BudgetFrame DEF Answer, enforcer, history, IsOpen
<1>8. CASE Abort
  BY <1>8, BudgetFrame DEF Abort, enforcer, history, IsOpen
<1>9. CASE UNCHANGED vars
  BY <1>9, BudgetFrame DEF vars, enforcer, history
<1>10. QED
  BY <1>1, <1>2, <1>3, <1>4, <1>5, <1>6, <1>7, <1>8, <1>9 DEF Next

LEMMA BudgetInvariant == Spec => []BudgetInv
<1>1. Init => BudgetInv
  BY ReactAssumption
     DEF Init, BudgetInv, Spent, CallsBounded, Exhausted, Reasons
<1>2. QED
  BY <1>1, BudgetStep, TypeCorrect, PTL DEF Spec

(* For every budget and every number of calls in flight, onPreToolUse      *)
(* admits at most the budget and the calls in flight less one.             *)
THEOREM CallsAreBounded == Spec => []CallsBounded
<1>1. BudgetInv => CallsBounded
  BY DEF BudgetInv
<1>2. QED
  BY <1>1, BudgetInvariant, PTL

(* A refusal for the cycle limit comes after the reply that announces it,  *)
(* or while the post-tool hook that counted the last call makes that reply.*)
THEOREM RefusalIsAnnounced == Spec => []ToldBeforeRefused
<1>1. BudgetInv => ToldBeforeRefused
  BY DEF BudgetInv, ToldBeforeRefused
<1>2. QED
  BY <1>1, BudgetInvariant, PTL

(* After a reply that says the budget is exhausted no call is admitted.    *)
THEOREM NothingAfterTold == Spec => NoCallAfterTold
<1>1. TypeOK /\ BudgetInv /\ [Next]_vars => [told => admitted' = admitted]_vars
  <2> SUFFICES ASSUME TypeOK, BudgetInv, [Next]_vars, told
               PROVE  admitted' = admitted
    OBVIOUS
  <2>1. ASSUME NEW k \in Keys, PreToolUse(k) PROVE admitted' = admitted
    <3>1. CycleLimit
      BY <2>1, ReactAssumption
         DEF PreToolUse, IsOpen, CycleLimit, BudgetInv, Spent, TypeOK
    <3>2. QED
      BY <2>1, <3>1 DEF PreToolUse, Refuse
  <2>2. QED
    BY <2>1, OtherSteps
<1>2. QED
  BY <1>1, TypeCorrect, BudgetInvariant, PTL DEF Spec, NoCallAfterTold

(* The enforcer implements the abstract budget (ToolBudget), with the      *)
(* counter of completed calls for its completed calls.                     *)
THEOREM KeepsBudget == Spec => BudgetKept
<1>1. Init => Budget!Init
  BY DEF Init, Budget!Init
<1>2. TypeOK /\ BudgetInv /\ [Next]_vars => [Budget!Next]_(Budget!vars)
  <2> SUFFICES ASSUME TypeOK, BudgetInv, [Next]_vars
               PROVE  [Budget!Next]_(Budget!vars)
    OBVIOUS
  <2> USE ReactAssumption
  <2>1. ASSUME NEW k \in Keys, PreToolUse(k)
        PROVE  Budget!Admit \/ UNCHANGED Budget!vars
    <3>1. /\ admitted - toolCalls < Parallel /\ cycle = toolCalls + 1
          /\ UNCHANGED <<toolCalls, told>>
      BY <2>1 DEF PreToolUse, BudgetInv, IsOpen, InFlight
    <3>2. CASE admitted' = admitted
      BY <3>1, <3>2 DEF Budget!vars
    <3>3. CASE admitted' # admitted
      <4>1. ~CycleLimit /\ admitted' = admitted + 1
        BY <2>1, <3>3 DEF PreToolUse, Refuse, LetThrough
      <4>2. ~Budget!Spent /\ ~told
        BY <3>1, <4>1
           DEF CycleLimit, BudgetInv, Spent, Budget!Spent, TypeOK
      <4>3. QED
        BY <3>1, <4>1, <4>2 DEF Budget!Admit
    <3>4. QED
      BY <3>2, <3>3
  <2>2. CASE PostToolUse
    BY <2>2 DEF PostToolUse, history, InFlight, TypeOK, Budget!Next,
                Budget!Complete, BudgetInv
  <2>3. ASSUME NEW c \in replies, PostReply(c)
        PROVE  Budget!Tell \/ UNCHANGED Budget!vars
    <3>1. told' = (told \/ Exhausted(c)) /\ UNCHANGED <<toolCalls, admitted>>
      BY <2>3 DEF PostReply, Reply, enforcer
    <3>2. CASE Exhausted(c)
      <4>1. Budget!Spent
        BY <3>2 DEF Exhausted, BudgetInv, Budget!Spent, TypeOK
      <4>2. told' = TRUE
        BY <3>1, <3>2
      <4>3. QED
        BY <3>1, <4>1, <4>2 DEF Budget!Tell
    <3>3. CASE ~Exhausted(c)
      BY <3>1, <3>3 DEF Budget!vars, TypeOK
    <3>4. QED
      BY <3>2, <3>3
  <2>4. CASE Think \/ EndTurn \/ ReportCost
             \/ \E n \in 0..MaxContext : ReportContext(n)
    BY <2>4 DEF Think, EndTurn, ReportCost, ReportContext, Emit, enforcer,
                history, Budget!vars
  <2>5. CASE UserPrompt \/ EventHandler \/ Answer \/ Abort \/ UNCHANGED vars
    BY <2>5 DEF UserPrompt, EventHandler, Answer, Abort, enforcer, history,
                vars, Budget!vars
  <2>6. QED
    BY <2>1, <2>2, <2>3, <2>4, <2>5 DEF Next, Budget!Next
<1>3. QED
  BY <1>1, <1>2, TypeCorrect, BudgetInvariant, PTL
     DEF Spec, BudgetKept, Budget!Spec

-----------------------------------------------------------------------------
(* A strict enforcer admits no tool and arguments twice, however the hooks *)
(* of concurrent calls interleave (react.go, seenCalls).                   *)
THEOREM StrictOnce == Spec => []StrictRunsOnce
<1>1. Init => RecordInv
  BY DEF Init, RecordInv, StrictRunsOnce
<1>2. TypeOK /\ RecordInv /\ [Next]_vars => RecordInv'
  <2> SUFFICES ASSUME TypeOK, RecordInv, [Next]_vars PROVE RecordInv'
    OBVIOUS
  <2>1. ASSUME NEW k \in Keys, PreToolUse(k) PROVE RecordInv'
    BY <2>1 DEF PreToolUse, Refuse, LetThrough, Record, IsOpen, RecordInv,
                StrictRunsOnce
  <2>2. CASE UserPrompt
    BY <2>2 DEF UserPrompt, history, RecordInv, StrictRunsOnce
  <2>3. CASE ~UserPrompt /\ ~ \E k \in Keys : PreToolUse(k)
    <3>1. UNCHANGED <<ran, repeated>>
      BY <2>3, OtherSteps
    <3>2. UNCHANGED seenCalls /\ (session' = "new" => session = "new")
      BY <2>3 DEF Next, vars, enforcer, PostToolUse, PostReply, Think, EndTurn,
                  ReportContext, ReportCost, Emit, EventHandler, Answer, Abort
    <3>3. QED
      BY <3>1, <3>2 DEF RecordInv, StrictRunsOnce
  <2>4. QED
    BY <2>1, <2>2, <2>3
<1>3. RecordInv => StrictRunsOnce
  BY DEF RecordInv
<1>4. QED
  BY <1>1, <1>2, <1>3, TypeCorrect, PTL DEF Spec

-----------------------------------------------------------------------------
(* What the enforcer counts from events, and what an event makes of it.    *)
Counters == [tokens : Nat, requests : Nat, prompt : Nat, cost : Nat,
             known : BOOLEAN]
Counted  == [tokens |-> currentTokens, requests |-> requests,
             prompt |-> promptTokens, cost |-> nanoAIU, known |-> hasCost]
Reported == [tokens |-> context, requests |-> turns, prompt |-> billed,
             cost |-> charged, known |-> charged > 0]

Handled(c, e) ==
  [tokens   |-> IF e.kind = "usageInfo" THEN e.amount ELSE c.tokens,
   requests |-> IF e.kind = "turnEnd" THEN c.requests + 1 ELSE c.requests,
   prompt   |-> IF e.kind = "turnEnd" THEN c.prompt + c.tokens ELSE c.prompt,
   cost     |-> IF e.kind = "usage" THEN c.cost + e.amount ELSE c.cost,
   known    |-> IF e.kind = "usage" THEN TRUE ELSE c.known]

(* h is the way from the counters c, by the events of q in order, to d.    *)
Replays(h, c, q, d) ==
  /\ h \in [0..Len(q) -> Counters]
  /\ h[0] = c /\ h[Len(q)] = d
  /\ \A i \in 1..Len(q) : h[i] = Handled(h[i - 1], q[i])

(* The counters are behind what the runtime did by the queued events, no   *)
(* more and no less, and in the order in which those were emitted.         *)
CaughtUp == \E h : Replays(h, Counted, events, Reported)

LEMMA HandledType ==
  ASSUME NEW c \in Counters, NEW e \in Event
  PROVE  Handled(c, e) \in Counters
<1>1. /\ c.tokens \in Nat /\ c.requests \in Nat /\ c.prompt \in Nat
      /\ c.cost \in Nat /\ c.known \in BOOLEAN /\ e.amount \in Nat
  BY DEF Counters, Event
<1>2. /\ c.requests + 1 \in Nat /\ c.prompt + c.tokens \in Nat
      /\ c.cost + e.amount \in Nat
  BY <1>1
<1>3. /\ (IF e.kind = "turnEnd" THEN c.requests + 1 ELSE c.requests) \in Nat
      /\ (IF e.kind = "turnEnd" THEN c.prompt + c.tokens ELSE c.prompt) \in Nat
      /\ (IF e.kind = "usage" THEN c.cost + e.amount ELSE c.cost) \in Nat
      /\ (IF e.kind = "usageInfo" THEN e.amount ELSE c.tokens) \in Nat
      /\ (IF e.kind = "usage" THEN TRUE ELSE c.known) \in BOOLEAN
  BY <1>1, <1>2
<1> QED
  BY <1>3, Zenon DEF Handled, Counters

(* A way is extended by an event that is added to the queue.               *)
LEMMA ReplayAppend ==
  ASSUME NEW q \in Seq(Event), NEW e \in Event, NEW c, NEW d,
         NEW h, Replays(h, c, q, d)
  PROVE  \E g : Replays(g, c, Append(q, e), Handled(d, e))
<1> DEFINE n == Len(q)
           r == Append(q, e)
           g == [i \in 0..Len(r) |-> IF i = n + 1 THEN Handled(d, e) ELSE h[i]]
<1>1. /\ n \in Nat /\ Len(r) = n + 1 /\ r[n + 1] = e
      /\ \A i \in 1..n : r[i] = q[i]
  OBVIOUS
<1>2. h \in [0..n -> Counters] /\ h[0] = c /\ h[n] = d
      /\ \A i \in 1..n : h[i] = Handled(h[i - 1], q[i])
  BY DEF Replays
<1>3. d \in Counters
  BY <1>1, <1>2
<1>4. Handled(d, e) \in Counters
  BY <1>3, HandledType
<1> HIDE DEF n, r
<1>5. g \in [0..Len(r) -> Counters]
  BY <1>1, <1>2, <1>4
<1>6. g[0] = c /\ g[Len(r)] = Handled(d, e)
  BY <1>1, <1>2
<1>7. ASSUME NEW i \in 1..Len(r) PROVE g[i] = Handled(g[i - 1], r[i])
  <2>1. CASE i = n + 1
    BY <1>1, <1>2, <2>1
  <2>2. CASE i \in 1..n
    <3>1. g[i] = h[i] /\ g[i - 1] = h[i - 1] /\ r[i] = q[i]
      BY <1>1, <2>2
    <3> QED
      BY <1>2, <2>2, <3>1
  <2> QED
    BY <1>1, <2>1, <2>2
<1> QED
  BY <1>5, <1>6, <1>7 DEF Replays, r

(* A way is shortened by the event that is handled.                        *)
LEMMA ReplayTail ==
  ASSUME NEW q \in Seq(Event), q # <<>>, NEW c, NEW d,
         NEW h, Replays(h, c, q, d)
  PROVE  \E g : Replays(g, Handled(c, Head(q)), Tail(q), d)
<1> DEFINE n == Len(q)
           r == Tail(q)
           g == [i \in 0..Len(r) |-> h[i + 1]]
<1>1. /\ n \in Nat \ {0} /\ Len(r) = n - 1 /\ Head(q) = q[1]
      /\ \A i \in 1..(n - 1) : r[i] = q[i + 1]
  OBVIOUS
<1>2. h \in [0..n -> Counters] /\ h[0] = c /\ h[n] = d
      /\ \A i \in 1..n : h[i] = Handled(h[i - 1], q[i])
  BY DEF Replays
<1> HIDE DEF n, r
<1>3. g \in [0..Len(r) -> Counters]
  BY <1>1, <1>2
<1>4. g[0] = Handled(c, Head(q))
  <2>1. g[0] = h[1] /\ h[1] = Handled(h[0], q[1])
    BY <1>1, <1>2
  <2> QED
    BY <1>1, <1>2, <2>1
<1>5. g[Len(r)] = d
  BY <1>1, <1>2
<1>6. ASSUME NEW i \in 1..Len(r) PROVE g[i] = Handled(g[i - 1], r[i])
  <2>1. g[i] = h[i + 1] /\ g[i - 1] = h[i] /\ r[i] = q[i + 1]
    BY <1>1
  <2>2. h[i + 1] = Handled(h[i], q[i + 1])
    <3>1. i + 1 \in 1..n /\ (i + 1) - 1 = i
      BY <1>1
    <3> QED
      BY <1>2, <3>1
  <2> QED
    BY <2>1, <2>2
<1> QED
  BY <1>3, <1>4, <1>5, <1>6 DEF Replays, r

-----------------------------------------------------------------------------
(* The queue in inductive form: nothing is emitted before the prompt, the  *)
(* counters are behind by what is queued, and a thought that still stands  *)
(* is queued or was heard, with no turn ending after it.                   *)
ThoughtStands ==
  \/ sawThought /\ \A i \in 1..Len(events) : events[i].kind # "turnEnd"
  \/ \E i \in 1..Len(events) :
       /\ events[i].kind = "thought"
       /\ \A j \in i..Len(events) : events[j].kind # "turnEnd"

QueueInv ==
  /\ session = "new" => events = <<>> /\ ~stated
  /\ CaughtUp
  /\ stated => ThoughtStands
  /\ UsageExact

(* Whatever is counted otherwise is left by every step but the handler's,  *)
(* and the handler counts the head of the queue.                           *)
LEMMA HandlerCounts ==
  ASSUME TypeOK, EventHandler
  PROVE  Counted' = Handled(Counted, Head(events)) /\ UNCHANGED Reported
<1>1. /\ UNCHANGED <<context, turns, billed, charged>>
      /\ Head(events) \in Event
  BY DEF EventHandler, runtime, TypeOK
<1>2. CASE Head(events).kind = "thought"
  BY <1>1, <1>2 DEF EventHandler, Handled, Counted, Reported
<1>3. CASE Head(events).kind = "turnEnd"
  BY <1>1, <1>3 DEF EventHandler, BillPrompt, Handled, Counted, Reported
<1>4. CASE Head(events).kind = "usage"
  BY <1>1, <1>4 DEF EventHandler, Handled, Counted, Reported
<1>5. CASE Head(events).kind = "usageInfo"
  BY <1>1, <1>5 DEF EventHandler, Handled, Counted, Reported
<1> QED
  BY <1>1, <1>2, <1>3, <1>4, <1>5 DEF Event

(* An emitted event tells what the runtime did, and comes last.            *)
LEMMA EmitCatchesUp ==
  ASSUME TypeOK, CaughtUp, NEW e \in Event, events' = Append(events, e),
         Counted' = Counted, Reported' = Handled(Reported, e)
  PROVE  CaughtUp'
<1>1. PICK h : Replays(h, Counted, events, Reported)
  BY DEF CaughtUp
<1>2. \E g : Replays(g, Counted, Append(events, e), Handled(Reported, e))
  BY <1>1, ReplayAppend DEF TypeOK
<1> QED
  BY <1>2 DEF CaughtUp

LEMMA ThoughtStandsUnderEmit ==
  ASSUME TypeOK, NEW e \in Event, events' = Append(events, e),
         UNCHANGED sawThought
  PROVE  /\ e.kind = "thought" => ThoughtStands'
         /\ e.kind # "turnEnd" /\ ThoughtStands => ThoughtStands'
<1>1. /\ Len(events) \in Nat /\ Len(events') = Len(events) + 1
      /\ events'[Len(events) + 1] = e
      /\ \A i \in 1..Len(events) : events'[i] = events[i]
  BY DEF TypeOK
<1>2. ASSUME e.kind = "thought" PROVE ThoughtStands'
  BY <1>1, <1>2 DEF ThoughtStands
<1>3. ASSUME e.kind # "turnEnd", ThoughtStands PROVE ThoughtStands'
  BY <1>1, <1>3 DEF ThoughtStands
<1> QED
  BY <1>2, <1>3

(* The steps that leave counters, queue and the runtime's totals alone.    *)
LEMMA QueueFrame ==
  ASSUME QueueInv, UNCHANGED <<events, usageOut>>, UNCHANGED Counted,
         UNCHANGED Reported, UNCHANGED <<stated, sawThought>>,
         session' = "new" => session = "new",
         session' \in {"answered", "empty"} =>
           session' = session /\ UNCHANGED <<admitted, turns, billed, charged>>
  PROVE  QueueInv'
<1>1. CaughtUp'
  BY DEF QueueInv, CaughtUp
<1>2. stated' => ThoughtStands'
  BY DEF QueueInv, ThoughtStands
<1>3. UsageExact'
  BY DEF QueueInv, UsageExact
<1> QED
  BY <1>1, <1>2, <1>3 DEF QueueInv

(* What the runtime emits while the session is open.                       *)
LEMMA EmitKeeps ==
  ASSUME TypeOK, QueueInv, NEW e \in Event, session = "open",
         events' = Append(events, e), Reported' = Handled(Reported, e),
         UNCHANGED <<session, enforcer>>,
         stated' => e.kind = "thought" \/ (stated /\ e.kind # "turnEnd")
  PROVE  QueueInv'
<1>1. Counted' = Counted
  BY DEF Counted, enforcer
<1>2. CaughtUp'
  BY <1>1, EmitCatchesUp DEF QueueInv
<1>3. stated' => ThoughtStands'
  BY ThoughtStandsUnderEmit DEF QueueInv, enforcer
<1> QED
  BY <1>2, <1>3 DEF QueueInv, UsageExact

(* With nothing queued the counters tell what the runtime did.             *)
LEMMA NothingQueued ==
  ASSUME TypeOK, CaughtUp, events = <<>>
  PROVE  /\ currentTokens = context /\ requests = turns
         /\ promptTokens = billed /\ nanoAIU = charged
         /\ hasCost = (charged > 0)
<1>1. PICK h : Replays(h, Counted, events, Reported)
  BY DEF CaughtUp
<1>2. Counted = Reported
  BY <1>1 DEF Replays
<1> QED
  BY <1>2 DEF Counted, Reported

LEMMA QueueStep == TypeOK /\ QueueInv /\ [Next]_vars => QueueInv'
<1> SUFFICES ASSUME TypeOK, QueueInv, [Next]_vars PROVE QueueInv'
  OBVIOUS
<1>1. CASE UserPrompt
  <2>1. /\ session = "new" /\ session' = "open"
        /\ UNCHANGED <<events, usageOut, stated>>
        /\ UNCHANGED Counted /\ UNCHANGED Reported
    BY <1>1 DEF UserPrompt, runtime, Counted, Reported
  <2>2. CaughtUp' /\ ~stated'
    BY <2>1 DEF QueueInv, CaughtUp
  <2> QED
    BY <2>1, <2>2 DEF QueueInv, UsageExact
<1>2. ASSUME NEW k \in Keys, PreToolUse(k) PROVE QueueInv'
  <2>1. /\ session = "open"
        /\ UNCHANGED <<session, events, usageOut, stated, sawThought>>
        /\ UNCHANGED Counted /\ UNCHANGED Reported
    BY <1>2 DEF PreToolUse, IsOpen, runtime, Counted, Reported
  <2> QED
    BY <2>1, QueueFrame
<1>3. CASE PostToolUse
  <2>1. /\ session = "open" /\ ~stated'
        /\ UNCHANGED <<session, events>>
        /\ UNCHANGED Counted /\ UNCHANGED Reported
    BY <1>3 DEF PostToolUse, IsOpen, Counted, Reported
  <2>2. CaughtUp'
    BY <2>1 DEF QueueInv, CaughtUp
  <2> QED
    BY <2>1, <2>2 DEF QueueInv, UsageExact
<1>4. ASSUME NEW c \in replies, PostReply(c) PROVE QueueInv'
  <2>1. /\ session = "open"
        /\ UNCHANGED <<session, events, usageOut, stated, sawThought>>
        /\ UNCHANGED Counted /\ UNCHANGED Reported
    BY <1>4 DEF PostReply, IsOpen, runtime, enforcer, Counted, Reported
  <2> QED
    BY <2>1, QueueFrame
<1>5. CASE Think
  <2> DEFINE e == [kind |-> "thought", amount |-> 0]
  <2>1. /\ e \in Event /\ session = "open" /\ events' = Append(events, e)
        /\ UNCHANGED <<session, enforcer>>
        /\ UNCHANGED Reported
    BY <1>5 DEF Think, Emit, IsOpen, Event, Reported
  <2>2. Handled(Reported, e) = Reported
    BY DEF Handled, Reported
  <2> QED
    BY <2>1, <2>2, EmitKeeps
<1>6. CASE EndTurn
  <2> DEFINE e == [kind |-> "turnEnd", amount |-> 0]
  <2>1. /\ e \in Event /\ session = "open" /\ events' = Append(events, e)
        /\ UNCHANGED <<session, enforcer>> /\ ~stated'
    BY <1>6 DEF EndTurn, Emit, IsOpen, Event
  <2>2. Reported' = Handled(Reported, e)
    BY <1>6 DEF EndTurn, Handled, Reported
  <2> QED
    BY <2>1, <2>2, EmitKeeps
<1>7. ASSUME NEW n \in 0..MaxContext, ReportContext(n) PROVE QueueInv'
  <2> DEFINE e == [kind |-> "usageInfo", amount |-> n]
  <2>1. /\ e \in Event /\ session = "open" /\ events' = Append(events, e)
        /\ UNCHANGED <<session, enforcer>> /\ UNCHANGED stated
    BY <1>7 DEF ReportContext, Emit, IsOpen, Event
  <2>2. Reported' = Handled(Reported, e)
    BY <1>7 DEF ReportContext, Handled, Reported
  <2> QED
    BY <2>1, <2>2, EmitKeeps
<1>8. CASE ReportCost
  <2> DEFINE e == [kind |-> "usage", amount |-> 1]
  <2>1. /\ e \in Event /\ session = "open" /\ events' = Append(events, e)
        /\ UNCHANGED <<session, enforcer>> /\ UNCHANGED stated
    BY <1>8 DEF ReportCost, Emit, IsOpen, Event
  <2>2. /\ charged' = charged + 1 /\ (charged' > 0) = TRUE
        /\ UNCHANGED <<context, turns, billed>>
    BY <1>8 DEF ReportCost, TypeOK
  <2>3. Reported' = Handled(Reported, e)
    BY <2>2 DEF Handled, Reported
  <2> QED
    BY <2>1, <2>3, EmitKeeps
<1>9. CASE EventHandler
  <2>1. /\ session = "open" /\ events # <<>> /\ events' = Tail(events)
        /\ UNCHANGED <<session, stated>>
    BY <1>9 DEF EventHandler, IsOpen, runtime
  <2>2. Counted' = Handled(Counted, Head(events)) /\ UNCHANGED Reported
    BY <1>9, HandlerCounts
  <2>3. CaughtUp'
    <3>1. PICK h : Replays(h, Counted, events, Reported)
      BY DEF QueueInv, CaughtUp
    <3>2. \E g : Replays(g, Handled(Counted, Head(events)), Tail(events), Reported)
      BY <2>1, <3>1, ReplayTail DEF TypeOK
    <3> QED
      BY <2>1, <2>2, <3>2 DEF CaughtUp
  <2>4. ASSUME ThoughtStands PROVE ThoughtStands'
    <3>1. /\ Len(events) \in Nat \ {0} /\ Len(events') = Len(events) - 1
          /\ Head(events) = events[1]
          /\ \A i \in 1..Len(events') : events'[i] = events[i + 1]
      BY <2>1 DEF TypeOK
    <3>2. /\ Head(events).kind = "thought" => sawThought' = TRUE
          /\ Head(events).kind \notin {"thought", "turnEnd"}
               => sawThought' = sawThought
      BY <1>9 DEF EventHandler, HearThought
    <3>3. CASE sawThought /\ \A i \in 1..Len(events) : events[i].kind # "turnEnd"
      <4>0. Head(events).kind # "turnEnd"
        BY <3>1, <3>3
      <4>1. sawThought'
        BY <3>2, <3>3, <4>0, Zenon
      <4>2. \A i \in 1..Len(events') : events'[i].kind # "turnEnd"
        BY <3>1, <3>3
      <4> QED
        BY <4>1, <4>2 DEF ThoughtStands
    <3>4. ASSUME NEW i \in 1..Len(events), events[i].kind = "thought",
                 \A j \in i..Len(events) : events[j].kind # "turnEnd"
          PROVE  ThoughtStands'
      <4>1. CASE i = 1
        <5>1. sawThought'
          BY <3>1, <3>2, <3>4, <4>1
        <5>2. \A j \in 1..Len(events') : events'[j].kind # "turnEnd"
          BY <3>1, <3>4, <4>1
        <5> QED
          BY <5>1, <5>2 DEF ThoughtStands
      <4>2. CASE i # 1
        <5>1. i - 1 \in 1..Len(events') /\ events'[i - 1].kind = "thought"
          BY <3>1, <3>4, <4>2
        <5>2. \A j \in (i - 1)..Len(events') : events'[j].kind # "turnEnd"
          BY <3>1, <3>4, <4>2
        <5> QED
          BY <5>1, <5>2 DEF ThoughtStands
      <4> QED
        BY <4>1, <4>2
    <3> QED
      BY <2>4, <3>3, <3>4 DEF ThoughtStands
  <2> QED
    BY <2>1, <2>3, <2>4 DEF QueueInv, UsageExact
<1>10. CASE Answer
  <2>1. /\ admitted - toolCalls = 0 /\ events = <<>>
        /\ session' \in {"answered", "empty"} /\ usageOut' = UsageNow
        /\ UNCHANGED <<enforcer, events, runtime, history>>
    BY <1>10 DEF Answer, InFlight
  <2>2. admitted = toolCalls
    BY <2>1 DEF TypeOK
  <2>3. /\ currentTokens = context /\ requests = turns
        /\ promptTokens = billed /\ nanoAIU = charged
        /\ hasCost = (charged > 0)
    BY <2>1, NothingQueued DEF QueueInv
  <2>4. UsageExact'
    BY <2>1, <2>2, <2>3 DEF UsageExact, UsageNow, runtime, history
  <2>5. UNCHANGED <<Counted, Reported, stated, sawThought, events>>
    BY <2>1 DEF enforcer, runtime, Counted, Reported
  <2>6. CaughtUp' /\ (stated' => ThoughtStands')
    BY <2>5 DEF QueueInv, CaughtUp, ThoughtStands
  <2> QED
    BY <2>1, <2>4, <2>6 DEF QueueInv
<1>11. CASE Abort
  <2>1. /\ session' = "failed"
        /\ UNCHANGED <<events, usageOut, stated, sawThought>>
        /\ UNCHANGED Counted /\ UNCHANGED Reported
    BY <1>11 DEF Abort, enforcer, runtime, Counted, Reported
  <2> QED
    BY <2>1, QueueFrame
<1>12. CASE UNCHANGED vars
  <2>1. /\ UNCHANGED <<session, events, usageOut, stated, sawThought, admitted,
                      turns, billed, charged>>
        /\ UNCHANGED Counted /\ UNCHANGED Reported
    BY <1>12 DEF vars, enforcer, runtime, history, Counted, Reported
  <2> QED
    BY <2>1, QueueFrame
<1> QED
  BY <1>1, <1>2, <1>3, <1>4, <1>5, <1>6, <1>7, <1>8, <1>9, <1>10, <1>11, <1>12
     DEF Next

LEMMA QueueInvariant == Spec => []QueueInv
<1>1. Init => QueueInv
  <2> SUFFICES ASSUME Init PROVE QueueInv
    OBVIOUS
  <2>0. charged = 0 /\ (charged > 0) = FALSE
    BY DEF Init
  <2>1. /\ session = "new" /\ events = <<>> /\ ~stated
        /\ Counted = [tokens |-> 0, requests |-> 0, prompt |-> 0, cost |-> 0,
                      known |-> FALSE]
        /\ Reported = Counted
    BY <2>0 DEF Init, Counted, Reported
  <2>2. Counted \in Counters
    BY <2>1 DEF Counters
  <2> DEFINE h == [i \in 0..0 |-> Counted]
  <2>3. Replays(h, Counted, events, Reported)
    BY <2>1, <2>2 DEF Replays
  <2>4. CaughtUp
    BY <2>3 DEF CaughtUp
  <2> QED
    BY <2>1, <2>4 DEF QueueInv, UsageExact
<1> QED
  BY <1>1, QueueStep, TypeCorrect, PTL DEF Spec

(* What RunSession hands to its caller is what the session did, whatever   *)
(* the order in which hooks run and events are delivered.                  *)
THEOREM UsageIsExact == Spec => []UsageExact
<1>1. QueueInv => UsageExact
  BY DEF QueueInv
<1> QED
  BY <1>1, QueueInvariant, PTL

(* A delivered thought is not wiped by the end of an older turn.           *)
THEOREM ThoughtIsSeen == Spec => []ThoughtSeen
<1>1. QueueInv => ThoughtSeen
  BY DEF QueueInv, ThoughtStands, ThoughtSeen
<1> QED
  BY <1>1, QueueInvariant, PTL

(* Once the handler knows of a context at the ceiling, no call passes.     *)
THEOREM CeilingStops == Spec => TokenStop
<1> DEFINE Ceiling == MaxTokens > 0 /\ events = <<>> /\ context >= MaxTokens
<1>1. TypeOK /\ QueueInv /\ [Next]_vars => [Ceiling => admitted' = admitted]_vars
  <2> SUFFICES ASSUME TypeOK, QueueInv, [Next]_vars, Ceiling
               PROVE  admitted' = admitted
    OBVIOUS
  <2>1. TokenLimit
    BY NothingQueued, ReactAssumption DEF QueueInv, TokenLimit, TypeOK
  <2>2. ASSUME NEW k \in Keys, PreToolUse(k) PROVE admitted' = admitted
    BY <2>1, <2>2 DEF PreToolUse, Refuse
  <2> QED
    BY <2>2, OtherSteps
<1> QED
  BY <1>1, TypeCorrect, QueueInvariant, PTL DEF Spec, TokenStop
=============================================================================
