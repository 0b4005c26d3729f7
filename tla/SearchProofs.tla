---------------------------- MODULE SearchProofs ----------------------------
(***************************************************************************)
(* What is proved of Search for every tree, every set of rules and any     *)
(* number of calls in flight.                                              *)
(***************************************************************************)
EXTENDS Search, FiniteSetTheorems, TLAPS

(* A cached result is what its key stands for, under its limit.            *)
CacheInv == \A k \in DOMAIN cache : cache[k] \in Cut(Found[k[1]], k[2])

(* Of a call whose losses, if any, are told: every rule is still to be run,*)
(* or all its sites are there, or the limit is reached.                    *)
Told(c) == req[c].tool # "grepFile" /\ quiet[c] = {}
Progress(c) ==
  \A i \in DOMAIN req[c].rules :
    \/ \E j \in DOMAIN left[c] : left[c][j] = req[c].rules[i]
    \/ Found[req[c].rules[i]] \subseteq got[c]
    \/ Marked(req[c], Cardinality(got[c]))
ProgressInv == \A c \in Calls : Told(c) => Progress(c)

SitesInv == \A c \in Calls : req[c].tool # "grepFile" => got[c] \subseteq Sites

AnswerInv ==
  \A c \in Calls : reply[c] = "unmarked" =>
    /\ pc[c] = "answered" /\ left[c] = <<>>
    /\ ~Marked(req[c], Cardinality(got[c]))

ChildInv == \A c \in Calls : pc[c] = "child" => left[c] # <<>>

SearchInv ==
  TypeOK /\ CacheInv /\ SitesInv /\ ProgressInv /\ AnswerInv /\ ChildInv

-----------------------------------------------------------------------------
(* What a limit leaves is everything, or as much as the limit allows.      *)
LEMMA CutLeaves ==
  ASSUME NEW P, IsFiniteSet(P), NEW n \in Int, NEW R \in Cut(P, n)
  PROVE  R \subseteq P /\ (R = P \/ (n > 0 /\ Cardinality(R) = n))
<1>1. Cardinality(P) \in Nat BY FS_CardinalityType
<1>2. CASE n <= 0 \/ Cardinality(P) <= n
  <2>1. R \in {P} BY <1>2 DEF Cut
  <2> QED BY <2>1
<1>3. CASE ~(n <= 0 \/ Cardinality(P) <= n)
  <2>1. R \in {Q \in SUBSET P : Cardinality(Q) = n} BY <1>3 DEF Cut
  <2>2. R \subseteq P /\ Cardinality(R) = n BY <2>1
  <2> QED BY <1>1, <1>3, <2>2
<1> QED BY <1>2, <1>3

(* Sites are finitely many, and so is every set of them.                   *)
LEMMA SitesFinite ==
  ASSUME NEW P \in SUBSET Sites
  PROVE  /\ IsFiniteSet(P) /\ Cardinality(P) \in Nat
         /\ \A Q \in SUBSET P : IsFiniteSet(Q) /\ Cardinality(Q) \in Nat
                                  /\ Cardinality(Q) <= Cardinality(P)
<1>1. IsFiniteSet(Sites) BY SearchAssumption
<1>2. IsFiniteSet(P) BY <1>1, FS_Subset
<1>3. ASSUME NEW Q \in SUBSET P
      PROVE  IsFiniteSet(Q) /\ Cardinality(Q) \in Nat /\ Cardinality(Q) <= Cardinality(P)
  BY <1>2, <1>3, FS_Subset, FS_CardinalityType
<1> QED BY <1>2, <1>3, FS_CardinalityType

(* What a request is made of.                                              *)
LEMMA RequestType ==
  ASSUME NEW r \in Requests
  PROVE  /\ r.tool \in Tools /\ r.rules \in Seq(Rules) /\ r.limit \in Int
         /\ RunLimit(r) \in Int /\ (r.tool \in Greps => r.limit > 0)
<1>1. r \in [tool : Tools, rules : Seq(Rules), limit : Int] BY SearchAssumption
<1>2. r.tool \in Tools /\ r.rules \in Seq(Rules) /\ r.limit \in Int BY <1>1
<1>3. RunLimit(r) \in Int BY <1>2, SearchAssumption DEF RunLimit
<1> QED BY <1>2, <1>3, SearchAssumption

(* The rule a call is at.                                                  *)
LEMMA RuleType ==
  ASSUME TypeOK, NEW c \in Calls, left[c] # <<>>
  PROVE  /\ Rule(c) \in Rules /\ Tail(left[c]) \in Seq(Rules)
         /\ Found[Rule(c)] \in SUBSET Sites
         /\ \A j \in DOMAIN left[c] : left[c][j] = Rule(c)
              \/ \E i \in DOMAIN Tail(left[c]) : Tail(left[c])[i] = left[c][j]
<1>1. left[c] \in Seq(Rules) BY DEF TypeOK
<1>2. Rule(c) \in Rules /\ Tail(left[c]) \in Seq(Rules) BY <1>1 DEF Rule
<1>3. ASSUME NEW j \in DOMAIN left[c], j # 1
      PROVE  /\ j - 1 \in DOMAIN Tail(left[c])
             /\ Tail(left[c])[j - 1] = left[c][j]
  BY <1>1, <1>3
<1>4. left[c][1] = Rule(c) BY <1>1 DEF Rule
<1> QED BY <1>2, <1>3, <1>4, SearchAssumption

-----------------------------------------------------------------------------
(* What ast-grep gave for a rule, now or when it was cached, and what a    *)
(* call keeps of it: all there is, or the limit is reached, or the answer  *)
(* of a definition is one of those that does not tell.                     *)
LEMMA UseTells ==
  ASSUME NEW r \in Requests, r.tool \notin Greps,
         NEW P \in SUBSET Sites, NEW R \in Cut(P, RunLimit(r)),
         NEW K \in Kept(r, R)
  PROVE  /\ K \in SUBSET Sites
         /\ AtPattern(r, R) = {} => P \subseteq K \/ Marked(r, Cardinality(K))
<1>1. r.tool \in Tools /\ r.limit \in Int /\ RunLimit(r) \in Int BY RequestType
<1>2. IsFiniteSet(P) /\ R \in SUBSET P BY <1>1, SitesFinite, CutLeaves
<1>3. R = P \/ (RunLimit(r) > 0 /\ Cardinality(R) = RunLimit(r))
  BY <1>1, <1>2, CutLeaves
<1>4. CASE r.tool = "definition"
  <2>1. K = R BY <1>4 DEF Kept
  <2>2. ASSUME AtPattern(r, R) = {} PROVE R = P
    BY <1>3, <1>4, <2>2, SearchAssumption DEF AtPattern, RunLimit
  <2> QED BY <1>2, <2>1, <2>2
<1>5. CASE r.tool = "calls"
  <2>1. R = P BY <1>3, <1>5 DEF RunLimit
  <2>2. K \in Cut(P, r.limit) BY <1>5, <2>1 DEF Kept
  <2>3. K \subseteq P /\ (K = P \/ (r.limit > 0 /\ Cardinality(K) = r.limit))
    BY <1>1, <1>2, <2>2, CutLeaves
  <2> QED BY <1>1, <1>5, <2>3 DEF Marked
<1>6. CASE r.tool = "pattern"
  <2>1. K = R BY <1>6 DEF Kept
  <2> QED BY <1>1, <1>2, <1>3, <1>6, <2>1 DEF RunLimit, Marked
<1> QED BY <1>1, <1>4, <1>5, <1>6 DEF Tools, Greps

(* What a grep is read as is finite.                                       *)
LEMMA ParsedFinite ==
  ASSUME NEW r, NEW P \in SUBSET Sites, NEW Q \in SUBSET P
  PROVE  IsFiniteSet(Parsed(r, Q))
<1>1. IsFiniteSet(Q) BY SitesFinite
<1>2. IsFiniteSet(Q \cap Colons) BY <1>1, FS_Subset
<1>3. IsFiniteSet({Garbled(s) : s \in Q \cap Colons})
  <2> DEFINE T == {Garbled(s) : s \in Q \cap Colons}
             f == [s \in Q \cap Colons |-> Garbled(s)]
  <2>1. f \in Surjection(Q \cap Colons, T) BY DEF Surjection
  <2> QED BY <1>2, <2>1, FS_Surjection
<1> QED BY <1>1, <1>3 DEF Parsed

(* The same of a grep that searched a directory and ran to its end.        *)
LEMMA ParseTells ==
  ASSUME NEW r \in Requests, r.tool = "grep",
         NEW P \in SUBSET Sites, NEW Q \in Printed(P, r),
         NEW R \in Cut(Parsed(r, Q), LineLimit(r)),
         ~AtBytes(r, Cardinality(R))
  PROVE  P \subseteq R \/ Marked(r, Cardinality(R))
<1>1. r.limit \in Int /\ r.limit > 0 BY RequestType DEF Greps
<1>2. Parsed(r, Q) = Q /\ Q \in SUBSET P BY DEF Parsed, Printed
<1>3. IsFiniteSet(Q) /\ Cardinality(Q) \in Nat BY <1>2, SitesFinite
<1>4. LineLimit(r) \in Int BY <1>1, SearchAssumption DEF LineLimit
<1>5. R = Q \/ Cardinality(R) = LineLimit(r) BY <1>2, <1>3, <1>4, CutLeaves
<1>6. CASE R = Q
  <2>1. CASE Q = P BY <1>6, <2>1
  <2>2. CASE Cardinality(Q) >= PerFileCap(r)
    BY <1>1, <1>3, <1>6, <2>2 DEF PerFileCap, Marked
  <2> QED BY <2>1, <2>2 DEF Printed
<1>7. CASE Cardinality(R) = LineLimit(r)
  BY <1>1, <1>7, SearchAssumption DEF LineLimit, AtBytes, Marked
<1> QED BY <1>5, <1>6, <1>7

-----------------------------------------------------------------------------
(* The invariants hold initially.                                          *)
LEMMA SearchStarts == Init => SearchInv
<1> SUFFICES ASSUME Init PROVE SearchInv OBVIOUS
<1> USE DEF Init
<1>1. ASSUME NEW c \in Calls PROVE req[c].rules \in Seq(Rules)
  BY RequestType
<1>2. TypeOK BY <1>1 DEF TypeOK
<1>3. CacheInv /\ SitesInv /\ AnswerInv /\ ChildInv
  BY DEF CacheInv, SitesInv, AnswerInv, ChildInv
<1>4. ProgressInv BY DEF ProgressInv, Progress
<1> QED BY <1>2, <1>3, <1>4 DEF SearchInv

(* A rule's results join the others, and nothing is lost untold by it.     *)
LEMMA TakeStep ==
  ASSUME SearchInv, NEW c \in Calls, pc[c] # "answered", left[c] # <<>>,
         NEW K, NEW why \in SUBSET Causes,
         K \subseteq Sites \cup {Garbled(s) : s \in Sites},
         req[c].tool # "grepFile" => K \in SUBSET Sites,
         req[c].tool # "grepFile" /\ why = {} =>
           Found[Rule(c)] \subseteq K \/ Marked(req[c], Cardinality(K)),
         Take(c, K, why)
  PROVE  /\ SitesInv' /\ ProgressInv'
         /\ left' \in [Calls -> Seq(Rules)]
         /\ quiet' \in [Calls -> SUBSET Causes]
         /\ got' \in [Calls -> SUBSET (Sites \cup {Garbled(s) : s \in Sites})]
         /\ \A d \in Calls \ {c} : left'[d] = left[d] /\ got'[d] = got[d]
         /\ reply[c] # "unmarked"
<1> USE DEF SearchInv
<1>1. /\ got' \in [Calls -> SUBSET (Sites \cup {Garbled(s) : s \in Sites})]
      /\ left' \in [Calls -> Seq(Rules)] /\ quiet' \in [Calls -> SUBSET Causes]
      /\ got'[c] = got[c] \cup K
      /\ left'[c] = Tail(left[c]) /\ quiet'[c] = quiet[c] \cup why
      /\ req' = req /\ reply' = reply
      /\ \A d \in Calls \ {c} : left'[d] = left[d] /\ quiet'[d] = quiet[d]
                              /\ got'[d] = got[d]
  BY RuleType DEF Take, TypeOK
<1>2. SitesInv'
  <2> SUFFICES ASSUME NEW d \in Calls, req[d].tool # "grepFile"
               PROVE  got'[d] \in SUBSET Sites
    BY <1>1 DEF SitesInv
  <2>1. CASE d = c BY <1>1, <2>1 DEF SitesInv
  <2>2. CASE d # c BY <1>1, <2>2 DEF SitesInv
  <2> QED BY <2>1, <2>2
<1>3. ProgressInv'
  <2> SUFFICES ASSUME NEW d \in Calls, req[d].tool # "grepFile", quiet'[d] = {}
               PROVE  Progress(d)'
    BY <1>1 DEF ProgressInv, Told
  <2>1. CASE d # c
    <3>1. /\ left'[d] = left[d] /\ quiet'[d] = quiet[d] /\ got'[d] = got[d]
          /\ req'[d] = req[d]
      BY <1>1, <2>1
    <3>2. Progress(d) BY <3>1 DEF ProgressInv, Told
    <3> QED BY <3>1, <3>2 DEF Progress
  <2>2. CASE d = c
    <3>1. quiet[c] = {} /\ why = {} BY <1>1, <2>2
    <3>2. Progress(c) BY <2>2, <3>1 DEF ProgressInv, Told
    <3>3. got[c] \in SUBSET Sites /\ K \in SUBSET Sites /\ got'[c] = got[c] \cup K
      BY <1>1, <2>2 DEF SitesInv
    <3>4. /\ Cardinality(got[c]) \in Nat /\ Cardinality(K) \in Nat
          /\ Cardinality(got'[c]) \in Nat
          /\ Cardinality(got[c]) <= Cardinality(got'[c])
          /\ Cardinality(K) <= Cardinality(got'[c])
      BY <3>3, SitesFinite
    <3>5. req[c] \in Requests BY DEF TypeOK
    <3>6. Marked(req[c], Cardinality(got[c])) \/ Marked(req[c], Cardinality(K))
            => Marked(req[c], Cardinality(got'[c]))
      BY <3>4, <3>5, RequestType DEF Marked
    <3>7. Found[Rule(c)] \subseteq K \/ Marked(req[c], Cardinality(K))
      BY <2>2, <3>1
    <3> SUFFICES ASSUME NEW i \in DOMAIN req[c].rules
                 PROVE  \/ \E j \in DOMAIN left'[c] : left'[c][j] = req[c].rules[i]
                        \/ Found[req[c].rules[i]] \subseteq got'[c]
                        \/ Marked(req[c], Cardinality(got'[c]))
      BY <1>1, <2>2 DEF Progress
    <3>8. CASE \E j \in DOMAIN left[c] : left[c][j] = req[c].rules[i]
      <4>1. PICK j \in DOMAIN left[c] : left[c][j] = req[c].rules[i] BY <3>8
      <4>2. \/ left[c][j] = Rule(c)
            \/ \E k \in DOMAIN Tail(left[c]) : Tail(left[c])[k] = left[c][j]
        BY RuleType
      <4>3. CASE left[c][j] = Rule(c) BY <3>3, <3>6, <3>7, <4>1, <4>3
      <4> QED BY <1>1, <4>1, <4>2, <4>3
    <3> QED BY <3>2, <3>3, <3>6, <3>8 DEF Progress
  <2> QED BY <2>1, <2>2
<1>4. reply[c] # "unmarked" BY DEF AnswerInv
<1> QED BY <1>1, <1>2, <1>3, <1>4
(* The step of one call that takes the results of a rule.                  *)
LEMMA TakeKeeps ==
  ASSUME SearchInv, NEW c \in Calls, pc[c] # "answered", left[c] # <<>>,
         NEW K, NEW why \in SUBSET Causes,
         K \subseteq Sites \cup {Garbled(s) : s \in Sites},
         req[c].tool # "grepFile" => K \in SUBSET Sites,
         req[c].tool # "grepFile" /\ why = {} =>
           Found[Rule(c)] \subseteq K \/ Marked(req[c], Cardinality(K)),
         Take(c, K, why),
         pc' = pc \/ GoTo(c, "child", "run"), pc[c] = "run" \/ pc'[c] = "run",
         CacheInv', DOMAIN cache' \subseteq Rules \X Int,
         cache' \in [DOMAIN cache' -> SUBSET Sites]
  PROVE  SearchInv'
<1>1. /\ SitesInv' /\ ProgressInv'
      /\ left' \in [Calls -> Seq(Rules)]
      /\ quiet' \in [Calls -> SUBSET Causes]
      /\ got' \in [Calls -> SUBSET (Sites \cup {Garbled(s) : s \in Sites})]
      /\ \A d \in Calls \ {c} : left'[d] = left[d] /\ got'[d] = got[d]
      /\ reply[c] # "unmarked"
  BY TakeStep
<1>2. req' = req /\ reply' = reply BY DEF Take
<1>3. /\ pc' \in [Calls -> {"idle", "run", "child", "answered"}]
      /\ pc'[c] = "run"
      /\ \A d \in Calls \ {c} : pc'[d] = pc[d]
  BY DEF SearchInv, TypeOK, GoTo
<1>4. TypeOK' BY <1>1, <1>2, <1>3 DEF SearchInv, TypeOK
<1>5. AnswerInv'
  <2> SUFFICES ASSUME NEW d \in Calls, reply[d] = "unmarked"
               PROVE  /\ pc'[d] = "answered" /\ left'[d] = <<>>
                      /\ ~Marked(req[d], Cardinality(got'[d]))
    BY <1>2 DEF AnswerInv
  <2> QED BY <1>1, <1>3 DEF SearchInv, AnswerInv
<1>6. ChildInv' BY <1>1, <1>3 DEF SearchInv, ChildInv
<1> QED BY <1>1, <1>4, <1>5, <1>6 DEF SearchInv

(* A step that leaves the matches, the rules and the cache alone and gives *)
(* no answer that hides something.                                         *)
LEMMA OtherKeeps ==
  ASSUME SearchInv, NEW c \in Calls,
         UNCHANGED <<req, left, got, quiet, cache>>,
         pc[c] # "answered", NEW p \in {"run", "child", "answered"},
         pc' = [pc EXCEPT ![c] = p], p = "child" => left[c] # <<>>,
         NEW a \in {"none", "error", "truncated", "unmarked"},
         reply' = [reply EXCEPT ![c] = a],
         a = "unmarked" => /\ p = "answered" /\ left[c] = <<>>
                           /\ ~Marked(req[c], Cardinality(got[c]))
  PROVE  SearchInv'
<1>1. TypeOK' BY DEF SearchInv, TypeOK
<1>2. CacheInv' /\ SitesInv' BY DEF SearchInv, CacheInv, SitesInv
<1>3. ProgressInv' BY DEF SearchInv, ProgressInv, Told, Progress
<1>4. AnswerInv'
  <2> SUFFICES ASSUME NEW d \in Calls, reply'[d] = "unmarked"
               PROVE  /\ pc'[d] = "answered" /\ left[d] = <<>>
                      /\ ~Marked(req[d], Cardinality(got[d]))
    BY DEF AnswerInv
  <2>1. CASE d = c BY <2>1 DEF SearchInv, TypeOK
  <2>2. CASE d # c BY <2>2 DEF SearchInv, TypeOK, AnswerInv
  <2> QED BY <2>1, <2>2
<1>5. ChildInv' BY DEF SearchInv, TypeOK, ChildInv
<1> QED BY <1>1, <1>2, <1>3, <1>4, <1>5 DEF SearchInv

(* Every action preserves the invariant.                                   *)
LEMMA SearchStep == SearchInv /\ [Next]_vars => SearchInv'
<1> SUFFICES ASSUME SearchInv, [Next]_vars PROVE SearchInv' OBVIOUS
<1> USE DEF SearchInv
<1>1. CASE UNCHANGED vars
  BY <1>1 DEF vars, TypeOK, CacheInv, SitesInv, ProgressInv, Told, Progress,
              AnswerInv, ChildInv
<1>2. ASSUME NEW k \in DOMAIN cache, Expire(k) PROVE SearchInv'
  <2>1. TypeOK' /\ CacheInv' BY <1>2 DEF Expire, TypeOK, CacheInv
  <2>2. SitesInv' /\ AnswerInv' /\ ChildInv'
    BY <1>2 DEF Expire, SitesInv, AnswerInv, ChildInv
  <2>3. ProgressInv' BY <1>2 DEF Expire, ProgressInv, Told, Progress
  <2> QED BY <2>1, <2>2, <2>3
<1>3. ASSUME NEW c \in Calls, Ask(c) \/ Handle(c) PROVE SearchInv'
  <2> DEFINE P == Found[Rule(c)]
  <2>1. /\ pc \in [Calls -> {"idle", "run", "child", "answered"}]
        /\ req[c] \in Requests /\ reply \in [Calls -> {"none", "error", "truncated", "unmarked"}]
    BY DEF TypeOK
  <2>2. /\ req[c].tool \in Tools /\ req[c].limit \in Int /\ RunLimit(req[c]) \in Int
    BY <2>1, RequestType
  <2>3. left[c] # <<>> => Rule(c) \in Rules /\ P \in SUBSET Sites BY RuleType
  <2>4. pc[c] = "child" => left[c] # <<>> BY DEF ChildInv
  <2>5. CASE Ask(c) \/ StartChild(c)
    <3>1. reply' = [reply EXCEPT ![c] = reply[c]] BY <2>1, <2>5 DEF Ask, StartChild
    <3>2. PICK p \in {"run", "child"} : pc' = [pc EXCEPT ![c] = p] /\ pc[c] # "answered"
             /\ (p = "child" => left[c] # <<>>)
      BY <2>5 DEF Ask, StartChild, GoTo, Running
    <3>3. reply[c] # "unmarked" BY <3>2 DEF AnswerInv
    <3> QED BY <2>1, <2>5, <3>1, <3>2, <3>3, OtherKeeps DEF Ask, StartChild
  <2>6. CASE AstGrepFails(c) \/ GrepFails(c)
    BY <2>6, OtherKeeps DEF AstGrepFails, GrepFails
  <2>7. CASE Answer(c)
    BY <2>7, OtherKeeps DEF Answer, GoTo
  <2>8. ASSUME NEW R \in Cut(P, RunLimit(req[c])), req[c].tool \notin Greps,
               left[c] # <<>>, Use(c, R)
        PROVE  \E K \in SUBSET Sites, why \in SUBSET Causes :
                 /\ Take(c, K, why)
                 /\ why = {} => P \subseteq K \/ Marked(req[c], Cardinality(K))
    <3>1. PICK K \in Kept(req[c], R) : Take(c, K, AtPattern(req[c], R))
      BY <2>8 DEF Use
    <3>2. AtPattern(req[c], R) \in SUBSET Causes BY DEF AtPattern, Causes
    <3>3. /\ K \in SUBSET Sites
          /\ AtPattern(req[c], R) = {} => P \subseteq K \/ Marked(req[c], Cardinality(K))
      BY <2>1, <2>3, <2>8, UseTells
    <3> QED BY <3>1, <3>2, <3>3
  <2>9. CASE CacheHit(c)
    <3> DEFINE R == cache[Key(Rule(c), req[c])]
    <3>1. left[c] # <<>> /\ req[c].tool \notin Greps /\ Use(c, R) /\ UNCHANGED <<pc, cache>>
          /\ pc[c] = "run"
      BY <2>9 DEF CacheHit, Running
    <3>2. R \in Cut(P, RunLimit(req[c])) BY <2>9 DEF CacheHit, CacheInv, Key
    <3>3. PICK K \in SUBSET Sites, why \in SUBSET Causes :
            /\ Take(c, K, why)
            /\ why = {} => P \subseteq K \/ Marked(req[c], Cardinality(K))
      BY <2>8, <3>1, <3>2
    <3>4. CacheInv' BY <3>1 DEF CacheInv
    <3> QED BY <3>1, <3>3, <3>4, TakeKeeps DEF TypeOK
  <2>10. CASE AstGrepEnds(c)
    <3>1. pc[c] = "child" /\ GoTo(c, "child", "run") /\ req[c].tool \notin Greps
      BY <2>10 DEF AstGrepEnds, GoTo
    <3>2. PICK R \in Cut(P, RunLimit(req[c])) : Put(Key(Rule(c), req[c]), R) /\ Use(c, R)
      BY <2>10 DEF AstGrepEnds
    <3>3. PICK K \in SUBSET Sites, why \in SUBSET Causes :
            /\ Take(c, K, why)
            /\ why = {} => P \subseteq K \/ Marked(req[c], Cardinality(K))
      BY <2>4, <2>8, <3>1, <3>2
    <3>4. Key(Rule(c), req[c]) = <<Rule(c), RunLimit(req[c])>> /\ R \in SUBSET Sites
          /\ Key(Rule(c), req[c]) \in Rules \X Int
      BY <2>2, <2>3, <2>4, <3>1, <3>2, CutLeaves, SitesFinite DEF Key
    <3>5. CacheInv' BY <3>2, <3>4 DEF CacheInv, Put
    <3>6. DOMAIN cache' \subseteq Rules \X Int /\ cache' \in [DOMAIN cache' -> SUBSET Sites]
      BY <3>2, <3>4 DEF Put, TypeOK
    <3>7. pc'[c] = "run" BY <2>1, <3>1 DEF GoTo
    <3> QED BY <2>4, <3>1, <3>3, <3>5, <3>6, <3>7, TakeKeeps
  <2>11. CASE PatternFails(c)
    <3>1. /\ GoTo(c, "child", "run") /\ pc[c] = "child" /\ cache' = cache
          /\ Take(c, {}, {"failed"})
      BY <2>11 DEF PatternFails, GoTo
    <3>2. CacheInv' BY <3>1 DEF CacheInv
    <3>3. pc'[c] = "run" /\ {"failed"} \in SUBSET Causes BY <2>1, <3>1 DEF GoTo, Causes
    <3> QED BY <2>4, <3>1, <3>2, <3>3, TakeKeeps DEF TypeOK
  <2>12. ASSUME NEW Q \in SUBSET P, NEW w \in SUBSET Causes, Parse(c, Q, w),
                req[c].tool \in Greps, left[c] # <<>>,
                w = {} => Q \in Printed(P, req[c]),
                GoTo(c, "child", "run"), cache' = cache
         PROVE  SearchInv'
    <3>1. PICK R \in Cut(Parsed(req[c], Q), LineLimit(req[c])) :
            Take(c, R, w \cup (IF AtBytes(req[c], Cardinality(R)) THEN {"bytes"} ELSE {}))
      BY <2>12 DEF Parse
    <3> DEFINE why == w \cup (IF AtBytes(req[c], Cardinality(R)) THEN {"bytes"} ELSE {})
    <3>2. LineLimit(req[c]) \in Int BY <2>2, SearchAssumption DEF LineLimit
    <3>3. R \subseteq Parsed(req[c], Q)
      BY <2>3, <2>12, <3>2, ParsedFinite, CutLeaves
    <3>4. /\ R \subseteq Sites \cup {Garbled(s) : s \in Sites}
          /\ req[c].tool # "grepFile" => R \in SUBSET Sites
      BY <2>3, <2>12, <3>3 DEF Parsed, Greps
    <3>5. ASSUME req[c].tool # "grepFile", why = {}
          PROVE  P \subseteq R \/ Marked(req[c], Cardinality(R))
      <4>1. w = {} /\ ~AtBytes(req[c], Cardinality(R)) BY <3>5
      <4>2. req[c].tool = "grep" BY <2>12, <3>5 DEF Greps
      <4> QED BY <2>1, <2>3, <2>12, <3>1, <4>1, <4>2, ParseTells
    <3>6. why \in SUBSET Causes BY <2>12 DEF Causes
    <3>7. CacheInv' BY <2>12 DEF CacheInv
    <3>8. pc[c] = "child" /\ pc'[c] = "run" BY <2>1, <2>12 DEF GoTo
    <3>9. Take(c, R, why) BY <3>1
    <3> HIDE DEF why
    <3> QED BY <2>12, <3>4, <3>5, <3>6, <3>7, <3>8, <3>9, TakeKeeps DEF TypeOK
  <2>13. CASE GrepEnds(c) \/ GrepKilled(c)
    <3>1. /\ GoTo(c, "child", "run") /\ cache' = cache /\ req[c].tool \in Greps
          /\ pc[c] = "child"
      BY <2>13 DEF GrepEnds, GrepKilled, GoTo
    <3>2. CASE GrepEnds(c)
      <4>1. PICK Q \in Printed(P, req[c]) : Parse(c, Q, {}) BY <3>2 DEF GrepEnds
      <4> QED BY <2>4, <2>12, <3>1, <4>1 DEF Printed
    <3>3. CASE GrepKilled(c)
      <4>1. PICK Q \in SUBSET P : Parse(c, Q, {"killed"}) BY <3>3 DEF GrepKilled
      <4> QED BY <2>4, <2>12, <3>1, <4>1 DEF Causes
    <3> QED BY <2>13, <3>2, <3>3
  <2> QED
    BY <1>3, <2>5, <2>6, <2>7, <2>9, <2>10, <2>11, <2>13 DEF Handle
<1> QED BY <1>1, <1>2, <1>3 DEF Next

-----------------------------------------------------------------------------
(* The invariant holds throughout.                                         *)
LEMMA SearchInvariant == Spec => []SearchInv
<1> QED BY SearchStarts, SearchStep, PTL DEF Spec

(* The server keeps its types, for every number of calls and rules.        *)
THEOREM TypeCorrect == Spec => []TypeOK
<1>1. SearchInv => TypeOK BY DEF SearchInv
<1> QED BY <1>1, SearchInvariant, PTL

(* An answer that is no error and not marked truncated has every site that *)
(* was asked for, whatever other calls with other limits, failures and     *)
(* timeouts left in the cache, but for what NothingLostUntold excepts.     *)
THEOREM AnswersAreComplete == Spec => []NothingLostUntold
<1>1. SearchInv => NothingLostUntold
  <2> SUFFICES ASSUME SearchInv, NEW c \in Calls, req[c].tool # "grepFile",
                      quiet[c] = {}, reply[c] = "unmarked"
               PROVE  Wanted(c) \subseteq got[c]
    BY DEF NothingLostUntold, Complete
  <2>1. left[c] = <<>> /\ ~Marked(req[c], Cardinality(got[c]))
    BY DEF SearchInv, AnswerInv
  <2>2. Progress(c) BY DEF SearchInv, ProgressInv, Told
  <2>3. \A i \in DOMAIN req[c].rules : Found[req[c].rules[i]] \subseteq got[c]
    BY <2>1, <2>2 DEF Progress
  <2> QED BY <2>3 DEF Wanted
<1> QED BY <1>1, SearchInvariant, PTL
=============================================================================
