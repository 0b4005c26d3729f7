------------------------------- MODULE Search -------------------------------
(***************************************************************************)
(* The search tools of the MCP server over a tree of source code that does *)
(* not change: grep, the structural searches around ast-grep, and the      *)
(* cache of ast-grep's results (common.go, lang.go, code_tools.go,         *)
(* comm_tools.go, tool_cache.go of tools/mcp-server/src).  Requests are    *)
(* handled at the same time; each of their child processes may fail or be  *)
(* killed at its deadline; a cache entry may expire at any moment.         *)
(*                                                                         *)
(* What ast-grep or grep is asked for, language and path included, is a    *)
(* rule; what it would print for it is a set of sites.  The order in which *)
(* sites are printed is theirs, so a limit may keep any of them.  Requests *)
(* refused for their arguments are left out.                               *)
(***************************************************************************)
EXTENDS Integers, Sequences, FiniteSets

CONSTANTS
  Calls,      \* requests to the server
  Rules,      \* patterns, YAML rules, regular expressions
  Sites,      \* lines and nodes of the tree
  Found,      \* the sites of each rule
  Colons,     \* the sites whose text has a colon
  Requests,   \* what may be asked for
  PerPattern, \* the limit of each pattern of a definition or an outline
  MaxInline   \* -max-tool-output-kb, in sites; 0 is no limit

Greps == {"grep", "grepFile"}
Tools == Greps \cup {"pattern", "calls", "definition"}

(* A grep that names no positive limit is given one of 100 beforehand.     *)
ASSUME SearchAssumption ==
  /\ Found \in [Rules -> SUBSET Sites] /\ IsFiniteSet(Sites)
  /\ Requests \subseteq [tool : Tools, rules : Seq(Rules), limit : Int]
  /\ \A r \in Requests : /\ r.tool # "definition" => Len(r.rules) = 1
                         /\ r.tool \in Greps => r.limit > 0
  /\ PerPattern \in Nat \ {0} /\ MaxInline \in Nat

VARIABLES
  pc,    \* "idle", "run", "child" or "answered"
  req,   \* what the call asks for
  left,  \* the rules it still has to run
  got,   \* the matches it has
  quiet, \* what limited it that its answer does not tell
  reply, \* "none", "error", "truncated", or "unmarked"
  cache  \* results of ast-grep by key

vars == <<pc, req, left, got, quiet, reply, cache>>

Causes == {"killed", "bytes", "failed", "perPattern"}

(* What a loop that breaks at a limit can leave of a set; 0 is no limit.   *)
Cut(P, n) ==
  IF n <= 0 \/ Cardinality(P) <= n THEN {P}
  ELSE {R \in SUBSET P : Cardinality(R) = n}

(* The limit the results of a rule are cut to before they are cached.      *)
RunLimit(r) ==
  IF r.tool = "definition" THEN PerPattern
  ELSE IF r.tool = "calls" THEN 0 ELSE r.limit

GoTo(c, from, to) == pc[c] = from /\ pc' = [pc EXCEPT ![c] = to]

-----------------------------------------------------------------------------
(* Forms some definitions below would take under a slip in the code.       *)
KeyOfRule(rule, r) == <<rule, 0>>
PatternRetried(c) ==
  /\ GoTo(c, "child", "run") /\ req[c].tool = "definition"
  /\ UNCHANGED <<req, left, got, quiet, reply, cache>>
-----------------------------------------------------------------------------
(* The key of a result: another limit is another entry.                    *)
Key(rule, r) == <<rule, RunLimit(r)>>

(* grep -m: how many lines of one file it prints.                          *)
PerFileCap(r) == 2 * r.limit

(* All there is, or less because some file reached its cap.                *)
Printed(P, r) == {Q \in SUBSET P : Q = P \/ Cardinality(Q) >= PerFileCap(r)}

(* With a directory to search a line of grep is file:line:text; with a     *)
(* file it is line:text, which is dropped unless the text has a colon, and *)
(* then read as if the line were a file.                                   *)
Garbled(s)   == <<s>>
Parsed(r, Q) == IF r.tool = "grep" THEN Q ELSE {Garbled(s) : s \in Q \cap Colons}

(* The loop over the lines ends at the limit or at MaxInline.              *)
AtBytes(r, n) == MaxInline > 0 /\ n >= MaxInline /\ n < r.limit
LineLimit(r)  == IF MaxInline > 0 /\ MaxInline < r.limit THEN MaxInline ELSE r.limit

(* astgrepResponse and its like: an answer at the limit is marked.         *)
Marked(r, n) == r.tool # "definition" /\ r.limit > 0 /\ n >= r.limit

-----------------------------------------------------------------------------
Init ==
  /\ pc = [c \in Calls |-> "idle"]
  /\ req \in [Calls -> Requests]
  /\ left = [c \in Calls |-> req[c].rules]
  /\ got = [c \in Calls |-> {}] /\ quiet = [c \in Calls |-> {}]
  /\ reply = [c \in Calls |-> "none"]
  /\ cache = <<>>

Ask(c) ==
  /\ GoTo(c, "idle", "run")
  /\ UNCHANGED <<req, left, got, quiet, reply, cache>>

Running(c) == pc[c] = "run" /\ left[c] # <<>>
Rule(c)    == Head(left[c])

(* The results of one rule join those of the rules before it.              *)
Take(c, R, why) ==
  /\ got' = [got EXCEPT ![c] = @ \cup R]
  /\ left' = [left EXCEPT ![c] = Tail(@)]
  /\ quiet' = [quiet EXCEPT ![c] = @ \cup why]
  /\ UNCHANGED <<req, reply>>

(* findCalls filters and cuts what the rule gave; the others take it all.  *)
Kept(r, R) == IF r.tool = "calls" THEN Cut(R, r.limit) ELSE {R}

AtPattern(r, R) ==
  IF r.tool = "definition" /\ Cardinality(R) >= PerPattern THEN {"perPattern"}
  ELSE {}

Use(c, R) == \E K \in Kept(req[c], R) : Take(c, K, AtPattern(req[c], R))

(* cachedJSON.                                                             *)
CacheHit(c) ==
  /\ Running(c) /\ req[c].tool \notin Greps
  /\ Key(Rule(c), req[c]) \in DOMAIN cache
  /\ Use(c, cache[Key(Rule(c), req[c])])
  /\ UNCHANGED <<pc, cache>>

StartChild(c) ==
  /\ Running(c) /\ GoTo(c, "run", "child")
  /\ req[c].tool \in Greps \/ Key(Rule(c), req[c]) \notin DOMAIN cache
  /\ UNCHANGED <<req, left, got, quiet, reply, cache>>

Put(key, R) == cache' = [k \in DOMAIN cache \cup {key} |-> IF k = key THEN R ELSE cache[k]]

AstGrepEnds(c) ==
  /\ GoTo(c, "child", "run") /\ req[c].tool \notin Greps
  /\ \E R \in Cut(Found[Rule(c)], RunLimit(req[c])) :
       Put(Key(Rule(c), req[c]), R) /\ Use(c, R)

(* It does not start, exits with an error, or is killed at its deadline,   *)
(* so that its output does not parse; a failure is not cached.             *)
AstGrepFails(c) ==
  /\ pc[c] = "child" /\ req[c].tool \in {"pattern", "calls"}
  /\ pc' = [pc EXCEPT ![c] = "answered"] /\ reply' = [reply EXCEPT ![c] = "error"]
  /\ UNCHANGED <<req, left, got, quiet, cache>>

(* getDefinition, getOutline and getImports go on with the next pattern.   *)
PatternFails(c) ==
  /\ GoTo(c, "child", "run") /\ req[c].tool = "definition"
  /\ Take(c, {}, {"failed"})
  /\ UNCHANGED cache

Parse(c, Q, why) ==
  \E R \in Cut(Parsed(req[c], Q), LineLimit(req[c])) :
    Take(c, R, why \cup (IF AtBytes(req[c], Cardinality(R)) THEN {"bytes"} ELSE {}))

GrepEnds(c) ==
  /\ GoTo(c, "child", "run") /\ req[c].tool \in Greps
  /\ \E Q \in Printed(Found[Rule(c)], req[c]) : Parse(c, Q, {})
  /\ UNCHANGED cache

(* A grep killed at its deadline has exit code -1, which passes for a      *)
(* success: what it had printed is the answer.                             *)
GrepKilled(c) ==
  /\ GoTo(c, "child", "run") /\ req[c].tool \in Greps
  /\ \E Q \in SUBSET Found[Rule(c)] : Parse(c, Q, {"killed"})
  /\ UNCHANGED cache

GrepFails(c) ==
  /\ pc[c] = "child" /\ req[c].tool \in Greps
  /\ pc' = [pc EXCEPT ![c] = "answered"] /\ reply' = [reply EXCEPT ![c] = "error"]
  /\ UNCHANGED <<req, left, got, quiet, cache>>

(* toolResultJSON: an answer about MaxInline goes to a file, which may not *)
(* be writable.                                                            *)
Answer(c) ==
  /\ GoTo(c, "run", "answered") /\ left[c] = <<>>
  /\ \/ reply' = [reply EXCEPT ![c] =
                    IF Marked(req[c], Cardinality(got[c])) THEN "truncated" ELSE "unmarked"]
     \/ MaxInline > 0 /\ Cardinality(got[c]) >= MaxInline
        /\ reply' = [reply EXCEPT ![c] = "error"]
  /\ UNCHANGED <<req, left, got, quiet, cache>>

Expire(k) ==
  /\ cache' = [l \in DOMAIN cache \ {k} |-> cache[l]]
  /\ UNCHANGED <<pc, req, left, got, quiet, reply>>

Handle(c) ==
  \/ CacheHit(c) \/ StartChild(c)
  \/ AstGrepEnds(c) \/ AstGrepFails(c) \/ PatternFails(c)
  \/ GrepEnds(c) \/ GrepKilled(c) \/ GrepFails(c)
  \/ Answer(c)

Next ==
  \/ \E c \in Calls : Ask(c) \/ Handle(c)
  \/ \E k \in DOMAIN cache : Expire(k)

Spec == Init /\ [][Next]_vars

(* A request is handled to its end; its children end or are killed.        *)
FairSpec == Spec /\ \A c \in Calls : WF_vars(Handle(c))

-----------------------------------------------------------------------------
TypeOK ==
  /\ pc \in [Calls -> {"idle", "run", "child", "answered"}]
  /\ req \in [Calls -> Requests]
  /\ left \in [Calls -> Seq(Rules)]
  /\ got \in [Calls -> SUBSET (Sites \cup {Garbled(s) : s \in Sites})]
  /\ quiet \in [Calls -> SUBSET Causes]
  /\ reply \in [Calls -> {"none", "error", "truncated", "unmarked"}]
  /\ DOMAIN cache \subseteq Rules \X Int
  /\ cache \in [DOMAIN cache -> SUBSET Sites]

Wanted(c) == UNION {Found[req[c].rules[i]] : i \in DOMAIN req[c].rules}
Complete(c) == reply[c] = "unmarked" => Wanted(c) \subseteq got[c]

(* An answer that is no error and not marked truncated has every site of   *)
(* the tree that was asked for, whatever other calls, with other limits,   *)
(* failures and timeouts, left in the cache: but for the greps of a single *)
(* file, and for the four causes that an answer does not tell.             *)
NothingLostUntold ==
  \A c \in Calls : req[c].tool # "grepFile" /\ quiet[c] = {} => Complete(c)

(* comm_tools.go:82-97: grep "returns absolute file path, line number, and *)
(* matching line content for each hit", of "an absolute file" or a         *)
(* directory; stated of a grep that ran to its end and met no limit.       *)
EveryHitReturned ==
  \A c \in Calls : req[c].tool \in Greps /\ quiet[c] = {} => Complete(c)

(* A request is answered, whatever its children do.                        *)
CallsEnd == \A c \in Calls : pc[c] = "run" ~> pc[c] = "answered"
=============================================================================
