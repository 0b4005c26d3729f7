------------------------------- MODULE Enrich -------------------------------
(***************************************************************************)
(* The OSV enrichment of a scan report (cmd/xpsd/enrich.go): a pool of     *)
(* workers, one per finding that lacks data, walks the finding's ids and   *)
(* asks a cache that all of them share.  The cache is read and written     *)
(* under a mutex, but the fetch in between is not, so two workers may      *)
(* fetch one id, and the later answer, a failure too, replaces the other.  *)
(*                                                                         *)
(* The severity scale is cut to two bands, low for score 1 and high above; *)
(* a vector is abstracted to the score it encodes, 0 for no vector.  A     *)
(* record keeps the best CVSS 3 entry it lists.                            *)
(***************************************************************************)
EXTENDS Integers, Sequences, FiniteSets, SequencesExt

CONSTANTS
  Ids,         \* ids of vulnerabilities
  IdsOf,       \* the id and the aliases of each finding, in order
  WantVector,  \* -is-remote asks for the vector too
  Workers,     \* size of the pool, 6 in the code
  Reported,    \* what the scanner may say of a finding
  MaxScore     \* bound: CVSS scores are 0 (none) to MaxScore

Findings == DOMAIN IdsOf

VARIABLES
  findings,   \* what the scanner said of each finding, filled in on the way
  at,         \* where the worker of each finding is
  pos,        \* index of the id it is at
  touched,    \* its local "any"
  cache,      \* id -> record or NoRecord, for the ids looked up
  changed,    \* the count EnrichFindings returns
  cancelled,  \* ctx.Err() # nil
  returned,   \* has EnrichFindings returned?
  osv,        \* what the OSV database holds
  input,      \* the findings as they came
  lost        \* did a fetch of a record that exists fail?

work == <<findings, at, pos, touched>>
vars == <<work, cache, changed, cancelled, returned, osv, input, lost>>

Scores     == 0..MaxScore
Severities == {"unknown", "low", "high"}
Finding    == [score : Scores, severity : Severities, vector : Scores]
Record     == [found : BOOLEAN, score : Scores, severity : Severities]
NoRecord   == [found |-> FALSE, score |-> 0, severity |-> "unknown"]

ScoreToSeverity(score) ==
  CASE score = 0 -> "unknown"
    [] score = 1 -> "low"
    [] OTHER     -> "high"

(* What the parsers make: finishFinding rates whatever has a score, and    *)
(* cvssPick takes score and vector from one entry.                         *)
Scanned == {f \in Finding : /\ f.score > 0 => f.severity # "unknown"
                            /\ f.vector \in {0, f.score}}

NeedsEnrichment(f) ==
  \/ f.score = 0 \/ f.severity = "unknown"
  \/ WantVector /\ f.vector = 0

ASSUME EnrichAssumption ==
  /\ IdsOf \in Seq(Seq(Ids) \ {<<>>})
  /\ WantVector \in BOOLEAN /\ Workers \in Nat \ {0} /\ MaxScore \in Nat
  /\ Reported \subseteq Scanned

-----------------------------------------------------------------------------
(* Forms some definitions below would take under a slip in the code.       *)
ApplyRateFirst(f, v) ==
  [score    |-> IF f.score = 0 THEN v.score ELSE f.score,
   vector   |-> IF f.vector = 0 THEN v.score ELSE f.vector,
   severity |-> IF f.severity # "unknown" THEN f.severity
                ELSE IF f.score > 0 THEN ScoreToSeverity(f.score)
                ELSE v.severity]
ApplyFresh(f, v) ==
  [score    |-> IF v.score > 0 THEN v.score ELSE f.score,
   vector   |-> IF v.score > 0 THEN v.score ELSE f.vector,
   severity |-> IF v.score > 0 THEN ScoreToSeverity(v.score) ELSE f.severity]
TouchedByLast(f, v) == touched' = [touched EXCEPT ![f] = v]
StopsAtFirst(f, g)  == g # findings[f] \/ pos[f] = Len(IdsOf[f])
KeepSlot(f)         == FALSE /\ at' = [at EXCEPT ![f] = "done"]
-----------------------------------------------------------------------------
(* applyOSV: fills what is missing, the score before the severity.         *)
ApplyOSV(f, v) ==
  LET score == IF f.score = 0 THEN v.score ELSE f.score
  IN  [score    |-> score,
       vector   |-> IF f.vector = 0 THEN v.score ELSE f.vector,
       severity |-> IF f.severity # "unknown" THEN f.severity
                    ELSE IF score > 0 THEN ScoreToSeverity(score)
                    ELSE v.severity]

Init ==
  /\ findings \in [Findings -> Reported] /\ input = findings
  /\ osv \in [Ids -> {r \in Record : ~r.found => r = NoRecord}]
  /\ at = [f \in Findings |-> IF NeedsEnrichment(findings[f]) THEN "todo"
                              ELSE "skipped"]
  /\ pos = [f \in Findings |-> 1]
  /\ touched = [f \in Findings |-> FALSE]
  /\ cache = [id \in {} |-> NoRecord]
  /\ changed = 0 /\ cancelled = FALSE /\ returned = FALSE /\ lost = FALSE

IdAt(f)  == IdsOf[f][pos[f]]
InPool   == {f \in Findings : at[f] \in {"looking", "fetching", "counting"}}

(* The loop over the todo list takes a slot of the pool, then starts the   *)
(* worker of the next finding.                                             *)
Spawn(f) ==
  /\ at[f] = "todo" /\ \A g \in Findings : at[g] = "todo" => f <= g
  /\ Cardinality(InPool) < Workers
  /\ at' = [at EXCEPT ![f] = "looking"]
  /\ UNCHANGED <<findings, pos, touched, cache, changed, cancelled, returned,
                 osv, input, lost>>

(* The id loop stops as soon as nothing is missing.                        *)
Stops(f, g) == ~NeedsEnrichment(g) \/ pos[f] = Len(IdsOf[f])

Touch(f, v) == touched' = [touched EXCEPT ![f] = @ \/ v]

(* The rest of an iteration, with the record the lookup gave.              *)
Use(f, v) ==
  LET g == IF v.found THEN ApplyOSV(findings[f], v) ELSE findings[f]
      ends == IF v.found THEN Stops(f, g) ELSE pos[f] = Len(IdsOf[f])
  IN  /\ findings' = [findings EXCEPT ![f] = g]
      /\ Touch(f, g # findings[f])
      /\ at' = [at EXCEPT ![f] = IF ends THEN "counting" ELSE "looking"]
      /\ pos' = [pos EXCEPT ![f] = IF ends THEN @ ELSE @ + 1]

LookupCancelled(f) ==
  /\ at[f] = "looking" /\ cancelled
  /\ at' = [at EXCEPT ![f] = "counting"]
  /\ UNCHANGED <<findings, pos, touched, cache, changed, cancelled, returned,
                 osv, input, lost>>

LookupHit(f) ==
  /\ at[f] = "looking" /\ ~cancelled /\ IdAt(f) \in DOMAIN cache
  /\ Use(f, cache[IdAt(f)])
  /\ UNCHANGED <<cache, changed, cancelled, returned, osv, input, lost>>

LookupMiss(f) ==
  /\ at[f] = "looking" /\ ~cancelled /\ IdAt(f) \notin DOMAIN cache
  /\ at' = [at EXCEPT ![f] = "fetching"]
  /\ UNCHANGED <<findings, pos, touched, cache, changed, cancelled, returned,
                 osv, input, lost>>

(* The fetch ends, with the record or with nil, and is put in the cache    *)
(* whatever another worker put there meanwhile.                            *)
FetchEnds(f) ==
  /\ at[f] = "fetching"
  /\ \E v \in {osv[IdAt(f)], NoRecord} :
       /\ cache' = [id \in DOMAIN cache \cup {IdAt(f)} |->
                      IF id = IdAt(f) THEN v ELSE cache[id]]
       /\ Use(f, v)
       /\ lost' = (lost \/ v # osv[IdAt(f)])
  /\ UNCHANGED <<changed, cancelled, returned, osv, input>>

(* A worker that changed its finding counts it; its slot becomes free.     *)
Release(f) == at' = [at EXCEPT ![f] = "done"]

Count(f) ==
  /\ at[f] = "counting"
  /\ Release(f)
  /\ changed' = IF touched[f] THEN changed + 1 ELSE changed
  /\ UNCHANGED <<findings, pos, touched, cache, cancelled, returned, osv,
                 input, lost>>

(* wg.Wait, at once when there is nothing to do.                           *)
Return ==
  /\ ~returned /\ \A f \in Findings : at[f] \in {"skipped", "done"}
  /\ returned' = TRUE
  /\ UNCHANGED <<work, cache, changed, cancelled, osv, input, lost>>

Cancel ==
  /\ ~cancelled /\ ~returned
  /\ cancelled' = TRUE
  /\ UNCHANGED <<work, cache, changed, returned, osv, input, lost>>

WorkerStep(f) ==
  \/ LookupCancelled(f) \/ LookupHit(f) \/ LookupMiss(f)
  \/ FetchEnds(f) \/ Count(f)

Next ==
  \/ \E f \in Findings : Spawn(f) \/ WorkerStep(f)
  \/ Return
  \/ Cancel

Spec == Init /\ [][Next]_vars

(* Some goroutine runs, and a fetch ends within the HTTP client's timeout. *)
FairSpec == Spec /\ WF_vars(Return \/ \E f \in Findings : Spawn(f) \/ WorkerStep(f))

-----------------------------------------------------------------------------
DataOK ==
  /\ findings \in [Findings -> Finding] /\ input \in [Findings -> Finding]
  /\ osv \in [Ids -> Record]
  /\ DOMAIN cache \subseteq Ids /\ \A id \in DOMAIN cache : cache[id] \in Record
WorkersOK ==
  /\ at \in [Findings -> {"skipped", "todo", "looking", "fetching",
                          "counting", "done"}]
  /\ pos \in [Findings -> Nat] /\ \A f \in Findings : pos[f] \in DOMAIN IdsOf[f]
  /\ touched \in [Findings -> BOOLEAN]
TypeOK ==
  /\ DataOK /\ WorkersOK
  /\ changed \in Nat
  /\ cancelled \in BOOLEAN /\ returned \in BOOLEAN /\ lost \in BOOLEAN

(* The findings as one worker, which never fails, would leave them.        *)
Fill(g, id) ==
  IF NeedsEnrichment(g) /\ osv[id].found THEN ApplyOSV(g, osv[id]) ELSE g
Enriched(f) == FoldLeft(Fill, input[f], IdsOf[f])

(* enrich.go:39-55: when every fetch answers and nothing is cancelled, the *)
(* pool leaves each finding as a sequential walk of its ids would, however *)
(* the workers interleave on the shared cache.                             *)
AsSequential ==
  returned /\ ~lost /\ ~cancelled =>
    \A f \in Findings : findings[f] = Enriched(f)

(* The number returned is the number of findings that differ from what the *)
(* scanner said, also when workers were cancelled half-way.                *)
ChangedIsCounted ==
  returned => changed = Cardinality({f \in Findings : findings[f] # input[f]})

(* Every gate that follows reads both: no finding ever has a score and no  *)
(* severity, between two records of one finding either.                    *)
ScoredIsRated ==
  \A f \in Findings : findings[f].score > 0 => findings[f].severity # "unknown"

(* enrich.go:123: a value the scanner provided, or an earlier record       *)
(* filled in, is never overridden.                                         *)
KeepsValues ==
  \A f \in Findings :
    /\ findings[f].score > 0 => findings'[f].score = findings[f].score
    /\ findings[f].vector > 0 => findings'[f].vector = findings[f].vector
    /\ findings[f].severity # "unknown"
         => findings'[f].severity = findings[f].severity
NeverOverridden == [][KeepsValues]_vars

(* The enrichment ends, whatever fails and whenever it is cancelled.       *)
EnrichmentReturns == <>returned
=============================================================================
