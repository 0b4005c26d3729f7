---------------------------- MODULE EnrichProofs ----------------------------
(***************************************************************************)
(* Proofs about the enrichment for any report, any ids the findings share  *)
(* and any size of the pool.                                               *)
(***************************************************************************)
EXTENDS Enrich, FiniteSetTheorems, TLAPS

(* applyOSV fills a finding and overrides nothing of it.                   *)
LEMMA ApplySound ==
  ASSUME NEW f \in Finding, NEW v \in Record
  PROVE  LET g == ApplyOSV(f, v)
         IN  /\ g \in Finding
             /\ f.score > 0 => g.score = f.score
             /\ f.vector > 0 => g.vector = f.vector
             /\ f.severity # "unknown" => g.severity = f.severity
             /\ g.score > 0 => g.severity # "unknown"
<1> DEFINE score == IF f.score = 0 THEN v.score ELSE f.score
           vector == IF f.vector = 0 THEN v.score ELSE f.vector
           severity == IF f.severity # "unknown" THEN f.severity
                       ELSE IF score > 0 THEN ScoreToSeverity(score)
                       ELSE v.severity
<1>1. ApplyOSV(f, v) = [score |-> score, vector |-> vector, severity |-> severity]
  BY DEF ApplyOSV
<1>2. f.score \in Scores /\ f.vector \in Scores /\ f.severity \in Severities
  BY DEF Finding
<1>3. v.score \in Scores /\ v.severity \in Severities
  BY DEF Record
<1>4. score \in Scores /\ vector \in Scores
  BY <1>2, <1>3
<1>5. \A n \in Scores : /\ ScoreToSeverity(n) \in Severities
                        /\ n > 0 => ScoreToSeverity(n) # "unknown"
  BY EnrichAssumption DEF Scores, ScoreToSeverity, Severities
<1>6. severity \in Severities
  BY <1>2, <1>3, <1>4, <1>5
<1>7. [score |-> score, vector |-> vector, severity |-> severity] \in Finding
  BY <1>4, <1>6 DEF Finding
<1>8. f.score > 0 => score = f.score
  BY <1>2, EnrichAssumption DEF Scores
<1>9. f.vector > 0 => vector = f.vector
  BY <1>2, EnrichAssumption DEF Scores
<1>10. score > 0 => severity # "unknown"
  BY <1>4, <1>5
<1> QED
  BY <1>1, <1>7, <1>8, <1>9, <1>10

LEMMA IdAtIsId ==
  ASSUME WorkersOK, NEW f \in Findings
  PROVE  IdAt(f) \in Ids /\ Len(IdsOf[f]) \in Nat /\ IdsOf[f] \in Seq(Ids)
<1>1. IdsOf[f] \in Seq(Ids)
  BY EnrichAssumption DEF Findings
<1>2. pos[f] \in DOMAIN IdsOf[f]
  BY DEF WorkersOK
<1> QED
  BY <1>1, <1>2 DEF IdAt

(* The rest of an iteration keeps the types, and the values of a finding.  *)
LEMMA UseSound ==
  ASSUME DataOK, WorkersOK, NEW f \in Findings, NEW v \in Record, Use(f, v)
  PROVE  /\ findings' \in [Findings -> Finding] /\ WorkersOK' /\ KeepsValues
         /\ ScoredIsRated => ScoredIsRated'
<1> DEFINE g == IF v.found THEN ApplyOSV(findings[f], v) ELSE findings[f]
           ends == IF v.found THEN Stops(f, g) ELSE pos[f] = Len(IdsOf[f])
<1>1. /\ findings' = [findings EXCEPT ![f] = g]
      /\ Touch(f, g # findings[f])
      /\ at' = [at EXCEPT ![f] = IF ends THEN "counting" ELSE "looking"]
      /\ pos' = [pos EXCEPT ![f] = IF ends THEN @ ELSE @ + 1]
  BY DEF Use
<1>2. findings[f] \in Finding
  BY DEF DataOK
<1>3. /\ g \in Finding
      /\ findings[f].score > 0 => g.score = findings[f].score
      /\ findings[f].vector > 0 => g.vector = findings[f].vector
      /\ findings[f].severity # "unknown" => g.severity = findings[f].severity
      /\ (findings[f].score > 0 => findings[f].severity # "unknown")
           => (g.score > 0 => g.severity # "unknown")
  BY <1>2, ApplySound
<1>4. findings' \in [Findings -> Finding]
  BY <1>1, <1>3 DEF DataOK
<1>5. KeepsValues
  BY <1>1, <1>3 DEF KeepsValues, DataOK
<1>6. ScoredIsRated => ScoredIsRated'
  BY <1>1, <1>3 DEF ScoredIsRated, DataOK
<1>7. WorkersOK'
  <2>1. at' \in [Findings -> {"skipped", "todo", "looking", "fetching",
                             "counting", "done"}]
    BY <1>1 DEF WorkersOK
  <2>2. touched' \in [Findings -> BOOLEAN]
    BY <1>1 DEF WorkersOK, Touch
  <2>3. pos[f] \in 1..Len(IdsOf[f]) /\ Len(IdsOf[f]) \in Nat
    BY IdAtIsId DEF WorkersOK
  <2>4. ~ends => pos[f] # Len(IdsOf[f])
    BY DEF Stops
  <2>5. (IF ends THEN pos[f] ELSE pos[f] + 1) \in 1..Len(IdsOf[f])
    <3> HIDE DEF ends
    <3> QED
      BY <2>3, <2>4
  <2>6. /\ pos' \in [Findings -> Nat]
        /\ \A h \in Findings : pos'[h] \in DOMAIN IdsOf[h]
    <3>1. pos' = [pos EXCEPT ![f] = IF ends THEN pos[f] ELSE pos[f] + 1]
      BY <1>1
    <3>2. DOMAIN IdsOf[f] = 1..Len(IdsOf[f])
      BY IdAtIsId
    <3> HIDE DEF ends
    <3> QED
      BY <2>3, <2>5, <3>1, <3>2 DEF WorkersOK
  <2> QED
    BY <2>1, <2>2, <2>6 DEF WorkersOK
<1> QED
  BY <1>4, <1>5, <1>6, <1>7

(* Where a worker is may change without its finding.                       *)
LEMMA MoveSound ==
  ASSUME WorkersOK, NEW f \in Findings, UNCHANGED <<pos, touched>>,
         NEW p \in {"looking", "fetching", "counting", "done"},
         at' = [at EXCEPT ![f] = p]
  PROVE  WorkersOK'
  BY DEF WorkersOK

(* Every step keeps the types and the values already there.                *)
LEMMA StepSound ==
  ASSUME TypeOK, [Next]_vars
  PROVE  TypeOK' /\ KeepsValues /\ (ScoredIsRated => ScoredIsRated')
<1> USE DEF TypeOK
<1>1. ASSUME UNCHANGED findings
      PROVE  KeepsValues /\ (ScoredIsRated => ScoredIsRated')
  BY <1>1 DEF KeepsValues, ScoredIsRated
<1>2. ASSUME UNCHANGED <<findings, input, osv, cache>>
      PROVE  DataOK'
  BY <1>2 DEF DataOK
<1>3. ASSUME UNCHANGED <<at, pos, touched>>
      PROVE  WorkersOK'
  BY <1>3 DEF WorkersOK
<1>4. ASSUME NEW f \in Findings, Spawn(f)
      PROVE  TypeOK' /\ UNCHANGED findings
  <2>1. UNCHANGED <<findings, input, osv, cache, pos, touched, changed,
                    cancelled, returned, lost>>
    BY <1>4 DEF Spawn
  <2>2. WorkersOK'
    BY <1>4, <2>1, MoveSound DEF Spawn
  <2> QED
    BY <1>2, <2>1, <2>2
<1>5. ASSUME NEW f \in Findings, LookupCancelled(f)
      PROVE  TypeOK' /\ UNCHANGED findings
  <2>1. UNCHANGED <<findings, input, osv, cache, pos, touched, changed,
                    cancelled, returned, lost>>
    BY <1>5 DEF LookupCancelled
  <2>2. WorkersOK'
    BY <1>5, <2>1, MoveSound DEF LookupCancelled
  <2> QED
    BY <1>2, <2>1, <2>2
<1>6. ASSUME NEW f \in Findings, LookupMiss(f)
      PROVE  TypeOK' /\ UNCHANGED findings
  <2>1. UNCHANGED <<findings, input, osv, cache, pos, touched, changed,
                    cancelled, returned, lost>>
    BY <1>6 DEF LookupMiss
  <2>2. WorkersOK'
    BY <1>6, <2>1, MoveSound DEF LookupMiss
  <2> QED
    BY <1>2, <2>1, <2>2
<1>7. ASSUME NEW f \in Findings, LookupHit(f)
      PROVE  TypeOK' /\ KeepsValues /\ (ScoredIsRated => ScoredIsRated')
  <2>1. cache[IdAt(f)] \in Record /\ Use(f, cache[IdAt(f)])
    BY <1>7 DEF LookupHit, DataOK
  <2>2. /\ findings' \in [Findings -> Finding] /\ WorkersOK' /\ KeepsValues
        /\ ScoredIsRated => ScoredIsRated'
    BY <2>1, UseSound
  <2>3. UNCHANGED <<input, osv, cache, changed, cancelled, returned, lost>>
    BY <1>7 DEF LookupHit
  <2>4. DataOK'
    BY <2>2, <2>3 DEF DataOK
  <2> QED
    BY <2>2, <2>3, <2>4
<1>8. ASSUME NEW f \in Findings, FetchEnds(f)
      PROVE  TypeOK' /\ KeepsValues /\ (ScoredIsRated => ScoredIsRated')
  <2>1. PICK v \in {osv[IdAt(f)], NoRecord} :
          /\ cache' = [id \in DOMAIN cache \cup {IdAt(f)} |->
                         IF id = IdAt(f) THEN v ELSE cache[id]]
          /\ Use(f, v)
          /\ lost' = (lost \/ v # osv[IdAt(f)])
    BY <1>8 DEF FetchEnds
  <2>2. IdAt(f) \in Ids
    BY IdAtIsId
  <2>3. NoRecord \in Record
    BY EnrichAssumption DEF NoRecord, Record, Scores, Severities
  <2>4. v \in Record
    BY <2>2, <2>3 DEF DataOK
  <2>5. /\ findings' \in [Findings -> Finding] /\ WorkersOK' /\ KeepsValues
        /\ ScoredIsRated => ScoredIsRated'
    BY <2>1, <2>4, UseSound
  <2>6. UNCHANGED <<input, osv, changed, cancelled, returned>>
    BY <1>8 DEF FetchEnds
  <2>7. DOMAIN cache' \subseteq Ids /\ \A id \in DOMAIN cache' : cache'[id] \in Record
    BY <2>1, <2>2, <2>4 DEF DataOK
  <2>8. DataOK'
    BY <2>5, <2>6, <2>7 DEF DataOK
  <2>9. lost' \in BOOLEAN
    BY <2>1
  <2> QED
    BY <2>5, <2>6, <2>8, <2>9
<1>9. ASSUME NEW f \in Findings, Count(f)
      PROVE  TypeOK' /\ UNCHANGED findings
  <2>1. UNCHANGED <<findings, input, osv, cache, pos, touched, cancelled,
                    returned, lost>>
    BY <1>9 DEF Count
  <2>2. WorkersOK'
    BY <1>9, <2>1, MoveSound DEF Count, Release
  <2>3. changed' = changed \/ changed' = changed + 1
    BY <1>9 DEF Count
  <2>4. changed' \in Nat
    BY <2>3
  <2> QED
    BY <1>2, <2>1, <2>2, <2>4
<1>10. CASE Return
  BY <1>1, <1>2, <1>3, <1>10 DEF Return, work
<1>11. CASE Cancel
  BY <1>1, <1>2, <1>3, <1>11 DEF Cancel, work
<1>12. CASE UNCHANGED vars
  BY <1>1, <1>2, <1>3, <1>12 DEF vars, work
<1> QED
  BY <1>1, <1>4, <1>5, <1>6, <1>7, <1>8, <1>9, <1>10, <1>11, <1>12
  DEF Next, WorkerStep

LEMMA InitSound == Init => TypeOK /\ ScoredIsRated
<1> SUFFICES ASSUME Init PROVE TypeOK /\ ScoredIsRated
  OBVIOUS
<1>1. findings \in [Findings -> Finding] /\ input = findings
  BY EnrichAssumption DEF Init, Scanned
<1>2. ScoredIsRated
  BY EnrichAssumption DEF Init, ScoredIsRated, Scanned
<1>3. DataOK
  BY <1>1 DEF Init, DataOK
<1>4. WorkersOK
  <2>1. pos = [f \in Findings |-> 1]
    BY DEF Init
  <2>2. \A f \in Findings : 1 \in DOMAIN IdsOf[f]
    BY EnrichAssumption DEF Findings
  <2> QED
    BY <2>1, <2>2 DEF Init, WorkersOK
<1> QED
  BY <1>2, <1>3, <1>4 DEF Init, TypeOK

(* Every variable of the enrichment keeps its type.                        *)
THEOREM TypeCorrect == Spec => []TypeOK
<1>1. TypeOK /\ [Next]_vars => TypeOK'
  BY StepSound
<1> QED
  BY <1>1, InitSound, PTL DEF Spec

(* No finding with a score is ever unrated, at any step of any worker.     *)
THEOREM ScoreIsRated == Spec => []ScoredIsRated
<1>1. TypeOK /\ ScoredIsRated /\ [Next]_vars => ScoredIsRated'
  BY StepSound
<1> QED
  BY <1>1, InitSound, TypeCorrect, PTL DEF Spec

(* No value of a finding is overridden, whatever record comes when.        *)
THEOREM ValuesKept == Spec => NeverOverridden
<1>1. TypeOK /\ [Next]_vars => [KeepsValues]_vars
  BY StepSound
<1> QED
  BY <1>1, TypeCorrect, PTL DEF Spec, NeverOverridden

-----------------------------------------------------------------------------
(* b has what a has, and perhaps more.                                     *)
Extends(a, b) ==
  /\ a.score > 0 => b.score = a.score
  /\ a.vector > 0 => b.vector = a.vector
  /\ a.severity # "unknown" => b.severity = a.severity

(* What was filled in once is not taken back: a finding that differs from  *)
(* what it was differs from it for good.                                   *)
LEMMA DifferenceStays ==
  ASSUME NEW a \in Finding, NEW b \in Finding, NEW c \in Finding,
         Extends(a, b), Extends(b, c)
  PROVE  Extends(a, c) /\ (b # a => c # a)
<1>1. /\ a.score \in Nat /\ b.score \in Nat /\ c.score \in Nat
      /\ a.vector \in Nat /\ b.vector \in Nat /\ c.vector \in Nat
  BY EnrichAssumption DEF Finding, Scores
<1>2. b # a => \/ b.score # a.score \/ b.vector # a.vector
              \/ b.severity # a.severity
  BY DEF Finding
<1> QED
  BY <1>1, <1>2 DEF Extends

(* A worker has touched its finding when it differs from what the scanner  *)
(* said; the count is of the touched findings whose workers are done.      *)
Done == {f \in Findings : at[f] = "done" /\ touched[f]}

CountInv ==
  /\ \A f \in Findings :
       /\ Extends(input[f], findings[f])
       /\ touched[f] <=> findings[f] # input[f]
       /\ at[f] \in {"skipped", "todo"} => ~touched[f]
  /\ changed = Cardinality(Done)
  /\ returned => \A f \in Findings : at[f] \in {"skipped", "done"}

LEMMA DoneFrame ==
  ASSUME UNCHANGED <<at, touched>>
  PROVE  Done' = Done
  BY DEF Done

(* A step that fills one finding, whose worker is not done.                *)
LEMMA UseCounts ==
  ASSUME TypeOK, TypeOK', CountInv, KeepsValues, NEW f \in Findings, NEW v,
         Use(f, v), at[f] \in {"looking", "fetching"},
         UNCHANGED <<changed, returned, input>>
  PROVE  CountInv'
<1> DEFINE g == IF v.found THEN ApplyOSV(findings[f], v) ELSE findings[f]
<1>1. /\ findings' = [findings EXCEPT ![f] = g]
      /\ touched' = [touched EXCEPT ![f] = @ \/ g # findings[f]]
      /\ at'[f] \in {"counting", "looking"}
      /\ \A h \in Findings \ {f} : at'[h] = at[h]
  BY DEF Use, Touch, TypeOK, WorkersOK
<1> HIDE DEF g
<1>2. /\ findings'[f] = g /\ (touched'[f] <=> (touched[f] \/ g # findings[f]))
      /\ \A h \in Findings \ {f} : findings'[h] = findings[h] /\ touched'[h] = touched[h]
  BY <1>1 DEF TypeOK, DataOK, WorkersOK
<1>3. \A h \in Findings : /\ input[h] \in Finding /\ findings[h] \in Finding
                          /\ findings'[h] \in Finding
  BY DEF TypeOK, DataOK
<1>4. Extends(findings[f], findings'[f])
  BY DEF KeepsValues, Extends
<1>5. /\ Extends(input[f], findings'[f])
      /\ findings[f] # input[f] => findings'[f] # input[f]
  BY <1>3, <1>4, DifferenceStays DEF CountInv
<1>6. touched'[f] <=> findings'[f] # input[f]
  BY <1>2, <1>5 DEF CountInv
<1>7. Done' = Done
  BY <1>1, <1>2 DEF Done
<1>8. ~returned
  BY DEF CountInv
<1> QED
  BY <1>1, <1>2, <1>5, <1>6, <1>7, <1>8 DEF CountInv

(* A worker that moves on without being done, its finding as it is.        *)
LEMMA MoveCounts ==
  ASSUME TypeOK, CountInv, NEW f \in Findings,
         NEW p \in {"looking", "fetching", "counting"},
         at[f] \in {"todo", "looking", "fetching"}, at' = [at EXCEPT ![f] = p],
         UNCHANGED <<findings, touched, changed, returned, input>>
  PROVE  CountInv'
<1>1. at'[f] = p /\ \A h \in Findings \ {f} : at'[h] = at[h]
  BY DEF TypeOK, WorkersOK
<1>2. Done' = Done
  BY <1>1 DEF Done
<1>3. ~returned
  BY DEF CountInv
<1> QED
  BY <1>1, <1>2, <1>3 DEF CountInv

LEMMA FindingsFinite == IsFiniteSet(Findings)
<1>1. Findings = 1..Len(IdsOf) /\ Len(IdsOf) \in Nat
  BY EnrichAssumption DEF Findings
<1> QED
  BY <1>1, FS_Interval

LEMMA CountStep == TypeOK /\ CountInv /\ [Next]_vars => CountInv'
<1> SUFFICES ASSUME TypeOK, CountInv, [Next]_vars PROVE CountInv'
  OBVIOUS
<1>0. TypeOK' /\ KeepsValues
  BY StepSound
<1>1. ASSUME NEW f \in Findings, Spawn(f) PROVE CountInv'
  BY <1>1, MoveCounts DEF Spawn
<1>2. ASSUME NEW f \in Findings, LookupCancelled(f) PROVE CountInv'
  BY <1>2, MoveCounts DEF LookupCancelled
<1>3. ASSUME NEW f \in Findings, LookupHit(f) PROVE CountInv'
  BY <1>0, <1>3, UseCounts DEF LookupHit
<1>4. ASSUME NEW f \in Findings, LookupMiss(f) PROVE CountInv'
  BY <1>4, MoveCounts DEF LookupMiss
<1>5. ASSUME NEW f \in Findings, FetchEnds(f) PROVE CountInv'
  BY <1>0, <1>5, UseCounts DEF FetchEnds
<1>6. ASSUME NEW f \in Findings, Count(f) PROVE CountInv'
  <2>1. /\ at[f] = "counting" /\ at' = [at EXCEPT ![f] = "done"]
        /\ changed' = IF touched[f] THEN changed + 1 ELSE changed
        /\ UNCHANGED <<findings, touched, returned, input>>
    BY <1>6 DEF Count, Release
  <2>2. at'[f] = "done" /\ \A h \in Findings \ {f} : at'[h] = at[h]
    BY <2>1 DEF TypeOK, WorkersOK
  <2>3. IsFiniteSet(Done) /\ f \notin Done
    BY <2>1, FindingsFinite, FS_Subset DEF Done
  <2>4. Done' = IF touched[f] THEN Done \cup {f} ELSE Done
    BY <2>1, <2>2 DEF Done
  <2>5. changed = Cardinality(Done) /\ Cardinality(Done \cup {f}) = Cardinality(Done) + 1
    BY <2>3, FS_AddElement DEF CountInv
  <2>6. changed' = Cardinality(Done')
    BY <2>1, <2>4, <2>5
  <2>7. ~returned
    BY <2>1 DEF CountInv
  <2> QED
    BY <2>1, <2>2, <2>6, <2>7 DEF CountInv
<1>7. CASE Return \/ Cancel \/ UNCHANGED vars
  <2>1. /\ UNCHANGED <<findings, touched, at, changed, input>>
        /\ returned' = returned \/ \A f \in Findings : at[f] \in {"skipped", "done"}
    BY <1>7 DEF Return, Cancel, vars, work
  <2>2. changed' = Cardinality(Done')
    BY <2>1, DoneFrame DEF CountInv
  <2> QED
    BY <2>1, <2>2 DEF CountInv
<1> QED
  BY <1>1, <1>2, <1>3, <1>4, <1>5, <1>6, <1>7 DEF Next, WorkerStep

LEMMA CountStarts == Init => CountInv
<1> SUFFICES ASSUME Init PROVE CountInv
  OBVIOUS
<1>1. Done = {}
  BY DEF Init, Done
<1>2. changed = Cardinality({})
  BY FS_EmptySet DEF Init
<1> QED
  BY <1>1, <1>2 DEF Init, CountInv, Extends

(* The number EnrichFindings returns is that of the findings it changed,   *)
(* for any number of workers, ids and findings, cancelled or not.          *)
THEOREM ChangesAreCounted == Spec => []ChangedIsCounted
<1>1. TypeOK /\ CountInv => ChangedIsCounted
  <2> SUFFICES ASSUME TypeOK, CountInv, returned
               PROVE  changed = Cardinality({f \in Findings : findings[f] # input[f]})
    BY DEF ChangedIsCounted
  <2>1. {f \in Findings : findings[f] # input[f]} = Done
    BY DEF CountInv, Done
  <2> QED
    BY <2>1 DEF CountInv
<1> QED
  BY <1>1, CountStarts, CountStep, TypeCorrect, PTL DEF Spec

-----------------------------------------------------------------------------
(* What module Select takes an enriched finding to be: what was there      *)
(* stays, a new vector comes with a score, and what has a score is rated.  *)
FilledIn(g, f) ==
  /\ f.score > 0 => g.score = f.score
  /\ f.vector > 0 => g.vector = f.vector
  /\ f.severity # "unknown" => g.severity = f.severity
  /\ g.vector # f.vector => g.score > 0
  /\ g.score > 0 => g.severity # "unknown"

AllFilledIn == \A f \in Findings : FilledIn(findings[f], input[f])

(* A record more leaves it so.                                             *)
LEMMA ApplyFillsIn ==
  ASSUME NEW f \in Finding, NEW g \in Finding, FilledIn(g, f), NEW v \in Record
  PROVE  FilledIn(ApplyOSV(g, v), f)
<1> DEFINE h == ApplyOSV(g, v)
<1>1. /\ g.score > 0 => h.score = g.score
      /\ g.vector > 0 => h.vector = g.vector
      /\ g.severity # "unknown" => h.severity = g.severity
      /\ h.score > 0 => h.severity # "unknown"
  BY ApplySound
<1>2. h.vector # g.vector => h.score > 0
  <2>1. /\ h.vector = IF g.vector = 0 THEN v.score ELSE g.vector
        /\ h.score = IF g.score = 0 THEN v.score ELSE g.score
    BY DEF ApplyOSV
  <2>2. {g.score, g.vector, v.score} \subseteq Nat
    BY EnrichAssumption DEF Finding, Record, Scores
  <2> QED
    BY <2>1, <2>2
<1> QED
  BY <1>1, <1>2 DEF FilledIn

LEMMA FillsStep ==
  ASSUME TypeOK, AllFilledIn, [Next]_vars
  PROVE  AllFilledIn'
<1>1. ASSUME NEW f \in Findings, NEW v \in Record, Use(f, v), UNCHANGED input
      PROVE  AllFilledIn'
  <2> DEFINE g == IF v.found THEN ApplyOSV(findings[f], v) ELSE findings[f]
  <2>1. findings' = [findings EXCEPT ![f] = g] /\ input' = input
    BY <1>1 DEF Use
  <2>2. findings \in [Findings -> Finding] /\ input[f] \in Finding
    BY DEF TypeOK, DataOK
  <2>3. FilledIn(g, input[f])
    BY <2>2, ApplyFillsIn DEF AllFilledIn
  <2> HIDE DEF g
  <2> QED
    BY <2>1, <2>2, <2>3 DEF AllFilledIn
<1>2. ASSUME NEW f \in Findings, LookupHit(f)
      PROVE  AllFilledIn'
  BY <1>1, <1>2 DEF LookupHit, TypeOK, DataOK
<1>3. ASSUME NEW f \in Findings, FetchEnds(f)
      PROVE  AllFilledIn'
  <2>1. osv[IdAt(f)] \in Record /\ NoRecord \in Record
    BY IdAtIsId, EnrichAssumption
    DEF TypeOK, DataOK, NoRecord, Record, Scores, Severities
  <2> QED
    BY <1>1, <1>3, <2>1 DEF FetchEnds
<1>4. CASE UNCHANGED <<findings, input>>
  BY <1>4 DEF AllFilledIn
<1>5. CASE \E f \in Findings : Spawn(f) \/ LookupCancelled(f) \/ LookupMiss(f) \/ Count(f)
  BY <1>4, <1>5 DEF Spawn, LookupCancelled, LookupMiss, Count
<1> QED
  BY <1>2, <1>3, <1>4, <1>5 DEF Next, WorkerStep, Return, Cancel, vars, work

(* main.go:220: the filters behind the enrichment get what Select lets it  *)
(* make of a report, at every point of the pool's work, cancelled or not.  *)
THEOREM FitsSelection == Spec => []AllFilledIn
<1>1. Init => AllFilledIn
  BY EnrichAssumption DEF Init, AllFilledIn, FilledIn, Scanned, Finding
<1> QED
  BY <1>1, FillsStep, TypeCorrect, PTL DEF Spec

-----------------------------------------------------------------------------
Fills == INSTANCE ListFacts WITH Op <- Fill

(* w is what the walk of f makes of it, id by id.                          *)
WalkOf(f, w) ==
  /\ w[0] = input[f]
  /\ \A k \in 1..Len(IdsOf[f]) : w[k] = Fill(w[k - 1], IdsOf[f][k])

LEMMA IdsAreList ==
  ASSUME NEW f \in Findings
  PROVE  IdsOf[f] \in Seq(Ids) /\ Len(IdsOf[f]) \in Nat \ {0}
  BY EnrichAssumption DEF Findings

(* Enriched is where the walk of all the ids ends.                         *)
LEMMA EnrichedIsWalk ==
  ASSUME NEW f \in Findings
  PROVE  \E w : WalkOf(f, w) /\ w[Len(IdsOf[f])] = Enriched(f)
<1>1. PICK w : /\ Fills!Walk(w, input[f], IdsOf[f])
               /\ w[Len(IdsOf[f])] = Fills!FoldLeft(Fill, input[f], IdsOf[f])
  BY IdsAreList, Fills!FoldWalk
<1>2. Fills!FoldLeft(Fill, input[f], IdsOf[f]) = Enriched(f)
  BY DEF Enriched, FoldLeft, MapThenFoldSet, Max, Fills!FoldLeft,
         Fills!MapThenFoldSet, Fills!Max
<1> QED
  BY <1>1, <1>2 DEF Fills!Walk, WalkOf

LEMMA WalksAgree ==
  ASSUME NEW f \in Findings, NEW w, WalkOf(f, w), NEW v, WalkOf(f, v)
  PROVE  \A k \in 0..Len(IdsOf[f]) : w[k] = v[k]
<1>1. Fills!Walk(w, input[f], IdsOf[f]) /\ Fills!Walk(v, input[f], IdsOf[f])
  BY DEF Fills!Walk, WalkOf
<1>2. PICK s : s = IdsOf[f]
  OBVIOUS
<1>3. s \in Seq(Ids) /\ Fills!Walk(w, input[f], s) /\ Fills!Walk(v, input[f], s)
  BY <1>1, <1>2, IdsAreList
<1>4. \A k \in 0..Len(s) : w[k] = v[k]
  BY <1>3, Fills!WalkIsUnique
<1> QED
  BY <1>2, <1>4

(* A walk changes nothing any more once nothing is missing, which is where *)
(* the id loop of a worker stops.                                          *)
LEMMA WalkSettles ==
  ASSUME NEW f \in Findings, NEW w, WalkOf(f, w),
         NEW k \in 0..Len(IdsOf[f]), ~NeedsEnrichment(w[k])
  PROVE  w[Len(IdsOf[f])] = w[k]
<1> DEFINE n == Len(IdsOf[f])
           T == {d \in Nat : k + d <= n => w[k + d] = w[k]}
<1>1. n \in Nat
  BY IdsAreList
<1>2. 0 \in T
  BY <1>1
<1>3. ASSUME NEW d \in Nat, d \in T PROVE d + 1 \in T
  <2> SUFFICES ASSUME k + (d + 1) <= n PROVE w[k + (d + 1)] = w[k]
    OBVIOUS
  <2>1. k + (d + 1) \in 1..n /\ (k + (d + 1)) - 1 = k + d /\ k + d <= n
    BY <1>1
  <2>2. w[k + d] = w[k]
    BY <1>3, <2>1
  <2>3. w[k + (d + 1)] = Fill(w[k + d], IdsOf[f][k + (d + 1)])
    BY <2>1 DEF WalkOf
  <2> QED
    BY <2>2, <2>3 DEF Fill
<1> HIDE DEF T
<1>4. Nat \subseteq T
  BY <1>2, <1>3, Fills!SetInduction
<1>5. n - k \in T
  BY <1>1, <1>4
<1> QED
  BY <1>1, <1>5 DEF T

(* As long as no fetch failed and nothing was cancelled: the cache holds   *)
(* what the database does, and every finding is as far as the walk is.     *)
AsFarAs(f, w) ==
  /\ at[f] = "todo" => pos[f] = 1
  /\ at[f] \in {"todo", "looking", "fetching"} =>
       findings[f] = w[pos[f] - 1] /\ NeedsEnrichment(findings[f])
  /\ at[f] \in {"skipped", "counting", "done"} =>
       findings[f] = w[Len(IdsOf[f])]

WalkInv ==
  ~lost /\ ~cancelled =>
    /\ \A id \in DOMAIN cache : cache[id] = osv[id]
    /\ \A f \in Findings : \E w : WalkOf(f, w) /\ AsFarAs(f, w)

LEMMA WalkFrame ==
  ASSUME UNCHANGED <<osv, input>>, NEW f, NEW w, WalkOf(f, w)
  PROVE  WalkOf(f, w)'
  BY DEF WalkOf, Fill

(* The rest of an iteration is a step of the walk.                         *)
LEMMA UseWalks ==
  ASSUME TypeOK, NEW f \in Findings, NEW v, v = osv[IdAt(f)], Use(f, v),
         NEW w, WalkOf(f, w), AsFarAs(f, w), at[f] \in {"looking", "fetching"}
  PROVE  AsFarAs(f, w)'
<1> DEFINE g == IF v.found THEN ApplyOSV(findings[f], v) ELSE findings[f]
           ends == IF v.found THEN Stops(f, g) ELSE pos[f] = Len(IdsOf[f])
           n == Len(IdsOf[f])
<1>1. /\ findings'[f] = g
      /\ at'[f] = IF ends THEN "counting" ELSE "looking"
      /\ pos'[f] = IF ends THEN pos[f] ELSE pos[f] + 1
  BY DEF Use, TypeOK, DataOK, WorkersOK
<1>2. pos[f] \in 1..n /\ n \in Nat
  BY IdsAreList DEF TypeOK, WorkersOK
<1>3. findings[f] = w[pos[f] - 1] /\ NeedsEnrichment(findings[f])
  BY DEF AsFarAs
<1>4. w[pos[f]] = g
  BY <1>2, <1>3 DEF WalkOf, Fill, IdAt
<1>5. CASE ends
  <2>1. ~NeedsEnrichment(g) \/ pos[f] = n
    BY <1>5 DEF Stops
  <2>2. g = w[n]
    BY <1>2, <1>4, <2>1, WalkSettles
  <2> QED
    BY <1>1, <1>5, <2>2 DEF AsFarAs
<1>6. CASE ~ends
  <2>1. NeedsEnrichment(g)
    BY <1>3, <1>6 DEF Stops
  <2>2. at'[f] = "looking" /\ pos'[f] = pos[f] + 1 /\ pos'[f] - 1 = pos[f]
    BY <1>1, <1>2, <1>6
  <2>3. findings'[f] = w[pos'[f] - 1]
    BY <1>1, <1>4, <2>2
  <2>4. NeedsEnrichment(findings[f])'
    BY <1>1, <2>1 DEF NeedsEnrichment
  <2> QED
    BY <2>2, <2>3, <2>4 DEF AsFarAs
<1> QED
  BY <1>5, <1>6

(* What is not touched is as far as it was.                                *)
LEMMA StaysAsFar ==
  ASSUME NEW f \in Findings, NEW w, AsFarAs(f, w),
         at'[f] = at[f], pos'[f] = pos[f], findings'[f] = findings[f]
  PROVE  AsFarAs(f, w)'
  BY DEF AsFarAs, NeedsEnrichment

LEMMA OthersStayAsFar ==
  ASSUME TypeOK, NEW f \in Findings, NEW v, Use(f, v),
         NEW h \in Findings \ {f}, NEW w, AsFarAs(h, w)
  PROVE  AsFarAs(h, w)'
<1>1. at'[h] = at[h] /\ pos'[h] = pos[h] /\ findings'[h] = findings[h]
  BY DEF Use, TypeOK, DataOK, WorkersOK
<1> QED
  BY <1>1, StaysAsFar

LEMMA WalkStep == TypeOK /\ WalkInv /\ [Next]_vars => WalkInv'
<1> SUFFICES ASSUME TypeOK, WalkInv, [Next]_vars, ~lost', ~cancelled'
             PROVE  WalkInv'
  BY DEF WalkInv
<1>1. ~lost /\ ~cancelled /\ UNCHANGED <<osv, input>>
  <2>1. UNCHANGED <<osv, input>>
    BY DEF Next, WorkerStep, Spawn, LookupCancelled, LookupHit, LookupMiss,
           FetchEnds, Count, Return, Cancel, vars
  <2>2. UNCHANGED cancelled
    BY DEF Next, WorkerStep, Spawn, LookupCancelled, LookupHit, LookupMiss,
           FetchEnds, Count, Return, Cancel, vars
  <2>3. ASSUME NEW f \in Findings, FetchEnds(f) PROVE lost => lost'
    BY <2>3 DEF FetchEnds
  <2>4. lost' = lost \/ \E f \in Findings : FetchEnds(f)
    BY DEF Next, WorkerStep, Spawn, LookupCancelled, LookupHit, LookupMiss,
           Count, Return, Cancel, vars
  <2> QED
    BY <2>1, <2>2, <2>3, <2>4
<1>2. /\ \A id \in DOMAIN cache : cache[id] = osv[id]
      /\ \A f \in Findings : \E w : WalkOf(f, w) /\ AsFarAs(f, w)
  BY <1>1 DEF WalkInv
<1>3. ASSUME \A f \in Findings : \A w :
               WalkOf(f, w) /\ AsFarAs(f, w) => AsFarAs(f, w)'
      PROVE  \A f \in Findings : \E w : WalkOf(f, w)' /\ AsFarAs(f, w)'
  <2> TAKE f \in Findings
  <2>1. PICK w : WalkOf(f, w) /\ AsFarAs(f, w)
    BY <1>2
  <2>2. WalkOf(f, w)' /\ AsFarAs(f, w)'
    BY <1>1, <1>3, <2>1, WalkFrame
  <2> QED
    BY <2>2
<1>4. ASSUME NEW f \in Findings, NEW p, at' = [at EXCEPT ![f] = p],
             UNCHANGED <<findings, pos, cache>>,
             \/ at[f] = "todo" /\ p = "looking"
             \/ at[f] = "looking" /\ p = "fetching"
             \/ at[f] = "counting" /\ p = "done"
      PROVE  WalkInv'
  <2>1. ASSUME NEW h \in Findings, NEW w, AsFarAs(h, w)
        PROVE  AsFarAs(h, w)'
    <3>1. CASE h = f
      <4>1. at'[f] = p
        BY <1>4 DEF TypeOK, WorkersOK
      <4>2. NeedsEnrichment(findings[f])' <=> NeedsEnrichment(findings[f])
        BY <1>4 DEF NeedsEnrichment
      <4> QED
        BY <1>4, <2>1, <3>1, <4>1, <4>2 DEF AsFarAs
    <3>2. CASE h # f
      <4>1. at'[h] = at[h]
        BY <1>4, <3>2 DEF TypeOK, WorkersOK
      <4> QED
        BY <1>4, <2>1, <4>1, StaysAsFar
    <3> QED
      BY <3>1, <3>2
  <2>2. \A id \in DOMAIN cache' : cache'[id] = osv'[id]
    BY <1>1, <1>2, <1>4
  <2> QED
    BY <1>3, <2>1, <2>2 DEF WalkInv
<1>5. ASSUME NEW f \in Findings, Use(f, osv[IdAt(f)]),
             at[f] \in {"looking", "fetching"}
      PROVE  \A h \in Findings : \E w : WalkOf(h, w)' /\ AsFarAs(h, w)'
  <2>1. ASSUME NEW h \in Findings, NEW w, WalkOf(h, w), AsFarAs(h, w)
        PROVE  AsFarAs(h, w)'
    <3>1. CASE h = f
      BY <1>5, <2>1, <3>1, UseWalks
    <3>2. CASE h # f
      BY <1>5, <2>1, <3>2, OthersStayAsFar
    <3> QED
      BY <3>1, <3>2
  <2> QED
    BY <1>3, <2>1
<1>6. ASSUME NEW f \in Findings, Spawn(f) PROVE WalkInv'
  BY <1>4, <1>6 DEF Spawn
<1>7. ASSUME NEW f \in Findings, LookupCancelled(f) PROVE WalkInv'
  BY <1>1, <1>7 DEF LookupCancelled
<1>8. ASSUME NEW f \in Findings, LookupMiss(f) PROVE WalkInv'
  BY <1>4, <1>8 DEF LookupMiss
<1>9. ASSUME NEW f \in Findings, LookupHit(f) PROVE WalkInv'
  <2>1. /\ at[f] = "looking" /\ UNCHANGED cache
        /\ Use(f, osv[IdAt(f)])
    BY <1>2, <1>9 DEF LookupHit
  <2>2. \A id \in DOMAIN cache' : cache'[id] = osv'[id]
    BY <1>1, <1>2, <2>1
  <2> QED
    BY <1>5, <2>1, <2>2 DEF WalkInv
<1>10. ASSUME NEW f \in Findings, FetchEnds(f) PROVE WalkInv'
  <2>1. PICK v \in {osv[IdAt(f)], NoRecord} :
          /\ cache' = [id \in DOMAIN cache \cup {IdAt(f)} |->
                         IF id = IdAt(f) THEN v ELSE cache[id]]
          /\ Use(f, v)
          /\ lost' = (lost \/ v # osv[IdAt(f)])
    BY <1>10 DEF FetchEnds
  <2>2. v = osv[IdAt(f)] /\ at[f] = "fetching"
    BY <1>10, <2>1 DEF FetchEnds
  <2>3. \A id \in DOMAIN cache' : cache'[id] = osv'[id]
    BY <1>1, <1>2, <2>1, <2>2
  <2> QED
    BY <1>5, <2>1, <2>2, <2>3 DEF WalkInv
<1>11. ASSUME NEW f \in Findings, Count(f) PROVE WalkInv'
  BY <1>4, <1>11 DEF Count, Release
<1>12. CASE Return \/ Cancel \/ UNCHANGED vars
  <2>1. UNCHANGED <<findings, at, pos, cache>>
    BY <1>12 DEF Return, Cancel, vars, work
  <2>2. \A id \in DOMAIN cache' : cache'[id] = osv'[id]
    BY <1>1, <1>2, <2>1
  <2>3. ASSUME NEW f \in Findings, NEW w, AsFarAs(f, w) PROVE AsFarAs(f, w)'
    BY <2>1, <2>3, StaysAsFar
  <2> QED
    BY <1>3, <2>2, <2>3 DEF WalkInv
<1> QED
  BY <1>6, <1>7, <1>8, <1>9, <1>10, <1>11, <1>12 DEF Next, WorkerStep

LEMMA WalkStarts == Init => WalkInv
<1> SUFFICES ASSUME Init PROVE WalkInv
  OBVIOUS
<1>1. \A id \in DOMAIN cache : cache[id] = osv[id]
  BY DEF Init
<1>2. ASSUME NEW f \in Findings PROVE \E w : WalkOf(f, w) /\ AsFarAs(f, w)
  <2>1. PICK w : WalkOf(f, w)
    BY EnrichedIsWalk
  <2>2. w[0] = input[f] /\ findings[f] = input[f] /\ pos[f] = 1
    BY <2>1 DEF Init, WalkOf
  <2>3. CASE NeedsEnrichment(findings[f])
    <3>1. at[f] = "todo" /\ pos[f] - 1 = 0
      BY <2>2, <2>3 DEF Init
    <3>2. findings[f] = w[pos[f] - 1]
      BY <2>2, <3>1
    <3> QED
      BY <2>1, <2>2, <2>3, <3>1, <3>2 DEF AsFarAs
  <2>4. CASE ~NeedsEnrichment(findings[f])
    <3>1. at[f] = "skipped"
      BY <2>4 DEF Init
    <3>2. w[Len(IdsOf[f])] = w[0]
      <4>1. 0 \in 0..Len(IdsOf[f]) /\ ~NeedsEnrichment(w[0])
        BY <2>2, <2>4, IdsAreList
      <4> QED
        BY <2>1, <4>1, WalkSettles
    <3>3. findings[f] = w[Len(IdsOf[f])]
      BY <2>2, <3>2
    <3> QED
      BY <2>1, <3>1, <3>3 DEF AsFarAs
  <2> QED
    BY <2>1, <2>3, <2>4
<1> QED
  BY <1>1, <1>2 DEF WalkInv

(* enrich.go:39-55: when no fetch fails and nothing is cancelled, any      *)
(* number of workers sharing the cache leave every finding as one worker   *)
(* that walks its ids would.                                               *)
THEOREM PoolIsSequential == Spec => []AsSequential
<1>1. CountInv /\ WalkInv => AsSequential
  <2> SUFFICES ASSUME CountInv, WalkInv, returned, ~lost, ~cancelled,
                      NEW f \in Findings
               PROVE  findings[f] = Enriched(f)
    BY DEF AsSequential
  <2>1. PICK w : WalkOf(f, w) /\ AsFarAs(f, w)
    BY DEF WalkInv
  <2>2. PICK v : WalkOf(f, v) /\ v[Len(IdsOf[f])] = Enriched(f)
    BY EnrichedIsWalk
  <2>3. w[Len(IdsOf[f])] = v[Len(IdsOf[f])]
    BY <2>1, <2>2, WalksAgree, IdsAreList
  <2>4. at[f] \in {"skipped", "done"}
    BY DEF CountInv
  <2> QED
    BY <2>1, <2>2, <2>3, <2>4 DEF AsFarAs
<1> QED
  BY <1>1, CountStarts, CountStep, WalkStarts, WalkStep, TypeCorrect, PTL
     DEF Spec
=============================================================================
