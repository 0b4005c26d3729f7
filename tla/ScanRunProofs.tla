--------------------------- MODULE ScanRunProofs ----------------------------
(***************************************************************************)
(* Proofs about a scan run for any number of findings and every choice of  *)
(* flags.                                                                  *)
(***************************************************************************)
EXTENDS ScanRun, FiniteSetTheorems, TLAPS

(* How the run builds a result: from its fields, or by changing one of     *)
(* them as the analysis, the review and the rendering do.                  *)
LEMMA ResultOfFields ==
  ASSUME NEW a \in Texts, NEW s \in Answers \cup {"none"}, NEW e \in BOOLEAN,
         NEW p \in BOOLEAN, NEW f \in Texts, NEW b \in Bases
  PROVE  [raw |-> a, shown |-> s, err |-> e, report |-> p, first |-> f,
          basis |-> b] \in Result
  BY DEF Result

LEMMA ResultChanged ==
  ASSUME NEW r \in Result, NEW a \in Texts, NEW s \in Answers \cup {"none"},
         NEW b \in Bases, NEW p \in BOOLEAN
  PROVE  /\ [r EXCEPT !.raw = a, !.shown = s, !.first = a] \in Result
         /\ [r EXCEPT !.raw = a, !.shown = s, !.basis = b] \in Result
         /\ [r EXCEPT !.basis = b] \in Result
         /\ [r EXCEPT !.report = p] \in Result
         /\ [r EXCEPT !.err = TRUE] \in Result
  BY DEF Result

LEMMA FreshIsResult ==
  /\ Fresh \in Result /\ Fresh.raw = "blank" /\ Fresh.err = FALSE
  /\ Failed \in Result /\ Failed.raw = "blank" /\ Failed.err = TRUE
<1>1. "blank" \in Texts /\ "none" \in Bases /\ "none" \in Answers \cup {"none"}
  BY DEF Texts, Bases
<1>2. FALSE \in BOOLEAN
  OBVIOUS
<1>3. Fresh \in Result
  BY <1>1, <1>2, ResultOfFields DEF Fresh
<1>4. Fresh.raw = "blank" /\ Fresh.err = FALSE
  BY DEF Fresh
<1>5. Failed \in Result
  BY <1>1, <1>2, <1>3, ResultChanged DEF Failed
<1>6. Failed.raw = "blank" /\ Failed.err = TRUE
  BY DEF Failed, Fresh
<1> QED
  BY <1>3, <1>4, <1>5, <1>6

LEMMA NextIndex ==
  ASSUME NEW n \in Nat, NEW j \in 1..(n + 1), j <= n
  PROVE  j + 1 \in 1..(n + 1)
  OBVIOUS

(* Where the run is.                                                       *)
LEMMA ControlStep ==
  ASSUME ControlOK, AtFinding => i <= N, [Next]_vars
  PROVE  ControlOK' /\ (AtFinding => i <= N)'
<1> USE ScanAssumption DEF ControlOK, GoTo, AtFinding
<1>1. CASE Setup
  BY <1>1 DEF Setup
<1>2. CASE LoopCancelled
  <2>1. i' = i + 1 /\ i <= N
    BY <1>2 DEF LoopCancelled
  <2>2. i \in 1..(N + 1) /\ N \in Nat
    OBVIOUS
  <2>3. i' \in 1..(N + 1)
    BY <2>1, <2>2, NextIndex
  <2>4. pc' = "loop" /\ cancelled' = cancelled /\ exit' = exit /\ outputs' = outputs
    BY <1>2 DEF LoopCancelled
  <2> QED
    BY <2>3, <2>4
<1>3. CASE LoopAnalyze
  BY <1>3 DEF LoopAnalyze
<1>4. CASE LoopDone
  BY <1>4 DEF LoopDone
<1>5. CASE AnalysisAnswers
  BY <1>5 DEF AnalysisAnswers
<1>6. CASE AnalysisFails
  BY <1>6 DEF AnalysisFails
<1>7. CASE ReviewSkipped
  BY <1>7 DEF ReviewSkipped
<1>8. CASE ReviewFails
  BY <1>8 DEF ReviewFails
<1>9. CASE ReviewAnswers
  BY <1>9 DEF ReviewAnswers
<1>10. CASE Persist
  BY <1>10 DEF Persist
<1>11. CASE Render
  <2>1. i' = i + 1 /\ i <= N
    BY <1>11 DEF Render
  <2>2. i \in 1..(N + 1) /\ N \in Nat
    OBVIOUS
  <2>3. i' \in 1..(N + 1)
    BY <2>1, <2>2, NextIndex
  <2>4. pc' = "loop" /\ cancelled' = cancelled /\ exit' = exit /\ outputs' = outputs
    BY <1>11 DEF Render
  <2> QED
    BY <2>3, <2>4
<1>12. CASE WriteArtifacts \/ WriteSarif
  BY <1>12 DEF WriteArtifacts, WriteSarif
<1>13. CASE Exit
  BY <1>13 DEF Exit
<1>14. CASE PublishOutputs
  BY <1>14 DEF PublishOutputs
<1>15. CASE Signal
  BY <1>15 DEF Signal
<1>16. CASE Kill
  BY <1>16 DEF Kill
<1>17. CASE UNCHANGED vars
  BY <1>17 DEF vars
<1> QED
  BY <1>1, <1>2, <1>3, <1>4, <1>5, <1>6, <1>7, <1>8, <1>9, <1>10, <1>11,
     <1>12, <1>13, <1>14, <1>15, <1>16, <1>17 DEF Next, Step

(* The result under construction and those recorded.                       *)
LEMMA ResultsStep ==
  ASSUME ResultsOK, [Next]_vars
  PROVE  ResultsOK'
<1> USE DEF ResultsOK
<1>1. CASE LoopCancelled
  BY <1>1, FreshIsResult DEF LoopCancelled, RecordCancelled, Record
<1>2. CASE LoopAnalyze
  BY <1>2, FreshIsResult DEF LoopAnalyze
<1>3. CASE AnalysisAnswers
  <2>1. PICK text \in Texts : \E shown \in ShownIn(text) :
          cur' = [cur EXCEPT !.raw = text, !.shown = shown, !.first = text]
    BY <1>3 DEF AnalysisAnswers
  <2>0. PICK shown \in ShownIn(text) :
          cur' = [cur EXCEPT !.raw = text, !.shown = shown, !.first = text]
    BY <2>1
  <2>2. "none" \in Bases /\ TRUE \in BOOLEAN /\ shown \in Answers \cup {"none"}
    BY DEF Bases, ShownIn, Parsed
  <2>3. cur' \in Result
    BY <2>0, <2>2, ResultChanged
  <2>4. results' = results
    BY <1>3 DEF AnalysisAnswers
  <2> QED
    BY <2>3, <2>4
<1>4. CASE AnalysisFails
  <2>1. cur' = [cur EXCEPT !.err = TRUE] /\ results' = results
    BY <1>4 DEF AnalysisFails
  <2>2. "blank" \in Texts /\ "none" \in Bases /\ TRUE \in BOOLEAN
        /\ "none" \in Answers \cup {"none"}
    BY DEF Bases, Texts
  <2> QED
    BY <2>1, <2>2, ResultChanged
<1>5. CASE ReviewFails
  <2>1. cur' = [cur EXCEPT !.basis = "failed"] /\ results' = results
    BY <1>5 DEF ReviewFails
  <2>2. "blank" \in Texts /\ "failed" \in Bases /\ TRUE \in BOOLEAN
        /\ "none" \in Answers \cup {"none"}
    BY DEF Bases, Texts
  <2> QED
    BY <2>1, <2>2, ResultChanged
<1>6. CASE ReviewAnswers
  <2>1. PICK c \in Challenge, b \in {"cited", "uncited"} :
          cur' = IF Overturns([reachable |-> cur.raw], c)
                 THEN [cur EXCEPT !.raw = c.reachable, !.shown = c.reachable,
                                  !.basis = b]
                 ELSE [cur EXCEPT !.basis = b]
    BY <1>6 DEF ReviewAnswers
  <2>2. results' = results
    BY <1>6 DEF ReviewAnswers
  <2>3. b \in Bases /\ TRUE \in BOOLEAN /\ cur.raw \in Texts
        /\ "none" \in Answers \cup {"none"}
    BY DEF Bases, Result
  <2>4. CASE Overturns([reachable |-> cur.raw], c)
    <3>1. c.reachable \in Texts /\ c.reachable \in Answers \cup {"none"}
      BY <2>4 DEF Overturns, Challenge, Texts, Answers
    <3> QED
      BY <2>1, <2>3, <2>4, <2>2, <3>1, ResultChanged
  <2>5. CASE ~Overturns([reachable |-> cur.raw], c)
    BY <2>1, <2>3, <2>5, <2>2, ResultChanged
  <2> QED
    BY <2>4, <2>5
<1>7. CASE Render
  <2>1. cur' = cur
    BY <1>7 DEF Render
  <2>2. CASE results' = Append(results, cur)
    BY <2>1, <2>2
  <2>3. ASSUME NEW ok \in BOOLEAN,
               results' = Append(results, [cur EXCEPT !.report = ok])
        PROVE  results' \in Seq(Result)
    <3>1. "blank" \in Texts /\ "none" \in Bases /\ "none" \in Answers \cup {"none"}
      BY DEF Bases, Texts
    <3>2. [cur EXCEPT !.report = ok] \in Result
      BY <3>1, ResultChanged
    <3> QED
      BY <2>3, <3>2
  <2> QED
    BY <1>7, <2>1, <2>2, <2>3 DEF Render, Record
<1>8. CASE UNCHANGED <<cur, results>>
  BY <1>8
<1>9. CASE Setup
  BY <1>9, <1>8 DEF Setup
<1>10. CASE LoopDone
  BY <1>10, <1>8 DEF LoopDone
<1>11. CASE ReviewSkipped
  BY <1>11, <1>8 DEF ReviewSkipped
<1>12. CASE Persist
  BY <1>12, <1>8 DEF Persist
<1>13. CASE WriteArtifacts \/ WriteSarif
  BY <1>13, <1>8 DEF WriteArtifacts, WriteSarif
<1>14. CASE Exit
  BY <1>14, <1>8 DEF Exit
<1>15. CASE PublishOutputs
  BY <1>15, <1>8 DEF PublishOutputs
<1>16. CASE Signal
  BY <1>16, <1>8 DEF Signal
<1>17. CASE Kill
  BY <1>17, <1>8 DEF Kill
<1>18. CASE UNCHANGED vars
  BY <1>18, <1>8 DEF vars
<1> QED
  BY <1>1, <1>2, <1>3, <1>4, <1>5, <1>6, <1>7, <1>9, <1>10, <1>11, <1>12,
     <1>13, <1>14, <1>15, <1>16, <1>17, <1>18 DEF Next, Step
(* The artifacts.                                                          *)
LEMMA FilesStep ==
  ASSUME ControlOK, AtFinding => i <= N, ResultsOK, FilesOK, [Next]_vars
  PROVE  FilesOK'
<1> USE DEF fileVars
<1>1. CASE Persist
  <2>1. cur.raw \in Texts
    BY DEF ResultsOK, Result
  <2>2. verdictFile' \in [1..N -> Texts \cup {"none", "former", "torn"}]
    BY <1>1, <2>1 DEF Persist, Store, FilesOK
  <2>3. verdictsJson' = verdictsJson /\ sarif' = sarif
    BY <1>1 DEF Persist
  <2> QED
    BY <2>2, <2>3 DEF FilesOK
<1>2. CASE WriteArtifacts
  <2>1. \A r \in Result : Envelope(r) \in Answers \cup {"none"}
    BY DEF Envelope, Result
  <2>2. CASE verdictsJson' =
               [from |-> "this",
                answers |-> [k \in DOMAIN results |-> Envelope(results[k])]]
    <3>1. [k \in DOMAIN results |-> Envelope(results[k])]
            \in Seq(Answers \cup {"none"})
      BY <2>1 DEF ResultsOK
    <3> QED
      BY <1>2, <2>2, <3>1 DEF WriteArtifacts, FilesOK
  <2>3. CASE verdictsJson' = [from |-> "torn", answers |-> <<>>]
    BY <1>2, <2>3 DEF WriteArtifacts, FilesOK
  <2>4. CASE UNCHANGED verdictsJson
    BY <1>2, <2>4 DEF WriteArtifacts, FilesOK
  <2> QED
    BY <1>2, <2>2, <2>3, <2>4 DEF WriteArtifacts
<1>3. ASSUME UNCHANGED fileVars PROVE FilesOK'
  BY <1>3 DEF FilesOK
<1>4. CASE WriteSarif
  <2>1. UNCHANGED <<verdictFile, verdictsJson>>
    BY <1>4 DEF WriteSarif
  <2>2. \A r \in Result : ResultOutcome(r) \in Outcomes
    BY DEF ResultOutcome, Outcome, Outcomes
  <2>3. CASE sarif' =
               [from |-> "this",
                outcomes |-> [k \in DOMAIN results |-> ResultOutcome(results[k])]]
    <3>1. [k \in DOMAIN results |-> ResultOutcome(results[k])] \in Seq(Outcomes)
      BY <2>2 DEF ResultsOK
    <3> QED
      BY <2>1, <2>3, <3>1 DEF FilesOK
  <2>4. CASE sarif' = [from |-> "torn", outcomes |-> <<>>]
    BY <2>1, <2>4 DEF FilesOK
  <2>5. CASE UNCHANGED sarif
    BY <2>1, <2>5 DEF FilesOK
  <2> QED
    BY <1>4, <2>3, <2>4, <2>5 DEF WriteSarif
<1> QED
  BY <1>1, <1>2, <1>3, <1>4 DEF Next, Step, vars, Setup, LoopCancelled, LoopAnalyze,
     LoopDone, AnalysisAnswers, AnalysisFails, ReviewSkipped, ReviewFails,
     ReviewAnswers, Render, Exit, PublishOutputs, Signal, Kill

(* The accounts: a session adds what it made to the kind it was.           *)
LEMMA SessionKeepsUsage ==
  ASSUME UsageOK, NEW kind \in {"analysis", "review"}, NEW q \in Nat,
         NEW h \in BOOLEAN, Session(kind, q, h)
  PROVE  UsageOK'
<1>1. made' \in [analysis : Nat, review : Nat, render : Nat]
  BY DEF Session, UsageOK
<1>2. used' \in [analysis : Nat, review : Nat]
  BY DEF Session, UsageOK
<1> QED
  BY <1>1, <1>2 DEF UsageOK

LEMMA RequestsAreNat ==
  /\ \A q \in 0..MaxRequests : q \in Nat
  /\ \A q \in 1..MaxRequests : q \in Nat
<1>1. MaxRequests \in Nat
  BY ScanAssumption
<1> QED
  BY <1>1

LEMMA UsageStep ==
  ASSUME UsageOK, [Next]_vars
  PROVE  UsageOK'
<1>1. \A q \in 0..MaxRequests : q \in Nat
  BY RequestsAreNat
<1>2. \A q \in 1..MaxRequests : q \in Nat
  BY RequestsAreNat
<1>3. CASE AnalysisAnswers
  <2>1. PICK q \in 1..MaxRequests : Session("analysis", q, TRUE)
    BY <1>3 DEF AnalysisAnswers
  <2>2. q \in Nat /\ TRUE \in BOOLEAN /\ "analysis" \in {"analysis", "review"}
    BY <1>2
  <2> QED
    BY <2>1, <2>2, SessionKeepsUsage, Zenon
<1>4. CASE AnalysisFails
  BY <1>1, <1>4, SessionKeepsUsage DEF AnalysisFails
<1>5. CASE ReviewFails
  BY <1>1, <1>5, SessionKeepsUsage DEF ReviewFails
<1>6. CASE ReviewAnswers
  <2>1. PICK q \in 1..MaxRequests : Session("review", q, TRUE)
    BY <1>6 DEF ReviewAnswers
  <2>2. q \in Nat /\ TRUE \in BOOLEAN /\ "review" \in {"analysis", "review"}
    BY <1>2
  <2> QED
    BY <2>1, <2>2, SessionKeepsUsage, Zenon
<1>7. CASE Render
  <2>1. used' = used
    BY <1>7 DEF Render
  <2>2. made' = made \/ \E q \in 0..1 : made' = [made EXCEPT !.render = @ + q]
    BY <1>7 DEF Render
  <2>3. made' \in [analysis : Nat, review : Nat, render : Nat]
    BY <2>2 DEF UsageOK
  <2> QED
    BY <2>1, <2>3 DEF UsageOK
<1>8. ASSUME UNCHANGED <<used, made>> PROVE UsageOK'
  BY <1>8 DEF UsageOK
<1> QED
  BY <1>3, <1>4, <1>5, <1>6, <1>7, <1>8 DEF Next, Step, vars, Setup,
     LoopCancelled, LoopAnalyze, LoopDone, ReviewSkipped, Persist,
     WriteArtifacts, WriteSarif, Exit, PublishOutputs, Signal, Kill

(* Every variable of a scan run keeps its type.                            *)
THEOREM TypeCorrect == Spec => [](TypeOK /\ (AtFinding => i <= N))
<1>1. Init => TypeOK /\ (AtFinding => i <= N)
  <2> SUFFICES ASSUME Init PROVE TypeOK /\ (AtFinding => i <= N)
    OBVIOUS
  <2>1. ControlOK /\ (AtFinding => i <= N)
    <3>1. N \in Nat /\ i = 1
      BY ScanAssumption DEF Init
    <3>2. i \in 1..(N + 1)
      BY <3>1
    <3>3. pc = "setup" /\ cancelled \in BOOLEAN /\ exit = -1 /\ outputs = "unset"
      BY DEF Init
    <3> QED
      BY <3>2, <3>3 DEF ControlOK, AtFinding
  <2>2. ResultsOK
    BY FreshIsResult DEF Init, ResultsOK
  <2>3. FilesOK
    <3>1. verdictFile \in [1..N -> Texts \cup {"none", "former", "torn"}]
      BY DEF Init
    <3>2. verdictsJson \in [from : {"none", "former", "this", "torn"},
                            answers : Seq(Answers \cup {"none"})]
      BY DEF Init, NoJson, FormerJson, Answers
    <3>3. sarif \in [from : {"none", "former", "this", "torn"},
                     outcomes : Seq(Outcomes)]
      BY DEF Init, NoSarif, FormerSarif, Outcomes
    <3> QED
      BY <3>1, <3>2, <3>3 DEF FilesOK
  <2>4. UsageOK
    BY DEF Init, UsageOK
  <2> QED
    BY <2>1, <2>2, <2>3, <2>4 DEF TypeOK
<1>2. TypeOK /\ (AtFinding => i <= N) /\ [Next]_vars
        => TypeOK' /\ (AtFinding => i <= N)'
  BY ControlStep, ResultsStep, FilesStep, UsageStep DEF TypeOK
<1> QED
  BY <1>1, <1>2, PTL DEF Spec
-----------------------------------------------------------------------------
(* The gate.                                                               *)

(* CountResults puts every result in one class, by these rules.            *)
LEMMA ClassOf ==
  ASSUME NEW r \in Result
  PROVE  /\ r.err => Class(r) = "errors"
         /\ ~r.err /\ ~Parsed(r.raw) => Class(r) = "unparsed"
         /\ ~r.err /\ r.raw = "yes" => Class(r) = "reachable"
         /\ ~r.err /\ r.raw = "no" => Class(r) = "notReachable"
         /\ ~r.err /\ Parsed(r.raw) /\ r.raw # "yes" /\ r.raw # "no"
              => Class(r) = "uncertain"
<1>1. Parsed("yes") /\ Parsed("no")
  BY DEF Parsed, Answers
<1> QED
  BY <1>1 DEF Class

(* A count is positive if, and only if, some result is of its class.       *)
LEMMA CountPositive ==
  ASSUME ResultsOK, NEW class
  PROVE  CountOf(class) > 0
           <=> \E k \in DOMAIN results : Class(results[k]) = class
<1> DEFINE S == {k \in DOMAIN results : Class(results[k]) = class}
<1>1. IsFiniteSet(DOMAIN results)
  <2>1. Len(results) \in Nat /\ DOMAIN results = 1..Len(results)
    BY DEF ResultsOK
  <2> QED
    BY <2>1, FS_Interval
<1>2. IsFiniteSet(S)
  BY <1>1, FS_Subset
<1>3. Cardinality(S) \in Nat /\ (Cardinality(S) = 0 <=> S = {})
  BY <1>2, FS_CardinalityType, FS_EmptySet
<1>4. CountOf(class) = Cardinality(S)
  BY DEF CountOf
<1> HIDE DEF S
<1>5. CountOf(class) > 0 <=> S # {}
  BY <1>3, <1>4
<1> QED
  BY <1>5 DEF S

(* What the exit code says of the results when it is taken from them.      *)
LEMMA TriggeredMeans ==
  ASSUME ResultsOK, FailedInv
  PROVE  /\ FailOn = "uncertain" /\ ~FailOnTriggered
              => \A k \in DOMAIN results : results[k].raw = "no"
         /\ FailOn = "reachable" /\ ~FailOnTriggered
              => \A k \in DOMAIN results : results[k].err \/ results[k].raw # "yes"
         /\ FailOnTriggered
              => FailOn # "" /\ \E k \in DOMAIN results : results[k].raw # "no"
<1>1. \A k \in DOMAIN results : results[k] \in Result
  BY DEF ResultsOK
<1>2. ASSUME FailOn = "uncertain", ~FailOnTriggered, NEW k \in DOMAIN results
      PROVE  results[k].raw = "no"
  <2>1. /\ Class(results[k]) # "reachable" /\ Class(results[k]) # "uncertain"
        /\ Class(results[k]) # "unparsed" /\ Class(results[k]) # "errors"
    BY <1>2, CountPositive DEF FailOnTriggered
  <2> QED
    BY <1>1, <2>1, ClassOf
<1>3. ASSUME FailOn = "reachable", ~FailOnTriggered, NEW k \in DOMAIN results
      PROVE  results[k].err \/ results[k].raw # "yes"
  <2>1. Class(results[k]) # "reachable"
    BY <1>3, CountPositive DEF FailOnTriggered
  <2> QED
    BY <1>1, <2>1, ClassOf
<1>4. ASSUME FailOnTriggered
      PROVE  FailOn # "" /\ \E k \in DOMAIN results : results[k].raw # "no"
  <2>1. /\ FailOn # ""
        /\ \E class \in {"reachable", "uncertain", "unparsed", "errors"} :
             CountOf(class) > 0
    BY <1>4 DEF FailOnTriggered
  <2>2. PICK k \in DOMAIN results :
          Class(results[k]) \in {"reachable", "uncertain", "unparsed", "errors"}
    BY <2>1, CountPositive
  <2>3. results[k].err => results[k].raw = "blank"
    BY DEF FailedInv
  <2>4. results[k].raw # "no"
    BY <1>1, <2>2, <2>3, ClassOf
  <2> QED
    BY <2>1, <2>4
<1> QED
  BY <1>2, <1>3, <1>4
(* One more result.                                                        *)
LEMMA OneMore ==
  ASSUME ResultsOK, NEW r, results' = Append(results, r)
  PROVE  /\ Len(results') = Len(results) + 1
         /\ \A k \in DOMAIN results' :
              (k \in DOMAIN results /\ results'[k] = results[k]) \/ results'[k] = r
  BY DEF ResultsOK

LEMMA Numbers ==
  ASSUME TypeOK
  PROVE  /\ N \in Nat /\ i \in Nat /\ Len(results) \in Nat
         /\ i \in 1..(N + 1)
<1>1. N \in Nat
  BY ScanAssumption
<1>2. i \in 1..(N + 1) /\ results \in Seq(Result)
  BY DEF TypeOK, ControlOK, ResultsOK
<1>3. i \in Nat
  BY <1>1, <1>2
<1> QED
  BY <1>1, <1>2, <1>3

(* The loop and the results keep in step.                                  *)
LEMMA LoopStep ==
  ASSUME TypeOK, LoopInv, [Next]_vars
  PROVE  LoopInv'
<1> USE DEF LoopInv, AtFinding, Completed, Running, GoTo
<1>0. N \in Nat /\ i \in Nat /\ Len(results) \in Nat /\ i \in 1..(N + 1)
  BY Numbers
<1>1. CASE Setup
  <2>1. pc = "setup" /\ results' = results /\ i' = i
    BY <1>1 DEF Setup
  <2>2. results = <<>> /\ i = 1
    BY <2>1
  <2>3. Len(results') = i' - 1
    BY <2>1, <2>2
  <2>4. exit = -1
    BY <2>1
  <2>5. (pc' = "loop" /\ exit' = exit) \/ (pc' = "exited" /\ exit' = 1)
    BY <1>1 DEF Setup
  <2>6. CASE pc' = "loop" /\ exit' = exit
    BY <2>3, <2>4, <2>6
  <2>7. CASE pc' = "exited" /\ exit' = 1
    BY <2>7
  <2> QED
    BY <2>5, <2>6, <2>7
<1>2. CASE LoopCancelled
  <2>1. Len(results') = Len(results) + 1
    BY <1>2, OneMore DEF LoopCancelled, RecordCancelled, Record, TypeOK
  <2>2. i' = i + 1 /\ pc = "loop" /\ pc' = pc /\ exit' = exit
    BY <1>2 DEF LoopCancelled
  <2> QED
    BY <1>0, <2>1, <2>2
<1>3. CASE LoopAnalyze
  BY <1>0, <1>3 DEF LoopAnalyze
<1>4. CASE LoopDone
  <2>1. pc = "loop" /\ pc' = "artifacts" /\ i > N
    BY <1>4 DEF LoopDone
  <2>2. i' = i /\ results' = results /\ exit' = exit
    BY <1>4 DEF LoopDone
  <2>3. Len(results) = N
    BY <1>0, <2>1
  <2> QED
    BY <2>1, <2>2, <2>3
<1>5. CASE AnalysisAnswers
  BY <1>0, <1>5 DEF AnalysisAnswers
<1>6. CASE AnalysisFails
  BY <1>0, <1>6 DEF AnalysisFails
<1>7. CASE ReviewSkipped
  BY <1>0, <1>7 DEF ReviewSkipped
<1>8. CASE ReviewFails
  BY <1>0, <1>8 DEF ReviewFails
<1>9. CASE ReviewAnswers
  BY <1>0, <1>9 DEF ReviewAnswers
<1>10. CASE Persist
  BY <1>0, <1>10 DEF Persist
<1>11. CASE Render
  <2>1. Len(results') = Len(results) + 1
    BY <1>11, OneMore DEF Render, Record, TypeOK
  <2>2. i' = i + 1 /\ pc = "render" /\ pc' = "loop" /\ exit' = exit
    BY <1>11 DEF Render
  <2> QED
    BY <1>0, <2>1, <2>2
<1>12. CASE WriteArtifacts \/ WriteSarif
  BY <1>0, <1>12 DEF WriteArtifacts, WriteSarif
<1>13. CASE Exit
  <2>1. pc = "count" /\ pc' = "exited" /\ i' = i /\ results' = results
    BY <1>13 DEF Exit
  <2>2. exit' = 0 \/ exit' = 2
    BY <1>13 DEF Exit
  <2> QED
    BY <2>1, <2>2
<1>14. CASE PublishOutputs
  BY <1>0, <1>14 DEF PublishOutputs
<1>15. CASE Signal
  BY <1>0, <1>15 DEF Signal
<1>16. CASE Kill
  BY <1>0, <1>16 DEF Kill
<1>17. CASE UNCHANGED vars
  BY <1>17 DEF vars
<1> QED
  BY <1>1, <1>2, <1>3, <1>4, <1>5, <1>6, <1>7, <1>8, <1>9, <1>10, <1>11,
     <1>12, <1>13, <1>14, <1>15, <1>16, <1>17 DEF Next, Step

(* A failed result holds no answer.                                        *)
LEMMA FailedStep ==
  ASSUME TypeOK, FailedInv, [Next]_vars
  PROVE  FailedInv'
<1> USE DEF FailedInv, GoTo
<1>1. CASE LoopCancelled
  <2>1. UNCHANGED <<pc, cur>>
    BY <1>1 DEF LoopCancelled
  <2>2. \A k \in DOMAIN results' :
          (k \in DOMAIN results /\ results'[k] = results[k]) \/ results'[k] = Failed
    BY <1>1, OneMore DEF LoopCancelled, RecordCancelled, Record, TypeOK
  <2> QED
    BY <2>1, <2>2, FreshIsResult
<1>2. CASE LoopAnalyze
  <2>1. cur'.err = FALSE /\ cur'.raw = "blank"
    BY <1>2, FreshIsResult DEF LoopAnalyze
  <2>2. pc' = "analyze" /\ results' = results
    BY <1>2 DEF LoopAnalyze
  <2> QED
    BY <2>1, <2>2
<1>3. CASE AnalysisAnswers
  <2>1. /\ pc = "analyze" /\ pc' = "review" /\ results' = results
        /\ \E text \in Texts : \E shown \in ShownIn(text) :
             cur' = [cur EXCEPT !.raw = text, !.shown = shown, !.first = text]
    BY <1>3 DEF AnalysisAnswers
  <2>2. ~cur'.err
    BY <2>1 DEF TypeOK, ResultsOK, Result
  <2> QED
    BY <2>1, <2>2
<1>4. CASE AnalysisFails
  <2>1. /\ pc = "analyze" /\ pc' = "persist" /\ results' = results
        /\ cur' = [cur EXCEPT !.err = TRUE]
    BY <1>4 DEF AnalysisFails
  <2>2. cur'.raw = "blank"
    BY <2>1 DEF TypeOK, ResultsOK, Result
  <2> QED
    BY <2>1, <2>2
<1>5. CASE ReviewSkipped
  BY <1>5 DEF ReviewSkipped
<1>6. CASE ReviewFails
  <2>1. /\ pc = "review" /\ pc' = "persist" /\ results' = results
        /\ cur' = [cur EXCEPT !.basis = "failed"]
    BY <1>6 DEF ReviewFails
  <2>2. ~cur'.err
    BY <2>1 DEF TypeOK, ResultsOK, Result
  <2> QED
    BY <2>1, <2>2
<1>7. CASE ReviewAnswers
  <2>1. /\ pc = "review" /\ pc' = "persist" /\ results' = results
        /\ cur'.err = cur.err
    BY <1>7 DEF ReviewAnswers, TypeOK, ResultsOK, Result
  <2> QED
    BY <2>1
<1>8. CASE Render
  <2>1. cur' = cur /\ pc' = "loop"
    BY <1>8 DEF Render
  <2>2. \E r \in Result : /\ r.err = cur.err /\ r.raw = cur.raw
                         /\ results' = Append(results, r)
    <3>1. CASE results' = Append(results, cur)
      BY <3>1 DEF TypeOK, ResultsOK
    <3>2. ASSUME NEW ok \in BOOLEAN,
                 results' = Append(results, [cur EXCEPT !.report = ok])
          PROVE  \E r \in Result : /\ r.err = cur.err /\ r.raw = cur.raw
                                  /\ results' = Append(results, r)
      BY <3>2 DEF TypeOK, ResultsOK, Result
    <3> QED
      BY <1>8, <3>1, <3>2 DEF Render, Record
  <2>3. PICK r \in Result : /\ r.err = cur.err /\ r.raw = cur.raw
                            /\ results' = Append(results, r)
    BY <2>2
  <2>4. \A k \in DOMAIN results' :
          (k \in DOMAIN results /\ results'[k] = results[k]) \/ results'[k] = r
    BY <2>3, OneMore DEF TypeOK
  <2> QED
    BY <2>1, <2>3, <2>4
<1>9. CASE Setup
  BY <1>9 DEF Setup
<1>10. CASE LoopDone
  BY <1>10 DEF LoopDone
<1>11. CASE Persist
  BY <1>11 DEF Persist
<1>12. CASE WriteArtifacts \/ WriteSarif
  BY <1>12 DEF WriteArtifacts, WriteSarif
<1>13. CASE Exit
  BY <1>13 DEF Exit
<1>14. CASE PublishOutputs
  BY <1>14 DEF PublishOutputs
<1>15. CASE Signal
  BY <1>15 DEF Signal
<1>16. CASE Kill
  BY <1>16 DEF Kill
<1>17. CASE UNCHANGED vars
  BY <1>17 DEF vars
<1> QED
  BY <1>1, <1>2, <1>3, <1>4, <1>5, <1>6, <1>7, <1>8, <1>9, <1>10, <1>11,
     <1>12, <1>13, <1>14, <1>15, <1>16, <1>17 DEF Next, Step

(* The exit code, set once, says what it should of the results.            *)
LEMMA GateStep ==
  ASSUME TypeOK, GateInv, [Next]_vars
  PROVE  GateHolds'
<1> USE DEF GateInv
<1>1. CASE Exit
  <2>1. /\ pc = "count" /\ results' = results
        /\ exit' = IF FailOnTriggered THEN 2 ELSE 0
    BY <1>1 DEF Exit, GoTo
  <2>2. Len(results) = N /\ DOMAIN results = 1..N
    BY <2>1 DEF LoopInv, TypeOK, ResultsOK
  <2>3. FailOnTriggered =>
          FailOn # "" /\ \E k \in DOMAIN results : results[k].raw # "no"
    BY TriggeredMeans DEF TypeOK
  <2>4. ~FailOnTriggered /\ FailOn = "uncertain" =>
          \A k \in DOMAIN results : results[k].raw = "no"
    BY TriggeredMeans DEF TypeOK
  <2>5. ~FailOnTriggered /\ FailOn = "reachable" =>
          \A k \in DOMAIN results : results[k].err \/ results[k].raw # "yes"
    BY TriggeredMeans DEF TypeOK
  <2>6. exit' = 0 => ~FailOnTriggered
    BY <2>1
  <2>7. exit' = 2 => FailOnTriggered
    BY <2>1
  <2> QED
    BY <2>1, <2>2, <2>3, <2>4, <2>5, <2>6, <2>7 DEF GateHolds, Says, HasResult
<1>2. ASSUME exit' # 0, exit' # 2 PROVE GateHolds'
  BY <1>2 DEF GateHolds
<1>3. ASSUME UNCHANGED <<exit, results>> PROVE GateHolds'
  BY <1>3 DEF GateHolds, Says, HasResult
<1>4. ASSUME exit' = exit, pc \notin {"exited", "published"} PROVE GateHolds'
  BY <1>2, <1>4 DEF LoopInv, Running
<1>5. CASE Setup
  BY <1>2, <1>4, <1>5 DEF Setup
<1>6. CASE LoopCancelled
  BY <1>4, <1>6 DEF LoopCancelled
<1>7. CASE Render
  BY <1>4, <1>7 DEF Render, GoTo
<1>8. CASE Kill
  BY <1>2, <1>8 DEF Kill
<1> QED
  BY <1>1, <1>3, <1>5, <1>6, <1>7, <1>8 DEF Next, Step, vars, LoopAnalyze,
     LoopDone, AnalysisAnswers, AnalysisFails, ReviewSkipped, ReviewFails,
     ReviewAnswers, Persist, WriteArtifacts, WriteSarif, PublishOutputs, Signal

(* The gate fails closed, for every number of findings, every choice of    *)
(* flags and every pattern of failures, cancellation and kill.             *)
THEOREM GateFailsClosed == Spec => []GateHolds
<1>1. Init => GateInv
  <2> SUFFICES ASSUME Init PROVE GateInv
    OBVIOUS
  <2>1. pc = "setup" /\ results = <<>> /\ i = 1 /\ exit = -1
    BY DEF Init
  <2>2. LoopInv
    BY <2>1 DEF LoopInv, AtFinding, Completed, Running
  <2>3. FailedInv
    BY <2>1, FreshIsResult DEF Init, FailedInv
  <2>4. GateHolds
    BY <2>1 DEF GateHolds
  <2> QED
    BY <2>2, <2>3, <2>4 DEF GateInv
<1>2. TypeOK /\ GateInv /\ [Next]_vars => GateInv'
  BY LoopStep, FailedStep, GateStep DEF GateInv
<1>3. GateInv => GateHolds
  BY DEF GateInv
<1> QED
  BY <1>1, <1>2, <1>3, TypeCorrect, PTL DEF Spec
-----------------------------------------------------------------------------
(* The accounts.                                                           *)

(* Until a finding is recorded no file has a verdict for it, but the one   *)
(* that is between being stored and being recorded; then the two agree.    *)
VerdictsInv ==
  /\ \A k \in DOMAIN results :
       verdictFile[k] \in Texts => verdictFile[k] = results[k].raw
  /\ Running =>
       \A k \in 1..N :
         k > Len(results) =>
           \/ verdictFile[k] \notin Texts
           \/ pc = "render" /\ k = i /\ verdictFile[k] = cur.raw

(* The aggregate is made of the results, which no longer change then.      *)
AggregateInv ==
  verdictsJson.from = "this" =>
    /\ pc \in {"sarif", "count", "exited", "published"} /\ Len(results) = N
    /\ verdictsJson.answers = [k \in DOMAIN results |-> Envelope(results[k])]

(* So is the SARIF file.                                                   *)
SarifInv ==
  sarif.from = "this" =>
    /\ pc \in {"count", "exited", "published"} /\ Len(results) = N
    /\ sarif.outcomes = [k \in DOMAIN results |-> ResultOutcome(results[k])]

(* What the entrypoint is shown of a text fits what Go reads in it.        *)
Fits(r)  == r.shown \in ShownIn(r.raw)
ShownInv == Fits(cur) /\ \A k \in DOMAIN results : Fits(results[k])

(* An output is derived from the aggregate.                                *)
OutputInv ==
  /\ ~Former => verdictsJson.from # "former"
  /\ outputs \in {"yes", "no"} =>
       /\ pc = "published" /\ verdictsJson.from \notin {"none", "torn"}
       /\ outputs = "yes" <=> \E k \in DOMAIN verdictsJson.answers :
                                verdictsJson.answers[k] = "yes"

(* The result that a rendering records is that of the finding.             *)
LEMMA Rendered ==
  ASSUME TypeOK, Render
  PROVE  \E r \in Result : /\ r.err = cur.err /\ r.raw = cur.raw
                           /\ r.basis = cur.basis /\ r.shown = cur.shown
                           /\ results' = Append(results, r)
<1>1. CASE results' = Append(results, cur)
  BY <1>1 DEF TypeOK, ResultsOK
<1>2. ASSUME NEW ok \in BOOLEAN,
             results' = Append(results, [cur EXCEPT !.report = ok])
      PROVE  \E r \in Result : /\ r.err = cur.err /\ r.raw = cur.raw
                               /\ r.basis = cur.basis /\ r.shown = cur.shown
                               /\ results' = Append(results, r)
  BY <1>2 DEF TypeOK, ResultsOK, Result
<1> QED
  BY <1>1, <1>2 DEF Render, Record

LEMMA Appended ==
  ASSUME ResultsOK, NEW r, results' = Append(results, r)
  PROVE  /\ Len(results) \in Nat /\ DOMAIN results = 1..Len(results)
         /\ Len(results') = Len(results) + 1 /\ DOMAIN results' = 1..(Len(results) + 1)
         /\ \A k \in 1..Len(results) : results'[k] = results[k]
         /\ results'[Len(results) + 1] = r
  BY DEF ResultsOK

(* Recording a result that agrees with the finding's file, if it has one.  *)
LEMMA RecordAgrees ==
  ASSUME TypeOK, LoopInv, VerdictsInv, Running, pc \in {"loop", "render"}, i <= N,
         NEW r, results' = Append(results, r),
         pc = "render" => r.raw = cur.raw,
         verdictFile' = verdictFile, pc' = "loop"
  PROVE  VerdictsInv'
<1>0. N \in Nat /\ i \in Nat /\ Len(results) = i - 1
  BY Numbers DEF LoopInv, AtFinding
<1>1. /\ Len(results) \in Nat /\ DOMAIN results = 1..Len(results)
      /\ Len(results') = Len(results) + 1 /\ DOMAIN results' = 1..(Len(results) + 1)
      /\ \A k \in 1..Len(results) : results'[k] = results[k]
      /\ results'[Len(results) + 1] = r
  BY Appended DEF TypeOK
<1>2. ASSUME NEW k \in DOMAIN results', verdictFile'[k] \in Texts
      PROVE  verdictFile'[k] = results'[k].raw
  <2>1. CASE k \in 1..Len(results)
    BY <1>1, <1>2, <2>1 DEF VerdictsInv
  <2>2. CASE k = Len(results) + 1
    <3>1. k = i /\ k \in 1..N /\ k > Len(results)
      BY <1>0, <2>2
    <3>2. pc = "render" /\ verdictFile[k] = cur.raw
      BY <1>2, <3>1 DEF VerdictsInv
    <3> QED
      BY <1>1, <2>2, <3>2
  <2> QED
    BY <1>1, <2>1, <2>2
<1>3. ASSUME NEW k \in 1..N, k > Len(results')
      PROVE  verdictFile'[k] \notin Texts
  <2>1. k > Len(results) /\ k # i
    BY <1>0, <1>1, <1>3
  <2> QED
    BY <2>1 DEF VerdictsInv
<1> QED
  BY <1>2, <1>3 DEF VerdictsInv

LEMMA VerdictsStep ==
  ASSUME TypeOK, LoopInv, VerdictsInv, [Next]_vars
  PROVE  VerdictsInv'
<1> USE DEF fileVars
<1>1. CASE LoopCancelled
  <2>1. /\ pc = "loop" /\ pc' = "loop" /\ i <= N /\ verdictFile' = verdictFile
        /\ results' = Append(results, Failed)
    BY <1>1 DEF LoopCancelled, RecordCancelled, Record
  <2>2. Running
    BY <2>1 DEF LoopInv, Running
  <2> QED
    BY <2>1, <2>2, RecordAgrees
<1>2. CASE Render
  <2>1. pc = "render" /\ pc' = "loop" /\ verdictFile' = verdictFile
    BY <1>2 DEF Render, GoTo
  <2>2. PICK r \in Result : r.raw = cur.raw /\ results' = Append(results, r)
    BY <1>2, Rendered
  <2>3. Running /\ i <= N
    BY <2>1 DEF LoopInv, Running, AtFinding
  <2> QED
    BY <2>1, <2>2, <2>3, RecordAgrees
<1>3. CASE Persist
  <2>0. N \in Nat /\ i \in Nat /\ Len(results) = i - 1 /\ i <= N /\ Running
    BY <1>3, Numbers DEF Persist, GoTo, LoopInv, AtFinding, Running
  <2>1. /\ pc = "persist" /\ pc' = "render" /\ results' = results
        /\ cur' = cur /\ i' = i /\ exit' = exit
    BY <1>3 DEF Persist, GoTo
  <2>2. DOMAIN verdictFile = 1..N /\ i \in 1..N /\ DOMAIN results = 1..(i - 1)
    BY <2>0 DEF TypeOK, FilesOK, ResultsOK
  <2>3. /\ \A k \in 1..N : k # i => verdictFile'[k] = verdictFile[k]
        /\ verdictFile'[i] \in {cur.raw, "torn", verdictFile[i]}
    BY <1>3, <2>2 DEF Persist, Store
  <2>4. "torn" \notin Texts
    BY DEF Texts, Answers
  <2>5. verdictFile[i] \notin Texts
    BY <2>0, <2>1, <2>2 DEF VerdictsInv
  <2>6. \A k \in DOMAIN results' :
          verdictFile'[k] \in Texts => verdictFile'[k] = results'[k].raw
    BY <2>0, <2>1, <2>2, <2>3 DEF VerdictsInv
  <2>7. ASSUME NEW k \in 1..N, k > Len(results')
        PROVE  \/ verdictFile'[k] \notin Texts
               \/ pc' = "render" /\ k = i' /\ verdictFile'[k] = cur'.raw
    <3>1. CASE k = i
      BY <2>1, <2>3, <2>4, <2>5, <3>1
    <3>2. CASE k # i
      BY <2>0, <2>1, <2>3, <2>7, <3>2 DEF VerdictsInv
    <3> QED
      BY <3>1, <3>2
  <2> QED
    BY <2>6, <2>7 DEF VerdictsInv
<1>4. ASSUME UNCHANGED <<results, verdictFile>>, Running' => Running,
             pc = "render" => ~Running' \/ UNCHANGED <<pc, i, cur>>
      PROVE  VerdictsInv'
  BY <1>4 DEF VerdictsInv
<1>5. CASE UNCHANGED vars
  BY <1>4, <1>5 DEF vars, Running
<1>6. CASE Kill
  BY <1>4, <1>6 DEF Kill, Running
<1>7. CASE Signal
  BY <1>4, <1>7 DEF Signal, Running
<1>8. CASE Setup
  BY <1>4, <1>8 DEF Setup, Running
<1>9. CASE Exit
  BY <1>4, <1>9 DEF Exit, GoTo, Running
<1>10. CASE PublishOutputs
  BY <1>4, <1>10 DEF PublishOutputs, GoTo, Running
<1>11. CASE \/ LoopAnalyze \/ LoopDone \/ AnalysisAnswers \/ AnalysisFails
            \/ ReviewSkipped \/ ReviewFails \/ ReviewAnswers \/ WriteArtifacts
            \/ WriteSarif
  BY <1>4, <1>11 DEF LoopAnalyze, LoopDone, AnalysisAnswers, AnalysisFails,
     ReviewSkipped, ReviewFails, ReviewAnswers, WriteArtifacts, WriteSarif,
     GoTo, Running
<1> QED
  BY <1>1, <1>2, <1>3, <1>5, <1>6, <1>7, <1>8, <1>9, <1>10, <1>11
     DEF Next, Step

LEMMA AggregateStep ==
  ASSUME TypeOK, LoopInv, AggregateInv, [Next]_vars
  PROVE  AggregateInv'
<1> USE DEF fileVars
<1>1. CASE WriteArtifacts
  <2>1. pc = "artifacts" /\ pc' = "sarif" /\ results' = results
    BY <1>1 DEF WriteArtifacts, GoTo
  <2>2. Len(results) = N /\ verdictsJson.from # "this"
    BY <2>1 DEF LoopInv, AggregateInv
  <2>3. CASE verdictsJson' =
               [from |-> "this",
                answers |-> [k \in DOMAIN results |-> Envelope(results[k])]]
    BY <2>1, <2>2, <2>3 DEF AggregateInv
  <2>4. CASE verdictsJson'.from # "this"
    BY <2>4 DEF AggregateInv
  <2> QED
    BY <1>1, <2>2, <2>3, <2>4 DEF WriteArtifacts
<1>2. ASSUME UNCHANGED <<verdictsJson, results>>,
             pc \in {"sarif", "count", "exited", "published"} =>
               pc' \in {"sarif", "count", "exited", "published"}
      PROVE  AggregateInv'
  BY <1>2 DEF AggregateInv
<1>3. ASSUME UNCHANGED verdictsJson, pc \in {"loop", "render"}
      PROVE  AggregateInv'
  BY <1>3 DEF AggregateInv
<1>4. CASE LoopCancelled \/ Render
  BY <1>3, <1>4 DEF LoopCancelled, Render, GoTo
<1>5. CASE UNCHANGED vars
  BY <1>2, <1>5 DEF vars
<1>6. CASE Signal \/ Kill
  BY <1>2, <1>6 DEF Signal, Kill
<1>7. CASE \/ Setup \/ LoopAnalyze \/ LoopDone \/ AnalysisAnswers \/ AnalysisFails
           \/ ReviewSkipped \/ ReviewFails \/ ReviewAnswers \/ Persist
           \/ WriteSarif \/ Exit \/ PublishOutputs
  BY <1>2, <1>7 DEF Setup, LoopAnalyze, LoopDone, AnalysisAnswers, AnalysisFails,
     ReviewSkipped, ReviewFails, ReviewAnswers, Persist, WriteSarif, Exit,
     PublishOutputs, GoTo
<1> QED
  BY <1>1, <1>4, <1>5, <1>6, <1>7 DEF Next, Step

LEMMA SarifStep ==
  ASSUME TypeOK, LoopInv, SarifInv, [Next]_vars
  PROVE  SarifInv'
<1> USE DEF fileVars
<1>1. CASE WriteSarif
  <2>1. pc = "sarif" /\ pc' = "count" /\ results' = results
    BY <1>1 DEF WriteSarif, GoTo
  <2>2. Len(results) = N /\ sarif.from # "this"
    BY <2>1 DEF LoopInv, SarifInv
  <2>3. CASE sarif' =
               [from |-> "this",
                outcomes |-> [k \in DOMAIN results |-> ResultOutcome(results[k])]]
    BY <2>1, <2>2, <2>3 DEF SarifInv
  <2>4. CASE sarif'.from # "this"
    BY <2>4 DEF SarifInv
  <2> QED
    BY <1>1, <2>2, <2>3, <2>4 DEF WriteSarif
<1>2. ASSUME UNCHANGED <<sarif, results>>,
             pc \in {"count", "exited", "published"} =>
               pc' \in {"count", "exited", "published"}
      PROVE  SarifInv'
  BY <1>2 DEF SarifInv
<1>3. ASSUME UNCHANGED sarif, pc \in {"loop", "render"}
      PROVE  SarifInv'
  BY <1>3 DEF SarifInv
<1>4. CASE LoopCancelled \/ Render
  BY <1>3, <1>4 DEF LoopCancelled, Render, GoTo
<1>5. CASE UNCHANGED vars
  BY <1>2, <1>5 DEF vars
<1>6. CASE Signal \/ Kill
  BY <1>2, <1>6 DEF Signal, Kill
<1>7. CASE \/ Setup \/ LoopAnalyze \/ LoopDone \/ AnalysisAnswers \/ AnalysisFails
           \/ ReviewSkipped \/ ReviewFails \/ ReviewAnswers \/ Persist
           \/ WriteArtifacts \/ Exit \/ PublishOutputs
  BY <1>2, <1>7 DEF Setup, LoopAnalyze, LoopDone, AnalysisAnswers, AnalysisFails,
     ReviewSkipped, ReviewFails, ReviewAnswers, Persist, WriteArtifacts, Exit,
     PublishOutputs, GoTo
<1> QED
  BY <1>1, <1>4, <1>5, <1>6, <1>7 DEF Next, Step

LEMMA ShownStep ==
  ASSUME TypeOK, ShownInv, [Next]_vars
  PROVE  ShownInv'
<1>1. CASE LoopCancelled
  <2>1. cur' = cur /\ Fits(Failed)
    BY <1>1 DEF LoopCancelled, Fits, Failed, Fresh, ShownIn, Parsed, Answers
  <2>2. \A k \in DOMAIN results' :
          (k \in DOMAIN results /\ results'[k] = results[k]) \/ results'[k] = Failed
    BY <1>1, OneMore DEF LoopCancelled, RecordCancelled, Record, TypeOK
  <2> QED
    BY <2>1, <2>2 DEF ShownInv
<1>2. CASE LoopAnalyze
  <2>1. results' = results /\ cur' = Fresh
    BY <1>2 DEF LoopAnalyze
  <2>2. Fits(Fresh)
    BY DEF Fits, Fresh, ShownIn, Parsed, Answers
  <2> QED
    BY <2>1, <2>2 DEF ShownInv
<1>3. CASE AnalysisAnswers
  <2>1. PICK text \in Texts : \E shown \in ShownIn(text) :
          cur' = [cur EXCEPT !.raw = text, !.shown = shown, !.first = text]
    BY <1>3 DEF AnalysisAnswers
  <2>0. PICK shown \in ShownIn(text) :
          cur' = [cur EXCEPT !.raw = text, !.shown = shown, !.first = text]
    BY <2>1
  <2>2. cur'.raw = text /\ cur'.shown = shown /\ results' = results
    BY <1>3, <2>0 DEF AnalysisAnswers, TypeOK, ResultsOK, Result
  <2> QED
    BY <2>2 DEF ShownInv, Fits
<1>4. ASSUME cur'.raw = cur.raw, cur'.shown = cur.shown, results' = results
      PROVE  ShownInv'
  BY <1>4 DEF ShownInv, Fits
<1>5. CASE AnalysisFails
  BY <1>4, <1>5 DEF AnalysisFails, TypeOK, ResultsOK, Result
<1>6. CASE ReviewFails
  BY <1>4, <1>6 DEF ReviewFails, TypeOK, ResultsOK, Result
<1>7. CASE ReviewAnswers
  <2>1. PICK c \in Challenge, b \in {"cited", "uncited"} :
          cur' = IF Overturns([reachable |-> cur.raw], c)
                 THEN [cur EXCEPT !.raw = c.reachable, !.shown = c.reachable,
                                  !.basis = b]
                 ELSE [cur EXCEPT !.basis = b]
    BY <1>7 DEF ReviewAnswers
  <2>2. results' = results
    BY <1>7 DEF ReviewAnswers
  <2>3. CASE Overturns([reachable |-> cur.raw], c)
    <3>1. c.reachable \in Answers
      BY <2>3 DEF Overturns, Challenge, Answers
    <3>2. cur'.raw = c.reachable /\ cur'.shown = c.reachable
      BY <2>1, <2>3 DEF TypeOK, ResultsOK, Result
    <3> QED
      BY <2>2, <3>1, <3>2 DEF ShownInv, Fits, ShownIn, Parsed
  <2>4. CASE ~Overturns([reachable |-> cur.raw], c)
    BY <1>4, <2>1, <2>2, <2>4 DEF TypeOK, ResultsOK, Result
  <2> QED
    BY <2>3, <2>4
<1>8. CASE Render
  <2>1. cur' = cur
    BY <1>8 DEF Render
  <2>2. PICK r \in Result : /\ r.raw = cur.raw /\ r.shown = cur.shown
                            /\ results' = Append(results, r)
    BY <1>8, Rendered
  <2>3. \A k \in DOMAIN results' :
          (k \in DOMAIN results /\ results'[k] = results[k]) \/ results'[k] = r
    BY <2>2, OneMore DEF TypeOK
  <2> QED
    BY <2>1, <2>2, <2>3 DEF ShownInv, Fits
<1>9. CASE UNCHANGED <<cur, results>>
  BY <1>4, <1>9
<1> QED
  BY <1>1, <1>2, <1>3, <1>5, <1>6, <1>7, <1>8, <1>9 DEF Next, Step, vars, Setup,
     LoopDone, ReviewSkipped, Persist, WriteArtifacts, WriteSarif, Exit,
     PublishOutputs, Signal, Kill

LEMMA OutputStep ==
  ASSUME TypeOK, LoopInv, OutputInv, [Next]_vars
  PROVE  OutputInv'
<1> USE DEF fileVars
<1>1. CASE PublishOutputs
  <2>1. pc' = "published" /\ verdictsJson' = verdictsJson
    BY <1>1 DEF PublishOutputs, GoTo
  <2>2. outputs' = IF verdictsJson.from \in {"none", "torn"} THEN ""
                   ELSE IF \E k \in DOMAIN verdictsJson.answers :
                             verdictsJson.answers[k] = "yes"
                        THEN "yes" ELSE "no"
    BY <1>1 DEF PublishOutputs
  <2> QED
    BY <2>1, <2>2 DEF OutputInv
<1>2. CASE WriteArtifacts
  <2>1. pc = "artifacts" /\ outputs' = outputs
    BY <1>2 DEF WriteArtifacts, GoTo
  <2>2. outputs \notin {"yes", "no"}
    BY <2>1 DEF OutputInv
  <2>3. verdictsJson'.from \in {"this", "torn"} \/ verdictsJson' = verdictsJson
    BY <1>2 DEF WriteArtifacts
  <2> QED
    BY <2>1, <2>2, <2>3 DEF OutputInv
<1>3. ASSUME UNCHANGED <<verdictsJson, outputs>>, pc = "published" => pc' = pc
      PROVE  OutputInv'
  BY <1>3 DEF OutputInv
<1>4. CASE UNCHANGED vars
  BY <1>3, <1>4 DEF vars
<1>5. CASE Kill
  BY <1>3, <1>5 DEF Kill, LoopInv
<1>6. CASE \/ Setup \/ LoopCancelled \/ LoopAnalyze \/ LoopDone
           \/ AnalysisAnswers \/ AnalysisFails \/ ReviewSkipped \/ ReviewFails
           \/ ReviewAnswers \/ Persist \/ Render \/ WriteSarif \/ Exit \/ Signal
  BY <1>3, <1>6 DEF Setup, LoopCancelled, LoopAnalyze, LoopDone, AnalysisAnswers,
     AnalysisFails, ReviewSkipped, ReviewFails, ReviewAnswers, Persist, Render,
     WriteSarif, Exit, Signal, GoTo
<1> QED
  BY <1>1, <1>2, <1>4, <1>5, <1>6 DEF Next, Step

(* There are never more results than findings.                             *)
LEMMA LengthStep ==
  ASSUME TypeOK, LoopInv, Len(results) <= N, [Next]_vars
  PROVE  Len(results') <= N
<1>0. N \in Nat /\ i \in Nat /\ Len(results) \in Nat
  BY Numbers
<1>1. CASE LoopCancelled
  <2>1. Len(results') = Len(results) + 1
    BY <1>1, OneMore DEF LoopCancelled, RecordCancelled, Record, TypeOK
  <2>2. Len(results) = i - 1 /\ i <= N
    BY <1>1 DEF LoopCancelled, LoopInv
  <2> QED
    BY <1>0, <2>1, <2>2
<1>2. CASE Render
  <2>1. PICK r \in Result : results' = Append(results, r)
    BY <1>2, Rendered
  <2>2. Len(results') = Len(results) + 1
    BY <2>1, OneMore DEF TypeOK
  <2>3. Len(results) = i - 1 /\ i <= N
    BY <1>2 DEF Render, GoTo, LoopInv, AtFinding
  <2> QED
    BY <1>0, <2>2, <2>3
<1>3. CASE UNCHANGED results
  BY <1>3
<1> QED
  BY <1>1, <1>2, <1>3 DEF Next, Step, vars, Setup, LoopAnalyze, LoopDone,
     AnalysisAnswers, AnalysisFails, ReviewSkipped, ReviewFails, ReviewAnswers,
     Persist, WriteArtifacts, WriteSarif, Exit, PublishOutputs, Signal, Kill

AccountsInv ==
  /\ LoopInv /\ FailedInv /\ Len(results) <= N
  /\ VerdictsInv /\ AggregateInv /\ SarifInv /\ ShownInv /\ OutputInv

LEMMA AccountsInductive ==
  /\ Init => AccountsInv
  /\ TypeOK /\ AccountsInv /\ [Next]_vars => AccountsInv'
<1>1. ASSUME Init PROVE AccountsInv
  <2>1. /\ pc = "setup" /\ results = <<>> /\ i = 1 /\ exit = -1
        /\ outputs = "unset" /\ cur = Fresh
    BY <1>1 DEF Init
  <2>2. LoopInv /\ FailedInv
    BY <2>1, FreshIsResult DEF LoopInv, FailedInv, AtFinding, Completed, Running
  <2>3. verdictsJson.from \in {"none", "former"} /\ (~Former => verdictsJson.from = "none")
    BY <1>1 DEF Init, FormerJson, NoJson
  <2>4. AggregateInv /\ OutputInv
    BY <2>1, <2>3 DEF AggregateInv, OutputInv
  <2>8. SarifInv
    BY <1>1 DEF Init, FormerSarif, NoSarif, SarifInv
  <2>9. ShownInv
    <3>1. Fits(Fresh)
      BY DEF Fits, Fresh, ShownIn, Parsed, Answers
    <3> QED
      BY <2>1, <3>1 DEF ShownInv
  <2>5. \A k \in 1..N : verdictFile[k] \notin Texts
    BY <1>1 DEF Init, Texts, Answers
  <2>6. VerdictsInv
    BY <2>1, <2>5 DEF VerdictsInv
  <2>7. Len(results) <= N
    <3>1. N \in Nat
      BY ScanAssumption
    <3>2. Len(<<>>) = 0
      OBVIOUS
    <3> QED
      BY <2>1, <3>1, <3>2
  <2> QED
    BY <2>2, <2>4, <2>6, <2>7, <2>8, <2>9 DEF AccountsInv
<1>2. TypeOK /\ AccountsInv /\ [Next]_vars => AccountsInv'
  BY LoopStep, FailedStep, LengthStep, VerdictsStep, AggregateStep, SarifStep,
     ShownStep, OutputStep
     DEF AccountsInv
<1> QED
  BY <1>1, <1>2

(* What the aggregate gives for a result, and when it gives a "yes".       *)
LEMMA EnvelopeGives ==
  ASSUME NEW r \in Result, Fits(r)
  PROVE  /\ \/ Envelope(r) = r.raw
            \/ /\ Envelope(r) = "none"
               /\ r.err \/ ~Parsed(r.raw) \/ r.shown = "none"
         /\ Envelope(r) = "yes" <=> ~r.err /\ r.raw = "yes" /\ r.shown = "yes"
<1>1. Parsed("yes") /\ ~Parsed("none")
  BY DEF Parsed, Answers
<1>2. CASE ~r.err /\ Parsed(r.raw)
  BY <1>1, <1>2 DEF Envelope, Fits, ShownIn
<1>3. CASE r.err \/ ~Parsed(r.raw)
  BY <1>1, <1>3 DEF Envelope
<1> QED
  BY <1>2, <1>3

(* An alert is classified as CountResults counts its result.               *)
LEMMA OutcomeIsClass ==
  ASSUME NEW r \in Result
  PROVE  /\ ResultOutcome(r) = "reachable" <=> Class(r) = "reachable"
         /\ ResultOutcome(r) = "notReachable" <=> Class(r) = "notReachable"
<1>1. Parsed("yes") /\ Parsed("no")
  BY DEF Parsed, Answers
<1> QED
  BY <1>1, ClassOf DEF ResultOutcome, Outcome

(* The files of a run tell the answers its results, and its exit code, are *)
(* made of, for every number of findings, whatever fails.                  *)
THEOREM FilesTellResults == Spec => []AccountsAgree
<1>1. TypeOK /\ AccountsInv => AccountsAgree
  <2> SUFFICES ASSUME TypeOK, AccountsInv PROVE AccountsAgree
    OBVIOUS
  <2>1. /\ Len(results) \in Nat /\ DOMAIN results = 1..Len(results)
        /\ \A k \in DOMAIN results : results[k] \in Result
    BY DEF TypeOK, ResultsOK
  <2>2. DOMAIN results \subseteq 1..N
    BY <2>1, Numbers DEF AccountsInv
  <2>3. ASSUME NEW k \in DOMAIN results,
               verdictFile[k] \notin {"none", "former", "torn"}
        PROVE  verdictFile[k] = results[k].raw
    <3>1. verdictFile[k] \in Texts
      BY <2>2, <2>3 DEF TypeOK, FilesOK
    <3> QED
      BY <3>1 DEF AccountsInv, VerdictsInv
  <2>4. ASSUME verdictsJson.from = "this"
        PROVE  /\ Len(verdictsJson.answers) = Len(results)
               /\ \A k \in DOMAIN results :
                    \/ verdictsJson.answers[k] = results[k].raw
                    \/ /\ verdictsJson.answers[k] = "none"
                       /\ \/ results[k].err \/ ~Parsed(results[k].raw)
                          \/ results[k].shown = "none"
    <3>1. verdictsJson.answers = [k \in DOMAIN results |-> Envelope(results[k])]
      BY <2>4 DEF AccountsInv, AggregateInv
    <3>2. verdictsJson.answers \in Seq(Answers \cup {"none"})
      BY DEF TypeOK, FilesOK
    <3>3. DOMAIN verdictsJson.answers = 1..Len(results)
      BY <2>1, <3>1
    <3>4. Len(verdictsJson.answers) = Len(results)
      BY <2>1, <3>2, <3>3
    <3> QED
      BY <2>1, <3>1, <3>4, EnvelopeGives DEF AccountsInv, ShownInv
  <2>5. ASSUME sarif.from = "this"
        PROVE  /\ Len(sarif.outcomes) = Len(results)
               /\ \A k \in DOMAIN results :
                    /\ sarif.outcomes[k] = "reachable"
                         <=> Class(results[k]) = "reachable"
                    /\ sarif.outcomes[k] = "notReachable"
                         <=> Class(results[k]) = "notReachable"
    <3>1. sarif.outcomes = [k \in DOMAIN results |-> ResultOutcome(results[k])]
      BY <2>5 DEF AccountsInv, SarifInv
    <3>2. sarif.outcomes \in Seq(Outcomes)
      BY DEF TypeOK, FilesOK
    <3>3. DOMAIN sarif.outcomes = 1..Len(results)
      BY <2>1, <3>1
    <3>4. Len(sarif.outcomes) = Len(results)
      BY <2>1, <3>2, <3>3
    <3> QED
      BY <2>1, <3>1, <3>4, OutcomeIsClass
  <2> QED
    BY <2>3, <2>4, <2>5 DEF AccountsAgree
<1>2. Init => AccountsInv
  BY AccountsInductive
<1>3. TypeOK /\ AccountsInv /\ [Next]_vars => AccountsInv'
  BY AccountsInductive
<1> QED
  BY <1>1, <1>2, <1>3, TypeCorrect, PTL DEF Spec

(* In a clean output directory an output that is set is that of the whole  *)
(* scan, after a kill or a failed write too, and agrees with the gate.     *)
THEOREM OutputsAreRight ==
  ASSUME Former = FALSE
  PROVE  Spec => []OutputsRight
<1>1. TypeOK /\ AccountsInv /\ GateHolds => OutputsRight
  <2> SUFFICES ASSUME TypeOK, AccountsInv, GateHolds, outputs \in {"yes", "no"}
               PROVE  /\ Len(results) = N
                      /\ outputs = "yes" => Says("yes")
                      /\ outputs = "no" =>
                           ~HasResult(LAMBDA r : ~r.err /\ r.raw = "yes" /\ r.shown = "yes")
                      /\ Completed /\ FailOn # "" /\ outputs = "yes" => exit = 2
    BY DEF OutputsRight
  <2>1. /\ verdictsJson.from \notin {"none", "torn", "former"}
        /\ outputs = "yes" <=> \E k \in DOMAIN verdictsJson.answers :
                                 verdictsJson.answers[k] = "yes"
    BY DEF AccountsInv, OutputInv
  <2>2. verdictsJson.from = "this"
    BY <2>1 DEF TypeOK, FilesOK
  <2>3. /\ Len(results) = N
        /\ verdictsJson.answers = [k \in DOMAIN results |-> Envelope(results[k])]
    BY <2>2 DEF AccountsInv, AggregateInv
  <2>4. \A k \in DOMAIN results :
          Envelope(results[k]) = "yes" <=>
            ~results[k].err /\ results[k].raw = "yes" /\ results[k].shown = "yes"
    BY EnvelopeGives DEF TypeOK, ResultsOK, AccountsInv, ShownInv
  <2>5. outputs = "yes" => Says("yes")
    BY <2>1, <2>3, <2>4 DEF Says, HasResult
  <2>7. outputs = "no" =>
          ~HasResult(LAMBDA r : ~r.err /\ r.raw = "yes" /\ r.shown = "yes")
    BY <2>1, <2>3, <2>4 DEF HasResult
  <2>6. ASSUME Completed, FailOn # "", outputs = "yes" PROVE exit = 2
    <3>1. PICK k \in DOMAIN results : results[k].raw = "yes"
      BY <2>5, <2>6 DEF Says, HasResult
    <3>2. k \in 1..N
      BY <2>3 DEF TypeOK, ResultsOK
    <3>3. CASE FailOn = "uncertain"
      BY <2>6, <3>1, <3>2, <3>3 DEF GateHolds, Completed
    <3>4. CASE FailOn = "reachable"
      BY <2>5, <2>6, <3>4 DEF GateHolds, Completed
    <3> QED
      BY <2>6, <3>3, <3>4, ScanAssumption
  <2> QED
    BY <2>3, <2>5, <2>6, <2>7
<1>2. Init => AccountsInv
  BY AccountsInductive
<1>3. TypeOK /\ AccountsInv /\ [Next]_vars => AccountsInv'
  BY AccountsInductive
<1> QED
  BY <1>1, <1>2, <1>3, TypeCorrect, GateFailsClosed, PTL DEF Spec
-----------------------------------------------------------------------------
(* The counts.                                                             *)

LEMMA CountIsOf ==
  ASSUME ResultsOK, NEW class
  PROVE  /\ IsFiniteSet({k \in DOMAIN results : Class(results[k]) = class})
         /\ CountOf(class) \in Nat
<1>1. IsFiniteSet(DOMAIN results)
  <2>1. Len(results) \in Nat /\ DOMAIN results = 1..Len(results)
    BY DEF ResultsOK
  <2> QED
    BY <2>1, FS_Interval
<1>2. IsFiniteSet({k \in DOMAIN results : Class(results[k]) = class})
  BY <1>1, FS_Subset
<1> QED
  BY <1>2, FS_CardinalityType DEF CountOf

LEMMA DisjointUnion ==
  ASSUME NEW S, IsFiniteSet(S), NEW T, IsFiniteSet(T), S \cap T = {}
  PROVE  /\ IsFiniteSet(S \cup T)
         /\ Cardinality(S \cup T) = Cardinality(S) + Cardinality(T)
<1>1. Cardinality(S \cap T) = 0
  BY FS_EmptySet
<1>2. Cardinality(S) \in Nat /\ Cardinality(T) \in Nat
  BY FS_CardinalityType
<1>3. /\ IsFiniteSet(S \cup T)
      /\ Cardinality(S \cup T) =
           Cardinality(S) + Cardinality(T) - Cardinality(S \cap T)
  BY FS_Union
<1> QED
  BY <1>1, <1>2, <1>3

(* The five classes take in every result once.                             *)
LEMMA CountsAddUp ==
  ASSUME ResultsOK
  PROVE  CountOf("reachable") + CountOf("notReachable") + CountOf("uncertain")
           + CountOf("unparsed") + CountOf("errors") = Len(results)
<1> DEFINE Of(class) == {k \in DOMAIN results : Class(results[k]) = class}
           A == Of("reachable")
           B == Of("notReachable")
           C == Of("uncertain")
           D == Of("unparsed")
           E == Of("errors")
<1>1. Len(results) \in Nat /\ DOMAIN results = 1..Len(results)
  BY DEF ResultsOK
<1>2. \A k \in DOMAIN results :
        Class(results[k]) \in {"reachable", "notReachable", "uncertain",
                               "unparsed", "errors"}
  BY DEF Class
<1>3. A \cup B \cup C \cup D \cup E = 1..Len(results)
  BY <1>1, <1>2
<1>4. /\ A \cap B = {} /\ (A \cup B) \cap C = {}
      /\ (A \cup B \cup C) \cap D = {} /\ (A \cup B \cup C \cup D) \cap E = {}
  OBVIOUS
<1>5. /\ IsFiniteSet(A) /\ IsFiniteSet(B) /\ IsFiniteSet(C) /\ IsFiniteSet(D)
      /\ IsFiniteSet(E)
  BY CountIsOf
<1>6. /\ CountOf("reachable") = Cardinality(A) /\ CountOf("notReachable") = Cardinality(B)
      /\ CountOf("uncertain") = Cardinality(C) /\ CountOf("unparsed") = Cardinality(D)
      /\ CountOf("errors") = Cardinality(E)
  BY DEF CountOf
<1> HIDE DEF A, B, C, D, E
<1>7. /\ IsFiniteSet(A \cup B)
      /\ Cardinality(A \cup B) = Cardinality(A) + Cardinality(B)
  BY <1>4, <1>5, DisjointUnion
<1>8. /\ IsFiniteSet(A \cup B \cup C)
      /\ Cardinality(A \cup B \cup C) = Cardinality(A \cup B) + Cardinality(C)
  BY <1>4, <1>5, <1>7, DisjointUnion
<1>9. /\ IsFiniteSet(A \cup B \cup C \cup D)
      /\ Cardinality(A \cup B \cup C \cup D) = Cardinality(A \cup B \cup C) + Cardinality(D)
  BY <1>4, <1>5, <1>8, DisjointUnion
<1>10. Cardinality(A \cup B \cup C \cup D \cup E)
         = Cardinality(A \cup B \cup C \cup D) + Cardinality(E)
  BY <1>4, <1>5, <1>9, DisjointUnion
<1>11. Cardinality(1..Len(results)) = Len(results)
  <2>1. /\ IsFiniteSet(1..Len(results))
        /\ Cardinality(1..Len(results)) =
             IF 1 > Len(results) THEN 0 ELSE Len(results) - 1 + 1
    BY <1>1, FS_Interval
  <2> QED
    BY <1>1, <2>1
<1> QED
  BY <1>3, <1>6, <1>7, <1>8, <1>9, <1>10, <1>11

(* A run that ends by itself counts every finding once, for every number   *)
(* of findings, cancelled and failing runs included.                       *)
THEOREM AllAreCounted == Spec => []EveryFindingCounted
<1>1. TypeOK /\ AccountsInv => EveryFindingCounted
  BY CountsAddUp DEF TypeOK, AccountsInv, LoopInv, EveryFindingCounted
<1>2. Init => AccountsInv
  BY AccountsInductive
<1>3. TypeOK /\ AccountsInv /\ [Next]_vars => AccountsInv'
  BY AccountsInductive
<1> QED
  BY <1>1, <1>2, <1>3, TypeCorrect, PTL DEF Spec
-----------------------------------------------------------------------------
(* The cost.                                                               *)

InRound == pc \in {"persist", "render"}

(* What a total lacks is the usage of a session that failed, which some    *)
(* result tells, or the one under construction.                            *)
CostInv ==
  /\ used.analysis <= made.analysis /\ used.review <= made.review
  /\ Running \/ Completed =>
       /\ \/ \E k \in DOMAIN results : results[k].err
          \/ InRound /\ cur.err
          \/ used.analysis = made.analysis
       /\ \/ \E k \in DOMAIN results : results[k].basis = "failed"
          \/ InRound /\ cur.basis = "failed"
          \/ used.review = made.review

LEMMA SessionCosts ==
  ASSUME UsageOK, NEW q \in Nat, NEW h \in BOOLEAN
  PROVE  /\ Session("analysis", q, h) =>
              /\ used'.review = used.review /\ made'.review = made.review
              /\ made'.analysis = made.analysis + q
              /\ used'.analysis = IF h THEN used.analysis + q ELSE used.analysis
         /\ Session("review", q, h) =>
              /\ used'.analysis = used.analysis /\ made'.analysis = made.analysis
              /\ made'.review = made.review + q
              /\ used'.review = IF h THEN used.review + q ELSE used.review
         /\ used.analysis \in Nat /\ made.analysis \in Nat
         /\ used.review \in Nat /\ made.review \in Nat
  BY DEF Session, UsageOK

LEMMA CostStep ==
  ASSUME TypeOK, LoopInv, CostInv, [Next]_vars
  PROVE  CostInv'
<1> USE DEF Running, Completed, InRound
<1>1. CASE AnalysisAnswers
  <2>1. PICK q \in 1..MaxRequests : Session("analysis", q, TRUE)
    BY <1>1 DEF AnalysisAnswers
  <2>2. q \in Nat
    BY RequestsAreNat
  <2>3. /\ used'.review = used.review /\ made'.review = made.review
        /\ made'.analysis = made.analysis + q /\ used'.analysis = used.analysis + q
        /\ used.analysis \in Nat /\ made.analysis \in Nat
    BY <2>1, <2>2, SessionCosts DEF TypeOK
  <2>4. pc = "analyze" /\ pc' = "review" /\ results' = results /\ exit' = exit
    BY <1>1 DEF AnalysisAnswers, GoTo
  <2> QED
    BY <2>2, <2>3, <2>4 DEF CostInv
<1>2. CASE AnalysisFails
  <2>1. PICK q \in 0..MaxRequests, h \in BOOLEAN : Session("analysis", q, h)
    BY <1>2 DEF AnalysisFails
  <2>2. q \in Nat
    BY RequestsAreNat
  <2>3. /\ used'.review = used.review /\ made'.review = made.review
        /\ made'.analysis = made.analysis + q
        /\ used'.analysis = IF h THEN used.analysis + q ELSE used.analysis
        /\ used.analysis \in Nat /\ made.analysis \in Nat
    BY <2>1, <2>2, SessionCosts DEF TypeOK
  <2>4. /\ pc = "analyze" /\ pc' = "persist" /\ results' = results /\ exit' = exit
        /\ cur' = [cur EXCEPT !.err = TRUE]
    BY <1>2 DEF AnalysisFails, GoTo
  <2>5. cur'.err /\ cur'.basis = cur.basis
    BY <2>4 DEF TypeOK, ResultsOK, Result
  <2>6. used'.analysis <= made'.analysis
    BY <2>2, <2>3 DEF CostInv
  <2> QED
    BY <2>3, <2>4, <2>5, <2>6 DEF CostInv
<1>3. CASE ReviewFails
  <2>1. PICK q \in 0..MaxRequests, h \in BOOLEAN : Session("review", q, h)
    BY <1>3 DEF ReviewFails
  <2>2. q \in Nat
    BY RequestsAreNat
  <2>3. /\ used'.analysis = used.analysis /\ made'.analysis = made.analysis
        /\ made'.review = made.review + q
        /\ used'.review = IF h THEN used.review + q ELSE used.review
        /\ used.review \in Nat /\ made.review \in Nat
    BY <2>1, <2>2, SessionCosts DEF TypeOK
  <2>4. /\ pc = "review" /\ pc' = "persist" /\ results' = results /\ exit' = exit
        /\ cur' = [cur EXCEPT !.basis = "failed"]
    BY <1>3 DEF ReviewFails, GoTo
  <2>5. cur'.basis = "failed" /\ cur'.err = cur.err
    BY <2>4 DEF TypeOK, ResultsOK, Result
  <2>6. used'.review <= made'.review
    BY <2>2, <2>3 DEF CostInv
  <2> QED
    BY <2>3, <2>4, <2>5, <2>6 DEF CostInv
<1>4. CASE ReviewAnswers
  <2>1. PICK q \in 1..MaxRequests : Session("review", q, TRUE)
    BY <1>4 DEF ReviewAnswers
  <2>2. q \in Nat
    BY RequestsAreNat
  <2>3. /\ used'.analysis = used.analysis /\ made'.analysis = made.analysis
        /\ made'.review = made.review + q /\ used'.review = used.review + q
        /\ used.review \in Nat /\ made.review \in Nat
    BY <2>1, <2>2, SessionCosts DEF TypeOK
  <2>4. pc = "review" /\ results' = results /\ exit' = exit
    BY <1>4 DEF ReviewAnswers, GoTo
  <2> QED
    BY <2>2, <2>3, <2>4 DEF CostInv
<1>5. CASE Render
  <2>1. PICK r \in Result : /\ r.err = cur.err /\ r.basis = cur.basis
                            /\ results' = Append(results, r)
    BY <1>5, Rendered
  <2>2. /\ DOMAIN results = 1..Len(results) /\ Len(results) \in Nat
        /\ DOMAIN results' = 1..(Len(results) + 1)
        /\ \A k \in 1..Len(results) : results'[k] = results[k]
        /\ results'[Len(results) + 1] = r
    BY <2>1, Appended DEF TypeOK
  <2>3. \A k \in DOMAIN results : k \in DOMAIN results' /\ results'[k] = results[k]
    BY <2>2
  <2>4. Len(results) + 1 \in DOMAIN results'
    BY <2>2
  <2>5. used' = used /\ exit' = exit
    BY <1>5 DEF Render
  <2>6. made'.analysis = made.analysis /\ made'.review = made.review
    BY <1>5 DEF Render, TypeOK, UsageOK
  <2> QED
    BY <2>1, <2>2, <2>3, <2>4, <2>5, <2>6 DEF CostInv
<1>6. CASE LoopCancelled
  <2>1. UNCHANGED <<used, made, exit, pc>> /\ pc = "loop" /\ results' = Append(results, Failed)
    BY <1>6 DEF LoopCancelled, RecordCancelled, Record
  <2>2. /\ DOMAIN results = 1..Len(results) /\ Len(results) \in Nat
        /\ DOMAIN results' = 1..(Len(results) + 1)
        /\ \A k \in 1..Len(results) : results'[k] = results[k]
    BY <2>1, Appended DEF TypeOK
  <2>3. \A k \in DOMAIN results : k \in DOMAIN results' /\ results'[k] = results[k]
    BY <2>2
  <2> QED
    BY <2>1, <2>3 DEF CostInv
<1>7. ASSUME UNCHANGED <<results, used, made>>,
             Running' \/ Completed' =>
               (Running \/ Completed) /\ (InRound => InRound' /\ cur' = cur)
      PROVE  CostInv'
  BY <1>7 DEF CostInv
<1>8. CASE Kill
  BY <1>7, <1>8 DEF Kill
<1>9. CASE UNCHANGED vars
  BY <1>7, <1>9 DEF vars
<1>10. CASE Setup \/ LoopAnalyze \/ LoopDone
  BY <1>7, <1>10 DEF Setup, LoopAnalyze, LoopDone, GoTo
<1>12. CASE ReviewSkipped \/ Persist
  BY <1>7, <1>12 DEF ReviewSkipped, Persist, GoTo
<1>13. CASE WriteArtifacts \/ WriteSarif
  BY <1>7, <1>13 DEF WriteArtifacts, WriteSarif, GoTo
<1>14. CASE PublishOutputs \/ Signal
  BY <1>7, <1>14 DEF PublishOutputs, Signal, GoTo
<1>11. CASE Exit
  <2>1. pc = "count" /\ Running
    BY <1>11 DEF Exit, GoTo, LoopInv
  <2> QED
    BY <1>7, <1>11, <2>1 DEF Exit, GoTo
<1> QED
  BY <1>1, <1>2, <1>3, <1>4, <1>5, <1>6, <1>8, <1>9, <1>10, <1>11, <1>12,
     <1>13, <1>14 DEF Next, Step

(* The totals lack the usage of failed sessions and nothing else, for      *)
(* every number of findings and of requests.                               *)
THEOREM CostIsExact == Spec => []CostExact
<1>1. LoopInv /\ CostInv => CostExact
  BY DEF CostInv, CostExact, LoopInv, Completed, Running, InRound, HasResult
<1>2. Init => CostInv
  BY DEF Init, CostInv
<1>3. TypeOK /\ LoopInv /\ CostInv /\ [Next]_vars => CostInv'
  BY CostStep
<1>4. Init => AccountsInv
  BY AccountsInductive
<1>5. TypeOK /\ AccountsInv /\ [Next]_vars => AccountsInv'
  BY AccountsInductive
<1>6. AccountsInv => LoopInv
  BY DEF AccountsInv
<1> QED
  BY <1>1, <1>2, <1>3, <1>4, <1>5, <1>6, TypeCorrect, PTL DEF Spec
=============================================================================
