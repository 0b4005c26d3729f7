------------------------------ MODULE ScanRun -------------------------------
(***************************************************************************)
(* One run of xpsd in scan mode inside the container action: setup, the    *)
(* sequential loop over the findings (RunScan with the Analyze and Render  *)
(* callbacks of runScanMode), the adversarial review of each verdict, the  *)
(* artifacts on disk, the exit code, and the action outputs the entrypoint *)
(* derives from those artifacts afterwards.  A SIGTERM cancels the run's   *)
(* context at any moment; a SIGKILL ends the process between any two       *)
(* steps.  Any file write may fail.                                        *)
(*                                                                         *)
(* A session is one step when it returns: how it spends its tool calls is  *)
(* the module React.  Requests are what a session costs.                   *)
(***************************************************************************)
EXTENDS Integers, Sequences, FiniteSets, Challenge

CONSTANTS
  N,           \* findings selected for analysis
  Adversary,   \* -adversary-cycles > 0
  Markdown,    \* ~ -no-markdown
  FailOn,      \* -fail-on
  Former,      \* did a former run leave its artifacts in the output directory?
  MaxRequests  \* bound: LLM requests of one session

ASSUME ScanAssumption ==
  /\ N \in Nat /\ MaxRequests \in Nat \ {0}
  /\ Adversary \in BOOLEAN /\ Markdown \in BOOLEAN /\ Former \in BOOLEAN
  /\ FailOn \in {"", "reachable", "uncertain"}

VARIABLES
  pc,           \* where the run is
  i,            \* the finding the loop is at
  cancelled,    \* ctx.Err() # nil
  cur,          \* the FindingResult under construction
  results,      \* what RunScan has collected
  verdictFile,  \* findings/<i>/verdict.json: whose answer it holds
  verdictsJson, \* verdicts.json: which run wrote it and the answers in it
  sarif,        \* the SARIF file: which run wrote it, and its outcomes
  used,         \* totalUsage and reviewUsage
  made,         \* requests the sessions made, by kind of session
  exit,         \* exit code, -1 while running
  outputs       \* the action's "reachable" output

fileVars == <<verdictFile, verdictsJson, sarif>>
vars == <<pc, i, cancelled, cur, results, fileVars, used, made, exit, outputs>>

(* shown: what the entrypoint is shown of the text; first: the first       *)
(* pass's answer; basis: what came of the review.                          *)
Bases  == {"none", "failed", "uncited", "cited"}
Result == [raw : Texts, shown : Answers \cup {"none"}, err : BOOLEAN,
           report : BOOLEAN, first : Texts, basis : Bases]
Fresh  == [raw |-> "blank", shown |-> "none", err |-> FALSE, report |-> FALSE,
           first |-> "blank", basis |-> "none"]
Failed == [Fresh EXCEPT !.err = TRUE]

(* The artifacts a former run left: one finding, judged reachable.         *)
FormerJson  == [from |-> "former", answers |-> <<"yes">>]
NoJson      == [from |-> "none", answers |-> <<>>]
FormerSarif == [from |-> "former", outcomes |-> <<"reachable">>]
NoSarif     == [from |-> "none", outcomes |-> <<>>]

Running == exit = -1

-----------------------------------------------------------------------------
(* Forms some definitions below would take under a slip in the code.       *)
SkipCancelled == UNCHANGED results
SessionSets(kind, q, handsOver) ==
  /\ made' = [made EXCEPT ![kind] = @ + q]
  /\ used' = IF handsOver THEN [used EXCEPT ![kind] = q] ELSE used
StoreFirst(text) == verdictFile' = [verdictFile EXCEPT ![i] = cur.first]
FirstAnswer(r)   == IF ~r.err /\ Parsed(r.first) THEN r.first ELSE "none"

-----------------------------------------------------------------------------
Init ==
  /\ pc = "setup" /\ i = 1 /\ cancelled = FALSE /\ cur = Fresh
  /\ results = <<>>
  /\ verdictFile = [f \in 1..N |-> IF Former THEN "former" ELSE "none"]
  /\ verdictsJson = IF Former THEN FormerJson ELSE NoJson
  /\ sarif = IF Former THEN FormerSarif ELSE NoSarif
  /\ used = [analysis |-> 0, review |-> 0]
  /\ made = [analysis |-> 0, review |-> 0, render |-> 0]
  /\ exit = -1 /\ outputs = "unset"

GoTo(from, to) == pc = from /\ pc' = to

(* Scan parsing, child processes and the Copilot client, up to runScanMode.*)
Setup ==
  /\ pc = "setup"
  /\ \/ pc' = "loop" /\ UNCHANGED exit
     \/ pc' = "exited" /\ exit' = 1
  /\ UNCHANGED <<i, cancelled, cur, results, fileVars, used, made, outputs>>

-----------------------------------------------------------------------------
(* RunScan: one round of the loop per finding.                             *)

Record(r) == results' = Append(results, r)

(* A finding whose turn comes after the cancellation is recorded, unasked. *)
RecordCancelled == Record(Failed)

LoopCancelled ==
  /\ pc = "loop" /\ i <= N /\ cancelled
  /\ RecordCancelled
  /\ i' = i + 1
  /\ UNCHANGED <<pc, cancelled, cur, fileVars, used, made, exit, outputs>>

LoopAnalyze ==
  /\ GoTo("loop", "analyze") /\ i <= N /\ ~cancelled
  /\ cur' = Fresh
  /\ UNCHANGED <<i, cancelled, results, fileVars, used, made, exit, outputs>>

LoopDone ==
  /\ GoTo("loop", "artifacts") /\ i > N
  /\ UNCHANGED <<i, cancelled, cur, results, fileVars,
                 used, made, exit, outputs>>

(* A session made q requests.  RunSession hands its usage over when it has *)
(* an answer, an empty one included; when SendAndWait or anything before   *)
(* it fails, the usage stays zero.  A session answers only before the run  *)
(* is cancelled: a cancellation that no longer stops it comes after it.    *)
Session(kind, q, handsOver) ==
  /\ made' = [made EXCEPT ![kind] = @ + q]
  /\ used' = IF handsOver THEN [used EXCEPT ![kind] = @ + q] ELSE used

AnalysisAnswers ==
  /\ GoTo("analyze", "review") /\ ~cancelled
  /\ \E q \in 1..MaxRequests : Session("analysis", q, TRUE)
  /\ \E text \in Texts : \E shown \in ShownIn(text) :
       cur' = [cur EXCEPT !.raw = text, !.shown = shown, !.first = text]
  /\ UNCHANGED <<i, cancelled, results, fileVars, exit, outputs>>

AnalysisFails ==
  /\ GoTo("analyze", "persist")
  /\ \E q \in 0..MaxRequests, handsOver \in BOOLEAN :
       Session("analysis", q, handsOver)
  /\ cur' = [cur EXCEPT !.err = TRUE]
  /\ UNCHANGED <<i, cancelled, results, fileVars, exit, outputs>>

(* ChallengeVerdict: only a decisive verdict is put to a reviewer.         *)
NeedsReview == Adversary /\ Decisive(cur.raw)

ReviewSkipped ==
  /\ GoTo("review", "persist") /\ ~NeedsReview
  /\ UNCHANGED <<i, cancelled, cur, results, fileVars,
                 used, made, exit, outputs>>

(* The reviewer's session fails, as it must after a cancellation, or its   *)
(* output does not parse: the verdict stands.                              *)
ReviewFails ==
  /\ GoTo("review", "persist") /\ NeedsReview
  /\ \E q \in 0..MaxRequests, handsOver \in BOOLEAN :
       Session("review", q, handsOver)
  /\ cur' = [cur EXCEPT !.basis = "failed"]
  /\ UNCHANGED <<i, cancelled, results, fileVars, exit, outputs>>

ReviewAnswers ==
  /\ GoTo("review", "persist") /\ NeedsReview /\ ~cancelled
  /\ \E q \in 1..MaxRequests : Session("review", q, TRUE)
  /\ \E c \in Challenge :
       LET basis == IF c.cites THEN "cited" ELSE "uncited"
       IN  cur' = IF Overturns([reachable |-> cur.raw], c)
                  THEN [cur EXCEPT !.raw = c.reachable, !.shown = c.reachable,
                                   !.basis = basis]
                  ELSE [cur EXCEPT !.basis = basis]
  /\ UNCHANGED <<i, cancelled, results, fileVars, exit, outputs>>

Store(text) == verdictFile' = [verdictFile EXCEPT ![i] = text]

(* The finding's directory and verdict.json.  A write that fails, which is *)
(* only logged, keeps what was there or leaves a part; an empty text is    *)
(* not written, whatever is there.                                         *)
Persist ==
  /\ GoTo("persist", "render")
  /\ \/ cur.raw # "blank" /\ (Store(cur.raw) \/ Store("torn"))
     \/ UNCHANGED verdictFile
  /\ UNCHANGED <<i, cancelled, cur, results, verdictsJson, sarif, used, made,
                 exit, outputs>>

NeedsReport == Markdown /\ cur.raw # "blank"

(* The rendering turn may fail; its usage is nobody's.  Then the result is *)
(* recorded and the loop goes on.                                          *)
Render ==
  /\ GoTo("render", "loop")
  /\ \/ /\ NeedsReport
        /\ \E q \in 0..1, ok \in BOOLEAN :
             /\ ok => q = 1 /\ ~cancelled
             /\ made' = [made EXCEPT !.render = @ + q]
             /\ Record([cur EXCEPT !.report = ok])
     \/ ~NeedsReport /\ Record(cur) /\ UNCHANGED made
  /\ i' = i + 1
  /\ UNCHANGED <<cancelled, cur, fileVars, used, exit, outputs>>

-----------------------------------------------------------------------------
(* The end of runScanMode.                                                 *)

(* An envelope holds the verdict of a result that parsed, and no verdict   *)
(* otherwise; this is the answer the entrypoint is shown in it.            *)
Envelope(r) == IF ~r.err /\ Parsed(r.raw) THEN r.shown ELSE "none"

(* WriteScanArtifacts: the write may fail before it opens the file, which  *)
(* keeps what was there, or after it truncated it.                         *)
WriteArtifacts ==
  /\ GoTo("artifacts", "sarif")
  /\ \/ verdictsJson' = [from |-> "this",
                         answers |-> [k \in DOMAIN results |-> Envelope(results[k])]]
     \/ verdictsJson' = [from |-> "torn", answers |-> <<>>]
     \/ UNCHANGED verdictsJson
  /\ UNCHANGED <<i, cancelled, cur, results, verdictFile, sarif, used, made,
                 exit, outputs>>

(* BuildScanSARIF: one result per finding, a failed one to be reviewed.    *)
ResultOutcome(r) == IF r.err THEN "needsReview" ELSE Outcome(r.raw)

(* writeSARIFFile, after the artifacts whether or not these were written.  *)
WriteSarif ==
  /\ GoTo("sarif", "count")
  /\ \/ sarif' = [from |-> "this",
                   outcomes |-> [k \in DOMAIN results |-> ResultOutcome(results[k])]]
     \/ sarif' = [from |-> "torn", outcomes |-> <<>>]
     \/ UNCHANGED sarif
  /\ UNCHANGED <<i, cancelled, cur, results, verdictFile, verdictsJson, used,
                 made, exit, outputs>>

(* CountResults, the order of its switch included.                         *)
Class(r) ==
  CASE r.err            -> "errors"
    [] ~r.err /\ ~Parsed(r.raw) -> "unparsed"
    [] ~r.err /\ r.raw = "yes"  -> "reachable"
    [] ~r.err /\ r.raw = "no"   -> "notReachable"
    [] OTHER            -> "uncertain"

CountOf(class) == Cardinality({k \in DOMAIN results : Class(results[k]) = class})

TriggeredByVerdicts ==
  \/ FailOn = "reachable" /\ CountOf("reachable") > 0
  \/ FailOn = "uncertain" /\ CountOf("reachable") + CountOf("uncertain") > 0

FailOnTriggered ==
  \/ FailOn = "reachable" /\ CountOf("reachable") > 0
  \/ /\ FailOn = "uncertain"
     /\ \E class \in {"reachable", "uncertain", "unparsed", "errors"} :
          CountOf(class) > 0

Exit ==
  /\ GoTo("count", "exited")
  /\ exit' = IF FailOnTriggered THEN 2 ELSE 0
  /\ UNCHANGED <<i, cancelled, cur, results, fileVars, used, made, outputs>>

-----------------------------------------------------------------------------
(* The environment: signals, and the entrypoint script after the exit.     *)

Signal ==
  /\ Running /\ ~cancelled
  /\ cancelled' = TRUE
  /\ UNCHANGED <<pc, i, cur, results, fileVars, used, made, exit, outputs>>

Kill ==
  /\ Running
  /\ pc' = "exited" /\ exit' = 137
  /\ UNCHANGED <<i, cancelled, cur, results, fileVars, used, made, outputs>>

(* The entrypoint reads verdicts.json whatever the exit code; when it is   *)
(* missing or does not load, the outputs are empty.                        *)
PublishOutputs ==
  /\ GoTo("exited", "published")
  /\ outputs' = IF verdictsJson.from \in {"none", "torn"} THEN ""
                ELSE IF "yes" \in {verdictsJson.answers[k] :
                                     k \in DOMAIN verdictsJson.answers}
                THEN "yes" ELSE "no"
  /\ UNCHANGED <<i, cancelled, cur, results, fileVars, used, made, exit>>

Step ==
  \/ Setup
  \/ LoopCancelled \/ LoopAnalyze \/ LoopDone
  \/ AnalysisAnswers \/ AnalysisFails
  \/ ReviewSkipped \/ ReviewFails \/ ReviewAnswers
  \/ Persist \/ Render
  \/ WriteArtifacts \/ WriteSarif \/ Exit
  \/ PublishOutputs

Next == Step \/ Signal \/ Kill

Spec == Init /\ [][Next]_vars

-----------------------------------------------------------------------------
ControlOK ==
  /\ pc \in {"setup", "loop", "analyze", "review", "persist", "render",
            "artifacts", "sarif", "count", "exited", "published"}
  /\ i \in 1..(N + 1) /\ cancelled \in BOOLEAN
  /\ exit \in {-1, 0, 1, 2, 137}
  /\ outputs \in {"unset", "", "yes", "no"}
ResultsOK == cur \in Result /\ results \in Seq(Result)
FilesOK ==
  /\ verdictFile \in [1..N -> Texts \cup {"none", "former", "torn"}]
  /\ verdictsJson \in [from : {"none", "former", "this", "torn"},
                       answers : Seq(Answers \cup {"none"})]
  /\ sarif \in [from : {"none", "former", "this", "torn"}, outcomes : Seq(Outcomes)]
UsageOK ==
  /\ used \in [analysis : Nat, review : Nat]
  /\ made \in [analysis : Nat, review : Nat, render : Nat]
TypeOK == ControlOK /\ ResultsOK /\ FilesOK /\ UsageOK

HasResult(P(_)) == \E k \in DOMAIN results : P(results[k])
Says(answer)    == HasResult(LAMBDA r : ~r.err /\ r.raw = answer)
Completed       == exit \in {0, 2}

(* A run that ends by itself has one result for every finding              *)
(* and the counts it prints add up to them, also when it was cancelled in  *)
(* the middle or analyses failed (RunScan, CountResults).                  *)
EveryFindingCounted ==
  Completed =>
    /\ Len(results) = N
    /\ CountOf("reachable") + CountOf("notReachable") + CountOf("uncertain")
         + CountOf("unparsed") + CountOf("errors") = N

(* The gate fails closed: with -fail-on uncertain a run exits 0 only if    *)
(* every finding was analyzed and found not reachable; with -fail-on       *)
(* reachable only if none is reachable.  It exits 2 only for a reason.     *)
GateHolds ==
  /\ exit = 0 /\ FailOn = "uncertain" =>
       Len(results) = N /\ \A k \in 1..N : results[k].raw = "no"
  /\ exit = 0 /\ FailOn = "reachable" => ~Says("yes")
  /\ exit = 2 => FailOn # "" /\ \E k \in DOMAIN results : results[k].raw # "no"

(* The gate in inductive form: the loop has recorded a result for every    *)
(* finding before i, all of them when it is over; a failed result holds no *)
(* answer; only a run that counted its results exits 0 or 2.               *)
AtFinding == pc \in {"analyze", "review", "persist", "render"}
LoopInv ==
  /\ pc = "setup" => results = <<>> /\ i = 1
  /\ AtFinding => i <= N
  /\ pc = "loop" \/ AtFinding => Len(results) = i - 1
  /\ pc \in {"artifacts", "sarif", "count"} \/ Completed => Len(results) = N
  /\ Running <=> pc \notin {"exited", "published"}
FailedInv ==
  /\ cur.err => cur.raw = "blank"
  /\ pc = "analyze" => ~cur.err /\ cur.raw = "blank"
  /\ pc = "review" => ~cur.err
  /\ \A k \in DOMAIN results : results[k].err => results[k].raw = "blank"
GateInv == LoopInv /\ FailedInv /\ GateHolds

(* In a clean output directory the accounts of a finding agree: its        *)
(* verdict.json, if there is one, its entry of verdicts.json, if this has  *)
(* an answer to show, and its alert in the SARIF file give the reviewed    *)
(* answer that the result, and so the counts and the gate, are taken from. *)
AccountsAgree ==
  /\ \A k \in DOMAIN results :
       verdictFile[k] \notin {"none", "former", "torn"} =>
         verdictFile[k] = results[k].raw
  /\ verdictsJson.from = "this" =>
       /\ Len(verdictsJson.answers) = Len(results)
       /\ \A k \in DOMAIN results :
            \/ verdictsJson.answers[k] = results[k].raw
            \/ /\ verdictsJson.answers[k] = "none"
               /\ \/ results[k].err \/ ~Parsed(results[k].raw)
                  \/ results[k].shown = "none"
  /\ sarif.from = "this" =>
       /\ Len(sarif.outcomes) = Len(results)
       /\ \A k \in DOMAIN results :
            /\ sarif.outcomes[k] = "reachable" <=> Class(results[k]) = "reachable"
            /\ sarif.outcomes[k] = "notReachable" <=> Class(results[k]) = "notReachable"

(* In a clean output directory an output the action sets is right and of   *)
(* the whole scan, also after a kill or a failed write, but for a "yes"    *)
(* under a key that only Go takes; and it agrees with the gate: a gated    *)
(* run that publishes "yes" has failed.                                    *)
OutputsRight ==
  outputs \in {"yes", "no"} =>
    /\ Len(results) = N
    /\ outputs = "yes" => Says("yes")
    /\ outputs = "no" => ~HasResult(LAMBDA r : ~r.err /\ r.raw = "yes" /\ r.shown = "yes")
    /\ Completed /\ FailOn # "" /\ outputs = "yes" => exit = 2

(* usage.md:251: the costs reported per call are summed "across the run":  *)
(* each session that answered is in the totals once, also in a run that is *)
(* cancelled; only those that failed, and the rendering turns, may be      *)
(* missing.                                                                *)
CostExact ==
  Completed =>
    /\ used.analysis <= made.analysis /\ used.review <= made.review
    /\ ~HasResult(LAMBDA r : r.err) => used.analysis = made.analysis
    /\ ~HasResult(LAMBDA r : r.basis = "failed") => used.review = made.review

-----------------------------------------------------------------------------
(* action.yml:142: the output is "yes" when at least one finding of the    *)
(* scan is reachable, else "no".                                           *)
OutputOfThisRun ==
  pc = "published" /\ outputs = "yes" => Says("yes")
=============================================================================
