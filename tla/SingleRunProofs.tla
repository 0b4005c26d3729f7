-------------------------- MODULE SingleRunProofs ---------------------------
(***************************************************************************)
(* Proofs about the review of one verdict, about the start and the end of  *)
(* a run whatever its body does, and about a single-CVE run, for every     *)
(* setting: it implements the lifecycle and the review, so that what is    *)
(* proved of these holds of it, and what its files, its output and its     *)
(* exit code tell.                                                         *)
(***************************************************************************)
EXTENDS SingleRun, TLAPS

-----------------------------------------------------------------------------
(* The adversarial review.                                                 *)

(* What a review can make of a first verdict, in one step.                 *)
ReviewInv ==
  /\ first \in FirstVerdict
  /\ verdict = first \/ \E c \in Challenge : verdict = Reviewed(first, c)

LEMMA ReviewedSound ==
  ASSUME NEW v \in FirstVerdict, NEW c \in Challenge
  PROVE  LET w == Reviewed(v, c)
         IN  /\ w.callPath # "none" => w.reachable = "yes"
             /\ w.attemptedPath # "none" => w.reachable # "yes"
             /\ v.callPath = "first" =>
                  \/ w.reachable = "yes" /\ w.callPath = "first"
                  \/ w.reachable # "yes" /\ w.attemptedPath = "first"
             /\ v.evidence \subseteq w.evidence
             /\ w.reachable # v.reachable => "review" \in w.evidence
<1> DEFINE w == Reviewed(v, c)
<1>1. /\ v.callPath \in {"first", "none"} /\ v.attemptedPath \in {"first", "none"}
      /\ v.callPath = "first" => v.reachable = "yes"
      /\ v.attemptedPath = "first" => v.reachable # "yes"
  BY DEF FirstVerdict, Verdict, Route, Passes
<1>2. CASE ~Overturns(v, c)
  <2>1. w = v
    BY <1>2 DEF Reviewed
  <2> QED
    BY <1>1, <2>1
<1>3. CASE Overturns(v, c)
  <2>1. /\ w.reachable = c.reachable
        /\ w.evidence = v.evidence \cup Cited(c)
        /\ w.callPath = IF c.reachable = "yes" THEN c.callPath ELSE "none"
        /\ w.attemptedPath = IF c.reachable = "yes" THEN "none"
                             ELSE IF v.attemptedPath = "none" THEN v.callPath
                             ELSE v.attemptedPath
    BY <1>3 DEF Reviewed, Merge
  <2>2. c.reachable # v.reachable /\ "review" \in Cited(c)
    BY <1>3 DEF Overturns, Cited
  <2> QED
    BY <1>1, <2>1, <2>2
<1> QED
  BY <1>2, <1>3

LEMMA ReviewInvariant == ReviewSpec => []ReviewInv
<1>1. ReviewInit => ReviewInv
  BY DEF ReviewInit, ReviewInv
<1>2. ReviewInv /\ [ReviewNext]_reviewVars => ReviewInv'
  BY DEF ReviewInv, ReviewNext, Answered, NotAnswered, reviewVars
<1> QED
  BY <1>1, <1>2, PTL DEF ReviewSpec

(* challenge.go:170-197: a merged verdict follows the schema, keeps the    *)
(* walked route for its reader, and is backed by cited code.               *)
THEOREM MergeSound == ReviewSpec => [](RouteMatchesAnswer /\ RouteKept /\ EvidenceBacked)
<1>1. ASSUME ReviewInv
      PROVE  RouteMatchesAnswer /\ RouteKept /\ EvidenceBacked
  <2>1. CASE verdict = first
    BY <1>1, <2>1
    DEF ReviewInv, FirstVerdict, Verdict, Route, Passes, RouteMatchesAnswer,
        RouteKept, EvidenceBacked
  <2>2. ASSUME NEW c \in Challenge, verdict = Reviewed(first, c)
        PROVE  RouteMatchesAnswer /\ RouteKept /\ EvidenceBacked
    BY <1>1, <2>2, ReviewedSound
    DEF ReviewInv, RouteMatchesAnswer, RouteKept, EvidenceBacked
  <2> QED
    BY <1>1, <2>1, <2>2 DEF ReviewInv
<1> QED
  BY <1>1, ReviewInvariant, PTL

-----------------------------------------------------------------------------
(* The lifecycle: run() and its deferred calls, with any body.             *)

(* While run() is at a point where no deferred call stops a child, or not  *)
(* yet, the child does not live.  A kill ends the run without them.        *)
StoppedInv ==
  /\ at \in {"web", "chmod", "exited"} => ~Alive("web")
  /\ at \notin {"mcpWait", "setup", "body", "stopCli", "stopMcp", "killed"} =>
       ~Alive("mcp")
  /\ at \notin {"body", "stopCli", "killed"} => ~Alive("cli")

(* A server that listens where the run polls has the port for itself.      *)
PortInv ==
  /\ port # "free" => proc["mcp"] # "serving"
  /\ at \in {"web", "webWait", "port", "start", "mcpWait"} => ready = "nobody"
  /\ at \in {"setup", "body", "stopCli"} => ready # "nobody"
  /\ ready = "own" => proc["mcp"] \in {"serving", "dead"}
  /\ ready = "rival" => port = "rival"

LifecycleInv == LifecycleOK /\ StoppedInv /\ PortInv /\ AllReadable

LEMMA LifecycleStarts == LifecycleInit => LifecycleInv
  BY DEF LifecycleInit, LifecycleInv, LifecycleOK, StoppedInv, PortInv,
         AllReadable, ProcStates, Alive, Children

LEMMA StartStep ==
  ASSUME LifecycleInv, Start
  PROVE  LifecycleInv'
<1> USE DEF LifecycleInv, LifecycleOK, StoppedInv, PortInv, AllReadable,
            Alive, GoesTo, Returns, Children, ProcStates
<1>1. CASE WebSkipped
  BY <1>1 DEF WebSkipped
<1>2. CASE WebStarts
  BY <1>2 DEF WebStarts, Becomes
<1>3. CASE WebAnswers
  BY <1>3 DEF WebAnswers
<1>4. CASE WebTimesOut
  BY <1>4 DEF WebTimesOut, Becomes
<1>5. CASE PortChosen
  BY <1>5 DEF PortChosen
<1>6. CASE PortFails
  BY <1>6 DEF PortFails
<1>7. CASE McpStarts
  BY <1>7 DEF McpStarts, Becomes
<1>8. CASE McpStartFails
  BY <1>8 DEF McpStartFails
<1>9. CASE McpAnswers
  BY <1>9 DEF McpAnswers
<1>10. CASE McpTimesOut
  BY <1>10 DEF McpTimesOut
<1>11. CASE SetUp
  BY <1>11 DEF SetUp, Becomes
<1>12. CASE SetUpFails
  BY <1>12 DEF SetUpFails
<1> QED
  BY <1>1, <1>2, <1>3, <1>4, <1>5, <1>6, <1>7, <1>8, <1>9, <1>10, <1>11, <1>12
  DEF Start

LEMMA BodyStep ==
  ASSUME LifecycleInv, Body
  PROVE  LifecycleInv'
<1> USE DEF LifecycleInv, LifecycleOK, StoppedInv, PortInv, AllReadable,
            Alive, Returns
<1>1. CASE Work
  BY <1>1 DEF Work
<1>2. ASSUME NEW c \in {0, 1, 2}, BodyReturns(c)
      PROVE  LifecycleInv'
  BY <1>2 DEF BodyReturns
<1> QED
  BY <1>1, <1>2 DEF Body

LEMMA UnwindStep ==
  ASSUME LifecycleInv, Unwind
  PROVE  LifecycleInv'
<1> USE DEF LifecycleInv, LifecycleOK, StoppedInv, PortInv, AllReadable,
            Alive, GoesTo, Children, ProcStates
<1>1. CASE StopCli
  BY <1>1 DEF StopCli, Becomes
<1>2. CASE StopMcp
  BY <1>2 DEF StopMcp, Becomes
<1>3. CASE StopWeb
  BY <1>3 DEF StopWeb, Becomes
<1>4. CASE MakeWorldReadable
  BY <1>4 DEF MakeWorldReadable
<1> QED
  BY <1>1, <1>2, <1>3, <1>4 DEF Unwind

LEMMA OutsideStep ==
  ASSUME LifecycleInv, Outside
  PROVE  LifecycleInv'
<1> USE DEF LifecycleInv, LifecycleOK, StoppedInv, PortInv, AllReadable,
            Alive, Children, ProcStates
<1>1. CASE WebServes
  BY <1>1 DEF WebServes, Becomes
<1>2. CASE McpOpensLog
  BY <1>2 DEF McpOpensLog, Becomes
<1>3. CASE McpListens
  BY <1>3 DEF McpListens, Becomes
<1>4. ASSUME NEW p \in Children, Dies(p)
      PROVE  LifecycleInv'
  BY <1>4 DEF Dies, Becomes
<1>5. CASE PortTaken
  BY <1>5 DEF PortTaken
<1>6. CASE Cancel
  BY <1>6 DEF Cancel
<1>7. CASE Kill
  BY <1>7 DEF Kill, Returns
<1> QED
  BY <1>1, <1>2, <1>3, <1>4, <1>5, <1>6, <1>7 DEF Outside

LEMMA LifecycleInvariant == LifecycleSpec => []LifecycleInv
<1>1. LifecycleInv /\ [LifecycleNext]_lifeVars => LifecycleInv'
  <2> SUFFICES ASSUME LifecycleInv, [LifecycleNext]_lifeVars
               PROVE  LifecycleInv'
    OBVIOUS
  <2>1. CASE UNCHANGED lifeVars
    BY <2>1 DEF lifeVars, LifecycleInv, LifecycleOK, StoppedInv, PortInv,
                AllReadable, Alive
  <2> QED
    BY <2>1, StartStep, BodyStep, UnwindStep, OutsideStep DEF LifecycleNext
<1> QED
  BY LifecycleStarts, <1>1, PTL DEF LifecycleSpec

(* From whatever point run() returns, the deferred calls made by then have *)
(* stopped every child, those still coming up included (main.go 257-345).  *)
THEOREM ChildrenAreStopped == LifecycleSpec => []NothingLeftRunning
<1>1. LifecycleInv => NothingLeftRunning
  BY DEF LifecycleInv, StoppedInv, NothingLeftRunning, Children
<1> QED
  BY <1>1, LifecycleInvariant, PTL

(* What is under -out is made readable after the last writer is gone.      *)
THEOREM EndsReadable == LifecycleSpec => []AllReadable
<1>1. LifecycleInv => AllReadable
  BY DEF LifecycleInv
<1> QED
  BY <1>1, LifecycleInvariant, PTL

(* An analysis begins only after a 200 from the port, and by whom.         *)
THEOREM AnalysisHasServer == LifecycleSpec => []ServerAnswered
<1>1. LifecycleInv => ServerAnswered
  BY DEF LifecycleInv, PortInv, ServerAnswered
<1> QED
  BY <1>1, LifecycleInvariant, PTL

-----------------------------------------------------------------------------
(* The single-CVE run.                                                     *)

(* Every step of the mode is a step of the body.                           *)
LEMMA ModeIsBody ==
  ASSUME SingleMode
  PROVE  Body
<1> USE DEF Body
<1>1. CASE AnalysisAnswers
  BY <1>1 DEF AnalysisAnswers
<1>2. CASE AnalysisFails
  BY <1>2 DEF AnalysisFails
<1>3. CASE ReviewSkipped
  BY <1>3 DEF ReviewSkipped
<1>4. CASE ReviewAnswers
  BY <1>4 DEF ReviewAnswers
<1>5. CASE ReviewFails
  BY <1>5 DEF ReviewFails
<1>6. CASE WriteVerdict
  BY <1>6 DEF WriteVerdict
<1>7. CASE WriteSarif
  BY <1>7 DEF WriteSarif
<1>8. CASE Render
  BY <1>8 DEF Render
<1>9. CASE Gate
  BY <1>9 DEF Gate
<1> QED
  BY <1>1, <1>2, <1>3, <1>4, <1>5, <1>6, <1>7, <1>8, <1>9 DEF SingleMode

(* main.go:348-373: the mode runs inside the frame of run(); it stops and  *)
(* starts no child, and leaves by a return.                                *)
THEOREM RunsInLifecycle == Spec => LifecycleSpec
<1>1. Init => LifecycleInit
  BY DEF Init
<1>2. [Next]_singleVars => [LifecycleNext]_lifeVars
  <2> SUFFICES ASSUME [Next]_singleVars
               PROVE  [LifecycleNext]_lifeVars
    OBVIOUS
  <2>1. CASE UNCHANGED singleVars
    BY <2>1 DEF singleVars
  <2>2. CASE SingleMode
    BY <2>2, ModeIsBody DEF LifecycleNext
  <2>3. CASE Publish
    BY <2>3 DEF Publish
  <2> QED
    BY <2>1, <2>2, <2>3 DEF Next, Around, LifecycleNext
<1> QED
  BY <1>1, <1>2, PTL DEF Spec, LifecycleSpec

(* The verdict changes by its review and by nothing else.                  *)
THEOREM ReviewsItsVerdict == Spec => ReviewSpec
<1>1. Init => ReviewInit
  BY DEF Init
<1>2. [Next]_singleVars => [ReviewNext]_reviewVars
  <2> SUFFICES ASSUME [Next]_singleVars
               PROVE  [ReviewNext]_reviewVars
    OBVIOUS
  <2>1. CASE UNCHANGED singleVars \/ UNCHANGED bodyVars
    BY <2>1 DEF singleVars, bodyVars, reviewVars
  <2>2. CASE ReviewAnswers \/ ReviewFails
    BY <2>2 DEF ReviewAnswers, ReviewFails, ReviewNext
  <2>3. CASE SingleMode
    BY <2>2, <2>3
    DEF SingleMode, AnalysisAnswers, AnalysisFails, ReviewSkipped,
        WriteVerdict, WriteSarif, Render, Gate
  <2> QED
    BY <2>1, <2>3 DEF Next, Around, Publish
<1> QED
  BY <1>1, <1>2, PTL DEF Spec, ReviewSpec

(* No return of the mode, whatever failed, leaves a child behind.          *)
THEOREM NothingIsLeftRunning == Spec => []NothingLeftRunning
  BY RunsInLifecycle, ChildrenAreStopped, PTL

(* main.go:270: the artifacts are readable to the user who collects them.  *)
THEOREM AllIsReadable == Spec => []AllReadable
  BY RunsInLifecycle, EndsReadable, PTL

(* No session is spent before a server has answered.                       *)
THEOREM ServerHasAnswered == Spec => []ServerAnswered
  BY RunsInLifecycle, AnalysisHasServer, PTL

(* The verdict of a run that ends, is cancelled or killed keeps its route  *)
(* and is backed by the evidence of the pass it follows.                   *)
THEOREM VerdictIsSound ==
  Spec => [](RouteMatchesAnswer /\ RouteKept /\ EvidenceBacked)
  BY ReviewsItsVerdict, MergeSound, PTL

(* challenge.go:177-186: route and answer of a verdict fit each other at     *)
(* every point of a run, in a first pass and after a review of it.          *)
THEOREM RouteFitsAnswer == Spec => []RouteMatchesAnswer
  BY VerdictIsSound, PTL

-----------------------------------------------------------------------------
Before == {"web", "webWait", "port", "start", "mcpWait", "setup"}
After  == {"stopCli", "stopMcp", "stopWeb", "chmod"}

(* How far the mode is, and with what exit code the run may be where.      *)
StepInv ==
  /\ step \in {"analyze", "review", "write", "sarif", "render", "gate", "over"}
  /\ at \in Before => step = "analyze" /\ code = -1
  /\ at = "body" => step # "over" /\ code = -1
  /\ at \in After \/ Ended => code # -1

(* The verdict is the reviewed one when the first file is written, and the *)
(* files are those of before until then; an exit code of 1 is of no mode   *)
(* that came that far.                                                     *)
FilesInv ==
  /\ step \in {"analyze", "review"} => review = "pending"
  /\ step \in {"analyze", "review", "write"} => verdictJson = Other(NoFile)
  /\ step \in {"analyze", "review", "write", "sarif"} => sarif = NoFile
  /\ verdictJson \in {Other(NoFile), Other("torn"), Holds(verdict)}
  /\ sarif \in {NoFile, "torn", Outcome(verdict.reachable)}

CodeInv ==
  /\ code = 0 => ~FailOnTriggered
  /\ code = 2 => FailOnTriggered
  /\ code = 1 => /\ review = "pending" /\ step \in {"analyze", "over"}
                 /\ verdictJson = Other(NoFile) /\ sarif = NoFile

OutputInv ==
  /\ output \in Answers \cup {"unset", "", "former"}
  /\ output # "unset" => Ended
  /\ output \in Answers =>
       verdictJson.shown # "none" /\ output \in Printed(verdictJson)

AccountInv == StepInv /\ FilesInv /\ CodeInv /\ OutputInv

LEMMA SingleStarts == Init => AccountInv
<1> SUFFICES ASSUME Init
             PROVE  AccountInv
  OBVIOUS
<1>1. at = "web" /\ code = -1
  BY DEF Init, LifecycleInit
<1>2. review = "pending"
  BY DEF Init, ReviewInit
<1> QED
  BY <1>1, <1>2
  DEF Init, AccountInv, StepInv, FilesInv, CodeInv, OutputInv, Ended, Before,
      After, Answers

(* Where a step around the mode leads, and what becomes of the exit code.  *)
LEMMA AroundMoves ==
  ASSUME LifecycleOK, Start \/ Unwind \/ Outside
  PROVE  \/ at' = at /\ code' = code
         \/ at' = "killed" /\ code' = 137 /\ ~Ended
         \/ at \in Before /\ at' \in Before \cup {"body"} /\ code' = code
         \/ at \in Before /\ at' \in After /\ code' = 1
         \/ at \in After /\ at' \in After \cup {"exited"} /\ code' = code
<1> USE DEF GoesTo, Returns, Before, After, Ended
<1>1. CASE Start
  BY <1>1
  DEF Start, WebSkipped, WebStarts, WebAnswers, WebTimesOut, PortChosen,
      PortFails, McpStarts, McpStartFails, McpAnswers, McpTimesOut, SetUp,
      SetUpFails
<1>2. CASE Unwind
  BY <1>2 DEF Unwind, StopCli, StopMcp, StopWeb, MakeWorldReadable
<1>3. CASE Outside
  BY <1>3
  DEF Outside, WebServes, McpOpensLog, McpListens, Dies, PortTaken, Cancel, Kill
<1> QED
  BY <1>1, <1>2, <1>3

LEMMA AroundStep ==
  ASSUME LifecycleOK, AccountInv, Start \/ Unwind \/ Outside,
         UNCHANGED <<bodyVars, output>>
  PROVE  AccountInv'
<1>1. /\ UNCHANGED <<step, review, verdict, verdictJson, sarif, output>>
      /\ FailOnTriggered' <=> FailOnTriggered
  BY DEF bodyVars, FailOnTriggered
<1>2. StepInv'
  BY <1>1, AroundMoves DEF AccountInv, StepInv, Before, After, Ended
<1>3. FilesInv'
  BY <1>1 DEF AccountInv, FilesInv, NoFile
<1>4. CodeInv'
  BY <1>1, AroundMoves DEF AccountInv, CodeInv, StepInv, FilesInv, NoFile, Before
<1>5. OutputInv'
  BY <1>1, AroundMoves DEF AccountInv, OutputInv, Ended, Before, After
<1> QED
  BY <1>2, <1>3, <1>4, <1>5 DEF AccountInv

(* The mode runs with no exit code and no output; so does what it calls.   *)
LEMMA InMode ==
  ASSUME AccountInv, at = "body"
  PROVE  code = -1 /\ output = "unset" /\ step # "over"
  BY DEF AccountInv, StepInv, OutputInv, Ended

LEMMA ModeStep ==
  ASSUME LifecycleOK, VerdictOK, AccountInv, SingleMode
  PROVE  AccountInv'
<1>1. at = "body" /\ code = -1 /\ output = "unset"
  BY InMode, ModeIsBody DEF Body, Work, BodyReturns
<1>2. output' = output
  BY DEF SingleMode, AnalysisAnswers, AnalysisFails, ReviewSkipped,
         ReviewAnswers, ReviewFails, WriteVerdict, WriteSarif, Render, Gate
<1>3. OutputInv'
  BY <1>1, <1>2 DEF OutputInv, Answers
<1>4. CASE Work /\ ~(\E c \in {0, 1, 2} : BodyReturns(c))
  <2>1. at' = "body" /\ code' = -1
    BY <1>1, <1>4 DEF Work
  <2>2. CodeInv'
    BY <2>1 DEF CodeInv
  <2>3. CASE AnalysisAnswers \/ ReviewSkipped \/ Render
    BY <1>1, <1>3, <2>1, <2>2, <2>3
    DEF AnalysisAnswers, ReviewSkipped, Render, StepsTo, reviewVars, fileVars,
        AccountInv, StepInv, FilesInv, NoFile, Before, After, Ended
  <2>4. CASE ReviewAnswers \/ ReviewFails
    BY <1>1, <1>3, <2>1, <2>2, <2>4
    DEF ReviewAnswers, ReviewFails, Answered, NotAnswered, StepsTo, fileVars,
        AccountInv, StepInv, FilesInv, NoFile, Before, After, Ended
  <2>5. CASE WriteVerdict
    BY <1>1, <1>3, <2>1, <2>2, <2>5
    DEF WriteVerdict, StepsTo, reviewVars, AccountInv, StepInv, FilesInv,
        NoFile, Before, After, Ended
  <2>6. CASE WriteSarif
    BY <1>1, <1>3, <2>1, <2>2, <2>6
    DEF WriteSarif, StepsTo, reviewVars, AccountInv, StepInv, FilesInv,
        NoFile, Before, After, Ended
  <2> QED
    BY <1>1, <1>4, <2>3, <2>4, <2>5, <2>6 DEF SingleMode, AnalysisFails, Gate
<1>5. CASE \E c \in {0, 1, 2} : BodyReturns(c)
  <2>1. at' = "stopCli" /\ code' \in {0, 1, 2}
    BY <1>5 DEF BodyReturns, Returns
  <2>2. step' = "over" /\ UNCHANGED <<review, verdict, verdictJson, sarif>>
    BY <1>1, <2>1
    DEF SingleMode, AnalysisAnswers, AnalysisFails, ReviewSkipped,
        ReviewAnswers, ReviewFails, WriteVerdict, WriteSarif, Render, Gate,
        Work, StepsTo, reviewVars, fileVars
  <2>3. CASE AnalysisFails
    <3>1. step = "analyze" /\ code' = 1
      BY <2>3 DEF AnalysisFails, StepsTo, BodyReturns, Returns
    <3> QED
      BY <1>3, <2>1, <2>2, <3>1
      DEF AccountInv, StepInv, FilesInv, CodeInv, NoFile, Before,
          After, Ended
  <2>4. CASE Gate
    <3>1. code' = (IF FailOnTriggered THEN 2 ELSE 0) /\ step = "gate"
      BY <2>4 DEF Gate, StepsTo, BodyReturns, Returns
    <3>2. FailOnTriggered' <=> FailOnTriggered
      BY <2>2 DEF FailOnTriggered
    <3> QED
      BY <1>3, <2>1, <2>2, <3>1, <3>2
      DEF AccountInv, StepInv, FilesInv, CodeInv, NoFile, Before,
          After, Ended
  <2> QED
    BY <1>1, <2>1, <2>3, <2>4
    DEF SingleMode, AnalysisAnswers, ReviewSkipped, ReviewAnswers,
        ReviewFails, WriteVerdict, WriteSarif, Render, Work
<1> QED
  BY <1>4, <1>5, ModeIsBody DEF Body

(* What verdict.json says when this run wrote it, and otherwise.           *)
LEMMA FileSays ==
  /\ \A how : Other(how).from = how /\ Other(how).shown = "none"
  /\ \A v : /\ Holds(v).from = "this" /\ Holds(v).shown = v.shown
           /\ Holds(v).answer = v.reachable
  BY DEF Other, Holds

LEMMA PublishStep ==
  ASSUME VerdictOK, AccountInv, Publish
  PROVE  AccountInv'
<1>1. UNCHANGED <<at, code, step, review, verdict, verdictJson, sarif>> /\ Ended
  BY DEF Publish, lifeVars, bodyVars
<1>2. /\ output' \in Answers \cup {"", "former"}
      /\ output' \in Answers =>
           verdictJson.shown # "none" /\ output' \in Printed(verdictJson)
  <2>1. verdictJson.shown \in Answers \cup {"none"}
    <3>1. verdict.shown \in Answers \cup {"none"}
      BY DEF VerdictOK, Verdict
    <3> QED
      BY <3>1, FileSays DEF AccountInv, FilesInv
  <2>2. output' \in Printed(verdictJson)
    BY DEF Publish
  <2> QED
    BY <2>1, <2>2 DEF Printed, Answers
<1>3. OutputInv'
  BY <1>1, <1>2 DEF OutputInv, Ended, Printed
<1> QED
  BY <1>1, <1>3
  DEF AccountInv, StepInv, FilesInv, CodeInv, OutputInv, NoFile,
      FailOnTriggered, Ended, Before, After, Answers

(* What the entrypoint is shown of a verdict fits what Go reads.           *)
ShownFits(v) == v.shown \in ShownIn(v.reachable)

(* A review of a verdict gives a verdict.                                  *)
LEMMA ReviewedIsVerdict ==
  ASSUME NEW v \in Verdict, ShownFits(v), NEW c \in Challenge
  PROVE  Reviewed(v, c) \in Verdict /\ ShownFits(Reviewed(v, c))
<1>1. CASE ~Overturns(v, c)
  BY <1>1 DEF Reviewed
<1>2. CASE Overturns(v, c)
  <2>1. c.reachable \in Answers
    BY <1>2 DEF Overturns, Challenge, Answers
  <2>2. v.evidence \cup Cited(c) \in SUBSET Passes
    BY DEF Cited, Verdict, Passes
  <2>3. c.callPath \in Route /\ "none" \in Route /\ v.callPath \in Route
        /\ v.attemptedPath \in Route
    BY DEF Challenge, Route, Passes, Verdict
  <2> QED
    BY <1>2, <2>1, <2>2, <2>3
    DEF Reviewed, Merge, Verdict, Texts, ShownFits, ShownIn, Parsed
<1> QED
  BY <1>1, <1>2

LEMMA VerdictTyped == ReviewSpec => [](VerdictOK /\ ShownFits(verdict))
<1>1. ReviewInit => VerdictOK /\ ShownFits(verdict)
  BY DEF ReviewInit, VerdictOK, FirstVerdict, ShownFits
<1>2. VerdictOK /\ ShownFits(verdict) /\ [ReviewNext]_reviewVars
        => (VerdictOK /\ ShownFits(verdict))'
  <2> SUFFICES ASSUME VerdictOK, ShownFits(verdict), [ReviewNext]_reviewVars
               PROVE  (VerdictOK /\ ShownFits(verdict))'
    OBVIOUS
  <2>1. CASE UNCHANGED reviewVars \/ NotAnswered
    BY <2>1 DEF reviewVars, NotAnswered, VerdictOK, FirstVerdict, ShownFits
  <2>2. ASSUME NEW c \in Challenge, Answered(c)
        PROVE  (VerdictOK /\ ShownFits(verdict))'
    <3>1. first \in Verdict /\ ShownFits(first)
      BY DEF VerdictOK, FirstVerdict, ShownFits
    <3> QED
      BY <2>2, <3>1, ReviewedIsVerdict DEF Answered, VerdictOK, FirstVerdict, ShownFits
  <2> QED
    BY <2>1, <2>2 DEF ReviewNext
<1> QED
  BY <1>1, <1>2, PTL DEF ReviewSpec

LEMMA AccountsInvariant ==
  Spec => [](LifecycleOK /\ VerdictOK /\ ShownFits(verdict) /\ AccountInv)
<1>1. Spec => [](LifecycleOK /\ VerdictOK /\ ShownFits(verdict))
  <2>1. LifecycleInv => LifecycleOK
    BY DEF LifecycleInv
  <2> QED
    BY <2>1, RunsInLifecycle, ReviewsItsVerdict, LifecycleInvariant, VerdictTyped, PTL
<1>2. LifecycleOK /\ VerdictOK /\ AccountInv /\ [Next]_singleVars => AccountInv'
  <2> SUFFICES ASSUME LifecycleOK, VerdictOK, AccountInv, [Next]_singleVars
               PROVE  AccountInv'
    OBVIOUS
  <2>1. CASE UNCHANGED singleVars
    <3>1. UNCHANGED <<at, code, step, review, verdict, verdictJson, sarif, output>>
      BY <2>1 DEF singleVars, lifeVars, bodyVars
    <3>2. StepInv' /\ OutputInv'
      BY <3>1 DEF AccountInv, StepInv, OutputInv, Ended, Before, After, Answers
    <3>3. FilesInv'
      BY <3>1 DEF AccountInv, FilesInv, NoFile, Outcome
    <3>4. CodeInv'
      BY <3>1 DEF AccountInv, CodeInv, NoFile, FailOnTriggered
    <3> QED
      BY <3>2, <3>3, <3>4 DEF AccountInv
  <2> QED
    BY <2>1, AroundStep, ModeStep, PublishStep DEF Next, Around
<1> QED
  BY <1>1, <1>2, SingleStarts, PTL DEF Spec

(* Every part of a run keeps its type, for every setting.                  *)
THEOREM TypeCorrect == Spec => []TypeOK
<1>1. ASSUME LifecycleOK, VerdictOK, AccountInv
      PROVE  TypeOK
  <2>1. verdict.reachable \in Texts
    BY <1>1 DEF VerdictOK, Verdict
  <2>2. Outcome(verdict.reachable) \in Outcomes
    BY DEF Outcome, Outcomes
  <2>3. verdictJson \in [from : {"none", "former", "this", "torn"}, answer : Texts,
                         shown : Answers \cup {"none"}]
    <3>1. verdict.shown \in Answers \cup {"none"} /\ "blank" \in Texts
      BY <1>1 DEF VerdictOK, Verdict, Texts
    <3> QED
      BY <1>1, <2>1, <3>1 DEF AccountInv, FilesInv, Other, Holds, NoFile
  <2> QED
    BY <1>1, <2>2, <2>3
    DEF AccountInv, StepInv, FilesInv, OutputInv, TypeOK, NoFile
<1> QED
  BY <1>1, AccountsInvariant, PTL

(* usage.md:283-291: the exit code is the gate of the reviewed verdict, or *)
(* 1 for a run without one.                                                *)
THEOREM GateFailsClosed == Spec => []GateHolds
<1>1. AccountInv => GateHolds
  BY DEF AccountInv, StepInv, CodeInv, FailOnTriggered, GateHolds
<1> QED
  BY <1>1, AccountsInvariant, PTL

(* Files, output and exit code of a run tell one verdict, whatever failed  *)
(* and whenever it was cancelled or killed.                                *)
THEOREM TellsOneVerdict == Spec => []AccountsAgree
<1>1. ASSUME LifecycleOK, VerdictOK, ShownFits(verdict), AccountInv
      PROVE  AccountsAgree
  <2> USE <1>1, SingleAssumption DEF AccountInv
  <2>1. verdictJson.from = "this" => verdictJson = Holds(verdict)
    <3>1. NoFile # "this"
      BY DEF NoFile
    <3>2. Other(NoFile).from # "this" /\ Other("torn").from # "this"
      BY <3>1, FileSays
    <3> QED
      BY <3>2 DEF FilesInv
  <2>2. sarif \in Outcomes => sarif = Outcome(verdict.reachable)
    BY DEF FilesInv, NoFile, Outcomes
  <2>3. ASSUME output \in Answers
        PROVE  /\ output = verdict.reachable \/ Disputable
               /\ FailOn = "uncertain" /\ output # "no" => code \in {2, 137}
               /\ FailOn = "reachable" /\ output = "yes" =>
                    code \in {2, 137} \/ Disputable
    <3>1. /\ Ended /\ verdictJson = Holds(verdict)
          /\ verdict.shown # "none" /\ output \in Printed(Holds(verdict))
      <4>1. /\ output # "unset" /\ Ended
            /\ verdictJson.shown # "none" /\ output \in Printed(verdictJson)
        BY <2>3 DEF OutputInv, Answers
      <4>2. verdictJson = Holds(verdict)
        BY <4>1, FileSays DEF FilesInv
      <4>3. Holds(verdict).shown = verdict.shown
        BY FileSays
      <4> QED
        BY <4>1, <4>2, <4>3
    <3>2. code \in {0, 1, 2, 137}
      BY <3>1 DEF LifecycleOK, StepInv
    <3>3. code # 1
      BY <3>1, FileSays DEF CodeInv, NoFile
    <3>4. verdict.shown \in ShownIn(verdict.reachable) /\ verdict.reachable \in Texts
      BY DEF ShownFits, VerdictOK, Verdict
    <3>5. output = verdict.reachable \/ Disputable
      <4>1. verdict.shown # "odd" => output = verdict.shown
        <5>1. Holds(verdict).from # "former" /\ Holds(verdict).shown = verdict.shown
          BY FileSays
        <5> QED
          BY <3>1, <5>1 DEF Printed
      <4> QED
        BY <3>1, <3>4, <4>1 DEF ShownIn, Parsed, Disputable, Texts, Answers
    <3> QED
      BY <3>2, <3>3, <3>5 DEF CodeInv, FailOnTriggered, Disputable
  <2>4. code = 1 => verdictJson = Other(NoFile) /\ sarif = NoFile
    BY DEF CodeInv
  <2> QED
    BY <2>1, <2>2, <2>3, <2>4 DEF AccountsAgree
<1> QED
  BY <1>1, AccountsInvariant, PTL
=============================================================================
