----------------------------- MODULE SingleRun ------------------------------
(***************************************************************************)
(* One run of xpsd in single-CVE mode inside the container action: the     *)
(* body of Lifecycle filled in with runSingleMode of cmd/xpsd/main.go, and *)
(* with the entrypoint that reads verdict.json afterwards, whatever the    *)
(* exit code.  Children die, signals arrive and the process is killed at   *)
(* any moment; any write may fail.                                         *)
(*                                                                         *)
(* The first pass's verdict is that of Review, drawn beforehand and known  *)
(* to the run once the analysis answers.                                   *)
(***************************************************************************)
EXTENDS Lifecycle, Review

CONSTANTS
  Adversary, \* -adversary-cycles > 0
  FailOn,    \* -fail-on
  Former     \* did a former run leave its files in the output directory?

ASSUME SingleAssumption ==
  /\ Adversary \in BOOLEAN /\ Former \in BOOLEAN
  /\ FailOn \in {"", "reachable", "uncertain"}

VARIABLES
  step,        \* where runSingleMode is
  verdictJson, \* verdict.json: which run wrote it and what it says
  sarif,       \* the SARIF file: the outcome of its result
  output       \* the action's "reachable" output

fileVars  == <<verdictJson, sarif>>
bodyVars  == <<step, first, review, verdict, verdictJson, sarif>>
singleVars == <<lifeVars, bodyVars, output>>

NoFile == IF Former THEN "former" ELSE "none"

(* verdict.json with the text of verdict v, or what else it is.            *)
Holds(v)   == [from |-> "this", answer |-> v.reachable, shown |-> v.shown]
Other(how) == [from |-> how, answer |-> "blank", shown |-> "none"]

Ended == at \in {"exited", "killed"}

StepsTo(from, to) == step = from /\ step' = to

-----------------------------------------------------------------------------
(* Forms some definitions below would take under a slip in the code.       *)
WriteFirst ==
  /\ Work /\ StepsTo("write", "sarif")
  /\ verdictJson' \in {Holds(first), Other("torn"), verdictJson}
  /\ UNCHANGED <<reviewVars, sarif, output>>
AnalysisFatal ==
  /\ at = "body" /\ StepsTo("analyze", "over")
  /\ Returns(1, "exited")
  /\ UNCHANGED <<cancelled, proc, port, ready, private>>
  /\ UNCHANGED <<reviewVars, fileVars, output>>
TriggeredByVerdict ==
  \/ FailOn = "reachable" /\ verdict.reachable = "yes"
  \/ FailOn = "uncertain" /\ verdict.reachable \in {"yes", "uncertain"}
-----------------------------------------------------------------------------
Init ==
  /\ LifecycleInit /\ ReviewInit
  /\ step = "analyze"
  /\ verdictJson = Other(NoFile) /\ sarif = NoFile
  /\ output = "unset"

(* RunSession answers, if with something that is no verdict.  A session    *)
(* answers only before the run is cancelled.                               *)
AnalysisAnswers ==
  /\ Work /\ ~cancelled /\ StepsTo("analyze", "review")
  /\ UNCHANGED <<reviewVars, fileVars, output>>

AnalysisFails ==
  /\ StepsTo("analyze", "over") /\ BodyReturns(1)
  /\ UNCHANGED <<reviewVars, fileVars, output>>

(* ChallengeVerdict.                                                       *)
ReviewSkipped ==
  /\ Work /\ StepsTo("review", "write") /\ ~(Adversary /\ Reviewing)
  /\ UNCHANGED <<reviewVars, fileVars, output>>

ReviewAnswers ==
  /\ Work /\ ~cancelled /\ StepsTo("review", "write") /\ Adversary
  /\ \E c \in Challenge : Answered(c)
  /\ UNCHANGED <<fileVars, output>>

ReviewFails ==
  /\ Work /\ StepsTo("review", "write") /\ Adversary /\ NotAnswered
  /\ UNCHANGED <<fileVars, output>>

(* verdict.json, also of a text that is no verdict.  A write that fails is *)
(* only logged, and keeps what was there or leaves a part.                 *)
WriteVerdict ==
  /\ Work /\ StepsTo("write", "sarif")
  /\ verdictJson' \in {Holds(verdict), Other("torn"), verdictJson}
  /\ UNCHANGED <<reviewVars, sarif, output>>

(* VerdictToSARIF: one result, classified like those of a scan.            *)
WriteSarif ==
  /\ Work /\ StepsTo("sarif", "render")
  /\ sarif' \in {Outcome(verdict.reachable), "torn", sarif}
  /\ UNCHANGED <<reviewVars, verdictJson, output>>

(* The rendering turn and report.md, whose failures are only logged.       *)
Render ==
  /\ Work /\ StepsTo("render", "gate")
  /\ UNCHANGED <<reviewVars, fileVars, output>>

(* FailOnTriggered on the counts of the one result.                        *)
FailOnTriggered ==
  \/ FailOn = "reachable" /\ verdict.reachable = "yes"
  \/ FailOn = "uncertain" /\ verdict.reachable # "no"

Gate ==
  /\ StepsTo("gate", "over") /\ BodyReturns(IF FailOnTriggered THEN 2 ELSE 0)
  /\ UNCHANGED <<reviewVars, fileVars, output>>

SingleMode ==
  \/ AnalysisAnswers \/ AnalysisFails
  \/ ReviewSkipped \/ ReviewAnswers \/ ReviewFails
  \/ WriteVerdict \/ WriteSarif \/ Render \/ Gate

(* The entrypoint prints the field it is shown as it is, but for the line  *)
(* ends the shell drops, which may make an answer of an odd value; a file  *)
(* that is missing, does not load or has no such field leaves it empty.    *)
Printed(file) ==
  CASE file.from = "former" -> {"former"}
    [] file.shown = "odd"   -> Answers
    [] file.shown = "none"  -> {""}
    [] OTHER                -> {file.shown}

Publish ==
  /\ Ended /\ output = "unset"
  /\ output' \in Printed(verdictJson)
  /\ UNCHANGED <<lifeVars, bodyVars>>

Around == (Start \/ Unwind) /\ UNCHANGED <<bodyVars, output>>

Next ==
  \/ Around \/ SingleMode \/ Publish
  \/ Outside /\ UNCHANGED <<bodyVars, output>>

Spec == Init /\ [][Next]_singleVars

(* The process and the script run on, and every session, poll and stop     *)
(* returns within its time; no child need come up, and no signal come.     *)
FairSpec == Spec /\ WF_singleVars(Around \/ SingleMode \/ Publish)

-----------------------------------------------------------------------------
TypeOK ==
  /\ LifecycleOK /\ VerdictOK
  /\ step \in {"analyze", "review", "write", "sarif", "render", "gate", "over"}
  /\ verdictJson \in [from : {"none", "former", "this", "torn"}, answer : Texts,
                      shown : Answers \cup {"none"}]
  /\ sarif \in Outcomes \cup {"none", "former", "torn"}
  /\ output \in Answers \cup {"unset", "", "former"}

(* usage.md:283-291: exit code 0 under a policy means that the verdict the *)
(* run ends with, after the review, does not meet it, an unparsed one      *)
(* counting as uncertain; code 2 has a policy and a verdict that is not    *)
(* "no"; code 1 is an analysis that never answered, or none at all.        *)
GateHolds ==
  /\ code = 0 /\ FailOn = "uncertain" => verdict.reachable = "no"
  /\ code = 0 /\ FailOn = "reachable" => verdict.reachable # "yes"
  /\ code = 2 => FailOn # "" /\ verdict.reachable # "no"
  /\ code = 1 => review = "pending" /\ step \in {"analyze", "over"}

(* A verdict of which Go and the entrypoint may have different accounts:   *)
(* one that Go refuses, or whose answer is none of the three it asks for.  *)
Disputable == verdict.reachable \in {"prose", "odd"}

(* Whatever fails, and whenever it is cancelled or killed: the files this  *)
(* run wrote are of its reviewed verdict; an output read from them is that *)
(* verdict's answer and, if it is "yes", that of a run its policy fails,   *)
(* unless the verdict is disputable, and under the policy uncertain then   *)
(* too; and a run that exits 1 wrote none of the files.                    *)
AccountsAgree ==
  /\ verdictJson.from = "this" => verdictJson = Holds(verdict)
  /\ sarif \in Outcomes => sarif = Outcome(verdict.reachable)
  /\ output \in Answers =>
       /\ output = verdict.reachable \/ Disputable
       /\ FailOn = "uncertain" /\ output # "no" => code \in {2, 137}
       /\ FailOn = "reachable" /\ output = "yes" => code \in {2, 137} \/ Disputable
  /\ code = 1 => verdictJson = Other(NoFile) /\ sarif = NoFile

(* Whatever becomes of the children, and whenever it is cancelled or       *)
(* killed, the run ends and its output is set.                             *)
RunEnds == <>(output # "unset")
=============================================================================
