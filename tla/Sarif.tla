-------------------------------- MODULE Sarif --------------------------------
(***************************************************************************)
(* The SARIF file made of the findings of a scan and of what their         *)
(* sessions answered (cmd/xpsd/sarif.go), as pure operators: one rule per  *)
(* vulnerability id, one result per finding.  GitHub takes the severity of *)
(* an alert from the rule.  Texts and locations are left out.              *)
(*                                                                         *)
(* A rating is twice a score of Report's scale, so that 2 is low and 4 is  *)
(* high, and an odd one lies between two scores; 0 is an empty rating.     *)
(***************************************************************************)
EXTENDS FiniteSetsExt, Report

(* A verdict, "doubtful" for a yes of low confidence, or none: "failed"    *)
(* for an error, "unparsed" for an answer that is no verdict.              *)
Answers == {"yes", "doubtful", "no", "uncertain", "failed", "unparsed"}

notReachable == 0
needsReview  == 1
reachable    == 2

(* "1.0", in the low band.                                                 *)
notReachableSeverity == 1

-----------------------------------------------------------------------------
(* Forms some definitions below would take under a slip in the code.       *)
FirstOutcome(fs, answers, id) ==
  LET i == CHOOSE i \in DOMAIN fs : fs[i].id = id /\ \A j \in 1..(i - 1) : fs[j].id # id
  IN  IF answers[i] = "no" THEN notReachable ELSE needsReview
-----------------------------------------------------------------------------
ResultOutcome(answer) ==
  CASE answer \in {"yes", "doubtful"} -> reachable
    [] answer = "no"                  -> notReachable
    [] OTHER                          -> needsReview

SarifLevel(answer) ==
  CASE answer = "yes" -> "error"
    [] answer = "no"  -> "note"
    [] OTHER          -> "warning"

RuleDefaultLevel(outcome) == IF outcome = notReachable THEN "note" ELSE "warning"

(* What has no score is rated inside the band of its severity: above the   *)
(* least scores there (8.0, and high begins at 7.0), below the greatest.   *)
SecuritySeverity(f, outcome) ==
  IF outcome = notReachable THEN notReachableSeverity
  ELSE IF f.score > 0 THEN 2 * f.score
  ELSE CASE f.severity = 3        -> 5
         [] f.severity \in {1, 2} -> 3
         [] OTHER                 -> 0

(* The severity a rating stands for, with the bands of ScoreToSeverity.    *)
Band(rating) ==
  CASE rating = 0      -> 0
    [] rating \in 1..3 -> 2
    [] OTHER           -> 3

(* The most serious outcome of the findings with the id.                   *)
RuleOutcome(fs, answers, id) ==
  Max({ResultOutcome(answers[i]) : i \in {j \in DOMAIN fs : fs[j].id = id}})

BuildRule(f, outcome) ==
  [id |-> f.id, level |-> RuleDefaultLevel(outcome), severity |-> SecuritySeverity(f, outcome)]

(* A rule is built from the first finding with its id.                     *)
BuildScanSARIF(fs, answers) ==
  LET new(i)  == \A j \in 1..(i - 1) : fs[j].id # fs[i].id
      firsts  == Listed({i \in DOMAIN fs : new(i)}, <)
      rules   == [k \in DOMAIN firsts |->
                    BuildRule(fs[firsts[k]], RuleOutcome(fs, answers, fs[firsts[k]].id))]
      index(f) == CHOOSE k \in DOMAIN rules : rules[k].id = f.id
  IN  [rules   |-> rules,
       results |-> [i \in DOMAIN fs |->
                      [rule |-> index(fs[i]), level |-> SarifLevel(answers[i])]]]
==============================================================================
