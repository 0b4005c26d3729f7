------------------------------- MODULE Review -------------------------------
(***************************************************************************)
(* One verdict and its adversarial review, whatever the first pass said    *)
(* and the reviewer answers: what the merged verdict tells its reader, who *)
(* follows the call path of a reachable finding and the attempted path of  *)
(* any other (cmd/xpsd/challenge.go; the schema is in prompt.go).          *)
(***************************************************************************)
EXTENDS Challenge

VARIABLES first,   \* the first pass's verdict, primaryRaw
          review,  \* "pending", then "answered" or "failed"
          verdict  \* the verdict used downstream

reviewVars == <<first, review, verdict>>

(* A first verdict that follows the schema it was asked for: the call path *)
(* is the verified route of a "yes", the attempted path that of another.   *)
FirstVerdict ==
  {v \in Verdict :
     /\ v.shown \in ShownIn(v.reachable)
     /\ v.evidence \subseteq {"first"}
     /\ v.callPath # "review" /\ v.attemptedPath # "review"
     /\ v.callPath = "first" => v.reachable = "yes"
     /\ v.attemptedPath = "first" => v.reachable \in Answers \ {"yes"}}

ReviewInit ==
  /\ first \in FirstVerdict
  /\ review = "pending" /\ verdict = first

Reviewing == review = "pending" /\ Decisive(first.reachable)

(* The reviewer answers with something parseChallenge takes.               *)
Answered(c) ==
  /\ Reviewing
  /\ review' = "answered" /\ verdict' = Reviewed(first, c)
  /\ UNCHANGED first

(* The session fails, or parseChallenge returns nil.                       *)
NotAnswered ==
  /\ Reviewing
  /\ review' = "failed"
  /\ UNCHANGED <<first, verdict>>

ReviewNext == NotAnswered \/ \E c \in Challenge : Answered(c)

ReviewSpec == ReviewInit /\ [][ReviewNext]_reviewVars

-----------------------------------------------------------------------------
VerdictOK ==
  /\ first \in FirstVerdict /\ verdict \in Verdict
  /\ review \in {"pending", "answered", "failed"}

(* The merged verdict still follows the schema: it gives a call path only  *)
(* with a "yes", an attempted path only with another answer.               *)
RouteMatchesAnswer ==
  /\ verdict.callPath # "none" => verdict.reachable = "yes"
  /\ verdict.attemptedPath # "none" => verdict.reachable # "yes"

(* challenge.go:182: the route an overturned "yes" had walked stays in the *)
(* verdict, for a reader who checks the overturn.                          *)
RouteKept ==
  first.callPath = "first" =>
    \/ verdict.reachable = "yes" /\ verdict.callPath = "first"
    \/ verdict.reachable # "yes" /\ verdict.attemptedPath = "first"

(* The first pass's evidence is never lost, and a verdict that is not its  *)
(* own is backed by code the reviewer cited.                               *)
EvidenceBacked ==
  /\ first.evidence \subseteq verdict.evidence
  /\ verdict.reachable # first.reachable => "review" \in verdict.evidence
=============================================================================
