----------------------------- MODULE Challenge ------------------------------
(***************************************************************************)
(* The adversarial review of a verdict as pure operators: when a verdict   *)
(* is put to a reviewer, when the reviewer's answer is taken, and how it   *)
(* is merged into the first verdict (cmd/xpsd/challenge.go, batch.go).     *)
(*                                                                         *)
(* A verdict's text is abstracted to its "reachable" field, to the passes  *)
(* whose evidence it cites, and to the pass whose route it gives as its    *)
(* call path and attempted path.  "odd" stands for any other value of the  *)
(* field, "Yes" with a capital included, as the field is compared as the   *)
(* model wrote it; "prose" is a text that Go does not parse as a verdict,  *)
(* "blank" an empty one.                                                   *)
(*                                                                         *)
(* The entrypoint reads the same text with Python's json module, and the   *)
(* two do not read it alike: Go takes the key in any case of letters and   *)
(* refuses an object in which another field has the wrong type, Python     *)
(* takes this one key and any object.  So a verdict also has what the      *)
(* entrypoint is shown, "none" for no such field.                          *)
(***************************************************************************)
Passes   == {"first", "review"}
Answers  == {"yes", "no", "uncertain", "odd"}
Route    == Passes \cup {"none"}

Texts    == Answers \cup {"prose", "blank"}

Verdict == [reachable : Texts, shown : Answers \cup {"none"},
            evidence : SUBSET Passes, callPath : Route, attemptedPath : Route]

(* What parseChallenge returns: it trims and lowers the reviewer's answer  *)
(* and takes no other than these; "unparsed" is its nil.                   *)
Challenge == [agrees : BOOLEAN, reachable : {"yes", "no", "uncertain", ""},
              cites : BOOLEAN, callPath : {"review", "none"}]

Parsed(reachable)   == reachable \in Answers
Decisive(reachable) == reachable \in {"yes", "no"}

(* What the entrypoint may be shown of a text that Go reads so.            *)
ShownIn(reachable) ==
  IF Parsed(reachable) THEN {reachable, "none"}
  ELSE IF reachable = "prose" THEN Answers \cup {"none"} ELSE {"none"}

(* resultOutcome: how a SARIF result is classified.                        *)
Outcomes == {"reachable", "notReachable", "needsReview"}
Outcome(reachable) ==
  IF reachable = "yes" THEN "reachable"
  ELSE IF reachable = "no" THEN "notReachable" ELSE "needsReview"

Cited(c) == IF c.cites THEN {"review"} ELSE {}

(* Forms some definitions below would take under a slip in the code.       *)
OverturnsUncited(v, c) ==
  ~c.agrees /\ c.reachable # "" /\ c.reachable # v.reachable
MergeKeepsPath(v, c) ==
  [v EXCEPT !.reachable = c.reachable, !.shown = c.reachable,
            !.evidence = @ \cup Cited(c),
            !.attemptedPath = IF @ = "none" THEN v.callPath ELSE @]
MergeDropsRoute(v, c) ==
  [v EXCEPT !.reachable = c.reachable, !.shown = c.reachable,
            !.evidence = @ \cup Cited(c),
            !.callPath = IF c.reachable = "yes" THEN c.callPath ELSE "none",
            !.attemptedPath = IF c.reachable = "yes" THEN "none" ELSE @]

(* The reviewer's answer is taken when it differs and cites code.          *)
Overturns(v, c) ==
  /\ ~c.agrees /\ c.reachable # "" /\ c.reachable # v.reachable
  /\ c.cites

(* A route that is no longer the call path stays as the attempted one.     *)
(* The merged text is Go's own, with the schema's keys.                    *)
Merge(v, c) ==
  [reachable     |-> c.reachable,
   shown         |-> c.reachable,
   evidence      |-> v.evidence \cup Cited(c),
   callPath      |-> IF c.reachable = "yes" THEN c.callPath ELSE "none",
   attemptedPath |-> IF c.reachable = "yes" THEN "none"
                     ELSE IF v.attemptedPath = "none" THEN v.callPath
                     ELSE v.attemptedPath]

(* The verdict used downstream, and whether it was overturned.             *)
Reviewed(v, c) == IF Overturns(v, c) THEN Merge(v, c) ELSE v
=============================================================================
