------------------------------- MODULE Report --------------------------------
(***************************************************************************)
(* What the five report parsers make of one entry (cmd/xpsd/scan.go), as   *)
(* pure operators.  An entry is one record for all formats; each parser    *)
(* reads the parts its format has.                                         *)
(*                                                                         *)
(* Ids are numbers, so that they sort; 0 is the empty id.  A package is    *)
(* its name and its version.  Severities are their ranks, cut to unknown,  *)
(* negligible, low and high, and a score of 1 is low and above is high.    *)
(* A vector is the attack vector it shows, "none" for no vector, next to   *)
(* the score CVSS3BaseScore makes of it, 0 if it cannot.                   *)
(* Spellings and texts are left out.                                       *)
(***************************************************************************)
EXTENDS Integers, FiniteSets, Sequences, SequencesExt

CONSTANTS
  Cves,      \* the ids that are CVE ids
  MaxScore   \* bound: CVSS scores are 0 (none) to MaxScore

Scores     == 0..MaxScore
Severities == 0..3
Vectors    == {"none", "network", "local"}
Formats    == {"grype", "trivy", "osv", "snyk", "sarif"}

(* group is a score the report gives apart from any vector: max_severity   *)
(* of the entry's OSV group, security-severity of a SARIF rule.  A SARIF   *)
(* entry's id is the bare one, and its only alias the decorated rule id.   *)
Cvss  == [score : Scores, vector : Vectors, base : Scores]
Entry == [id : Nat, aliases : Seq(Nat), pkg : Nat \X Nat, severity : Severities,
          cvss : Seq(Cvss), group : Scores]

ScoreToSeverity(score) ==
  CASE score = 0 -> 0
    [] score = 1 -> 2
    [] OTHER     -> 3

Worth(c)    == IF c.score = 0 THEN c.base ELSE c.score
NoPick      == [score |-> 0, vector |-> "none"]

-----------------------------------------------------------------------------
(* Forms some definitions below would take under a slip in the code.       *)
PrimaryStays(e)   == e.id
AliasesWithOwn(e) == {e.id} \cup Range(e.aliases)
OfferScore(p, c)  ==
  [score  |-> IF Worth(c) > p.score THEN Worth(c) ELSE p.score,
   vector |-> IF p.vector = "none" THEN c.vector ELSE p.vector]
-----------------------------------------------------------------------------
(* The members of a finite set in an order of them, and the elements of s  *)
(* that pass.  (SelectSeq is recursive, which is not for the provers.)     *)
Listed(set, Before(_, _)) ==
  CHOOSE t \in [1..Cardinality(set) -> set] :
    \A m, n \in DOMAIN t : m < n => Before(t[m], t[n])

Pick(s, t) == [k \in DOMAIN t |-> s[t[k]]]

Kept(s, Passes(_)) == Pick(s, Listed({i \in DOMAIN s : Passes(s[i])}, <))

(* canonicalizeID: a CVE id if the entry has one, its own id first.        *)
CanonicalId(e) ==
  LET cves == Kept(e.aliases, LAMBDA id : id \in Cves)
  IN  IF e.id \in Cves \/ cves = <<>> THEN e.id ELSE cves[1]

(* dedupeStrings of the other ids.                                         *)
AliasesOf(e) == ({e.id} \cup Range(e.aliases)) \ {0, CanonicalId(e)}

(* finishFinding, with the score and the vector picked.                    *)
Finish(e, severity, pick) ==
  [id       |-> CanonicalId(e),
   aliases  |-> AliasesOf(e),
   pkg      |-> e.pkg,
   severity |-> IF severity = 0 THEN ScoreToSeverity(pick.score) ELSE severity,
   score    |-> pick.score,
   vector   |-> pick.vector]

(* cvssPick.offer: the first of the best.                                  *)
Offer(p, c) ==
  IF Worth(c) > p.score THEN [score |-> Worth(c), vector |-> c.vector] ELSE p

Grype(e) == {Finish(e, e.severity, FoldLeft(Offer, NoPick, e.cvss))}

(* The first entry stands for NVD's, which is preferred; of the others the *)
(* best, in the order Go walks a map.  A vector alone gives no score.      *)
Trivy(e) ==
  LET scored == {c \in Range(e.cvss) : c.score > 0}
      best   == {c \in scored : \A d \in scored : d.score <= c.score}
      nvd    == e.cvss # <<>> /\ e.cvss[1].score > 0
      from   == IF nvd THEN {e.cvss[1]} ELSE best
      picks  == {[score |-> c.score, vector |-> c.vector] : c \in from}
  IN  {Finish([e EXCEPT !.aliases = <<>>], e.severity, p) :
         p \in IF from = {} THEN {NoPick} ELSE picks}

(* The vectors alone; the group's maximum only if they give nothing.       *)
Osv(e) ==
  LET vectors == [i \in DOMAIN e.cvss |-> [e.cvss[i] EXCEPT !.score = 0]]
      p       == FoldLeft(Offer, NoPick, vectors)
  IN  {Finish(e, e.severity, IF p.score = 0 THEN [p EXCEPT !.score = e.group] ELSE p)}

(* One score and one vector, of which either may be missing.               *)
Snyk(e) ==
  LET c == IF e.cvss = <<>> THEN [score |-> 0, vector |-> "none", base |-> 0]
           ELSE e.cvss[1]
  IN  {Finish(e, e.severity, [score |-> Worth(c), vector |-> c.vector])}

(* sarifLevelToSeverity: a level counts as its score does, if it has one.  *)
Sarif(e) ==
  {Finish(e, IF e.severity > 0 /\ e.group > 0 THEN ScoreToSeverity(e.group)
             ELSE e.severity,
          [score |-> e.group, vector |-> "none"])}

Parse(format, e) ==
  CASE format = "grype" -> Grype(e)
    [] format = "trivy" -> Trivy(e)
    [] format = "osv"   -> Osv(e)
    [] format = "snyk"  -> Snyk(e)
    [] format = "sarif" -> Sarif(e)
==============================================================================
