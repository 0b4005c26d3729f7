------------------------------- MODULE Select -------------------------------
(***************************************************************************)
(* From a scan report to the findings that get a session: parse, dedup,    *)
(* -only, enrichment, the floors, the exploitability gates with the        *)
(* CVSS-BT feed they stream, rank and cap (cmd/xpsd: main.go, scan.go,     *)
(* exploit.go); and to the SARIF file that tells how the sessions ended.   *)
(* The parsers, and how a finding is represented, are in module Report,    *)
(* the SARIF file in module Sarif.  The feed has one row per CVE id.       *)
(***************************************************************************)
EXTENDS Sarif

CONSTANTS
  EntriesOf, \* format -> what a report of it may list
  Rows,      \* what the feed may list
  Options,   \* the flags of a run
  MaxReport  \* bound: entries of a report

ASSUME SelectAssumption ==
  /\ \A f \in Formats : EntriesOf[f] \subseteq Entry
  /\ \A r \in Rows : /\ r.id \in Cves /\ r.vector \in Vectors
                     /\ {r.exploited, r.short} \subseteq BOOLEAN
  /\ Options \subseteq [format : Formats, only : SUBSET Nat, minSeverity : Int,
                         minCVSS : Int, remote : BOOLEAN, exploited : BOOLEAN,
                         cap : Int, enrich : BOOLEAN, sarif : BOOLEAN]
  /\ Cves \subseteq Nat \ {0} /\ IsFiniteSet(Cves)
  /\ MaxReport \in Nat /\ MaxScore \in Nat

VARIABLES
  opt,      \* the flags: format, only, minSeverity (below 0 if it is not
            \* one), minCVSS, remote, exploited, cap, enrich, sarif
  report,   \* the entries of the scan report
  feed,     \* the rows of the CVSS-BT dataset, none till it is asked for
  stage,    \* what the pipeline does next
  list,     \* the findings still in it
  judged,   \* the findings as the filters get them
  at,       \* row of the feed to be read next
  info,     \* id -> row, the rows matched
  feedRead, \* "no", "whole" (or all that was wanted), "cut" or "down"
  answers   \* what the session of each finding in the list ended with

vars == <<opt, report, feed, stage, list, judged, at, info, feedRead, answers>>

Ids(f) == {f.id} \cup f.aliases
Key(f) == <<f.id, f.pkg>>

-----------------------------------------------------------------------------
(* Forms some definitions below would take under a slip in the code.       *)
StopsAtFirst(m) == DOMAIN m # {}
PassesOne(f) ==
  \/ f.severity = 0 \/ f.severity >= opt.minSeverity
  \/ f.score = 0 \/ f.score >= opt.minCVSS
-----------------------------------------------------------------------------
Init ==
  /\ opt \in Options
  /\ report \in SeqOf(EntriesOf[opt.format], MaxReport)
  /\ feed = <<>> /\ stage = "parse" /\ list = <<>> /\ judged = <<>>
  /\ at = 1 /\ info = [id \in {} |-> 0] /\ feedRead = "no" /\ answers = <<>>

Feeds == {s \in SeqOf(Rows, Cardinality(Cves)) :
            \A i, j \in DOMAIN s : i # j => s[i].id # s[j].id}

(* A step of the pipeline that leaves the feed alone.                      *)
Step(from, to) ==
  /\ stage = from /\ stage' = to
  /\ UNCHANGED <<opt, report, feed, at, info, feedRead, answers>>

ParseScan ==
  /\ Step("parse", "dedup")
  /\ list' \in {l \in [DOMAIN report -> UNION {Parse(opt.format, e) : e \in Range(report)}] :
                 \A i \in DOMAIN report : l[i] \in Parse(opt.format, report[i])}
  /\ UNCHANGED judged

ParseFails == Step("parse", "fatal") /\ UNCHANGED <<list, judged>>

Dedup(s) ==
  LET first(i) == s[i].id # 0 /\ \A j \in 1..(i - 1) : Key(s[j]) # Key(s[i])
  IN  Pick(s, Listed({i \in DOMAIN s : first(i)}, <))

DedupFindings ==
  /\ Step("dedup", "only")
  /\ list' = Dedup(list)
  /\ UNCHANGED judged

MatchesOnly(f) == opt.only = {} \/ Ids(f) \cap opt.only # {}

SelectByIDs ==
  /\ Step("only", "enrich")
  /\ list' = Kept(list, MatchesOnly)
  /\ UNCHANGED judged

(* What EnrichFindings may make of a finding, as module Enrich has it: what*)
(* is there stays, a new vector comes with a score, and what has a score   *)
(* is rated.                                                               *)
Enriched(f) ==
  {g \in [id : {f.id}, aliases : {f.aliases}, pkg : {f.pkg},
          severity : IF f.severity = 0 THEN Severities ELSE {f.severity},
          score    : IF f.score = 0 THEN Scores ELSE {f.score},
          vector   : IF f.vector = "none" THEN Vectors ELSE {f.vector}] :
     /\ g.score > 0 => g.severity # 0
     /\ g.vector # f.vector => g.score > 0}

EnrichFindings ==
  /\ Step("enrich", "floors")
  /\ \/ ~opt.enrich /\ UNCHANGED list
     \/ /\ opt.enrich
        /\ list' \in {l \in [DOMAIN list -> UNION {Enriched(f) : f \in Range(list)}] :
                        \A i \in DOMAIN list : l[i] \in Enriched(list[i])}
  /\ judged' = list'

-----------------------------------------------------------------------------
(* The floors let pass what they cannot judge.                             *)
PassesFloors(f) ==
  /\ f.severity = 0 \/ f.severity >= opt.minSeverity
  /\ f.score = 0 \/ f.score >= opt.minCVSS

Gated == opt.remote \/ opt.exploited

(* The ids the feed is asked for; it is not asked for none.                *)
Wanted == UNION {Ids(f) \cap Cves : f \in Range(list)}

AfterFloors(s) ==
  IF ~Gated THEN "rank"
  ELSE IF UNION {Ids(f) \cap Cves : f \in Range(s)} = {} THEN "gates"
  ELSE "feed"

SelectFindings ==
  /\ list' = Kept(Dedup(list), PassesFloors)
  /\ stage = "floors" /\ stage' = AfterFloors(list')
  /\ opt.minSeverity >= 0
  /\ feed' \in IF stage' = "feed" THEN Feeds ELSE {feed}
  /\ UNCHANGED <<opt, report, judged, at, info, feedRead, answers>>

BadFloor ==
  /\ opt.minSeverity < 0
  /\ Step("floors", "fatal") /\ UNCHANGED <<list, judged>>

-----------------------------------------------------------------------------
(* FetchExploitInfo, a row at a time; it stops when it has all it wants.   *)
HasAll(m) == DOMAIN m = Wanted

Matches(r) == r.id \in Wanted /\ ~r.short

ReadRow ==
  /\ stage = "feed" /\ at <= Len(feed)
  /\ info' = [id \in DOMAIN info \cup (IF Matches(feed[at]) THEN {feed[at].id} ELSE {}) |->
                IF Matches(feed[at]) /\ id = feed[at].id THEN feed[at] ELSE info[id]]
  /\ at' = at + 1
  /\ IF Matches(feed[at]) /\ HasAll(info')
     THEN stage' = "gates" /\ feedRead' = "whole"
     ELSE UNCHANGED <<stage, feedRead>>
  /\ UNCHANGED <<opt, report, feed, list, judged, answers>>

FeedEnds ==
  /\ stage = "feed" /\ at > Len(feed)
  /\ stage' = "gates" /\ feedRead' = "whole"
  /\ UNCHANGED <<opt, report, feed, list, judged, at, info, answers>>

(* A read error in the middle keeps the rows already matched.              *)
FeedCut ==
  /\ stage = "feed" /\ DOMAIN info # {}
  /\ stage' = "gates" /\ feedRead' = "cut"
  /\ UNCHANGED <<opt, report, feed, list, judged, at, info, answers>>

(* No answer, a bad header, an error before the first match.  Only         *)
(* -is-exploited cannot do without the feed.                               *)
FeedDown ==
  /\ stage = "feed" /\ DOMAIN info = {}
  /\ stage' = IF opt.exploited THEN "fatal" ELSE "gates"
  /\ feedRead' = "down"
  /\ UNCHANGED <<opt, report, feed, list, judged, at, info, answers>>

-----------------------------------------------------------------------------
RowsOf(f) == {info[id] : id \in Ids(f) \cap DOMAIN info}

(* lookupVector: the row of the finding's own id, else an alias's that     *)
(* shows the network, else any.                                            *)
LookupVector(f) ==
  LET others == {r.vector : r \in RowsOf(f)} \ {"none"}
  IN  IF f.id \in DOMAIN info /\ info[f.id].vector # "none" THEN info[f.id].vector
      ELSE IF "network" \in others THEN "network"
      ELSE IF others # {} THEN "local" ELSE "none"

IsRemote(f) ==
  (IF f.vector = "none" THEN LookupVector(f) ELSE f.vector) = "network"

IsExploited(f) == \E r \in RowsOf(f) : r.exploited

PassesGates(f) == (opt.remote => IsRemote(f)) /\ (opt.exploited => IsExploited(f))

FilterExploitability ==
  /\ Step("gates", "rank")
  /\ list' = Kept(list, PassesGates)
  /\ UNCHANGED judged

-----------------------------------------------------------------------------
(* RankAndCap: severity, score, then id and name of the package; ties, of  *)
(* which only the versions differ, as they came.                           *)
Better(f, g) ==
  \/ f.severity > g.severity
  \/ f.severity = g.severity /\ f.score > g.score
  \/ f.severity = g.severity /\ f.score = g.score /\ f.id < g.id
  \/ f.severity = g.severity /\ f.score = g.score /\ f.id = g.id /\ f.pkg[1] < g.pkg[1]

Ranked(s) ==
  LET before(i, j) == Better(s[i], s[j]) \/ (~Better(s[j], s[i]) /\ i < j)
  IN  Pick(s, Listed(DOMAIN s, before))

Capped(s) == IF opt.cap > 0 /\ Len(s) > opt.cap THEN SubSeq(s, 1, opt.cap) ELSE s

RankAndCap ==
  /\ Step("rank", "done")
  /\ list' = Capped(Ranked(list))
  /\ UNCHANGED judged

(* The sessions of the run, as module ScanRun has them, whose results come *)
(* in the order of the findings; then the SARIF file is built from them.   *)
RunScan ==
  /\ stage = "done" /\ opt.sarif
  /\ stage' = "told"
  /\ answers' \in [DOMAIN list -> Answers]
  /\ UNCHANGED <<opt, report, feed, list, judged, at, info, feedRead>>

Document == BuildScanSARIF(list, answers)

Next ==
  \/ ParseScan \/ ParseFails \/ DedupFindings \/ SelectByIDs \/ EnrichFindings
  \/ SelectFindings \/ BadFloor
  \/ ReadRow \/ FeedEnds \/ FeedCut \/ FeedDown
  \/ FilterExploitability \/ RankAndCap \/ RunScan

Spec == Init /\ [][Next]_vars

-----------------------------------------------------------------------------
Finding == [id : Nat, aliases : SUBSET Nat, pkg : Nat \X Nat, severity : Severities,
            score : Scores, vector : Vectors]

TypeOK ==
  /\ stage \in {"parse", "dedup", "only", "enrich", "floors", "feed", "gates",
                "rank", "done", "told", "fatal"}
  /\ list \in Seq(Finding) /\ judged \in Seq(Finding)
  /\ \A f \in Range(list) : f.id \notin f.aliases /\ 0 \notin f.aliases
  /\ at \in 1..(Len(feed) + 1)
  /\ DOMAIN info \subseteq Wanted \cup {r.id : r \in Range(feed)}
  /\ \A id \in DOMAIN info : info[id] \in Range(feed) /\ info[id].id = id
  /\ feedRead \in {"no", "whole", "cut", "down"}

(* What the feed itself holds on a finding, read or not: of the vectors    *)
(* "a local vector on one alias must not mask a remote vector on another,  *)
(* and the finding's own id wins" (exploit_test.go:275), unless the feed   *)
(* was cut before its row.                                                 *)
FeedOn(f) == {r \in Range(feed) : r.id \in Ids(f) /\ ~r.short}

ShownRemote(f) ==
  \/ f.vector = "network"
  \/ /\ f.vector = "none"
     /\ \E r \in FeedOn(f) : r.vector = "network"
     /\ feedRead # "cut" => \A r \in FeedOn(f) : r.id = f.id => r.vector # "local"

ShownExploited(f) == \E r \in FeedOn(f) : r.exploited

Meets(f) ==
  /\ f.severity = 0 \/ f.severity >= opt.minSeverity
  /\ f.score = 0 \/ f.score >= opt.minCVSS
  /\ opt.remote => ShownRemote(f)
  /\ opt.exploited => ShownExploited(f)

(* scan.go:58: a score and a vector "are never taken from different        *)
(* entries", in a report of any format; what is scored is rated; and of a  *)
(* Grype entry no score is better.                                         *)
EvidencePaired ==
  stage = "dedup" =>
    \A i \in DOMAIN list :
      /\ list[i].score > 0 => list[i].severity # 0
      /\ list[i].vector # "none" =>
           \E c \in Range(report[i].cvss) :
             c.vector = list[i].vector /\ list[i].score \in {c.score, c.base}
      /\ opt.format = "grype" =>
           \A c \in Range(report[i].cvss) : Worth(c) <= list[i].score

(* A session is spent only on a finding that meets every filter on its     *)
(* enriched data, with evidence the feed really holds, however little of   *)
(* it was read; and a finding gets one session, not two.                   *)
NoWastedSession ==
  stage = "done" =>
    /\ \A f \in Range(list) : f \in Range(judged) /\ Meets(f)
    /\ \A i, j \in DOMAIN list : Key(list[i]) = Key(list[j]) => i = j

(* A vulnerability with one CVE id is analyzed once in a package, under    *)
(* whatever id each entry of the report came.                              *)
OncePerCve ==
  stage = "done" =>
    \A i, j \in DOMAIN list :
      /\ list[i].pkg = list[j].pkg
      /\ \E id \in Cves : Ids(list[i]) \cap Cves = {id} /\ Ids(list[j]) \cap Cves = {id}
      => i = j

(* With the feed read to where its reader stopped of itself, or lost under *)
(* -is-exploited, no finding that meets the filters is left out but for    *)
(* ones no worse, and then the cap is full: a lost feed never looks like a *)
(* report of which nothing qualified, and stopping early loses nothing.    *)
Meeting == {f \in Range(judged) : Meets(f)}

BestAreAnalyzed ==
  stage = "done" /\ feedRead # "cut" /\ (feedRead = "down" => opt.exploited) =>
    \A f \in Meeting \ Range(list) :
      /\ opt.cap > 0 /\ Len(list) = opt.cap
      /\ \A g \in Range(list) : ~Better(f, g)

(* sarif.go:240: a rule shared by several findings takes "the most serious *)
(* outcome among them".  A result that is more than a note is under a rule *)
(* that is no note by default and is rated in no lower a band than the     *)
(* finding itself would be, if the scores of the vulnerability go with     *)
(* their severities: the rule is made of its first finding, and RankAndCap *)
(* put the worst first.  Within the band it may be lower: 7.1 for a scored *)
(* finding, where an unscored one would be 8.0.  A vulnerability ruled out *)
(* wherever it was found is out of the way, rated low.                     *)
ScoresFit(id) ==
  \A f \in Range(list) :
    f.id = id /\ f.score > 0 => f.severity = ScoreToSeverity(f.score)

AlertsStandOut ==
  stage = "told" =>
    \A i \in DOMAIN list :
      LET result == Document.results[i]
          rule   == Document.rules[result.rule]
      IN  /\ rule.id = list[i].id
          /\ answers[i] # "no" =>
               /\ result.level # "note" /\ rule.level # "note"
               /\ ScoresFit(rule.id) =>
                    Band(rule.severity) >= Band(SecuritySeverity(list[i], needsReview))
          /\ (\A j \in DOMAIN list : list[j].id = rule.id => answers[j] = "no") =>
               rule.level = "note" /\ rule.severity = notReachableSeverity

-----------------------------------------------------------------------------
(* exploit.go:139, of a feed cut short: "Keep the rows already matched     *)
(* ... unmatched CVEs then fall through as unknown and are kept."          *)
UnmatchedAreKept ==
  stage = "done" /\ feedRead = "cut" /\ opt.cap = 0 /\ ~opt.remote =>
    \A f \in Range(judged) : PassesFloors(f) /\ RowsOf(f) = {} => f \in Range(list)
=============================================================================
