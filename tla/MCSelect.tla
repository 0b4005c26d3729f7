------------------------------ MODULE MCSelect ------------------------------
(* Small instances of the selection for TLC: ids 1 to 3, of which 1 and 2   *)
(* are CVE ids, and entries that name one vulnerability in several ways.    *)
EXTENDS Select

Two == {1, 2}

Lists(id, aliases, pkg, severity, cvss, group) ==
  [id |-> id, aliases |-> aliases, pkg |-> pkg, severity |-> severity,
   cvss |-> cvss, group |-> group]

Scored(score, vector, base) == [score |-> score, vector |-> vector, base |-> base]
High    == Scored(2, "none", 0)
Network == Scored(0, "network", 1)
Local   == Scored(1, "local", 1)
Worst   == Scored(3, "local", 1)
Broken  == Scored(0, "network", 0)

(* Other ids for one vulnerability where the format has them, duplicates,   *)
(* an empty id, several scores; two versions of a package; and what only    *)
(* one format can list.  A package is a name and a version.                 *)
A1 == <<1, 1>>
A2 == <<1, 2>>
B1 == <<2, 1>>

FewEntries ==
  [grype |-> {Lists(1, <<>>, A1, 3, <<High>>, 0), Lists(1, <<3>>, A1, 0, <<>>, 0),
              Lists(3, <<1>>, A1, 2, <<Network, Worst>>, 0),
              Lists(3, <<1, 2>>, A1, 1, <<>>, 0), Lists(0, <<>>, A1, 3, <<High>>, 0)},
   trivy |-> {Lists(1, <<>>, A1, 0, <<Local, High>>, 0),
              Lists(1, <<>>, B1, 1, <<Broken, High, Worst>>, 0),
              Lists(3, <<>>, A1, 3, <<Network>>, 0)},
   osv   |-> {Lists(3, <<1>>, A1, 0, <<Local>>, 2), Lists(2, <<3>>, A2, 0, <<Broken>>, 1),
              Lists(1, <<>>, A1, 3, <<>>, 0)},
   snyk  |-> {Lists(3, <<2>>, A1, 2, <<Broken>>, 0), Lists(3, <<1>>, A1, 3, <<Worst>>, 0),
              Lists(3, <<>>, B1, 1, <<>>, 0)},
   sarif |-> {Lists(1, <<3>>, A2, 1, <<>>, 2), Lists(1, <<>>, A1, 0, <<>>, 2),
              Lists(1, <<>>, <<0, 0>>, 0, <<>>, 1), Lists(1, <<>>, B1, 3, <<>>, 0)}]

FeedRows == [id : Two, exploited : BOOLEAN, vector : Vectors, short : {FALSE}] \cup
            {[id |-> 1, exploited |-> TRUE, vector |-> "local", short |-> TRUE]}

Flags(only, minSeverity, minCVSS, remote, exploited, cap, enrich, sarif) ==
  [format : Formats, only : only, minSeverity : minSeverity, minCVSS : minCVSS,
   remote : remote, exploited : exploited, cap : cap, enrich : enrich, sarif : sarif]

Never == {FALSE}
FloorOptions == Flags({{}, {3}}, {-1, 0, 2}, {0, 2}, Never, Never, {0, 1, 2}, BOOLEAN, Never)
GateOptions  == Flags({{}}, {0}, {0, 2}, BOOLEAN, BOOLEAN, {0, 1}, Never, Never)
SarifOptions == Flags({{}}, {0}, {0}, Never, Never, {0}, BOOLEAN, {TRUE})
AllOptions   == FloorOptions \cup GateOptions \cup SarifOptions
==============================================================================
