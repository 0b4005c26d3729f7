------------------------------ MODULE MCSearch ------------------------------
(* Two rules over a small tree, the first with more sites than most limits *)
(* and one colon; each tool with a limit below, at and above its matches.  *)
EXTENDS Search

CONSTANTS c1, c2, p, q, s1, s2, s3

TwoRules == [r \in {p, q} |-> IF r = p THEN {s1, s2, s3} ELSE {s3}]

Ask1(tools, limits) == [tool : tools, rules : {<<p>>}, limit : limits]

AllTools ==
  Ask1({"pattern", "calls"}, {0, 1, 2, 4}) \cup Ask1(Greps, {1, 4})
    \cup [tool : {"definition"}, rules : {<<p, q>>}, limit : {0}]

FileGreps == Ask1({"grepFile"}, {4})
=============================================================================
