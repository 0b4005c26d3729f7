------------------------------ MODULE MCEnrich ------------------------------
(* Small instances of the enrichment for TLC: findings that share ids, more *)
(* of them than the pool has workers.                                       *)
EXTENDS Enrich

CONSTANTS a, b

SharedIds == <<<<a, b>>, <<b>>, <<a>>>>

Says(score, severity, vector) ==
  [score |-> score, severity |-> severity, vector |-> vector]
SomeReports == {Says(0, "unknown", 0), Says(0, "high", 0), Says(1, "low", 0)}
=============================================================================
