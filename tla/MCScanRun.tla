----------------------------- MODULE MCScanRun ------------------------------
(* Small instances of a scan run for TLC: the configurations give the      *)
(* number of findings and the flags.                                       *)
EXTENDS ScanRun
=============================================================================
