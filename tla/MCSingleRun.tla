---------------------------- MODULE MCSingleRun -----------------------------
(* Every first verdict, every answer of the reviewer, every fate of the    *)
(* children: nothing is left to choose but the settings of the run.        *)
EXTENDS SingleRun
=============================================================================
