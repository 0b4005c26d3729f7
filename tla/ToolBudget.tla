----------------------------- MODULE ToolBudget -----------------------------
(***************************************************************************)
(* What one analysis session promises about its tool-call budget, apart    *)
(* from how the ReAct enforcer keeps it: calls are admitted only while the *)
(* budget of completed calls is not spent, and the model is told to stop   *)
(* only once it is spent.  Calls in flight when the last budgeted call     *)
(* completes still run, so the number admitted may pass the budget by the  *)
(* calls the runtime keeps in flight, less one, and by no more.            *)
(***************************************************************************)
EXTENDS Integers

CONSTANTS Budget,    \* completed calls allowed; 0 means unlimited
          InFlight   \* calls the runtime may keep in flight at once

VARIABLES admitted,  \* calls admitted so far
          completed, \* calls whose result came back
          told       \* has the model been told that the budget is spent?

vars == <<admitted, completed, told>>

Spent == Budget > 0 /\ completed >= Budget

Init == admitted = 0 /\ completed = 0 /\ told = FALSE

Admit ==
  /\ ~Spent /\ ~told
  /\ admitted - completed < InFlight
  /\ admitted' = admitted + 1
  /\ UNCHANGED <<completed, told>>

Complete ==
  /\ completed < admitted
  /\ completed' = completed + 1
  /\ UNCHANGED <<admitted, told>>

Tell ==
  /\ Spent
  /\ told' = TRUE
  /\ UNCHANGED <<admitted, completed>>

Next == Admit \/ Complete \/ Tell

Spec == Init /\ [][Next]_vars
=============================================================================
