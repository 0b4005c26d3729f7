------------------------------ MODULE MCReact -------------------------------
(***************************************************************************)
(* Small instances of the ReAct enforcer for TLC.  Tool calls are model    *)
(* values; nothing distinguishes two keys, so they are symmetric where no  *)
(* liveness is checked.                                                    *)
(***************************************************************************)
EXTENDS React, TLC

KeySymmetry == Permutations(Keys)
=============================================================================
