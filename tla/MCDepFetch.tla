----------------------------- MODULE MCDepFetch -----------------------------
(* Small instances of the dependency fetch for TLC: a few calls of one      *)
(* directory name, with one source or several.                              *)
EXTENDS DepFetch

CONSTANTS a1, a2, r1

(* Two files each, and an archive with one more than MaxEntries allows.    *)
TwoEach == [s \in {a1, a2, r1} |-> IF s = a2 THEN 3 ELSE 2]
JustOne == [s \in {a1} |-> 2]
=============================================================================
