--------------------------- MODULE MCTargetBuild ---------------------------
(***************************************************************************)
(* Instances of TargetBuild for TLC: two units and the header they may     *)
(* share.                                                                  *)
(***************************************************************************)
EXTENDS TargetBuild

CONSTANTS s1, s2, h1

\* s1 starts to include h1 when it is edited.
GrowingIncludes(s, v) == IF s = s1 /\ v = 1 THEN {} ELSE {h1}

\* s1 no longer includes h1 once it is edited.
ShrinkingIncludes(s, v) == IF s = s1 /\ v > 1 THEN {} ELSE {h1}
=============================================================================
