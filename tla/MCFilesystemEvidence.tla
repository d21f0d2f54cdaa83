------------------------ MODULE MCFilesystemEvidence ------------------------
(***************************************************************************)
(* An instance of FilesystemEvidence for TLC: a dependency of three         *)
(* inspections, one of which has another.                                  *)
(***************************************************************************)
EXTENDS FilesystemEvidence

CONSTANTS o1, o2, o3, p1, p2

MCDepends(o) == IF o = o1 THEN {p1, p2} ELSE {p1}
=============================================================================
