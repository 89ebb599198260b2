----------------------------- MODULE MCQaGroup -----------------------------
(* Instances of QaGroup for TLC. *)
EXTENDS QaGroup

CONSTANTS c1, c2, g1, f

AllKinds == {"add", "delete", "cover", "index"}
=============================================================================
