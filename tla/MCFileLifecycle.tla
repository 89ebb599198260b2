-------------------------- MODULE MCFileLifecycle --------------------------
(* Instances of FileLifecycle for TLC. *)
EXTENDS FileLifecycle, TLC

WorkerSymmetry == Permutations(Workers)
=============================================================================
