-------------------------- MODULE MCChunkEditing --------------------------
(* Instances of ChunkEditing for TLC. *)
EXTENDS ChunkEditing

CONSTANTS e1, e2, r1, p1, p2, a, b

TwoProcesses == e1 :> p1 @@ e2 :> p2 @@ r1 :> p1
TokenCounts == a :> 1 @@ b :> 2
AllKinds == {"add", "update", "delete", "context", "clear"}
=============================================================================
