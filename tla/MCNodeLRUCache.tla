--------------------------- MODULE MCNodeLRUCache ---------------------------
(* Instances of NodeLRUCache for TLC: the files and their nodes. *)
EXTENDS NodeLRUCache

CONSTANTS f1, f2, f3, a1, a2, b1, b2, c1

TwoAndOne == a1 :> f1 @@ a2 :> f1 @@ b1 :> f2
TwoTwoOne == a1 :> f1 @@ a2 :> f1 @@ b1 :> f2 @@ b2 :> f2 @@ c1 :> f3

ThreadSymmetry == Permutations(Threads)
=============================================================================
