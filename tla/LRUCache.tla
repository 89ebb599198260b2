------------------------------ MODULE LRUCache ------------------------------
(***************************************************************************)
(* What a cache of the nodes of files promises when it evicts the least    *)
(* recently used files: it holds at most Capacity nodes, and putting a     *)
(* file in drops the files unused for longest, as few of them as it takes. *)
(***************************************************************************)
EXTENDS Naturals, Sequences, FiniteSets, SequencesExt

CONSTANTS Files, Nodes, FileOf, Capacity

VARIABLES order,  \* the cached files, the least recently used first
          nodes   \* the cached nodes

NodesOf(f) == {n \in Nodes : FileOf[n] = f}
NodesOfAll(s) == {n \in Nodes : FileOf[n] \in ToSet(s)}

Init == order = <<>> /\ nodes = {}

(* A hit makes its file the most recently used one. *)
Hit(f) ==
    /\ f \in ToSet(order)
    /\ order' = Append(RemoveFirst(order, f), f)
    /\ UNCHANGED nodes

(* k files are dropped: the remaining nodes fit, with one file more not.   *)
Put(f, new) ==
    LET touched == Append(RemoveFirst(order, f), f)
        filled == (nodes \ NodesOf(f)) \cup new
        Left(k) == filled \ NodesOfAll(SubSeq(touched, 1, k))
    IN
    /\ Cardinality(new) <= Capacity
    /\ \E k \in 0..Len(order) :
         /\ Cardinality(Left(k)) <= Capacity
         /\ k > 0 => Cardinality(Left(k - 1)) > Capacity
         /\ order' = SubSeq(touched, k + 1, Len(touched))
         /\ nodes' = Left(k)

Drop(f) ==
    /\ f \in ToSet(order)
    /\ order' = RemoveFirst(order, f)
    /\ nodes' = nodes \ NodesOf(f)

Next ==
    \E f \in Files : Hit(f) \/ Drop(f) \/ \E new \in SUBSET NodesOf(f) : Put(f, new)

Spec == Init /\ [][Next]_<<order, nodes>>
=============================================================================
