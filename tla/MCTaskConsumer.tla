--------------------------- MODULE MCTaskConsumer ---------------------------
(* Instances of TaskConsumer for TLC. *)
EXTENDS TaskConsumer, TLC

CONSTANTS g1, g2, t1

(* The listeners of one topic: one gives up later than the other. *)
TwoGroups == [g \in Groups |-> IF g = g1 THEN 2 ELSE 3]
=============================================================================
