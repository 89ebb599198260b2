---------------------------- MODULE TaskDelivery ----------------------------
(***************************************************************************)
(* What publishing a background task promises: every consumer group of the *)
(* topic eventually settles it.  It is settled when a callback of the      *)
(* group completed, or when the group gave it up and asked, in its log,    *)
(* for manual compensation; a callback that outlived its timeout may still *)
(* complete a task already given up.                                       *)
(***************************************************************************)
CONSTANTS Tasks, Groups

VARIABLE status  \* [Groups -> [Tasks -> Status]]

Status == {"unsent", "open", "done", "givenUp"}

Init == status = [g \in Groups |-> [t \in Tasks |-> "unsent"]]

(* Every group of the topic receives what is published. *)
Publish(t) ==
    /\ \A g \in Groups : status[g][t] = "unsent"
    /\ status' = [g \in Groups |-> [status[g] EXCEPT ![t] = "open"]]

Complete(g, t) ==
    /\ status[g][t] \in {"open", "givenUp"}
    /\ status' = [status EXCEPT ![g][t] = "done"]

GiveUp(g, t) ==
    /\ status[g][t] = "open"
    /\ status' = [status EXCEPT ![g][t] = "givenUp"]

Next ==
    \/ \E t \in Tasks : Publish(t)
    \/ \E g \in Groups, t \in Tasks : Complete(g, t) \/ GiveUp(g, t)

Spec == Init /\ [][Next]_status

Settle(g, t) == status[g][t] = "open" /\ (Complete(g, t) \/ GiveUp(g, t))

FairSpec == Spec /\ \A g \in Groups, t \in Tasks : WF_status(Settle(g, t))
=============================================================================
