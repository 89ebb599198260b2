------------------------- MODULE TaskConsumerProofs -------------------------
(***************************************************************************)
(* Proofs about TaskConsumer, for any number of tasks, groups, faults,     *)
(* threads and any err_retry_max.                                          *)
(***************************************************************************)
EXTENDS TaskConsumer, TLAPS

Busy == {"wait", "commit", "failed", "commitRetry"}

(* The loop of a group is at most one copy ahead of what it handed to the  *)
(* broker, and every offset in use is one of the log.                      *)
OffsetInv ==
    \A g \in Groups :
        /\ committed[g] <= stored[g] /\ stored[g] <= cur[g] /\ cur[g] <= Len(log)
        /\ running[g] \subseteq DOMAIN log
        /\ pc[g] = "poll" => stored[g] = cur[g]
        /\ pc[g] \in Busy => stored[g] + 1 = cur[g]

Inv1 == TypeOK /\ OffsetInv

USE TaskConsumerAssumption

(* What is appended to the log leaves the copies before it in place. *)
LEMMA AppendKeeps ==
    ASSUME log \in Seq(Copy), NEW c \in Copy, log' = Append(log, c)
    PROVE  /\ log' \in Seq(Copy)
           /\ Len(log') = Len(log) + 1
           /\ DOMAIN log' = 1..(Len(log) + 1)
           /\ \A o \in DOMAIN log : o \in DOMAIN log' /\ log'[o] = log[o]
           /\ log'[Len(log) + 1] = c
  OBVIOUS

(* A copy of the log is a task with its count. *)
LEMMA CopyOf ==
    ASSUME log \in Seq(Copy), NEW o \in DOMAIN log
    PROVE  log[o].task \in Tasks /\ log[o].reconsume_times \in Nat
  <1>1. log[o] \in Copy
    OBVIOUS
  <1>2. QED BY <1>1 DEF Copy

LEMMA InitInv1 == Init => Inv1
  BY DEF Init, Inv1, TypeOK, OffsetInv, Busy, Location, Copy

(* Committing the current copy, whether it raises or not. *)
LEMMA CommitInv1 ==
    ASSUME Inv1, NEW g \in Groups, NEW raised \in {"failed", "down"},
           pc[g] \in Busy, Commit(g, raised),
           raised = "failed" => pc[g] = "commit",
           UNCHANGED <<log, committed, cur, running>>
    PROVE  /\ pc' \in [Groups -> Location] /\ stored' \in [Groups -> Nat]
           /\ OffsetInv'
  <1> USE DEF Inv1, TypeOK, OffsetInv, Busy, Location
  <1>1. CASE closed[g]
    <2>1. pc' = [pc EXCEPT ![g] = raised] /\ stored' = stored
      BY <1>1 DEF Commit
    <2>2. QED BY <2>1
  <1>2. CASE ~closed[g]
    <2>1. pc' = [pc EXCEPT ![g] = "poll"] /\ stored' = [stored EXCEPT ![g] = cur[g]]
      BY <1>2 DEF Commit
    <2>2. stored' \in [Groups -> Nat] /\ pc' \in [Groups -> Location]
      BY <2>1
    <2>3. committed[g] <= cur[g]
      OBVIOUS
    <2>4. ASSUME NEW h \in Groups
          PROVE  /\ committed'[h] <= stored'[h] /\ stored'[h] <= cur'[h]
                 /\ cur'[h] <= Len(log')
                 /\ running'[h] \subseteq DOMAIN log'
                 /\ pc'[h] = "poll" => stored'[h] = cur'[h]
                 /\ pc'[h] \in Busy => stored'[h] + 1 = cur'[h]
      <3>1. CASE h = g
        BY <2>1, <2>3, <3>1
      <3>2. CASE h # g
        BY <2>1, <3>2
      <3>3. QED BY <3>1, <3>2
    <2>5. QED BY <2>2, <2>4
  <1>3. QED BY <1>1, <1>2

(* Every step keeps the types and the order of the offsets. *)
LEMMA NextInv1 == Inv1 /\ [Next]_vars => Inv1'
  <1> SUFFICES ASSUME Inv1, [Next]_vars PROVE Inv1'
    OBVIOUS
  <1> USE DEF Inv1, TypeOK, OffsetInv, Busy, Location
  <1>1. ASSUME NEW t \in Tasks, Publish(t) PROVE Inv1'
    <2>1. [task |-> t, reconsume_times |-> 0] \in Copy
      BY DEF Copy
    <2> DEFINE c == [task |-> t, reconsume_times |-> 0]
    <2>2. log' = Append(log, c)
      BY <1>1 DEF Publish
    <2>3. /\ log' \in Seq(Copy) /\ Len(log') = Len(log) + 1
          /\ \A o \in DOMAIN log : o \in DOMAIN log'
      BY <2>1, <2>2, AppendKeeps
    <2>4. UNCHANGED <<consumerVars, faults, historyVars>>
      BY <1>1 DEF Publish
    <2> HIDE DEF c
    <2>5. QED BY <2>3, <2>4 DEF consumerVars, historyVars
  <1>2. ASSUME NEW g \in Groups, Poll(g) PROVE Inv1'
    <2>1. cur[g] + 1 \in DOMAIN log
      BY <1>2 DEF Poll
    <2>2. log[cur[g] + 1].task \in Tasks
      BY <2>1, CopyOf
    <2>3. QED BY SMTT(20), <1>2, <2>1, <2>2 DEF Poll
  <1>3. ASSUME NEW g \in Groups, StartCallback(g) PROVE Inv1'
    <2>1. cur[g] \in DOMAIN log
      BY <1>3 DEF StartCallback
    <2>2. CurTask(g) \in Tasks
      BY <2>1, CopyOf DEF CurTask
    <2>3. QED BY <1>3, <2>1, <2>2 DEF StartCallback
  <1>4. ASSUME NEW g \in Groups, NEW o \in running[g], NEW ok \in BOOLEAN,
               FinishCallback(g, o, ok)
        PROVE Inv1'
    <2>1. log[o].task \in Tasks
      BY CopyOf
    <2>2. QED BY <1>4, <2>1 DEF FinishCallback
  <1>5. ASSUME NEW g \in Groups, TakeResult(g) PROVE Inv1'
    BY <1>5 DEF TakeResult, AfterCallback, historyVars
  <1>6. ASSUME NEW g \in Groups, TimeoutCallback(g) PROVE Inv1'
    BY <1>6 DEF TimeoutCallback, AfterCallback, historyVars
  <1>7. ASSUME NEW g \in Groups, CommitDone(g) PROVE Inv1'
    BY <1>7, CommitInv1 DEF CommitDone, historyVars
  <1>8. ASSUME NEW g \in Groups, GiveUp(g) PROVE Inv1'
    <2>1. cur[g] \in DOMAIN log
      BY <1>8 DEF GiveUp
    <2>2. CurTask(g) \in Tasks
      BY <2>1, CopyOf DEF CurTask
    <2>3. gaveUp' \in [Groups -> SUBSET Tasks]
      BY <1>8, <2>2 DEF GiveUp
    <2>4. QED BY <1>8, <2>3, CommitInv1 DEF GiveUp
  <1>9. ASSUME NEW g \in Groups, Resend(g) PROVE Inv1'
    <2>1. pc[g] = "failed"
      BY <1>9 DEF Resend
    <2>2. cur[g] \in DOMAIN log
      BY <2>1
    <2>3. RetryCopy(g) \in Copy
      BY <2>2, CopyOf DEF RetryCopy, CurTask, ErrCnt, Copy
    <2>4. /\ \E l \in {"commitRetry", "down"} : pc' = [pc EXCEPT ![g] = l]
          /\ faults' \in Nat
          /\ UNCHANGED <<committed, stored, cur, result, running, closed, historyVars>>
      BY <1>9 DEF Resend
    <2>5. /\ log' \in Seq(Copy) /\ Len(log') >= Len(log)
          /\ \A o \in DOMAIN log : o \in DOMAIN log'
      <3>1. CASE log' = Append(log, RetryCopy(g))
        BY <2>3, <3>1, AppendKeeps
      <3>2. CASE UNCHANGED log
        BY <3>2
      <3>3. QED BY <1>9, <3>1, <3>2 DEF Resend
    <2>6. QED BY <2>1, <2>4, <2>5 DEF historyVars
  <1>10. ASSUME NEW g \in Groups, CommitRetry(g) PROVE Inv1'
    BY <1>10, CommitInv1 DEF CommitRetry, historyVars
  <1>11. ASSUME NEW g \in Groups, FlushCommit(g) PROVE Inv1'
    BY <1>11 DEF FlushCommit, historyVars
  <1>12. ASSUME NEW g \in Groups, Stop(g) PROVE Inv1'
    BY <1>12 DEF Stop, historyVars
  <1>13. ASSUME NEW g \in Groups, LeaveLoop(g) PROVE Inv1'
    BY <1>13 DEF LeaveLoop, historyVars
  <1>14. ASSUME NEW g \in Groups, Crash(g) PROVE Inv1'
    BY <1>14 DEF Crash, historyVars
  <1>15. ASSUME NEW g \in Groups, Restart(g) PROVE Inv1'
    BY <1>15 DEF Restart, ResumeAt, historyVars
  <1>16. CASE UNCHANGED vars
    BY <1>16 DEF vars, consumerVars, historyVars
  <1> HIDE DEF Inv1, TypeOK, OffsetInv, Busy, Location
  <1>17. QED
    BY <1>1, <1>2, <1>3, <1>4, <1>5, <1>6, <1>7, <1>8, <1>9, <1>10, <1>11,
       <1>12, <1>13, <1>14, <1>15, <1>16 DEF Next

(* TypeOK of TaskConsumer: every variable keeps its type, and the log, the *)
(* offsets and the pool stay consistent, whatever fails.                   *)
THEOREM Typing == Spec => []TypeOK
  <1>1. Inv1 => TypeOK
    BY DEF Inv1
  <1>2. QED BY InitInv1, NextInv1, <1>1, PTL DEF Spec

(* CommitBehindLoop of TaskConsumer: what is handed to the broker is never *)
(* ahead of what the consume_messages loop has settled.                    *)
THEOREM CommitBehind == Spec => []CommitBehindLoop
  <1>1. Inv1 => CommitBehindLoop
    BY DEF Inv1, TypeOK, OffsetInv, CommitBehindLoop, Busy
  <1>2. QED BY InitInv1, NextInv1, <1>1, PTL DEF Spec

-----------------------------------------------------------------------------
(* No send of a retry fails silently. *)
Reliable == "lost" \notin SendOutcomes

Settled(g, t) == t \in done[g] \cup gaveUp[g]
Ahead(t, n) == \E later \in DOMAIN log : later > n /\ log[later].task = t

(* The tasks of the first n copies are settled, or still ahead of n. *)
Kept(g, n) == \A o \in DOMAIN log : o <= n => Settled(g, log[o].task) \/ Ahead(log[o].task, n)

(* NothingLost is not inductive: the offset that will be committed next    *)
(* and what the loop knows of the current copy have to be added.           *)
LoopKnows(g) ==
    /\ pc[g] = "commit" => CurTask(g) \in done[g]
    /\ pc[g] = "wait" /\ result[g] = "true" => CurTask(g) \in done[g]
    /\ pc[g] = "commitRetry" => Ahead(CurTask(g), cur[g])

KeptInv ==
    \A g \in HasProducer : Kept(g, committed[g]) /\ Kept(g, stored[g]) /\ LoopKnows(g)

Inv2 == Inv1 /\ KeptInv

(* A step only appends to the log and only adds settled tasks. *)
Grows ==
    /\ log' \in Seq(Copy) /\ Len(log) <= Len(log')
    /\ \A o \in DOMAIN log : o \in DOMAIN log' /\ log'[o] = log[o]
    /\ \A g \in Groups : done[g] \subseteq done'[g] /\ gaveUp[g] \subseteq gaveUp'[g]

LEMMA NextGrows == Inv1 /\ [Next]_vars => Grows
  <1> SUFFICES ASSUME Inv1, [Next]_vars PROVE Grows
    OBVIOUS
  <1> USE DEF Inv1, TypeOK, OffsetInv
  <1>1. CASE \E c \in Copy : log' = Append(log, c) /\ UNCHANGED <<done, gaveUp>>
    <2>1. PICK c \in Copy : log' = Append(log, c) /\ UNCHANGED <<done, gaveUp>>
      BY <1>1
    <2>2. QED BY <2>1, AppendKeeps DEF Grows
  <1>2. CASE /\ UNCHANGED log
             /\ \E g \in Groups, S \in SUBSET Tasks :
                  \/ done' = [done EXCEPT ![g] = @ \cup S] /\ UNCHANGED gaveUp
                  \/ gaveUp' = [gaveUp EXCEPT ![g] = @ \cup S] /\ UNCHANGED done
    <2>1. PICK g \in Groups, S \in SUBSET Tasks :
                  \/ done' = [done EXCEPT ![g] = @ \cup S] /\ UNCHANGED gaveUp
                  \/ gaveUp' = [gaveUp EXCEPT ![g] = @ \cup S] /\ UNCHANGED done
      BY <1>2
    <2>2. log' \in Seq(Copy) /\ Len(log') = Len(log)
      BY <1>2
    <2>3. ASSUME NEW h \in Groups PROVE done[h] \subseteq done'[h] /\ gaveUp[h] \subseteq gaveUp'[h]
      <3>1. CASE done' = [done EXCEPT ![g] = @ \cup S] /\ UNCHANGED gaveUp
        BY <3>1
      <3>2. CASE gaveUp' = [gaveUp EXCEPT ![g] = @ \cup S] /\ UNCHANGED done
        BY <3>2
      <3>3. QED BY <2>1, <3>1, <3>2
    <2>4. \A o \in DOMAIN log : o \in DOMAIN log' /\ log'[o] = log[o]
      BY <1>2
    <2>5. Len(log) <= Len(log')
      BY <2>2
    <2> HIDE DEF Inv1, TypeOK, OffsetInv
    <2>6. QED BY <2>2, <2>3, <2>4, <2>5 DEF Grows
  <1>3. CASE UNCHANGED <<log, done, gaveUp>>
    BY <1>3 DEF Grows
  <1>4. ASSUME NEW t \in Tasks, Publish(t) PROVE Grows
    <2>1. [task |-> t, reconsume_times |-> 0] \in Copy
      BY DEF Copy
    <2>2. QED BY <1>1, <1>4, <2>1 DEF Publish, historyVars
  <1>5. ASSUME NEW g \in Groups, Resend(g) PROVE Grows
    <2>1. cur[g] \in DOMAIN log
      BY <1>5 DEF Resend, Busy
    <2>2. RetryCopy(g) \in Copy
      BY <2>1, CopyOf DEF RetryCopy, CurTask, ErrCnt, Copy
    <2>3. UNCHANGED <<done, gaveUp>> /\ (log' = Append(log, RetryCopy(g)) \/ UNCHANGED log)
      BY <1>5 DEF Resend, historyVars
    <2>4. QED BY <1>1, <1>3, <2>2, <2>3
  <1>6. ASSUME NEW g \in Groups, NEW o \in running[g], NEW ok \in BOOLEAN,
               FinishCallback(g, o, ok)
        PROVE Grows
    <2>1. {log[o].task} \in SUBSET Tasks
      BY CopyOf
    <2>2. QED BY <1>2, <1>3, <1>6, <2>1 DEF FinishCallback
  <1>7. ASSUME NEW g \in Groups, GiveUp(g) PROVE Grows
    <2>1. cur[g] \in DOMAIN log
      BY <1>7 DEF GiveUp, Busy
    <2>2. {CurTask(g)} \in SUBSET Tasks
      BY <2>1, CopyOf DEF CurTask
    <2>3. QED BY <1>2, <1>7, <2>2 DEF GiveUp
  <1>8. ASSUME NEW g \in Groups,
               \/ Poll(g) \/ StartCallback(g) \/ TakeResult(g) \/ TimeoutCallback(g)
               \/ CommitDone(g) \/ CommitRetry(g) \/ FlushCommit(g) \/ Stop(g)
               \/ LeaveLoop(g) \/ Crash(g) \/ Restart(g)
        PROVE  UNCHANGED <<log, done, gaveUp>>
    BY <1>8 DEF Poll, StartCallback, TakeResult, TimeoutCallback, CommitDone, CommitRetry,
                FlushCommit, Stop, LeaveLoop, Crash, Restart, historyVars
  <1>9. CASE UNCHANGED vars
    BY <1>3, <1>9 DEF vars, historyVars
  <1> HIDE DEF Inv1, TypeOK, OffsetInv
  <1>10. QED BY <1>3, <1>4, <1>5, <1>6, <1>7, <1>8, <1>9 DEF Next

(* So does what is kept, and what is ahead. *)
LEMMA KeptMonotone ==
    ASSUME Inv1, Grows, NEW g \in Groups
    PROVE  /\ \A n \in Nat : n <= Len(log) /\ Kept(g, n) => Kept(g, n)'
           /\ \A n \in Nat, t \in Tasks : Ahead(t, n) => Ahead(t, n)'
  <1>1. ASSUME NEW n, NEW t, Ahead(t, n) PROVE Ahead(t, n)'
    BY <1>1 DEF Ahead, Grows
  <1>2. ASSUME NEW n \in Nat, n <= Len(log), Kept(g, n) PROVE Kept(g, n)'
    <2>1. SUFFICES ASSUME NEW o \in DOMAIN log', o <= n
                   PROVE  (Settled(g, log[o].task) \/ Ahead(log[o].task, n))'
      BY DEF Kept
    <2>2. o \in DOMAIN log /\ log'[o] = log[o]
      <3>1. DOMAIN log = 1..Len(log) /\ DOMAIN log' = 1..Len(log') /\ Len(log) \in Nat
        BY DEF Inv1, TypeOK, Grows
      <3>2. o \in DOMAIN log
        BY <1>2, <2>1, <3>1
      <3>3. QED BY <3>2 DEF Grows
    <2>3. Settled(g, log[o].task) \/ Ahead(log[o].task, n)
      BY <1>2, <2>1, <2>2 DEF Kept
    <2>4. CASE Settled(g, log[o].task)
      BY <2>2, <2>4 DEF Settled, Grows
    <2>5. CASE Ahead(log[o].task, n)
      BY <2>2, <2>5 DEF Ahead, Grows
    <2>6. QED BY <2>3, <2>4, <2>5
  <1>3. QED BY <1>1, <1>2

LEMMA InitInv2 == Init => Inv2
  BY InitInv1 DEF Init, Inv2, KeptInv, LoopKnows, Kept, CurTask

(* The part of KeptInv about the offsets: an offset may stay, or become    *)
(* one that is kept already.                                               *)
LEMMA OffsetsKept ==
    ASSUME Inv2, Grows, NEW h \in HasProducer,
           committed'[h] \in {committed[h], stored[h]},
           \/ stored'[h] \in {committed[h], stored[h]}
           \/ cur'[h] = cur[h] /\ stored'[h] = cur[h] /\ Kept(h, cur[h])'
    PROVE  Kept(h, committed[h])' /\ Kept(h, stored[h])'
  <1> USE TaskConsumerAssumption DEF Inv2, Inv1, TypeOK, OffsetInv
  <1>1. /\ committed[h] \in Nat /\ committed[h] <= Len(log)
        /\ stored[h] \in Nat /\ stored[h] <= Len(log)
    OBVIOUS
  <1>2. Kept(h, committed[h]) /\ Kept(h, stored[h])
    BY DEF KeptInv
  <1>3. \A n \in {committed[h], stored[h]} : Kept(h, n)'
    BY <1>1, <1>2, KeptMonotone
  <1> HIDE DEF Inv2, Inv1, TypeOK, OffsetInv
  <1>4. Kept(h, committed[h])'
    BY <1>3 DEF Kept, Settled, Ahead
  <1>5. Kept(h, stored[h])'
    <2>1. CASE stored'[h] \in {committed[h], stored[h]}
      BY <1>3, <2>1 DEF Kept, Settled, Ahead
    <2>2. CASE cur'[h] = cur[h] /\ stored'[h] = cur[h] /\ Kept(h, cur[h])'
      <3>1. cur'[h] = cur[h]
        BY <2>2
      <3>2. QED BY <2>2, <3>1 DEF Kept, Settled, Ahead
    <2>3. QED BY <2>1, <2>2
  <1>6. QED BY <1>4, <1>5

(* What the loop knows of its copy stays true while it is at that copy. *)
LEMMA KnowledgeKept ==
    ASSUME Inv2, Grows, NEW h \in HasProducer, cur'[h] = cur[h],
           pc'[h] = pc[h] /\ result'[h] = result[h]
    PROVE  LoopKnows(h)'
  <1> USE TaskConsumerAssumption DEF Inv2, Inv1, TypeOK, OffsetInv
  <1>1. SUFFICES ASSUME pc[h] \in Busy PROVE LoopKnows(h)'
    BY DEF LoopKnows, Busy
  <1>2. cur[h] \in DOMAIN log /\ cur[h] \in Nat
    BY <1>1
  <1>3. CurTask(h)' = CurTask(h)
    BY <1>2 DEF CurTask, Grows
  <1>4. Ahead(CurTask(h), cur[h]) => Ahead(CurTask(h), cur[h])'
    BY <1>3 DEF Ahead, Grows
  <1>5. LoopKnows(h) /\ done[h] \subseteq done'[h]
    BY DEF KeptInv, Grows
  <1>6. QED BY <1>3, <1>4, <1>5 DEF LoopKnows

(* A group the step does not touch keeps its part of the invariant. *)
LEMMA OthersKept ==
    ASSUME Inv2, Grows, NEW h \in HasProducer,
           committed'[h] = committed[h], stored'[h] = stored[h], cur'[h] = cur[h],
           pc'[h] = pc[h], result'[h] = result[h]
    PROVE  (Kept(h, committed[h]) /\ Kept(h, stored[h]) /\ LoopKnows(h))'
  BY OffsetsKept, KnowledgeKept

(* Committing keeps the invariant of the group if the copy is done, given  *)
(* up or sent again.                                                       *)
LEMMA CommitKept ==
    ASSUME Inv2, Inv1', Grows, NEW g \in HasProducer, NEW raised \in {"failed", "down"},
           pc[g] \in Busy, Commit(g, raised), UNCHANGED <<log, committed, cur>>,
           CurTask(g) \in done[g] \cup gaveUp'[g] \/ Ahead(CurTask(g), cur[g])
    PROVE  (Kept(g, committed[g]) /\ Kept(g, stored[g]) /\ LoopKnows(g))'
  <1> USE TaskConsumerAssumption DEF Inv2, Inv1, TypeOK, OffsetInv
  <1>1. LoopKnows(g)'
    BY DEF LoopKnows, Commit
  <1>2. CASE stored' = stored
    BY <1>1, <1>2, OffsetsKept
  <1>3. CASE stored' = [stored EXCEPT ![g] = cur[g]]
    <2>1. stored[g] + 1 = cur[g] /\ stored[g] \in Nat /\ cur[g] \in DOMAIN log
      OBVIOUS
    <2>2. Kept(g, stored[g])
      BY DEF KeptInv
    <2>3. Kept(g, cur[g])'
      <3>1. SUFFICES ASSUME NEW o \in DOMAIN log, o <= cur[g],
                            log[o].task \notin done'[g] \cup gaveUp'[g]
                     PROVE  Ahead(log[o].task, cur[g])
        BY DEF Kept, Settled, Ahead
      <3>2. log[o].task \notin done[g] \cup gaveUp[g]
        BY <3>1 DEF Grows
      <3>3. CASE log[o].task = CurTask(g)
        BY <3>1, <3>3 DEF Grows
      <3>4. CASE log[o].task # CurTask(g)
        <4>1. o <= stored[g]
          BY <2>1, <3>1, <3>4 DEF CurTask
        <4>2. PICK later \in DOMAIN log : later > stored[g] /\ log[later].task = log[o].task
          BY <2>2, <3>2, <4>1 DEF Kept, Settled, Ahead
        <4>3. later > cur[g]
          BY <2>1, <3>4, <4>2 DEF CurTask
        <4>4. QED BY <4>2, <4>3 DEF Ahead
      <3>5. QED BY <3>3, <3>4
    <2>4. QED BY <1>1, <1>3, <2>3, OffsetsKept
  <1>4. QED BY <1>2, <1>3 DEF Commit

GroupKept(h) == Kept(h, committed[h]) /\ Kept(h, stored[h]) /\ LoopKnows(h)

LEMMA NextInv2 == Reliable /\ Inv2 /\ [Next]_vars => Inv2'
  <1> SUFFICES ASSUME Reliable, Inv2, [Next]_vars PROVE Inv2'
    OBVIOUS
  <1> USE DEF GroupKept
  <1>1. Inv1' /\ Grows
    BY NextInv1, NextGrows DEF Inv2
  <1>2. SUFFICES ASSUME NEW h \in HasProducer PROVE GroupKept(h)'
    BY <1>1 DEF Inv2, KeptInv
  <1>g. h \in Groups
    BY TaskConsumerAssumption
  <1>t. TypeOK /\ OffsetInv
    BY DEF Inv2, Inv1
  <1>3. ASSUME UNCHANGED <<committed, stored, cur, pc, result>> PROVE GroupKept(h)'
    BY <1>1, <1>3, OthersKept
  <1>4. ASSUME NEW t \in Tasks, Publish(t) PROVE GroupKept(h)'
    BY <1>3, <1>4 DEF Publish, consumerVars
  <1>5. ASSUME NEW g \in Groups,
               \/ Poll(g) \/ TakeResult(g) \/ TimeoutCallback(g) \/ CommitDone(g) \/ GiveUp(g)
               \/ Resend(g) \/ CommitRetry(g) \/ FlushCommit(g) \/ LeaveLoop(g) \/ Crash(g)
               \/ Restart(g) \/ \E o \in running[g], ok \in BOOLEAN : FinishCallback(g, o, ok),
               h # g
        PROVE  GroupKept(h)'
    <2>1. /\ committed'[h] = committed[h] /\ stored'[h] = stored[h] /\ cur'[h] = cur[h]
          /\ pc'[h] = pc[h] /\ result'[h] = result[h]
      BY <1>t, <1>5 DEF TypeOK, Poll, TakeResult, TimeoutCallback, CommitDone, GiveUp, Resend,
              CommitRetry, FlushCommit, LeaveLoop, Crash, Restart, FinishCallback, Commit
    <2>2. QED BY <1>1, <2>1, OthersKept
  <1>6. ASSUME Poll(h) PROVE GroupKept(h)'
    <2>1. LoopKnows(h)'
      BY <1>t, <1>6 DEF LoopKnows, Poll, TypeOK
    <2>2. QED BY <1>1, <1>6, <2>1, OffsetsKept DEF Poll
  <1>8. ASSUME NEW o \in running[h], NEW ok \in BOOLEAN, FinishCallback(h, o, ok)
        PROVE  GroupKept(h)'
    <2>1. CASE pc[h] = "wait" /\ o = cur[h] /\ ok
      <3>1. CurTask(h)' \in done'[h]
        BY <1>t, <1>8, <2>1 DEF FinishCallback, CurTask, TypeOK
      <3>2. LoopKnows(h)'
        BY <1>8, <2>1, <3>1 DEF FinishCallback, LoopKnows
      <3>3. QED BY <1>1, <1>8, <3>2, OffsetsKept DEF FinishCallback
    <2>2. CASE pc[h] = "wait" /\ o = cur[h] /\ ~ok
      <3>1. result'[h] = "false" /\ pc'[h] = "wait"
        BY <1>t, <1>8, <2>2 DEF FinishCallback, TypeOK
      <3>2. LoopKnows(h)'
        BY <3>1 DEF LoopKnows
      <3>3. QED BY <1>1, <1>8, <3>2, OffsetsKept DEF FinishCallback
    <2>3. CASE ~(pc[h] = "wait" /\ o = cur[h])
      BY <1>3, <1>8, <2>3 DEF FinishCallback
    <2>4. QED BY <2>1, <2>2, <2>3
  <1>9. ASSUME TakeResult(h) PROVE GroupKept(h)'
    <2>1. result[h] = "true" => CurTask(h) \in done[h]
      BY <1>9 DEF TakeResult, Inv2, KeptInv, LoopKnows
    <2>2. UNCHANGED <<log, cur, done>>
      BY <1>9 DEF TakeResult, historyVars
    <2>3. pc'[h] = IF result[h] = "true" THEN "commit" ELSE "failed"
      BY <1>t, <1>9 DEF TakeResult, AfterCallback, TypeOK
    <2>4. LoopKnows(h)'
      BY <2>1, <2>2, <2>3 DEF LoopKnows, CurTask
    <2>5. QED BY <1>1, <1>9, <2>4, OffsetsKept DEF TakeResult
  <1>10. ASSUME TimeoutCallback(h) \/ LeaveLoop(h) \/ Crash(h) PROVE GroupKept(h)'
    <2>1. pc'[h] \in {"failed", "down"}
      BY <1>t, <1>10 DEF TimeoutCallback, LeaveLoop, Crash, AfterCallback, TypeOK
    <2>2. LoopKnows(h)'
      BY <2>1 DEF LoopKnows
    <2>3. QED BY <1>1, <1>10, <2>2, OffsetsKept DEF TimeoutCallback, LeaveLoop, Crash
  <1>11. ASSUME CommitDone(h) PROVE GroupKept(h)'
    <2>1. CurTask(h) \in done[h]
      BY <1>11 DEF CommitDone, Inv2, KeptInv, LoopKnows
    <2>2. QED BY <1>1, <1>11, <2>1, CommitKept DEF CommitDone, Busy
  <1>12. ASSUME GiveUp(h) PROVE GroupKept(h)'
    <2>1. CurTask(h) \in gaveUp'[h]
      BY <1>t, <1>12 DEF GiveUp, TypeOK
    <2>2. QED BY <1>1, <1>12, <2>1, CommitKept DEF GiveUp, Busy
  <1>13. ASSUME Resend(h) PROVE GroupKept(h)'
    <2>1. CASE log' = Append(log, RetryCopy(h)) /\ pc' = [pc EXCEPT ![h] = "commitRetry"]
      <3>1. cur[h] \in DOMAIN log
        BY <1>t, <1>13 DEF Resend, OffsetInv, TypeOK, Busy
      <3>2. RetryCopy(h) \in Copy /\ RetryCopy(h).task = CurTask(h)
        BY <1>t, <3>1, CopyOf DEF RetryCopy, CurTask, ErrCnt, Copy, TypeOK
      <3>3. /\ Len(log) + 1 \in DOMAIN log' /\ log'[Len(log) + 1] = RetryCopy(h)
            /\ log'[cur[h]] = log[cur[h]]
        BY <1>t, <2>1, <3>1, <3>2, AppendKeeps DEF TypeOK
      <3>4. cur[h] < Len(log) + 1 /\ cur'[h] = cur[h]
        BY <1>t, <1>13 DEF Resend, OffsetInv, TypeOK
      <3>5. Ahead(CurTask(h), cur[h])'
        BY <3>2, <3>3, <3>4 DEF Ahead, CurTask
      <3>6. LoopKnows(h)'
        BY <1>t, <2>1, <3>5 DEF LoopKnows, TypeOK
      <3>7. QED BY <1>1, <1>13, <3>6, OffsetsKept DEF Resend
    <2>2. CASE pc' = [pc EXCEPT ![h] = "down"]
      <3>1. LoopKnows(h)'
        BY <1>t, <2>2 DEF LoopKnows, TypeOK
      <3>2. QED BY <1>1, <1>13, <3>1, OffsetsKept DEF Resend
    <2>3. QED BY <1>13, <2>1, <2>2 DEF Resend, Reliable
  <1>14. ASSUME CommitRetry(h) PROVE GroupKept(h)'
    <2>1. Ahead(CurTask(h), cur[h])
      BY <1>14 DEF CommitRetry, Inv2, KeptInv, LoopKnows
    <2>2. QED BY <1>1, <1>14, <2>1, CommitKept DEF CommitRetry, Busy
  <1>15. ASSUME FlushCommit(h) PROVE GroupKept(h)'
    <2>1. committed'[h] = stored[h] /\ UNCHANGED <<stored, cur, pc, result>>
      BY <1>t, <1>15 DEF FlushCommit, TypeOK
    <2>2. QED BY <1>1, <2>1, OffsetsKept, KnowledgeKept
  <1>16. ASSUME Restart(h) PROVE GroupKept(h)'
    <2>1. pc'[h] = "poll" /\ stored'[h] = committed[h] /\ UNCHANGED committed
      BY <1>t, <1>16 DEF Restart, ResumeAt, TypeOK
    <2>2. LoopKnows(h)'
      BY <2>1 DEF LoopKnows
    <2>3. QED BY <1>1, <2>1, <2>2, OffsetsKept
  <1>17. CASE UNCHANGED vars
    BY <1>3, <1>17 DEF vars, consumerVars
  <1>18. ASSUME NEW g \in Groups, StartCallback(g) \/ Stop(g) PROVE GroupKept(h)'
    BY <1>3, <1>18 DEF StartCallback, Stop
  <1> HIDE DEF GroupKept
  <1>19. QED
    BY <1>4, <1>5, <1>6, <1>8, <1>9, <1>10, <1>11, <1>12, <1>13, <1>14, <1>15, <1>16,
       <1>17, <1>18 DEF Next

(* NothingLost of TaskConsumer: when retries are sent reliably, no crash,  *)
(* stop, timeout or failure of the loop of consume_messages loses a task.  *)
THEOREM NoTaskLost == Reliable => (Spec => []NothingLost)
  <1>1. Inv2 => NothingLost
    BY DEF Inv2, Inv1, TypeOK, OffsetInv, KeptInv, Kept, Settled, Ahead, NothingLost
  <1>2. ASSUME Reliable PROVE Spec => []NothingLost
    <2>1. Inv2 /\ [Next]_vars => Inv2'
      BY <1>2, NextInv2
    <2>2. QED BY InitInv2, <1>1, <2>1, PTL DEF Spec
  <1>3. QED BY <1>2

-----------------------------------------------------------------------------
(* The log changes by a publication or a retry only. *)
LEMMA LogSteps ==
    [Next]_vars => \/ UNCHANGED log
                   \/ \E t \in Tasks : Publish(t)
                   \/ \E g \in Groups : Resend(g)
  <1>1. ASSUME NEW g \in Groups,
               \/ Poll(g) \/ StartCallback(g) \/ TakeResult(g) \/ TimeoutCallback(g)
               \/ (\E o \in running[g], ok \in BOOLEAN : FinishCallback(g, o, ok))
               \/ CommitDone(g) \/ GiveUp(g) \/ CommitRetry(g) \/ FlushCommit(g) \/ Stop(g)
               \/ LeaveLoop(g) \/ Crash(g) \/ Restart(g)
        PROVE  UNCHANGED log
    BY <1>1 DEF Poll, StartCallback, TakeResult, TimeoutCallback, FinishCallback, CommitDone,
                GiveUp, CommitRetry, FlushCommit, Stop, LeaveLoop, Crash, Restart
  <1>2. CASE UNCHANGED vars
    BY <1>2 DEF vars
  <1>3. QED BY <1>1, <1>2 DEF Next

(* RetryChain for copy o of log l. *)
Chained(l, o) ==
    l[o].reconsume_times > 0 =>
      /\ \E g \in HasProducer : l[o].reconsume_times < ErrRetryMax[g]
      /\ \E before \in 1..(o - 1) :
           l[before] = [task |-> l[o].task, reconsume_times |-> l[o].reconsume_times - 1]

LEMMA NextChain == Inv1 /\ RetryChain /\ [Next]_vars => RetryChain'
  <1> SUFFICES ASSUME Inv1, RetryChain, [Next]_vars PROVE RetryChain'
    OBVIOUS
  <1>0. log \in Seq(Copy) /\ ErrRetryMax \in [Groups -> Nat \ {0}]
    BY DEF Inv1, TypeOK
  <1>1. \A o \in DOMAIN log : Chained(log, o)
    BY DEF RetryChain, Chained
  <1>2. ASSUME NEW c \in Copy, log' = Append(log, c),
               c.reconsume_times > 0 =>
                 /\ \E g \in HasProducer : c.reconsume_times < ErrRetryMax[g]
                 /\ \E before \in DOMAIN log :
                      log[before] = [task |-> c.task, reconsume_times |-> c.reconsume_times - 1]
        PROVE  RetryChain'
    <2>1. /\ DOMAIN log = 1..Len(log) /\ Len(log) \in Nat
          /\ DOMAIN log' = 1..(Len(log) + 1)
          /\ \A o \in DOMAIN log : log'[o] = log[o]
          /\ log'[Len(log) + 1] = c
      BY <1>0, <1>2, AppendKeeps
    <2>2. ASSUME NEW o \in DOMAIN log PROVE Chained(log', o)
      <3>1. log'[o] = log[o] /\ \A before \in 1..(o - 1) : log'[before] = log[before]
        BY <2>1
      <3>2. Chained(log, o)
        BY <1>1
      <3>3. QED BY <3>1, <3>2 DEF Chained
    <2>3. Chained(log', Len(log) + 1)
      <3> DEFINE n == Len(log) + 1
      <3>1. 1..(n - 1) = DOMAIN log /\ log'[n] = c
        BY <2>1
      <3>2. \A before \in 1..(n - 1) : log'[before] = log[before]
        BY <2>1, <3>1
      <3> HIDE DEF n
      <3>3. Chained(log', n)
        BY <1>2, <3>1, <3>2 DEF Chained
      <3>4. QED BY <3>3 DEF n
    <2>4. \A o \in DOMAIN log' : o \in DOMAIN log \/ o = Len(log) + 1
      BY <2>1
    <2>5. \A o \in DOMAIN log' : Chained(log', o)
      BY <2>2, <2>3, <2>4
    <2>6. QED BY <2>5 DEF RetryChain, Chained
  <1>3. CASE UNCHANGED log
    BY <1>3 DEF RetryChain
  <1>4. ASSUME NEW t \in Tasks, Publish(t) PROVE RetryChain'
    <2> DEFINE c == [task |-> t, reconsume_times |-> 0]
    <2>1. c \in Copy /\ ~(c.reconsume_times > 0)
      BY DEF Copy
    <2>2. log' = Append(log, c)
      BY <1>4 DEF Publish
    <2> HIDE DEF c
    <2>3. QED BY <1>2, <2>1, <2>2
  <1>5. ASSUME NEW g \in Groups, Resend(g) PROVE RetryChain'
    <2>1. cur[g] \in DOMAIN log
      BY <1>5 DEF Inv1, TypeOK, OffsetInv, Busy, Resend
    <2>2. log[cur[g]] \in Copy
      BY <1>0, <2>1
    <2>3. /\ RetryCopy(g) \in Copy
          /\ RetryCopy(g).task = log[cur[g]].task
          /\ RetryCopy(g).reconsume_times = log[cur[g]].reconsume_times + 1
          /\ RetryCopy(g).reconsume_times - 1 = log[cur[g]].reconsume_times
      BY <2>2 DEF RetryCopy, CurTask, ErrCnt, Copy
    <2>4. log[cur[g]] = [task |-> RetryCopy(g).task,
                         reconsume_times |-> RetryCopy(g).reconsume_times - 1]
      BY <2>2, <2>3 DEF Copy
    <2>5. RetryCopy(g).reconsume_times < ErrRetryMax[g]
      BY <1>0, <1>5, <2>2 DEF Resend, Exhausted, ErrCnt, RetryCopy, Copy
    <2>6. (g \in HasProducer /\ log' = Append(log, RetryCopy(g))) \/ UNCHANGED log
      BY <1>5 DEF Resend
    <2>7. CASE g \in HasProducer /\ log' = Append(log, RetryCopy(g))
      BY <1>2, <2>1, <2>3, <2>4, <2>5, <2>7
    <2>8. QED BY <1>3, <2>6, <2>7
  <1>6. QED BY <1>3, <1>4, <1>5, LogSteps

(* RetryChain of TaskConsumer: whatever is lost, raised or crashed, a      *)
(* retry that reconsume_messages sent stems from a copy that failed, and   *)
(* none passes the largest err_retry_max.                                  *)
THEOREM RetriesChained == Spec => []RetryChain
  <1>1. Init => RetryChain
    BY DEF Init, RetryChain
  <1>2. QED BY InitInv1, NextInv1, <1>1, NextChain, PTL DEF Spec

-----------------------------------------------------------------------------
(* What a group was handed so far: the task of a copy behind its loop as   *)
(* often as the copy counts failures, plus once.                           *)
Handed ==
    \A g \in Groups : \A o \in DOMAIN log :
        o <= cur[g] => delivered[g][log[o].task] >= log[o].reconsume_times + 1

Inv3 == Inv1 /\ RetryChain /\ Handed /\ GivenUpAfterMax

(* A group is handed one copy more, or none. *)
LEMMA DeliveredSteps ==
    ASSUME Inv1, [Next]_vars
    PROVE  \/ \E g \in Groups : Poll(g)
           \/ UNCHANGED delivered /\ \A g \in Groups : cur'[g] <= cur[g]
  <1>1. ASSUME NEW g \in Groups,
               \/ StartCallback(g) \/ TakeResult(g) \/ TimeoutCallback(g)
               \/ (\E o \in running[g], ok \in BOOLEAN : FinishCallback(g, o, ok))
               \/ CommitDone(g) \/ GiveUp(g) \/ Resend(g) \/ CommitRetry(g) \/ FlushCommit(g)
               \/ Stop(g) \/ LeaveLoop(g) \/ Crash(g)
        PROVE  UNCHANGED <<delivered, cur>>
    BY <1>1 DEF StartCallback, TakeResult, TimeoutCallback, FinishCallback, CommitDone, GiveUp,
                Resend, CommitRetry, FlushCommit, Stop, LeaveLoop, Crash, historyVars
  <1>2. ASSUME NEW g \in Groups, Restart(g)
        PROVE  UNCHANGED delivered /\ \A h \in Groups : cur'[h] <= cur[h]
    BY <1>2 DEF Restart, ResumeAt, historyVars, Inv1, TypeOK, OffsetInv
  <1>3. CASE UNCHANGED <<delivered, cur>>
    BY <1>3 DEF Inv1, TypeOK
  <1>4. ASSUME NEW t \in Tasks, Publish(t) PROVE UNCHANGED <<delivered, cur>>
    BY <1>4 DEF Publish, consumerVars, historyVars
  <1>5. CASE UNCHANGED vars
    BY <1>3, <1>5 DEF vars, consumerVars, historyVars
  <1>6. QED BY <1>1, <1>2, <1>3, <1>4, <1>5 DEF Next

LEMMA NextHanded == Inv1 /\ RetryChain /\ Handed /\ [Next]_vars => Handed'
  <1> SUFFICES ASSUME Inv1, RetryChain, Handed, [Next]_vars,
                      NEW h \in Groups, NEW o \in DOMAIN log', o <= cur'[h]
               PROVE  (delivered[h][log[o].task] >= log[o].reconsume_times + 1)'
    BY DEF Handed
  <1>0. /\ log \in Seq(Copy) /\ cur \in [Groups -> Nat]
        /\ delivered \in [Groups -> [Tasks -> Nat]]
        /\ cur[h] <= Len(log)
    BY DEF Inv1, TypeOK, OffsetInv
  <1>1. Grows
    BY NextGrows
  <1>1a. DOMAIN log = 1..Len(log) /\ DOMAIN log' = 1..Len(log') /\ Len(log) \in Nat
    BY <1>0, <1>1 DEF Grows
  <1>2. CASE UNCHANGED delivered /\ \A g \in Groups : cur'[g] <= cur[g]
    <2>0. cur' \in [Groups -> Nat]
      BY NextInv1 DEF Inv1, TypeOK
    <2>1. o \in DOMAIN log /\ o <= cur[h]
      BY <1>0, <1>1a, <1>2, <2>0
    <2>2. log'[o] = log[o]
      BY <1>1, <2>1 DEF Grows
    <2>3. QED BY <1>2, <2>1, <2>2 DEF Handed
  <1>3. ASSUME NEW g \in Groups, Poll(g)
        PROVE  (delivered[h][log[o].task] >= log[o].reconsume_times + 1)'
    <2> DEFINE n == cur[g] + 1
               t == log[cur[g] + 1].task
    <2>1. /\ n \in DOMAIN log /\ UNCHANGED log
          /\ cur' = [cur EXCEPT ![g] = n]
          /\ delivered' = [delivered EXCEPT ![g][t] = @ + 1]
      BY <1>0, <1>1a, <1>3 DEF Poll
    <2>2. t \in Tasks
      BY <1>0, <2>1, CopyOf
    <2>2a. n = cur[g] + 1 /\ t = log[n].task
      OBVIOUS
    <2> HIDE DEF n, t
    <2>3. \A i \in Groups, u \in Tasks : delivered'[i][u] >= delivered[i][u]
      BY <1>0, <2>1, <2>2
    <2>4. delivered'[g][t] = delivered[g][t] + 1
      BY <1>0, <2>1, <2>2
    <2>5. o \in DOMAIN log /\ log'[o] = log[o]
      BY <2>1
    <2>6. log[o].task \in Tasks /\ log[o].reconsume_times \in Nat
      BY <1>0, <2>5, CopyOf
    <2>6a. delivered[h][log[o].task] \in Nat /\ delivered'[h][log[o].task] \in Nat
      <3>1. delivered' \in [Groups -> [Tasks -> Nat]]
        BY NextInv1 DEF Inv1, TypeOK
      <3>2. QED BY <1>0, <2>6, <3>1
    <2>7. CASE o <= cur[h]
      <3>1. delivered[h][log[o].task] >= log[o].reconsume_times + 1
        BY <2>5, <2>7 DEF Handed
      <3>2. delivered'[h][log[o].task] >= delivered[h][log[o].task]
        BY <2>3, <2>6
      <3>3. QED BY <2>5, <2>6, <2>6a, <3>1, <3>2
    <2>8. CASE ~(o <= cur[h])
      <3>1. h = g /\ o = n
        BY <1>0, <1>1a, <2>1, <2>2a, <2>5, <2>8
      <3>2. delivered[g][t] \in Nat
        BY <1>0, <2>2
      <3>3. CASE log[n].reconsume_times = 0
        BY <2>2a, <2>4, <2>5, <3>1, <3>2, <3>3
      <3>4. CASE log[n].reconsume_times > 0
        <4>1. PICK before \in 1..(n - 1) :
                log[before] = [task |-> t, reconsume_times |-> log[n].reconsume_times - 1]
          BY <2>1, <2>2a, <3>4 DEF RetryChain
        <4>2. before \in DOMAIN log /\ before <= cur[g]
          BY <1>0, <1>1a, <2>1, <2>2a, <4>1
        <4>3. log[before].task = t /\ log[before].reconsume_times = log[n].reconsume_times - 1
          BY <4>1
        <4>4. delivered[g][t] >= log[n].reconsume_times
          BY <2>6, <3>1, <4>2, <4>3 DEF Handed
        <4>5. delivered'[g][t] >= log[n].reconsume_times + 1
          BY <2>4, <2>6, <3>1, <3>2, <4>4
        <4>6. QED BY <2>2a, <2>5, <3>1, <4>5
      <3>5. QED BY <2>6, <3>1, <3>3, <3>4
    <2>9. QED BY <2>7, <2>8
  <1>4. QED BY <1>2, <1>3, DeliveredSteps

LEMMA NextGivenUp == Inv1 /\ Handed /\ GivenUpAfterMax /\ [Next]_vars => GivenUpAfterMax'
  <1> SUFFICES ASSUME Inv1, Handed, GivenUpAfterMax, [Next]_vars PROVE GivenUpAfterMax'
    OBVIOUS
  <1>0. /\ ErrRetryMax \in [Groups -> Nat \ {0}] /\ delivered \in [Groups -> [Tasks -> Nat]]
        /\ log \in Seq(Copy) /\ gaveUp \in [Groups -> SUBSET Tasks]
    BY DEF Inv1, TypeOK
  <1>1. CASE UNCHANGED <<gaveUp, delivered>>
    BY <1>1 DEF GivenUpAfterMax
  <1>2. ASSUME NEW g \in Groups, Poll(g) PROVE GivenUpAfterMax'
    <2>1. PICK t \in Tasks : delivered' = [delivered EXCEPT ![g][t] = @ + 1]
      <3>1. cur[g] + 1 \in DOMAIN log
        BY <1>2 DEF Poll, Inv1, TypeOK
      <3>2. log[cur[g] + 1].task \in Tasks
        BY <1>0, <3>1, CopyOf
      <3>3. QED BY <1>2, <3>2 DEF Poll
    <2>2. UNCHANGED gaveUp
      BY <1>2 DEF Poll
    <2>3. ASSUME NEW h \in Groups, NEW u \in gaveUp[h] PROVE delivered'[h][u] >= ErrRetryMax[h]
      <3>1. u \in Tasks /\ delivered[h][u] >= ErrRetryMax[h]
        BY <1>0, <2>3 DEF GivenUpAfterMax
      <3>2. delivered'[h][u] \in {delivered[h][u], delivered[h][u] + 1}
        BY <1>0, <2>1, <3>1
      <3>3. delivered[h][u] \in Nat /\ ErrRetryMax[h] \in Nat
        BY <1>0, <3>1
      <3>4. QED BY <3>1, <3>2, <3>3
    <2>4. QED BY <2>2, <2>3 DEF GivenUpAfterMax
  <1>3. ASSUME NEW g \in Groups, GiveUp(g) PROVE GivenUpAfterMax'
    <2>1. /\ cur[g] \in DOMAIN log /\ cur[g] \in Nat
          /\ Exhausted(g) /\ UNCHANGED delivered
          /\ gaveUp' = [gaveUp EXCEPT ![g] = @ \cup {CurTask(g)}]
      BY <1>3 DEF GiveUp, Inv1, TypeOK, OffsetInv, Busy
    <2>2. CurTask(g) \in Tasks /\ log[cur[g]].reconsume_times \in Nat
      BY <1>0, <2>1, CopyOf DEF CurTask
    <2>3. delivered[g][CurTask(g)] >= log[cur[g]].reconsume_times + 1
      BY <2>1 DEF Handed, CurTask
    <2>4. log[cur[g]].reconsume_times + 1 >= ErrRetryMax[g]
      BY <2>1 DEF Exhausted, ErrCnt
    <2>5. delivered[g][CurTask(g)] >= ErrRetryMax[g]
      BY <1>0, <2>2, <2>3, <2>4
    <2>6. ASSUME NEW h \in Groups, NEW u \in gaveUp'[h] PROVE delivered'[h][u] >= ErrRetryMax[h]
      <3>1. CASE u \in gaveUp[h]
        BY <2>1, <3>1 DEF GivenUpAfterMax
      <3>2. CASE u \notin gaveUp[h]
        <4>1. h = g /\ u = CurTask(g)
          BY <1>0, <2>1, <2>6, <3>2
        <4>2. QED BY <2>1, <2>5, <4>1
      <3>3. QED BY <3>1, <3>2
    <2>7. QED BY <2>6 DEF GivenUpAfterMax
  <1>4. ASSUME NEW g \in Groups,
               \/ StartCallback(g) \/ TakeResult(g) \/ TimeoutCallback(g)
               \/ (\E o \in running[g], ok \in BOOLEAN : FinishCallback(g, o, ok))
               \/ CommitDone(g) \/ Resend(g) \/ CommitRetry(g) \/ FlushCommit(g)
               \/ Stop(g) \/ LeaveLoop(g) \/ Crash(g) \/ Restart(g)
        PROVE  UNCHANGED <<gaveUp, delivered>>
    BY <1>4 DEF StartCallback, TakeResult, TimeoutCallback, FinishCallback, CommitDone,
                Resend, CommitRetry, FlushCommit, Stop, LeaveLoop, Crash, Restart, historyVars
  <1>5. ASSUME NEW t \in Tasks, Publish(t) PROVE UNCHANGED <<gaveUp, delivered>>
    BY <1>5 DEF Publish, historyVars
  <1>6. CASE UNCHANGED vars
    BY <1>1, <1>6 DEF vars, historyVars
  <1>7. QED BY <1>1, <1>2, <1>3, <1>4, <1>5, <1>6 DEF Next

(* GivenUpAfterMax of TaskConsumer: consume_messages logs a task as needing *)
(* compensation only after err_retry_max deliveries to the group, also when *)
(* other groups of the topic send retries of the task.                      *)
THEOREM GivenUpLate == Spec => []GivenUpAfterMax
  <1>1. Init => RetryChain /\ Handed /\ GivenUpAfterMax
    BY DEF Init, RetryChain, Handed, GivenUpAfterMax
  <1>2. Init => Inv3
    BY <1>1, InitInv1 DEF Inv3
  <1>3. Inv3 /\ [Next]_vars => Inv3'
    BY NextInv1, NextChain, NextHanded, NextGivenUp DEF Inv3
  <1>4. Inv3 => GivenUpAfterMax
    BY DEF Inv3
  <1>5. QED BY <1>2, <1>3, <1>4, PTL DEF Spec

(* CommitMonotone of TaskConsumer: the offset that survives a consumer     *)
(* never goes back, whatever crashes and resumes.                          *)
THEOREM OffsetsAdvance == Spec => CommitMonotone
  <1>1. ASSUME Inv1, [Next]_vars PROVE [\A g \in Groups : committed'[g] >= committed[g]]_vars
    <2>1. ASSUME NEW g \in Groups, FlushCommit(g)
          PROVE  \A h \in Groups : committed'[h] >= committed[h]
      BY <1>1, <2>1 DEF FlushCommit, Inv1, TypeOK, OffsetInv
    <2>2. CASE UNCHANGED committed
      BY <1>1, <2>2 DEF Inv1, TypeOK
    <2>3. ASSUME NEW g \in Groups,
                 \/ Poll(g) \/ StartCallback(g) \/ TakeResult(g) \/ TimeoutCallback(g)
                 \/ (\E o \in running[g], ok \in BOOLEAN : FinishCallback(g, o, ok))
                 \/ CommitDone(g) \/ GiveUp(g) \/ Resend(g) \/ CommitRetry(g)
                 \/ Stop(g) \/ LeaveLoop(g) \/ Crash(g) \/ Restart(g)
          PROVE  UNCHANGED committed
      BY <2>3 DEF Poll, StartCallback, TakeResult, TimeoutCallback, FinishCallback, CommitDone,
                  GiveUp, Resend, CommitRetry, Stop, LeaveLoop, Crash, Restart
    <2>4. ASSUME NEW t \in Tasks, Publish(t) PROVE UNCHANGED committed
      BY <2>4 DEF Publish, consumerVars
    <2>5. CASE UNCHANGED vars
      BY <2>2, <2>5 DEF vars, consumerVars
    <2>6. QED BY <1>1, <2>1, <2>2, <2>3, <2>4, <2>5 DEF Next
  <1>2. QED BY InitInv1, NextInv1, <1>1, PTL DEF Spec, CommitMonotone
-----------------------------------------------------------------------------
(* The topic delivers what TaskDelivery promises, step by step: a task is   *)
(* open for a group from its publication, and settled at most once each way.*)
Statuses == [g \in HasProducer |-> [t \in Tasks |-> StatusOf(g, t)]]

(* What was completed or given up was published. *)
KnownInv == \A g \in Groups : done[g] \cup gaveUp[g] \subseteq Published

(* A retry is a copy of a published task. *)
LEMMA PublishedSteps ==
    Inv1 /\ [Next]_vars => \/ \E t \in Tasks : Publish(t) /\ Published' = Published \cup {t}
                           \/ Published' = Published
  <1> SUFFICES ASSUME Inv1, [Next]_vars
               PROVE  \/ \E t \in Tasks : Publish(t) /\ Published' = Published \cup {t}
                      \/ Published' = Published
    OBVIOUS
  <1>0. log \in Seq(Copy)
    BY DEF Inv1, TypeOK
  <1>1. CASE UNCHANGED log
    BY <1>1 DEF Published
  <1>2. ASSUME NEW t \in Tasks, Publish(t) PROVE Published' = Published \cup {t}
    <2>1. [task |-> t, reconsume_times |-> 0] \in Copy
      BY DEF Copy
    <2>2. log' = Append(log, [task |-> t, reconsume_times |-> 0])
      BY <1>2 DEF Publish
    <2>3. /\ DOMAIN log' = 1..(Len(log) + 1) /\ DOMAIN log = 1..Len(log) /\ Len(log) \in Nat
          /\ \A o \in DOMAIN log : o \in DOMAIN log' /\ log'[o] = log[o]
          /\ log'[Len(log) + 1].task = t
      BY <1>0, <2>1, <2>2, AppendKeeps
    <2>4. \A o \in DOMAIN log' : o \in DOMAIN log \/ o = Len(log) + 1
      BY <2>3
    <2>5. Len(log) + 1 \in DOMAIN log'
      BY <2>3
    <2>6. QED BY <2>3, <2>4, <2>5 DEF Published
  <1>3. ASSUME NEW g \in Groups, Resend(g), ~UNCHANGED log PROVE Published' = Published
    <2>1. log' = Append(log, RetryCopy(g)) /\ pc[g] = "failed"
      BY <1>3 DEF Resend
    <2>2. cur[g] \in DOMAIN log /\ RetryCopy(g) \in Copy
      <3>1. cur[g] \in 1..Len(log)
        BY <2>1 DEF Inv1, TypeOK, OffsetInv, Busy
      <3>2. log[cur[g]].task \in Tasks /\ log[cur[g]].reconsume_times \in Nat
        BY <1>0, <3>1, CopyOf
      <3>3. QED BY <1>0, <3>1, <3>2 DEF RetryCopy, CurTask, ErrCnt, Copy
    <2>3. RetryCopy(g).task = log[cur[g]].task
      BY DEF RetryCopy, CurTask
    <2>4. /\ DOMAIN log' = 1..(Len(log) + 1) /\ DOMAIN log = 1..Len(log) /\ Len(log) \in Nat
          /\ \A o \in DOMAIN log : o \in DOMAIN log' /\ log'[o] = log[o]
          /\ log'[Len(log) + 1].task = log[cur[g]].task
      BY <1>0, <2>1, <2>2, <2>3, AppendKeeps
    <2>5. \A o \in DOMAIN log' : o \in DOMAIN log \/ o = Len(log) + 1
      BY <2>4
    <2>6. QED BY <2>2, <2>4, <2>5 DEF Published
  <1>4. QED BY <1>1, <1>2, <1>3, LogSteps

(* The histories grow by the completion or the giving up of one task. *)
LEMMA HistorySteps ==
    [Next]_vars => \/ UNCHANGED <<done, gaveUp>>
                   \/ \E g \in Groups : \E o \in running[g] :
                        /\ done' = [done EXCEPT ![g] = @ \cup {log[o].task}]
                        /\ UNCHANGED <<gaveUp, log>>
                   \/ \E g \in Groups :
                        /\ pc[g] = "failed" /\ UNCHANGED <<done, log>>
                        /\ gaveUp' = [gaveUp EXCEPT ![g] = @ \cup {CurTask(g)}]
  <1>1. ASSUME NEW g \in Groups,
               \/ Poll(g) \/ StartCallback(g) \/ TakeResult(g) \/ TimeoutCallback(g)
               \/ CommitDone(g) \/ Resend(g) \/ CommitRetry(g) \/ FlushCommit(g) \/ Stop(g)
               \/ LeaveLoop(g) \/ Crash(g) \/ Restart(g)
        PROVE  UNCHANGED <<done, gaveUp>>
    BY <1>1 DEF Poll, StartCallback, TakeResult, TimeoutCallback, CommitDone, historyVars,
                Resend, CommitRetry, FlushCommit, Stop, LeaveLoop, Crash, Restart
  <1>2. CASE UNCHANGED vars
    BY <1>2 DEF vars, historyVars
  <1>3. ASSUME NEW t \in Tasks, Publish(t) PROVE UNCHANGED <<done, gaveUp>>
    BY <1>3 DEF Publish, historyVars
  <1>4. ASSUME NEW g \in Groups, NEW o \in running[g], NEW ok \in BOOLEAN, FinishCallback(g, o, ok)
        PROVE  \/ UNCHANGED <<done, gaveUp>>
               \/ /\ done' = [done EXCEPT ![g] = @ \cup {log[o].task}]
                  /\ UNCHANGED <<gaveUp, log>>
    BY <1>4 DEF FinishCallback
  <1>5. ASSUME NEW g \in Groups, GiveUp(g)
        PROVE  /\ pc[g] = "failed" /\ UNCHANGED <<done, log>>
               /\ gaveUp' = [gaveUp EXCEPT ![g] = @ \cup {CurTask(g)}]
    BY <1>5 DEF GiveUp
  <1>6. QED BY <1>1, <1>2, <1>3, <1>4, <1>5 DEF Next

LEMMA NextDelivery ==
    ASSUME Inv1, KnownInv, [Next]_vars
    PROVE  KnownInv' /\ (Delivery!Next \/ UNCHANGED Statuses)
  <1>0. /\ done \in [Groups -> SUBSET Tasks] /\ gaveUp \in [Groups -> SUBSET Tasks]
        /\ log \in Seq(Copy)
    BY DEF Inv1, TypeOK
  <1>1. CASE UNCHANGED <<done, gaveUp>>
    <2>1. CASE Published' = Published
      <3>1. KnownInv'
        BY <1>1, <2>1 DEF KnownInv
      <3>2. \A g \in HasProducer, t \in Tasks : StatusOf(g, t)' = StatusOf(g, t)
        BY <1>1, <2>1 DEF StatusOf
      <3>3. UNCHANGED Statuses
        BY <3>2 DEF Statuses
      <3>4. QED BY <3>1, <3>3
    <2>2. ASSUME NEW t \in Tasks, Publish(t), Published' = Published \cup {t}
          PROVE  KnownInv' /\ Delivery!Publish(t)
      <3>1. KnownInv'
        BY <1>1, <2>2 DEF KnownInv
      <3>2. t \notin Published
        BY <2>2 DEF Publish
      <3>3. \A g \in HasProducer : Statuses[g][t] = "unsent"
        BY <3>2 DEF Statuses, StatusOf
      <3>4. ASSUME NEW g \in HasProducer, NEW s \in Tasks
            PROVE  StatusOf(g, s)' = IF s = t THEN "open" ELSE StatusOf(g, s)
        BY <1>1, <2>2, <3>2 DEF StatusOf, KnownInv
      <3>5. ASSUME NEW g \in HasProducer
            PROVE  [s \in Tasks |-> StatusOf(g, s)'] = [Statuses[g] EXCEPT ![t] = "open"]
        <4>1. Statuses[g] = [s \in Tasks |-> StatusOf(g, s)]
          BY DEF Statuses
        <4>2. QED BY <3>4, <4>1
      <3>6. Statuses' = [g \in HasProducer |-> [Statuses[g] EXCEPT ![t] = "open"]]
        BY <3>5 DEF Statuses
      <3>7. QED BY <3>1, <3>3, <3>6 DEF Delivery!Publish, Statuses
    <2>3. QED BY <2>1, <2>2, PublishedSteps DEF Delivery!Next
  <1>2. ASSUME NEW g \in Groups, NEW o \in running[g],
               done' = [done EXCEPT ![g] = @ \cup {log[o].task}], UNCHANGED <<gaveUp, log>>
        PROVE  KnownInv' /\ (Delivery!Next \/ UNCHANGED Statuses)
    <2> DEFINE t == log[o].task
    <2>1. o \in DOMAIN log /\ t \in Published /\ t \in Tasks
      <3>1. o \in DOMAIN log
        BY DEF Inv1, OffsetInv
      <3>2. QED BY <1>0, <3>1, CopyOf DEF Published
    <2>2. Published' = Published
      BY <1>2 DEF Published
    <2> HIDE DEF t
    <2>3. done' = [done EXCEPT ![g] = @ \cup {t}]
      BY <1>2 DEF t
    <2>4. \A h \in Groups : done'[h] = IF h = g THEN done[g] \cup {t} ELSE done[h]
      BY <1>0, <2>3
    <2>5. KnownInv'
      BY <1>2, <2>1, <2>2, <2>4 DEF KnownInv
    <2>6. ASSUME NEW h \in HasProducer, NEW s \in Tasks
          PROVE  StatusOf(h, s)' = IF h = g /\ s = t THEN "done" ELSE StatusOf(h, s)
      BY <1>2, <2>1, <2>2, <2>4 DEF StatusOf
    <2>7. CASE g \in HasProducer /\ t \notin done[g]
      <3>1. Statuses[g][t] \in {"open", "givenUp"}
        BY <2>1, <2>7 DEF Statuses, StatusOf
      <3>2. ASSUME NEW h \in HasProducer
            PROVE  [s \in Tasks |-> StatusOf(h, s)'] = [Statuses EXCEPT ![g][t] = "done"][h]
        <4>1. Statuses[h] = [s \in Tasks |-> StatusOf(h, s)] /\ DOMAIN Statuses = HasProducer
          BY DEF Statuses
        <4>2. CASE h = g
          <5>1. [Statuses EXCEPT ![g][t] = "done"][h] = [Statuses[g] EXCEPT ![t] = "done"]
            BY <2>7, <4>1, <4>2
          <5>2. QED BY <2>6, <4>1, <4>2, <5>1
        <4>3. CASE h # g
          <5>1. [Statuses EXCEPT ![g][t] = "done"][h] = Statuses[h]
            BY <2>7, <4>1, <4>3
          <5>2. QED BY <2>6, <4>1, <4>3, <5>1
        <4>4. QED BY <4>2, <4>3
      <3>3. Statuses' = [Statuses EXCEPT ![g][t] = "done"]
        BY <3>2 DEF Statuses
      <3>4. Delivery!Complete(g, t)
        BY <3>1, <3>3 DEF Delivery!Complete, Statuses
      <3>5. QED BY <2>1, <2>5, <2>7, <3>4 DEF Delivery!Next
    <2>8. CASE ~(g \in HasProducer /\ t \notin done[g])
      <3>1. \A h \in HasProducer, s \in Tasks : StatusOf(h, s)' = StatusOf(h, s)
        BY <2>1, <2>6, <2>8 DEF StatusOf
      <3>2. UNCHANGED Statuses
        BY <3>1 DEF Statuses
      <3>3. QED BY <2>5, <3>2
    <2>9. QED BY <2>7, <2>8
  <1>3. ASSUME NEW g \in Groups, pc[g] = "failed", UNCHANGED <<done, log>>,
               gaveUp' = [gaveUp EXCEPT ![g] = @ \cup {CurTask(g)}]
        PROVE  KnownInv' /\ (Delivery!Next \/ UNCHANGED Statuses)
    <2> DEFINE t == CurTask(g)
    <2>1. t \in Published /\ t \in Tasks
      <3>1. cur[g] \in 1..Len(log)
        BY <1>3 DEF Inv1, TypeOK, OffsetInv, Busy
      <3>2. cur[g] \in DOMAIN log
        BY <1>0, <3>1
      <3>3. QED BY <1>0, <3>2, CopyOf DEF Published, CurTask
    <2>2. Published' = Published
      BY <1>3 DEF Published
    <2> HIDE DEF t
    <2>3. gaveUp' = [gaveUp EXCEPT ![g] = @ \cup {t}]
      BY <1>3 DEF t
    <2>4. \A h \in Groups : gaveUp'[h] = IF h = g THEN gaveUp[g] \cup {t} ELSE gaveUp[h]
      BY <1>0, <2>3
    <2>5. KnownInv'
      BY <1>3, <2>1, <2>2, <2>4 DEF KnownInv
    <2>6. ASSUME NEW h \in HasProducer, NEW s \in Tasks
          PROVE  StatusOf(h, s)' = IF h = g /\ s = t /\ t \notin done[g] THEN "givenUp"
                                   ELSE StatusOf(h, s)
      BY <1>3, <2>1, <2>2, <2>4 DEF StatusOf
    <2>7. CASE g \in HasProducer /\ t \notin done[g] \cup gaveUp[g]
      <3>1. Statuses[g][t] = "open"
        BY <2>1, <2>7 DEF Statuses, StatusOf
      <3>2. ASSUME NEW h \in HasProducer
            PROVE  [s \in Tasks |-> StatusOf(h, s)'] = [Statuses EXCEPT ![g][t] = "givenUp"][h]
        <4>1. Statuses[h] = [s \in Tasks |-> StatusOf(h, s)] /\ DOMAIN Statuses = HasProducer
          BY DEF Statuses
        <4>2. CASE h = g
          <5>1. [Statuses EXCEPT ![g][t] = "givenUp"][h] = [Statuses[g] EXCEPT ![t] = "givenUp"]
            BY <2>7, <4>1, <4>2
          <5>2. QED BY <2>6, <2>7, <4>1, <4>2, <5>1
        <4>3. CASE h # g
          <5>1. [Statuses EXCEPT ![g][t] = "givenUp"][h] = Statuses[h]
            BY <2>7, <4>1, <4>3
          <5>2. QED BY <2>6, <4>1, <4>3, <5>1
        <4>4. QED BY <4>2, <4>3
      <3>3. Statuses' = [Statuses EXCEPT ![g][t] = "givenUp"]
        BY <3>2 DEF Statuses
      <3>4. Delivery!GiveUp(g, t)
        BY <3>1, <3>3 DEF Delivery!GiveUp, Statuses
      <3>5. QED BY <2>1, <2>5, <2>7, <3>4 DEF Delivery!Next
    <2>8. CASE ~(g \in HasProducer /\ t \notin done[g] \cup gaveUp[g])
      <3>1. \A h \in HasProducer, s \in Tasks : StatusOf(h, s)' = StatusOf(h, s)
        BY <2>1, <2>6, <2>8 DEF StatusOf
      <3>2. UNCHANGED Statuses
        BY <3>1 DEF Statuses
      <3>3. QED BY <2>5, <3>2
    <2>9. QED BY <2>7, <2>8
  <1>4. QED BY <1>1, <1>2, <1>3, HistorySteps

(* The safety part of ImplementsDelivery: whatever fails, crashes or stops, *)
(* a publication opens the task for every group with a retry producer, and  *)
(* a group only completes an open or given up task or gives an open one up. *)
THEOREM DeliversAsPromised == Spec => Delivery!Spec
  <1>1. Init => Inv1 /\ KnownInv /\ Delivery!Init
    <2>1. Init => Published = {}
      BY DEF Init, Published
    <2>2. Init => \A g \in HasProducer, t \in Tasks : StatusOf(g, t) = "unsent"
      BY <2>1 DEF StatusOf
    <2>3. Init => Delivery!Init
      BY <2>2 DEF Delivery!Init
    <2>4. Init => KnownInv
      BY DEF Init, KnownInv
    <2>5. QED BY <2>3, <2>4, InitInv1
  <1>2. Inv1 /\ KnownInv /\ [Next]_vars => KnownInv' /\ [Delivery!Next]_Statuses
    BY NextDelivery
  <1>3. QED BY <1>1, <1>2, NextInv1, PTL DEF Spec, Delivery!Spec, Statuses

=============================================================================
