---------------------------- MODULE TaskConsumer ----------------------------
(***************************************************************************)
(* Delivery of background tasks over one Kafka topic.                      *)
(*                                                                         *)
(* common/tool/kafka_tool.py runs one consume_messages loop per consumer   *)
(* group; app/workers/listeners/base.py runs the task callback in a pool   *)
(* of threads and waits for it with a timeout.  A failed task is sent      *)
(* again to the same topic with its reconsume_times incremented, and only  *)
(* then is the offset of the failed copy committed.  The retry is sent to  *)
(* the topic, so every group of the topic receives it.                     *)
(*                                                                         *)
(* The topic has one partition and a group has one live consumer: offsets  *)
(* are the indices of log.                                                 *)
(***************************************************************************)
EXTENDS Naturals, Sequences, FiniteSets

CONSTANTS Tasks,         \* the tasks an application may publish
          Groups,        \* the consumer groups of the topic
          ErrRetryMax,   \* [Groups -> Nat \ {0}], err_retry_max of a listener
          HasProducer,   \* the groups whose listener has a retry producer
          SendOutcomes,  \* what sync_send_message can do to a retry
          PoolSize,      \* max_workers of a listener's callback pool
          MaxFaults      \* bound: crashes, stops and raising sends of a run

ASSUME TaskConsumerAssumption ==
    /\ ErrRetryMax \in [Groups -> Nat \ {0}]
    /\ HasProducer \subseteq Groups
    /\ SendOutcomes \subseteq {"delivered", "lost", "raised"}
    /\ PoolSize \in Nat \ {0}
    /\ MaxFaults \in Nat

VARIABLES log,        \* the partition: the copies of tasks in the order of arrival
          committed,  \* the broker's offset of a group: what lies before it is consumed
          stored,     \* the offset the consumer last handed to commit(), which is asynchronous
          cur,        \* the copy the consumer of a group polled last
          pc,         \* where the consume_messages loop of a group is
          result,     \* what the callback of the copy waited for has returned
          running,    \* the copies whose callback occupies a thread of the pool
          closed,     \* stop() has closed the consumer
          faults,     \* crashes, stops and raising sends so far
          delivered,  \* history: how often a task was polled by a group
          done,       \* history: the tasks some callback of a group completed
          gaveUp      \* history: the tasks a group logged as needing compensation

consumerVars == <<committed, stored, cur, pc, result, running, closed>>
historyVars == <<delivered, done, gaveUp>>
vars == <<log, consumerVars, faults, historyVars>>

Copy == [task : Tasks, reconsume_times : Nat]
Location == {"poll", "wait", "commit", "failed", "commitRetry", "down"}

TypeOK ==
    /\ log \in Seq(Copy)
    /\ committed \in [Groups -> Nat]
    /\ stored \in [Groups -> Nat]
    /\ cur \in [Groups -> Nat]
    /\ pc \in [Groups -> Location]
    /\ result \in [Groups -> {"none", "true", "false"}]
    /\ running \in [Groups -> SUBSET Nat]
    /\ closed \in [Groups -> BOOLEAN]
    /\ faults \in Nat
    /\ delivered \in [Groups -> [Tasks -> Nat]]
    /\ done \in [Groups -> SUBSET Tasks]
    /\ gaveUp \in [Groups -> SUBSET Tasks]

Init ==
    /\ log = <<>>
    /\ committed = [g \in Groups |-> 0]
    /\ stored = [g \in Groups |-> 0]
    /\ cur = [g \in Groups |-> 0]
    /\ pc = [g \in Groups |-> "poll"]
    /\ result = [g \in Groups |-> "none"]
    /\ running = [g \in Groups |-> {}]
    /\ closed = [g \in Groups |-> FALSE]
    /\ faults = 0
    /\ delivered = [g \in Groups |-> [t \in Tasks |-> 0]]
    /\ done = [g \in Groups |-> {}]
    /\ gaveUp = [g \in Groups |-> {}]

Published == {log[o].task : o \in DOMAIN log}
CurTask(g) == log[cur[g]].task
ErrCnt(g) == log[cur[g]].reconsume_times + 1
RetryCopy(g) == [task |-> CurTask(g), reconsume_times |-> ErrCnt(g)]

(* err_cnt >= self.err_retry_max *)
ExhaustedTooEarly(g) == ErrCnt(g) + 1 >= ErrRetryMax[g]  \* mutant of Exhausted
ExhaustedTooLate(g) == ErrCnt(g) > ErrRetryMax[g]        \* mutant of Exhausted
Exhausted(g) == ErrCnt(g) >= ErrRetryMax[g]

(* Where the loop goes with what run_callback returned. *)
AfterCallbackUnchecked(ok) == "commit"                   \* mutant of AfterCallback
AfterCallback(ok) == IF ok THEN "commit" ELSE "failed"

(* commit(msg) hands the offset behind msg to the broker; it raises on a   *)
(* closed consumer, and the loop goes on at the given location.            *)
CommitNext(g, raised) ==                                 \* mutant of Commit
    IF closed[g] THEN pc' = [pc EXCEPT ![g] = raised] /\ UNCHANGED stored
    ELSE pc' = [pc EXCEPT ![g] = "poll"] /\ stored' = [stored EXCEPT ![g] = cur[g] + 1]
Commit(g, raised) ==
    IF closed[g] THEN pc' = [pc EXCEPT ![g] = raised] /\ UNCHANGED stored
    ELSE pc' = [pc EXCEPT ![g] = "poll"] /\ stored' = [stored EXCEPT ![g] = cur[g]]

(* Where a new consumer of the group begins. *)
ResumeAtZero(g) == 0                                     \* mutant of ResumeAt
ResumeAt(g) == committed[g]

-----------------------------------------------------------------------------
(* A component of the application sends a task to the topic. *)
Publish(t) ==
    /\ t \notin Published
    /\ log' = Append(log, [task |-> t, reconsume_times |-> 0])
    /\ UNCHANGED <<consumerVars, faults, historyVars>>

(* poll() returns the next copy; run_callback submits its callback. *)
Poll(g) ==
    /\ pc[g] = "poll" /\ ~closed[g]
    /\ cur[g] < Len(log)
    /\ cur' = [cur EXCEPT ![g] = @ + 1]
    /\ pc' = [pc EXCEPT ![g] = "wait"]
    /\ result' = [result EXCEPT ![g] = "none"]
    /\ delivered' = [delivered EXCEPT ![g][log[cur[g] + 1].task] = @ + 1]
    /\ UNCHANGED <<log, committed, stored, running, closed, faults, done, gaveUp>>

(* A free thread of the pool takes the submitted callback. *)
StartCallback(g) ==
    /\ pc[g] = "wait" /\ result[g] = "none"
    /\ cur[g] \notin running[g]
    /\ Cardinality(running[g]) < PoolSize
    /\ running' = [running EXCEPT ![g] = @ \cup {cur[g]}]
    /\ UNCHANGED <<log, committed, stored, cur, pc, result, closed, faults,
                   delivered, done, gaveUp>>

(* The callback of copy o ends: it returns True, or it returns False or    *)
(* raises.  The result of a copy nobody waits for any more is dropped.     *)
FinishCallback(g, o, ok) ==
    /\ o \in running[g]
    /\ running' = [running EXCEPT ![g] = @ \ {o}]
    /\ done' = IF ok THEN [done EXCEPT ![g] = @ \cup {log[o].task}] ELSE done
    /\ result' = IF pc[g] = "wait" /\ o = cur[g]
                 THEN [result EXCEPT ![g] = IF ok THEN "true" ELSE "false"]
                 ELSE result
    /\ UNCHANGED <<log, committed, stored, cur, pc, closed, faults, delivered, gaveUp>>

(* future.result() returns what the callback returned. *)
TakeResult(g) ==
    /\ pc[g] = "wait" /\ result[g] # "none"
    /\ pc' = [pc EXCEPT ![g] = AfterCallback(result[g] = "true")]
    /\ UNCHANGED <<log, committed, stored, cur, result, running, closed, faults, historyVars>>

(* future.result() times out.  A callback still queued is cancelled; one   *)
(* that runs goes on and keeps its thread.                                 *)
TimeoutCallback(g) ==
    /\ pc[g] = "wait" /\ result[g] = "none"
    /\ cur[g] \in running[g] \/ Cardinality(running[g]) >= PoolSize
    /\ pc' = [pc EXCEPT ![g] = AfterCallback(FALSE)]
    /\ UNCHANGED <<log, committed, stored, cur, result, running, closed, faults, historyVars>>

(* commit(msg) after a success.  On a closed consumer it raises inside the *)
(* inner try, which counts the success as a failure.                       *)
CommitDone(g) ==
    /\ pc[g] = "commit"
    /\ Commit(g, "failed")
    /\ UNCHANGED <<log, committed, cur, result, running, closed, faults, historyVars>>

(* err_cnt has reached err_retry_max: the failure is logged, then the copy *)
(* committed; on a closed consumer the commit raises and the loop ends.    *)
GiveUp(g) ==
    /\ pc[g] = "failed" /\ Exhausted(g)
    /\ gaveUp' = [gaveUp EXCEPT ![g] = @ \cup {CurTask(g)}]
    /\ Commit(g, "down")
    /\ UNCHANGED <<log, committed, cur, result, running, closed, faults, delivered, done>>

(* reconsume_messages sends the copy again, if the listener has a producer; *)
(* the value sync_send_message returns is not looked at.                    *)
Resend(g) ==
    /\ pc[g] = "failed" /\ ~Exhausted(g)
    /\ \/ /\ g \in HasProducer /\ "delivered" \in SendOutcomes
          /\ log' = Append(log, RetryCopy(g))
          /\ pc' = [pc EXCEPT ![g] = "commitRetry"]
          /\ UNCHANGED faults
       \/ /\ g \notin HasProducer \/ "lost" \in SendOutcomes
          /\ pc' = [pc EXCEPT ![g] = "commitRetry"]
          /\ UNCHANGED <<log, faults>>
       \/ /\ g \in HasProducer /\ "raised" \in SendOutcomes
          /\ faults < MaxFaults
          /\ pc' = [pc EXCEPT ![g] = "down"]
          /\ faults' = faults + 1
          /\ UNCHANGED log
    /\ UNCHANGED <<committed, stored, cur, result, running, closed, historyVars>>

(* commit(msg) after the retry was sent. *)
CommitRetry(g) ==
    /\ pc[g] = "commitRetry"
    /\ Commit(g, "down")
    /\ UNCHANGED <<log, committed, cur, result, running, closed, faults, historyVars>>

(* The broker acknowledges an asynchronous commit. *)
FlushCommit(g) ==
    /\ committed[g] # stored[g] /\ pc[g] # "down"
    /\ committed' = [committed EXCEPT ![g] = stored[g]]
    /\ UNCHANGED <<log, stored, cur, pc, result, running, closed, faults, historyVars>>

(* stop() closes the consumer between two polls, whatever the callback does. *)
Stop(g) ==
    /\ pc[g] # "down" /\ ~closed[g]
    /\ faults < MaxFaults
    /\ closed' = [closed EXCEPT ![g] = TRUE]
    /\ faults' = faults + 1
    /\ UNCHANGED <<log, committed, stored, cur, pc, result, running, historyVars>>

(* The loop sees that it is closed and ends. *)
LeaveLoop(g) ==
    /\ pc[g] = "poll" /\ closed[g]
    /\ pc' = [pc EXCEPT ![g] = "down"]
    /\ UNCHANGED <<log, committed, stored, cur, result, running, closed, faults, historyVars>>

(* The process of the consumer dies, with the threads of its pool. *)
Crash(g) ==
    /\ pc[g] # "down"
    /\ faults < MaxFaults
    /\ pc' = [pc EXCEPT ![g] = "down"]
    /\ running' = [running EXCEPT ![g] = {}]
    /\ faults' = faults + 1
    /\ UNCHANGED <<log, committed, stored, cur, result, closed, historyVars>>

(* The consumer of another worker process, or of the one gunicorn starts   *)
(* in its place, resumes at the committed offset.  Callbacks the loop that *)
(* ended left in its pool are not followed any further.                    *)
Restart(g) ==
    /\ pc[g] = "down"
    /\ pc' = [pc EXCEPT ![g] = "poll"]
    /\ cur' = [cur EXCEPT ![g] = ResumeAt(g)]
    /\ stored' = [stored EXCEPT ![g] = ResumeAt(g)]
    /\ result' = [result EXCEPT ![g] = "none"]
    /\ running' = [running EXCEPT ![g] = {}]
    /\ closed' = [closed EXCEPT ![g] = FALSE]
    /\ UNCHANGED <<log, committed, faults, historyVars>>

-----------------------------------------------------------------------------
Loop(g) == Poll(g) \/ TakeResult(g) \/ CommitDone(g) \/ GiveUp(g) \/ Resend(g)
             \/ CommitRetry(g) \/ LeaveLoop(g)

Next ==
    \/ \E t \in Tasks : Publish(t)
    \/ \E g \in Groups :
         \/ Poll(g)
         \/ StartCallback(g)
         \/ \E o \in running[g], ok \in BOOLEAN : FinishCallback(g, o, ok)
         \/ TakeResult(g)
         \/ TimeoutCallback(g)
         \/ CommitDone(g)
         \/ GiveUp(g)
         \/ Resend(g)
         \/ CommitRetry(g)
         \/ FlushCommit(g)
         \/ Stop(g)
         \/ LeaveLoop(g)
         \/ Crash(g)
         \/ Restart(g)

Spec == Init /\ [][Next]_vars

(* The consumer thread, the pool and the broker make progress; a callback  *)
(* the loop waits for ends or times out; a loop that ended is replaced by  *)
(* the consumer of another worker process.  Nothing is assumed of a        *)
(* callback nobody waits for, of failures, or of Publish.                  *)
Fairness ==
    \A g \in Groups :
        /\ WF_vars(Loop(g))
        /\ WF_vars(StartCallback(g))
        /\ WF_vars(TimeoutCallback(g))
        /\ WF_vars(FlushCommit(g))
        /\ WF_vars(Restart(g))

FairSpec == Spec /\ Fairness

-----------------------------------------------------------------------------
(* A task a group has moved past is completed, given up, or still ahead of *)
(* the group: neither a failure nor a crash between sending the retry and  *)
(* committing the failed copy loses it (reconsume_messages, then commit).  *)
(* A group whose listener has no producer drops what fails.                *)
NothingLost ==
    \A g \in HasProducer : \A o \in 1..committed[g] :
        LET t == log[o].task IN
        \/ t \in done[g] \cup gaveUp[g]
        \/ \E later \in DOMAIN log : later > committed[g] /\ log[later].task = t

(* A retry never appears out of nothing: a copy with reconsume_times k was *)
(* preceded on the topic by the copy with k - 1 that failed, and no copy   *)
(* passes the largest err_retry_max of the groups that send retries.       *)
RetryChain ==
    \A o \in DOMAIN log :
        LET k == log[o].reconsume_times IN
        k > 0 => /\ \E g \in HasProducer : k < ErrRetryMax[g]
                 /\ \E before \in 1..(o - 1) :
                      log[before] = [task |-> log[o].task, reconsume_times |-> k - 1]

(* A group logs a task as needing compensation only after it was handed    *)
(* the task err_retry_max times.                                           *)
GivenUpAfterMax ==
    \A g \in Groups : \A t \in gaveUp[g] : delivered[g][t] >= ErrRetryMax[g]

(* An offset handed to the broker is never ahead of what the loop has      *)
(* settled, so that a crash at any moment redelivers the unsettled copy.   *)
CommitBehindLoop ==
    \A g \in Groups :
        /\ committed[g] <= stored[g] /\ stored[g] <= cur[g]
        /\ pc[g] \in {"wait", "commit", "failed", "commitRetry"} => stored[g] < cur[g]

(* The committed offset of a group never goes back. *)
CommitMonotone == [][\A g \in Groups : committed'[g] >= committed[g]]_vars

-----------------------------------------------------------------------------
(* What the topic promises an application: see TaskDelivery.  It promises   *)
(* it for the groups that can send a retry.                                *)
StatusOf(g, t) ==
    IF t \notin Published THEN "unsent"
    ELSE IF t \in done[g] THEN "done"
    ELSE IF t \in gaveUp[g] THEN "givenUp" ELSE "open"

Delivery == INSTANCE TaskDelivery
                WITH Groups <- HasProducer,
                     status <- [g \in HasProducer |-> [t \in Tasks |-> StatusOf(g, t)]]

ImplementsDelivery == Delivery!FairSpec
=============================================================================
