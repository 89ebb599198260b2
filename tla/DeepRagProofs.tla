---------------------------- MODULE DeepRagProofs ----------------------------
(***************************************************************************)
(* A stream of any number of turns, steps and pieces is delivered whole    *)
(* and its events stay in one piece; a conclusion is drawn from a settled  *)
(* plan only.                                                              *)
(***************************************************************************)
EXTENDS DeepRag, SequenceTheorems, TLAPS

Stages == {"plan", "parse", "task", "tool", "replan", "conclude", "end"}
Event == {"plan.create", "step.start", "step.complete", "plan.update", "plan.complete",
          "delta", "error"}

(* The two threads: the serving one has not read past the lines, and half   *)
(* an event is in the list only while the other one is appending.           *)
ThreadsInv ==
    /\ mode \in Modes /\ pc \in Stages /\ alive \in BOOLEAN
    /\ events \in Seq(Event) /\ lines \in Nat /\ idx \in Nat
    /\ idx <= lines /\ lines <= 2 * Len(events)
    /\ mode = "blocking" => events = <<>>

ServerInv ==
    /\ at \in {"alive", "items", "body", "closed", "gone"} /\ gap \in 0..Interval
    /\ mode = "stream" /\ ~alive => pc = "end" /\ lines = 2 * Len(events)
    /\ mode = "stream" /\ at \in {"items", "closed"} => ~alive
    /\ mode = "stream" /\ at = "closed" => idx = lines
    /\ idx = lines /\ idx % 2 = 1 => gap = 0
    /\ torn = FALSE

LEMMA Bounds ==
    /\ Interval \in Nat /\ Interval > 0 /\ MaxTurns \in Nat /\ MaxTurns > 0
    /\ MaxSteps \in Nat /\ MaxTasks \in Nat
    /\ \A m \in Modes : m = "stream" \/ m = "blocking"
  BY DeepRagAssumption

LEMMA EmitTypes ==
    ASSUME NEW s \in Seq(Event), NEW es \in Seq(Event)
    PROVE  /\ s \o es \in Seq(Event) /\ Len(s \o es) = Len(s) + Len(es)
           /\ Len(s) \in Nat /\ Len(es) \in Nat
  BY ConcatProperties, LenProperties

LEMMA Emits ==
    /\ <<"plan.create">> \in Seq(Event) /\ <<"step.start">> \in Seq(Event)
    /\ <<"step.complete">> \in Seq(Event) /\ <<"delta">> \in Seq(Event)
    /\ <<"error">> \in Seq(Event) /\ <<"plan.update">> \in Seq(Event)
    /\ <<"plan.update", "plan.complete">> \in Seq(Event)
    /\ <<"plan.update", "error">> \in Seq(Event)
    /\ <<>> \in Seq(Event)
  BY DEF Event

LEMMA LoopTests == LoopTest[1] = "alive" /\ LoopTest[2] = "items"
  BY DEF LoopTest

(* What a step of the pipeline does to the stream. *)
LEMMA PipelineSteps ==
    ASSUME ThreadsInv, Pipeline
    PROVE  /\ pc # "end" /\ Flushed /\ pc' \in Stages
           /\ UNCHANGED <<mode, lines, alive, at, idx, gap, torn>>
           /\ events' \in Seq(Event) /\ Len(events) <= Len(events')
           /\ mode = "blocking" => events' = <<>>
  <1>1. ASSUME NEW es \in Seq(Event), Emit(es)
        PROVE  /\ events' \in Seq(Event) /\ Len(events) <= Len(events')
               /\ mode = "blocking" => events' = <<>>
    <2>1. CASE mode = "stream"
      <3>1. events' = events \o es
        BY <1>1, <2>1 DEF Emit
      <3>2. QED BY <2>1, <3>1, EmitTypes DEF ThreadsInv
    <2>2. CASE mode # "stream"
      <3>1. events' = events \o <<>>
        BY <1>1, <2>2 DEF Emit
      <3>2. events' = events
        BY <3>1, ConcatEmptySeq DEF ThreadsInv
      <3>3. QED BY <3>2, LenProperties DEF ThreadsInv
    <2>3. QED BY <2>1, <2>2
  <1>2. UNCHANGED events => /\ events' \in Seq(Event) /\ Len(events) <= Len(events')
                            /\ mode = "blocking" => events' = <<>>
    BY LenProperties DEF ThreadsInv
  <1>3. CASE Plan
    BY <1>1, <1>3, Emits DEF Plan, Running, Goto, MainUnchanged, server, Stages
  <1>4. CASE ParseTasks
    BY <1>2, <1>4 DEF ParseTasks, Running, Goto, MainUnchanged, server, Stages
  <1>5. CASE StartStep
    BY <1>1, <1>5, Emits DEF StartStep, Running, Goto, MainUnchanged, server, Stages
  <1>6. CASE FinishStep
    BY <1>1, <1>6, Emits DEF FinishStep, Running, Goto, MainUnchanged, server, Stages
  <1>7. CASE Summarize
    BY <1>2, <1>7 DEF Summarize, Running, Goto, MainUnchanged, server, Stages
  <1>8. CASE Complete
    BY <1>1, <1>8, Emits DEF Complete, Replan, Running, Goto, MainUnchanged, server, Stages
  <1>9. CASE Continue
    BY <1>1, <1>9, Emits
    DEF Continue, Incomplete, Replan, Running, Goto, MainUnchanged, server, Stages
  <1>10. CASE GiveUp
    BY <1>1, <1>10, Emits
    DEF GiveUp, Incomplete, Replan, Running, End, MainUnchanged, server, Stages
  <1>11. CASE Delta
    BY <1>1, <1>11, Emits DEF Delta, Running, MainUnchanged, server, Stages
  <1>12. CASE Answer
    BY <1>2, <1>12 DEF Answer, Running, End, MainUnchanged, server, Stages
  <1>13. CASE Raise
    BY <1>1, <1>13, Emits DEF Raise, Running, End, MainUnchanged, server, Stages
  <1>14. QED
    BY <1>3, <1>4, <1>5, <1>6, <1>7, <1>8, <1>9, <1>10, <1>11, <1>12, <1>13 DEF Pipeline

LEMMA InitThreads == Init => ThreadsInv /\ ServerInv
  <1> SUFFICES ASSUME Init PROVE ThreadsInv /\ ServerInv
    OBVIOUS
  <1>1. events = <<>> /\ Len(events) = 0 /\ events \in Seq(Event)
    BY Emits DEF Init
  <1>2. ThreadsInv
    BY <1>1 DEF Init, ThreadsInv, Stages
  <1>3. ServerInv
    <2>1. \/ at = "alive" /\ alive = TRUE
          \/ at = "closed" /\ alive = FALSE /\ mode = "blocking"
      BY LoopTests, Bounds DEF Init
    <2>2. gap = 0 /\ idx = 0
      BY DEF Init
    <2>3. torn = FALSE
      BY Zenon DEF Init
    <2>4. QED BY <2>1, <2>2, <2>3, Bounds DEF ServerInv
  <1>4. QED BY <1>2, <1>3

LEMMA NextThreads == ThreadsInv /\ ServerInv /\ [Next]_vars => ThreadsInv' /\ ServerInv'
  <1> SUFFICES ASSUME ThreadsInv, ServerInv, [Next]_vars PROVE ThreadsInv' /\ ServerInv'
    OBVIOUS
  <1>0. Len(events) \in Nat
    BY LenProperties DEF ThreadsInv
  <1>1. CASE Pipeline
    <2>1. Len(events') \in Nat
      BY <1>1, PipelineSteps, LenProperties
    <2>2. ThreadsInv'
      BY <1>0, <1>1, <2>1, PipelineSteps DEF ThreadsInv
    <2>3. ServerInv'
      BY <1>1, PipelineSteps DEF ServerInv, ThreadsInv
    <2>4. QED BY <2>2, <2>3
  <1>2. CASE AppendLine
    BY <1>0, <1>2 DEF AppendLine, ThreadsInv, ServerInv, server
  <1>3. CASE MainEnds
    BY <1>0, <1>3 DEF MainEnds, Running, Flushed, ThreadsInv, ServerInv, server
  <1>4. CASE TestLoop
    <2>1. UNCHANGED <<mode, pc, events, lines, alive, idx, gap, torn>>
      BY <1>4 DEF TestLoop, ServeUnchanged, PipelineUnchanged
    <2>2. \/ at = "alive" /\ at' = (IF alive THEN "body" ELSE "items")
          \/ at = "items" /\ at' = (IF idx < lines THEN "body" ELSE "closed")
      BY <1>4, LoopTests DEF TestLoop, Holds
    <2>3. ThreadsInv'
      BY <2>1 DEF ThreadsInv
    <2>4. ServerInv'
      BY <2>1, <2>2 DEF ServerInv, ThreadsInv
    <2>5. QED BY <2>3, <2>4
  <1>5. CASE Deliver
    BY <1>0, <1>5, LoopTests, Bounds
    DEF Deliver, PipelineUnchanged, ThreadsInv, ServerInv
  <1>6. CASE Heartbeat
    <2>1. /\ at = "body" /\ idx = lines /\ gap >= Interval /\ gap' = 0 /\ at' = "alive"
          /\ torn' = (torn \/ idx % 2 = 1)
          /\ UNCHANGED <<mode, pc, events, lines, alive, idx>>
      BY <1>6, LoopTests DEF Heartbeat, PipelineUnchanged
    <2>2. idx % 2 # 1
      BY <2>1, Bounds DEF ServerInv
    <2>3. torn' = FALSE
      BY <2>1, <2>2 DEF ServerInv
    <2>4. ThreadsInv'
      BY <2>1 DEF ThreadsInv
    <2>5. ServerInv'
      BY <2>1, <2>3, Bounds DEF ServerInv
    <2>6. QED BY <2>4, <2>5
  <1>7. CASE Sleep
    BY <1>7, LoopTests DEF Sleep, ServeUnchanged, PipelineUnchanged, ThreadsInv, ServerInv
  <1>8. CASE Tick
    BY <1>0, <1>8, Bounds
    DEF Tick, Flushed, PipelineUnchanged, ThreadsInv, ServerInv
  <1>9. CASE Disconnect
    BY <1>9, LoopTests DEF Disconnect, ServeUnchanged, PipelineUnchanged, ThreadsInv, ServerInv
  <1>10. CASE UNCHANGED vars
    BY <1>10 DEF vars, pipeline, server, ThreadsInv, ServerInv
  <1>11. QED
    BY <1>1, <1>2, <1>3, <1>4, <1>5, <1>6, <1>7, <1>8, <1>9, <1>10 DEF Next, Server

(* NothingCutOff of DeepRag: whatever is appended while the serving thread  *)
(* evaluates its loop condition, a stream ends only after its last line     *)
(* (HeartbeatStreamWrapper.__iter__ reads is_alive before the list).        *)
THEOREM StreamIsWhole == Spec => []NothingCutOff
  <1>1. ThreadsInv /\ ServerInv => NothingCutOff
    BY DEF ThreadsInv, ServerInv, NothingCutOff
  <1>2. QED BY InitThreads, NextThreads, <1>1, PTL DEF Spec

(* FramesIntact of DeepRag: no heartbeat comes between the two lines of an  *)
(* event, because no time passes in which the list holds one of them only.  *)
THEOREM FramesStayIntact == Spec => []FramesIntact
  <1>1. ServerInv => FramesIntact
    BY DEF ServerInv, FramesIntact
  <1>2. QED BY InitThreads, NextThreads, <1>1, PTL DEF Spec

-----------------------------------------------------------------------------
Step == [status : Statuses, turn : 0..MaxTurns]
PlanInv ==
    /\ \E n \in 0..MaxSteps : plan \in [1..n -> Step]
    /\ turn \in 0..MaxTurns
    /\ \E n \in 0..MaxTasks : tasks \in [1..n -> 0..MaxSteps]
    /\ searched \subseteq Files
    /\ outcome \in {"none", "answer", "max_turns", "unable_plan", "internal_error"}
    /\ pc = "plan" => plan = <<>>
    /\ pc = "tool" => tasks # <<>>
    /\ pc # "end" => outcome = "none"
    /\ pc = "conclude" \/ outcome = "answer" => \A i \in DOMAIN plan : plan[i].status # "todo"

LEMMA ListLength ==
    ASSUME NEW S, NEW n \in Nat, NEW s \in [1..n -> S]
    PROVE  s \in Seq(S) /\ Len(s) = n /\ DOMAIN s = 1..n
  OBVIOUS

LEMMA TailTypes ==
    ASSUME NEW S, NEW n \in Nat, NEW s \in [1..n -> S], s # <<>>
    PROVE  n > 0 /\ Head(s) \in S /\ Tail(s) \in [1..(n - 1) -> S]
  <1>1. s \in Seq(S) /\ Len(s) = n
    BY ListLength
  <1>2. n > 0
    BY <1>1
  <1>3. Head(s) \in S /\ Tail(s) \in Seq(S) /\ Len(Tail(s)) = n - 1
    BY <1>1
  <1>4. Tail(s) \in [1..(n - 1) -> S]
    BY <1>3, LenProperties
  <1>5. QED BY <1>2, <1>3, <1>4

LEMMA PlanLength ==
    ASSUME PlanInv PROVE Len(plan) \in 0..MaxSteps /\ DOMAIN plan = 1..Len(plan)
  <1>1. PICK n \in 0..MaxSteps : plan \in [1..n -> Step]
    BY DEF PlanInv
  <1>2. n \in Nat
    OBVIOUS
  <1>3. QED BY <1>1, <1>2, ListLength

LEMMA NoPlan == DOMAIN <<>> = {} /\ <<>> \in [1..0 -> Step]
  OBVIOUS

(* A new plan: any statuses, with the results of the old one. *)
LEMMA FilledTypes ==
    ASSUME PlanInv, NEW n \in Len(plan)..MaxSteps, NEW s \in [1..n -> Statuses]
    PROVE  /\ Filled(s) \in [1..n -> Step] /\ DOMAIN plan \subseteq 1..n
           /\ \A i \in DOMAIN plan : Filled(s)[i].turn = plan[i].turn
  <1>1. Len(plan) \in 0..MaxSteps /\ DOMAIN plan = 1..Len(plan)
    BY PlanLength
  <1>2. \A i \in DOMAIN plan : plan[i].turn \in 0..MaxTurns
    BY DEF PlanInv, Step
  <1>3. 0 \in 0..MaxTurns
    BY Bounds
  <1>4. QED BY <1>1, <1>2, <1>3 DEF Filled, Step

(* The effect of a step of the pipeline on the plan. *)
LEMMA PlanSteps ==
    ASSUME PlanInv, Pipeline
    PROVE  PlanInv' /\ \A i \in DOMAIN plan :
             /\ i \in DOMAIN plan'
             /\ plan'[i].turn \in {plan[i].turn} \cup (IF pc = "tool" THEN {turn} ELSE {})
  <1> DEFINE Kept == \A i \in DOMAIN plan :
             /\ i \in DOMAIN plan'
             /\ plan'[i].turn \in {plan[i].turn} \cup (IF pc = "tool" THEN {turn} ELSE {})
  <1>1. UNCHANGED plan => Kept
    OBVIOUS
  <1>2. CASE Plan
    <2>1. PICK n \in 0..MaxSteps : plan' = [i \in 1..n |-> [status |-> "todo", turn |-> 0]]
      BY <1>2 DEF Plan
    <2>2. plan' \in [1..n -> Step]
      BY <2>1, Bounds DEF Step, Statuses
    <2>3. turn' = 1 /\ pc' = "parse" /\ plan = <<>> /\ outcome = "none"
          /\ UNCHANGED <<tasks, searched, outcome>>
      BY <1>2 DEF Plan, Running, Goto, PlanInv
    <2>4. PlanInv'
      BY SMTT(20), <2>2, <2>3, Bounds DEF PlanInv
    <2>5. QED BY <2>3, <2>4, NoPlan
  <1>3. CASE ParseTasks
    <2>1. PICK n \in 0..MaxTasks : tasks' \in [1..n -> 0..Len(plan)]
      BY <1>3 DEF ParseTasks
    <2>2. tasks' \in [1..n -> 0..MaxSteps]
      BY <2>1, PlanLength, Bounds
    <2>3. UNCHANGED <<plan, turn, searched, outcome>> /\ pc = "parse" /\ pc' = "task"
      BY <1>3 DEF ParseTasks, Running, Goto
    <2>4. QED BY <1>1, <2>2, <2>3 DEF PlanInv
  <1>4. CASE StartStep
    <2>1. UNCHANGED <<plan, turn, tasks, searched, outcome>> /\ pc = "task" /\ pc' = "tool"
          /\ tasks # <<>>
      BY <1>4 DEF StartStep, Running, Goto, pipeline
    <2>2. QED BY <1>1, <2>1 DEF PlanInv
  <1>5. CASE FinishStep
    <2>1. /\ pc = "tool" /\ pc' = "task" /\ UNCHANGED <<turn, outcome>>
          /\ tasks' = Tail(tasks)
          /\ plan' = [i \in DOMAIN plan |->
                        IF i = Head(tasks) THEN [status |-> "done", turn |-> turn] ELSE plan[i]]
          /\ searched' \subseteq searched \cup Files
      BY <1>5 DEF FinishStep, CallTools, Running, Goto
    <2>2. PICK n \in 0..MaxSteps : plan \in [1..n -> Step]
      BY DEF PlanInv
    <2>3. plan' \in [1..n -> Step]
      BY <2>1, <2>2 DEF PlanInv, Step, Statuses
    <2>4. \E m \in 0..MaxTasks : tasks' \in [1..m -> 0..MaxSteps]
      <3>1. PICK m \in 0..MaxTasks : tasks \in [1..m -> 0..MaxSteps]
        BY DEF PlanInv
      <3>2. m \in Nat /\ tasks # <<>>
        BY <2>1, Bounds DEF PlanInv
      <3>3. m > 0 /\ Tail(tasks) \in [1..(m - 1) -> 0..MaxSteps]
        BY <3>1, <3>2, TailTypes
      <3>4. m - 1 \in 0..MaxTasks
        BY <3>3, Bounds
      <3>5. QED BY <2>1, <3>3, <3>4
    <2>5. PlanInv'
      BY <2>1, <2>2, <2>3, <2>4 DEF PlanInv
    <2>6. Kept
      BY <2>1
    <2>7. QED BY <2>5, <2>6
  <1>6. CASE Summarize
    <2>1. UNCHANGED <<plan, turn, tasks, searched, outcome>> /\ pc = "task" /\ pc' = "replan"
      BY <1>6 DEF Summarize, Running, Goto, pipeline
    <2>2. QED BY <1>1, <2>1 DEF PlanInv
  <1>7. CASE Complete
    <2>1. PICK s \in [1..Len(plan) -> Statuses] : Review(Filled(s)) /\ Replan(Filled(s))
      BY <1>7 DEF Complete
    <2>2. Len(plan) \in Len(plan)..MaxSteps
      BY PlanLength, Bounds
    <2>3. Filled(s) \in [1..Len(plan) -> Step] /\ DOMAIN plan \subseteq 1..Len(plan)
          /\ \A i \in DOMAIN plan : Filled(s)[i].turn = plan[i].turn
      BY <2>1, <2>2, FilledTypes
    <2>4. plan' = Filled(s) /\ UNCHANGED <<turn, tasks, searched, outcome>>
          /\ pc = "replan" /\ pc' = "conclude"
      BY <1>7, <2>1 DEF Complete, Replan, Running, Goto
    <2>5. \A i \in DOMAIN plan' : plan'[i].status # "todo"
      BY <2>1, <2>4 DEF Review
    <2>6. PlanInv'
      BY <2>3, <2>4, <2>5, PlanLength DEF PlanInv
    <2>7. QED BY <2>3, <2>4, <2>6
  <1>8. CASE Continue \/ GiveUp
    <2>1. PICK n \in Len(plan)..MaxSteps : \E s \in [1..n -> Statuses] : Replan(Filled(s))
      BY <1>8 DEF Continue, GiveUp, Incomplete
    <2>2. PICK s \in [1..n -> Statuses] : Replan(Filled(s))
      BY <2>1
    <2>3. Filled(s) \in [1..n -> Step] /\ DOMAIN plan \subseteq 1..n
          /\ \A i \in DOMAIN plan : Filled(s)[i].turn = plan[i].turn
      BY FilledTypes
    <2>4. plan' = Filled(s) /\ UNCHANGED <<tasks, searched>> /\ pc = "replan"
          /\ outcome = "none"
      BY <1>8, <2>2 DEF Continue, GiveUp, Incomplete, Replan, Running, PlanInv
    <2>5. \/ pc' = "parse" /\ outcome' = "none" /\ turn < MaxTurns /\ turn' = turn + 1
          \/ pc' = "end" /\ outcome' = "max_turns" /\ turn' = turn
      BY <1>8, <2>4 DEF Continue, GiveUp, Goto, End
    <2>6. n \in 0..MaxSteps
      BY PlanLength, Bounds
    <2>7. turn' \in 0..MaxTurns
      BY <2>5, Bounds DEF PlanInv
    <2>8. PlanInv'
      BY <2>3, <2>4, <2>5, <2>6, <2>7 DEF PlanInv
    <2>9. QED BY <2>3, <2>4, <2>8
  <1>9. CASE Delta
    <2>1. UNCHANGED <<plan, turn, tasks, searched, outcome, pc>>
      BY <1>9 DEF Delta, pipeline
    <2>2. QED BY <1>1, <2>1 DEF PlanInv
  <1>10. CASE Answer
    <2>1. UNCHANGED <<plan, turn, tasks, searched>> /\ pc = "conclude" /\ pc' = "end"
          /\ outcome' = "answer"
      BY <1>10 DEF Answer, Running, End, pipeline
    <2>2. QED BY <1>1, <2>1 DEF PlanInv
  <1>11. CASE Raise
    <2>1. UNCHANGED <<plan, turn, tasks, searched>> /\ pc' = "end"
          /\ outcome' \in {"internal_error", "unable_plan"}
      BY <1>11 DEF Raise, Running, End, pipeline
    <2>2. QED BY <1>1, <2>1 DEF PlanInv
  <1>12. QED
    BY <1>2, <1>3, <1>4, <1>5, <1>6, <1>7, <1>8, <1>9, <1>10, <1>11 DEF Pipeline

LEMMA InitPlan == Init => PlanInv
  <1> SUFFICES ASSUME Init PROVE PlanInv
    OBVIOUS
  <1>1. plan = <<>> /\ tasks = <<>> /\ turn = 0 /\ searched = {} /\ outcome = "none"
        /\ pc = "plan"
    BY DEF Init
  <1>2. <<>> \in [1..0 -> Step] /\ <<>> \in [1..0 -> 0..MaxSteps] /\ 0 \in 0..MaxSteps
        /\ 0 \in 0..MaxTasks /\ 0 \in 0..MaxTurns
    BY Bounds
  <1>3. QED BY <1>1, <1>2, NoPlan DEF PlanInv

LEMMA NextPlan ==
    PlanInv /\ [Next]_vars =>
        /\ PlanInv'
        /\ \A i \in DOMAIN plan :
             /\ i \in DOMAIN plan'
             /\ plan'[i].turn \in {plan[i].turn} \cup (IF pc = "tool" THEN {turn} ELSE {})
  <1> SUFFICES ASSUME PlanInv, [Next]_vars
               PROVE  /\ PlanInv'
                      /\ \A i \in DOMAIN plan :
                           /\ i \in DOMAIN plan'
                           /\ plan'[i].turn \in
                                {plan[i].turn} \cup (IF pc = "tool" THEN {turn} ELSE {})
    OBVIOUS
  <1>1. CASE Pipeline
    BY <1>1, PlanSteps
  <1>2. CASE ~Pipeline
    <2>1. UNCHANGED <<plan, turn, tasks, searched, outcome, pc>>
      BY <1>2 DEF Next, Server, AppendLine, MainEnds, TestLoop, Deliver, Heartbeat, Sleep, Tick,
                  Disconnect, PipelineUnchanged, pipeline, vars
    <2>2. QED BY <2>1 DEF PlanInv
  <1>3. QED BY <1>1, <1>2

(* NoStepLeft of DeepRag: the answer is drawn, and plan.complete reported,  *)
(* only when the reviewed plan has no step to do, in every turn.            *)
THEOREM ConclusionIsEarned == Spec => []NoStepLeft
  <1>1. PlanInv => NoStepLeft
    BY DEF PlanInv, NoStepLeft
  <1>2. QED BY InitPlan, NextPlan, <1>1, PTL DEF Spec

(* ResultsKept of DeepRag: a new plan is filled with the results of the old *)
(* one by place, and only the execution of a step gives it another result.  *)
THEOREM ResultsStay == Spec => ResultsKept
  <1>1. PlanInv /\ [Next]_vars =>
          [\A i \in DOMAIN plan :
             /\ i \in DOMAIN plan'
             /\ plan'[i].turn \in {plan[i].turn} \cup (IF pc = "tool" THEN {turn} ELSE {})]_vars
    BY NextPlan
  <1>2. PlanInv /\ [Next]_vars => PlanInv'
    BY NextPlan
  <1>3. QED BY InitPlan, <1>1, <1>2, PTL DEF Spec, ResultsKept

(* TypeOK of DeepRag: a plan has its steps and results in bounds, the       *)
(* serving thread has not read past the list, the list not past the events. *)
THEOREM Typing == Spec => []TypeOK
  <1>1. PlanInv /\ ThreadsInv /\ ServerInv => TypeOK
    <2> SUFFICES ASSUME PlanInv, ThreadsInv, ServerInv PROVE TypeOK
      OBVIOUS
    <2>1. plan \in Plans
      BY DEF PlanInv, Plans, Step
    <2>2. tasks \in UNION {[1..n -> 0..MaxSteps] : n \in 0..MaxTasks}
      BY DEF PlanInv
    <2>3. lines \in 0..2 * Len(events) /\ idx \in 0..lines
      BY LenProperties DEF ThreadsInv
    <2>4. QED BY <2>1, <2>2, <2>3 DEF PlanInv, ThreadsInv, ServerInv, TypeOK, Stages
  <1>2. QED BY InitPlan, NextPlan, InitThreads, NextThreads, <1>1, PTL DEF Spec

-----------------------------------------------------------------------------
(* What the last event says of the stage, in a stream. *)
OrderInv ==
    /\ \A i \in DOMAIN events :
         /\ events[i] = "error" => i = Len(events) /\ pc = "end"
         /\ events[i] = "delta" => i > 1 /\ events[i - 1] \in {"plan.complete", "delta"}
         /\ events[i] = "step.start" /\ i < Len(events) =>
               events[i + 1] \in {"step.complete", "error"}
         /\ events[i] = "step.start" /\ i = Len(events) => pc \in {"tool", "end"}
    /\ mode = "stream" /\ pc = "conclude" =>
         Len(events) > 0 /\ events[Len(events)] \in {"plan.complete", "delta"}

(* One event more, or two; or none in a blocking request. *)
LEMMA OneMore ==
    ASSUME ThreadsInv, NEW e \in Event, Emit(<<e>>), mode = "stream"
    PROVE  /\ Len(events) \in Nat /\ DOMAIN events = 1..Len(events)
           /\ DOMAIN events' = 1..Len(events) + 1 /\ Len(events') = Len(events) + 1
           /\ \A i \in 1..Len(events) : events'[i] = events[i]
           /\ events'[Len(events) + 1] = e
  <1>1. events' = events \o <<e>>
    BY DEF Emit
  <1>2. events \in Seq(Event) /\ <<e>> \in Seq(Event) /\ Len(<<e>>) = 1 /\ <<e>>[1] = e
    BY DEF ThreadsInv
  <1>3. /\ events \o <<e>> \in Seq(Event)
        /\ Len(events \o <<e>>) = Len(events) + 1
        /\ \A i \in 1..Len(events) + 1 :
             (events \o <<e>>)[i] = IF i <= Len(events) THEN events[i] ELSE <<e>>[i - Len(events)]
    BY <1>2, ConcatProperties
  <1>4. Len(events) \in Nat /\ DOMAIN events = 1..Len(events)
        /\ DOMAIN (events \o <<e>>) = 1..Len(events \o <<e>>)
    BY <1>2, <1>3, LenProperties
  <1>5. QED BY <1>1, <1>2, <1>3, <1>4

LEMMA TwoMore ==
    ASSUME ThreadsInv, NEW e \in Event, NEW f \in Event, Emit(<<e, f>>), mode = "stream"
    PROVE  /\ Len(events) \in Nat /\ DOMAIN events = 1..Len(events)
           /\ DOMAIN events' = 1..Len(events) + 2 /\ Len(events') = Len(events) + 2
           /\ \A i \in 1..Len(events) : events'[i] = events[i]
           /\ events'[Len(events) + 1] = e /\ events'[Len(events) + 2] = f
  <1>1. events' = events \o <<e, f>>
    BY DEF Emit
  <1>2. events \in Seq(Event) /\ <<e, f>> \in Seq(Event) /\ Len(<<e, f>>) = 2
        /\ <<e, f>>[1] = e /\ <<e, f>>[2] = f
    BY DEF ThreadsInv
  <1>3. /\ events \o <<e, f>> \in Seq(Event)
        /\ Len(events \o <<e, f>>) = Len(events) + 2
        /\ \A i \in 1..Len(events) + 2 :
             (events \o <<e, f>>)[i] =
                IF i <= Len(events) THEN events[i] ELSE <<e, f>>[i - Len(events)]
    BY <1>2, ConcatProperties
  <1>4. Len(events) \in Nat /\ DOMAIN events = 1..Len(events)
        /\ DOMAIN (events \o <<e, f>>) = 1..Len(events \o <<e, f>>)
    BY <1>2, <1>3, LenProperties
  <1>5. QED BY <1>1, <1>2, <1>3, <1>4

LEMMA ReplanOrder ==
    ASSUME ThreadsInv, OrderInv, mode = "stream", pc = "replan", NEW f \in Event,
           Emit(<<"plan.update", f>>),
           \/ f = "plan.complete" /\ pc' = "conclude"
           \/ f = "error" /\ pc' = "end"
    PROVE  OrderInv'
  <1> DEFINE n == Len(events)
  <1>1. /\ DOMAIN events' = 1..n + 2 /\ Len(events') = n + 2
        /\ \A i \in 1..n : events'[i] = events[i]
        /\ events'[n + 1] = "plan.update" /\ events'[n + 2] = f
        /\ n \in Nat /\ DOMAIN events = 1..n
    BY TwoMore DEF Event
  <1>2. ASSUME NEW i \in DOMAIN events'
        PROVE  /\ events'[i] = "error" => i = n + 2 /\ pc' = "end"
               /\ events'[i] = "delta" =>
                    i > 1 /\ events'[i - 1] \in {"plan.complete", "delta"}
               /\ events'[i] = "step.start" /\ i < n + 2 =>
                    events'[i + 1] \in {"step.complete", "error"}
               /\ events'[i] # "step.start" \/ i # n + 2
    <2>1. CASE i \in 1..n
      <3>1. events'[i] = events[i] /\ (i > 1 => events'[i - 1] = events[i - 1])
        BY <1>1, <2>1
      <3>2. i < n => events'[i + 1] = events[i + 1]
        BY <1>1, <2>1
      <3>3. QED BY <1>1, <2>1, <3>1, <3>2 DEF OrderInv
    <2>2. CASE i = n + 1 \/ i = n + 2
      BY <1>1, <2>2
    <2>3. QED BY <1>1, <1>2, <2>1, <2>2
  <1>3. pc' = "conclude" => n + 2 > 0 /\ events'[n + 2] \in {"plan.complete", "delta"}
    BY <1>1
  <1>4. QED BY <1>1, <1>2, <1>3 DEF OrderInv

LEMMA PipelineOrder == ASSUME ThreadsInv, OrderInv, Pipeline, mode = "stream" PROVE OrderInv'
  <1>0. /\ mode' = mode /\ pc # "end"
        /\ Len(events) \in Nat /\ DOMAIN events = 1..Len(events)
    BY PipelineSteps, LenProperties DEF ThreadsInv
  <1>1. ASSUME UNCHANGED events, pc # "tool", pc' \notin {"conclude"} PROVE OrderInv'
    BY <1>0, <1>1 DEF OrderInv
  <1>2. CASE Plan
    <2>1. Emit(<<"plan.create">>) /\ pc = "plan" /\ pc' = "parse"
      BY <1>2 DEF Plan, Running, Goto
    <2>2. QED BY <1>0, <2>1, OneMore DEF OrderInv, Event
  <1>3. CASE StartStep
    <2>1. Emit(<<"step.start">>) /\ pc = "task" /\ pc' = "tool"
      BY <1>3 DEF StartStep, Running, Goto
    <2>2. QED BY <1>0, <2>1, OneMore DEF OrderInv, Event
  <1>4. CASE FinishStep
    <2>1. Emit(<<"step.complete">>) /\ pc = "tool" /\ pc' = "task"
      BY <1>4 DEF FinishStep, Running, Goto
    <2>2. QED BY <1>0, <2>1, OneMore DEF OrderInv, Event
  <1>5. CASE Complete
    <2>1. Emit(<<"plan.update", "plan.complete">>) /\ pc = "replan" /\ pc' = "conclude"
      BY <1>5 DEF Complete, Running, Goto
    <2>2. QED BY <1>0, <2>1, ReplanOrder DEF Event
  <1>6. CASE Continue
    <2>1. Emit(<<"plan.update">>) /\ pc = "replan" /\ pc' = "parse"
      BY <1>6 DEF Continue, Incomplete, Running, Goto
    <2>2. QED BY <1>0, <2>1, OneMore DEF OrderInv, Event
  <1>7. CASE GiveUp
    <2>1. Emit(<<"plan.update", "error">>) /\ pc = "replan" /\ pc' = "end"
      BY <1>7 DEF GiveUp, Incomplete, Running, End
    <2>2. QED BY <1>0, <2>1, ReplanOrder DEF Event
  <1>8. CASE Delta
    <2>1. Emit(<<"delta">>) /\ pc = "conclude" /\ pc' = "conclude"
      BY <1>8 DEF Delta, Running
    <2>2. QED BY <1>0, <2>1, OneMore DEF OrderInv, Event
  <1>9. CASE Raise
    <2>1. Emit(<<"error">>) /\ pc' = "end"
      BY <1>9 DEF Raise, End
    <2>2. QED BY <1>0, <2>1, OneMore DEF OrderInv, Event
  <1>10. CASE ParseTasks \/ Summarize \/ Answer
    <2>1. UNCHANGED events /\ pc # "tool" /\ pc' # "conclude"
      BY <1>10 DEF ParseTasks, Summarize, Answer, Running, Goto, End
    <2>2. QED BY <1>1, <2>1
  <1>11. QED
    BY <1>2, <1>3, <1>4, <1>5, <1>6, <1>7, <1>8, <1>9, <1>10 DEF Pipeline

LEMMA NextOrder == ThreadsInv /\ OrderInv /\ [Next]_vars => OrderInv'
  <1> SUFFICES ASSUME ThreadsInv, OrderInv, [Next]_vars PROVE OrderInv'
    OBVIOUS
  <1>1. CASE Pipeline /\ mode = "stream"
    BY <1>1, PipelineOrder
  <1>2. CASE Pipeline /\ mode # "stream"
    <2>1. mode' = mode /\ events' = <<>>
      BY <1>2, PipelineSteps, Bounds DEF ThreadsInv
    <2>2. QED BY <1>2, <2>1 DEF OrderInv
  <1>3. CASE ~Pipeline
    <2>1. UNCHANGED <<events, mode, pc>>
      BY <1>3 DEF Next, Server, AppendLine, MainEnds, TestLoop, Deliver, Heartbeat, Sleep, Tick,
                  Disconnect, PipelineUnchanged, vars
    <2>2. QED BY <2>1 DEF OrderInv
  <1>4. QED BY <1>1, <1>2, <1>3

(* EventOrder of DeepRag: in a stream of any length an error is the last    *)
(* event, the conclusion follows plan.complete without a gap, and a step    *)
(* that was announced is completed next unless an error ends it.            *)
THEOREM EventsInOrder == Spec => []EventOrder
  <1>1. Init => OrderInv
    BY DEF Init, OrderInv
  <1>2. ThreadsInv /\ OrderInv => EventOrder
    BY LenProperties DEF ThreadsInv, OrderInv, EventOrder
  <1>3. QED BY InitThreads, NextThreads, NextOrder, <1>1, <1>2, PTL DEF Spec
==============================================================================
