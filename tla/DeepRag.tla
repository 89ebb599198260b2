------------------------------- MODULE DeepRag -------------------------------
(***************************************************************************)
(* One deep rag request: plan, execute steps chosen by the model with the  *)
(* tools, plan again, until all steps are settled, then conclude.          *)
(*                                                                         *)
(* A streaming request runs the pipeline in a thread of its own, which     *)
(* appends the lines of its events to a list; the thread that serves the   *)
(* client yields them, and a heartbeat when nothing came for a while.  A   *)
(* blocking request runs the same pipeline and returns the answer.         *)
(* What a language model says is any choice; a step's order is its place.  *)
(***************************************************************************)
EXTENDS Integers, Sequences, FiniteSets

CONSTANTS MaxTurns,    \* max_turns
          MaxSteps,    \* bound: steps of a plan
          MaxTasks,    \* bound: tasks the model picks in a turn
          MaxDeltas,   \* bound: pieces of the conclusion
          Interval,    \* heartbeat_interval, in ticks
          Files,       \* file_ids of the request
          Modes        \* the requests made: a subset of {"stream", "blocking"}

ASSUME DeepRagAssumption ==
    /\ {MaxTurns, MaxSteps, MaxTasks, Interval} \subseteq Nat \ {0}
    /\ MaxDeltas \in Nat
    /\ Modes \subseteq {"stream", "blocking"}

VARIABLES mode, pc,    \* kind of request, stage of the pipeline
          plan,        \* Seq([status, turn]), turn: the one that gave its result
          turn,        \* execute_turns
          tasks,       \* orders still to be executed in this turn
          searched,    \* searched_files
          outcome,     \* how the pipeline ended
          events,      \* history: the events emitted, oldest first
          lines,       \* Len(main_items): an event is two lines
          alive,       \* main_thread.is_alive()
          at, idx,     \* place of the serving thread, main_index
          gap,         \* ticks since last_heartbeat
          torn         \* history: a heartbeat was served after half an event

pipeline == <<plan, turn, tasks, searched>>
server == <<at, idx, gap, torn>>
vars == <<mode, pc, pipeline, outcome, events, lines, alive, server>>

Statuses == {"todo", "done", "dropped"}
Plans == UNION {[1..n -> [status : Statuses, turn : 0..MaxTurns]] : n \in 0..MaxSteps}
LoopTestLate == <<"items", "alive">>                       \* mutant of LoopTest
LoopTest == <<"alive", "items">>

Init ==
    /\ mode \in Modes /\ pc = "plan"
    /\ plan = <<>> /\ turn = 0 /\ tasks = <<>> /\ searched = {}
    /\ outcome = "none" /\ events = <<>>
    /\ lines = 0 /\ alive = (mode = "stream")
    /\ at = (IF mode = "stream" THEN LoopTest[1] ELSE "closed")
    /\ idx = 0 /\ gap = 0 /\ torn = FALSE

-----------------------------------------------------------------------------
(* The generator resumes when both lines of its event are in the list.      *)
Flushed == lines = 2 * Len(events)
Running(stage) == pc = stage /\ Flushed
Emit(es) == events' = events \o (IF mode = "stream" THEN es ELSE <<>>)
Goto(stage) == pc' = stage /\ UNCHANGED outcome
End(how) == pc' = "end" /\ outcome' = how
MainUnchanged == UNCHANGED <<mode, lines, alive, server>>

Plan ==
    /\ Running("plan")
    /\ \E n \in 0..MaxSteps : plan' = [i \in 1..n |-> [status |-> "todo", turn |-> 0]]
    /\ turn' = 1 /\ Goto("parse") /\ Emit(<<"plan.create">>)
    /\ UNCHANGED <<tasks, searched>> /\ MainUnchanged

(* The model names tasks by order, also one that is not in the plan (0).    *)
ParseTasks ==
    /\ Running("parse")
    /\ \E n \in 0..MaxTasks : tasks' \in [1..n -> 0..Len(plan)]
    /\ Goto("task")
    /\ UNCHANGED <<plan, turn, searched, events>> /\ MainUnchanged

StartStep ==
    /\ Running("task") /\ tasks # <<>>
    /\ Goto("tool") /\ Emit(<<"step.start">>)
    /\ UNCHANGED <<pipeline>> /\ MainUnchanged

(* The tools of a step: file_search asks for files not searched before, a   *)
(* read or an unknown tool leaves the context alone.                        *)
CallTools(o) ==
    /\ \E found \in SUBSET (Files \ searched) : searched' = searched \cup found
    /\ plan' = [i \in DOMAIN plan |->
                  IF i = o THEN [status |-> "done", turn |-> turn] ELSE plan[i]]

FinishStep ==
    /\ Running("tool")
    /\ CallTools(Head(tasks)) /\ tasks' = Tail(tasks)
    /\ Goto("task") /\ Emit(<<"step.complete">>)
    /\ UNCHANGED <<turn>> /\ MainUnchanged

(* The results of the turn and of the steps they depend on are combined,    *)
(* and what the next planning is told of them is left to the model.         *)
Summarize ==
    /\ Running("task") /\ tasks = <<>>
    /\ Goto("replan")
    /\ UNCHANGED <<pipeline, events>> /\ MainUnchanged

(* A new plan of the model; the results are carried over by place.          *)
FilledNot(s) == [i \in DOMAIN s |-> [status |-> s[i], turn |-> 0]]        \* mutant of Filled
Filled(s) == [i \in DOMAIN s |-> [status |-> s[i],
                                  turn |-> IF i \in DOMAIN plan THEN plan[i].turn ELSE 0]]
ReviewLength(rp) == Len(rp) = Len(plan)                                   \* mutant of Review
Review(rp) == Len(rp) = Len(plan) /\ \A i \in DOMAIN rp : rp[i].status # "todo"

Replan(rp) ==
    /\ plan' = rp /\ UNCHANGED <<tasks, searched>> /\ MainUnchanged

Complete ==
    /\ Running("replan")
    /\ \E s \in [1..Len(plan) -> Statuses] : Review(Filled(s)) /\ Replan(Filled(s))
    /\ Goto("conclude") /\ Emit(<<"plan.update", "plan.complete">>)
    /\ UNCHANGED turn

Incomplete ==
    /\ Running("replan")
    /\ \E n \in Len(plan)..MaxSteps : \E s \in [1..n -> Statuses] :
           ~Review(Filled(s)) /\ Replan(Filled(s))

Continue ==
    Incomplete /\ turn < MaxTurns /\ turn' = turn + 1 /\ Goto("parse") /\ Emit(<<"plan.update">>)
GiveUpGoesOn ==                                                           \* mutant of GiveUp
    Incomplete /\ turn >= MaxTurns /\ Emit(<<"plan.update", "error">>) /\ Goto("parse") /\ UNCHANGED turn
GiveUp ==
    Incomplete /\ turn >= MaxTurns /\ Emit(<<"plan.update", "error">>) /\ End("max_turns") /\ UNCHANGED turn

Delta ==
    /\ Running("conclude")
    /\ Cardinality({i \in DOMAIN events : events[i] = "delta"}) < MaxDeltas
    /\ Emit(<<"delta">>) /\ UNCHANGED <<pc, outcome, pipeline>> /\ MainUnchanged

Answer ==
    /\ Running("conclude")
    /\ End("answer") /\ UNCHANGED <<pipeline, events>> /\ MainUnchanged

(* The first answer is no plan; or something raises: a request, a tool, an  *)
(* answer that does not parse, a new plan that is shorter than the old.     *)
Raise ==
    /\ \E stage \in {"plan", "parse", "tool", "task", "replan", "conclude"} :
           /\ Running(stage) /\ (stage = "task" => tasks = <<>>)
           /\ \E how \in {"internal_error"} \cup IF stage = "plan" THEN {"unable_plan"} ELSE {} : End(how)
    /\ Emit(<<"error">>) /\ UNCHANGED <<pipeline>> /\ MainUnchanged

Pipeline ==
    \/ Plan \/ ParseTasks \/ StartStep \/ FinishStep \/ Summarize
    \/ Complete \/ Continue \/ GiveUp \/ Delta \/ Answer \/ Raise

-----------------------------------------------------------------------------
(* _collect_main_items                                                      *)
AppendLine ==
    /\ alive /\ lines < 2 * Len(events) /\ lines' = lines + 1
    /\ UNCHANGED <<mode, pc, pipeline, outcome, events, alive, server>>

MainEnds ==
    /\ alive /\ Running("end") /\ alive' = FALSE
    /\ UNCHANGED <<mode, pc, pipeline, outcome, events, lines, server>>

(* __iter__: the loop condition, two reads in this order, then the body.    *)
HoldsOnce(test) == IF test = "alive" THEN alive ELSE idx <= lines         \* mutant of Holds
Holds(test) == IF test = "alive" THEN alive ELSE idx < lines
PipelineUnchanged == UNCHANGED <<mode, pc, pipeline, outcome, events, lines, alive>>
ServeUnchanged == UNCHANGED <<idx, gap, torn>>
TestLoop ==
    /\ \E k \in 1..2 :
        /\ at = LoopTest[k]
        /\ at' = (IF Holds(LoopTest[k]) THEN "body" ELSE IF k = 1 THEN LoopTest[2] ELSE "closed")
    /\ ServeUnchanged /\ PipelineUnchanged

DeliverNoReset ==                                                         \* mutant of Deliver
    /\ at = "body" /\ idx < lines
    /\ idx' = idx + 1 /\ gap' = gap /\ at' = LoopTest[1]
    /\ UNCHANGED torn /\ PipelineUnchanged
Deliver ==
    /\ at = "body" /\ idx < lines
    /\ idx' = idx + 1 /\ gap' = 0 /\ at' = LoopTest[1]
    /\ UNCHANGED torn /\ PipelineUnchanged

Heartbeat ==
    /\ at = "body" /\ idx = lines /\ gap >= Interval
    /\ torn' = (torn \/ idx % 2 = 1) /\ gap' = 0 /\ at' = LoopTest[1]
    /\ UNCHANGED idx /\ PipelineUnchanged

Sleep ==
    /\ at = "body" /\ idx = lines /\ gap < Interval
    /\ at' = LoopTest[1] /\ ServeUnchanged /\ PipelineUnchanged

(* Time passes while the pipeline waits for a model or a tool.              *)
Tick ==
    /\ alive /\ at \notin {"closed", "gone"} /\ gap < Interval
    /\ Flushed /\ pc # "end"
    /\ gap' = gap + 1 /\ UNCHANGED <<at, idx, torn>> /\ PipelineUnchanged

(* The client goes away: the generator is closed, the other thread goes on. *)
Disconnect ==
    /\ at = LoopTest[1] /\ at' = "gone" /\ ServeUnchanged /\ PipelineUnchanged

Server == TestLoop \/ Deliver \/ Heartbeat \/ Sleep
Next == Pipeline \/ AppendLine \/ MainEnds \/ Server \/ Tick \/ Disconnect
Spec == Init /\ [][Next]_vars
(* Model requests time out, and both threads are scheduled.                 *)
FairSpec == Spec /\ WF_vars(Pipeline) /\ WF_vars(AppendLine \/ MainEnds) /\ WF_vars(Server)

-----------------------------------------------------------------------------
(* Type correctness.                                                        *)
TypeOK ==
    /\ mode \in Modes
    /\ pc \in {"plan", "parse", "task", "tool", "replan", "conclude", "end"}
    /\ plan \in Plans /\ turn \in 0..MaxTurns
    /\ tasks \in UNION {[1..n -> 0..MaxSteps] : n \in 0..MaxTasks}
    /\ searched \subseteq Files
    /\ outcome \in {"none", "answer", "max_turns", "unable_plan", "internal_error"}
    /\ lines \in 0..2 * Len(events) /\ idx \in 0..lines /\ torn \in BOOLEAN
    /\ alive \in BOOLEAN /\ gap \in 0..Interval
    /\ at \in {"alive", "items", "body", "closed", "gone"}

(* The stream ends only after its client got every line the pipeline ever   *)
(* produced: the last one may come while the loop condition is evaluated    *)
(* (HeartbeatStreamWrapper.__iter__).                                       *)
NothingCutOff == mode = "stream" /\ at = "closed" => pc = "end" /\ idx = 2 * Len(events)

(* A heartbeat never comes between the two lines of an event, which would   *)
(* make them one garbled event (HeartbeatStreamWrapper.__iter__).           *)
FramesIntact == ~torn

(* An error is the last event; the conclusion follows plan.complete; a step *)
(* that started completes, or the error is next (run_stream).               *)
EventOrder ==
    \A i \in DOMAIN events :
        /\ events[i] = "error" => i = Len(events)
        /\ events[i] = "delta" => events[i - 1] \in {"plan.complete", "delta"}
        /\ events[i] = "step.start" /\ i < Len(events) => events[i + 1] \in {"step.complete", "error"}

(* A conclusion is drawn, and the plan reported complete, only once no step *)
(* of the plan is left to do (review_plan).                                 *)
NoStepLeft ==
    pc = "conclude" \/ outcome = "answer" => \A i \in DOMAIN plan : plan[i].status # "todo"

(* However often the plan is made again, the result of a step stays until   *)
(* the step is executed again (replan: filling in the execution details).   *)
ResultsKept ==
    [][\A i \in DOMAIN plan :
           /\ i \in DOMAIN plan'
           /\ plan'[i].turn \in {plan[i].turn} \cup (IF pc = "tool" THEN {turn} ELSE {})]_vars

(* Every request is answered: the pipeline ends, and a client that stays    *)
(* sees the end of the stream.                                              *)
RunEnds == <>(pc = "end") /\ <>(at \in {"closed", "gone"})

=============================================================================
