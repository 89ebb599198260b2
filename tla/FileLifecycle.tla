--------------------------- MODULE FileLifecycle ---------------------------
(***************************************************************************)
(* The life of one knowledge file: the events of the file service, the     *)
(* background tasks they cause (indexing, summary, context summary,        *)
(* deletion), and what these leave in MySQL, the vector stores, the search *)
(* index and Redis.                                                        *)
(*                                                                         *)
(* Everything the tasks share is keyed by the file id (locks, flags, rows, *)
(* vectors), so one file is modelled.  A task runs as a program, the       *)
(* sequence of the remote effects of its handler; workers are the threads  *)
(* of the callback pools of all processes.  TaskConsumer models how a task *)
(* gets to a worker; here a failed task, one that timed out and one whose  *)
(* process died is simply waiting again, the first two MaxFaults times.    *)
(***************************************************************************)
EXTENDS Naturals, Sequences, FiniteSets

CONSTANTS Workers,       \* threads that run task callbacks
          Nobody, Dead,  \* a lock nobody holds; one held by a process that died
          MaxParses,     \* bound: dom-tree events of the file
          MaxDirect,     \* bound: calls of the indexing endpoint
          MayDelete,     \* whether the file may be deleted
          IndexMayFail,  \* whether parsing, embedding or storing may raise
          MaxFaults      \* bound: exceptions, timeouts and crashes

ASSUME FileLifecycleAssumption ==
    /\ {Nobody, Dead} \cap Workers = {} /\ Nobody # Dead
    /\ {MaxParses, MaxDirect, MaxFaults} \subseteq Nat
    /\ {MayDelete, IndexMayFail} \subseteq BOOLEAN

VARIABLES exists,     \* the file service has the file
          events,     \* dom-tree events so far, calls of the endpoint so far
          queue,      \* [Tasks -> Nat], the deliveries waiting for a worker
          task,       \* [Workers -> Tasks \cup {"none"}]
          pc,         \* [Workers -> Nat], the step of the worker's program
          failed,     \* the workers whose handler raised
          zombie,     \* the workers whose task was delivered again after a timeout
          lock,       \* the Redis locks, by name
          flags,      \* the Redis success flags
          data,       \* where the file has content
          tombstone,  \* the file is in rag:deleted_file_ids
          recorded,   \* history: the deletion has been recorded once
          faults      \* exceptions, timeouts and crashes so far

workerVars == <<task, pc, failed, zombie>>
vars == <<exists, events, queue, workerVars, lock, flags, data, tombstone, recorded, faults>>

(* The handlers as the sequence of their effects. *)
DomtreeTask == <<"lookup", "sendIndex", "sendSummary", "end">>
DeletedTask == <<"record", "sendDelete", "end">>
IndexTaskVectorFirst ==                                    \* mutant of IndexTask
    <<"lock", "load", "vec", "es", "row", "notify", "flag", "end">>
IndexTaskFlagFirst ==                                      \* mutant of IndexTask
    <<"lock", "flag", "load", "row", "es", "vec", "notify", "end">>
IndexTaskUnlocked ==                                       \* mutant of IndexTask
    <<"load", "row", "es", "vec", "notify", "flag", "end">>
IndexTask == <<"lock", "load", "row", "es", "vec", "notify", "flag", "end">>
DirectTask == <<"load", "row", "es", "vec", "notify", "end">>
DeleteTaskForgetFirst ==                                   \* mutant of DeleteTask
    <<"lock", "forget", "dropRows", "dropVec", "dropEs", "end">>
DeleteTaskKeepsRecord ==                                   \* mutant of DeleteTask
    <<"lock", "dropRows", "dropVec", "dropEs", "end">>
DeleteTask == <<"lock", "dropRows", "dropVec", "dropEs", "forget", "end">>
SummaryTask == <<"lock", "load", "meta", "sumVec", "flag", "end">>
DoneOnlyTask == <<"lock", "flag", "end">>
ContextTask == <<"lock", "read", "ctxVec", "ctxEs", "ctxRow", "flag", "end">>

Program ==
    [domtree |-> DomtreeTask, deleted |-> DeletedTask, index |-> IndexTask,
     direct |-> DirectTask, delete |-> DeleteTask, summary |-> SummaryTask,
     doneOnly |-> DoneOnlyTask, context |-> ContextTask]

Tasks == DOMAIN Program
FileApiTasks == {"domtree", "deleted"}
Stores == {"row", "es", "vec", "ctxRow", "ctxEs", "ctxVec", "meta", "sumVec"}
Searchable == {"row", "es", "vec", "ctxRow", "ctxEs", "ctxVec"}

(* The lock and the success flag of a task; the deletion and the summary   *)
(* share their lock, the two messages of the index-done topic their flag.  *)
LockOf ==
    [index |-> "indexing", delete |-> "done", summary |-> "done", doneOnly |-> "done",
     context |-> "context"]
FlagOf ==
    [index |-> "indexed", summary |-> "done", doneOnly |-> "done", context |-> "context"]
Locks == {"indexing", "done", "context"}

TypeOK ==
    /\ {exists, tombstone, recorded} \subseteq BOOLEAN
    /\ events \in [parse : 0..MaxParses, direct : 0..MaxDirect]
    /\ queue \in [Tasks -> Nat]
    /\ task \in [Workers -> Tasks \cup {"none"}]
    /\ pc \in [Workers -> 0..8]
    /\ \A w \in Workers : IF task[w] = "none" THEN pc[w] = 0 ELSE pc[w] \in DOMAIN Program[task[w]]
    /\ failed \subseteq Workers /\ zombie \subseteq Workers
    /\ lock \in [Locks -> Workers \cup {Nobody, Dead}]
    /\ flags \subseteq {"indexed", "done", "context"}
    /\ data \subseteq Stores
    /\ faults \in 0..MaxFaults

Init ==
    /\ exists = TRUE
    /\ events = [parse |-> 0, direct |-> 0]
    /\ queue = [t \in Tasks |-> 0]
    /\ task = [w \in Workers |-> "none"] /\ pc = [w \in Workers |-> 0]
    /\ failed = {} /\ zombie = {}
    /\ lock = [l \in Locks |-> Nobody]
    /\ flags = {} /\ data = {}
    /\ tombstone = FALSE /\ recorded = FALSE
    /\ faults = 0

Enqueue(t) == queue' = [queue EXCEPT ![t] = @ + 1]
At(w, s) == task[w] # "none" /\ Program[task[w]][pc[w]] = s
StepOf(w) == Program[task[w]][pc[w]]
Goto(w, s) == pc' = [pc EXCEPT ![w] = CHOOSE i \in DOMAIN Program[task[w]] : Program[task[w]][i] = s]
Advance(w) == pc' = [pc EXCEPT ![w] = @ + 1]

-----------------------------------------------------------------------------
(* The file service finished the dom tree of the file (again): the event   *)
(* reaches the file-api topic.                                             *)
DomtreeReady ==
    /\ exists /\ events.parse < MaxParses
    /\ events' = [events EXCEPT !.parse = @ + 1]
    /\ Enqueue("domtree")
    /\ UNCHANGED <<exists, workerVars, lock, flags, data, tombstone, recorded, faults>>

(* The file is deleted in the file service. *)
FileDeleted ==
    /\ MayDelete /\ exists
    /\ exists' = FALSE
    /\ Enqueue("deleted")
    /\ UNCHANGED <<events, workerVars, lock, flags, data, tombstone, recorded, faults>>

(* POST /file/indexing starts a thread that indexes without lock or flag. *)
DirectIndexing ==
    /\ exists /\ events.direct < MaxDirect
    /\ events' = [events EXCEPT !.direct = @ + 1]
    /\ Enqueue("direct")
    /\ UNCHANGED <<exists, workerVars, lock, flags, data, tombstone, recorded, faults>>

(* A worker takes a delivery. *)
Take(w, t) ==
    /\ task[w] = "none" /\ queue[t] > 0
    /\ queue' = [queue EXCEPT ![t] = @ - 1]
    /\ task' = [task EXCEPT ![w] = t]
    /\ pc' = [pc EXCEPT ![w] = 1]
    /\ UNCHANGED <<exists, events, failed, zombie, lock, flags, data, tombstone, recorded, faults>>

(* The file-api callback looks the source file up; a deleted one is skipped. *)
Lookup(w) ==
    /\ At(w, "lookup")
    /\ IF exists THEN Advance(w) ELSE Goto(w, "end")
    /\ UNCHANGED <<exists, events, queue, task, failed, zombie, lock, flags, data, tombstone,
                   recorded, faults>>

(* Sends to the task topics; a send that fails is not noticed. *)
SendTask(w) ==
    /\ \/ At(w, "sendIndex") /\ Enqueue("index")
       \/ At(w, "sendSummary") /\ Enqueue("summary")
       \/ At(w, "sendDelete") /\ Enqueue("delete")
    /\ Advance(w)
    /\ UNCHANGED <<exists, events, task, failed, zombie, lock, flags, data, tombstone,
                   recorded, faults>>

(* record_deleted_file: from here on retrieval filters the file out. *)
RecordDeletion(w) ==
    /\ At(w, "record")
    /\ tombstone' = TRUE /\ recorded' = TRUE
    /\ Advance(w)
    /\ UNCHANGED <<exists, events, queue, task, failed, zombie, lock, flags, data, faults>>

(* The handler acquires its lock, then skips a task whose flag is set. *)
AcquireLockUnchecked(w) ==                                 \* mutant of AcquireLock
    /\ At(w, "lock") /\ lock[LockOf[task[w]]] = Nobody
    /\ lock' = [lock EXCEPT ![LockOf[task[w]]] = w]
    /\ Advance(w)
    /\ UNCHANGED <<exists, events, queue, task, failed, zombie, flags, data, tombstone,
                   recorded, faults>>
AcquireLock(w) ==
    /\ At(w, "lock") /\ lock[LockOf[task[w]]] = Nobody
    /\ lock' = [lock EXCEPT ![LockOf[task[w]]] = w]
    /\ IF task[w] \in DOMAIN FlagOf /\ FlagOf[task[w]] \in flags
       THEN Goto(w, "end") ELSE Advance(w)
    /\ UNCHANGED <<exists, events, queue, task, failed, zombie, flags, data, tombstone,
                   recorded, faults>>

(* The file is read from the file service; one that is gone raises: the    *)
(* summary ends there, see FailTask for the indexing.                      *)
LoadFile(w) ==
    /\ At(w, "load")
    /\ IF exists THEN Advance(w)
       ELSE Goto(w, IF task[w] = "index" THEN "flag" ELSE "end")
    /\ UNCHANGED <<exists, events, queue, task, failed, zombie, lock, flags, data, tombstone,
                   recorded, faults>>

(* The context summary works on the chunks there are; without any it ends. *)
ReadChunks(w) ==
    /\ At(w, "read")
    /\ IF "row" \in data THEN Advance(w) ELSE Goto(w, "end")
    /\ UNCHANGED <<exists, events, queue, task, failed, zombie, lock, flags, data, tombstone,
                   recorded, faults>>

(* Content is written to one store. *)
WriteStore(w) ==
    /\ task[w] # "none" /\ StepOf(w) \in Stores
    /\ data' = data \cup {StepOf(w)}
    /\ Advance(w)
    /\ UNCHANGED <<exists, events, queue, task, failed, zombie, lock, flags, tombstone,
                   recorded, faults>>

(* The indexing sends the index-done message with the context extractor;   *)
(* both groups of the topic receive it.                                    *)
Notify(w) ==
    /\ At(w, "notify")
    /\ queue' = [queue EXCEPT !["context"] = @ + 1, !["doneOnly"] = @ + 1]
    /\ Advance(w)
    /\ UNCHANGED <<exists, events, task, failed, zombie, lock, flags, data, tombstone,
                   recorded, faults>>

SetFlag(w) ==
    /\ At(w, "flag")
    /\ flags' = flags \cup {FlagOf[task[w]]}
    /\ Advance(w)
    /\ UNCHANGED <<exists, events, queue, task, failed, zombie, lock, data, tombstone,
                   recorded, faults>>

(* The deletion empties the stores by source id, one after the other. *)
DropStore(w) ==
    /\ \/ At(w, "dropRows") /\ data' = data \ {"row", "ctxRow", "meta"}
       \/ At(w, "dropVec") /\ data' = data \ {"vec", "ctxVec"}
       \/ At(w, "dropEs") /\ data' = data \ {"es", "ctxEs"}
    /\ Advance(w)
    /\ UNCHANGED <<exists, events, queue, task, failed, zombie, lock, flags, tombstone,
                   recorded, faults>>

(* remove_deleted_files_record *)
ForgetDeletion(w) ==
    /\ At(w, "forget")
    /\ tombstone' = FALSE
    /\ Advance(w)
    /\ UNCHANGED <<exists, events, queue, task, failed, zombie, lock, flags, data, recorded, faults>>

(* The handler releases its lock; a task that raised is delivered again,   *)
(* unless it is a file-api task (no retry producer), an indexing thread of *)
(* the endpoint, or one delivered again already.                           *)
EndTask(w) ==
    /\ At(w, "end")
    /\ lock' = [l \in Locks |-> IF lock[l] = w THEN Nobody ELSE lock[l]]
    /\ IF w \in failed \ zombie /\ task[w] \notin FileApiTasks \cup {"direct"}
       THEN Enqueue(task[w]) ELSE UNCHANGED queue
    /\ task' = [task EXCEPT ![w] = "none"] /\ pc' = [pc EXCEPT ![w] = 0]
    /\ failed' = failed \ {w} /\ zombie' = zombie \ {w}
    /\ UNCHANGED <<exists, events, flags, data, tombstone, recorded, faults>>

(* A step of a handler raises.  custom_exception_handler swallows what     *)
(* file_indexing raises, so that the indexing goes on to set its flag;     *)
(* only when reporting the failure raises too does the task fail.          *)
FailTask(w) ==
    /\ task[w] # "none" /\ StepOf(w) \notin {"lock", "end"}
    /\ faults < MaxFaults
    /\ faults' = faults + 1
    /\ \/ /\ task[w] = "index" /\ IndexMayFail /\ StepOf(w) # "flag"
          /\ Goto(w, "flag") /\ UNCHANGED failed
       \/ /\ task[w] # "index" \/ IndexMayFail
          /\ Goto(w, "end") /\ failed' = failed \cup {w}
    /\ UNCHANGED <<exists, events, queue, task, zombie, lock, flags, data, tombstone, recorded>>

(* The consumer stops waiting for the callback and sends the task again;   *)
(* the callback goes on.                                                   *)
Timeout(w) ==
    /\ task[w] \notin FileApiTasks \cup {"none", "direct"} /\ w \notin zombie
    /\ faults < MaxFaults
    /\ faults' = faults + 1
    /\ zombie' = zombie \cup {w}
    /\ Enqueue(task[w])
    /\ UNCHANGED <<exists, events, task, pc, failed, lock, flags, data, tombstone, recorded>>

(* The process of a worker dies: its lock stays until it expires, and the  *)
(* uncommitted message is delivered to another process.                    *)
Crash(w) ==
    /\ task[w] # "none"
    /\ faults < MaxFaults
    /\ faults' = faults + 1
    /\ lock' = [l \in Locks |-> IF lock[l] = w THEN Dead ELSE lock[l]]
    /\ IF w \in zombie \/ task[w] = "direct" THEN UNCHANGED queue ELSE Enqueue(task[w])
    /\ task' = [task EXCEPT ![w] = "none"] /\ pc' = [pc EXCEPT ![w] = 0]
    /\ failed' = failed \ {w} /\ zombie' = zombie \ {w}
    /\ UNCHANGED <<exists, events, flags, data, tombstone, recorded>>

(* The renewal thread died with the process: the lock expires. *)
ExpireLock(l) ==
    /\ lock[l] = Dead
    /\ lock' = [lock EXCEPT ![l] = Nobody]
    /\ UNCHANGED <<exists, events, queue, workerVars, flags, data, tombstone, recorded, faults>>

-----------------------------------------------------------------------------
RunStep(w) ==
    \/ \E t \in Tasks : Take(w, t)
    \/ Lookup(w) \/ SendTask(w) \/ RecordDeletion(w) \/ AcquireLock(w) \/ LoadFile(w)
    \/ ReadChunks(w) \/ WriteStore(w) \/ Notify(w) \/ SetFlag(w) \/ DropStore(w)
    \/ ForgetDeletion(w) \/ EndTask(w)

Next ==
    \/ DomtreeReady \/ FileDeleted \/ DirectIndexing
    \/ \E w \in Workers : RunStep(w) \/ FailTask(w) \/ Timeout(w) \/ Crash(w)
    \/ \E l \in Locks : ExpireLock(l)

Spec == Init /\ [][Next]_vars

(* Threads run, a delivery finds a worker, locks of dead processes expire. *)
Fairness ==
    /\ \A w \in Workers : WF_vars(RunStep(w))
    /\ \A l \in Locks : WF_vars(ExpireLock(l))

FairSpec == Spec /\ Fairness

-----------------------------------------------------------------------------
Building(w) ==
    /\ task[w] \in {"index", "direct"}
    /\ StepOf(w) \in {"row", "es", "vec", "notify"}

(* The index of a file is built by one thread at a time: the comment above *)
(* file_indexing says that the function is not reentrant.                  *)
OneBuilder == \A v, w \in Workers : Building(v) /\ Building(w) => v = w

(* Once the success flag is set nobody builds the index again, whatever    *)
(* was delivered twice, timed out or redelivered after a crash.            *)
IndexedIsFinal ==
    "indexed" \in flags => \A w \in Workers : task[w] = "index" => ~Building(w)

(* The success flag of a file says that the file is in every store: the    *)
(* handler skips a flagged file with "already consumed completely".        *)
FlagMeansIndexed == "indexed" \in flags /\ exists => {"row", "es", "vec"} \subseteq data

(* A deleted file is filtered out of retrieval until nothing searchable of *)
(* it is left, whatever fails or is repeated in the deletion.              *)
HiddenOrErased == recorded => tombstone \/ data \cap Searchable = {}

(* A vector that retrieval may return has its row in MySQL, where its text *)
(* is (batch_set_node_contents drops a vector without a row).              *)
VectorHasRow == "vec" \in data => "row" \in data \/ tombstone

(* A deletion that was sent is carried out and its record removed: failures *)
(* are retried, and the lock of a process that died does not stay.         *)
DeletionCompletes == queue["delete"] > 0 ~> ~tombstone
=============================================================================
