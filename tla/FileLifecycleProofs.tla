------------------------ MODULE FileLifecycleProofs ------------------------
(***************************************************************************)
(* Proofs about FileLifecycle, for any number of workers, events and       *)
(* faults: types, exclusion by the Redis locks, and what follows for the   *)
(* index of a file.                                                        *)
(***************************************************************************)
EXTENDS FileLifecycle, TLAPS

USE FileLifecycleAssumption

(* What the proofs need to know of the program of a task. *)
Shape(t, p) ==
    /\ DOMAIN p \subseteq 1..8 /\ 1 \in DOMAIN p
    /\ \E i \in DOMAIN p : p[i] = "end"
    /\ \A i \in DOMAIN p :
         /\ p[i] # "end" => i + 1 \in DOMAIN p
         /\ p[i] = "lock" <=> i = 1 /\ t \in DOMAIN LockOf
         /\ p[i] = "flag" => t \in DOMAIN FlagOf /\ p[i + 1] = "end"

LEMMA Shapes == \A t \in Tasks : Shape(t, Program[t])
  <1> USE DEF Shape, LockOf, FlagOf
  <1>1. Shape("domtree", DomtreeTask)
    BY DEF DomtreeTask
  <1>2. Shape("deleted", DeletedTask)
    BY DEF DeletedTask
  <1>3. Shape("index", IndexTask)
    BY DEF IndexTask
  <1>4. Shape("direct", DirectTask)
    BY DEF DirectTask
  <1>5. Shape("delete", DeleteTask)
    BY DEF DeleteTask
  <1>6. Shape("summary", SummaryTask)
    BY DEF SummaryTask
  <1>7. Shape("doneOnly", DoneOnlyTask)
    BY DEF DoneOnlyTask
  <1>8. Shape("context", ContextTask)
    BY DEF ContextTask
  <1> HIDE DEF Shape, LockOf, FlagOf
  <1>9. QED BY <1>1, <1>2, <1>3, <1>4, <1>5, <1>6, <1>7, <1>8 DEF Tasks, Program

LEMMA InitType == Init => TypeOK
  <1> SUFFICES ASSUME Init PROVE TypeOK
    OBVIOUS
  <1>1. {exists, tombstone, recorded} \subseteq BOOLEAN
    BY DEF Init
  <1>2. events \in [parse : 0..MaxParses, direct : 0..MaxDirect] /\ faults \in 0..MaxFaults
    BY DEF Init
  <1>3. /\ queue \in [Tasks -> Nat] /\ lock \in [Locks -> Workers \cup {Nobody, Dead}]
        /\ task \in [Workers -> Tasks \cup {"none"}] /\ pc \in [Workers -> 0..8]
    BY DEF Init
  <1>4. \A w \in Workers : task[w] = "none" /\ pc[w] = 0
    BY DEF Init
  <1>5. /\ failed \subseteq Workers /\ zombie \subseteq Workers /\ data \subseteq Stores
        /\ flags \subseteq {"indexed", "done", "context"}
    BY DEF Init
  <1>6. QED BY <1>1, <1>2, <1>3, <1>4, <1>5 DEF TypeOK

-----------------------------------------------------------------------------
(* A worker moves within the program of its task. *)
Moved(w) ==
    /\ w \in Workers /\ task[w] \in Tasks /\ UNCHANGED task
    /\ \E i \in DOMAIN Program[task[w]] : pc' = [pc EXCEPT ![w] = i]

(* It does so by a step other than taking its lock or ending. *)
Inner(w) == Moved(w) /\ StepOf(w) \notin {"lock", "end"} /\ UNCHANGED <<lock, flags>>

LEMMA WorkerType ==
    ASSUME TypeOK, NEW w \in Workers
    PROVE  /\ task[w] \in Tasks \cup {"none"}
           /\ pc \in [Workers -> 0..8]
           /\ task[w] # "none" => /\ task[w] \in Tasks
                                  /\ pc[w] \in DOMAIN Program[task[w]]
                                  /\ Shape(task[w], Program[task[w]])
  <1>1. task[w] \in Tasks \cup {"none"} /\ pc \in [Workers -> 0..8]
    BY DEF TypeOK
  <1>2. task[w] # "none" => task[w] \in Tasks /\ pc[w] \in DOMAIN Program[task[w]]
    BY <1>1 DEF TypeOK
  <1>3. QED BY <1>1, <1>2, Shapes

LEMMA GotoMoves ==
    ASSUME TypeOK, NEW w \in Workers, task[w] # "none", UNCHANGED task, NEW s, Goto(w, s),
           \E i \in DOMAIN Program[task[w]] : Program[task[w]][i] = s
    PROVE  /\ Moved(w)
           /\ pc' = [pc EXCEPT ![w] = pc'[w]]
           /\ pc'[w] \in DOMAIN Program[task[w]] /\ Program[task[w]][pc'[w]] = s
  <1> DEFINE p == Program[task[w]]
             n == CHOOSE i \in DOMAIN p : p[i] = s
  <1>1. n \in DOMAIN p /\ p[n] = s
    OBVIOUS
  <1>2. pc' = [pc EXCEPT ![w] = n] /\ pc'[w] = n
    BY WorkerType DEF Goto
  <1>3. task[w] \in Tasks
    BY WorkerType
  <1> HIDE DEF n
  <1>4. QED BY <1>1, <1>2, <1>3 DEF Moved

LEMMA EndExists ==
    ASSUME TypeOK, NEW w \in Workers, task[w] # "none"
    PROVE  \E i \in DOMAIN Program[task[w]] : Program[task[w]][i] = "end"
  BY WorkerType DEF Shape

LEMMA FlagExists == \E i \in DOMAIN Program["index"] : Program["index"][i] = "flag"
  <1>1. \E i \in DOMAIN IndexTask : IndexTask[i] = "flag"
    BY DEF IndexTask
  <1>2. QED BY <1>1 DEF Program

LEMMA AdvanceMoves ==
    ASSUME TypeOK, NEW w \in Workers, task[w] # "none", UNCHANGED task, Advance(w),
           StepOf(w) # "end"
    PROVE  /\ Moved(w)
           /\ pc[w] + 1 \in DOMAIN Program[task[w]]
           /\ pc' = [pc EXCEPT ![w] = pc[w] + 1]
  <1>1. pc[w] + 1 \in DOMAIN Program[task[w]] /\ task[w] \in Tasks
    BY WorkerType DEF Shape, StepOf
  <1>2. QED BY <1>1 DEF Moved, Advance

(* The steps that change nothing of locks and flags. *)
LEMMA InnerSteps ==
    ASSUME TypeOK, NEW w \in Workers,
           \/ Lookup(w) \/ SendTask(w) \/ RecordDeletion(w) \/ LoadFile(w) \/ ReadChunks(w)
           \/ WriteStore(w) \/ Notify(w) \/ DropStore(w) \/ ForgetDeletion(w) \/ FailTask(w)
    PROVE  Inner(w)
  <1>1. UNCHANGED <<task, lock, flags>>
    BY DEF Lookup, SendTask, RecordDeletion, LoadFile, ReadChunks, WriteStore, Notify,
           DropStore, ForgetDeletion, FailTask
  <1>2. task[w] # "none" /\ StepOf(w) \notin {"lock", "end"}
    BY DEF Lookup, SendTask, RecordDeletion, LoadFile, ReadChunks, WriteStore, Notify,
           DropStore, ForgetDeletion, FailTask, At, StepOf, Stores
  <1>3. \/ Advance(w) \/ Goto(w, "end")
        \/ task[w] = "index" /\ Goto(w, "flag")
    BY DEF Lookup, SendTask, RecordDeletion, LoadFile, ReadChunks, WriteStore, Notify,
           DropStore, ForgetDeletion, FailTask
  <1>4. CASE Advance(w)
    BY <1>1, <1>2, <1>4, AdvanceMoves DEF Inner
  <1>5. CASE Goto(w, "end")
    BY <1>1, <1>2, <1>5, GotoMoves, EndExists DEF Inner
  <1>6. CASE task[w] = "index" /\ Goto(w, "flag")
    BY <1>1, <1>2, <1>6, GotoMoves, FlagExists DEF Inner
  <1>7. QED BY <1>3, <1>4, <1>5, <1>6

(* The steps of the system, by what they do to workers, locks and flags. *)
LEMMA Steps ==
    ASSUME TypeOK, [Next]_vars
    PROVE  \/ UNCHANGED <<task, pc, lock, flags>>
           \/ \E w \in Workers : Inner(w) \/ AcquireLock(w) \/ SetFlag(w) \/ EndTask(w) \/ Crash(w)
           \/ \E w \in Workers, t \in Tasks : Take(w, t)
           \/ \E l \in Locks : ExpireLock(l)
  <1>1. CASE DomtreeReady \/ FileDeleted \/ DirectIndexing
    BY <1>1 DEF DomtreeReady, FileDeleted, DirectIndexing, workerVars
  <1>2. ASSUME NEW w \in Workers, RunStep(w) \/ FailTask(w)
        PROVE  \/ Inner(w) \/ AcquireLock(w) \/ SetFlag(w) \/ EndTask(w)
               \/ \E t \in Tasks : Take(w, t)
    BY <1>2, InnerSteps DEF RunStep
  <1>3. ASSUME NEW w \in Workers, Timeout(w) PROVE UNCHANGED <<task, pc, lock, flags>>
    BY <1>3 DEF Timeout
  <1>4. CASE UNCHANGED vars
    BY <1>4 DEF vars, workerVars
  <1>5. QED BY <1>1, <1>2, <1>3, <1>4 DEF Next

-----------------------------------------------------------------------------
(* A handler past its first step holds its lock. *)
LockInv ==
    \A w \in Workers : task[w] \in DOMAIN LockOf /\ pc[w] > 1 => lock[LockOf[task[w]]] = w

(* When the flag is set, a handler of the index task has nothing left to do. *)
FlagInv ==
    "indexed" \in flags =>
        \A w \in Workers : task[w] = "index" /\ pc[w] > 1 => StepOf(w) = "end"

Inv == TypeOK /\ LockInv /\ FlagInv

LEMMA Inside ==
    ASSUME TypeOK, NEW w \in Workers, task[w] \in DOMAIN LockOf, StepOf(w) # "lock"
    PROVE  pc[w] > 1
  <1>1. task[w] # "none"
    BY DEF LockOf
  <1>2. pc[w] \in 1..8 /\ pc[w] # 1
    BY <1>1, WorkerType DEF Shape, StepOf
  <1>3. QED BY <1>2

LEMMA NextLocks == Inv /\ TypeOK' /\ [Next]_vars => LockInv' /\ FlagInv'
  <1> SUFFICES ASSUME Inv, TypeOK', [Next]_vars PROVE LockInv' /\ FlagInv'
    OBVIOUS
  <1>0. TypeOK /\ LockInv /\ FlagInv
    BY DEF Inv
  <1>0a. /\ lock \in [Locks -> Workers \cup {Nobody, Dead}] /\ pc \in [Workers -> 0..8]
         /\ task \in [Workers -> Tasks \cup {"none"}]
         /\ {Nobody, Dead} \cap Workers = {}
         /\ \A t \in DOMAIN LockOf : LockOf[t] \in Locks
    BY <1>0 DEF TypeOK, LockOf, Locks
  <1>0b. "index" \in DOMAIN LockOf /\ LockOf["index"] = "indexing"
    BY DEF LockOf
  <1>1. CASE UNCHANGED <<task, pc, lock, flags>>
    BY <1>0, <1>1 DEF LockInv, FlagInv, StepOf
  <1>2. ASSUME NEW w \in Workers, Inner(w) PROVE LockInv' /\ FlagInv'
    <2>1. PICK i \in DOMAIN Program[task[w]] : pc' = [pc EXCEPT ![w] = i]
      BY <1>2 DEF Inner, Moved
    <2>2. UNCHANGED <<task, lock, flags>> /\ StepOf(w) \notin {"lock", "end"}
      BY <1>2 DEF Inner, Moved
    <2>3. task[w] \in DOMAIN LockOf => pc[w] > 1
      BY <1>0, <2>2, Inside
    <2>4. LockInv'
      BY <1>0, <1>0a, <2>1, <2>2, <2>3 DEF LockInv
    <2>5. ASSUME "indexed" \in flags', NEW v \in Workers, task'[v] = "index", pc'[v] > 1
          PROVE  StepOf(v)' = "end"
      <3>1. v # w
        BY <1>0, <1>0b, <2>2, <2>3, <2>5 DEF FlagInv
      <3>2. QED BY <1>0, <1>0a, <2>1, <2>2, <2>5, <3>1 DEF FlagInv, StepOf
    <2>6. QED BY <2>4, <2>5 DEF FlagInv
  <1>3. ASSUME NEW w \in Workers, AcquireLock(w) PROVE LockInv' /\ FlagInv'
    <2>1. /\ task[w] # "none" /\ StepOf(w) = "lock" /\ UNCHANGED <<task, flags>>
          /\ lock[LockOf[task[w]]] = Nobody
          /\ lock' = [lock EXCEPT ![LockOf[task[w]]] = w]
      BY <1>3 DEF AcquireLock, At, StepOf
    <2>2. task[w] \in DOMAIN LockOf
      BY <1>0, <2>1, WorkerType DEF Shape, StepOf
    <2>3. /\ Moved(w)
          /\ task[w] = "index" /\ "indexed" \in flags => Program[task[w]][pc'[w]] = "end"
      <3>1. CASE task[w] \in DOMAIN FlagOf /\ FlagOf[task[w]] \in flags
        BY <1>0, <1>3, <2>1, <3>1, GotoMoves, EndExists DEF AcquireLock
      <3>2. CASE ~(task[w] \in DOMAIN FlagOf /\ FlagOf[task[w]] \in flags)
        <4>1. Moved(w)
          BY <1>0, <1>3, <2>1, <3>2, AdvanceMoves DEF AcquireLock
        <4>2. QED BY <3>2, <4>1 DEF FlagOf
      <3>3. QED BY <3>1, <3>2
    <2>4. PICK i \in DOMAIN Program[task[w]] : pc' = [pc EXCEPT ![w] = i]
      BY <2>3 DEF Moved
    <2>5. ASSUME NEW v \in Workers, task'[v] \in DOMAIN LockOf, pc'[v] > 1
          PROVE  lock'[LockOf[task'[v]]] = v
      <3>1. CASE v = w
        BY <1>0a, <2>1, <2>2, <3>1
      <3>2. CASE v # w
        <4>1. lock[LockOf[task[v]]] = v /\ LockOf[task[v]] \in Locks
          BY <1>0, <1>0a, <2>1, <2>4, <2>5, <3>2 DEF LockInv
        <4>2. LockOf[task[v]] # LockOf[task[w]]
          BY <1>0a, <2>1, <4>1
        <4>3. QED BY <1>0a, <2>1, <4>1, <4>2
      <3>3. QED BY <3>1, <3>2
    <2>6. ASSUME "indexed" \in flags', NEW v \in Workers, task'[v] = "index", pc'[v] > 1
          PROVE  StepOf(v)' = "end"
      <3>1. CASE v = w
        BY <2>1, <2>3, <2>6, <3>1 DEF StepOf
      <3>2. CASE v # w
        BY <1>0, <1>0a, <2>1, <2>4, <2>6, <3>2 DEF FlagInv, StepOf
      <3>3. QED BY <3>1, <3>2
    <2>7. QED BY <2>5, <2>6 DEF LockInv, FlagInv
  <1>4. ASSUME NEW w \in Workers, SetFlag(w) PROVE LockInv' /\ FlagInv'
    <2>1. /\ task[w] # "none" /\ StepOf(w) = "flag" /\ UNCHANGED <<task, lock>>
          /\ flags' = flags \cup {FlagOf[task[w]]} /\ Advance(w)
      BY <1>4 DEF SetFlag, At, StepOf
    <2>2. pc' = [pc EXCEPT ![w] = pc[w] + 1] /\ Program[task[w]][pc[w] + 1] = "end"
      BY <1>0, <2>1, WorkerType, AdvanceMoves DEF Shape, StepOf
    <2>3. task[w] \in DOMAIN LockOf => pc[w] > 1
      BY <1>0, <2>1, Inside
    <2>4. LockInv'
      BY <1>0, <1>0a, <2>1, <2>2, <2>3 DEF LockInv
    <2>5. ASSUME "indexed" \in flags', NEW v \in Workers, task'[v] = "index", pc'[v] > 1
          PROVE  StepOf(v)' = "end"
      <3>1. CASE v = w
        BY <1>0a, <2>1, <2>2, <3>1 DEF StepOf
      <3>2. CASE v # w
        <4>1. pc'[v] = pc[v] /\ task[v] = "index" /\ pc[v] > 1
          BY <1>0a, <2>1, <2>2, <2>5, <3>2
        <4>2. lock["indexing"] = v
          BY <1>0, <1>0b, <4>1 DEF LockInv
        <4>3. task[w] # "index"
          BY <1>0, <1>0b, <2>3, <3>2, <4>2 DEF LockInv
        <4>4. task[w] \in DOMAIN FlagOf
          BY <1>0, <2>1, WorkerType DEF Shape, StepOf
        <4>5. "indexed" \in flags
          BY <2>1, <2>5, <4>3, <4>4 DEF FlagOf
        <4>6. QED BY <1>0, <2>1, <4>1, <4>5 DEF FlagInv, StepOf
      <3>3. QED BY <3>1, <3>2
    <2>6. QED BY <2>4, <2>5 DEF FlagInv
  <1>5. ASSUME NEW w \in Workers, EndTask(w) \/ Crash(w) PROVE LockInv' /\ FlagInv'
    <2>1. /\ task' = [task EXCEPT ![w] = "none"] /\ pc' = [pc EXCEPT ![w] = 0]
          /\ \E x \in {Nobody, Dead} : lock' = [l \in Locks |-> IF lock[l] = w THEN x ELSE lock[l]]
          /\ UNCHANGED flags
      BY <1>5 DEF EndTask, Crash
    <2>2. \A v \in Workers : v # w => task'[v] = task[v] /\ pc'[v] = pc[v]
      BY <1>0a, <2>1
    <2>3. task'[w] = "none" /\ "none" \notin DOMAIN LockOf
      BY <1>0a, <2>1 DEF LockOf
    <2>4. \A l \in Locks : lock[l] # w => lock'[l] = lock[l]
      BY <2>1
    <2>5. LockInv'
      BY <1>0, <1>0a, <2>2, <2>3, <2>4 DEF LockInv
    <2>6. FlagInv'
      BY <1>0, <2>1, <2>2, <2>3 DEF FlagInv, StepOf
    <2>7. QED BY <2>5, <2>6
  <1>6. ASSUME NEW w \in Workers, NEW t \in Tasks, Take(w, t) PROVE LockInv' /\ FlagInv'
    <2>1. /\ task' = [task EXCEPT ![w] = t] /\ pc' = [pc EXCEPT ![w] = 1]
          /\ UNCHANGED <<lock, flags>>
      BY <1>6 DEF Take
    <2>2. \A v \in Workers : v # w => task'[v] = task[v] /\ pc'[v] = pc[v]
      BY <1>0a, <2>1
    <2>3. pc'[w] = 1
      BY <1>0a, <2>1
    <2>4. LockInv'
      BY <1>0, <1>0a, <2>1, <2>2, <2>3 DEF LockInv
    <2>5. FlagInv'
      BY <1>0, <2>1, <2>2, <2>3 DEF FlagInv, StepOf
    <2>6. QED BY <2>4, <2>5
  <1>7. ASSUME NEW l \in Locks, ExpireLock(l) PROVE LockInv' /\ FlagInv'
    <2>1. /\ lock[l] = Dead /\ lock' = [lock EXCEPT ![l] = Nobody]
          /\ UNCHANGED <<task, pc, flags>>
      BY <1>7 DEF ExpireLock, workerVars
    <2>2. LockInv'
      BY <1>0, <1>0a, <2>1 DEF LockInv
    <2>3. FlagInv'
      BY <1>0, <2>1 DEF FlagInv, StepOf
    <2>4. QED BY <2>2, <2>3
  <1>8. QED BY <1>0, <1>1, <1>2, <1>3, <1>4, <1>5, <1>6, <1>7, Steps

-----------------------------------------------------------------------------
(* The part of TypeOK about the workers. *)
WorkerOK ==
    /\ task \in [Workers -> Tasks \cup {"none"}]
    /\ pc \in [Workers -> 0..8]
    /\ \A w \in Workers : IF task[w] = "none" THEN pc[w] = 0 ELSE pc[w] \in DOMAIN Program[task[w]]
    /\ lock \in [Locks -> Workers \cup {Nobody, Dead}]
    /\ flags \subseteq {"indexed", "done", "context"}

(* The rest of it. *)
RestOK ==
    /\ {exists, tombstone, recorded} \subseteq BOOLEAN
    /\ events \in [parse : 0..MaxParses, direct : 0..MaxDirect]
    /\ queue \in [Tasks -> Nat]
    /\ failed \subseteq Workers /\ zombie \subseteq Workers
    /\ data \subseteq Stores
    /\ faults \in 0..MaxFaults

LEMMA NextWorkerOK == TypeOK /\ [Next]_vars => WorkerOK'
  <1> SUFFICES ASSUME TypeOK, [Next]_vars PROVE WorkerOK'
    OBVIOUS
  <1>0. WorkerOK
    BY DEF TypeOK, WorkerOK
  <1>0a. "none" \notin Tasks /\ \A t \in Tasks : Shape(t, Program[t])
    BY Shapes DEF Tasks, Program
  <1>0b. \A t \in DOMAIN LockOf : LockOf[t] \in Locks
    BY DEF LockOf, Locks
  <1>1. CASE UNCHANGED <<task, pc, lock, flags>>
    BY <1>0, <1>1 DEF WorkerOK
  <1>2. ASSUME NEW w \in Workers, Moved(w),
               lock' \in [Locks -> Workers \cup {Nobody, Dead}],
               flags' \subseteq {"indexed", "done", "context"}
        PROVE  WorkerOK'
    <2>1. PICK i \in DOMAIN Program[task[w]] : pc' = [pc EXCEPT ![w] = i]
      BY <1>2 DEF Moved
    <2>2. task[w] \in Tasks /\ UNCHANGED task
      BY <1>2 DEF Moved
    <2>3. i \in 0..8
      BY <1>0a, <2>1, <2>2 DEF Shape
    <2>4. QED BY <1>0, <1>0a, <1>2, <2>1, <2>2, <2>3 DEF WorkerOK
  <1>3. ASSUME NEW w \in Workers, Inner(w) PROVE WorkerOK'
    BY <1>0, <1>2, <1>3 DEF Inner, WorkerOK
  <1>4. ASSUME NEW w \in Workers, AcquireLock(w) PROVE WorkerOK'
    <2>1. /\ task[w] # "none" /\ StepOf(w) = "lock" /\ UNCHANGED <<task, flags>>
          /\ lock' = [lock EXCEPT ![LockOf[task[w]]] = w]
          /\ Goto(w, "end") \/ Advance(w)
      BY <1>4 DEF AcquireLock, At, StepOf
    <2>2. task[w] \in DOMAIN LockOf
      BY <2>1, WorkerType DEF Shape, StepOf
    <2>3. lock' \in [Locks -> Workers \cup {Nobody, Dead}]
      BY <1>0, <1>0b, <2>1, <2>2 DEF WorkerOK
    <2>4. Moved(w)
      BY <2>1, GotoMoves, AdvanceMoves, EndExists
    <2>5. QED BY <1>0, <1>2, <2>1, <2>3, <2>4 DEF WorkerOK
  <1>5. ASSUME NEW w \in Workers, SetFlag(w) PROVE WorkerOK'
    <2>1. /\ task[w] # "none" /\ StepOf(w) = "flag" /\ UNCHANGED <<task, lock>>
          /\ flags' = flags \cup {FlagOf[task[w]]} /\ Advance(w)
      BY <1>5 DEF SetFlag, At, StepOf
    <2>2. task[w] \in DOMAIN FlagOf
      BY <2>1, WorkerType DEF Shape, StepOf
    <2>3. FlagOf[task[w]] \in {"indexed", "done", "context"}
      BY <2>2 DEF FlagOf
    <2>4. Moved(w)
      BY <2>1, AdvanceMoves
    <2>5. QED BY <1>0, <1>2, <2>1, <2>3, <2>4 DEF WorkerOK
  <1>6. ASSUME NEW w \in Workers, EndTask(w) \/ Crash(w) PROVE WorkerOK'
    <2>1. /\ task' = [task EXCEPT ![w] = "none"] /\ pc' = [pc EXCEPT ![w] = 0]
          /\ \E x \in {Nobody, Dead} : lock' = [l \in Locks |-> IF lock[l] = w THEN x ELSE lock[l]]
          /\ UNCHANGED flags
      BY <1>6 DEF EndTask, Crash
    <2>2. lock' \in [Locks -> Workers \cup {Nobody, Dead}]
      BY <1>0, <2>1 DEF WorkerOK
    <2>3. QED BY <1>0, <2>1, <2>2 DEF WorkerOK
  <1>7. ASSUME NEW w \in Workers, NEW t \in Tasks, Take(w, t) PROVE WorkerOK'
    <2>1. /\ task' = [task EXCEPT ![w] = t] /\ pc' = [pc EXCEPT ![w] = 1]
          /\ UNCHANGED <<lock, flags>>
      BY <1>7 DEF Take
    <2>2. 1 \in DOMAIN Program[t]
      BY <1>0a DEF Shape
    <2>3. QED BY <1>0, <1>0a, <2>1, <2>2 DEF WorkerOK
  <1>8. ASSUME NEW l \in Locks, ExpireLock(l) PROVE WorkerOK'
    BY <1>0, <1>8 DEF ExpireLock, workerVars, WorkerOK
  <1>9. QED BY <1>1, <1>3, <1>4, <1>5, <1>6, <1>7, <1>8, Steps

(* What is waiting stays countable. *)
LEMMA EnqueueOK ==
    ASSUME queue \in [Tasks -> Nat], NEW t \in Tasks, Enqueue(t)
    PROVE  queue' \in [Tasks -> Nat]
  <1>1. queue[t] + 1 \in Nat
    OBVIOUS
  <1>2. queue' = [queue EXCEPT ![t] = queue[t] + 1]
    BY DEF Enqueue
  <1>3. QED BY <1>1, <1>2

LEMMA TaskNames == {"domtree", "deleted", "index", "summary", "delete", "direct", "context",
                    "doneOnly"} \subseteq Tasks
  BY DEF Tasks, Program

LEMMA NextRestOK == TypeOK /\ [Next]_vars => RestOK'
  <1> SUFFICES ASSUME TypeOK, [Next]_vars PROVE RestOK'
    OBVIOUS
  <1>0. RestOK
    BY DEF TypeOK, RestOK
  <1>1. exists' \in BOOLEAN /\ tombstone' \in BOOLEAN /\ recorded' \in BOOLEAN
    <2>1. exists \in BOOLEAN /\ tombstone \in BOOLEAN /\ recorded \in BOOLEAN
      BY <1>0 DEF RestOK
    <2>2. exists' = exists \/ exists' = FALSE
      BY DEF Next, RunStep, DomtreeReady, FileDeleted, DirectIndexing, Take, Lookup, SendTask,
             RecordDeletion, AcquireLock, LoadFile, ReadChunks, WriteStore, Notify, SetFlag,
             DropStore, ForgetDeletion, EndTask, FailTask, Timeout, Crash, ExpireLock, vars
    <2>3. tombstone' = tombstone \/ tombstone' = TRUE \/ tombstone' = FALSE
      BY DEF Next, RunStep, DomtreeReady, FileDeleted, DirectIndexing, Take, Lookup, SendTask,
             RecordDeletion, AcquireLock, LoadFile, ReadChunks, WriteStore, Notify, SetFlag,
             DropStore, ForgetDeletion, EndTask, FailTask, Timeout, Crash, ExpireLock, vars
    <2>4. recorded' = recorded \/ recorded' = TRUE
      BY DEF Next, RunStep, DomtreeReady, FileDeleted, DirectIndexing, Take, Lookup, SendTask,
             RecordDeletion, AcquireLock, LoadFile, ReadChunks, WriteStore, Notify, SetFlag,
             DropStore, ForgetDeletion, EndTask, FailTask, Timeout, Crash, ExpireLock, vars
    <2>5. exists' \in BOOLEAN
      BY <2>1, <2>2
    <2>6. tombstone' \in BOOLEAN
      BY <2>1, <2>3
    <2>7. recorded' \in BOOLEAN
      BY <2>1, <2>4
    <2>8. QED BY <2>5, <2>6, <2>7
  <1>2. events' \in [parse : 0..MaxParses, direct : 0..MaxDirect]
    <2>1. CASE UNCHANGED events
      BY <1>0, <2>1 DEF RestOK
    <2>2. CASE DomtreeReady
      BY <1>0, <2>2 DEF RestOK, DomtreeReady
    <2>3. CASE DirectIndexing
      BY <1>0, <2>3 DEF RestOK, DirectIndexing
    <2>4. UNCHANGED events \/ DomtreeReady \/ DirectIndexing
      BY DEF Next, RunStep, FileDeleted, Take, Lookup, SendTask,
             RecordDeletion, AcquireLock, LoadFile, ReadChunks, WriteStore, Notify, SetFlag,
             DropStore, ForgetDeletion, EndTask, FailTask, Timeout, Crash, ExpireLock, vars
    <2>5. QED BY <2>1, <2>2, <2>3, <2>4
  <1>3. queue' \in [Tasks -> Nat]
    <2>0. queue \in [Tasks -> Nat]
      BY <1>0 DEF RestOK
    <2>1. CASE UNCHANGED queue
      BY <2>0, <2>1
    <2>2. CASE \E t \in Tasks : Enqueue(t)
      BY <2>0, <2>2, EnqueueOK
    <2>3. ASSUME NEW w \in Workers, NEW t \in Tasks, Take(w, t) PROVE queue' \in [Tasks -> Nat]
      BY <2>0, <2>3 DEF Take
    <2>4. ASSUME NEW w \in Workers, Notify(w) PROVE queue' \in [Tasks -> Nat]
      <3>1. queue' = [queue EXCEPT !["context"] = queue["context"] + 1,
                                   !["doneOnly"] = queue["doneOnly"] + 1]
        BY <2>4 DEF Notify
      <3>2. queue["context"] + 1 \in Nat /\ queue["doneOnly"] + 1 \in Nat
        BY <2>0, TaskNames
      <3>3. QED BY <2>0, <3>1, <3>2
    <2>5. \/ UNCHANGED queue \/ \E t \in Tasks : Enqueue(t)
          \/ \E w \in Workers, t \in Tasks : Take(w, t)
          \/ \E w \in Workers : Notify(w)
      <3>1. ASSUME DomtreeReady \/ FileDeleted \/ DirectIndexing PROVE \E t \in Tasks : Enqueue(t)
        BY <3>1, TaskNames DEF DomtreeReady, FileDeleted, DirectIndexing
      <3>2. ASSUME NEW w \in Workers, SendTask(w) \/ EndTask(w) \/ Timeout(w) \/ Crash(w)
            PROVE  UNCHANGED queue \/ \E t \in Tasks : Enqueue(t)
        <4>1. task[w] \in Tasks \cup {"none"}
          BY WorkerType
        <4>2. CASE SendTask(w)
          BY <4>2, TaskNames DEF SendTask
        <4>3. CASE EndTask(w)
          BY <4>1, <4>3 DEF EndTask, At
        <4>4. CASE Timeout(w)
          BY <4>1, <4>4 DEF Timeout
        <4>5. CASE Crash(w)
          BY <4>1, <4>5 DEF Crash
        <4>6. QED BY <3>2, <4>2, <4>3, <4>4, <4>5
      <3>3. ASSUME NEW w \in Workers,
                   \/ Lookup(w) \/ RecordDeletion(w) \/ AcquireLock(w) \/ LoadFile(w)
                   \/ ReadChunks(w) \/ WriteStore(w) \/ SetFlag(w) \/ DropStore(w)
                   \/ ForgetDeletion(w) \/ FailTask(w)
            PROVE  UNCHANGED queue
        BY <3>3 DEF Lookup, RecordDeletion, AcquireLock, LoadFile, ReadChunks, WriteStore,
                    SetFlag, DropStore, ForgetDeletion, FailTask
      <3>4. ASSUME NEW l \in Locks, ExpireLock(l) PROVE UNCHANGED queue
        BY <3>4 DEF ExpireLock
      <3>5. CASE UNCHANGED vars
        BY <3>5 DEF vars
      <3>6. QED BY <3>1, <3>2, <3>3, <3>4, <3>5 DEF Next, RunStep
    <2>6. QED BY <2>1, <2>2, <2>3, <2>4, <2>5
  <1>4. failed' \subseteq Workers /\ zombie' \subseteq Workers
    BY <1>0 DEF RestOK, Next, RunStep, DomtreeReady, FileDeleted, DirectIndexing, Take, Lookup,
           SendTask, RecordDeletion, AcquireLock, LoadFile, ReadChunks, WriteStore, Notify, SetFlag,
           DropStore, ForgetDeletion, EndTask, FailTask, Timeout, Crash, ExpireLock, vars, workerVars
  <1>5. data' \subseteq Stores
    BY <1>0 DEF RestOK, Next, RunStep, DomtreeReady, FileDeleted, DirectIndexing, Take, Lookup,
           SendTask, RecordDeletion, AcquireLock, LoadFile, ReadChunks, WriteStore, Notify, SetFlag,
           DropStore, ForgetDeletion, EndTask, FailTask, Timeout, Crash, ExpireLock, vars
  <1>6. faults' \in 0..MaxFaults
    <2>1. faults \in 0..MaxFaults
      BY <1>0 DEF RestOK
    <2>2. ASSUME NEW w \in Workers, FailTask(w) \/ Timeout(w) \/ Crash(w)
          PROVE  faults < MaxFaults /\ faults' = faults + 1
      <3>1. CASE FailTask(w)
        BY <3>1 DEF FailTask
      <3>2. CASE Timeout(w)
        BY <3>2 DEF Timeout
      <3>3. CASE Crash(w)
        BY <3>3 DEF Crash
      <3>4. QED BY <2>2, <3>1, <3>2, <3>3
    <2>3. UNCHANGED faults \/ \E w \in Workers : FailTask(w) \/ Timeout(w) \/ Crash(w)
      BY DEF Next, RunStep, DomtreeReady, FileDeleted, DirectIndexing, Take, Lookup, SendTask,
             RecordDeletion, AcquireLock, LoadFile, ReadChunks, WriteStore, Notify, SetFlag,
             DropStore, ForgetDeletion, EndTask, ExpireLock, vars
    <2>4. faults' = faults \/ (faults < MaxFaults /\ faults' = faults + 1)
      BY <2>2, <2>3
    <2>5. QED BY <2>1, <2>4
  <1>7. QED BY <1>1, <1>2, <1>3, <1>4, <1>5, <1>6 DEF RestOK

LEMMA NextInv == Inv /\ [Next]_vars => Inv'
  <1>1. Inv /\ [Next]_vars => TypeOK'
    BY NextWorkerOK, NextRestOK DEF Inv, WorkerOK, RestOK, TypeOK
  <1>2. QED BY <1>1, NextLocks DEF Inv

LEMMA InitInv == Init => Inv
  <1>1. Init => LockInv /\ FlagInv
    BY DEF Init, LockInv, FlagInv
  <1>2. QED BY <1>1, InitType DEF Inv

(* TypeOK of FileLifecycle: every handler stays within its program, every  *)
(* lock has one holder, whatever raises, times out or dies.                *)
THEOREM Typing == Spec => []TypeOK
  <1>1. Inv => TypeOK
    BY DEF Inv
  <1>2. QED BY InitInv, NextInv, <1>1, PTL DEF Spec

(* IndexedIsFinal of FileLifecycle: once knowledge_index_task_callback has *)
(* set its success flag, no redelivery of the task builds the index again. *)
THEOREM IndexedOnce == Spec => []IndexedIsFinal
  <1>1. Inv => IndexedIsFinal
    <2> SUFFICES ASSUME Inv, "indexed" \in flags,
                        NEW w \in Workers, task[w] = "index", Building(w)
                 PROVE  FALSE
      BY DEF IndexedIsFinal
    <2>1. StepOf(w) \notin {"lock", "end"}
      BY DEF Building
    <2>2. pc[w] > 1
      BY <2>1, Inside DEF Inv, LockOf
    <2>3. QED BY <2>1, <2>2 DEF Inv, FlagInv
  <1>2. QED BY InitInv, NextInv, <1>1, PTL DEF Spec

-----------------------------------------------------------------------------
(* No indexing runs that the endpoint started, nor is one waiting. *)
NoDirect == queue["direct"] = 0 /\ \A w \in Workers : task[w] # "direct"

LEMMA OtherEnqueue ==
    ASSUME TypeOK, NEW t \in Tasks \ {"direct"}, Enqueue(t)
    PROVE  queue'["direct"] = queue["direct"]
  <1>1. queue \in [Tasks -> Nat] /\ "direct" \in Tasks
    BY TaskNames DEF TypeOK
  <1>2. QED BY <1>1 DEF Enqueue

LEMMA NextNoDirect == MaxDirect = 0 /\ TypeOK /\ NoDirect /\ [Next]_vars => NoDirect'
  <1> SUFFICES ASSUME MaxDirect = 0, TypeOK, NoDirect, [Next]_vars PROVE NoDirect'
    OBVIOUS
  <1>0. /\ queue \in [Tasks -> Nat] /\ task \in [Workers -> Tasks \cup {"none"}]
        /\ queue["direct"] = 0 /\ \A w \in Workers : task[w] # "direct"
        /\ events \in [parse : 0..MaxParses, direct : 0..MaxDirect]
    BY DEF TypeOK, NoDirect
  <1>1. CASE DirectIndexing
    BY <1>0, <1>1 DEF DirectIndexing
  <1>2. CASE DomtreeReady \/ FileDeleted
    BY <1>0, <1>2, TaskNames, OtherEnqueue DEF DomtreeReady, FileDeleted, workerVars, NoDirect
  <1>3. ASSUME NEW w \in Workers, NEW t \in Tasks, Take(w, t) PROVE NoDirect'
    <2>1. t # "direct" /\ task' = [task EXCEPT ![w] = t] /\ queue' = [queue EXCEPT ![t] = queue[t] - 1]
      BY <1>0, <1>3 DEF Take
    <2>2. queue'["direct"] = 0 /\ \A v \in Workers : task'[v] \in {task[v], t}
      BY <1>0, <2>1
    <2>3. QED BY <1>0, <2>1, <2>2 DEF NoDirect
  <1>4. ASSUME NEW w \in Workers,
               \/ Lookup(w) \/ RecordDeletion(w) \/ AcquireLock(w) \/ LoadFile(w)
               \/ ReadChunks(w) \/ WriteStore(w) \/ SetFlag(w) \/ DropStore(w)
               \/ ForgetDeletion(w) \/ FailTask(w)
        PROVE  NoDirect'
    <2>1. UNCHANGED <<queue, task>>
      BY <1>4 DEF Lookup, RecordDeletion, AcquireLock, LoadFile, ReadChunks, WriteStore,
                  SetFlag, DropStore, ForgetDeletion, FailTask
    <2>2. QED BY <1>0, <2>1 DEF NoDirect
  <1>5. ASSUME NEW w \in Workers, SendTask(w) \/ Timeout(w) PROVE NoDirect'
    <2>1. \E t \in Tasks \ {"direct"} : Enqueue(t)
      <3>1. CASE SendTask(w)
        BY <3>1, TaskNames DEF SendTask
      <3>2. CASE Timeout(w)
        BY <1>0, <3>2 DEF Timeout
      <3>3. QED BY <1>5, <3>1, <3>2
    <2>2. queue'["direct"] = 0
      BY <1>0, <2>1, OtherEnqueue
    <2>3. UNCHANGED task
      BY <1>5 DEF SendTask, Timeout
    <2>4. QED BY <1>0, <2>2, <2>3 DEF NoDirect
  <1>6. ASSUME NEW w \in Workers, Notify(w) PROVE NoDirect'
    <2>1. queue' = [queue EXCEPT !["context"] = queue["context"] + 1,
                                 !["doneOnly"] = queue["doneOnly"] + 1]
          /\ UNCHANGED task
      BY <1>6 DEF Notify
    <2>2. queue'["direct"] = queue["direct"]
      BY <1>0, <2>1, TaskNames
    <2>3. QED BY <1>0, <2>1, <2>2 DEF NoDirect
  <1>7. ASSUME NEW w \in Workers, EndTask(w) \/ Crash(w) PROVE NoDirect'
    <2>1. UNCHANGED queue \/ \E t \in Tasks \ {"direct"} : Enqueue(t)
      <3>1. task[w] \in Tasks \cup {"none"} /\ task[w] # "direct"
        BY <1>0
      <3>2. CASE EndTask(w)
        BY <3>1, <3>2 DEF EndTask, At
      <3>3. CASE Crash(w)
        BY <3>1, <3>3 DEF Crash
      <3>4. QED BY <1>7, <3>2, <3>3
    <2>2. queue'["direct"] = 0
      BY <1>0, <2>1, OtherEnqueue
    <2>3. task' = [task EXCEPT ![w] = "none"]
      BY <1>7 DEF EndTask, Crash
    <2>4. QED BY <1>0, <2>2, <2>3 DEF NoDirect
  <1>8. ASSUME NEW l \in Locks, ExpireLock(l) PROVE NoDirect'
    BY <1>0, <1>8 DEF ExpireLock, workerVars, NoDirect
  <1>9. CASE UNCHANGED vars
    BY <1>0, <1>9 DEF vars, workerVars, NoDirect
  <1>10. QED BY <1>1, <1>2, <1>3, <1>4, <1>5, <1>6, <1>7, <1>8, <1>9 DEF Next, RunStep

(* OneBuilder of FileLifecycle holds while nobody calls the indexing       *)
(* endpoint, whose thread runs file_indexing without the lock: the lock of *)
(* knowledge_index_task_callback excludes every other pair of builders.    *)
THEOREM OneBuilderUnlessDirect == MaxDirect = 0 => (Spec => []OneBuilder)
  <1> SUFFICES ASSUME MaxDirect = 0 PROVE Spec => []OneBuilder
    OBVIOUS
  <1>1. Init => Inv /\ NoDirect
    BY InitInv, TaskNames DEF Init, NoDirect
  <1>2. Inv /\ NoDirect /\ [Next]_vars => Inv' /\ NoDirect'
    BY NextInv, NextNoDirect DEF Inv
  <1>3. Inv /\ NoDirect => OneBuilder
    <2> SUFFICES ASSUME Inv, NoDirect, NEW v \in Workers, NEW w \in Workers,
                        Building(v), Building(w)
                 PROVE  v = w
      BY DEF OneBuilder
    <2>1. \A u \in {v, w} : task[u] = "index" /\ StepOf(u) # "lock"
      BY DEF Building, NoDirect
    <2>2. "index" \in DOMAIN LockOf /\ LockOf["index"] = "indexing"
      BY DEF LockOf
    <2>3. pc[v] > 1 /\ pc[w] > 1
      BY <2>1, <2>2, Inside DEF Inv
    <2>4. QED BY <2>1, <2>2, <2>3 DEF Inv, LockInv
  <1>4. QED BY <1>1, <1>2, <1>3, PTL DEF Spec
-----------------------------------------------------------------------------
(* What comes after what in the programs that the stores depend on. *)
Adjacent(t, s, r) ==
    \/ /\ t = "index"
       /\ <<s, r>> \in {<<"lock", "load">>, <<"load", "row">>, <<"row", "es">>, <<"es", "vec">>,
                        <<"vec", "notify">>, <<"notify", "flag">>, <<"flag", "end">>}
    \/ /\ t = "direct"
       /\ <<s, r>> \in {<<"load", "row">>, <<"row", "es">>, <<"es", "vec">>, <<"vec", "notify">>,
                        <<"notify", "end">>}
    \/ /\ t = "delete"
       /\ <<s, r>> \in {<<"lock", "dropRows">>, <<"dropRows", "dropVec">>, <<"dropVec", "dropEs">>,
                        <<"dropEs", "forget">>, <<"forget", "end">>}
    \/ t = "deleted" /\ <<s, r>> \in {<<"record", "sendDelete">>, <<"sendDelete", "end">>}
    \/ /\ t = "context"
       /\ <<s, r>> \in {<<"lock", "read">>, <<"read", "ctxVec">>, <<"ctxVec", "ctxEs">>,
                        <<"ctxEs", "ctxRow">>, <<"ctxRow", "flag">>, <<"flag", "end">>}
    \/ t = "domtree" /\ <<s, r>> \in {<<"lookup", "sendIndex">>, <<"sendIndex", "sendSummary">>,
                                      <<"sendSummary", "end">>}
    \/ /\ t = "summary"
       /\ <<s, r>> \in {<<"lock", "load">>, <<"load", "meta">>, <<"meta", "sumVec">>,
                        <<"sumVec", "flag">>, <<"flag", "end">>}
    \/ t = "doneOnly" /\ <<s, r>> \in {<<"lock", "flag">>, <<"flag", "end">>}

LEMMA Order ==
    \A t \in Tasks : \A i \in DOMAIN Program[t] :
        Program[t][i] # "end" => Adjacent(t, Program[t][i], Program[t][i + 1])
  <1> DEFINE P(t, p) == \A i \in DOMAIN p : p[i] # "end" => Adjacent(t, p[i], p[i + 1])
  <1>1. P("domtree", DomtreeTask)
    BY DEF DomtreeTask, Adjacent
  <1>2. P("deleted", DeletedTask)
    BY DEF DeletedTask, Adjacent
  <1>3. P("index", IndexTask)
    BY DEF IndexTask, Adjacent
  <1>4. P("direct", DirectTask)
    BY DEF DirectTask, Adjacent
  <1>5. P("delete", DeleteTask)
    BY DEF DeleteTask, Adjacent
  <1>6. P("summary", SummaryTask)
    BY DEF SummaryTask, Adjacent
  <1>7. P("doneOnly", DoneOnlyTask)
    BY DEF DoneOnlyTask, Adjacent
  <1>8. P("context", ContextTask)
    BY DEF ContextTask, Adjacent
  <1> HIDE DEF P
  <1>9. \A t \in Tasks : P(t, Program[t])
    BY <1>1, <1>2, <1>3, <1>4, <1>5, <1>6, <1>7, <1>8 DEF Tasks, Program
  <1>10. QED BY <1>9 DEF P

LEMMA WhereSteps ==
    ASSUME TypeOK, NEW w \in Workers, task[w] # "none", StepOf(w) # "end"
    PROVE  \E r : Adjacent(task[w], StepOf(w), r)
  BY WorkerType, Order DEF StepOf

(* A worker within its program: the others stay where they are, it goes to *)
(* the step that follows or jumps to the end or to the flag.               *)
Jump(w, s) ==
    /\ w \in Workers /\ task[w] # "none" /\ UNCHANGED task
    /\ \A v \in Workers \ {w} : StepOf(v)' = StepOf(v)
    /\ StepOf(w)' = s

LEMMA AdvanceJumps ==
    ASSUME TypeOK, NEW w \in Workers, task[w] # "none", UNCHANGED task, Advance(w),
           StepOf(w) # "end"
    PROVE  \E s : Jump(w, s) /\ Adjacent(task[w], StepOf(w), s)
  <1>1. pc[w] + 1 \in DOMAIN Program[task[w]] /\ pc' = [pc EXCEPT ![w] = pc[w] + 1]
    BY AdvanceMoves
  <1>2. pc \in [Workers -> 0..8] /\ task[w] \in Tasks /\ pc[w] \in DOMAIN Program[task[w]]
    BY WorkerType
  <1>3. StepOf(w)' = Program[task[w]][pc[w] + 1]
    BY <1>1, <1>2 DEF StepOf
  <1>4. \A v \in Workers \ {w} : StepOf(v)' = StepOf(v)
    BY <1>1, <1>2 DEF StepOf
  <1>5. Adjacent(task[w], StepOf(w), StepOf(w)')
    BY <1>2, <1>3, Order DEF StepOf
  <1>6. QED BY <1>4, <1>5 DEF Jump

LEMMA GotoJumps ==
    ASSUME TypeOK, NEW w \in Workers, task[w] # "none", UNCHANGED task, NEW s, Goto(w, s),
           \E i \in DOMAIN Program[task[w]] : Program[task[w]][i] = s
    PROVE  Jump(w, s)
  <1>1. pc' = [pc EXCEPT ![w] = pc'[w]] /\ Program[task[w]][pc'[w]] = s
    BY GotoMoves
  <1>2. pc \in [Workers -> 0..8]
    BY WorkerType
  <1>3. \A v \in Workers \ {w} : pc'[v] = pc[v]
    BY <1>1, <1>2
  <1>4. QED BY <1>1, <1>3 DEF Jump, StepOf

(* The steps of a handler, apart from its beginning and its end. *)
HandlerStep(w) ==
    \/ Lookup(w) \/ SendTask(w) \/ RecordDeletion(w) \/ AcquireLock(w) \/ LoadFile(w)
    \/ ReadChunks(w) \/ WriteStore(w) \/ Notify(w) \/ SetFlag(w) \/ DropStore(w)
    \/ ForgetDeletion(w) \/ FailTask(w)

(* Where such a step leads: to the next one, given the file and its chunks *)
(* where they are looked up, to the end, or with the indexing to its flag. *)
LeadsTo(w, s) ==
    /\ Jump(w, s)
    /\ \/ /\ Adjacent(task[w], StepOf(w), s)
          /\ StepOf(w) = "load" => exists
          /\ StepOf(w) = "read" => "row" \in data
       \/ s = "end"
       \/ task[w] = "index" /\ s = "flag" /\ (~exists \/ IndexMayFail)

LEMMA HandlerSteps ==
    ASSUME TypeOK, NEW w \in Workers, HandlerStep(w)
    PROVE  StepOf(w) # "end" /\ \E s : LeadsTo(w, s)
  <1>1. /\ task[w] # "none" /\ UNCHANGED task /\ StepOf(w) # "end"
    BY DEF HandlerStep, Lookup, SendTask, RecordDeletion, AcquireLock, LoadFile, ReadChunks,
           WriteStore, Notify, SetFlag, DropStore, ForgetDeletion, FailTask, At, StepOf, Stores
  <1>2. ASSUME Goto(w, "end") PROVE \E s : LeadsTo(w, s)
    BY <1>1, <1>2, GotoJumps, EndExists DEF LeadsTo
  <1>3. ASSUME task[w] = "index", Goto(w, "flag"), ~exists \/ IndexMayFail
        PROVE  \E s : LeadsTo(w, s)
    BY <1>1, <1>3, GotoJumps, FlagExists DEF LeadsTo
  <1>4. ASSUME Advance(w), StepOf(w) = "load" => exists, StepOf(w) = "read" => "row" \in data
        PROVE  \E s : LeadsTo(w, s)
    BY <1>1, <1>4, AdvanceJumps DEF LeadsTo
  <1>5. CASE LoadFile(w)
    BY <1>1, <1>2, <1>3, <1>4, <1>5 DEF LoadFile, At, StepOf
  <1>6. CASE ReadChunks(w)
    BY <1>1, <1>2, <1>4, <1>6 DEF ReadChunks, At, StepOf
  <1>7. CASE FailTask(w)
    BY <1>1, <1>2, <1>3, <1>7 DEF FailTask
  <1>8. CASE Lookup(w) \/ AcquireLock(w)
    BY <1>1, <1>2, <1>4, <1>8 DEF Lookup, AcquireLock, At, StepOf
  <1>9. CASE SendTask(w) \/ RecordDeletion(w) \/ WriteStore(w) \/ Notify(w) \/ SetFlag(w)
             \/ DropStore(w) \/ ForgetDeletion(w)
    BY <1>1, <1>4, <1>9 DEF SendTask, RecordDeletion, WriteStore, Notify, SetFlag, DropStore,
                            ForgetDeletion, At, StepOf, Stores
  <1>10. QED BY <1>1, <1>5, <1>6, <1>7, <1>8, <1>9 DEF HandlerStep

(* Every other step of the system. *)
LEMMA StepKinds ==
    ASSUME TypeOK, [Next]_vars
    PROVE  \/ \E w \in Workers : HandlerStep(w)
           \/ \E w \in Workers, t \in Tasks : Take(w, t)
           \/ \E w \in Workers : EndTask(w) \/ Crash(w)
           \/ FileDeleted
           \/ UNCHANGED <<exists, task, pc, flags, data, tombstone, recorded>>
  <1>1. CASE DomtreeReady \/ DirectIndexing
    BY <1>1 DEF DomtreeReady, DirectIndexing, workerVars
  <1>2. ASSUME NEW w \in Workers, RunStep(w) \/ FailTask(w)
        PROVE  HandlerStep(w) \/ EndTask(w) \/ \E t \in Tasks : Take(w, t)
    BY <1>2 DEF RunStep, HandlerStep
  <1>3. ASSUME NEW w \in Workers, Timeout(w)
        PROVE UNCHANGED <<exists, task, pc, flags, data, tombstone, recorded>>
    BY <1>3 DEF Timeout
  <1>4. ASSUME NEW l \in Locks, ExpireLock(l)
        PROVE UNCHANGED <<exists, task, pc, flags, data, tombstone, recorded>>
    BY <1>4 DEF ExpireLock, workerVars
  <1>5. CASE UNCHANGED vars
    BY <1>5 DEF vars, workerVars
  <1>6. QED BY <1>1, <1>2, <1>3, <1>4, <1>5 DEF Next

(* A deletion begins with the event of the file service, and the task that *)
(* empties the stores is sent by the one that recorded the deletion.       *)
LEMMA DeletionsBegin ==
    ASSUME TypeOK, [Next]_vars, NEW t \in {"deleted", "delete"}, queue[t] = 0,
           \A w \in Workers : task[w] # t
    PROVE  /\ \A w \in Workers : task'[w] # t
           /\ \/ queue'[t] = 0
              \/ t = "deleted" /\ FileDeleted
              \/ t = "delete" /\ \E w \in Workers : SendTask(w) /\ At(w, "sendDelete")
  <1>0. /\ queue \in [Tasks -> Nat] /\ task \in [Workers -> Tasks \cup {"none"}]
        /\ t \in Tasks /\ t # "none"
    BY TaskNames DEF TypeOK, Tasks, Program
  <1>1. ASSUME NEW s \in Tasks, s # t, Enqueue(s) PROVE queue'[t] = 0
    BY <1>0, <1>1 DEF Enqueue
  <1>2. ASSUME NEW w \in Workers, NEW s \in Tasks, Take(w, s)
        PROVE  queue'[t] = 0 /\ \A v \in Workers : task'[v] # t
    <2>1. s # t /\ task' = [task EXCEPT ![w] = s] /\ queue' = [queue EXCEPT ![s] = queue[s] - 1]
      BY <1>0, <1>2 DEF Take
    <2>2. QED BY <1>0, <2>1
  <1>3. CASE DomtreeReady \/ FileDeleted \/ DirectIndexing
    BY <1>0, <1>1, <1>3, TaskNames DEF DomtreeReady, FileDeleted, DirectIndexing, workerVars
  <1>4. ASSUME NEW w \in Workers, SendTask(w)
        PROVE  /\ \A v \in Workers : task'[v] # t
               /\ queue'[t] = 0 \/ (t = "delete" /\ At(w, "sendDelete"))
    BY <1>0, <1>1, <1>4, TaskNames DEF SendTask
  <1>5. ASSUME NEW w \in Workers, Notify(w)
        PROVE  queue'[t] = 0 /\ \A v \in Workers : task'[v] # t
    <2>1. queue' = [queue EXCEPT !["context"] = queue["context"] + 1,
                                 !["doneOnly"] = queue["doneOnly"] + 1]
          /\ UNCHANGED task
      BY <1>5 DEF Notify
    <2>2. queue'[t] = queue[t]
      BY <1>0, <2>1, TaskNames
    <2>3. QED BY <1>0, <2>1, <2>2
  <1>6. ASSUME NEW w \in Workers, EndTask(w) \/ Crash(w)
        PROVE  queue'[t] = 0 /\ \A v \in Workers : task'[v] # t
    <2>1. UNCHANGED queue \/ \E s \in Tasks : s # t /\ Enqueue(s)
      <3>1. task[w] \in Tasks \cup {"none"} /\ task[w] # t
        BY <1>0
      <3>2. CASE EndTask(w)
        BY <3>1, <3>2 DEF EndTask, At
      <3>3. CASE Crash(w)
        BY <3>1, <3>3 DEF Crash
      <3>4. QED BY <1>6, <3>2, <3>3
    <2>2. task' = [task EXCEPT ![w] = "none"]
      BY <1>6 DEF EndTask, Crash
    <2>3. QED BY <1>0, <1>1, <2>1, <2>2
  <1>7. ASSUME NEW w \in Workers, Timeout(w)
        PROVE  queue'[t] = 0 /\ \A v \in Workers : task'[v] # t
    <2>1. task[w] \in Tasks /\ task[w] # t /\ Enqueue(task[w]) /\ UNCHANGED task
      BY <1>0, <1>7 DEF Timeout
    <2>2. QED BY <1>1, <2>1
  <1>8. ASSUME NEW w \in Workers,
               \/ Lookup(w) \/ RecordDeletion(w) \/ AcquireLock(w) \/ LoadFile(w)
               \/ ReadChunks(w) \/ WriteStore(w) \/ SetFlag(w) \/ DropStore(w)
               \/ ForgetDeletion(w) \/ FailTask(w)
        PROVE  UNCHANGED <<queue, task>>
    BY <1>8 DEF Lookup, RecordDeletion, AcquireLock, LoadFile, ReadChunks, WriteStore,
                SetFlag, DropStore, ForgetDeletion, FailTask
  <1>9. ASSUME NEW l \in Locks, ExpireLock(l) PROVE UNCHANGED <<queue, task>>
    BY <1>9 DEF ExpireLock, workerVars
  <1>10. CASE UNCHANGED vars
    BY <1>10 DEF vars, workerVars
  <1>11. QED BY <1>2, <1>3, <1>4, <1>5, <1>6, <1>7, <1>8, <1>9, <1>10 DEF Next, RunStep

-----------------------------------------------------------------------------
(* While the file exists nothing of a deletion is waiting or under way. *)
Untouched ==
    exists =>
        /\ ~recorded /\ queue["deleted"] = 0 /\ queue["delete"] = 0
        /\ \A w \in Workers : task[w] \notin {"deleted", "delete"}

(* What an indexing has stored when it arrives at step s. *)
Written(s) ==
    /\ s \in {"es", "vec", "notify", "flag"} => "row" \in data
    /\ s \in {"vec", "notify", "flag"} => "es" \in data
    /\ s \in {"notify", "flag"} => "vec" \in data

IndexersWrote == \A w \in Workers : exists /\ task[w] = "index" => Written(StepOf(w))

StoredInv == TypeOK /\ Untouched /\ IndexersWrote /\ FlagMeansIndexed

LEMMA NextUntouched == TypeOK /\ Untouched /\ [Next]_vars => Untouched'
  <1> SUFFICES ASSUME TypeOK, Untouched, [Next]_vars, exists' PROVE Untouched'
    BY DEF Untouched
  <1>1. exists /\ ~FileDeleted
    <2>1. exists' = exists \/ exists' = FALSE
      BY DEF Next, RunStep, DomtreeReady, FileDeleted, DirectIndexing, Take, Lookup, SendTask,
             RecordDeletion, AcquireLock, LoadFile, ReadChunks, WriteStore, Notify, SetFlag,
             DropStore, ForgetDeletion, EndTask, FailTask, Timeout, Crash, ExpireLock, vars
    <2>2. QED BY <2>1 DEF FileDeleted, TypeOK
  <1>2. ASSUME NEW w \in Workers PROVE task[w] \notin {"deleted", "delete"}
    BY <1>1 DEF Untouched
  <1>3. ASSUME NEW w \in Workers PROVE ~At(w, "record") /\ ~At(w, "sendDelete")
    BY <1>2, WhereSteps DEF At, StepOf, Adjacent
  <1>4. \A t \in {"deleted", "delete"} : queue'[t] = 0 /\ \A w \in Workers : task'[w] # t
    BY <1>1, <1>2, <1>3, DeletionsBegin DEF Untouched
  <1>5. ~recorded'
    <2>1. recorded' = recorded \/ \E w \in Workers : At(w, "record")
      BY DEF Next, RunStep, DomtreeReady, FileDeleted, DirectIndexing, Take, Lookup, SendTask,
             RecordDeletion, AcquireLock, LoadFile, ReadChunks, WriteStore, Notify, SetFlag,
             DropStore, ForgetDeletion, EndTask, FailTask, Timeout, Crash, ExpireLock, vars
    <2>2. QED BY <1>1, <1>3, <2>1 DEF Untouched
  <1>6. QED BY <1>4, <1>5 DEF Untouched

(* As long as nothing is deleted the stores only grow. *)
LEMMA StoresGrow ==
    ASSUME TypeOK, [Next]_vars, \A w \in Workers : task[w] # "delete"
    PROVE  data \subseteq data'
  <1>1. ASSUME NEW w \in Workers PROVE ~DropStore(w)
    BY WhereSteps DEF DropStore, At, StepOf, Adjacent
  <1>2. QED
    BY <1>1 DEF Next, RunStep, DomtreeReady, FileDeleted, DirectIndexing, Take, Lookup, SendTask,
             RecordDeletion, AcquireLock, LoadFile, ReadChunks, WriteStore, Notify, SetFlag,
             ForgetDeletion, EndTask, FailTask, Timeout, Crash, ExpireLock, vars

LEMMA EnterStep ==
    ASSUME TypeOK, NEW w \in Workers, NEW t \in Tasks, Take(w, t)
    PROVE  /\ task' = [task EXCEPT ![w] = t] /\ StepOf(w)' = Program[t][1]
           /\ \A v \in Workers \ {w} : task'[v] = task[v] /\ StepOf(v)' = StepOf(v)
           /\ UNCHANGED <<exists, flags, data, tombstone, recorded>>
  <1>1. /\ task' = [task EXCEPT ![w] = t] /\ pc' = [pc EXCEPT ![w] = 1]
        /\ UNCHANGED <<exists, flags, data, tombstone, recorded>>
    BY DEF Take
  <1>2. pc \in [Workers -> 0..8] /\ task \in [Workers -> Tasks \cup {"none"}]
    BY DEF TypeOK
  <1>3. QED BY <1>1, <1>2 DEF StepOf

LEMMA LeaveStep ==
    ASSUME TypeOK, NEW w \in Workers, EndTask(w) \/ Crash(w)
    PROVE  /\ task' = [task EXCEPT ![w] = "none"] /\ task'[w] = "none"
           /\ \A v \in Workers \ {w} : task'[v] = task[v] /\ StepOf(v)' = StepOf(v)
           /\ UNCHANGED <<exists, flags, data, tombstone, recorded>>
  <1>1. /\ task' = [task EXCEPT ![w] = "none"] /\ pc' = [pc EXCEPT ![w] = 0]
        /\ UNCHANGED <<exists, flags, data, tombstone, recorded>>
    BY DEF EndTask, Crash
  <1>2. pc \in [Workers -> 0..8] /\ task \in [Workers -> Tasks \cup {"none"}]
    BY DEF TypeOK
  <1>3. QED BY <1>1, <1>2 DEF StepOf

(* What a handler step does to the stores. *)
LEMMA HandlerWrites ==
    ASSUME TypeOK, NEW w \in Workers, HandlerStep(w)
    PROVE  /\ exists' = exists
           /\ StepOf(w) \in Stores /\ ~FailTask(w) => data' = data \cup {StepOf(w)}
           /\ "indexed" \in flags' => \/ "indexed" \in flags
                                      \/ task[w] = "index" /\ StepOf(w) = "flag"
  <1>1. exists' = exists
    BY DEF HandlerStep, Lookup, SendTask, RecordDeletion, AcquireLock, LoadFile, ReadChunks,
           WriteStore, Notify, SetFlag, DropStore, ForgetDeletion, FailTask
  <1>2. StepOf(w) \in Stores /\ ~FailTask(w) => data' = data \cup {StepOf(w)}
    BY DEF HandlerStep, Lookup, SendTask, RecordDeletion, AcquireLock, LoadFile, ReadChunks,
           WriteStore, Notify, SetFlag, DropStore, ForgetDeletion, At, StepOf, Stores
  <1>3. "indexed" \in flags' => \/ "indexed" \in flags
                                \/ task[w] = "index" /\ StepOf(w) = "flag"
    <2>1. UNCHANGED flags \/ SetFlag(w)
      BY DEF HandlerStep, Lookup, SendTask, RecordDeletion, AcquireLock, LoadFile, ReadChunks,
             WriteStore, Notify, DropStore, ForgetDeletion, FailTask
    <2>2. CASE SetFlag(w)
      <3>1. StepOf(w) = "flag" /\ task[w] # "none" /\ flags' = flags \cup {FlagOf[task[w]]}
        BY <2>2 DEF SetFlag, At, StepOf
      <3>2. task[w] \in DOMAIN FlagOf
        BY <3>1, WorkerType DEF Shape, StepOf
      <3>3. QED BY <3>1, <3>2 DEF FlagOf
    <2>3. QED BY <2>1, <2>2
  <1>4. QED BY <1>1, <1>2, <1>3

LEMMA NextStored == IndexMayFail = FALSE /\ StoredInv /\ [Next]_vars => StoredInv'
  <1> SUFFICES ASSUME IndexMayFail = FALSE, StoredInv, [Next]_vars
               PROVE  StoredInv'
    OBVIOUS
  <1>0. TypeOK /\ Untouched /\ IndexersWrote /\ FlagMeansIndexed
    BY DEF StoredInv
  <1>1. TypeOK'
    BY <1>0, NextWorkerOK, NextRestOK DEF WorkerOK, RestOK, TypeOK
  <1>2. Untouched'
    BY <1>0, NextUntouched
  <1>3. ASSUME exists PROVE data \subseteq data'
    BY <1>0, <1>3, StoresGrow DEF Untouched
  <1>4. IndexersWrote' /\ FlagMeansIndexed'
    <2>1. ASSUME NEW w \in Workers, HandlerStep(w) PROVE IndexersWrote' /\ FlagMeansIndexed'
      <3>1. PICK s : LeadsTo(w, s)
        BY <1>0, <2>1, HandlerSteps
      <3>2. /\ UNCHANGED task /\ task[w] # "none"
            /\ \A v \in Workers \ {w} : StepOf(v)' = StepOf(v)
            /\ StepOf(w)' = s
        BY <3>1 DEF LeadsTo, Jump
      <3>3. /\ exists' = exists
            /\ StepOf(w) \in Stores /\ ~FailTask(w) => data' = data \cup {StepOf(w)}
            /\ "indexed" \in flags' => \/ "indexed" \in flags
                                       \/ task[w] = "index" /\ StepOf(w) = "flag"
        BY <1>0, <2>1, HandlerWrites
      <3>4. FlagMeansIndexed'
        BY <1>0, <1>3, <3>3 DEF FlagMeansIndexed, IndexersWrote, Written
      <3>5. ASSUME NEW v \in Workers, exists', task'[v] = "index" PROVE Written(StepOf(v))'
        <4>1. CASE v # w
          BY <1>0, <1>3, <3>2, <3>3, <3>5, <4>1 DEF IndexersWrote, Written
        <4>2. CASE v = w
          <5>1. task[w] = "index" /\ Written(StepOf(w))
            BY <1>0, <3>2, <3>3, <3>5, <4>2 DEF IndexersWrote
          <5>2. CASE s = "end"
            BY <3>2, <4>2, <5>2 DEF Written
          <5>3. CASE s # "end"
            <6>1. Adjacent("index", StepOf(w), s)
              BY <3>1, <3>3, <3>5, <5>1, <5>3 DEF LeadsTo
            <6>2. ~FailTask(w)
              <7>1. ASSUME FailTask(w) PROVE StepOf(w)' = "end"
                <8>1. Goto(w, "end")
                  BY <5>1, <7>1 DEF FailTask
                <8>2. QED BY <1>0, <3>2, <8>1, GotoJumps, EndExists DEF Jump
              <7>2. QED BY <3>2, <5>3, <7>1
            <6>3. StepOf(w) \in Stores => data' = data \cup {StepOf(w)}
              BY <3>3, <6>2
            <6>4. Written(s)'
              BY <1>3, <3>3, <3>5, <5>1, <6>1, <6>3 DEF Written, Adjacent, Stores
            <6>5. QED BY <3>2, <4>2, <6>4 DEF Written
          <5>4. QED BY <5>2, <5>3
        <4>3. QED BY <4>1, <4>2
      <3>6. QED BY <3>4, <3>5 DEF IndexersWrote
    <2>2. ASSUME NEW w \in Workers, NEW t \in Tasks, Take(w, t)
          PROVE  IndexersWrote' /\ FlagMeansIndexed'
      <3>1. t = "index" => StepOf(w)' = "lock"
        BY <1>0, <2>2, EnterStep DEF Program, IndexTask
      <3>2. QED
        BY <1>0, <2>2, <3>1, EnterStep, WorkerType
        DEF IndexersWrote, FlagMeansIndexed, Written, TypeOK
    <2>3. ASSUME NEW w \in Workers, EndTask(w) \/ Crash(w)
          PROVE  IndexersWrote' /\ FlagMeansIndexed'
      BY <1>0, <2>3, LeaveStep DEF IndexersWrote, FlagMeansIndexed, Written
    <2>4. CASE FileDeleted
      BY <2>4 DEF FileDeleted, IndexersWrote, FlagMeansIndexed
    <2>5. CASE UNCHANGED <<exists, task, pc, flags, data, tombstone, recorded>>
      BY <1>0, <2>5 DEF IndexersWrote, FlagMeansIndexed, Written, StepOf
    <2>6. QED BY <1>0, <2>1, <2>2, <2>3, <2>4, <2>5, StepKinds
  <1>5. QED BY <1>1, <1>2, <1>4 DEF StoredInv

(* FlagMeansIndexed of FileLifecycle, as long as no indexing raises (what  *)
(* custom_exception_handler swallows lets the flag be set all the same):   *)
(* a worker that sets the flag has stored rows, index and vectors, and     *)
(* none of it goes while the file exists, whatever the other workers do.   *)
THEOREM FlaggedIsIndexed == IndexMayFail = FALSE => (Spec => []FlagMeansIndexed)
  <1> SUFFICES ASSUME IndexMayFail = FALSE PROVE Spec => []FlagMeansIndexed
    OBVIOUS
  <1>1. Init => StoredInv
    <2>1. Init => Untouched
      BY TaskNames DEF Init, Untouched
    <2>2. Init => IndexersWrote /\ FlagMeansIndexed
      BY DEF Init, IndexersWrote, FlagMeansIndexed
    <2>3. QED BY <2>1, <2>2, InitType DEF StoredInv
  <1>2. StoredInv /\ [Next]_vars => StoredInv'
    BY NextStored
  <1>3. StoredInv => FlagMeansIndexed
    BY DEF StoredInv
  <1>4. QED BY <1>1, <1>2, <1>3, PTL DEF Spec

-----------------------------------------------------------------------------
(* One worker: the tasks of the file run one after the other. *)
OneWorker == \A v, w \in Workers : v = w

(* Until the deletion is recorded no task to empty the stores was sent. *)
Unsent ==
    ~recorded =>
        /\ queue["delete"] = 0
        /\ \A w \in Workers :
              task[w] # "delete" /\ (task[w] = "deleted" => StepOf(w) # "sendDelete")

(* What builds the index began before the deletion was recorded, and       *)
(* vectors follow rows.                                                    *)
BuildInv == \A w \in Workers : Building(w) => ~recorded /\ (StepOf(w) # "row" => "row" \in data)

ContextInv ==
    \A w \in Workers :
        task[w] = "context" /\ StepOf(w) \in {"ctxVec", "ctxEs", "ctxRow"} => "row" \in data

(* What a deletion has emptied when it arrives at step s. *)
Dropped(s) ==
    /\ s \in {"dropVec", "dropEs", "forget"} => data \cap {"row", "ctxRow"} = {}
    /\ s \in {"dropEs", "forget"} => data \cap {"vec", "ctxVec"} = {}
    /\ s = "forget" => data \cap {"es", "ctxEs"} = {}

DropInv == \A w \in Workers : task[w] = "delete" => Dropped(StepOf(w))

VectorAfterRow == "vec" \in data => "row" \in data \/ recorded

SoloRest == BuildInv /\ ContextInv /\ DropInv /\ VectorAfterRow /\ HiddenOrErased

SoloInv == TypeOK /\ Untouched /\ Unsent /\ SoloRest

LEMMA NextUnsent == TypeOK /\ Unsent /\ [Next]_vars => Unsent'
  <1> SUFFICES ASSUME TypeOK, Unsent, [Next]_vars, ~recorded' PROVE Unsent'
    BY DEF Unsent
  <1>1. ~recorded /\ \A w \in Workers : ~RecordDeletion(w)
    <2>1. recorded' = recorded \/ \E w \in Workers : RecordDeletion(w)
      BY DEF Next, RunStep, DomtreeReady, FileDeleted, DirectIndexing, Take, Lookup, SendTask,
             AcquireLock, LoadFile, ReadChunks, WriteStore, Notify, SetFlag,
             DropStore, ForgetDeletion, EndTask, FailTask, Timeout, Crash, ExpireLock, vars
    <2>2. QED BY <2>1 DEF RecordDeletion
  <1>2. ASSUME NEW w \in Workers
        PROVE  task[w] # "delete" /\ (task[w] = "deleted" => StepOf(w) # "sendDelete")
    BY <1>1 DEF Unsent
  <1>3. ASSUME NEW w \in Workers PROVE ~At(w, "sendDelete")
    BY <1>2, WhereSteps DEF At, StepOf, Adjacent
  <1>4. queue'["delete"] = 0 /\ \A w \in Workers : task'[w] # "delete"
    BY <1>1, <1>2, <1>3, DeletionsBegin DEF Unsent
  <1>5. ASSUME NEW v \in Workers, task'[v] = "deleted" PROVE StepOf(v)' # "sendDelete"
    <2>1. ASSUME NEW w \in Workers, HandlerStep(w) PROVE StepOf(v)' # "sendDelete"
      <3>1. PICK s : LeadsTo(w, s)
        BY <2>1, HandlerSteps
      <3>2. UNCHANGED task /\ (v # w => StepOf(v)' = StepOf(v)) /\ StepOf(w)' = s
        BY <3>1 DEF LeadsTo, Jump
      <3>3. CASE v # w
        BY <1>2, <1>5, <3>2, <3>3
      <3>4. CASE v = w /\ s = "sendDelete"
        <4>1. StepOf(w) = "record" /\ task[w] = "deleted"
          BY <1>5, <3>1, <3>2, <3>4 DEF LeadsTo, Adjacent
        <4>2. RecordDeletion(w) \/ FailTask(w)
          BY <1>1, <2>1, <4>1 DEF HandlerStep, Lookup, SendTask, AcquireLock, LoadFile, ReadChunks,
                 WriteStore, Notify, SetFlag, DropStore, ForgetDeletion, At, StepOf, Stores
        <4>3. Goto(w, "end")
          BY <1>1, <4>1, <4>2 DEF FailTask
        <4>4. task[w] # "none" /\ UNCHANGED task
          BY <3>2, <4>1
        <4>5. Jump(w, "end")
          BY <4>3, <4>4, GotoJumps, EndExists
        <4>6. QED BY <3>2, <3>4, <4>5 DEF Jump
      <3>5. QED BY <3>2, <3>3, <3>4
    <2>2. ASSUME NEW w \in Workers, NEW t \in Tasks, Take(w, t) PROVE StepOf(v)' # "sendDelete"
      <3>1. t = "deleted" => StepOf(w)' = "record"
        BY <2>2, EnterStep DEF Program, DeletedTask
      <3>2. QED BY <1>2, <1>5, <2>2, <3>1, EnterStep, WorkerType DEF TypeOK
    <2>3. ASSUME NEW w \in Workers, EndTask(w) \/ Crash(w) PROVE StepOf(v)' # "sendDelete"
      BY <1>2, <1>5, <2>3, LeaveStep
    <2>4. CASE FileDeleted
      BY <1>2, <1>5, <2>4 DEF FileDeleted, workerVars, StepOf
    <2>5. CASE UNCHANGED <<exists, task, pc, flags, data, tombstone, recorded>>
      BY <1>2, <1>5, <2>5 DEF StepOf
    <2>6. QED BY <2>1, <2>2, <2>3, <2>4, <2>5, StepKinds
  <1>6. QED BY <1>4, <1>5 DEF Unsent

(* What a handler step does to the stores and to the record of the deletion. *)
Quiet(w) ==
    /\ UNCHANGED <<data, tombstone, recorded>>
    /\ \/ StepOf(w)' \in {"end", "flag"}
       \/ StepOf(w) \notin Stores \cup {"record", "forget", "dropRows", "dropVec", "dropEs"}
Writes(w) ==
    StepOf(w) \in Stores /\ data' = data \cup {StepOf(w)} /\ UNCHANGED <<tombstone, recorded>>
Drops(w) ==
    /\ \/ StepOf(w) = "dropRows" /\ data' = data \ {"row", "ctxRow", "meta"}
       \/ StepOf(w) = "dropVec" /\ data' = data \ {"vec", "ctxVec"}
       \/ StepOf(w) = "dropEs" /\ data' = data \ {"es", "ctxEs"}
    /\ UNCHANGED <<tombstone, recorded>>
Records(w) == StepOf(w) = "record" /\ tombstone' /\ recorded' /\ UNCHANGED data
Forgets(w) == StepOf(w) = "forget" /\ ~tombstone' /\ UNCHANGED <<data, recorded>>

LEMMA HandlerEffects ==
    ASSUME TypeOK, NEW w \in Workers, HandlerStep(w)
    PROVE  Quiet(w) \/ Writes(w) \/ Drops(w) \/ Records(w) \/ Forgets(w)
  <1>1. task[w] # "none" /\ UNCHANGED task
    BY DEF HandlerStep, Lookup, SendTask, RecordDeletion, AcquireLock, LoadFile, ReadChunks,
           WriteStore, Notify, SetFlag, DropStore, ForgetDeletion, FailTask, At
  <1>2. CASE FailTask(w)
    <2>1. Goto(w, "end") \/ (task[w] = "index" /\ Goto(w, "flag"))
      BY <1>2 DEF FailTask
    <2>2. StepOf(w)' \in {"end", "flag"}
      BY <1>1, <2>1, GotoJumps, EndExists, FlagExists DEF Jump
    <2>3. QED BY <1>2, <2>2 DEF FailTask, Quiet
  <1>3. CASE WriteStore(w)
    BY <1>3 DEF WriteStore, Writes
  <1>4. CASE DropStore(w)
    BY <1>4 DEF DropStore, At, StepOf, Drops
  <1>5. CASE RecordDeletion(w)
    BY <1>5 DEF RecordDeletion, At, StepOf, Records
  <1>6. CASE ForgetDeletion(w)
    BY <1>6 DEF ForgetDeletion, At, StepOf, Forgets
  <1>7. CASE Lookup(w) \/ SendTask(w) \/ AcquireLock(w) \/ LoadFile(w) \/ ReadChunks(w)
             \/ Notify(w) \/ SetFlag(w)
    BY <1>7 DEF Lookup, SendTask, AcquireLock, LoadFile, ReadChunks, Notify, SetFlag,
                At, StepOf, Quiet, Stores
  <1>8. QED BY <1>2, <1>3, <1>4, <1>5, <1>6, <1>7 DEF HandlerStep

LEMMA HandlerSolo ==
    ASSUME OneWorker, SoloInv, NEW w \in Workers, HandlerStep(w)
    PROVE  SoloRest'
  <1>0. /\ TypeOK /\ Untouched /\ Unsent /\ BuildInv /\ ContextInv /\ DropInv /\ VectorAfterRow
        /\ HiddenOrErased /\ \A v \in Workers : v = w
        /\ exists \in BOOLEAN /\ tombstone \in BOOLEAN /\ recorded \in BOOLEAN
    BY DEF SoloInv, SoloRest, OneWorker, TypeOK
  <1>1. PICK s : LeadsTo(w, s)
    BY <1>0, HandlerSteps
  <1>2. UNCHANGED task /\ task[w] # "none" /\ StepOf(w)' = s /\ StepOf(w) # "end"
    BY <1>0, <1>1, HandlerSteps DEF LeadsTo, Jump
  <1>3. exists' = exists
    BY <1>0, HandlerWrites
  <1>4. Quiet(w) \/ Writes(w) \/ Drops(w) \/ Records(w) \/ Forgets(w)
    BY <1>0, HandlerEffects
  <1>5. \E r : Adjacent(task[w], StepOf(w), r)
    BY <1>0, <1>2, WhereSteps
  <1>6. /\ Building(w) => ~recorded /\ (StepOf(w) # "row" => "row" \in data)
        /\ task[w] = "context" /\ StepOf(w) \in {"ctxVec", "ctxEs", "ctxRow"} => "row" \in data
        /\ task[w] = "delete" => Dropped(StepOf(w)) /\ recorded
        /\ task[w] \in {"deleted", "delete"} => ~exists
        /\ exists => ~recorded
        /\ task[w] = "deleted" /\ StepOf(w) = "sendDelete" => recorded
    BY <1>0 DEF BuildInv, ContextInv, DropInv, Untouched, Unsent
  <1>7. BuildInv'
    <2> SUFFICES ASSUME task[w] \in {"index", "direct"}, s \in {"row", "es", "vec", "notify"}
                 PROVE  ~recorded' /\ (s # "row" => "row" \in data')
      BY <1>0, <1>2 DEF BuildInv, Building
    <2>1. Adjacent(task[w], StepOf(w), s) /\ (StepOf(w) = "load" => exists)
      BY <1>1 DEF LeadsTo
    <2>2. StepOf(w) \in {"load", "row", "es", "vec"} /\ (StepOf(w) = "load" <=> s = "row")
      BY <2>1 DEF Adjacent
    <2>3. ~recorded /\ (StepOf(w) \in {"es", "vec"} => "row" \in data)
      BY <1>6, <2>1, <2>2 DEF Building
    <2>4. UNCHANGED recorded /\ (Quiet(w) \/ Writes(w))
      BY <1>4, <2>2 DEF Quiet, Writes, Drops, Records, Forgets
    <2>5. StepOf(w) # "load" => data' = data \cup {StepOf(w)}
      BY <1>2, <2>2, <2>4 DEF Quiet, Writes, Stores
    <2>6. QED BY <2>2, <2>3, <2>4, <2>5
  <1>8. ContextInv'
    <2> SUFFICES ASSUME task[w] = "context", s \in {"ctxVec", "ctxEs", "ctxRow"}
                 PROVE  "row" \in data'
      BY <1>0, <1>2 DEF ContextInv
    <2>1. Adjacent(task[w], StepOf(w), s) /\ (StepOf(w) = "read" => "row" \in data)
      BY <1>1 DEF LeadsTo
    <2>2. StepOf(w) \in {"read", "ctxVec", "ctxEs"}
      BY <2>1 DEF Adjacent
    <2>3. data \subseteq data'
      BY <1>4, <2>2 DEF Quiet, Writes, Drops, Records, Forgets
    <2>4. QED BY <1>6, <2>1, <2>2, <2>3
  <1>9. DropInv'
    <2> SUFFICES ASSUME task[w] = "delete" PROVE Dropped(s)'
      BY <1>0, <1>2 DEF DropInv, Dropped
    <2>1. CASE s = "end"
      BY <2>1 DEF Dropped
    <2>2. CASE s # "end"
      <3>1. Adjacent("delete", StepOf(w), s)
        BY <1>1, <2>2 DEF LeadsTo
      <3>2. /\ StepOf(w) \in {"lock", "dropRows", "dropVec", "dropEs"}
            /\ (s = "dropVec") = (StepOf(w) = "dropRows")
            /\ (s = "dropEs") = (StepOf(w) = "dropVec")
            /\ (s = "forget") = (StepOf(w) = "dropEs")
            /\ s # "flag"
        BY <2>2, <3>1 DEF Adjacent
      <3>3. (Quiet(w) /\ StepOf(w) = "lock") \/ Drops(w)
        BY <1>2, <1>4, <2>2, <3>2 DEF Quiet, Writes, Records, Forgets, Stores
      <3>4. QED BY <1>6, <3>2, <3>3 DEF Dropped, Drops
    <2>3. QED BY <2>1, <2>2
  <1>10. VectorAfterRow'
    <2>1. CASE Quiet(w) \/ Records(w) \/ Forgets(w)
      BY <1>0, <2>1 DEF Quiet, Records, Forgets, VectorAfterRow
    <2>2. CASE Writes(w)
      <3>1. StepOf(w) = "vec" => "row" \in data
        BY <1>5, <1>6 DEF Adjacent, Building
      <3>2. QED BY <1>0, <2>2, <3>1 DEF Writes, VectorAfterRow
    <2>3. CASE Drops(w)
      <3>1. task[w] = "delete"
        BY <1>5, <2>3 DEF Drops, Adjacent
      <3>2. QED BY <1>6, <2>3, <3>1 DEF Drops, VectorAfterRow
    <2>4. QED BY <1>4, <2>1, <2>2, <2>3
  <1>11. HiddenOrErased'
    <2>1. CASE Quiet(w)
      BY <1>0, <2>1 DEF Quiet, HiddenOrErased
    <2>2. CASE Records(w)
      BY <2>2 DEF Records, HiddenOrErased
    <2>3. CASE Drops(w)
      BY <1>0, <2>3 DEF Drops, HiddenOrErased
    <2>4. CASE Forgets(w)
      <3>1. task[w] = "delete"
        BY <1>5, <2>4 DEF Forgets, Adjacent
      <3>2. data \cap Searchable = {}
        BY <1>6, <2>4, <3>1 DEF Forgets, Dropped, Searchable
      <3>3. QED BY <2>4, <3>2 DEF Forgets, HiddenOrErased
    <2>5. CASE Writes(w)
      <3>1. StepOf(w) \in Searchable /\ recorded => "row" \in data
        BY <1>5, <1>6 DEF Adjacent, Searchable, Building
      <3>2. "row" \in Searchable
        BY DEF Searchable
      <3>3. recorded /\ ~tombstone => StepOf(w) \notin Searchable
        BY <1>0, <3>1, <3>2 DEF HiddenOrErased
      <3>4. QED BY <1>0, <2>5, <3>3 DEF Writes, HiddenOrErased
    <2>6. QED BY <1>4, <2>1, <2>2, <2>3, <2>4, <2>5
  <1>12. QED BY <1>7, <1>8, <1>9, <1>10, <1>11 DEF SoloRest

LEMMA NextSolo == OneWorker /\ SoloInv /\ [Next]_vars => SoloInv'
  <1> SUFFICES ASSUME OneWorker, SoloInv, [Next]_vars PROVE SoloInv'
    OBVIOUS
  <1>0. /\ TypeOK /\ Untouched /\ Unsent /\ BuildInv /\ ContextInv /\ DropInv /\ VectorAfterRow
        /\ HiddenOrErased
    BY DEF SoloInv, SoloRest
  <1>1. TypeOK' /\ Untouched' /\ Unsent'
    BY <1>0, NextWorkerOK, NextRestOK, NextUntouched, NextUnsent DEF WorkerOK, RestOK, TypeOK
  <1>2. ASSUME NEW w \in Workers, HandlerStep(w) PROVE SoloRest'
    BY <1>2, HandlerSolo DEF SoloRest
  <1>3. ASSUME NEW w \in Workers, NEW t \in Tasks, Take(w, t) PROVE SoloRest'
    <2>1. Program[t][1] \notin {"es", "vec", "notify", "ctxVec", "ctxEs", "ctxRow", "row",
                                "dropVec", "dropEs", "forget"}
      BY DEF Tasks, Program, DomtreeTask, DeletedTask, IndexTask, DirectTask, DeleteTask,
             SummaryTask, DoneOnlyTask, ContextTask
    <2>2. /\ StepOf(w)' = Program[t][1]
          /\ \A v \in Workers \ {w} : task'[v] = task[v] /\ StepOf(v)' = StepOf(v)
          /\ UNCHANGED <<data, tombstone, recorded>>
      BY <1>0, <1>3, EnterStep
    <2>3. QED
      BY <1>0, <2>1, <2>2 DEF SoloRest, BuildInv, Building, ContextInv, DropInv, Dropped, VectorAfterRow,
                              HiddenOrErased
  <1>4. ASSUME NEW w \in Workers, EndTask(w) \/ Crash(w) PROVE SoloRest'
    <2>1. /\ task'[w] = "none"
          /\ \A v \in Workers \ {w} : task'[v] = task[v] /\ StepOf(v)' = StepOf(v)
          /\ UNCHANGED <<data, tombstone, recorded>>
      BY <1>0, <1>4, LeaveStep
    <2>2. \A v \in Workers : task'[v] = "none"
      BY <2>1 DEF OneWorker
    <2>3. QED
      BY <1>0, <2>1, <2>2 DEF SoloRest, BuildInv, Building, ContextInv, DropInv,
                                     Dropped, VectorAfterRow, HiddenOrErased
  <1>5. ASSUME FileDeleted \/ UNCHANGED <<exists, task, pc, flags, data, tombstone, recorded>>
        PROVE  SoloRest'
    <2>1. UNCHANGED <<task, pc, data, tombstone, recorded>>
      BY <1>5 DEF FileDeleted, workerVars
    <2>2. \A v \in Workers : task'[v] = task[v] /\ StepOf(v)' = StepOf(v)
      BY <2>1 DEF StepOf
    <2>3. BuildInv' /\ ContextInv'
      BY <1>0, <2>1, <2>2 DEF BuildInv, Building, ContextInv
    <2>4. DropInv' /\ VectorAfterRow' /\ HiddenOrErased'
      BY <1>0, <2>1, <2>2 DEF DropInv, Dropped, VectorAfterRow, HiddenOrErased
    <2>5. QED BY <2>3, <2>4 DEF SoloRest
  <1>6. SoloRest'
    <2>1. \/ \E w \in Workers : HandlerStep(w)
          \/ \E w \in Workers, t \in Tasks : Take(w, t)
          \/ \E w \in Workers : EndTask(w) \/ Crash(w)
          \/ FileDeleted
          \/ UNCHANGED <<exists, task, pc, flags, data, tombstone, recorded>>
      BY <1>0, StepKinds
    <2>2. QED BY <1>2, <1>3, <1>4, <1>5, <2>1
  <1>7. QED BY <1>1, <1>6 DEF SoloInv, SoloRest

LEMMA InitSolo == Init => SoloInv
  <1>1. Init => Untouched /\ Unsent
    BY TaskNames DEF Init, Untouched, Unsent
  <1>2. Init => /\ BuildInv /\ ContextInv /\ DropInv /\ VectorAfterRow
                /\ HiddenOrErased
    BY DEF Init, BuildInv, Building, ContextInv, DropInv, VectorAfterRow, HiddenOrErased
  <1>3. QED BY <1>1, <1>2, InitType DEF SoloInv, SoloRest

(* HiddenOrErased of FileLifecycle, where one worker runs the tasks one    *)
(* after the other: from record_deleted_file to remove_deleted_files_record *)
(* retrieval filters the file out or there is nothing left of it, whatever *)
(* raises, dies or is delivered again in between, and no late indexing or  *)
(* context summary brings anything back.  (FileLifecycle_race shows that   *)
(* two workers break it.)                                                  *)
THEOREM HiddenUntilErased == OneWorker => (Spec => []HiddenOrErased)
  <1> SUFFICES ASSUME OneWorker PROVE Spec => []HiddenOrErased
    OBVIOUS
  <1>0. SoloInv /\ [Next]_vars => SoloInv'
    BY NextSolo
  <1>1. SoloInv => HiddenOrErased
    BY DEF SoloInv, SoloRest
  <1>2. QED BY InitSolo, <1>0, <1>1, PTL DEF Spec

(* VectorHasRow of FileLifecycle, where one worker runs the tasks one      *)
(* after the other: file_indexing writes rows before vectors, and delete_file *)
(* drops the rows first, but then the record of the deletion stands.       *)
THEOREM VectorsHaveRows == OneWorker => (Spec => []VectorHasRow)
  <1> SUFFICES ASSUME OneWorker PROVE Spec => []VectorHasRow
    OBVIOUS
  <1>0. SoloInv /\ [Next]_vars => SoloInv'
    BY NextSolo
  <1>1. SoloInv => VectorHasRow
    BY DEF SoloInv, SoloRest, VectorAfterRow, HiddenOrErased, VectorHasRow, Searchable
  <1>2. QED BY InitSolo, <1>0, <1>1, PTL DEF Spec

=============================================================================
