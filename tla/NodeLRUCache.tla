---------------------------- MODULE NodeLRUCache ----------------------------
(***************************************************************************)
(* The node cache of a process (bella_rag/utils/cache_util.py): an ordered *)
(* dictionary of files with their nodes and a counter of the nodes.  It    *)
(* has no lock, and the threads of retrieval, of the chunk endpoints and   *)
(* of the task callbacks all call it.  A step is what the interpreter does *)
(* without switching threads: one dictionary operation, or one half of an  *)
(* augmented assignment to node_count.  A key that another thread took     *)
(* away raises KeyError, which ends the call.                              *)
(***************************************************************************)
EXTENDS Integers, Sequences, FiniteSets, SequencesExt

CONSTANTS Threads,
          Files, Nodes,
          FileOf,    \* [Nodes -> Files]: the id of a node begins with its file's
          Capacity,  \* NodeLRUCache.capacity, in nodes
          MaxCalls   \* bound: calls of a run

ASSUME NodeLRUCacheAssumption ==
    /\ IsFiniteSet(Nodes)
    /\ FileOf \in [Nodes -> Files]
    /\ {Capacity, MaxCalls} \subseteq Nat

VARIABLES order,       \* the keys of the dictionary, the least recently used first
          nodes,       \* the nodes of all its values
          node_count,  \* the counter
          pc,          \* where a thread is in get, put or remove
          file, new,   \* the arguments of its call
          count,       \* its update of the counter: what it read, what it adds, what follows
          raised,      \* history: the methods that raised KeyError
          overlapped,  \* history: two calls that change the cache overlapped
          shown,       \* history: the cache when a call last returned
          calls        \* the calls so far

cacheVars == <<order, nodes, node_count>>
callVars == <<pc, file, new, count>>
historyVars == <<raised, overlapped, shown, calls>>
vars == <<cacheVars, callVars, historyVars>>

NodesOf(f) == {n \in Nodes : FileOf[n] = f}
Entry(f) == nodes \cap NodesOf(f)
IsCached(f) == f \in ToSet(order)

PutSteps == {"put", "old", "store", "touch", "evict"}
CountSteps == {"load", "add"}
Changing == PutSteps \cup CountSteps \cup {"remove"}
Step == Changing \cup {"idle", "get"}

TypeOK ==
    /\ order \in Seq(Files)
    /\ \A i, j \in DOMAIN order : order[i] = order[j] => i = j
    /\ nodes \subseteq Nodes
    /\ node_count \in Int
    /\ pc \in [Threads -> Step]
    /\ file \in [Threads -> Files]
    /\ new \in [Threads -> SUBSET Nodes]
    /\ count \in [Threads -> [read : Int, delta : Int, then : {"idle", "store", "touch", "evict"}]]
    /\ raised \subseteq {"get", "put", "remove"}
    /\ overlapped \in BOOLEAN

Init ==
    /\ order = <<>> /\ nodes = {} /\ node_count = 0
    /\ pc = [t \in Threads |-> "idle"]
    /\ file \in [Threads -> Files]
    /\ new = [t \in Threads |-> {}]
    /\ count = [t \in Threads |-> [read |-> 0, delta |-> 0, then |-> "idle"]]
    /\ raised = {} /\ overlapped = FALSE /\ calls = 0
    /\ shown = [order |-> <<>>, nodes |-> {}]

Goto(t, s) == pc' = [pc EXCEPT ![t] = s]

(* The call of a thread returns. *)
Return(t) ==
    /\ Goto(t, "idle")
    /\ shown' = [order |-> order', nodes |-> nodes']
Raise(t, method) ==
    /\ raised' = raised \cup {method}
    /\ UNCHANGED <<cacheVars, file, new, count, overlapped, calls>>
    /\ Return(t)

(* node_count += delta, then the step s: the counter is read before it is  *)
(* written.                                                                *)
Add(t, delta, s) ==
    /\ Goto(t, "load")
    /\ count' = [count EXCEPT ![t].delta = delta, ![t].then = s]

(* OrderedDict.move_to_end *)
MoveToEnd(f) == \E i \in DOMAIN order : order[i] = f /\ order' = Append(RemoveAt(order, i), f)
Pop(f) ==
    /\ \E i \in DOMAIN order : order[i] = f /\ order' = RemoveAt(order, i)
    /\ nodes' = nodes \ NodesOf(f)

-----------------------------------------------------------------------------
(* A call begins with its first test: get of a missing node, put of more   *)
(* nodes than fit and remove of a missing file return at once.             *)
Call(t, f, method, goes) ==
    /\ pc[t] = "idle" /\ calls < MaxCalls
    /\ calls' = calls + 1
    /\ pc' = IF goes THEN [pc EXCEPT ![t] = method] ELSE pc
    /\ file' = [file EXCEPT ![t] = f]
    /\ overlapped' = (overlapped \/ (goes /\ method # "get" /\ \E s \in Threads : pc[s] \in Changing))
    /\ UNCHANGED <<cacheVars, count, raised, shown>>

CallGet(t, n) == Call(t, FileOf[n], "get", n \in nodes) /\ UNCHANGED new
CallRemove(t, f) == Call(t, f, "remove", IsCached(f)) /\ UNCHANGED new
CallPut(t, f, ns) ==
    /\ Call(t, f, "put", Cardinality(ns) <= Capacity)
    /\ new' = [new EXCEPT ![t] = ns]

(* get: the hit becomes the most recently used file. *)
GetTouch(t) ==
    /\ pc[t] = "get" /\ IsCached(file[t])
    /\ MoveToEnd(file[t])
    /\ UNCHANGED <<nodes, node_count, file, new, count, raised, overlapped, calls>>
    /\ Return(t)

(* put: if the file is cached, its nodes are subtracted from the counter. *)
FindOldNever(t) ==                                         \* mutant of FindOld
    /\ pc[t] = "put"
    /\ Goto(t, "store")
    /\ UNCHANGED <<cacheVars, file, new, count, historyVars>>
FindOld(t) ==
    /\ pc[t] = "put"
    /\ Goto(t, IF IsCached(file[t]) THEN "old" ELSE "store")
    /\ UNCHANGED <<cacheVars, file, new, count, historyVars>>

SubtractOld(t) ==
    /\ pc[t] = "old" /\ IsCached(file[t])
    /\ Add(t, -Cardinality(Entry(file[t])), "store")
    /\ UNCHANGED <<cacheVars, file, new, historyVars>>

(* put: the nodes are stored and counted; a new key goes to the end. *)
Store(t) ==
    /\ pc[t] = "store"
    /\ nodes' = (nodes \ NodesOf(file[t])) \cup new[t]
    /\ order' = IF IsCached(file[t]) THEN order ELSE Append(order, file[t])
    /\ Add(t, Cardinality(new[t]), "touch")
    /\ UNCHANGED <<node_count, file, new, historyVars>>

(* put: the file becomes the most recently used one. *)
PutTouchNot(t) ==                                          \* mutant of PutTouch
    /\ pc[t] = "touch" /\ IsCached(file[t])
    /\ Goto(t, "evict")
    /\ UNCHANGED <<cacheVars, file, new, count, historyVars>>
PutTouch(t) ==
    /\ pc[t] = "touch" /\ IsCached(file[t])
    /\ MoveToEnd(file[t])
    /\ Goto(t, "evict")
    /\ UNCHANGED <<nodes, node_count, file, new, count, historyVars>>

(* put: while the counter exceeds the capacity, the oldest file is popped. *)
EvictUncounted(t) ==                                       \* mutant of Evict
    /\ pc[t] = "evict" /\ node_count > Capacity
    /\ order # <<>>
    /\ order' = Tail(order) /\ nodes' = nodes \ NodesOf(Head(order))
    /\ UNCHANGED <<node_count, callVars, historyVars>>
Evict(t) ==
    /\ pc[t] = "evict" /\ node_count > Capacity
    /\ order # <<>>
    /\ Add(t, -Cardinality(Entry(Head(order))), "evict")
    /\ order' = Tail(order) /\ nodes' = nodes \ NodesOf(Head(order))
    /\ UNCHANGED <<node_count, file, new, historyVars>>

EndPut(t) ==
    /\ pc[t] = "evict" /\ node_count <= Capacity
    /\ UNCHANGED <<cacheVars, file, new, count, raised, overlapped, calls>>
    /\ Return(t)

(* remove: the file is popped and its nodes subtracted. *)
RemovePop(t) ==
    /\ pc[t] = "remove" /\ IsCached(file[t])
    /\ Add(t, -Cardinality(Entry(file[t])), "idle")
    /\ Pop(file[t])
    /\ UNCHANGED <<node_count, file, new, historyVars>>

(* The two halves of an augmented assignment to node_count. *)
LoadCount(t) ==
    /\ pc[t] = "load"
    /\ count' = [count EXCEPT ![t].read = node_count]
    /\ Goto(t, "add")
    /\ UNCHANGED <<cacheVars, file, new, historyVars>>

StoreCount(t) ==
    /\ pc[t] = "add"
    /\ node_count' = count[t].read + count[t].delta
    /\ UNCHANGED <<order, nodes, file, new, count, raised, overlapped, calls>>
    /\ IF count[t].then = "idle" THEN Return(t) ELSE Goto(t, count[t].then) /\ UNCHANGED shown

(* KeyError: the key went away, or nothing is left to pop. *)
RaiseMissing(t) ==
    /\ ~IsCached(file[t])
    /\ \/ pc[t] = "get" /\ Raise(t, "get")
       \/ pc[t] \in {"old", "touch"} /\ Raise(t, "put")
       \/ pc[t] = "remove" /\ Raise(t, "remove")
RaiseEmpty(t) ==
    /\ pc[t] = "evict" /\ node_count > Capacity /\ order = <<>>
    /\ Raise(t, "put")

-----------------------------------------------------------------------------
Next ==
    \E t \in Threads :
        \/ \E n \in Nodes : CallGet(t, n)
        \/ \E f \in Files : CallRemove(t, f) \/ \E ns \in SUBSET NodesOf(f) : CallPut(t, f, ns)
        \/ GetTouch(t)
        \/ FindOld(t) \/ SubtractOld(t) \/ Store(t) \/ PutTouch(t) \/ Evict(t) \/ EndPut(t)
        \/ RemovePop(t)
        \/ LoadCount(t) \/ StoreCount(t)
        \/ RaiseMissing(t) \/ RaiseEmpty(t)

Spec == Init /\ [][Next]_vars

-----------------------------------------------------------------------------
Quiet == \A t \in Threads : pc[t] \notin Changing

(* As long as two calls that change the cache never overlapped, the        *)
(* counter is the number of cached nodes whenever no such call is under    *)
(* way, and within the capacity: put subtracts what it replaces and what   *)
(* it evicts.  Gets may run next to anything.                              *)
CountExact ==
    ~overlapped /\ Quiet => node_count = Cardinality(nodes) /\ node_count <= Capacity

(* Under the same condition put never finds its file gone nor the cache    *)
(* empty with nodes left to count, and remove never finds its file gone.   *)
OnlyGetRaises == ~overlapped => raised \subseteq {"get"}

(* Seen after its calls, the cache of a single thread is an LRU cache. *)
LRU == INSTANCE LRUCache WITH order <- shown.order, nodes <- shown.nodes
ImplementsLRU == LRU!Spec
=============================================================================
