------------------------- MODULE NodeLRUCacheProofs -------------------------
(***************************************************************************)
(* The counter of the node cache, for any number of threads, files and     *)
(* nodes, any capacity and any number of calls, and the refinement of      *)
(* LRUCache for one thread.                                                *)
(***************************************************************************)
EXTENDS NodeLRUCache, FiniteSetTheorems, SequenceTheorems, TLAPS

(* Taking one element out of a sequence. *)
LEMMA RemoveAtIs ==
    ASSUME NEW S, NEW s \in Seq(S), NEW i \in DOMAIN s
    PROVE  /\ RemoveAt(s, i) \in Seq(S)
           /\ Len(RemoveAt(s, i)) = Len(s) - 1
           /\ \A j \in 1..(Len(s) - 1) : RemoveAt(s, i)[j] = IF j < i THEN s[j] ELSE s[j + 1]
<1>1. i \in 1..Len(s) /\ Len(s) \in Nat
    OBVIOUS
<1> DEFINE a == SubSeq(s, 1, i - 1)
           b == SubSeq(s, i + 1, Len(s))
<1>2. a \in Seq(S) /\ Len(a) = i - 1 /\ \A j \in 1..(i - 1) : a[j] = s[j]
    BY <1>1, SubSeqProperties
<1>3. b \in Seq(S) /\ Len(b) = Len(s) - i /\ \A j \in 1..(Len(s) - i) : b[j] = s[i + j]
    BY <1>1, SubSeqProperties
<1>4. /\ a \o b \in Seq(S)
      /\ Len(a \o b) = Len(a) + Len(b)
      /\ \A j \in 1..(Len(a) + Len(b)) : (a \o b)[j] = IF j <= Len(a) THEN a[j] ELSE b[j - Len(a)]
    BY <1>2, <1>3, ConcatProperties
<1>5. RemoveAt(s, i) = a \o b
    BY DEF RemoveAt
<1> HIDE DEF a, b
<1>6. Len(a \o b) = Len(s) - 1
    BY <1>1, <1>2, <1>3, <1>4
<1>7. ASSUME NEW j \in 1..(Len(s) - 1)
      PROVE  (a \o b)[j] = IF j < i THEN s[j] ELSE s[j + 1]
    <2>1. (a \o b)[j] = IF j <= i - 1 THEN a[j] ELSE b[j - (i - 1)]
        <3>1. j \in 1..(Len(a) + Len(b))
            BY <1>1, <1>2, <1>3
        <3>2. (a \o b)[j] = IF j <= Len(a) THEN a[j] ELSE b[j - Len(a)]
            BY <3>1, <1>4
        <3> QED
            BY <3>2, <1>2
    <2>2. CASE j < i
        BY <2>1, <2>2, <1>1, <1>2
    <2>3. CASE ~(j < i)
        <3>1. j - (i - 1) \in 1..(Len(s) - i) /\ i + (j - (i - 1)) = j + 1
            BY <2>3, <1>1
        <3>2. b[j - (i - 1)] = s[j + 1]
            BY <3>1, <1>3
        <3> QED
            BY <2>1, <2>3, <3>2, <1>1
    <2> QED
        BY <2>2, <2>3
<1> QED
    BY <1>4, <1>5, <1>6, <1>7

(* The elements of a sequence s without repetition after RemoveAt. *)
NoRepetition(s) == \A i, j \in DOMAIN s : s[i] = s[j] => i = j

LEMMA RemoveAtElements ==
    ASSUME NEW S, NEW s \in Seq(S), NEW i \in DOMAIN s, NoRepetition(s)
    PROVE  /\ NoRepetition(RemoveAt(s, i))
           /\ ToSet(RemoveAt(s, i)) = ToSet(s) \ {s[i]}
<1> DEFINE r == RemoveAt(s, i)
<1>1. /\ r \in Seq(S)
      /\ Len(r) = Len(s) - 1
      /\ \A j \in 1..(Len(s) - 1) : r[j] = IF j < i THEN s[j] ELSE s[j + 1]
    BY RemoveAtIs
<1>2. /\ DOMAIN s = 1..Len(s) /\ Len(s) \in Nat /\ i \in 1..Len(s)
      /\ DOMAIN r = 1..(Len(s) - 1)
    BY <1>1
<1> HIDE DEF r
<1>3. \A j \in 1..(Len(s) - 1) : IF j < i THEN j \in DOMAIN s ELSE j + 1 \in DOMAIN s
    BY <1>2
<1>4. ASSUME NEW j \in DOMAIN r, NEW k \in DOMAIN r, r[j] = r[k]
      PROVE  j = k
    <2> DEFINE At(x) == IF x < i THEN x ELSE x + 1
    <2>1. At(j) \in DOMAIN s /\ At(k) \in DOMAIN s /\ r[j] = s[At(j)] /\ r[k] = s[At(k)]
        BY <1>1, <1>2, <1>3
    <2>2. At(j) = At(k)
        BY <2>1, <1>4 DEF NoRepetition
    <2> QED
        BY <2>2, <1>2
<1>5. ASSUME NEW j \in DOMAIN r
      PROVE  r[j] \in ToSet(s) \ {s[i]}
    <2> DEFINE k == IF j < i THEN j ELSE j + 1
    <2>1. k \in DOMAIN s /\ r[j] = s[k] /\ k # i
        BY <1>1, <1>2, <1>3
    <2> QED
        BY <2>1 DEF NoRepetition, ToSet
<1>6. ASSUME NEW k \in DOMAIN s, k # i
      PROVE  s[k] \in ToSet(r)
    <2> DEFINE j == IF k < i THEN k ELSE k - 1
    <2>1. j \in DOMAIN r /\ j \in 1..(Len(s) - 1)
        BY <1>2, <1>6
    <2>2. r[j] = s[k]
        BY <2>1, <1>1, <1>2, <1>6
    <2> QED
        BY <2>1, <2>2 DEF ToSet
<1>7. NoRepetition(r)
    BY <1>4 DEF NoRepetition
<1>8. ToSet(r) = ToSet(s) \ {s[i]}
    BY <1>5, <1>6 DEF ToSet
<1> QED
    BY <1>7, <1>8 DEF r

(* Appending an element that is not there yet. *)
LEMMA AppendElements ==
    ASSUME NEW S, NEW s \in Seq(S), NEW e \in S, NoRepetition(s), e \notin ToSet(s)
    PROVE  /\ Append(s, e) \in Seq(S)
           /\ NoRepetition(Append(s, e))
           /\ ToSet(Append(s, e)) = ToSet(s) \cup {e}
<1> DEFINE r == Append(s, e)
<1>1. /\ r \in Seq(S) /\ Len(r) = Len(s) + 1
      /\ \A i \in 1..Len(s) : r[i] = s[i]
      /\ r[Len(s) + 1] = e
    BY AppendProperties
<1>2. DOMAIN s = 1..Len(s) /\ Len(s) \in Nat /\ DOMAIN r = 1..(Len(s) + 1)
    BY <1>1
<1> HIDE DEF r
<1>3. \A i \in DOMAIN s : s[i] # e
    BY DEF ToSet
<1>4. NoRepetition(r)
    BY <1>1, <1>2, <1>3 DEF NoRepetition
<1>5. ToSet(r) = ToSet(s) \cup {e}
    BY <1>1, <1>2 DEF ToSet
<1> QED
    BY <1>1, <1>4, <1>5 DEF r

(* Removing the first element is RemoveAt of 1. *)
LEMMA TailElements ==
    ASSUME NEW S, NEW s \in Seq(S), s # <<>>, NoRepetition(s)
    PROVE  /\ Head(s) \in S /\ Head(s) \in ToSet(s)
           /\ Tail(s) \in Seq(S)
           /\ NoRepetition(Tail(s))
           /\ ToSet(Tail(s)) = ToSet(s) \ {Head(s)}
<1> DEFINE r == Tail(s)
<1>1. /\ r \in Seq(S) /\ Len(r) = Len(s) - 1
      /\ \A i \in 1..Len(r) : r[i] = s[i + 1]
      /\ Head(s) \in S /\ Head(s) = s[1]
    BY HeadTailProperties
<1>2. DOMAIN s = 1..Len(s) /\ Len(s) \in Nat \ {0} /\ DOMAIN r = 1..(Len(s) - 1)
    BY <1>1
<1> HIDE DEF r
<1>3. NoRepetition(r)
    BY <1>1, <1>2 DEF NoRepetition
<1>4. ASSUME NEW k \in DOMAIN s, k # 1
      PROVE  s[k] \in ToSet(r)
    <2>1. k - 1 \in DOMAIN r /\ k - 1 \in 1..Len(r)
        BY <1>1, <1>2, <1>4
    <2>2. r[k - 1] = s[k]
        BY <2>1, <1>1, <1>2, <1>4
    <2> QED
        BY <2>1, <2>2 DEF ToSet
<1>5. ASSUME NEW j \in DOMAIN r
      PROVE  r[j] \in ToSet(s) /\ r[j] # s[1]
    <2>1. j + 1 \in DOMAIN s /\ 1 \in DOMAIN s /\ r[j] = s[j + 1] /\ j + 1 # 1
        BY <1>1, <1>2
    <2> QED
        BY <2>1 DEF NoRepetition, ToSet
<1>6. ToSet(r) = ToSet(s) \ {s[1]}
    BY <1>4, <1>5 DEF ToSet
<1>7. s[1] \in ToSet(s)
    BY <1>2 DEF ToSet
<1> QED
    BY <1>1, <1>3, <1>6, <1>7 DEF r

-----------------------------------------------------------------------------
(* The two ways a method reorders the dictionary. *)
LEMMA MoveToEndKeeps ==
    ASSUME TypeOK, NEW f \in Files, MoveToEnd(f)
    PROVE  order' \in Seq(Files) /\ NoRepetition(order') /\ ToSet(order') = ToSet(order)
<1>1. order \in Seq(Files) /\ NoRepetition(order)
    BY DEF TypeOK, NoRepetition
<1>2. PICK i \in DOMAIN order : order[i] = f /\ order' = Append(RemoveAt(order, i), f)
    BY DEF MoveToEnd
<1> DEFINE r == RemoveAt(order, i)
<1>3. r \in Seq(Files) /\ NoRepetition(r) /\ ToSet(r) = ToSet(order) \ {f}
    BY <1>1, <1>2, RemoveAtIs, RemoveAtElements
<1>4. f \in ToSet(order)
    BY <1>2 DEF ToSet
<1>5. order' = Append(r, f)
    BY <1>2
<1> HIDE DEF r
<1> QED
    BY <1>3, <1>4, <1>5, AppendElements

LEMMA PopTakes ==
    ASSUME TypeOK, NEW f \in Files, Pop(f)
    PROVE  /\ order' \in Seq(Files) /\ NoRepetition(order')
           /\ ToSet(order') = ToSet(order) \ {f}
           /\ nodes' = nodes \ NodesOf(f)
<1>1. order \in Seq(Files) /\ NoRepetition(order)
    BY DEF TypeOK, NoRepetition
<1>2. PICK i \in DOMAIN order : order[i] = f /\ order' = RemoveAt(order, i)
    BY DEF Pop
<1> QED
    BY <1>1, <1>2, RemoveAtIs, RemoveAtElements DEF Pop

(* Every cached node has its file among the keys. *)
Keys == \A n \in nodes : FileOf[n] \in ToSet(order)

(* Until put has stored them, its nodes are nodes of its file. *)
BeforeStore(t) == pc[t] \in {"put", "old", "store"} \/ (pc[t] \in CountSteps /\ count[t].then = "store")
Args == \A t \in Threads : BeforeStore(t) => new[t] \subseteq NodesOf(file[t])

TypeInv == TypeOK /\ Keys /\ Args

LEMMA InitTypeInv == Init => TypeInv
<1> SUFFICES ASSUME Init PROVE TypeInv
    OBVIOUS
<1>1. order \in Seq(Files)
    BY DEF Init
<1>2. Args
    BY DEF Init, Args, BeforeStore, CountSteps
<1>3. /\ count \in [Threads -> [read : Int, delta : Int, then : {"idle", "store", "touch", "evict"}]]
      /\ new \in [Threads -> SUBSET Nodes]
      /\ pc \in [Threads -> Step]
    BY DEF Init, Step
<1>4. \A i, j \in DOMAIN order : order[i] = order[j] => i = j
    BY DEF Init
<1>5. /\ nodes \subseteq Nodes /\ node_count \in Int /\ file \in [Threads -> Files]
    BY DEF Init
<1>5a. raised \subseteq {"get", "put", "remove"}
    BY DEF Init
<1>5b. overlapped \in BOOLEAN
    BY DEF Init
<1>6. TypeOK
    BY <1>1, <1>3, <1>4, <1>5, <1>5a, <1>5b DEF TypeOK
<1> QED
    BY <1>2, <1>6 DEF Init, TypeInv, Keys

(* What the steps that only touch pc and count keep. *)
LEMMA LocalKeeps ==
    ASSUME TypeInv, UNCHANGED <<order, nodes, file, new, overlapped>>,
           node_count' \in Int, pc' \in [Threads -> Step], raised' \subseteq {"get", "put", "remove"},
           count' \in [Threads -> [read : Int, delta : Int,
                                   then : {"idle", "store", "touch", "evict"}]],
           \A t \in Threads : BeforeStore(t)' => BeforeStore(t)
    PROVE  TypeInv'
    BY DEF TypeInv, TypeOK, Keys, Args

(* The sizes the counter is changed by are integers. *)
LEMMA Sizes ==
    ASSUME TypeOK
    PROVE  /\ IsFiniteSet(nodes) /\ Cardinality(nodes) \in Nat
           /\ \A f \in Files : Cardinality(Entry(f)) \in Nat
           /\ \A t \in Threads : IsFiniteSet(new[t]) /\ Cardinality(new[t]) \in Nat
<1>1. IsFiniteSet(Nodes)
    BY NodeLRUCacheAssumption
<1>2. nodes \subseteq Nodes /\ \A t \in Threads : new[t] \subseteq Nodes
    BY DEF TypeOK
<1>3. IsFiniteSet(nodes) /\ \A f \in Files : IsFiniteSet(Entry(f))
    BY <1>1, <1>2, FS_Subset DEF Entry
<1>4. \A t \in Threads : IsFiniteSet(new[t])
    BY <1>1, <1>2, FS_Subset
<1> QED
    BY <1>3, <1>4, FS_CardinalityType

LEMMA NextTypeInv == TypeInv /\ [Next]_vars => TypeInv'
<1> SUFFICES ASSUME TypeInv, [Next]_vars PROVE TypeInv'
    OBVIOUS
<1> USE DEF Step, Changing, PutSteps, CountSteps
<1>0. TypeOK /\ Keys /\ Args /\ FileOf \in [Nodes -> Files]
    BY NodeLRUCacheAssumption DEF TypeInv
<1>0a. order \in Seq(Files) /\ NoRepetition(order)
    BY <1>0 DEF TypeOK, NoRepetition
<1> USE <1>0
<1>1. ASSUME NEW t \in Threads, NEW n \in Nodes, CallGet(t, n) PROVE TypeInv'
    BY <1>1 DEF CallGet, Call, TypeInv, TypeOK, Keys, Args, BeforeStore, cacheVars
<1>2. ASSUME NEW t \in Threads, NEW f \in Files, CallRemove(t, f) PROVE TypeInv'
    BY <1>2 DEF CallRemove, Call, TypeInv, TypeOK, Keys, Args, BeforeStore, cacheVars
<1>3. ASSUME NEW t \in Threads, NEW f \in Files, NEW ns \in SUBSET NodesOf(f), CallPut(t, f, ns)
      PROVE TypeInv'
    <2>1. ns \subseteq Nodes
        BY DEF NodesOf
    <2> QED
        BY <1>3, <2>1 DEF CallPut, Call, TypeInv, TypeOK, Keys, Args, BeforeStore, cacheVars
<1>4. ASSUME NEW t \in Threads, GetTouch(t) PROVE TypeInv'
    <2>1. file[t] \in Files
        BY DEF TypeOK
    <2>2. order' \in Seq(Files) /\ NoRepetition(order') /\ ToSet(order') = ToSet(order)
        BY <1>4, <2>1, MoveToEndKeeps DEF GetTouch
    <2>3. pc' \in [Threads -> Step]
        BY <1>4 DEF GetTouch, Return, Goto, TypeOK
    <2>4. UNCHANGED <<nodes, node_count, file, new, count, raised, overlapped>>
        BY <1>4 DEF GetTouch
    <2>5. \A s \in Threads : BeforeStore(s)' => BeforeStore(s)
        BY <1>4, <2>4 DEF GetTouch, Return, Goto, TypeOK, BeforeStore
    <2> QED
        BY <2>2, <2>3, <2>4, <2>5 DEF TypeInv, TypeOK, Keys, Args, NoRepetition
<1>5. ASSUME NEW t \in Threads, FindOld(t) PROVE TypeInv'
    <2>1. pc' \in [Threads -> Step] /\ UNCHANGED <<order, nodes, node_count, file, new, count, raised, overlapped>>
        BY <1>5 DEF FindOld, Goto, cacheVars, historyVars, TypeOK
    <2>2. \A s \in Threads : BeforeStore(s)' => BeforeStore(s)
        BY <1>5, <2>1 DEF FindOld, Goto, TypeOK, BeforeStore
    <2> QED
        BY <2>1, <2>2, LocalKeeps DEF TypeOK
<1>6. ASSUME NEW t \in Threads, SubtractOld(t) PROVE TypeInv'
    <2>1. -Cardinality(Entry(file[t])) \in Int
        BY Sizes DEF TypeOK
    <2>2. pc' \in [Threads -> Step] /\ UNCHANGED <<order, nodes, node_count, file, new, raised, overlapped>>
        BY <1>6 DEF SubtractOld, Add, Goto, cacheVars, historyVars, TypeOK
    <2>3. count' = [count EXCEPT ![t].delta = -Cardinality(Entry(file[t])), ![t].then = "store"]
        BY <1>6 DEF SubtractOld, Add
    <2>4. count' \in [Threads -> [read : Int, delta : Int, then : {"idle", "store", "touch", "evict"}]]
        BY <2>1, <2>3 DEF TypeOK
    <2>5. \A s \in Threads : BeforeStore(s)' => BeforeStore(s)
        BY <1>6, <2>3 DEF SubtractOld, Add, Goto, TypeOK, BeforeStore
    <2> QED
        BY <2>2, <2>4, <2>5, LocalKeeps DEF TypeOK
<1>7. ASSUME NEW t \in Threads, Store(t) PROVE TypeInv'
    <2>1. file[t] \in Files /\ new[t] \subseteq Nodes
        BY DEF TypeOK
    <2>2. Cardinality(new[t]) \in Int
        BY Sizes
    <2>3. pc' \in [Threads -> Step] /\ UNCHANGED <<node_count, file, new, raised, overlapped>>
        BY <1>7 DEF Store, Add, Goto, historyVars, TypeOK
    <2>4. count' = [count EXCEPT ![t].delta = Cardinality(new[t]), ![t].then = "touch"]
        BY <1>7 DEF Store, Add
    <2>5. count' \in [Threads -> [read : Int, delta : Int, then : {"idle", "store", "touch", "evict"}]]
        BY <2>2, <2>4 DEF TypeOK
    <2>6. order' \in Seq(Files) /\ NoRepetition(order') /\ ToSet(order') = ToSet(order) \cup {file[t]}
        <3>1. CASE IsCached(file[t])
            BY <3>1, <1>7, <1>0a DEF Store, IsCached
        <3>2. CASE ~IsCached(file[t])
            <4>1. order' = Append(order, file[t]) /\ file[t] \notin ToSet(order)
                BY <3>2, <1>7 DEF Store, IsCached
            <4> QED
                BY <4>1, <2>1, <1>0a, AppendElements
        <3> QED
            BY <3>1, <3>2
    <2>7. nodes' = (nodes \ NodesOf(file[t])) \cup new[t]
        BY <1>7 DEF Store
    <2>8. nodes' \subseteq Nodes
        BY <2>1, <2>7 DEF TypeOK
    <2>9. \A s \in Threads : BeforeStore(s)' => BeforeStore(s)
        BY <1>7, <2>4 DEF Store, Add, Goto, TypeOK, BeforeStore
    <2>10. new[t] \subseteq NodesOf(file[t])
        BY <1>7 DEF Store, Args, BeforeStore
    <2>11. Keys'
        BY <2>6, <2>7, <2>10 DEF Keys, NodesOf
    <2> QED
        BY <2>3, <2>5, <2>6, <2>8, <2>9, <2>11 DEF TypeInv, TypeOK, Args, NoRepetition
<1>8. ASSUME NEW t \in Threads, PutTouch(t) PROVE TypeInv'
    <2>1. file[t] \in Files
        BY DEF TypeOK
    <2>2. order' \in Seq(Files) /\ NoRepetition(order') /\ ToSet(order') = ToSet(order)
        BY <1>8, <2>1, MoveToEndKeeps DEF PutTouch
    <2>3. pc' \in [Threads -> Step]
        BY <1>8 DEF PutTouch, Goto, TypeOK
    <2>4. UNCHANGED <<nodes, node_count, file, new, count, raised, overlapped>>
        BY <1>8 DEF PutTouch, historyVars
    <2>5. \A s \in Threads : BeforeStore(s)' => BeforeStore(s)
        BY <1>8, <2>4 DEF PutTouch, Goto, TypeOK, BeforeStore
    <2> QED
        BY <2>2, <2>3, <2>4, <2>5 DEF TypeInv, TypeOK, Keys, Args, NoRepetition
<1>9. ASSUME NEW t \in Threads, Evict(t) PROVE TypeInv'
    <2>1. /\ Head(order) \in Files /\ order' \in Seq(Files) /\ NoRepetition(order')
          /\ ToSet(order') = ToSet(order) \ {Head(order)}
        BY <1>9, <1>0a, TailElements DEF Evict
    <2>2. -Cardinality(Entry(Head(order))) \in Int
        BY <2>1, Sizes
    <2>3. nodes' = nodes \ NodesOf(Head(order))
        BY <1>9 DEF Evict
    <2>4. pc' \in [Threads -> Step] /\ UNCHANGED <<node_count, file, new, raised, overlapped>>
        BY <1>9 DEF Evict, Add, Goto, historyVars, TypeOK
    <2>5. count' = [count EXCEPT ![t].delta = -Cardinality(Entry(Head(order))), ![t].then = "evict"]
        BY <1>9 DEF Evict, Add
    <2>6. count' \in [Threads -> [read : Int, delta : Int, then : {"idle", "store", "touch", "evict"}]]
        BY <2>2, <2>5 DEF TypeOK
    <2>7. \A s \in Threads : BeforeStore(s)' => BeforeStore(s)
        BY <1>9, <2>5 DEF Evict, Add, Goto, TypeOK, BeforeStore
    <2>8. Keys' /\ nodes' \subseteq Nodes
        BY <2>1, <2>3 DEF Keys, NodesOf, TypeOK
    <2> QED
        BY <2>1, <2>4, <2>6, <2>7, <2>8 DEF TypeInv, TypeOK, Args, NoRepetition
<1>10. ASSUME NEW t \in Threads, EndPut(t) PROVE TypeInv'
    <2>1. /\ pc' \in [Threads -> Step]
          /\ UNCHANGED <<order, nodes, node_count, file, new, count, raised, overlapped>>
        BY <1>10 DEF EndPut, Return, Goto, cacheVars, TypeOK
    <2>2. \A s \in Threads : BeforeStore(s)' => BeforeStore(s)
        BY <1>10, <2>1 DEF EndPut, Return, Goto, TypeOK, BeforeStore
    <2> QED
        BY <2>1, <2>2, LocalKeeps DEF TypeOK
<1>11. ASSUME NEW t \in Threads, RemovePop(t) PROVE TypeInv'
    <2>1. file[t] \in Files
        BY DEF TypeOK
    <2>2. /\ order' \in Seq(Files) /\ NoRepetition(order')
          /\ ToSet(order') = ToSet(order) \ {file[t]}
          /\ nodes' = nodes \ NodesOf(file[t])
        BY <1>11, <2>1, PopTakes DEF RemovePop
    <2>3. -Cardinality(Entry(file[t])) \in Int
        BY <2>1, Sizes
    <2>4. pc' \in [Threads -> Step] /\ UNCHANGED <<node_count, file, new, raised, overlapped>>
        BY <1>11 DEF RemovePop, Add, Goto, historyVars, TypeOK
    <2>5. count' = [count EXCEPT ![t].delta = -Cardinality(Entry(file[t])), ![t].then = "idle"]
        BY <1>11 DEF RemovePop, Add
    <2>6. count' \in [Threads -> [read : Int, delta : Int, then : {"idle", "store", "touch", "evict"}]]
        BY <2>3, <2>5 DEF TypeOK
    <2>7. \A s \in Threads : BeforeStore(s)' => BeforeStore(s)
        BY <1>11, <2>5 DEF RemovePop, Add, Goto, TypeOK, BeforeStore
    <2>8. Keys' /\ nodes' \subseteq Nodes
        BY <2>2 DEF Keys, NodesOf, TypeOK
    <2> QED
        BY <2>2, <2>4, <2>6, <2>7, <2>8 DEF TypeInv, TypeOK, Args, NoRepetition
<1>12. ASSUME NEW t \in Threads, LoadCount(t) PROVE TypeInv'
    <2>1. /\ pc' = [pc EXCEPT ![t] = "add"] /\ pc[t] = "load"
          /\ count' = [count EXCEPT ![t].read = node_count]
          /\ UNCHANGED <<order, nodes, node_count, file, new, raised, overlapped>>
        BY <1>12 DEF LoadCount, Goto, cacheVars, historyVars
    <2>2. count' \in [Threads -> [read : Int, delta : Int, then : {"idle", "store", "touch", "evict"}]]
        BY <2>1 DEF TypeOK
    <2>3. \A s \in Threads : BeforeStore(s)' => BeforeStore(s)
        BY <2>1 DEF TypeOK, BeforeStore
    <2> QED
        BY <2>1, <2>2, <2>3, LocalKeeps DEF TypeOK
<1>13. ASSUME NEW t \in Threads, StoreCount(t) PROVE TypeInv'
    <2>1. /\ pc' = [pc EXCEPT ![t] = count[t].then] /\ pc[t] = "add"
          /\ node_count' = count[t].read + count[t].delta
          /\ UNCHANGED <<order, nodes, file, new, count, raised, overlapped>>
        BY <1>13 DEF StoreCount, Return, Goto
    <2>2. count[t].then \in {"idle", "store", "touch", "evict"} /\ node_count' \in Int
        BY <2>1 DEF TypeOK
    <2>3. \A s \in Threads : BeforeStore(s)' => BeforeStore(s)
        BY <2>1, <2>2 DEF TypeOK, BeforeStore
    <2> QED
        BY <2>1, <2>2, <2>3, LocalKeeps DEF TypeOK
<1>14. ASSUME NEW t \in Threads, RaiseMissing(t) \/ RaiseEmpty(t) PROVE TypeInv'
    <2>1. /\ pc' = [pc EXCEPT ![t] = "idle"]
          /\ UNCHANGED <<order, nodes, node_count, file, new, count, overlapped>>
          /\ raised' \subseteq {"get", "put", "remove"}
        BY <1>14 DEF RaiseMissing, RaiseEmpty, Raise, Return, Goto, cacheVars, TypeOK
    <2>2. \A s \in Threads : BeforeStore(s)' => BeforeStore(s)
        BY <2>1 DEF TypeOK, BeforeStore
    <2> QED
        BY <2>1, <2>2, LocalKeeps DEF TypeOK
<1>15. CASE UNCHANGED vars
    BY <1>15 DEF vars, cacheVars, callVars, historyVars, TypeInv, TypeOK, Keys, Args, BeforeStore
<1> QED
    BY <1>1, <1>2, <1>3, <1>4, <1>5, <1>6, <1>7, <1>8, <1>9, <1>10, <1>11, <1>12, <1>13, <1>14,
       <1>15 DEF Next

(* The cache keeps its types: a key occurs once in the order of the        *)
(* dictionary, whatever the threads do.                                    *)
THEOREM Typing == Spec => []TypeOK
<1>1. TypeInv => TypeOK
    BY DEF TypeInv
<1> QED
    BY <1>1, InitTypeInv, NextTypeInv, PTL DEF Spec

-----------------------------------------------------------------------------
(* While put and remove run, the counter differs from the number of nodes  *)
(* by what the running call has still to add, and, until put has stored    *)
(* its nodes, by those it replaces.                                        *)
Owed(t) == IF pc[t] \in CountSteps THEN count[t].delta ELSE 0
Replacing(t) == pc[t] = "store" \/ (pc[t] \in CountSteps /\ count[t].then = "store")
Pending(t) == IF Replacing(t) THEN Entry(file[t]) ELSE {}
Within(t) == pc[t] \in {"put", "old", "remove"} \/ (pc[t] \in CountSteps /\ count[t].then = "idle")
NeedsFile(t) == pc[t] \in {"old", "touch", "remove"} \/ (pc[t] \in CountSteps /\ count[t].then = "touch")

Sound(t) ==
    /\ node_count + Owed(t) = Cardinality(nodes) - Cardinality(Pending(t))
    /\ pc[t] = "add" => count[t].read = node_count
    /\ Within(t) => node_count + Owed(t) <= Capacity
    /\ NeedsFile(t) => IsCached(file[t])

Exact == node_count = Cardinality(nodes) /\ node_count <= Capacity

CountInv ==
    ~overlapped =>
        /\ \A s, t \in Threads : pc[s] \in Changing /\ pc[t] \in Changing => s = t
        /\ \A t \in Threads : pc[t] \in Changing => Sound(t)
        /\ Quiet => Exact
        /\ raised \subseteq {"get"}

LEMMA InitCountInv == Init => CountInv
<1> SUFFICES ASSUME Init PROVE CountInv
    OBVIOUS
<1>1. \A t \in Threads : pc[t] \notin Changing
    BY DEF Init, Changing, PutSteps, CountSteps
<1>2. Exact
    BY FS_EmptySet, NodeLRUCacheAssumption DEF Init, Exact
<1>3. raised \subseteq {"get"}
    BY DEF Init
<1> QED
    BY <1>1, <1>2, <1>3 DEF CountInv

(* A step of the only call that changes the cache. *)
LEMMA Alone ==
    ASSUME CountInv, ~overlapped, NEW t \in Threads, pc[t] \in Changing,
           \A s \in Threads : s # t => pc'[s] = pc[s],
           raised' \subseteq {"get"},
           pc'[t] \in Changing => Sound(t)',
           pc'[t] \notin Changing => Exact'
    PROVE  CountInv'
<1>1. \A s \in Threads : s # t => pc[s] \notin Changing
    BY DEF CountInv
<1>2. \A s \in Threads : s # t => pc'[s] \notin Changing
    BY <1>1
<1>3. \A r, s \in Threads : pc'[r] \in Changing /\ pc'[s] \in Changing => r = s
    BY <1>2
<1>4. \A s \in Threads : pc'[s] \in Changing => Sound(s)'
    BY <1>2
<1>5. Quiet' => Exact'
    BY DEF Quiet, Changing, PutSteps, CountSteps
<1> QED
    BY <1>3, <1>4, <1>5 DEF CountInv, Changing, PutSteps, CountSteps

(* A step beside the calls that change the cache. *)
LEMMA Beside ==
    ASSUME CountInv, UNCHANGED <<nodes, node_count>>, ToSet(order') = ToSet(order),
           ~overlapped' => ~overlapped,
           raised' \subseteq raised \cup {"get"},
           \A s \in Threads : pc[s] \in Changing \/ pc'[s] \in Changing =>
               pc'[s] = pc[s] /\ file'[s] = file[s] /\ count'[s] = count[s]
    PROVE  CountInv'
<1> SUFFICES ASSUME ~overlapped'
             PROVE  /\ \A s, t \in Threads : pc'[s] \in Changing /\ pc'[t] \in Changing => s = t
                    /\ \A t \in Threads : pc'[t] \in Changing => Sound(t)'
                    /\ Quiet' => Exact'
                    /\ raised' \subseteq {"get"}
    BY DEF CountInv, Changing, PutSteps, CountSteps
<1>1. /\ \A s, t \in Threads : pc[s] \in Changing /\ pc[t] \in Changing => s = t
      /\ \A t \in Threads : pc[t] \in Changing => Sound(t)
      /\ Quiet => Exact
      /\ raised \subseteq {"get"}
    BY DEF CountInv
<1>2. \A s \in Threads : pc'[s] \in Changing => pc[s] \in Changing
    OBVIOUS
<1>3. \A s, t \in Threads : pc'[s] \in Changing /\ pc'[t] \in Changing => s = t
    BY <1>1, <1>2
<1>4. ASSUME NEW t \in Threads, pc'[t] \in Changing
      PROVE  Sound(t)'
    <2>1. Sound(t) /\ pc'[t] = pc[t] /\ file'[t] = file[t] /\ count'[t] = count[t]
        BY <1>1, <1>4
    <2>2. Pending(t)' = Pending(t) /\ Owed(t)' = Owed(t)
        BY <2>1 DEF Pending, Replacing, Owed, Entry, NodesOf, CountSteps
    <2>3. Within(t)' = Within(t) /\ NeedsFile(t)' = NeedsFile(t) /\ IsCached(file[t])' = IsCached(file[t])
        BY <2>1 DEF Within, NeedsFile, IsCached, CountSteps
    <2> QED
        BY <2>1, <2>2, <2>3 DEF Sound
<1>5. Quiet' => Exact'
    BY <1>1 DEF Quiet, Exact, Changing, PutSteps, CountSteps
<1> QED
    BY <1>1, <1>3, <1>4, <1>5

(* How the number of nodes changes when a file is taken out or stored. *)
LEMMA PopSize ==
    ASSUME TypeOK, NEW f \in Files
    PROVE  Cardinality(nodes \ NodesOf(f)) = Cardinality(nodes) - Cardinality(Entry(f))
    BY Sizes, FS_Difference DEF Entry

LEMMA StoreSize ==
    ASSUME TypeOK, NEW f \in Files, NEW ns \in SUBSET NodesOf(f), IsFiniteSet(ns)
    PROVE  Cardinality((nodes \ NodesOf(f)) \cup ns)
             = Cardinality(nodes) - Cardinality(Entry(f)) + Cardinality(ns)
<1> DEFINE rest == nodes \ NodesOf(f)
<1>1. IsFiniteSet(rest) /\ Cardinality(rest) = Cardinality(nodes) - Cardinality(Entry(f))
    BY Sizes, FS_Difference DEF Entry
<1>2. rest \cap ns = {}
    OBVIOUS
<1>3. Cardinality(rest) \in Nat /\ Cardinality(ns) \in Nat
    BY <1>1, FS_CardinalityType
<1> HIDE DEF rest
<1>4. Cardinality(rest \cup ns) = Cardinality(rest) + Cardinality(ns) - 0
    BY <1>1, <1>2, FS_Union, FS_EmptySet
<1> QED
    BY <1>1, <1>3, <1>4 DEF rest

(* The step that begins a put or a remove. *)
LEMMA CallCountInv ==
    ASSUME TypeInv, CountInv, NEW t \in Threads, NEW f \in Files,
           NEW method \in {"get", "put", "remove"}, NEW goes \in BOOLEAN,
           Call(t, f, method, goes),
           method = "remove" /\ goes => IsCached(f)
    PROVE  CountInv'
<1>1. TypeOK
    BY DEF TypeInv
<1>2. /\ pc[t] = "idle"
      /\ pc' = IF goes THEN [pc EXCEPT ![t] = method] ELSE pc
      /\ file' = [file EXCEPT ![t] = f]
      /\ overlapped' = (overlapped \/ (goes /\ method # "get" /\ \E s \in Threads : pc[s] \in Changing))
      /\ UNCHANGED <<order, nodes, node_count, count, raised>>
    BY DEF Call, cacheVars
<1>3. ~overlapped' => ~overlapped
    BY <1>2
<1>4. "idle" \notin Changing /\ "get" \notin Changing
    BY DEF Changing, PutSteps, CountSteps
<1>5. CASE ~goes \/ method = "get"
    <2>1. \A s \in Threads : pc[s] \in Changing \/ pc'[s] \in Changing =>
               pc'[s] = pc[s] /\ file'[s] = file[s] /\ count'[s] = count[s]
        BY <1>1, <1>2, <1>4, <1>5 DEF TypeOK
    <2> QED
        BY <1>2, <1>3, <2>1, Beside
<1>6. CASE goes /\ method # "get"
    <2> SUFFICES ASSUME ~overlapped' PROVE CountInv'
        BY DEF CountInv, Changing, PutSteps, CountSteps
    <2>1. \A s \in Threads : pc[s] \notin Changing
        BY <1>2, <1>6
    <2>2. Exact /\ raised \subseteq {"get"}
        BY <1>3, <2>1 DEF CountInv, Quiet
    <2>3. pc'[t] = method /\ file'[t] = f /\ \A s \in Threads : s # t => pc'[s] = pc[s]
        BY <1>1, <1>2, <1>6 DEF TypeOK
    <2>4. pc'[t] \in {"put", "remove"}
        BY <1>6, <2>3
    <2>5. Owed(t)' = 0 /\ Pending(t)' = {} /\ pc'[t] # "add"
        BY <2>4 DEF Owed, Pending, Replacing, CountSteps
    <2>6. NeedsFile(t)' => IsCached(file[t])'
        BY <1>2, <2>3, <2>4 DEF NeedsFile, IsCached, CountSteps
    <2>7. Cardinality(nodes) \in Nat /\ node_count \in Int /\ Cardinality({}) = 0
        BY <1>1, Sizes, FS_EmptySet DEF TypeOK
    <2>8. Sound(t)'
        BY <1>2, <2>2, <2>5, <2>6, <2>7 DEF Sound, Exact
    <2>9. \A s \in Threads : s # t => pc'[s] \notin Changing
        BY <2>1, <2>3
    <2>10. pc'[t] \in Changing
        BY <2>4 DEF Changing, PutSteps
    <2> QED
        BY <1>2, <2>2, <2>8, <2>9, <2>10 DEF CountInv, Quiet, Changing, PutSteps, CountSteps
<1> QED
    BY <1>5, <1>6

LEMMA NextCountInv == TypeInv /\ CountInv /\ [Next]_vars => CountInv'
<1> SUFFICES ASSUME TypeInv, CountInv, [Next]_vars PROVE CountInv'
    OBVIOUS
<1>0. TypeOK /\ Keys /\ Args /\ Capacity \in Nat
    BY NodeLRUCacheAssumption DEF TypeInv
<1>0a. /\ node_count \in Int /\ Cardinality(nodes) \in Nat
       /\ \A t \in Threads : /\ file[t] \in Files
                             /\ count[t].read \in Int /\ count[t].delta \in Int
                             /\ count[t].then \in {"idle", "store", "touch", "evict"}
    BY <1>0, Sizes DEF TypeOK
<1>0b. ASSUME ~overlapped, NEW t \in Threads, pc[t] \in Changing
       PROVE  Sound(t) /\ raised \subseteq {"get"}
    BY <1>0b DEF CountInv
<1>0c. \A f \in Files : ~IsCached(f) => Entry(f) = {}
    BY <1>0 DEF Keys, IsCached, Entry, NodesOf
<1>1. ASSUME NEW t \in Threads, NEW n \in Nodes, CallGet(t, n) PROVE CountInv'
    <2>1. FileOf[n] \in Files /\ (n \in nodes) \in BOOLEAN
        BY NodeLRUCacheAssumption
    <2> QED
        BY <1>1, <2>1, CallCountInv DEF CallGet
<1>2. ASSUME NEW t \in Threads, NEW f \in Files, CallRemove(t, f) PROVE CountInv'
    <2>1. IsCached(f) \in BOOLEAN
        BY DEF IsCached
    <2> QED
        BY <1>2, <2>1, CallCountInv DEF CallRemove
<1>3. ASSUME NEW t \in Threads, NEW f \in Files, NEW ns \in SUBSET NodesOf(f), CallPut(t, f, ns)
      PROVE CountInv'
    <2>1. (Cardinality(ns) <= Capacity) \in BOOLEAN
        OBVIOUS
    <2> QED
        BY <1>3, <2>1, CallCountInv DEF CallPut
<1>4. ASSUME NEW t \in Threads, GetTouch(t) PROVE CountInv'
    <2>1. ToSet(order') = ToSet(order)
        BY <1>4, <1>0, <1>0a, MoveToEndKeeps DEF GetTouch
    <2>2. /\ pc[t] = "get" /\ pc' = [pc EXCEPT ![t] = "idle"]
          /\ UNCHANGED <<nodes, node_count, file, count, raised, overlapped>>
        BY <1>4 DEF GetTouch, Return, Goto
    <2>3. \A s \in Threads : pc[s] \in Changing \/ pc'[s] \in Changing => pc'[s] = pc[s]
        BY <2>2, <1>0 DEF TypeOK, Changing, PutSteps, CountSteps
    <2> QED
        BY <2>1, <2>2, <2>3, Beside
<1>5. ASSUME NEW t \in Threads, FindOld(t), ~overlapped PROVE CountInv'
    <2>1. /\ pc[t] = "put" /\ pc[t] \in Changing
          /\ pc' = [pc EXCEPT ![t] = IF IsCached(file[t]) THEN "old" ELSE "store"]
          /\ UNCHANGED <<order, nodes, node_count, file, count, raised>>
        BY <1>5 DEF FindOld, Goto, cacheVars, historyVars, Changing, PutSteps
    <2>2. Sound(t) /\ raised \subseteq {"get"}
        BY <2>1, <1>5, <1>0b
    <2>3. node_count = Cardinality(nodes) /\ node_count <= Capacity
        BY <2>1, <2>2, <1>0a, FS_EmptySet DEF Sound, Owed, Pending, Replacing, Within, CountSteps
    <2>4. CASE IsCached(file[t])
        <3>1. pc'[t] = "old" /\ IsCached(file[t])'
            BY <2>1, <2>4, <1>0 DEF TypeOK, IsCached
        <3>2. Sound(t)'
            BY <3>1, <2>1, <2>3, <1>0a, FS_EmptySet DEF Sound, Owed, Pending, Replacing, CountSteps
        <3> QED
            BY <3>1, <3>2, <2>1, <2>2, <1>0, <1>5, Alone DEF TypeOK, Changing, PutSteps
    <2>5. CASE ~IsCached(file[t])
        <3>1. pc'[t] = "store" /\ Entry(file[t])' = {}
            BY <2>1, <2>5, <1>0, <1>0a, <1>0c DEF TypeOK, Entry, NodesOf
        <3>2. Pending(t)' = {} /\ Owed(t)' = 0
            BY <3>1 DEF Pending, Owed, CountSteps
        <3>3. Sound(t)'
            BY <3>1, <3>2, <2>1, <2>3, <1>0a, FS_EmptySet DEF Sound, Within, NeedsFile, CountSteps
        <3> QED
            BY <3>1, <3>3, <2>1, <2>2, <1>0, <1>5, Alone DEF TypeOK, Changing, PutSteps
    <2> QED
        BY <2>4, <2>5
<1>6. ASSUME NEW t \in Threads, SubtractOld(t), ~overlapped PROVE CountInv'
    <2>1. /\ pc[t] = "old" /\ pc[t] \in Changing /\ pc' = [pc EXCEPT ![t] = "load"]
          /\ count' = [count EXCEPT ![t].delta = -Cardinality(Entry(file[t])), ![t].then = "store"]
          /\ UNCHANGED <<order, nodes, node_count, file, raised>>
        BY <1>6 DEF SubtractOld, Add, Goto, cacheVars, historyVars, Changing, PutSteps
    <2>2. Sound(t) /\ raised \subseteq {"get"}
        BY <2>1, <1>6, <1>0b
    <2>3. node_count = Cardinality(nodes)
        BY <2>1, <2>2, <1>0a, FS_EmptySet DEF Sound, Owed, Pending, Replacing, CountSteps
    <2>4. pc'[t] = "load" /\ count'[t].delta = -Cardinality(Entry(file[t])) /\ count'[t].then = "store"
        BY <2>1, <1>0 DEF TypeOK
    <2>5. Pending(t)' = Entry(file[t]) /\ Owed(t)' = -Cardinality(Entry(file[t]))
        BY <2>1, <2>4 DEF Pending, Replacing, Owed, CountSteps, Entry, NodesOf
    <2>6. Sound(t)'
        <3>1. Cardinality(Entry(file[t])) \in Nat
            BY <1>0, <1>0a, Sizes
        <3> QED
            BY <3>1, <2>1, <2>3, <2>4, <2>5, <1>0a DEF Sound, Within, NeedsFile
    <2> QED
        BY <2>1, <2>2, <2>4, <2>6, <1>0, <1>6, Alone DEF TypeOK, Changing, CountSteps
<1>7. ASSUME NEW t \in Threads, Store(t), ~overlapped PROVE CountInv'
    <2>1. /\ pc[t] = "store" /\ pc[t] \in Changing /\ pc' = [pc EXCEPT ![t] = "load"]
          /\ count' = [count EXCEPT ![t].delta = Cardinality(new[t]), ![t].then = "touch"]
          /\ nodes' = (nodes \ NodesOf(file[t])) \cup new[t]
          /\ order' = IF IsCached(file[t]) THEN order ELSE Append(order, file[t])
          /\ UNCHANGED <<node_count, file, raised>>
        BY <1>7 DEF Store, Add, Goto, historyVars, Changing, PutSteps
    <2>2. Sound(t) /\ raised \subseteq {"get"}
        BY <2>1, <1>7, <1>0b
    <2>3. node_count = Cardinality(nodes) - Cardinality(Entry(file[t]))
        BY <2>1, <2>2, <1>0a DEF Sound, Owed, Pending, Replacing, CountSteps
    <2>4. new[t] \in SUBSET NodesOf(file[t]) /\ IsFiniteSet(new[t]) /\ Cardinality(new[t]) \in Nat
        BY <2>1, <1>0, Sizes DEF Args, BeforeStore
    <2>5. Cardinality(nodes') = node_count + Cardinality(new[t])
        BY <2>1, <2>3, <2>4, <1>0, <1>0a, StoreSize
    <2>6. pc'[t] = "load" /\ count'[t].delta = Cardinality(new[t]) /\ count'[t].then = "touch"
        BY <2>1, <1>0 DEF TypeOK
    <2>7. Pending(t)' = {} /\ Owed(t)' = Cardinality(new[t])
        BY <2>6 DEF Pending, Replacing, Owed, CountSteps
    <2>8. IsCached(file[t])'
        <3>1. order \in Seq(Files) /\ file[t] \in Files
            BY <1>0, <1>0a DEF TypeOK
        <3>2. CASE IsCached(file[t])
            BY <3>2, <2>1 DEF IsCached
        <3>3. CASE ~IsCached(file[t])
            <4>1. order' = Append(order, file[t])
                BY <3>3, <2>1
            <4>2. Len(order') \in DOMAIN order' /\ order'[Len(order')] = file[t]
                BY <4>1, <3>1, AppendProperties
            <4> QED
                BY <4>2, <2>1 DEF IsCached, ToSet
        <3> QED
            BY <3>2, <3>3
    <2>9. Sound(t)'
        BY <2>1, <2>4, <2>5, <2>6, <2>7, <2>8, <1>0a, FS_EmptySet DEF Sound, Within
    <2> QED
        BY <2>1, <2>2, <2>6, <2>9, <1>0, <1>7, Alone DEF TypeOK, Changing, CountSteps
<1>8. ASSUME NEW t \in Threads, PutTouch(t), ~overlapped PROVE CountInv'
    <2>1. /\ pc[t] = "touch" /\ pc[t] \in Changing /\ pc' = [pc EXCEPT ![t] = "evict"]
          /\ UNCHANGED <<nodes, node_count, file, count, raised>>
        BY <1>8 DEF PutTouch, Goto, historyVars, Changing, PutSteps
    <2>2. Sound(t) /\ raised \subseteq {"get"}
        BY <2>1, <1>8, <1>0b
    <2>3. node_count = Cardinality(nodes)
        BY <2>1, <2>2, <1>0a, FS_EmptySet DEF Sound, Owed, Pending, Replacing, CountSteps
    <2>4. pc'[t] = "evict"
        BY <2>1, <1>0 DEF TypeOK
    <2>5. Sound(t)'
        BY <2>1, <2>3, <2>4, <1>0a, FS_EmptySet
           DEF Sound, Owed, Pending, Replacing, Within, NeedsFile, CountSteps
    <2> QED
        BY <2>1, <2>2, <2>4, <2>5, <1>0, <1>8, Alone DEF TypeOK, Changing, PutSteps
<1>9. ASSUME NEW t \in Threads, Evict(t), ~overlapped PROVE CountInv'
    <2> DEFINE f == Head(order)
    <2>1. /\ pc[t] = "evict" /\ pc[t] \in Changing /\ pc' = [pc EXCEPT ![t] = "load"]
          /\ count' = [count EXCEPT ![t].delta = -Cardinality(Entry(f)), ![t].then = "evict"]
          /\ nodes' = nodes \ NodesOf(f) /\ order # <<>>
          /\ UNCHANGED <<node_count, file, raised>>
        BY <1>9 DEF Evict, Add, Goto, historyVars, Changing, PutSteps
    <2>2. Sound(t) /\ raised \subseteq {"get"}
        BY <2>1, <1>9, <1>0b
    <2>3. node_count = Cardinality(nodes)
        BY <2>1, <2>2, <1>0a, FS_EmptySet DEF Sound, Owed, Pending, Replacing, CountSteps
    <2>4. f \in Files
        BY <2>1, <1>0, HeadTailProperties DEF TypeOK
    <2> HIDE DEF f
    <2>5. Cardinality(nodes') = Cardinality(nodes) - Cardinality(Entry(f)) /\ Cardinality(Entry(f)) \in Nat
        BY <2>1, <2>4, <1>0, PopSize, Sizes
    <2>6. pc'[t] = "load" /\ count'[t].delta = -Cardinality(Entry(f)) /\ count'[t].then = "evict"
        BY <2>1, <1>0 DEF TypeOK
    <2>7. Pending(t)' = {} /\ Owed(t)' = -Cardinality(Entry(f))
        BY <2>6 DEF Pending, Replacing, Owed, CountSteps
    <2>8. Sound(t)'
        BY <2>1, <2>3, <2>5, <2>6, <2>7, <1>0a, FS_EmptySet DEF Sound, Within, NeedsFile
    <2> QED
        BY <2>1, <2>2, <2>6, <2>8, <1>0, <1>9, Alone DEF TypeOK, Changing, CountSteps
<1>10. ASSUME NEW t \in Threads, EndPut(t), ~overlapped PROVE CountInv'
    <2>1. /\ pc[t] = "evict" /\ pc[t] \in Changing /\ pc' = [pc EXCEPT ![t] = "idle"]
          /\ node_count <= Capacity
          /\ UNCHANGED <<nodes, node_count, raised>>
        BY <1>10 DEF EndPut, Return, Goto, cacheVars, Changing, PutSteps
    <2>2. Sound(t) /\ raised \subseteq {"get"}
        BY <2>1, <1>10, <1>0b
    <2>3. node_count = Cardinality(nodes)
        BY <2>1, <2>2, <1>0a, FS_EmptySet DEF Sound, Owed, Pending, Replacing, CountSteps
    <2>4. pc'[t] = "idle" /\ Exact'
        BY <2>1, <2>3, <1>0 DEF TypeOK, Exact
    <2> QED
        BY <2>1, <2>2, <2>4, <1>0, <1>10, Alone DEF TypeOK, Changing, PutSteps, CountSteps
<1>11. ASSUME NEW t \in Threads, RemovePop(t), ~overlapped PROVE CountInv'
    <2> DEFINE f == file[t]
    <2>1. /\ pc[t] = "remove" /\ pc[t] \in Changing /\ pc' = [pc EXCEPT ![t] = "load"]
          /\ count' = [count EXCEPT ![t].delta = -Cardinality(Entry(f)), ![t].then = "idle"]
          /\ Pop(f)
          /\ UNCHANGED <<node_count, file, raised>>
        BY <1>11 DEF RemovePop, Add, Goto, historyVars, Changing
    <2>2. Sound(t) /\ raised \subseteq {"get"}
        BY <2>1, <1>11, <1>0b
    <2>3. node_count = Cardinality(nodes) /\ node_count <= Capacity
        BY <2>1, <2>2, <1>0a, FS_EmptySet DEF Sound, Owed, Pending, Replacing, Within, CountSteps
    <2>4. f \in Files
        BY <1>0a
    <2> HIDE DEF f
    <2>5. Cardinality(nodes') = Cardinality(nodes) - Cardinality(Entry(f)) /\ Cardinality(Entry(f)) \in Nat
        BY <2>1, <2>4, <1>0, PopSize, PopTakes, Sizes
    <2>6. pc'[t] = "load" /\ count'[t].delta = -Cardinality(Entry(f)) /\ count'[t].then = "idle"
        BY <2>1, <1>0 DEF TypeOK
    <2>7. Pending(t)' = {} /\ Owed(t)' = -Cardinality(Entry(f))
        BY <2>6 DEF Pending, Replacing, Owed, CountSteps
    <2>8. Sound(t)'
        BY <2>1, <2>3, <2>5, <2>6, <2>7, <1>0, <1>0a, FS_EmptySet DEF Sound, NeedsFile
    <2> QED
        BY <2>1, <2>2, <2>6, <2>8, <1>0, <1>11, Alone DEF TypeOK, Changing, CountSteps
<1>12. ASSUME NEW t \in Threads, LoadCount(t), ~overlapped PROVE CountInv'
    <2>1. /\ pc[t] = "load" /\ pc[t] \in Changing /\ pc' = [pc EXCEPT ![t] = "add"]
          /\ count' = [count EXCEPT ![t].read = node_count]
          /\ UNCHANGED <<order, nodes, node_count, file, raised>>
        BY <1>12 DEF LoadCount, Goto, cacheVars, historyVars, Changing, CountSteps
    <2>2. Sound(t) /\ raised \subseteq {"get"}
        BY <2>1, <1>12, <1>0b
    <2>3. /\ pc'[t] = "add" /\ count'[t].read = node_count
          /\ count'[t].delta = count[t].delta /\ count'[t].then = count[t].then
        BY <2>1, <1>0 DEF TypeOK
    <2>4. Owed(t)' = Owed(t) /\ Pending(t)' = Pending(t)
        BY <2>1, <2>3 DEF Owed, Pending, Replacing, Entry, NodesOf, CountSteps
    <2>5. (Within(t)' => Within(t)) /\ (NeedsFile(t)' => NeedsFile(t))
        BY <2>1, <2>3 DEF Within, NeedsFile, CountSteps
    <2>6. Sound(t)'
        BY <2>1, <2>2, <2>3, <2>4, <2>5 DEF Sound, IsCached
    <2> QED
        BY <2>1, <2>2, <2>3, <2>6, <1>0, <1>12, Alone DEF TypeOK, Changing, CountSteps
<1>13. ASSUME NEW t \in Threads, StoreCount(t), ~overlapped PROVE CountInv'
    <2>1. /\ pc[t] = "add" /\ pc[t] \in Changing /\ pc' = [pc EXCEPT ![t] = count[t].then]
          /\ node_count' = count[t].read + count[t].delta
          /\ UNCHANGED <<order, nodes, file, count, raised>>
        BY <1>13 DEF StoreCount, Return, Goto, Changing, CountSteps
    <2>2. Sound(t) /\ raised \subseteq {"get"}
        BY <2>1, <1>13, <1>0b
    <2>3. node_count' = Cardinality(nodes) - Cardinality(Pending(t))
        BY <2>1, <2>2 DEF Sound, Owed, CountSteps
    <2>4. pc'[t] = count[t].then
        BY <2>1, <1>0 DEF TypeOK
    <2>5. CASE count[t].then = "idle"
        <3>1. Pending(t) = {} /\ node_count' <= Capacity
            BY <2>1, <2>2, <2>5 DEF Sound, Owed, Pending, Replacing, Within, CountSteps
        <3>2. Exact'
            BY <3>1, <2>1, <2>3, <1>0a, FS_EmptySet DEF Exact
        <3> QED
            BY <3>2, <2>1, <2>2, <2>4, <2>5, <1>0, <1>13, Alone DEF TypeOK, Changing, PutSteps, CountSteps
    <2>6. CASE count[t].then # "idle"
        <3>1. pc'[t] \in {"store", "touch", "evict"}
            BY <2>4, <2>6, <1>0a
        <3>2. Owed(t)' = 0 /\ Pending(t)' = Pending(t)
            BY <2>1, <2>4, <3>1 DEF Owed, Pending, Replacing, Entry, NodesOf, CountSteps
        <3>3. ~Within(t)' /\ (NeedsFile(t)' => IsCached(file[t])')
            BY <2>1, <2>2, <2>4, <3>1 DEF Sound, Within, NeedsFile, IsCached, CountSteps
        <3>4. node_count' \in Int
            BY <2>1, <1>0a
        <3>5. Sound(t)'
            BY <3>1, <3>2, <3>3, <3>4, <2>1, <2>3 DEF Sound
        <3> QED
            BY <3>1, <3>5, <2>1, <2>2, <1>0, <1>13, Alone DEF TypeOK, Changing, PutSteps
    <2> QED
        BY <2>5, <2>6
<1>14. ASSUME NEW t \in Threads, RaiseMissing(t), ~overlapped PROVE CountInv'
    <2>1. CASE pc[t] = "get"
        <3>1. /\ pc' = [pc EXCEPT ![t] = "idle"] /\ raised' = raised \cup {"get"}
              /\ UNCHANGED <<order, nodes, node_count, file, count, overlapped>>
            BY <1>14, <2>1 DEF RaiseMissing, Raise, Return, Goto, cacheVars
        <3>2. \A s \in Threads : pc[s] \in Changing \/ pc'[s] \in Changing => pc'[s] = pc[s]
            BY <3>1, <2>1, <1>0 DEF TypeOK, Changing, PutSteps, CountSteps
        <3> QED
            BY <3>1, <3>2, Beside
    <2>2. CASE pc[t] # "get"
        <3>1. pc[t] \in {"old", "touch", "remove"} /\ ~IsCached(file[t])
            BY <1>14, <2>2 DEF RaiseMissing
        <3>2. Sound(t)
            BY <3>1, <1>14, <1>0b DEF Changing, PutSteps
        <3> QED
            BY <3>1, <3>2 DEF Sound, NeedsFile
    <2> QED
        BY <2>1, <2>2
<1>15. ASSUME NEW t \in Threads, RaiseEmpty(t), ~overlapped PROVE CountInv'
    <2>1. pc[t] = "evict" /\ node_count > Capacity /\ order = <<>>
        BY <1>15 DEF RaiseEmpty
    <2>2. Sound(t)
        BY <2>1, <1>15, <1>0b DEF Changing, PutSteps
    <2>3. node_count = Cardinality(nodes)
        BY <2>1, <2>2, <1>0a, FS_EmptySet DEF Sound, Owed, Pending, Replacing, CountSteps
    <2>4. nodes = {}
        BY <2>1, <1>0 DEF Keys, ToSet
    <2> QED
        BY <2>1, <2>3, <2>4, <1>0, FS_EmptySet
<1>16. CASE UNCHANGED vars
    BY <1>16, Beside DEF vars, cacheVars, callVars, historyVars
<1>17. CASE overlapped
    <2>1. overlapped'
        BY <1>17 DEF Next, vars, historyVars, CallGet, CallRemove, CallPut, Call, GetTouch, FindOld,
             SubtractOld, Store, PutTouch, Evict, EndPut, RemovePop, LoadCount, StoreCount,
             RaiseMissing, RaiseEmpty, Raise
    <2> QED
        BY <2>1 DEF CountInv
<1> QED
    BY <1>1, <1>2, <1>3, <1>4, <1>5, <1>6, <1>7, <1>8, <1>9, <1>10, <1>11, <1>12, <1>13, <1>14,
       <1>15, <1>16, <1>17 DEF Next

(* As long as no two calls that change the cache overlapped, the counter   *)
(* is exact and within the capacity between them.                          *)
THEOREM CountIsExact == Spec => []CountExact
<1>1. CountInv => CountExact
    BY DEF CountInv, CountExact, Exact
<1> QED
    BY <1>1, InitTypeInv, NextTypeInv, InitCountInv, NextCountInv, PTL DEF Spec

(* Under the same condition neither put nor remove raises KeyError. *)
THEOREM PutNeverRaises == Spec => []OnlyGetRaises
<1>1. CountInv => OnlyGetRaises
    BY DEF CountInv, OnlyGetRaises
<1> QED
    BY <1>1, InitTypeInv, NextTypeInv, InitCountInv, NextCountInv, PTL DEF Spec
-----------------------------------------------------------------------------
(* Called by one thread, the cache implements LRUCache.  Between two        *)
(* returns of its calls the cache is that of the last return, with the part *)
(* of the running call that is done: what follows a pop of remove is        *)
(* nothing, what follows the storing of put is the move to the end, and     *)
(* then as many files are dropped as were needed so far.                    *)
OneThread == \A s, t \in Threads : s = t

Due(t, s) == pc[t] = s \/ (pc[t] \in CountSteps /\ count[t].then = s)
Ahead(t) == pc[t] \in {"idle", "get", "put", "old", "remove"} \/ Due(t, "store")
Putting(t) == pc[t] \in {"put", "old"} \/ Due(t, "store") \/ Due(t, "touch") \/ Due(t, "evict")

Touched(s, f) == Append(RemoveFirst(s, f), f)
Stored(s, f) == IF f \in ToSet(s) THEN s ELSE Append(s, f)
Filled(t) == (shown.nodes \ NodesOf(file[t])) \cup new[t]
Kept(ns, s, k) == {n \in ns : \A j \in 1..k : FileOf[n] # s[j]}

Evicted(t) ==
    \E k \in 0..Len(shown.order) :
       /\ order = SubSeq(Touched(shown.order, file[t]), k + 1, Len(Touched(shown.order, file[t])))
       /\ nodes = Kept(Filled(t), Touched(shown.order, file[t]), k)
       /\ k > 0 => Cardinality(Kept(Filled(t), Touched(shown.order, file[t]), k - 1)) > Capacity

Progress(t) ==
    /\ Ahead(t) => order = shown.order /\ nodes = shown.nodes
    /\ pc[t] \in CountSteps /\ count[t].then = "idle" =>
           /\ file[t] \in ToSet(shown.order)
           /\ order = RemoveFirst(shown.order, file[t])
           /\ nodes = shown.nodes \ NodesOf(file[t])
    /\ Due(t, "touch") => order = Stored(shown.order, file[t]) /\ nodes = Filled(t)
    /\ Due(t, "evict") => Evicted(t)

ShownInv ==
    /\ shown \in [order : Seq(Files), nodes : SUBSET Nodes] /\ NoRepetition(shown.order)
    /\ ~overlapped
    /\ \A t \in Threads :
         /\ pc[t] = "get" => IsCached(file[t])
         /\ Putting(t) => new[t] \subseteq NodesOf(file[t]) /\ Cardinality(new[t]) <= Capacity
         /\ Progress(t)

(* Removal of a file that occurs at most once. *)
LEMMA RemoveFirstAt ==
    ASSUME NEW S, NEW s \in Seq(S), NoRepetition(s), NEW i \in DOMAIN s
    PROVE  RemoveFirst(s, s[i]) = RemoveAt(s, i)
<1> DEFINE I == {j \in 1..Len(s) : s[j] = s[i]}
<1>1. i \in 1..Len(s) /\ DOMAIN s = 1..Len(s)
    OBVIOUS
<1>2. I = {i}
    BY <1>1 DEF NoRepetition
<1>3. Min({i}) = i
    BY <1>1 DEF Min
<1>4. SelectInSeq(s, LAMBDA v : v = s[i]) = IF I # {} THEN Min(I) ELSE 0
    BY DEF SelectInSeq
<1>5. SelectInSeq(s, LAMBDA v : v = s[i]) = i
    BY <1>2, <1>3, <1>4
<1> QED
    BY <1>1, <1>5 DEF RemoveFirst

LEMMA RemoveFirstNothing ==
    ASSUME NEW S, NEW s \in Seq(S), NEW e, e \notin ToSet(s)
    PROVE  RemoveFirst(s, e) = s
    BY DEF RemoveFirst, ToSet

LEMMA RemoveFirstElements ==
    ASSUME NEW S, NEW s \in Seq(S), NoRepetition(s), NEW e \in S
    PROVE  /\ RemoveFirst(s, e) \in Seq(S) /\ NoRepetition(RemoveFirst(s, e))
           /\ ToSet(RemoveFirst(s, e)) = ToSet(s) \ {e}
           /\ Len(RemoveFirst(s, e)) <= Len(s)
<1>1. CASE e \in ToSet(s)
    <2>1. PICK i \in DOMAIN s : s[i] = e
        BY <1>1 DEF ToSet
    <2>2. RemoveFirst(s, e) = RemoveAt(s, i)
        BY <2>1, RemoveFirstAt
    <2>3. /\ RemoveAt(s, i) \in Seq(S) /\ Len(RemoveAt(s, i)) = Len(s) - 1
          /\ NoRepetition(RemoveAt(s, i)) /\ ToSet(RemoveAt(s, i)) = ToSet(s) \ {s[i]}
        BY RemoveAtIs, RemoveAtElements
    <2>4. Len(s) - 1 <= Len(s)
        OBVIOUS
    <2> QED
        BY <2>1, <2>2, <2>3, <2>4
<1>2. CASE e \notin ToSet(s)
    <2>1. RemoveFirst(s, e) = s
        BY <1>2, RemoveFirstNothing
    <2> QED
        BY <1>2, <2>1
<1> QED
    BY <1>1, <1>2

(* A file moved or put to the end is there once, and last. *)
LEMMA TouchedIs ==
    ASSUME NEW S, NEW s \in Seq(S), NoRepetition(s), NEW e \in S
    PROVE  /\ Touched(s, e) \in Seq(S) /\ NoRepetition(Touched(s, e))
           /\ Len(Touched(s, e)) >= 1 /\ Len(Touched(s, e)) <= Len(s) + 1
           /\ Touched(s, e)[Len(Touched(s, e))] = e
<1> DEFINE r == RemoveFirst(s, e)
<1>1. r \in Seq(S) /\ NoRepetition(r) /\ e \notin ToSet(r) /\ Len(r) <= Len(s)
    BY RemoveFirstElements
<1>2. Touched(s, e) = Append(r, e)
    BY DEF Touched
<1> HIDE DEF r
<1>3. /\ Append(r, e) \in Seq(S) /\ Len(Append(r, e)) = Len(r) + 1
      /\ Append(r, e)[Len(r) + 1] = e /\ Len(r) \in Nat
    BY <1>1
<1>4. NoRepetition(Append(r, e))
    BY <1>1, AppendElements
<1> QED
    BY <1>1, <1>2, <1>3, <1>4

LEMMA TouchedStored ==
    ASSUME NEW S, NEW s \in Seq(S), NoRepetition(s), NEW e \in S
    PROVE  Touched(Stored(s, e), e) = Touched(s, e)
<1>1. CASE e \in ToSet(s)
    BY <1>1 DEF Stored
<1>2. CASE e \notin ToSet(s)
    <2> DEFINE a == Append(s, e)
               n == Len(s) + 1
    <2>1. /\ a \in Seq(S) /\ Len(a) = n /\ n \in DOMAIN a /\ a[n] = e
          /\ \A i \in 1..Len(s) : a[i] = s[i]
        OBVIOUS
    <2>2. NoRepetition(a)
        BY <1>2, AppendElements
    <2> HIDE DEF a
    <2>3. RemoveFirst(a, e) = RemoveAt(a, n)
        BY <2>1, <2>2, RemoveFirstAt
    <2>4. /\ RemoveAt(a, n) \in Seq(S) /\ Len(RemoveAt(a, n)) = Len(a) - 1
          /\ \A j \in 1..(Len(a) - 1) : RemoveAt(a, n)[j] = IF j < n THEN a[j] ELSE a[j + 1]
        BY <2>1, RemoveAtIs
    <2>5. Len(RemoveAt(a, n)) = Len(s) /\ \A j \in 1..Len(s) : RemoveAt(a, n)[j] = s[j]
        BY <2>1, <2>4
    <2>6. RemoveAt(a, n) = s
        BY <2>4, <2>5
    <2>7. RemoveFirst(s, e) = s /\ Stored(s, e) = a
        BY <1>2, RemoveFirstNothing DEF Stored, a
    <2> QED
        BY <2>3, <2>6, <2>7 DEF Touched
<1> QED
    BY <1>1, <1>2

LEMMA MovedIsTouched ==
    ASSUME TypeOK, NEW f \in Files, MoveToEnd(f)
    PROVE  f \in ToSet(order) /\ order' = Touched(order, f)
<1>1. order \in Seq(Files) /\ NoRepetition(order)
    BY DEF TypeOK, NoRepetition
<1>2. PICK i \in DOMAIN order : order[i] = f /\ order' = Append(RemoveAt(order, i), f)
    BY DEF MoveToEnd
<1>3. RemoveFirst(order, f) = RemoveAt(order, i)
    BY <1>1, <1>2, RemoveFirstAt
<1> QED
    BY <1>2, <1>3 DEF Touched, ToSet

LEMMA PoppedIsRemoved ==
    ASSUME TypeOK, NEW f \in Files, Pop(f)
    PROVE  f \in ToSet(order) /\ order' = RemoveFirst(order, f) /\ nodes' = nodes \ NodesOf(f)
<1>1. order \in Seq(Files) /\ NoRepetition(order)
    BY DEF TypeOK, NoRepetition
<1>2. PICK i \in DOMAIN order : order[i] = f /\ order' = RemoveAt(order, i)
    BY DEF Pop
<1>3. RemoveFirst(order, f) = RemoveAt(order, i)
    BY <1>1, <1>2, RemoveFirstAt
<1> QED
    BY <1>2, <1>3 DEF Pop, ToSet

LEMMA InitShown == Init => ShownInv
<1> SUFFICES ASSUME Init PROVE ShownInv
    OBVIOUS
<1>1. shown = [order |-> <<>>, nodes |-> {}] /\ order = <<>> /\ nodes = {} /\ ~overlapped
    BY DEF Init
<1>2. shown \in [order : Seq(Files), nodes : SUBSET Nodes] /\ NoRepetition(shown.order)
    BY <1>1 DEF NoRepetition
<1>3. ASSUME NEW t \in Threads PROVE pc[t] = "idle"
    BY DEF Init
<1> QED
    BY <1>1, <1>2, <1>3 DEF ShownInv, Progress, Due, Ahead, Putting, CountSteps

(* A step of a call that does not return. *)
LEMMA Going ==
    ASSUME OneThread, ShownInv, NEW t \in Threads, shown' = shown, overlapped' = overlapped,
           pc'[t] = "get" => IsCached(file[t])',
           Putting(t)' => new'[t] \subseteq NodesOf(file'[t]) /\ Cardinality(new'[t]) <= Capacity,
           Progress(t)'
    PROVE  ShownInv' /\ UNCHANGED <<shown.order, shown.nodes>>
<1>1. \A s \in Threads : s = t
    BY DEF OneThread
<1>2. NodesOf(file'[t]) = NodesOf(file[t])' /\ NoRepetition(shown.order)'
    BY DEF ShownInv, NodesOf, NoRepetition
<1> QED
    BY <1>1, <1>2 DEF ShownInv

LEMMA PartsStay ==
    ASSUME NEW t, UNCHANGED <<order, nodes, file, new, shown>>
    PROVE  /\ Evicted(t)' <=> Evicted(t)
           /\ Stored(shown.order, file[t])' = Stored(shown.order, file[t])
           /\ RemoveFirst(shown.order, file[t])' = RemoveFirst(shown.order, file[t])
           /\ Filled(t)' = Filled(t) /\ NodesOf(file[t])' = NodesOf(file[t])
<1>1. /\ Filled(t)' = Filled(t) /\ NodesOf(file[t])' = NodesOf(file[t])
      /\ RemoveFirst(shown.order, file[t])' = RemoveFirst(shown.order, file[t])
      /\ Stored(shown.order, file[t])' = Stored(shown.order, file[t])
      /\ Touched(shown.order, file[t])' = Touched(shown.order, file[t])
    BY DEF Filled, NodesOf, Touched, Stored
<1> QED
    BY <1>1 DEF Evicted, Kept

(* A call returns. *)
LEMMA Returned ==
    ASSUME OneThread, TypeInv', ShownInv, NEW t \in Threads, pc'[t] = "idle",
           overlapped' = overlapped, shown' = [order |-> order', nodes |-> nodes']
    PROVE  ShownInv' /\ shown'.order = order' /\ shown'.nodes = nodes'
<1>1. shown'.order = order' /\ shown'.nodes = nodes'
    OBVIOUS
<1>2. /\ order' \in Seq(Files) /\ nodes' \subseteq Nodes
      /\ \A i, j \in DOMAIN order' : order'[i] = order'[j] => i = j
    BY DEF TypeInv, TypeOK
<1>3. shown' \in [order : Seq(Files), nodes : SUBSET Nodes] /\ NoRepetition(shown.order)'
    BY <1>1, <1>2 DEF NoRepetition
<1>4. \A s \in Threads : pc'[s] = "idle"
    BY DEF OneThread
<1> QED
    BY <1>1, <1>3, <1>4 DEF ShownInv, Progress, Due, Ahead, Putting, CountSteps

(* The cache is exact at each test of its counter. *)
LEMMA CountedAtTest ==
    ASSUME TypeInv, CountInv, ~overlapped, NEW t \in Threads, pc[t] = "evict"
    PROVE  node_count = Cardinality(nodes)
<1>1. Sound(t)
    BY DEF CountInv, Changing, PutSteps
<1>2. Pending(t) = {} /\ Owed(t) = 0
    BY DEF Pending, Replacing, Owed, CountSteps
<1>3. Cardinality(nodes) \in Nat /\ Cardinality({}) = 0 /\ node_count \in Int
    BY Sizes, FS_EmptySet DEF TypeInv, TypeOK
<1> QED
    BY <1>1, <1>2, <1>3 DEF Sound

LEMMA CallShown ==
    ASSUME OneThread, TypeInv, ShownInv, NEW t \in Threads, NEW f \in Files,
           NEW method \in {"get", "put", "remove"}, NEW goes \in BOOLEAN,
           Call(t, f, method, goes),
           goes /\ method = "get" => IsCached(f),
           goes /\ method = "put" => new'[t] \subseteq NodesOf(f) /\ Cardinality(new'[t]) <= Capacity
    PROVE  ShownInv' /\ UNCHANGED <<shown.order, shown.nodes>>
<1>0. TypeOK
    BY DEF TypeInv
<1>1. /\ pc[t] = "idle" /\ file' = [file EXCEPT ![t] = f] /\ UNCHANGED <<order, nodes, count, shown>>
      /\ pc' = IF goes THEN [pc EXCEPT ![t] = method] ELSE pc
    BY DEF Call, cacheVars
<1>2. pc'[t] = (IF goes THEN method ELSE "idle") /\ file'[t] = f
    BY <1>0, <1>1 DEF TypeOK
<1>3. overlapped' = overlapped
    <2>1. \A s \in Threads : pc[s] \notin Changing
        BY <1>1 DEF OneThread, Changing, PutSteps, CountSteps
    <2> QED
        BY <1>0, <2>1 DEF Call, ShownInv, TypeOK
<1>4. Progress(t)
    BY DEF ShownInv
<1>5. Ahead(t)
    BY <1>1 DEF Ahead
<1>6. pc'[t] \in {"idle", "get", "put", "remove"}
    BY <1>2
<1>7. Progress(t)'
    BY <1>1, <1>4, <1>5, <1>6 DEF Progress, Due, Ahead, CountSteps
<1>8. Putting(t)' => goes /\ method = "put"
    BY <1>2 DEF Putting, Due, CountSteps
<1>9. pc'[t] = "get" => goes /\ method = "get"
    BY <1>2
<1>10. IsCached(f)' <=> IsCached(f)
    BY <1>1 DEF IsCached
<1>11. pc'[t] = "get" => IsCached(file[t])'
    BY <1>1, <1>2, <1>9 DEF IsCached
<1>12. Putting(t)' => new'[t] \subseteq NodesOf(file'[t]) /\ Cardinality(new'[t]) <= Capacity
    BY <1>2, <1>8
<1> QED
    BY <1>1, <1>3, <1>7, <1>11, <1>12, Going

LEMMA PrefixElements ==
    ASSUME NEW S, NEW s \in Seq(S), NEW k \in 0..Len(s)
    PROVE  /\ SubSeq(s, 1, k) \in Seq(S)
           /\ ToSet(SubSeq(s, 1, k)) = {s[j] : j \in 1..k}
<1>1. k \in Nat /\ Len(s) \in Nat /\ k <= Len(s)
    OBVIOUS
<1>2. \A j \in 1..k : s[j] \in S
    BY <1>1
<1>3. SubSeq(s, 1, k) = [j \in 1..k |-> s[j]]
    BY <1>1
<1>4. SubSeq(s, 1, k) \in Seq(S) /\ DOMAIN SubSeq(s, 1, k) = 1..k
    BY <1>1, <1>2, <1>3
<1>5. \A j \in 1..k : SubSeq(s, 1, k)[j] = s[j]
    BY <1>3
<1> QED
    BY <1>4, <1>5 DEF ToSet

(* What remains when the files at the front of a sequence are dropped. *)
LEMMA KeptIs ==
    ASSUME NEW s \in Seq(Files), NEW ns \in SUBSET Nodes, NEW k \in 0..Len(s)
    PROVE  Kept(ns, s, k) = ns \ LRU!NodesOfAll(SubSeq(s, 1, k))
<1>1. ToSet(SubSeq(s, 1, k)) = {s[j] : j \in 1..k}
    BY PrefixElements
<1>2. LRU!NodesOfAll(SubSeq(s, 1, k)) = {n \in Nodes : FileOf[n] \in {s[j] : j \in 1..k}}
    BY <1>1 DEF LRU!NodesOfAll, LRU!ToSet, ToSet
<1>3. ASSUME NEW n \in ns
      PROVE  n \in Kept(ns, s, k) <=> n \notin LRU!NodesOfAll(SubSeq(s, 1, k))
    BY <1>2 DEF Kept
<1> QED
    BY <1>3 DEF Kept

LEMMA KeptNext ==
    ASSUME NEW s, NEW ns \in SUBSET Nodes, NEW k \in Nat
    PROVE  Kept(ns, s, k + 1) = Kept(ns, s, k) \ NodesOf(s[k + 1])
<1>1. 1..(k + 1) = (1..k) \cup {k + 1}
    OBVIOUS
<1> QED
    BY <1>1 DEF Kept, NodesOf

LEMMA SuffixIs ==
    ASSUME NEW S, NEW s \in Seq(S), NEW k \in 0..Len(s)
    PROVE  /\ SubSeq(s, k + 1, Len(s)) \in Seq(S)
           /\ Len(SubSeq(s, k + 1, Len(s))) = Len(s) - k
           /\ \A j \in 1..(Len(s) - k) : SubSeq(s, k + 1, Len(s))[j] = s[k + j]
<1>1. k \in Nat /\ Len(s) \in Nat /\ k <= Len(s)
    OBVIOUS
<1>2. \A j \in 1..(Len(s) - k) : k + j \in 1..Len(s)
    BY <1>1
<1>3. \A j \in (k + 1)..Len(s) : j \in 1..Len(s)
    BY <1>1
<1>4. SubSeq(s, k + 1, Len(s)) \in Seq(S)
    BY <1>1, <1>3, SubSeqProperties
<1>5. Len(SubSeq(s, k + 1, Len(s))) = Len(s) - k
    BY <1>1, <1>3, SubSeqProperties
<1> QED
    BY <1>1, <1>2, <1>4, <1>5, SubSeqProperties

LEMMA SuffixTail ==
    ASSUME NEW S, NEW s \in Seq(S), NEW k \in 0..Len(s), k < Len(s)
    PROVE  /\ SubSeq(s, k + 1, Len(s)) # <<>>
           /\ Head(SubSeq(s, k + 1, Len(s))) = s[k + 1]
           /\ Tail(SubSeq(s, k + 1, Len(s))) = SubSeq(s, k + 2, Len(s))
<1> DEFINE a == SubSeq(s, k + 1, Len(s))
           b == SubSeq(s, (k + 1) + 1, Len(s))
<1>1. k \in Nat /\ Len(s) \in Nat /\ k + 1 \in 0..Len(s) /\ (k + 1) + 1 = k + 2
    OBVIOUS
<1>2. a \in Seq(S) /\ Len(a) = Len(s) - k /\ \A j \in 1..(Len(s) - k) : a[j] = s[k + j]
    BY SuffixIs
<1>3. b \in Seq(S) /\ Len(b) = Len(s) - (k + 1) /\ \A j \in 1..(Len(s) - (k + 1)) : b[j] = s[(k + 1) + j]
    BY <1>1, SuffixIs
<1> HIDE DEF a, b
<1>4. Len(a) >= 1 /\ 1 \in 1..(Len(s) - k)
    BY <1>1, <1>2
<1>5. a # <<>> /\ Head(a) = s[k + 1]
    BY <1>2, <1>4
<1>6. Tail(a) \in Seq(S) /\ Len(Tail(a)) = Len(b) /\ \A j \in 1..Len(b) : Tail(a)[j] = a[j + 1]
    BY <1>1, <1>2, <1>3, <1>4, <1>5
<1>7. \A j \in 1..Len(b) : j + 1 \in 1..(Len(s) - k) /\ k + (j + 1) = (k + 1) + j
    BY <1>1, <1>3
<1>8. \A j \in 1..Len(b) : Tail(a)[j] = b[j]
    BY <1>2, <1>3, <1>6, <1>7
<1>9. Tail(a) = b
    BY <1>3, <1>6, <1>8, SeqEqual
<1> QED
    BY <1>1, <1>5, <1>9 DEF a, b

LEMMA SameRemoval == ASSUME NEW s, NEW f PROVE LRU!RemoveFirst(s, f) = RemoveFirst(s, f)
    BY DEF LRU!RemoveFirst, RemoveFirst, LRU!SelectInSeq, SelectInSeq, LRU!Min, Min,
           LRU!RemoveAt, RemoveAt

LEMMA SameSize == ASSUME NEW S PROVE LRU!Cardinality(S) = Cardinality(S)
    BY DEF LRU!Cardinality, Cardinality

(* The next file put drops is not the one it has put: that one fits. *)
LEMMA EvictShown ==
    ASSUME OneThread, TypeInv, CountInv, ShownInv, NEW t \in Threads, Evict(t)
    PROVE  Evicted(t)'
<1> DEFINE s == Touched(shown.order, file[t])
           F == Filled(t)
<1>0. /\ TypeOK /\ Keys /\ pc[t] = "evict" /\ node_count > Capacity /\ Capacity \in Nat
      /\ order' = Tail(order) /\ nodes' = nodes \ NodesOf(Head(order))
      /\ UNCHANGED <<file, new, shown>>
    BY NodeLRUCacheAssumption DEF TypeInv, Evict, historyVars
<1>1. /\ Evicted(t) /\ new[t] \subseteq NodesOf(file[t]) /\ Cardinality(new[t]) <= Capacity
      /\ shown.order \in Seq(Files) /\ NoRepetition(shown.order) /\ shown.nodes \subseteq Nodes
    BY <1>0 DEF ShownInv, Progress, Putting, Due
<1>2. file[t] \in Files /\ new[t] \subseteq Nodes /\ F \subseteq Nodes
    BY <1>0, <1>1 DEF TypeOK, Filled
<1>3. /\ s \in Seq(Files) /\ NoRepetition(s) /\ Len(s) >= 1 /\ Len(s) <= Len(shown.order) + 1
      /\ s[Len(s)] = file[t]
    BY ZenonT(60), <1>1, <1>2, TouchedIs
<1>4. PICK k \in 0..Len(shown.order) : /\ order = SubSeq(s, k + 1, Len(s))
                                       /\ nodes = Kept(F, s, k)
    BY <1>1 DEF Evicted
<1>5. Evicted(t)' <=>
        \E m \in 0..Len(shown.order) :
          /\ order' = SubSeq(s, m + 1, Len(s))
          /\ nodes' = Kept(F, s, m)
          /\ m > 0 => Cardinality(Kept(F, s, m - 1)) > Capacity
    BY <1>0 DEF Evicted, Touched, Filled, Kept, NodesOf
<1> HIDE DEF s
<1>6. Cardinality(nodes) > Capacity
    BY <1>0, CountedAtTest DEF ShownInv
<1>7. k < Len(s) - 1
    <2> SUFFICES ASSUME k >= Len(s) - 1 PROVE FALSE
        BY <1>3
    <2>1. ASSUME NEW n \in nodes PROVE n \in new[t]
        <3>1. FileOf[n] \in ToSet(order) /\ n \in F
            BY <1>0, <1>4, <2>1 DEF Keys, Kept
        <3>2. PICK j \in DOMAIN order : order[j] = FileOf[n]
            BY <3>1 DEF ToSet
        <3>3. order \in Seq(Files) /\ j \in 1..Len(order) /\ Len(s) \in Nat /\ k \in Nat
            BY <1>0, <1>3, <3>2 DEF TypeOK
        <3>4. k \in 0..Len(s)
            <4>1. CASE k \in 0..Len(s)
                BY <4>1
            <4>2. CASE k > Len(s)
                <5>1. SubSeq(s, k + 1, Len(s)) = <<>>
                    BY <3>3, <4>2, SubSeqEmpty
                <5> QED
                    BY <1>4, <3>3, <5>1
            <4> QED
                BY <3>3, <4>1, <4>2
        <3>5. /\ Len(order) = Len(s) - k
              /\ \A i \in 1..(Len(s) - k) : order[i] = s[k + i]
            BY <1>3, <1>4, <3>4, SuffixIs
        <3>6. j = 1 /\ k + 1 = Len(s)
            BY <3>3, <3>4, <3>5
        <3>7. FileOf[n] = file[t]
            BY <1>3, <3>2, <3>3, <3>5, <3>6
        <3> QED
            BY <1>2, <3>1, <3>7 DEF Filled, NodesOf
    <2>2. nodes \subseteq new[t] /\ IsFiniteSet(new[t]) /\ Cardinality(new[t]) \in Nat
          /\ Cardinality(nodes) \in Nat
        BY <1>0, <2>1, Sizes
    <2>3. Cardinality(nodes) <= Cardinality(new[t])
        BY <2>2, FS_Subset
    <2> QED
        BY <1>0, <1>1, <1>6, <2>2, <2>3
<1>8. /\ k \in Nat /\ k \in 0..Len(s) /\ k + 1 \in 0..Len(shown.order) /\ (k + 1) + 1 = k + 2
      /\ (k + 1) - 1 = k /\ k < Len(s)
    BY <1>1, <1>3, <1>4, <1>7
<1>9. order' = SubSeq(s, (k + 1) + 1, Len(s)) /\ Head(order) = s[k + 1]
    BY <1>0, <1>3, <1>4, <1>8, SuffixTail
<1>10. nodes' = Kept(F, s, k + 1)
    BY <1>0, <1>2, <1>4, <1>8, <1>9, KeptNext
<1>11. Cardinality(Kept(F, s, (k + 1) - 1)) > Capacity
    BY <1>4, <1>6, <1>8
<1> QED
    BY <1>5, <1>8, <1>9, <1>10, <1>11

(* Put returns when what is left fits. *)
LEMMA EndPutShown ==
    ASSUME OneThread, TypeInv, CountInv, ShownInv, NEW t \in Threads, EndPut(t),
           shown'.order = order', shown'.nodes = nodes'
    PROVE  LRU!Put(file[t], new[t])
<1> DEFINE s == Touched(shown.order, file[t])
           F == Filled(t)
<1>0. /\ TypeOK /\ pc[t] = "evict" /\ node_count <= Capacity
      /\ UNCHANGED <<order, nodes>>
    BY DEF TypeInv, EndPut, cacheVars
<1>1. /\ Evicted(t) /\ Cardinality(new[t]) <= Capacity
      /\ shown.order \in Seq(Files) /\ NoRepetition(shown.order) /\ shown.nodes \subseteq Nodes
    BY <1>0 DEF ShownInv, Progress, Putting, Due
<1>2. file[t] \in Files /\ new[t] \subseteq Nodes /\ F \subseteq Nodes
    BY <1>0, <1>1 DEF TypeOK, Filled
<1>3. s \in Seq(Files) /\ Len(s) >= 1 /\ Len(s) <= Len(shown.order) + 1
    BY <1>1, <1>2, TouchedIs
<1>4. PICK k \in 0..Len(shown.order) :
          /\ order = SubSeq(s, k + 1, Len(s))
          /\ nodes = Kept(F, s, k)
          /\ k > 0 => Cardinality(Kept(F, s, k - 1)) > Capacity
    BY <1>1 DEF Evicted
<1>5. Cardinality(nodes) <= Capacity
    BY <1>0, CountedAtTest DEF ShownInv
<1>6. /\ s = Append(LRU!RemoveFirst(shown.order, file[t]), file[t])
      /\ F = (shown.nodes \ LRU!NodesOf(file[t])) \cup new[t]
    BY SameRemoval DEF Touched, Filled, LRU!NodesOf, NodesOf
<1>7. Len(shown.order) <= Len(s)
    <2>1. CASE file[t] \in ToSet(shown.order)
        <3>1. PICK i \in DOMAIN shown.order : shown.order[i] = file[t]
            BY <2>1 DEF ToSet
        <3>2. RemoveFirst(shown.order, file[t]) = RemoveAt(shown.order, i)
            BY <1>1, <3>1, RemoveFirstAt
        <3>3. /\ RemoveAt(shown.order, i) \in Seq(Files)
              /\ Len(RemoveAt(shown.order, i)) = Len(shown.order) - 1
            BY <1>1, <3>1, RemoveAtIs
        <3>4. s = Append(RemoveAt(shown.order, i), file[t])
            BY <3>2 DEF Touched
        <3>5. Len(s) = Len(RemoveAt(shown.order, i)) + 1
            BY <1>2, <3>3, <3>4
        <3> QED
            BY <1>1, <3>3, <3>5
    <2>2. CASE file[t] \notin ToSet(shown.order)
        <3>1. s = Append(shown.order, file[t])
            BY <1>1, <2>2, RemoveFirstNothing DEF Touched
        <3>2. Len(s) = Len(shown.order) + 1
            BY <1>1, <1>2, <3>1
        <3> QED
            BY <1>1, <3>2
    <2> QED
        BY <2>1, <2>2
<1> HIDE DEF s, F
<1>8. k \in Nat /\ k \in 0..Len(s) /\ (k > 0 => k - 1 \in 0..Len(s))
    BY <1>1, <1>3, <1>4, <1>7
<1>9. nodes = F \ LRU!NodesOfAll(SubSeq(s, 1, k))
    BY <1>2, <1>3, <1>4, <1>8, KeptIs
<1>10. k > 0 => Cardinality(F \ LRU!NodesOfAll(SubSeq(s, 1, k - 1))) > Capacity
    <2> SUFFICES ASSUME k > 0 PROVE Cardinality(F \ LRU!NodesOfAll(SubSeq(s, 1, k - 1))) > Capacity
        OBVIOUS
    <2>1. Kept(F, s, k - 1) = F \ LRU!NodesOfAll(SubSeq(s, 1, k - 1))
        BY <1>2, <1>3, <1>8, KeptIs
    <2> QED
        BY <1>4, <2>1
<1>11. shown'.order = SubSeq(s, k + 1, Len(s)) /\ shown'.nodes = F \ LRU!NodesOfAll(SubSeq(s, 1, k))
    BY <1>0, <1>4, <1>9
<1>12. Cardinality(F \ LRU!NodesOfAll(SubSeq(s, 1, k))) <= Capacity
    BY <1>5, <1>9
<1> DEFINE touched == Append(LRU!RemoveFirst(shown.order, file[t]), file[t])
           filled == (shown.nodes \ LRU!NodesOf(file[t])) \cup new[t]
<1>13. \E m \in 0..Len(shown.order) :
          /\ Cardinality(filled \ LRU!NodesOfAll(SubSeq(touched, 1, m))) <= Capacity
          /\ m > 0 => Cardinality(filled \ LRU!NodesOfAll(SubSeq(touched, 1, m - 1))) > Capacity
          /\ shown'.order = SubSeq(touched, m + 1, Len(touched))
          /\ shown'.nodes = filled \ LRU!NodesOfAll(SubSeq(touched, 1, m))
    BY <1>4, <1>6, <1>10, <1>11, <1>12
<1> QED
    BY <1>1, <1>13, SameSize DEF LRU!Put

ShownStep == ShownInv' /\ (LRU!Next \/ UNCHANGED <<shown.order, shown.nodes>>)

LEMMA NextShown ==
    ASSUME OneThread, TypeInv, CountInv, ShownInv, [Next]_vars, TypeInv', CountInv'
    PROVE  ShownStep
<1>0. /\ TypeOK /\ Keys /\ Args /\ ~overlapped /\ overlapped = FALSE
      /\ shown.order \in Seq(Files) /\ NoRepetition(shown.order) /\ shown.nodes \subseteq Nodes
    BY DEF TypeInv, TypeOK, ShownInv
<1>0a. ASSUME NEW t \in Threads
       PROVE  /\ Progress(t) /\ file[t] \in Files /\ new[t] \subseteq Nodes
              /\ pc[t] = "get" => IsCached(file[t])
              /\ Putting(t) => new[t] \subseteq NodesOf(file[t]) /\ Cardinality(new[t]) <= Capacity
              /\ pc[t] \in Changing => Sound(t)
              /\ \A s \in Threads : s = t
              /\ count[t].then \in {"idle", "store", "touch", "evict"}
    BY <1>0 DEF ShownInv, TypeOK, CountInv, OneThread
<1>1. CASE UNCHANGED vars
    <2>1. UNCHANGED <<order, nodes, pc, file, new, count, shown, overlapped>>
        BY <1>1 DEF vars, cacheVars, callVars, historyVars
    <2>2. ASSUME NEW t \in Threads PROVE Progress(t)'
        BY <2>1, <1>0a, PartsStay DEF Progress, Ahead, Due
    <2>3. ShownInv'
        BY <2>1, <2>2 DEF ShownInv, NoRepetition, Due, Putting, IsCached, NodesOf
    <2> QED
        BY <2>1, <2>3 DEF ShownStep
<1>2. ASSUME NEW t \in Threads, NEW n \in Nodes, CallGet(t, n) PROVE ShownStep
    <2>1. FileOf[n] \in Files /\ (n \in nodes) \in BOOLEAN
        BY NodeLRUCacheAssumption
    <2>2. n \in nodes => IsCached(FileOf[n])
        BY <1>0 DEF Keys, IsCached
    <2>3. Call(t, FileOf[n], "get", n \in nodes)
        BY <1>2 DEF CallGet
    <2> QED
        BY <2>1, <2>2, <2>3, CallShown DEF ShownStep
<1>3. ASSUME NEW t \in Threads, NEW f \in Files, CallRemove(t, f) PROVE ShownStep
    <2>1. IsCached(f) \in BOOLEAN
        BY DEF IsCached
    <2>2. Call(t, f, "remove", IsCached(f))
        BY <1>3 DEF CallRemove
    <2> QED
        BY <2>1, <2>2, CallShown DEF ShownStep
<1>4. ASSUME NEW t \in Threads, NEW f \in Files, NEW ns \in SUBSET NodesOf(f), CallPut(t, f, ns)
      PROVE ShownStep
    <2>1. (Cardinality(ns) <= Capacity) \in BOOLEAN
        OBVIOUS
    <2>2. Call(t, f, "put", Cardinality(ns) <= Capacity) /\ new' = [new EXCEPT ![t] = ns]
        BY <1>4 DEF CallPut
    <2>3. new'[t] = ns
        BY <1>0, <2>2 DEF TypeOK
    <2> QED
        BY <2>1, <2>2, <2>3, CallShown DEF ShownStep
<1>5. ASSUME NEW t \in Threads, GetTouch(t) PROVE ShownStep
    <2>1. /\ pc[t] = "get" /\ pc' = [pc EXCEPT ![t] = "idle"] /\ UNCHANGED <<nodes, overlapped>>
          /\ shown' = [order |-> order', nodes |-> nodes'] /\ MoveToEnd(file[t])
        BY <1>5 DEF GetTouch, Return, Goto
    <2>2. order = shown.order /\ nodes = shown.nodes
        BY <2>1, <1>0a DEF Progress, Ahead
    <2>3. pc'[t] = "idle"
        BY <1>0, <2>1 DEF TypeOK
    <2>4. ShownInv' /\ shown'.order = order' /\ shown'.nodes = nodes'
        BY <2>1, <2>3, Returned
    <2>5. file[t] \in ToSet(order) /\ order' = Touched(order, file[t])
        BY <1>0, <1>0a, <2>1, MovedIsTouched
    <2>6. LRU!Hit(file[t])
        BY <2>1, <2>2, <2>4, <2>5, SameRemoval DEF LRU!Hit, Touched, LRU!ToSet, ToSet
    <2> QED
        BY <1>0a, <2>4, <2>6 DEF ShownStep, LRU!Next
<1>6. ASSUME NEW t \in Threads, FindOld(t) PROVE ShownStep
    <2>1. /\ pc[t] = "put" /\ UNCHANGED <<order, nodes, file, new, count, overlapped, shown>>
          /\ \E s \in {"old", "store"} : pc' = [pc EXCEPT ![t] = s]
        BY <1>6 DEF FindOld, Goto, cacheVars, historyVars
    <2>2. pc'[t] \in {"old", "store"}
        BY <1>0, <2>1 DEF TypeOK
    <2>3. order = shown.order /\ nodes = shown.nodes
        BY <2>1, <1>0a DEF Progress, Ahead
    <2>4. Progress(t)'
        BY <2>1, <2>2, <2>3 DEF Progress, Ahead, Due, CountSteps
    <2>5. new'[t] \subseteq NodesOf(file'[t]) /\ Cardinality(new'[t]) <= Capacity
        BY <2>1, <1>0a DEF Putting
    <2> QED
        BY <2>1, <2>2, <2>4, <2>5, Going DEF ShownStep
<1>7. ASSUME NEW t \in Threads, SubtractOld(t) PROVE ShownStep
    <2>1. /\ pc[t] = "old" /\ UNCHANGED <<order, nodes, file, new, overlapped, shown>>
          /\ pc' = [pc EXCEPT ![t] = "load"]
          /\ count' = [count EXCEPT ![t].delta = -Cardinality(Entry(file[t])), ![t].then = "store"]
        BY <1>7 DEF SubtractOld, Add, Goto, cacheVars, historyVars
    <2>2. pc'[t] = "load" /\ count'[t].then = "store"
        BY <1>0, <2>1 DEF TypeOK
    <2>3. order = shown.order /\ nodes = shown.nodes
        BY <2>1, <1>0a DEF Progress, Ahead
    <2>4. Progress(t)'
        BY <2>1, <2>2, <2>3 DEF Progress, Ahead, Due, CountSteps
    <2>5. new'[t] \subseteq NodesOf(file'[t]) /\ Cardinality(new'[t]) <= Capacity
        BY <2>1, <1>0a DEF Putting
    <2> QED
        BY <2>1, <2>2, <2>4, <2>5, Going DEF ShownStep
<1>8. ASSUME NEW t \in Threads, Store(t) PROVE ShownStep
    <2>1. /\ pc[t] = "store" /\ UNCHANGED <<file, new, overlapped, shown>>
          /\ nodes' = (nodes \ NodesOf(file[t])) \cup new[t]
          /\ order' = IF IsCached(file[t]) THEN order ELSE Append(order, file[t])
          /\ pc' = [pc EXCEPT ![t] = "load"]
          /\ count' = [count EXCEPT ![t].delta = Cardinality(new[t]), ![t].then = "touch"]
        BY <1>8 DEF Store, Add, Goto, historyVars
    <2>2. pc'[t] = "load" /\ count'[t].then = "touch"
        BY <1>0, <2>1 DEF TypeOK
    <2>3. order = shown.order /\ nodes = shown.nodes
        BY <2>1, <1>0a DEF Progress, Ahead, Due
    <2>4. order' = Stored(shown.order, file[t]) /\ nodes' = Filled(t)
        BY <2>1, <2>3 DEF Stored, Filled, IsCached
    <2>5. Progress(t)'
        BY <2>1, <2>2, <2>4 DEF Progress, Ahead, Due, CountSteps, Stored, Filled, NodesOf
    <2>6. new'[t] \subseteq NodesOf(file'[t]) /\ Cardinality(new'[t]) <= Capacity
        BY <2>1, <1>0a DEF Putting, Due
    <2> QED
        BY <2>1, <2>2, <2>5, <2>6, Going DEF ShownStep
<1>9. ASSUME NEW t \in Threads, PutTouch(t) PROVE ShownStep
    <2>1. /\ pc[t] = "touch" /\ UNCHANGED <<nodes, file, new, count, overlapped, shown>>
          /\ MoveToEnd(file[t]) /\ pc' = [pc EXCEPT ![t] = "evict"]
        BY <1>9 DEF PutTouch, Goto, historyVars
    <2>2. pc'[t] = "evict"
        BY <1>0, <2>1 DEF TypeOK
    <2>3. order = Stored(shown.order, file[t]) /\ nodes = Filled(t)
        BY <2>1, <1>0a DEF Progress, Due
    <2>4. order' = Touched(shown.order, file[t])
        BY <1>0, <1>0a, <2>1, <2>3, MovedIsTouched, TouchedStored
    <2> DEFINE s == Touched(shown.order, file[t])
    <2>5. s \in Seq(Files) /\ Len(s) \in Nat
        BY <1>0, <1>0a, TouchedIs
    <2>6. /\ order' = SubSeq(s, 0 + 1, Len(s)) /\ nodes' = Kept(Filled(t), s, 0)
          /\ 0 \in 0..Len(shown.order)
        <3>1. SubSeq(s, 1, Len(s)) = s
            BY <2>5
        <3>2. Kept(Filled(t), s, 0) = Filled(t)
            BY DEF Kept
        <3> QED
            BY <1>0, <2>1, <2>3, <2>4, <3>1, <3>2
    <2>7. Evicted(t)'
        BY <2>1, <2>6 DEF Evicted, Touched, Filled, Kept, NodesOf
    <2>8. Progress(t)'
        BY <2>2, <2>7 DEF Progress, Ahead, Due, CountSteps
    <2>9. new'[t] \subseteq NodesOf(file'[t]) /\ Cardinality(new'[t]) <= Capacity
        BY <2>1, <1>0a DEF Putting, Due
    <2> QED
        BY <2>1, <2>2, <2>8, <2>9, Going DEF ShownStep
<1>10. ASSUME NEW t \in Threads, Evict(t) PROVE ShownStep
    <2>1. /\ pc[t] = "evict" /\ order # <<>> /\ UNCHANGED <<file, new, overlapped, shown>>
          /\ pc' = [pc EXCEPT ![t] = "load"]
          /\ count' = [count EXCEPT ![t].delta = -Cardinality(Entry(Head(order))), ![t].then = "evict"]
        BY <1>10 DEF Evict, Add, Goto, historyVars
    <2>2. pc'[t] = "load" /\ count'[t].then = "evict"
        BY <1>0, <2>1 DEF TypeOK
    <2>3. Evicted(t)'
        BY <1>10, EvictShown
    <2>4. Progress(t)'
        BY <2>2, <2>3 DEF Progress, Ahead, Due, CountSteps
    <2>5. new'[t] \subseteq NodesOf(file'[t]) /\ Cardinality(new'[t]) <= Capacity
        BY <2>1, <1>0a DEF Putting, Due
    <2> QED
        BY <2>1, <2>2, <2>4, <2>5, Going DEF ShownStep
<1>11. ASSUME NEW t \in Threads, EndPut(t) PROVE ShownStep
    <2>1. /\ pc[t] = "evict" /\ pc' = [pc EXCEPT ![t] = "idle"] /\ UNCHANGED overlapped
          /\ shown' = [order |-> order', nodes |-> nodes']
        BY <1>11 DEF EndPut, Return, Goto
    <2>2. pc'[t] = "idle"
        BY <1>0, <2>1 DEF TypeOK
    <2>3. ShownInv' /\ shown'.order = order' /\ shown'.nodes = nodes'
        BY <2>1, <2>2, Returned
    <2>4. LRU!Put(file[t], new[t])
        BY <1>11, <2>3, EndPutShown
    <2>5. new[t] \in SUBSET LRU!NodesOf(file[t])
        BY <1>0a, <2>1 DEF Putting, Due, LRU!NodesOf, NodesOf
    <2> QED
        BY <1>0a, <2>3, <2>4, <2>5 DEF ShownStep, LRU!Next
<1>12. ASSUME NEW t \in Threads, RemovePop(t) PROVE ShownStep
    <2>1. /\ pc[t] = "remove" /\ UNCHANGED <<file, new, overlapped, shown>>
          /\ Pop(file[t]) /\ pc' = [pc EXCEPT ![t] = "load"]
          /\ count' = [count EXCEPT ![t].delta = -Cardinality(Entry(file[t])), ![t].then = "idle"]
        BY <1>12 DEF RemovePop, Add, Goto, historyVars
    <2>2. pc'[t] = "load" /\ count'[t].then = "idle"
        BY <1>0, <2>1 DEF TypeOK
    <2>3. order = shown.order /\ nodes = shown.nodes
        BY <2>1, <1>0a DEF Progress, Ahead
    <2>4. /\ file[t] \in ToSet(shown.order) /\ order' = RemoveFirst(shown.order, file[t])
          /\ nodes' = shown.nodes \ NodesOf(file[t])
        BY <1>0, <1>0a, <2>1, <2>3, PoppedIsRemoved
    <2>5. Progress(t)'
        BY <2>1, <2>2, <2>4 DEF Progress, Ahead, Due, CountSteps, NodesOf
    <2>6. ~Putting(t)'
        BY <2>2 DEF Putting, Due, CountSteps
    <2> QED
        BY <2>1, <2>2, <2>5, <2>6, Going DEF ShownStep
<1>13. ASSUME NEW t \in Threads, LoadCount(t) PROVE ShownStep
    <2>1. /\ pc[t] = "load" /\ UNCHANGED <<order, nodes, file, new, overlapped, shown>>
          /\ pc' = [pc EXCEPT ![t] = "add"]
          /\ count' = [count EXCEPT ![t].read = node_count]
        BY <1>13 DEF LoadCount, Goto, cacheVars, historyVars
    <2>2. pc'[t] = "add" /\ count'[t].then = count[t].then
        BY <1>0, <2>1 DEF TypeOK
    <2>3. Progress(t)'
        BY <2>1, <2>2, <1>0a, PartsStay DEF Progress, Ahead, Due, CountSteps
    <2>4. Putting(t)' => Putting(t)
        BY <2>1, <2>2 DEF Putting, Due, CountSteps
    <2>5. Putting(t)' => new'[t] \subseteq NodesOf(file'[t]) /\ Cardinality(new'[t]) <= Capacity
        BY <2>1, <2>4, <1>0a
    <2> QED
        BY <2>1, <2>2, <2>3, <2>5, Going DEF ShownStep
<1>14. ASSUME NEW t \in Threads, StoreCount(t) PROVE ShownStep
    <2>1. /\ pc[t] = "add" /\ UNCHANGED <<order, nodes, file, new, count, overlapped>>
        BY <1>14 DEF StoreCount
    <2>2. CASE count[t].then = "idle"
        <3>1. pc' = [pc EXCEPT ![t] = "idle"] /\ shown' = [order |-> order', nodes |-> nodes']
            BY <1>14, <2>2 DEF StoreCount, Return, Goto
        <3>2. pc'[t] = "idle"
            BY <1>0, <3>1 DEF TypeOK
        <3>3. ShownInv' /\ shown'.order = order' /\ shown'.nodes = nodes'
            BY <2>1, <3>1, <3>2, Returned
        <3>4. /\ file[t] \in ToSet(shown.order) /\ order = RemoveFirst(shown.order, file[t])
              /\ nodes = shown.nodes \ NodesOf(file[t])
            BY <2>1, <2>2, <1>0a DEF Progress, CountSteps
        <3>5. LRU!Drop(file[t])
            BY <2>1, <3>3, <3>4, SameRemoval DEF LRU!Drop, LRU!ToSet, ToSet, LRU!NodesOf, NodesOf
        <3> QED
            BY <1>0a, <3>3, <3>5 DEF ShownStep, LRU!Next
    <2>3. CASE count[t].then # "idle"
        <3>1. pc' = [pc EXCEPT ![t] = count[t].then] /\ shown' = shown
            BY <1>14, <2>3 DEF StoreCount, Goto
        <3>2. pc'[t] = count[t].then /\ count[t].then \in {"store", "touch", "evict"}
            BY <1>0, <1>0a, <2>3, <3>1 DEF TypeOK
        <3>3. Due(t, count[t].then) /\ Progress(t)
            BY <2>1, <1>0a DEF Due, CountSteps
        <3>4. Progress(t)'
            BY <2>1, <3>1, <3>2, <3>3, PartsStay DEF Progress, Ahead, Due, CountSteps
        <3>5. new'[t] \subseteq NodesOf(file'[t]) /\ Cardinality(new'[t]) <= Capacity
            BY <2>1, <3>2, <3>3, <1>0a DEF Putting
        <3> QED
            BY <2>1, <3>1, <3>2, <3>4, <3>5, Going DEF ShownStep
    <2> QED
        BY <2>2, <2>3
<1>15. ASSUME NEW t \in Threads, RaiseMissing(t) PROVE ShownStep
    <2>1. CASE pc[t] = "get"
        BY <1>15, <2>1, <1>0a DEF RaiseMissing
    <2>2. CASE pc[t] \in {"old", "touch", "remove"}
        BY <1>15, <2>2, <1>0a DEF RaiseMissing, Sound, NeedsFile, Changing, PutSteps
    <2> QED
        BY <1>15, <2>1, <2>2 DEF RaiseMissing
<1>16. ASSUME NEW t \in Threads, RaiseEmpty(t) PROVE ShownStep
    <2>1. pc[t] = "evict" /\ node_count > Capacity /\ order = <<>>
        BY <1>16 DEF RaiseEmpty
    <2>2. nodes = {}
        BY <1>0, <2>1 DEF Keys, ToSet
    <2>3. node_count = 0
        BY <1>0, <2>1, <2>2, CountedAtTest, FS_EmptySet
    <2> QED
        BY <2>1, <2>3, NodeLRUCacheAssumption
<1> QED
    BY <1>1, <1>2, <1>3, <1>4, <1>5, <1>6, <1>7, <1>8, <1>9, <1>10, <1>11, <1>12, <1>13, <1>14,
       <1>15, <1>16 DEF Next

(* Called by one thread, the cache of any capacity implements LRUCache:     *)
(* seen after its calls, get moves its file to the end, remove drops its    *)
(* file, and put stores its nodes and drops the files unused for longest,   *)
(* as few as it takes.                                                      *)
THEOREM ImplementsLeastRecentlyUsed == OneThread => (Spec => ImplementsLRU)
<1> SUFFICES ASSUME OneThread PROVE Spec => ImplementsLRU
    OBVIOUS
<1> DEFINE I == TypeInv /\ CountInv /\ ShownInv
<1>1. Init => I /\ LRU!Init
    <2>1. Init => LRU!Init
        BY DEF Init, LRU!Init
    <2> QED
        BY <2>1, InitTypeInv, InitCountInv, InitShown
<1>2. I /\ [Next]_vars => I'
    BY NextTypeInv, NextCountInv, NextShown DEF ShownStep
<1>3. I /\ [Next]_vars => [LRU!Next]_<<shown.order, shown.nodes>>
    BY NextTypeInv, NextCountInv, NextShown DEF ShownStep
<1> HIDE DEF I
<1> QED
    BY <1>1, <1>2, <1>3, PTL DEF Spec, ImplementsLRU, LRU!Spec

=============================================================================
