---------------------------- MODULE CompletionProofs ----------------------------
(***************************************************************************)
(* Proofs about the rebuild of relations, the completion of nodes and the  *)
(* contexts.                                                               *)
(***************************************************************************)
EXTENDS ContextGroups, FiniteSetTheorems, SequenceTheorems, WellFoundedInduction, TLAPS

-----------------------------------------------------------------------------
(* A loop: from a state r it goes on with next[r] until it stops.           *)
Loop(D, stop, next, f) == f = [r \in D |-> IF r \in stop THEN r ELSE f[next[r]]]

LEMMA LeastOf ==
  ASSUME NEW T, T \subseteq Nat, T # {}
  PROVE  \E x \in T : \A y \in T : x <= y
  <1>1. IsWellFoundedOn(OpToRel(<, Nat), Nat)
    BY NatLessThanWellFounded
  <1>2. PICK x \in T : \A y \in T : ~(<<y, x>> \in OpToRel(<, Nat))
    BY <1>1, WFMin
  <1>3. ASSUME NEW y \in T PROVE x <= y
    <2>1. ~(y < x)
      BY <1>2 DEF OpToRel
    <2>2. x \in Nat /\ y \in Nat
      OBVIOUS
    <2> QED  BY <2>1, <2>2
  <1> QED  BY <1>3

(* Every loop defines a function, even where it would not end.              *)
LEMMA LoopExists ==
  ASSUME NEW D, NEW stop, NEW next \in [D -> D]
  PROVE  \E f : Loop(D, stop, next, f)
  <1> DEFINE Closed(C) == \A x \in C : x \notin stop => next[x] \in C
             Reach(r) == {s \in D : \A C \in SUBSET D : r \in C /\ Closed(C) => s \in C}
             f == [r \in D |-> CHOOSE s : s \in Reach(r) \cap stop]
  <1>1. ASSUME NEW r \in D, r \in stop PROVE f[r] = r
    <2>1. Reach(r) \subseteq {r}
      BY <1>1
    <2>2. r \in Reach(r)
      OBVIOUS
    <2>3. Reach(r) \cap stop = {r}
      BY <1>1, <2>1, <2>2
    <2> HIDE DEF Reach
    <2>4. f[r] = CHOOSE s : s \in {r}
      BY <2>3
    <2> QED  BY <2>4
  <1>2. ASSUME NEW r \in D, r \notin stop PROVE f[r] = f[next[r]]
    <2>1. next[r] \in D
      OBVIOUS
    <2>2. Reach(next[r]) \subseteq Reach(r)
      BY <1>2
    <2>3. Reach(r) \subseteq {r} \cup Reach(next[r])
      <3> DEFINE C == {r} \cup Reach(next[r])
      <3>1. C \in SUBSET D /\ r \in C
        OBVIOUS
      <3>2. ASSUME NEW x \in C, x \notin stop PROVE next[x] \in C
        <4>1. CASE x = r
          BY <2>1, <4>1
        <4>2. CASE x \in Reach(next[r])
          BY <4>2, <3>2
        <4> QED  BY <4>1, <4>2
      <3>3. Closed(C)
        BY <3>2
      <3> QED  BY <3>1, <3>3
    <2>4. Reach(r) \cap stop = Reach(next[r]) \cap stop
      BY <1>2, <2>2, <2>3
    <2> HIDE DEF Reach
    <2> QED  BY <2>1, <2>4
  <1>3. f = [r \in D |-> f[r]]
    OBVIOUS
  <1> HIDE DEF f
  <1>4. f = [r \in D |-> IF r \in stop THEN r ELSE f[next[r]]]
    BY <1>1, <1>2, <1>3
  <1> QED  BY <1>4 DEF Loop

(* What a step of the loop keeps holds when it has ended, and it ends when  *)
(* a measure goes down.                                                     *)
LEMMA LoopEnds ==
  ASSUME NEW D, NEW stop, NEW next, NEW f, Loop(D, stop, next, f),
         NEW I, I \subseteq D, NEW m, NEW start \in I,
         \A r \in I : m[r] \in Nat,
         \A r \in I : r \notin stop => next[r] \in I /\ m[next[r]] < m[r]
  PROVE  f[start] \in I /\ f[start] \in stop
  <1> DEFINE Bad == {r \in I : ~(f[r] \in I /\ f[r] \in stop)}
             Sizes == {m[r] : r \in Bad}
  <1> SUFFICES ASSUME Bad # {} PROVE FALSE
    OBVIOUS
  <1>1. Sizes \subseteq Nat /\ Sizes # {}
    OBVIOUS
  <1>2. PICK x \in Sizes : \A y \in Sizes : x <= y
    <2> HIDE DEF Sizes
    <2> QED  BY <1>1, LeastOf
  <1>3. PICK r \in Bad : m[r] = x
    BY <1>2
  <1>4. f[r] = IF r \in stop THEN r ELSE f[next[r]]
    BY <1>3 DEF Loop
  <1>5. r \notin stop
    BY <1>3, <1>4
  <1>6. next[r] \in I /\ m[next[r]] < m[r] /\ f[next[r]] = f[r]
    BY <1>3, <1>4, <1>5
  <1>7. next[r] \in Bad
    BY <1>3, <1>6
  <1>8. m[next[r]] \in Sizes /\ m[next[r]] \in Nat /\ m[r] \in Nat
    BY <1>7, <1>3
  <1>9. x <= m[next[r]]
    BY <1>2, <1>8
  <1> QED  BY <1>3, <1>6, <1>8, <1>9

LEMMA Fewer ==
  ASSUME NEW S, IsFiniteSet(S), NEW T \in SUBSET S, T # S
  PROVE  Cardinality(T) \in Nat /\ Cardinality(S) \in Nat /\ Cardinality(T) < Cardinality(S)
  BY FS_Subset, FS_CardinalityType

LEMMA IdsFinite ==
  ASSUME Len(doc) \in Nat
  PROVE  /\ IsFiniteSet(Ids) /\ Cardinality(Ids) \in Nat
         /\ \A S \in SUBSET Ids : IsFiniteSet(S) /\ Cardinality(S) \in Nat
         /\ \A S \in SUBSET Ids : Cardinality(S) <= Cardinality(Ids)
         /\ \A n \in Ids : n \in Nat
  <1>1. IsFiniteSet(Ids) /\ \A n \in Ids : n \in Nat
    BY FS_Interval DEF Ids
  <1>2. Cardinality(Ids) \in Nat
    BY <1>1, FS_CardinalityType
  <1>3. \A S \in SUBSET Ids : IsFiniteSet(S) /\ Cardinality(S) <= Cardinality(Ids)
    BY <1>1, FS_Subset
  <1> QED  BY <1>1, <1>2, <1>3, FS_CardinalityType

(* What is reached is the least set with S that next does not leave.        *)
LEMMA ReachedIs ==
  ASSUME Len(doc) \in Nat, NEW S \in SUBSET Ids, NEW next, \A n \in Ids : next[n] \subseteq Ids
  PROVE  /\ Reached(S, next) \in SUBSET Ids /\ S \subseteq Reached(S, next)
         /\ \A n \in Reached(S, next) : next[n] \subseteq Reached(S, next)
         /\ \A C : S \subseteq C /\ (\A n \in C : n \in Ids => next[n] \subseteq C)
                     => Reached(S, next) \subseteq C
  <1> DEFINE D == SUBSET Ids
             stop == {T \in D : Grown(T, next) = T}
             step == [T \in D |-> Grown(T, next)]
             go == CHOOSE f : f = [T \in SUBSET Ids |->
                                     IF Grown(T, next) = T THEN T ELSE f[Grown(T, next)]]
             m == [T \in D |-> Cardinality(Ids \ T)]
  <1>1. Reached(S, next) = go[S]
    BY DEF Reached
  <1>2. ASSUME NEW T \in D PROVE Grown(T, next) \in D /\ T \subseteq Grown(T, next)
    BY DEF Grown
  <1>3. step \in [D -> D]
    BY <1>2
  <1>4. \A f : Loop(D, stop, step, f) <=> f = [T \in SUBSET Ids |->
                                     IF Grown(T, next) = T THEN T ELSE f[Grown(T, next)]]
    BY DEF Loop
  <1>5. Loop(D, stop, step, go)
    <2>1. \E f : Loop(D, stop, step, f)
      <3> HIDE DEF D, stop, step
      <3> QED  BY <1>3, LoopExists
    <2> HIDE DEF D, stop, step
    <2> QED  BY <1>4, <2>1
  <1>6. ASSUME NEW T \in D
        PROVE  m[T] \in Nat /\ (T \notin stop => step[T] \in D /\ m[step[T]] < m[T])
    <2>1. m[T] \in Nat
      BY IdsFinite
    <2>2. ASSUME T \notin stop PROVE step[T] \in D /\ m[step[T]] < m[T]
      <3> DEFINE U == Grown(T, next)
      <3>1. U \in D /\ T \subseteq U /\ T # U /\ step[T] = U
        BY <1>2, <2>2
      <3> HIDE DEF U
      <3>2. Ids \ U \in SUBSET (Ids \ T) /\ Ids \ U # Ids \ T
        BY <3>1
      <3>3. IsFiniteSet(Ids \ T)
        BY IdsFinite
      <3>4. Cardinality(Ids \ U) < Cardinality(Ids \ T)
        BY <3>2, <3>3, Fewer
      <3> QED  BY <3>1, <3>4
    <2> QED  BY <2>1, <2>2
  <1>7. ASSUME NEW C, S \subseteq C, \A n \in C : n \in Ids => next[n] \subseteq C
        PROVE  go[S] \in D /\ S \subseteq go[S] /\ go[S] \subseteq C /\ go[S] \in stop
    <2> DEFINE I == {T \in D : S \subseteq T /\ T \subseteq C}
    <2>1. I \subseteq D /\ S \in I
      BY <1>7
    <2>2. \A T \in I : m[T] \in Nat
      BY <1>6
    <2>3. \A T \in I : T \notin stop => step[T] \in I /\ m[step[T]] < m[T]
      <3> SUFFICES ASSUME NEW T \in I, T \notin stop PROVE step[T] \in I /\ m[step[T]] < m[T]
        OBVIOUS
      <3>1. step[T] \in D /\ m[step[T]] < m[T] /\ step[T] = Grown(T, next)
        BY <1>6
      <3>2. S \subseteq step[T]
        BY <1>2, <3>1
      <3>3. step[T] \subseteq C
        BY <1>7, <3>1 DEF Grown
      <3> QED  BY <3>1, <3>2, <3>3
    <2>4. go[S] \in I /\ go[S] \in stop
      <3> HIDE DEF I, D, stop, step, go, m
      <3> QED  BY <1>5, <2>1, <2>2, <2>3, LoopEnds
    <2> QED  BY <2>4
  <1>8. go[S] \in D /\ S \subseteq go[S] /\ go[S] \in stop
    <2> HIDE DEF go, D, stop
    <2> QED  BY <1>7
  <1>9. \A n \in go[S] : next[n] \subseteq go[S]
    <2> HIDE DEF go
    <2> QED  BY <1>8 DEF Grown
  <1>10. \A C : S \subseteq C /\ (\A n \in C : n \in Ids => next[n] \subseteq C) => go[S] \subseteq C
    <2> HIDE DEF go, D, stop
    <2> QED  BY <1>7
  <1> HIDE DEF go
  <1> QED  BY <1>1, <1>8, <1>9, <1>10

-----------------------------------------------------------------------------
(* The numbers of a set in their order.                                     *)
LEMMA AscendingIs ==
  ASSUME NEW S, IsFiniteSet(S), S \subseteq Int
  PROVE  /\ Cardinality(S) \in Nat
         /\ Ascending(S) \in Seq(S) /\ Len(Ascending(S)) = Cardinality(S)
         /\ DOMAIN Ascending(S) = 1..Cardinality(S)
         /\ \A i \in 1..Cardinality(S) : Ascending(S)[i] \in S
         /\ \A i, j \in 1..Cardinality(S) : i < j => Ascending(S)[i] < Ascending(S)[j]
         /\ \A n \in S : \E i \in 1..Cardinality(S) : Ascending(S)[i] = n
  <1> DEFINE c == Cardinality(S)
             before(n) == {m \in S : m < n}
             rank == [n \in S |-> Cardinality(before(n))]
             a == [i \in 1..c |-> CHOOSE n \in S : Cardinality(before(n)) = i - 1]
  <1>0. Ascending(S) = a
    BY DEF Ascending
  <1>1. c \in Nat
    BY FS_CardinalityType
  <1>2. ASSUME NEW n \in S PROVE IsFiniteSet(before(n)) /\ rank[n] \in Nat /\ rank[n] < c
    <2>1. before(n) \in SUBSET S /\ before(n) # S
      OBVIOUS
    <2>2. IsFiniteSet(before(n))
      BY <2>1, FS_Subset
    <2>3. rank[n] = Cardinality(before(n))
      OBVIOUS
    <2> HIDE DEF before, rank
    <2> QED  BY <2>1, <2>2, <2>3, Fewer
  <1>3. ASSUME NEW n \in S, NEW k \in S, n < k PROVE rank[n] < rank[k]
    <2>1. before(n) \in SUBSET before(k) /\ before(n) # before(k)
      <3>1. n \in Int /\ k \in Int /\ \A m \in S : m \in Int
        OBVIOUS
      <3>2. n \in before(k) /\ n \notin before(n)
        BY <1>3, <3>1
      <3>3. \A m \in before(n) : m \in before(k)
        BY <1>3, <3>1
      <3> QED  BY <3>2, <3>3
    <2>2. IsFiniteSet(before(k))
      BY <1>2
    <2>3. rank[n] = Cardinality(before(n)) /\ rank[k] = Cardinality(before(k))
      OBVIOUS
    <2> HIDE DEF before, rank
    <2> QED  BY <2>1, <2>2, <2>3, Fewer
  <1>4. \A n, k \in S : rank[n] = rank[k] => n = k
    <2> SUFFICES ASSUME NEW n \in S, NEW k \in S, rank[n] = rank[k], n # k PROVE FALSE
      OBVIOUS
    <2>1. n < k \/ k < n
      OBVIOUS
    <2>2. rank[n] < rank[k] \/ rank[k] < rank[n]
      <3> HIDE DEF rank
      <3> QED  BY <1>3, <2>1
    <2>3. rank[n] \in Nat /\ rank[k] \in Nat
      BY <1>2
    <2> QED  BY <2>2, <2>3
  <1>5. rank \in Surjection(S, 0..c-1)
    <2>1. rank \in [S -> 0..c-1]
      <3>1. \A n \in S : rank[n] \in 0..c-1
        BY <1>1, <1>2
      <3>2. rank = [n \in S |-> rank[n]]
        OBVIOUS
      <3> HIDE DEF rank, c
      <3> QED  BY <3>1, <3>2
    <2> HIDE DEF rank
    <2>2. rank \in Injection(S, 0..c-1)
      BY <1>4, <2>1 DEF Injection, IsInjective
    <2>3. IsFiniteSet(0..c-1) /\ Cardinality(0..c-1) = c
      BY <1>1, FS_Interval
    <2> QED  BY <2>2, <2>3, FS_Injection
  <1>6. ASSUME NEW i \in 1..c PROVE a[i] \in S /\ rank[a[i]] = i - 1
    <2>1. \E n \in S : rank[n] = i - 1
      <3> HIDE DEF rank, c
      <3> QED  BY <1>1, <1>5 DEF Surjection
    <2>2. \A n \in S : rank[n] = Cardinality(before(n))
      OBVIOUS
    <2>3. a[i] = CHOOSE n \in S : Cardinality(before(n)) = i - 1
      OBVIOUS
    <2> HIDE DEF rank, before, a
    <2> QED  BY <2>1, <2>2, <2>3
  <1>7. ASSUME NEW i \in 1..c, NEW j \in 1..c, i < j PROVE a[i] < a[j]
    <2>1. a[i] \in S /\ a[j] \in S /\ rank[a[i]] = i - 1 /\ rank[a[j]] = j - 1
      BY <1>6
    <2>2. a[i] \in Int /\ a[j] \in Int
      BY <2>1
    <2>3. ~(a[j] < a[i]) /\ a[i] # a[j]
      <3>1. i \in Int /\ j \in Int
        BY <1>1
      <3> HIDE DEF rank, a
      <3>2. ASSUME a[j] < a[i] PROVE FALSE
        <4>1. rank[a[j]] < rank[a[i]]
          BY <1>3, <2>1, <3>2
        <4> QED  BY <1>7, <2>1, <3>1, <4>1
      <3> QED  BY <1>7, <2>1, <3>1, <3>2
    <2> QED  BY <2>2, <2>3
  <1>8. ASSUME NEW n \in S PROVE \E i \in 1..c : a[i] = n
    <2>1. rank[n] + 1 \in 1..c
      BY <1>1, <1>2
    <2>2. a[rank[n] + 1] \in S /\ rank[a[rank[n] + 1]] = rank[n]
      <3>1. rank[n] \in Nat
        BY <1>2
      <3> HIDE DEF rank, a
      <3> QED  BY <1>6, <2>1, <3>1
    <2> HIDE DEF rank, a
    <2> QED  BY <1>4, <2>1, <2>2
  <1>9. DOMAIN a = 1..c
    OBVIOUS
  <1>10. a \in Seq(S) /\ Len(a) = c
    <2>1. a \in [1..c -> S]
      <3>1. a = [i \in 1..c |-> a[i]]
        OBVIOUS
      <3> HIDE DEF a, c
      <3> QED  BY <1>6, <3>1
    <2> HIDE DEF a
    <2>2. a \in Seq(S)
      BY <1>1, <2>1, SeqDef
    <2> QED  BY <1>1, <1>9, <2>2, LenProperties
  <1> HIDE DEF a
  <1> QED  BY <1>0, <1>1, <1>6, <1>7, <1>8, <1>9, <1>10

(* The items of a list that are in S, at the places where they stood.       *)
LEMMA OnlyIs ==
  ASSUME NEW A, NEW list \in Seq(A), NEW S
  PROVE  /\ Only(list, S) \in Seq(A) /\ Len(Only(list, S)) <= Len(list)
         /\ \A i \in 1..Len(Only(list, S)) : Only(list, S)[i] \in S \cap A
         /\ (\E i \in 1..Len(list) : list[i] \notin S) => Len(Only(list, S)) < Len(list)
         /\ \E p \in [1..Len(Only(list, S)) -> 1..Len(list)] :
              /\ \A i \in 1..Len(Only(list, S)) : Only(list, S)[i] = list[p[i]]
              /\ \A i, j \in 1..Len(Only(list, S)) : i < j => p[i] < p[j]
              /\ \A i \in 1..Len(list) :
                    list[i] \in S => \E j \in 1..Len(Only(list, S)) : p[j] = i
  <1> DEFINE I == {i \in DOMAIN list : list[i] \in S}
             c == Cardinality(I)
             p == Ascending(I)
             o == Only(list, S)
  <1>1. Len(list) \in Nat /\ DOMAIN list = 1..Len(list) /\ \A i \in 1..Len(list) : list[i] \in A
    BY LenProperties, ElementOfSeq
  <1>2. I \in SUBSET (1..Len(list)) /\ I \subseteq Int
    BY <1>1
  <1>3. IsFiniteSet(I) /\ c <= Len(list) /\ (I # 1..Len(list) => c < Len(list))
    <2>1. /\ IsFiniteSet(1..Len(list))
          /\ Cardinality(1..Len(list)) = IF 1 > Len(list) THEN 0 ELSE Len(list) - 1 + 1
      BY <1>1, FS_Interval
    <2>2. Cardinality(1..Len(list)) = Len(list)
      BY <1>1, <2>1
    <2> HIDE DEF I
    <2>3. IsFiniteSet(I) /\ c <= Len(list)
      BY <1>2, <2>1, <2>2, FS_Subset
    <2>4. I # 1..Len(list) => c < Len(list)
      BY <1>2, <2>1, <2>2, Fewer
    <2> QED  BY <2>3, <2>4
  <1>4. /\ c \in Nat /\ DOMAIN p = 1..c
        /\ \A i \in 1..c : p[i] \in I
    <2> HIDE DEF I
    <2> QED  BY <1>2, <1>3, AscendingIs
  <1>5. \A i, j \in 1..c : i < j => p[i] < p[j]
    <2> HIDE DEF I
    <2> QED  BY <1>2, <1>3, AscendingIs
  <1>6. \A n \in I : \E i \in 1..c : p[i] = n
    <2> HIDE DEF I
    <2> QED  BY <1>2, <1>3, AscendingIs
  <1>7. p \in Seq(I)
    <2> HIDE DEF I
    <2> QED  BY <1>2, <1>3, AscendingIs
  <1>8. o = [k \in DOMAIN p |-> list[p[k]]]
    BY DEF Only
  <1>9. \A i \in I : i \in 1..Len(list) /\ list[i] \in S /\ list[i] \in A
    BY <1>1
  <1>10. \A i \in 1..Len(list) : list[i] \in S => i \in I
    BY <1>1
  <1> HIDE DEF I, c, p, o
  <1>11. DOMAIN o = 1..c /\ \A i \in 1..c : o[i] = list[p[i]] /\ o[i] \in S \cap A
    BY <1>4, <1>8, <1>9
  <1>12. o \in Seq(A) /\ Len(o) = c
    BY <1>8, <1>4, <1>11, SeqDef, LenProperties
  <1>13. p \in [1..c -> 1..Len(list)]
    BY <1>7, LenProperties, <1>4, <1>9
  <1>14. (\E i \in 1..Len(list) : list[i] \notin S) => c < Len(list)
    BY <1>3, <1>9
  <1>15. \A i \in 1..Len(list) : list[i] \in S => \E j \in 1..c : p[j] = i
    BY <1>6, <1>10
  <1>16. /\ o \in Seq(A) /\ Len(o) <= Len(list)
         /\ \A i \in 1..Len(o) : o[i] \in S \cap A
         /\ (\E i \in 1..Len(list) : list[i] \notin S) => Len(o) < Len(list)
    BY <1>3, <1>11, <1>12, <1>14
  <1>17. \E q \in [1..Len(o) -> 1..Len(list)] :
              /\ \A i \in 1..Len(o) : o[i] = list[q[i]]
              /\ \A i, j \in 1..Len(o) : i < j => q[i] < q[j]
              /\ \A i \in 1..Len(list) : list[i] \in S => \E j \in 1..Len(o) : q[j] = i
    BY <1>5, <1>11, <1>12, <1>13, <1>15
  <1> QED  BY <1>16, <1>17 DEF o

-----------------------------------------------------------------------------
(* The relations of a document lead to chunks, each in its direction.       *)
LEMMA FirstIs ==
  ASSUME NEW N \in Nat, NEW S \in SUBSET (1..N)
  PROVE  /\ S = {} => FirstOf(S) = 0
         /\ S # {} => FirstOf(S) \in S /\ FirstOf(S) # 0 /\ \A m \in S : FirstOf(S) <= m
  <1>1. ASSUME S # {} PROVE \E m \in S : \A k \in S : m <= k
    <2>1. S \subseteq Nat
      OBVIOUS
    <2> QED  BY <1>1, <2>1, LeastOf
  <1>2. ASSUME S # {} PROVE Smallest(S) \in S /\ \A k \in S : Smallest(S) <= k
    <2> DEFINE P(m) == m \in S /\ \A k \in S : m <= k
    <2>1. \E m : P(m)
      BY <1>1, <1>2
    <2>2. Smallest(S) = CHOOSE m : P(m)
      BY DEF Smallest
    <2> HIDE DEF P
    <2>3. P(Smallest(S))
      BY <2>1, <2>2
    <2> QED  BY <2>3 DEF P
  <1>3. \A m \in S : m # 0
    OBVIOUS
  <1>4. S = {} => FirstOf(S) = 0
    BY DEF FirstOf
  <1>5. S # {} => FirstOf(S) = Smallest(S)
    BY DEF FirstOf
  <1> QED  BY <1>2, <1>3, <1>4, <1>5

LEMMA LastIs ==
  ASSUME NEW N \in Nat, NEW S \in SUBSET (1..N)
  PROVE  /\ S = {} => LastOf(S) = 0
         /\ S # {} => LastOf(S) \in S /\ LastOf(S) # 0 /\ \A m \in S : LastOf(S) >= m
  <1>1. ASSUME S # {} PROVE \E m \in S : \A k \in S : m >= k
    <2> DEFINE T == {N - m : m \in S}
    <2>1. T \subseteq Nat /\ T # {}
      <3>1. \A m \in S : N - m \in Nat
        OBVIOUS
      <3> QED  BY <1>1, <3>1
    <2>2. PICK t \in T : \A u \in T : t <= u
      <3> HIDE DEF T
      <3> QED  BY <2>1, LeastOf
    <2>3. PICK m \in S : t = N - m
      BY <2>2
    <2>4. ASSUME NEW k \in S PROVE m >= k
      <3>1. N - k \in T
        OBVIOUS
      <3>2. N - m <= N - k
        BY <2>2, <2>3, <3>1
      <3>3. m \in Int /\ k \in Int
        OBVIOUS
      <3> QED  BY <3>2, <3>3
    <2> QED  BY <2>4
  <1>2. ASSUME S # {} PROVE Biggest(S) \in S /\ \A k \in S : Biggest(S) >= k
    <2> DEFINE P(m) == m \in S /\ \A k \in S : m >= k
    <2>1. \E m : P(m)
      BY <1>1, <1>2
    <2>2. Biggest(S) = CHOOSE m : P(m)
      BY DEF Biggest
    <2> HIDE DEF P
    <2>3. P(Biggest(S))
      BY <2>1, <2>2
    <2> QED  BY <2>3 DEF P
  <1>3. \A m \in S : m # 0
    OBVIOUS
  <1>4. S = {} => LastOf(S) = 0
    BY DEF LastOf
  <1>5. S # {} => LastOf(S) = Biggest(S)
    BY DEF LastOf
  <1> QED  BY <1>2, <1>3, <1>4, <1>5

LEMMA NodeIs ==
  ASSUME Parsed(doc)
  PROVE  /\ Len(doc) \in Nat /\ DOMAIN doc = 1..Len(doc)
         /\ \A n \in DOMAIN doc :
               /\ doc[n].under \in Nat /\ doc[n].kind \in {"text", "cell", "context"}
               /\ doc[n].own \in Nat \ {0} /\ doc[n].table \in Nat /\ doc[n].row \in Nat
               /\ doc[n].col \in Nat /\ doc[n].context \in Nat /\ doc[n].sized \in BOOLEAN
               /\ doc[n] \in Node /\ n \in Nat /\ n # 0 /\ n \in Ids
  <1>1. doc \in Seq(Node)
    BY DEF Parsed
  <1>2. Len(doc) \in Nat /\ DOMAIN doc = 1..Len(doc) /\ \A n \in DOMAIN doc : doc[n] \in Node
    BY <1>1, LenProperties, ElementOfSeq
  <1>3. ASSUME NEW n \in DOMAIN doc PROVE n \in Nat /\ n # 0 /\ n \in Ids
    BY <1>2 DEF Ids
  <1> QED  BY <1>2, <1>3 DEF Node

LEMMA KeysAre ==
  /\ Range(Keys) = {"up", "left", "down", "right", "parent", "head_child", "previous", "next"}
  /\ Keys \in Seq(Range(Keys)) /\ Len(Keys) = 8 /\ DOMAIN Keys = 1..8
  <1>1. DOMAIN Keys = 1..8 /\ Len(Keys) = 8
    BY DEF Keys
  <1>2. Range(Keys) = {Keys[i] : i \in 1..8}
    BY <1>1 DEF Range
  <1>3. \A i \in 1..8 : i = 1 \/ i = 2 \/ i = 3 \/ i = 4 \/ i = 5 \/ i = 6 \/ i = 7 \/ i = 8
    OBVIOUS
  <1>4. /\ Keys[1] = "up" /\ Keys[2] = "left" /\ Keys[3] = "down" /\ Keys[4] = "right"
        /\ Keys[5] = "parent" /\ Keys[6] = "head_child" /\ Keys[7] = "previous" /\ Keys[8] = "next"
    BY DEF Keys
  <1>5. Range(Keys) \subseteq {"up", "left", "down", "right", "parent", "head_child", "previous", "next"}
    BY <1>2, <1>3, <1>4
  <1>6. {"up", "left", "down", "right", "parent", "head_child", "previous", "next"} \subseteq Range(Keys)
    BY <1>2, <1>4
  <1>7. Keys \in Seq(Range(Keys))
    <2>1. Keys \in [1..8 -> Range(Keys)]
      BY <1>2 DEF Keys
    <2> QED  BY <2>1, SeqDef
  <1> QED  BY <1>1, <1>5, <1>6, <1>7

Beyond(key, a, b) ==
  CASE key \in {"parent", "previous"} -> b < a
    [] key \in {"head_child", "next"} -> a < b
    [] key = "up"    -> doc[b].row < doc[a].row
    [] key = "down"  -> doc[a].row < doc[b].row
    [] key = "left"  -> doc[b].col < doc[a].col
    [] key = "right" -> doc[a].col < doc[b].col

LEMMA BeyondOrders ==
  ASSUME Parsed(doc), NEW key \in Range(Keys)
  PROVE  /\ \A a \in Chunks : ~Beyond(key, a, a)
         /\ \A a, b, c \in Chunks : Beyond(key, a, b) /\ Beyond(key, b, c) => Beyond(key, a, c)
  <1>1. \A a \in Chunks : a \in Nat /\ doc[a].row \in Nat /\ doc[a].col \in Nat
    BY NodeIs DEF Chunks
  <1>2. CASE key \in {"parent", "previous"}
    <2>1. \A a, b : Beyond(key, a, b) <=> b < a
      BY <1>2 DEF Beyond
    <2> QED  BY <1>1, <2>1
  <1>3. CASE key \in {"head_child", "next"}
    <2>1. \A a, b : Beyond(key, a, b) <=> a < b
      BY <1>3 DEF Beyond
    <2> QED  BY <1>1, <2>1
  <1>4. CASE key = "up"
    BY <1>4, <1>1 DEF Beyond
  <1>5. CASE key = "down"
    BY <1>5, <1>1 DEF Beyond
  <1>6. CASE key = "left"
    BY <1>6, <1>1 DEF Beyond
  <1>7. CASE key = "right"
    BY <1>7, <1>1 DEF Beyond
  <1> QED  BY <1>2, <1>3, <1>4, <1>5, <1>6, <1>7, KeysAre

(* The neighbour of a cell is the cell at that place, if there is one.      *)
LEMMA CellIs ==
  ASSUME Parsed(doc), NEW n \in DOMAIN doc, NEW down \in Int, NEW right \in Int
  PROVE  /\ Cell(n, down, right) = 0 \/
              /\ Cell(n, down, right) \in DOMAIN doc
              /\ doc[n].kind = "cell" /\ doc[Cell(n, down, right)].kind = "cell"
              /\ doc[Cell(n, down, right)].table = doc[n].table
              /\ doc[Cell(n, down, right)].row = doc[n].row + down
              /\ doc[Cell(n, down, right)].col = doc[n].col + right
         /\ \A m \in DOMAIN doc :
              /\ doc[n].kind = "cell" /\ doc[m].kind = "cell" /\ doc[m].table = doc[n].table
              /\ doc[m].row = doc[n].row + down /\ doc[m].col = doc[n].col + right
              => Cell(n, down, right) = m
  <1> DEFINE S == {m \in DOMAIN doc : /\ IsTableCell(n) /\ IsTableCell(m) /\ doc[m].table = doc[n].table
                               /\ doc[m].row = doc[n].row + down /\ doc[m].col = doc[n].col + right}
  <1>1. Cell(n, down, right) = FirstOf(S)
    BY DEF Cell
  <1>2. Len(doc) \in Nat /\ S \in SUBSET (1..Len(doc))
    BY NodeIs
  <1>3. \A m, k \in S : m = k
    <2> SUFFICES ASSUME NEW m \in S, NEW k \in S PROVE m = k
      OBVIOUS
    <2>1. /\ m \in DOMAIN doc /\ k \in DOMAIN doc /\ doc[m].kind = "cell" /\ doc[k].kind = "cell"
          /\ doc[m].table = doc[k].table /\ doc[m].row = doc[k].row /\ doc[m].col = doc[k].col
      BY DEF IsTableCell
    <2> HIDE DEF S
    <2> QED  BY <2>1 DEF Parsed
  <1>4. \A m \in S : /\ m \in DOMAIN doc
              /\ doc[n].kind = "cell" /\ doc[m].kind = "cell"
              /\ doc[m].table = doc[n].table
              /\ doc[m].row = doc[n].row + down
              /\ doc[m].col = doc[n].col + right
    BY DEF IsTableCell
  <1>5. \A m \in DOMAIN doc :
              /\ doc[n].kind = "cell" /\ doc[m].kind = "cell" /\ doc[m].table = doc[n].table
              /\ doc[m].row = doc[n].row + down /\ doc[m].col = doc[n].col + right
              => m \in S
    BY DEF IsTableCell
  <1> HIDE DEF S
  <1>6. (S = {} => FirstOf(S) = 0) /\ (S # {} => FirstOf(S) \in S)
    BY <1>2, FirstIs
  <1> QED  BY <1>1, <1>3, <1>4, <1>5, <1>6

LEMMA DomIs ==
  ASSUME Parsed(doc), NEW n \in Chunks, NEW key \in Range(Keys), Dom(n, key) # 0
  PROVE  Dom(n, key) \in Chunks /\ Beyond(key, n, Dom(n, key))
  <1>1. /\ Len(doc) \in Nat /\ DOMAIN doc = 1..Len(doc) /\ n \in DOMAIN doc
        /\ doc[n].row \in Nat /\ doc[n].col \in Nat /\ n \in Nat
        /\ \A m \in DOMAIN doc : m \in Nat /\ doc[m].row \in Nat /\ doc[m].col \in Nat
    BY NodeIs DEF Chunks
  <1>2. CASE key = "parent"
    BY <1>2, <1>1 DEF Dom, Parsed, Beyond, Chunks
  <1>3. CASE key = "head_child"
    <2> DEFINE S == {m \in DOMAIN doc : doc[m].under = n}
    <2>1. Dom(n, key) = FirstOf(S)
      BY <1>3 DEF Dom, HeadChild
    <2>2. S \in SUBSET (1..Len(doc))
      BY <1>1
    <2> HIDE DEF S
    <2>3. FirstOf(S) \in S
      BY <1>1, <2>1, <2>2, FirstIs
    <2>4. \A m \in S : m \in DOMAIN doc /\ doc[m].under = n
      BY DEF S
    <2>5. \A m \in S : m \in Chunks /\ n < m
      BY <1>1, <2>4 DEF Parsed, Chunks
    <2> QED  BY <1>3, <2>1, <2>3, <2>5 DEF Beyond
  <1>4. CASE key = "previous"
    <2> DEFINE S == {m \in Line(n) : m < n}
    <2>1. Dom(n, key) = LastOf(S)
      BY <1>4 DEF Dom
    <2>2. S \in SUBSET (1..Len(doc))
      BY <1>1 DEF Line
    <2>3. \A m \in S : m \in Chunks /\ m < n
      BY DEF Line, InLine, Chunks
    <2> HIDE DEF S
    <2>4. LastOf(S) \in S
      BY <1>1, <2>1, <2>2, LastIs
    <2> QED  BY <1>4, <2>1, <2>3, <2>4 DEF Beyond
  <1>5. CASE key = "next"
    <2> DEFINE S == {m \in Line(n) : m > n}
    <2>1. Dom(n, key) = FirstOf(S)
      BY <1>5 DEF Dom
    <2>2. S \in SUBSET (1..Len(doc))
      BY <1>1 DEF Line
    <2>3. \A m \in S : m \in Chunks /\ n < m
      BY <1>1 DEF Line, InLine, Chunks
    <2> HIDE DEF S
    <2>4. FirstOf(S) \in S
      BY <1>1, <2>1, <2>2, FirstIs
    <2> QED  BY <1>5, <2>1, <2>3, <2>4 DEF Beyond
  <1>6. ASSUME NEW down \in Int, NEW right \in Int, Dom(n, key) = Cell(n, down, right)
        PROVE  /\ Dom(n, key) \in Chunks
               /\ doc[Dom(n, key)].row = doc[n].row + down
               /\ doc[Dom(n, key)].col = doc[n].col + right
    BY <1>1, <1>6, CellIs DEF Chunks
  <1>7. CASE key = "up"
    <2>1. Dom(n, key) = Cell(n, -1, 0)
      BY <1>7 DEF Dom
    <2>2. Dom(n, key) \in Chunks /\ doc[Dom(n, key)].row = doc[n].row + (-1)
      BY <1>6, <2>1
    <2>3. doc[Dom(n, key)].row < doc[n].row
      BY <1>1, <2>2
    <2> QED  BY <1>7, <2>2, <2>3 DEF Beyond
  <1>8. CASE key = "down"
    BY <1>8, <1>6, <1>1 DEF Dom, Beyond
  <1>9. CASE key = "left"
    <2>1. Dom(n, key) = Cell(n, 0, -1)
      BY <1>9 DEF Dom
    <2>2. Dom(n, key) \in Chunks /\ doc[Dom(n, key)].col = doc[n].col + (-1)
      BY <1>6, <2>1
    <2>3. doc[Dom(n, key)].col < doc[n].col
      BY <1>1, <2>2
    <2> QED  BY <1>9, <2>2, <2>3 DEF Beyond
  <1>10. CASE key = "right"
    BY <1>10, <1>6, <1>1 DEF Dom, Beyond
  <1> QED  BY <1>2, <1>3, <1>4, <1>5, <1>7, <1>8, <1>9, <1>10, KeysAre

-----------------------------------------------------------------------------
(* The invariant behind Restored.                                           *)
DocOK ==
  /\ Parsed(doc) /\ kept \subseteq DOMAIN doc /\ saved \in Nat
  /\ \A n \in kept : doc[n].kind = "context" => doc[n].context # 0
  /\ groups # <<>> => \A n \in kept : doc[n].sized

LinkType == link \in [Ids -> [Range(Keys) -> Ids]]
Faithful(n) == \A key \in Range(Keys) : link[n][key] = IF Dangles(n, key) THEN 0 ELSE Dom(n, key)
Entry == [node : Chunks, dir : Range(Keys) \cup {""}, done : BOOLEAN]
Started == {stack[k].node : k \in {i \in DOMAIN stack : stack[i].done}}
WalkOK ==
  /\ visited \subseteq Structure /\ \A n \in visited : Faithful(n)
  /\ stack \in Seq(Entry) /\ \A i \in DOMAIN stack : i > 1 => stack[i].dir # ""
  /\ path \subseteq Started
  /\ \A i, j \in DOMAIN stack : i < j /\ stack[i].done =>
       /\ Beyond(stack[j].dir, stack[i].node, stack[j].node)
       /\ i > 1 => stack[j].dir = stack[i].dir
  /\ ~failed

RelInv ==
  /\ DocOK /\ LinkType
  /\ summary = "save" => pc = "recall"
  /\ pc = "link" => WalkOK
  /\ pc = "mock" => ~failed /\ \A n \in Structure : Faithful(n)
  /\ pc = "recall" /\ Chunks \subseteq kept => ~failed

LEMMA FrontIs ==
  ASSUME NEW S, NEW s \in Seq(S), s # <<>>
  PROVE  /\ Len(s) \in Nat /\ Len(s) > 0 /\ Last(s) \in S /\ Last(s) = s[Len(s)]
         /\ Front(s) \in Seq(S) /\ Len(Front(s)) = Len(s) - 1
         /\ \A i \in 1..Len(s) - 1 : Front(s)[i] = s[i]
  <1>1. Len(s) \in Nat /\ Len(s) > 0 /\ \A i \in 1..Len(s) : s[i] \in S
    BY EmptySeq, ElementOfSeq
  <1>2. Front(s) = SubSeq(s, 1, Len(s) - 1) /\ Last(s) = s[Len(s)]
    BY DEF Front, Last
  <1>3. 1 \in Int /\ Len(s) - 1 \in Int /\ \A i \in 1..Len(s) - 1 : s[i] \in S
    BY <1>1
  <1>4. /\ SubSeq(s, 1, Len(s) - 1) \in Seq(S)
        /\ Len(SubSeq(s, 1, Len(s) - 1)) = IF 1 <= Len(s) - 1 THEN Len(s) - 1 - 1 + 1 ELSE 0
        /\ \A i \in 1..Len(s) - 1 - 1 + 1 : SubSeq(s, 1, Len(s) - 1)[i] = s[1 + i - 1]
    BY <1>3, SubSeqProperties
  <1>5. Len(SubSeq(s, 1, Len(s) - 1)) = Len(s) - 1
    <2> DEFINE k == Len(s)
               q == SubSeq(s, 1, k - 1)
    <2>1. k \in Nat /\ k > 0 /\ Len(q) = IF 1 <= k - 1 THEN k - 1 - 1 + 1 ELSE 0
      BY <1>1, <1>4
    <2> HIDE DEF k, q
    <2>2. Len(q) = k - 1
      BY <2>1
    <2> QED  BY <2>2 DEF k, q
  <1>6. \A i \in 1..Len(s) - 1 : SubSeq(s, 1, Len(s) - 1)[i] = s[i]
    BY <1>1, <1>4
  <1>7. Len(s) \in 1..Len(s)
    BY <1>1
  <1> QED  BY <1>1, <1>2, <1>4, <1>5, <1>6, <1>7

(* The top of a stack is replaced, and more is put on it.                   *)
Pushed(S, s, e, more, t) ==
  /\ t \in Seq(S) /\ Len(t) = Len(s) + Len(more) /\ Len(t) \in Nat
  /\ \A i \in 1..Len(s)-1 : t[i] = s[i]
  /\ t[Len(s)] = e
  /\ \A i \in Len(s)+1..Len(s)+Len(more) : t[i] = more[i - Len(s)]

LEMMA PushIs ==
  ASSUME NEW S, NEW s \in Seq(S), s # <<>>, NEW e \in S, NEW more \in Seq(S),
         NEW t, t = Front(s) \o <<e>> \o more
  PROVE  Pushed(S, s, e, more, t)
  <1> DEFINE n == Len(s)
  <1> DEFINE u == Front(s) \o <<e>>
  <1>0. t = u \o more
    OBVIOUS
  <1>1. /\ n \in Nat /\ n > 0 /\ Front(s) \in Seq(S) /\ Len(Front(s)) = n - 1
        /\ \A i \in 1..n - 1 : Front(s)[i] = s[i]
    BY FrontIs
  <1>2. <<e>> \in Seq(S) /\ Len(<<e>>) = 1 /\ <<e>>[1] = e
    OBVIOUS
  <1>3. /\ u \in Seq(S) /\ Len(u) = Len(Front(s)) + Len(<<e>>)
        /\ \A i \in 1..Len(Front(s)) + Len(<<e>>) :
             u[i] = IF i <= Len(Front(s)) THEN Front(s)[i] ELSE <<e>>[i - Len(Front(s))]
    BY <1>1, <1>2, ConcatProperties
  <1>4. Len(u) = n /\ \A i \in 1..n : u[i] = IF i <= n - 1 THEN Front(s)[i] ELSE <<e>>[i - (n - 1)]
    BY <1>1, <1>2, <1>3
  <1>5. \A i \in 1..n-1 : u[i] = s[i]
    BY <1>1, <1>4
  <1>6. u[n] = e
    BY <1>1, <1>4, <1>2
  <1> HIDE DEF u
  <1>7. Len(more) \in Nat
    BY LenProperties
  <1>a. u \in Seq(S)
    BY <1>3
  <1>8. /\ t \in Seq(S) /\ Len(t) = Len(u) + Len(more)
        /\ \A i \in 1..Len(u) + Len(more) : t[i] = IF i <= Len(u) THEN u[i] ELSE more[i - Len(u)]
    BY <1>0, <1>a, ConcatProperties
  <1>9. \A i \in 1..n + Len(more) : t[i] = IF i <= n THEN u[i] ELSE more[i - n]
    BY <1>4, <1>8
  <1>10. \A i \in 1..n-1 : t[i] = s[i]
    BY <1>1, <1>5, <1>7, <1>9
  <1>11. t[n] = e
    BY <1>1, <1>7, <1>6, <1>9
  <1>12. \A i \in n+1..n+Len(more) : t[i] = more[i - n]
    BY <1>1, <1>7, <1>9
  <1>13. Len(t) = n + Len(more) /\ Len(t) \in Nat
    BY <1>1, <1>4, <1>7, <1>8
  <1> QED  BY <1>8, <1>10, <1>11, <1>12, <1>13 DEF Pushed

LEMMA DomSame ==
  ASSUME doc' = doc, kept' = kept
  PROVE  /\ \A m, key : Dom(m, key)' = Dom(m, key) /\ Dangles(m, key)' = Dangles(m, key)
         /\ Structure' = Structure /\ Chunks' = Chunks /\ Ids' = Ids /\ Entry' = Entry
         /\ \A key, a, b : Beyond(key, a, b)' <=> Beyond(key, a, b)
  <1>1. \A m, key : Dom(m, key)' = Dom(m, key) /\ Dangles(m, key)' = Dangles(m, key)
    BY DEF Dom, Dangles, HeadChild, Cell, Line, InLine, IsTableCell
  <1>2. \A key, a, b : Beyond(key, a, b)' <=> Beyond(key, a, b)
    BY DEF Beyond
  <1>3. Structure' = Structure /\ Chunks' = Chunks /\ Ids' = Ids /\ Entry' = Entry
    BY DEF Structure, Chunks, Ids, Entry
  <1> QED  BY <1>1, <1>2, <1>3

LEMMA RelInit == InitContexts => RelInv
  <1> SUFFICES ASSUME InitContexts PROVE RelInv
    OBVIOUS
  <1>1. /\ doc \in Documents /\ kept \in {Written} \cup {Written \ {n} : n \in Chunks}
        /\ link = Unlinked /\ stack = <<>> /\ visited = {} /\ path = {} /\ failed = FALSE
        /\ pc = "link" /\ groups = <<>> /\ saved = 0
        /\ summary = IF kept \subseteq Chunks THEN "none" ELSE "done"
    BY DEF InitContexts, InitAll, Init
  <1>2. Parsed(doc)
    BY <1>1, DocumentsAssumption
  <1>3. DocOK
    BY <1>1, <1>2 DEF Written, Chunks, DocOK
  <1>4. LinkType
    BY <1>2, NodeIs, <1>1 DEF Ids, LinkType, Unlinked
  <1>5. WalkOK
    BY <1>1 DEF WalkOK
  <1>6. summary # "save"
    BY <1>1
  <1> QED  BY <1>1, <1>3, <1>4, <1>5, <1>6 DEF RelInv

LEMMA StartWalkStep == RelInv /\ StartWalk => WalkOK' /\ LinkType'
  <1> SUFFICES ASSUME RelInv, StartWalk PROVE WalkOK' /\ LinkType'
    OBVIOUS
  <1>1. /\ pc = "link" /\ WalkOK /\ path' = {} /\ doc' = doc /\ kept' = kept /\ link' = link
        /\ visited' = visited /\ failed' = failed
    BY DEF RelInv, StartWalk, tree, relations
  <1>2. PICK n \in Structure \ visited : stack' = <<[node |-> n, dir |-> "", done |-> FALSE]>>
    BY DEF StartWalk
  <1> DEFINE e == [node |-> n, dir |-> "", done |-> FALSE]
  <1>3. e \in Entry /\ n \in Chunks
    BY <1>1 DEF Entry, Structure, Chunks, RelInv, DocOK
  <1>4. Entry' = Entry /\ Structure' = Structure
    BY <1>1 DEF Entry, Structure, Chunks
  <1>5. \A m : Faithful(m)' <=> Faithful(m)
    <2>1. \A m, key : Dom(m, key)' = Dom(m, key) /\ Dangles(m, key)' = Dangles(m, key)
      BY <1>1 DEF Dom, Dangles, HeadChild, Cell, Line, InLine, IsTableCell
    <2> QED  BY <1>1, <2>1 DEF Faithful
  <1>6. stack' \in Seq(Entry) /\ DOMAIN stack' = {1}
    <2>1. stack' = <<e>>
      BY <1>2
    <2> HIDE DEF e
    <2> QED  BY <1>3, <2>1
  <1>7. LinkType'
    BY <1>1 DEF LinkType, RelInv, Ids
  <1>8. path' \subseteq Started'
    BY <1>1
  <1>9. \A i, j \in DOMAIN stack' : ~(i < j) /\ ~(i > 1)
    BY <1>6
  <1> QED  BY <1>1, <1>4, <1>5, <1>6, <1>7, <1>8, <1>9 DEF WalkOK

(* Whatever is taken off the stack, the walk stays as it should be.         *)
LEMMA PopStep ==
  ASSUME Parsed(doc), WalkOK, stack # <<>>, stack' = Front(stack),
         doc' = doc, kept' = kept, link' = link, visited' = visited, failed' = failed,
         path' = IF Last(stack).done THEN path \ {Last(stack).node} ELSE path
  PROVE  WalkOK'
  <1> DEFINE L == Len(stack)
  <1>1. stack \in Seq(Entry)
    BY DEF WalkOK
  <1>2. /\ L \in Nat /\ L > 0 /\ Last(stack) = stack[L] /\ DOMAIN stack = 1..L
        /\ stack' \in Seq(Entry) /\ Len(stack') = L - 1 /\ DOMAIN stack' = 1..L-1
        /\ \A i \in 1..L-1 : stack'[i] = stack[i]
    BY <1>1, FrontIs, LenProperties
  <1> HIDE DEF L
  <1>3. Entry' = Entry /\ Structure' = Structure
    BY DEF Entry, Structure, Chunks
  <1>4. \A m : Faithful(m)' <=> Faithful(m)
    <2>1. \A m, key : Dom(m, key)' = Dom(m, key) /\ Dangles(m, key)' = Dangles(m, key)
      BY DEF Dom, Dangles, HeadChild, Cell, Line, InLine, IsTableCell
    <2> QED  BY <2>1 DEF Faithful
  <1>5. \A i \in 1..L-1 : i \in 1..L
    BY <1>2
  <1>6. \A i \in DOMAIN stack' : i > 1 => stack'[i].dir # ""
    BY <1>2, <1>5 DEF WalkOK
  <1>7. \A i, j \in DOMAIN stack' : i < j /\ stack'[i].done =>
           /\ Beyond(stack'[j].dir, stack'[i].node, stack'[j].node)
           /\ i > 1 => stack'[j].dir = stack'[i].dir
    <2>1. \A i, j \in DOMAIN stack : i < j /\ stack[i].done =>
             /\ Beyond(stack[j].dir, stack[i].node, stack[j].node)
             /\ i > 1 => stack[j].dir = stack[i].dir
      BY DEF WalkOK
    <2> QED  BY <1>2, <1>5, <2>1
  <1>8. \A key, a, b : Beyond(key, a, b)' <=> Beyond(key, a, b)
    BY DEF Beyond
  <1>9. path' \subseteq Started'
    <2> SUFFICES ASSUME NEW p \in path' PROVE p \in Started'
      OBVIOUS
    <2>1. p \in path
      OBVIOUS
    <2>2. PICK k \in DOMAIN stack : stack[k].done /\ p = stack[k].node
      BY <2>1 DEF WalkOK, Started
    <2>3. k # L
      BY <1>2, <2>2
    <2>4. k \in 1..L-1
      BY <1>2, <2>2, <2>3
    <2>5. stack'[k].done /\ p = stack'[k].node /\ k \in DOMAIN stack'
      BY <1>2, <2>2, <2>4
    <2> QED  BY <2>5 DEF Started
  <1>10. visited' \subseteq Structure' /\ (\A n \in visited' : Faithful(n)') /\ ~failed'
    BY <1>3, <1>4 DEF WalkOK
  <1>11. stack' \in Seq(Entry')
    BY <1>2, <1>3
  <1> QED  BY <1>6, <1>7, <1>8, <1>9, <1>10, <1>11 DEF WalkOK

LEMMA OnwardIs ==
  ASSUME NEW n, NEW dir
  PROVE  /\ Onward(n, dir) \in Seq(Range(Keys))
         /\ \A i \in 1..Len(Onward(n, dir)) :
               /\ Onward(n, dir)[i] \in Stored(n) /\ Onward(n, dir)[i] \in Range(Keys)
               /\ dir # "" => Onward(n, dir)[i] = dir
  <1> DEFINE S == IF dir = "" THEN Stored(n) ELSE Stored(n) \cap {dir}
  <1>1. Onward(n, dir) = Only(Keys, S)
    BY DEF Onward
  <1>2. Keys \in Seq(Range(Keys))
    BY KeysAre
  <1>3. \A s \in S : s \in Stored(n) /\ (dir # "" => s = dir)
    OBVIOUS
  <1> HIDE DEF S
  <1>4. /\ Only(Keys, S) \in Seq(Range(Keys))
        /\ \A i \in 1..Len(Only(Keys, S)) : Only(Keys, S)[i] \in S \cap Range(Keys)
    BY <1>2, OnlyIs
  <1> QED  BY <1>1, <1>3, <1>4

(* From a node that is reached in some direction, nothing in that direction *)
(* is on the path: no relation is taken for the end of a circle.            *)
LEMMA NoCircle ==
  ASSUME Parsed(doc), WalkOK, stack # <<>>, ~Last(stack).done, NEW key \in Range(Keys)
  PROVE  ~Circle(Last(stack).node, key, Last(stack).dir)
  <1> DEFINE L == Len(stack)
             n == Last(stack).node
             d == Last(stack).dir
  <1>1. stack \in Seq(Entry)
    BY DEF WalkOK
  <1>2. L \in Nat /\ L > 0 /\ Last(stack) = stack[L] /\ DOMAIN stack = 1..L /\ Last(stack) \in Entry
        /\ \A i \in 1..L : stack[i] \in Entry
    BY <1>1, FrontIs, LenProperties, ElementOfSeq
  <1> SUFFICES ASSUME Circle(n, key, d) PROVE FALSE
    OBVIOUS
  <1>3. key \in Range(Onward(n, d)) /\ Dom(n, key) \in path \cup {n}
    BY DEF Circle
  <1>4. key \in Stored(n) /\ (d # "" => key = d)
    <2> HIDE DEF L, n, d
    <2> DEFINE o == Onward(n, d)
    <2>1. o \in Seq(Range(Keys))
      BY OnwardIs, Zenon
    <2>2. \A i \in 1..Len(o) :
             /\ o[i] \in Stored(n) /\ o[i] \in Range(Keys)
             /\ d # "" => o[i] = d
      BY OnwardIs, Zenon
    <2> HIDE DEF o
    <2>3. Range(o) = {o[i] : i \in 1..Len(o)}
      BY <2>1, RangeEquality, Zenon
    <2>4. key \in Range(o)
      BY <1>3 DEF o
    <2>5. PICK i \in 1..Len(o) : key = o[i]
      BY <2>3, <2>4
    <2> QED  BY <2>2, <2>5
  <1>5. n \in Chunks /\ Dom(n, key) # 0
    BY <1>2, <1>4 DEF Entry, Stored
  <1>6. Dom(n, key) \in Chunks /\ Beyond(key, n, Dom(n, key))
    BY <1>5, DomIs
  <1>7. Dom(n, key) # n
    BY <1>5, <1>6, BeyondOrders
  <1>8. PICK k \in DOMAIN stack : stack[k].done /\ Dom(n, key) = stack[k].node
    BY <1>3, <1>7 DEF WalkOK, Started
  <1>9. k # L /\ k < L /\ L > 1
    BY <1>2, <1>8
  <1>10. Beyond(d, stack[k].node, n) /\ d # ""
    <2>1. /\ \A i \in DOMAIN stack : i > 1 => stack[i].dir # ""
          /\ \A i, j \in DOMAIN stack : i < j /\ stack[i].done =>
                Beyond(stack[j].dir, stack[i].node, stack[j].node)
      BY DEF WalkOK
    <2>2. L \in DOMAIN stack
      BY <1>2
    <2> HIDE DEF L
    <2> QED  BY <1>2, <1>8, <1>9, <2>1, <2>2
  <1>11. key = d
    BY <1>4, <1>10
  <1>12. Beyond(key, Dom(n, key), Dom(n, key))
    <2>1. stack[k].node \in Chunks
      BY <1>2, <1>8 DEF Entry
    <2>2. Beyond(key, Dom(n, key), n)
      BY <1>8, <1>10, <1>11
    <2> QED  BY <1>5, <1>6, <2>2, BeyondOrders
  <1> QED  BY <1>6, <1>12, BeyondOrders

LEMMA SameUpTo ==
  ASSUME NEW a \in Nat, NEW b \in Nat, 1..a = 1..b
  PROVE  a = b
  <1>1. ASSUME NEW c \in Nat, NEW d \in Nat, c < d, 1..c = 1..d PROVE FALSE
    BY <1>1
  <1> QED  BY <1>1

LEMMA LinkIs ==
  ASSUME Parsed(doc), WalkOK, stack # <<>>, ~Last(stack).done
  PROVE  LET n == Last(stack).node IN
         Link(n, Last(stack).dir) = [key \in Range(Keys) |-> IF Dangles(n, key) THEN 0 ELSE Dom(n, key)]
  BY NoCircle DEF Link

(* A node is linked for the first time, and the walk goes on from it.       *)
NewNode(n, d, onward) ==
  /\ stack # <<>> /\ n = Last(stack).node /\ d = Last(stack).dir /\ ~Last(stack).done
  /\ n \in kept \ visited /\ onward = Onward(n, d)
  /\ link' = [link EXCEPT ![n] = Link(n, d)]
  /\ visited' = visited \cup {n} /\ path' = path \cup {n}
  /\ stack' = Front(stack) \o <<[Last(stack) EXCEPT !.done = TRUE]>> \o
               [i \in DOMAIN onward |->
                   [node |-> Dom(n, onward[i]), dir |-> onward[i], done |-> FALSE]]
  /\ doc' = doc /\ kept' = kept /\ failed' = failed

LEMMA NewStep ==
  ASSUME DocOK, LinkType, WalkOK, NEW n, NEW d, NEW onward, NewNode(n, d, onward)
  PROVE  WalkOK' /\ LinkType'
  <1> DEFINE L == Len(stack)
             K == Len(onward)
             top == Last(stack)
             e == [top EXCEPT !.done = TRUE]
             more == [i \in DOMAIN onward |->
                        [node |-> Dom(n, onward[i]), dir |-> onward[i], done |-> FALSE]]
  <1>1. stack \in Seq(Entry) /\ stack # <<>>
    BY DEF WalkOK, NewNode
  <1>0. Parsed(doc) /\ kept \subseteq DOMAIN doc
    BY DEF DocOK
  <1>b. /\ n = top.node /\ d = top.dir /\ ~top.done /\ n \in kept \ visited
        /\ onward = Onward(n, d) /\ visited' = visited \cup {n} /\ path' = path \cup {n}
    BY DEF NewNode
  <1>c. doc' = doc /\ kept' = kept /\ failed' = failed
    BY DEF NewNode
  <1>8. stack' = Front(stack) \o <<e>> \o more
    BY DEF NewNode
  <1>d. /\ L = Len(stack) /\ top = Last(stack) /\ K = Len(onward) /\ DOMAIN more = DOMAIN onward
        /\ \A i \in DOMAIN onward :
              more[i] = [node |-> Dom(n, onward[i]), dir |-> onward[i], done |-> FALSE]
        /\ more = [i \in DOMAIN onward |-> more[i]]
    OBVIOUS
  <1> HIDE DEF e, more, L, K, top
  <1>2. /\ L \in Nat /\ L > 0 /\ top = stack[L] /\ DOMAIN stack = 1..L /\ top \in Entry
        /\ \A i \in 1..L : stack[i] \in Entry
    BY <1>1, <1>d, FrontIs, LenProperties, ElementOfSeq
  <1>3. n \in Chunks /\ d \in Range(Keys) \cup {""} /\ n \in Structure /\ n \in Ids
    <2>1. n \in Chunks /\ d \in Range(Keys) \cup {""}
      BY <1>2, <1>b DEF Entry
    <2>2. n \in DOMAIN doc /\ doc[n].kind # "context"
      BY <2>1 DEF Chunks
    <2> QED  BY <1>0, <1>b, <2>1, <2>2, NodeIs DEF Structure
  <1>4. e \in Entry /\ e.node = n /\ e.dir = d /\ e.done
    BY <1>2, <1>b DEF Entry, e
  <1>5. /\ onward \in Seq(Range(Keys)) /\ K \in Nat /\ DOMAIN onward = 1..K
        /\ \A i \in 1..K : onward[i] \in Stored(n) /\ onward[i] \in Range(Keys)
        /\ d # "" => \A i \in 1..K : onward[i] = d
    <2>1. onward \in Seq(Range(Keys))
      BY <1>b, OnwardIs
    <2>2. \A i \in 1..Len(Onward(n, d)) :
               /\ Onward(n, d)[i] \in Stored(n) /\ Onward(n, d)[i] \in Range(Keys)
               /\ d # "" => Onward(n, d)[i] = d
      BY OnwardIs
    <2>3. K \in Nat /\ DOMAIN onward = 1..K
      BY <1>d, <2>1, LenProperties
    <2>4. onward = Onward(n, d) /\ K = Len(Onward(n, d))
      BY <1>b, <1>d
    <2>5. \A i \in 1..K : /\ onward[i] \in Stored(n) /\ onward[i] \in Range(Keys)
                          /\ d # "" => onward[i] = d
      BY <2>2, <2>4
    <2> QED  BY <2>1, <2>3, <2>5
  <1>6. \A i \in 1..K : /\ Dom(n, onward[i]) \in Chunks
                        /\ Beyond(onward[i], n, Dom(n, onward[i]))
    BY <1>5, <1>0, <1>3, DomIs DEF Stored
  <1>7. /\ more \in Seq(Entry) /\ Len(more) = K
        /\ \A i \in 1..K : /\ more[i].node = Dom(n, onward[i])
                           /\ more[i].dir = onward[i] /\ ~more[i].done
    <2>0. \A i \in 1..K :
             more[i] = [node |-> Dom(n, onward[i]), dir |-> onward[i], done |-> FALSE]
      BY <1>5, <1>d
    <2>1. DOMAIN more = 1..K /\ \A i \in 1..K : more[i] \in Entry
      <3>1. DOMAIN more = 1..K
        BY <1>5, <1>d
      <3>2. ASSUME NEW i \in 1..K PROVE more[i] \in Entry
        <4>1. Dom(n, onward[i]) \in Chunks /\ onward[i] \in Range(Keys)
          BY <1>5, <1>6
        <4>2. [node |-> Dom(n, onward[i]), dir |-> onward[i], done |-> FALSE] \in Entry
          BY <4>1 DEF Entry
        <4>3. more[i] = [node |-> Dom(n, onward[i]), dir |-> onward[i], done |-> FALSE]
          BY <2>0
        <4> QED  BY <4>2, <4>3
      <3> QED  BY <3>1, <3>2
    <2>2. more = [i \in 1..K |-> more[i]]
      BY <1>5, <1>d
    <2>3. \A i \in 1..K : /\ more[i].node = Dom(n, onward[i])
                          /\ more[i].dir = onward[i] /\ ~more[i].done
      <3> SUFFICES ASSUME NEW i \in 1..K
                   PROVE  /\ more[i].node = Dom(n, onward[i])
                          /\ more[i].dir = onward[i] /\ ~more[i].done
        OBVIOUS
      <3>1. more[i] = [node |-> Dom(n, onward[i]), dir |-> onward[i], done |-> FALSE]
        BY <2>0
      <3> QED  BY <3>1
    <2>4. more \in [1..K -> Entry]
      BY <2>1, <2>2
    <2>5. more \in Seq(Entry)
      BY <1>5, <2>4, SeqDef
    <2>6. Len(more) = K
      BY <2>5, LenProperties, <1>5, <2>1, SameUpTo
    <2> QED  BY <2>3, <2>5, <2>6
  <1>9. /\ stack' \in Seq(Entry) /\ Len(stack') = L + K /\ Len(stack') \in Nat
        /\ \A i \in 1..L-1 : stack'[i] = stack[i]
        /\ stack'[L] = e
        /\ \A i \in L+1..L+K : stack'[i] = more[i - L]
    <2>1. L = Len(stack) /\ stack' = Front(stack) \o <<e>> \o more /\ more \in Seq(Entry)
      BY <1>7, <1>8, <1>d
    <2>2. /\ stack' \in Seq(Entry) /\ Len(stack') = L + Len(more) /\ Len(stack') \in Nat
          /\ \A i \in 1..L-1 : stack'[i] = stack[i]
          /\ stack'[L] = e
          /\ \A i \in L+1..L+Len(more) : stack'[i] = more[i - L]
      <3>1. e \in Entry
        BY <1>4
      <3> DEFINE S == Entry
      <3>2. e \in S /\ stack \in Seq(S) /\ more \in Seq(S) /\ stack # <<>>
        BY <1>1, <2>1, <3>1
      <3> HIDE DEF S
      <3>3. Pushed(S, stack, e, more, stack')
        BY <2>1, <3>2, PushIs
      <3> QED  BY <2>1, <3>3 DEF S, Pushed
    <2> QED  BY <1>7, <2>2
  <1>a. L \in Nat /\ L > 0 /\ K \in Nat
    BY <1>2, <1>5
  <1>10. DOMAIN stack' = 1..L+K
    BY <1>9, LenProperties
  <1>11. Entry' = Entry /\ Structure' = Structure /\ Ids' = Ids
    BY <1>c, DomSame
  <1>12. link' = [link EXCEPT ![n] = [key \in Range(Keys) |-> IF Dangles(n, key) THEN 0 ELSE Dom(n, key)]]
    BY <1>0, LinkIs DEF NewNode
  <1>13. \A m, key : Dom(m, key)' = Dom(m, key) /\ Dangles(m, key)' = Dangles(m, key)
    BY <1>c, DomSame
  <1>14. \A m \in visited' : Faithful(m)'
    <2> SUFFICES ASSUME NEW m \in visited' PROVE Faithful(m)'
      OBVIOUS
    <2>1. CASE m = n
      BY <1>3, <1>12, <1>13, <2>1 DEF LinkType, Faithful
    <2>2. CASE m # n
      <3>1. m \in visited
        BY <1>b, <2>2
      <3>2. link'[m] = link[m] /\ Faithful(m)
        <4>0. m \in Chunks
          BY <1>0, <3>1 DEF WalkOK, Structure, Chunks
        <4>1. m \in Ids
          BY <1>0, <4>0, NodeIs DEF Chunks
        <4>2. Faithful(m)
          BY <3>1 DEF WalkOK
        <4> QED  BY <1>12, <2>2, <4>1, <4>2 DEF LinkType
      <3> QED  BY <1>13, <3>2 DEF Faithful
    <2> QED  BY <2>1, <2>2
  <1>15. LinkType'
    <2>1. \A key \in Range(Keys) : (IF Dangles(n, key) THEN 0 ELSE Dom(n, key)) \in Ids
      <3> SUFFICES ASSUME NEW key \in Range(Keys)
                   PROVE  (IF Dangles(n, key) THEN 0 ELSE Dom(n, key)) \in Ids
        OBVIOUS
      <3>1. 0 \in Ids
        BY <1>0, NodeIs DEF Ids
      <3>2. Dom(n, key) # 0 => Dom(n, key) \in Ids
        BY <1>0, <1>3, DomIs, NodeIs DEF Chunks
      <3> QED  BY <3>1, <3>2
    <2>2. [key \in Range(Keys) |-> IF Dangles(n, key) THEN 0 ELSE Dom(n, key)] \in [Range(Keys) -> Ids]
      BY <2>1
    <2>3. link' \in [Ids -> [Range(Keys) -> Ids]]
      <3> HIDE DEF Dangles
      <3> QED  BY <1>3, <1>12, <2>2 DEF LinkType
    <2> QED  BY <1>11, <2>3 DEF LinkType
  <1>16. \A i \in 1..L+K : i \in 1..L-1 \/ i = L \/ (i \in L+1..L+K /\ i - L \in 1..K)
    BY <1>a
  <1>17. \A i \in DOMAIN stack' : i > 1 => stack'[i].dir # ""
    <2> SUFFICES ASSUME NEW i \in DOMAIN stack', i > 1 PROVE stack'[i].dir # ""
      OBVIOUS
    <2>1. \A k \in 1..L : k > 1 => stack[k].dir # ""
      BY <1>2 DEF WalkOK
    <2>2. CASE i \in 1..L-1
      <3>1. i \in 1..L
        BY <1>2, <2>2
      <3> QED  BY <1>9, <2>1, <2>2, <3>1
    <2>3. CASE i = L
      <3>1. L \in 1..L /\ stack[L].dir = d
        BY <1>2, <1>b
      <3> QED  BY <1>4, <1>9, <2>1, <2>3, <3>1
    <2>4. CASE i \in L+1..L+K /\ i - L \in 1..K
      BY <1>5, <1>7, <1>9, <2>4, KeysAre
    <2> QED  BY <1>10, <1>16, <2>2, <2>3, <2>4
  <1>18. path' \subseteq Started'
    <2> SUFFICES ASSUME NEW p \in path' PROVE p \in Started'
      OBVIOUS
    <2>1. CASE p = n
      BY <1>4, <1>9, <1>10, <1>a, <2>1 DEF Started
    <2>2. CASE p # n
      <3>1. PICK k \in DOMAIN stack : stack[k].done /\ p = stack[k].node
        BY <1>b, <2>2 DEF WalkOK, Started
      <3>2. k # L
        BY <1>2, <1>b, <3>1
      <3>3. k \in 1..L-1 /\ k \in DOMAIN stack'
        BY <1>2, <3>1, <1>10, <1>a, <3>2
      <3>4. stack'[k].done /\ p = stack'[k].node
        BY <1>9, <3>1, <3>3
      <3> QED  BY <3>3, <3>4 DEF Started
    <2> QED  BY <2>1, <2>2
  <1>19. ASSUME NEW i \in DOMAIN stack', NEW j \in DOMAIN stack', i < j, stack'[i].done
         PROVE  /\ Beyond(stack'[j].dir, stack'[i].node, stack'[j].node)
                /\ i > 1 => stack'[j].dir = stack'[i].dir
    <2>0. \A k, l \in DOMAIN stack : k < l /\ stack[k].done =>
             /\ Beyond(stack[l].dir, stack[k].node, stack[l].node)
             /\ k > 1 => stack[l].dir = stack[k].dir
      BY DEF WalkOK
    <2>1. i \in 1..L-1 \/ i = L
      BY <1>7, <1>9, <1>19, <1>10, <1>16
    <2>2. CASE j \in 1..L-1
      BY <1>2, <1>19, <2>1, <2>2, <1>9, <2>0
    <2>3. CASE j = L
      <3>1. i \in 1..L-1 /\ i \in DOMAIN stack /\ L \in DOMAIN stack
        BY <1>2, <1>19, <2>1, <2>3
      <3>2. stack'[i] = stack[i] /\ stack'[j].dir = stack[L].dir /\ stack'[j].node = stack[L].node
        BY <1>2, <1>4, <1>9, <1>b, <2>3, <3>1
      <3> QED  BY <1>19, <2>0, <2>3, <3>1, <3>2
    <2>4. CASE j \in L+1..L+K /\ j - L \in 1..K
      <3> DEFINE key == onward[j - L]
      <3>1. /\ stack'[j].dir = key /\ stack'[j].node = Dom(n, key)
            /\ Beyond(key, n, Dom(n, key)) /\ Dom(n, key) \in Chunks
            /\ key \in Range(Keys) /\ (d # "" => key = d)
        BY <1>5, <1>6, <1>7, <1>9, <2>4
      <3> HIDE DEF key
      <3>2. CASE i = L
        <4>1. L > 1 => d # ""
          <5>1. L \in DOMAIN stack /\ stack[L].dir = d
            BY <1>2, <1>b
          <5> QED  BY <5>1 DEF WalkOK
        <4> QED  BY <1>4, <1>9, <3>1, <3>2, <4>1
      <3>3. CASE i \in 1..L-1
        <4>1. /\ stack'[i] = stack[i] /\ i \in DOMAIN stack /\ L \in DOMAIN stack /\ i < L /\ L > 1
              /\ stack[i].done /\ stack[i] \in Entry
          BY <1>a, <3>3, <1>9, <1>2, <1>19
        <4>2. stack[L].dir = d /\ stack[L].node = n
          BY <1>2, <1>b
        <4>3. Beyond(d, stack[i].node, n) /\ (i > 1 => d = stack[i].dir)
          BY <2>0, <4>1, <4>2
        <4>4. d # ""
          BY <4>1, <4>2 DEF WalkOK
        <4>5. stack[i].node \in Chunks
          BY <4>1 DEF Entry
        <4>6. Beyond(key, stack[i].node, Dom(n, key))
          <5>1. Beyond(key, stack[i].node, n) /\ Beyond(key, n, Dom(n, key))
            BY <3>1, <4>3, <4>4
          <5> HIDE DEF Beyond
          <5> QED  BY <1>0, <1>3, <3>1, <4>5, <5>1, BeyondOrders
        <4> QED  BY <3>1, <4>1, <4>3, <4>4, <4>6
      <3> QED  BY <2>1, <3>2, <3>3
    <2> QED  BY <1>10, <1>16, <2>2, <2>3, <2>4
  <1>20. \A key, a, b : Beyond(key, a, b)' <=> Beyond(key, a, b)
    BY <1>c, DomSame
  <1>21. visited' \subseteq Structure' /\ ~failed'
    BY <1>3, <1>11, <1>b, <1>c DEF WalkOK
  <1>22. stack' \in Seq(Entry')
    BY <1>9, <1>11
  <1>23. \A i, j \in DOMAIN stack' : i < j /\ stack'[i].done =>
            /\ Beyond(stack'[j].dir, stack'[i].node, stack'[j].node)
            /\ i > 1 => stack'[j].dir = stack'[i].dir
    BY <1>19
  <1>24. WalkOK'
    BY <1>14, <1>17, <1>18, <1>20, <1>21, <1>22, <1>23 DEF WalkOK
  <1> QED  BY <1>15, <1>24

LEMMA DocSame ==
  ASSUME DocOK, doc' = doc, kept' = kept, saved' = saved, groups' = groups \/ groups' = <<>>
  PROVE  DocOK'
  BY DEF DocOK, Parsed

LEMMA UnlinkedIs == Parsed(doc) => Unlinked \in [Ids -> [Range(Keys) -> Ids]]
  BY NodeIs DEF Ids, Unlinked

LEMMA VisitStep ==
  ASSUME RelInv, Visit, UNCHANGED context, summary # "save"
  PROVE  RelInv'
  <1>1. /\ pc = "link" /\ stack # <<>> /\ WalkOK /\ LinkType /\ DocOK
        /\ doc' = doc /\ kept' = kept /\ saved' = saved /\ groups' = groups /\ summary' # "save"
    BY DEF RelInv, Visit, tree, context
  <1>2. DocOK' /\ Parsed(doc)
    BY <1>1, DocSame DEF DocOK
  <1> DEFINE top == Last(stack)
  <1>3. CASE /\ \/ top.done /\ path' = path \ {top.node}
                \/ ~top.done /\ path' = path
             /\ stack' = Front(stack) /\ UNCHANGED <<link, visited, failed, pc>>
    <2>1. path' = IF Last(stack).done THEN path \ {Last(stack).node} ELSE path
      BY <1>3
    <2>2. WalkOK'
      BY <1>1, <1>2, <1>3, <2>1, PopStep
    <2>3. LinkType'
      BY <1>1, <1>3 DEF LinkType, Ids
    <2> QED  BY <1>1, <1>2, <1>3, <2>2, <2>3 DEF RelInv
  <1>4. CASE top.node \notin kept /\ failed' = TRUE /\ pc' = "recall" /\ link' = link
    <2>1. top \in Entry
      BY <1>1, FrontIs DEF WalkOK
    <2>2. ~(Chunks' \subseteq kept')
      BY <1>1, <2>1, <1>4 DEF Entry, Chunks
    <2>3. LinkType'
      BY <1>1, <1>4 DEF LinkType, Ids
    <2> QED  BY <1>1, <1>2, <1>4, <2>2, <2>3 DEF RelInv
  <1>5. CASE NewNode(top.node, top.dir, Onward(top.node, top.dir)) /\ pc' = pc
    BY <1>1, <1>5, NewStep, <1>2 DEF RelInv
  <1>6. \/ /\ \/ top.done /\ path' = path \ {top.node}
              \/ ~top.done /\ path' = path
           /\ stack' = Front(stack) /\ UNCHANGED <<link, visited, failed, pc>>
        \/ top.node \notin kept /\ failed' = TRUE /\ pc' = "recall" /\ link' = link
        \/ NewNode(top.node, top.dir, Onward(top.node, top.dir)) /\ pc' = pc
    BY DEF Visit, NewNode, tree
  <1> HIDE DEF top
  <1> QED  BY <1>3, <1>4, <1>5, <1>6

(* A rebuild of a file that is complete finds whatever it looks for.        *)
LEMMA NothingLost ==
  ASSUME Parsed(doc), LinkType, kept \subseteq DOMAIN doc, Chunks \subseteq kept,
         \A n \in Structure : Faithful(n)
  PROVE  /\ \A n \in Structure : ~Dangles(n, "head_child")
         /\ \A n \in Structure : link[n]["head_child"] # 0 =>
               \A m \in Level(HeadChild(n)), key \in SameLevel : ~Dangles(m, key)
  <1>1. Structure = Chunks /\ Chunks \subseteq Ids /\ Len(doc) \in Nat
    BY NodeIs DEF Structure, Chunks, Ids
  <1>2. "head_child" \in Range(Keys) /\ SameLevel \subseteq Range(Keys)
    BY KeysAre DEF SameLevel
  <1>3. ASSUME NEW n \in Chunks, NEW key \in Range(Keys)
        PROVE  ~Dangles(n, key)
    BY DomIs DEF Dangles
  <1>4. ASSUME NEW n \in Structure, link[n]["head_child"] # 0
        PROVE  Level(HeadChild(n)) \subseteq Chunks
    <2>1. HeadChild(n) \in Chunks
      <3>1. link[n]["head_child"] = Dom(n, "head_child")
        BY <1>1, <1>2, <1>3 DEF Faithful
      <3>2. Dom(n, "head_child") = HeadChild(n)
        BY DEF Dom
      <3> QED  BY <1>1, <1>2, <1>4, <3>1, <3>2, DomIs
    <2> DEFINE next == [m \in Ids |-> {link[m][key] : key \in SameLevel} \ {0}]
               h == HeadChild(n)
    <2>2. \A m \in Ids : next[m] \subseteq Ids
      BY <1>2 DEF LinkType
    <2>3. \A m \in Chunks : next[m] \subseteq Chunks
      BY <1>1, <1>2, <1>3, DomIs DEF Faithful
    <2>4. h \in Chunks /\ h \in Ids /\ Level(h) = Reached({h}, next)
      BY <1>1, <2>1 DEF Level
    <2> HIDE DEF next, h
    <2>5. \A C : {h} \subseteq C /\ (\A m \in C : m \in Ids => next[m] \subseteq C)
                     => Reached({h}, next) \subseteq C
      BY <1>1, <2>2, <2>4, ReachedIs
    <2>6. Level(h) \subseteq Chunks
      BY <2>3, <2>4, <2>5
    <2> QED  BY <2>6 DEF h
  <1> QED  BY <1>1, <1>2, <1>3, <1>4

LEMMA ExpandStep ==
  ASSUME RelInv, Expand, UNCHANGED context, summary # "save"
  PROVE  RelInv'
  <1> DEFINE heads == {n \in Structure : link[n]["head_child"] # 0}
             lost == \/ \E n \in Structure : Dangles(n, "head_child")
                     \/ \E n \in heads : \E m \in Level(HeadChild(n)), key \in SameLevel :
                           Dangles(m, key)
  <1>1. /\ pc = "link" /\ WalkOK /\ LinkType /\ DocOK /\ Structure \subseteq visited
        /\ doc' = doc /\ kept' = kept /\ saved' = saved /\ groups' = groups /\ summary' # "save"
        /\ link' = link
    BY DEF RelInv, Expand, tree, context
  <1>2. failed' = lost /\ pc' = IF lost THEN "recall" ELSE "mock"
    BY DEF Expand
  <1>3. DocOK' /\ Parsed(doc) /\ kept \subseteq DOMAIN doc
    BY <1>1, DocSame DEF DocOK
  <1>4. LinkType'
    BY <1>1 DEF LinkType, Ids
  <1>5. \A n \in Structure : Faithful(n)
    BY <1>1 DEF WalkOK
  <1>6. Chunks \subseteq kept => ~lost
    BY <1>1, <1>3, <1>5, NothingLost
  <1>7. /\ \A n \in Structure' : Faithful(n)'
        /\ Chunks' = Chunks
    BY <1>1, <1>5, DomSame DEF Faithful
  <1> HIDE DEF lost
  <1> QED  BY <1>1, <1>2, <1>3, <1>4, <1>6, <1>7 DEF RelInv

LEMMA MockStep ==
  ASSUME RelInv, MockTables, UNCHANGED context, summary # "save"
  PROVE  RelInv'
  <1> DEFINE sections == {n \in Structure : \E c \in kids[n] : IsTable(c)}
             Of(n) == n - Len(doc)
             s(n) == CHOOSE x \in sections : n \in kids[x]
  <1>1. /\ pc = "mock" /\ LinkType /\ DocOK /\ ~failed
        /\ doc' = doc /\ kept' = kept /\ saved' = saved /\ groups' = groups /\ summary' # "save"
        /\ failed' = failed /\ pc' = "recall"
    BY DEF RelInv, MockTables, tree, context
  <1>2. DocOK' /\ Parsed(doc) /\ kept \subseteq DOMAIN doc
    BY <1>1, DocSame DEF DocOK
  <1>3. link' = [n \in Ids |->
                CASE \E x \in sections : n \in kids[x] ->
                        [link[n] EXCEPT !["parent"] = Mock(s(n))]
                  [] Of(n) \in sections -> [link[n] EXCEPT !["parent"] = Of(n)]
                  [] OTHER -> link[n]]
    BY DEF MockTables
  <1>4. \A n \in sections : n \in Ids /\ Mock(n) \in Ids
    <2>1. \A n \in sections : n \in 1..Len(doc)
      BY <1>2, NodeIs DEF Structure
    <2>2. Len(doc) \in Nat
      BY <1>2, NodeIs
    <2> HIDE DEF sections
    <2> QED  BY <2>1, <2>2 DEF Ids, Mock
  <1>5. "parent" \in Range(Keys)
    BY KeysAre
  <1>a. \A n : (\E x \in sections : n \in kids[x]) => s(n) \in sections
    OBVIOUS
  <1> HIDE DEF sections, Of, s
  <1>6. ASSUME NEW n \in Ids PROVE link'[n] \in [Range(Keys) -> Ids]
    <2>1. CASE \E x \in sections : n \in kids[x]
      <3>1. s(n) \in sections
        BY <1>a, <2>1
      <3>2. \/ link'[n] = [link[n] EXCEPT !["parent"] = Mock(s(n))]
            \/ Of(n) \in sections /\ link'[n] = [link[n] EXCEPT !["parent"] = Of(n)]
        BY <1>3, <2>1
      <3> QED  BY <1>1, <1>4, <1>5, <3>1, <3>2 DEF LinkType
    <2>2. CASE ~(\E x \in sections : n \in kids[x]) /\ Of(n) \in sections
      BY <1>3, <2>2, <1>1, <1>4, <1>5 DEF LinkType
    <2>3. CASE ~(\E x \in sections : n \in kids[x]) /\ Of(n) \notin sections
      BY <1>3, <2>3, <1>1 DEF LinkType
    <2> QED  BY <2>1, <2>2, <2>3
  <1>7. LinkType'
    BY <1>3, <1>6, <1>1 DEF LinkType, Ids
  <1> QED  BY <1>1, <1>2, <1>7 DEF RelInv
LEMMA RecallStep ==
  ASSUME RelInv, Recall, UNCHANGED context, summary # "save"
  PROVE  RelInv'
  <1>1. /\ LinkType /\ DocOK /\ doc' = doc /\ kept' = kept /\ saved' = saved /\ groups' = groups
        /\ summary' # "save" /\ pc' = "complete"
    BY DEF RelInv, Recall, tree, context
  <1>2. link' = Unlinked \/ link' = link
    BY DEF Recall
  <1>3. DocOK' /\ Parsed(doc)
    BY <1>1, DocSame DEF DocOK
  <1>4. LinkType'
    BY <1>1, <1>2, <1>3, UnlinkedIs DEF LinkType, Ids
  <1> QED  BY <1>1, <1>3, <1>4 DEF RelInv

LEMMA DoneStep ==
  ASSUME RelInv, pc = "complete", NEW h, NEW r, NEW limit, Done(h, r, limit), UNCHANGED context,
         summary # "save"
  PROVE  RelInv'
  <1>1. /\ LinkType /\ DocOK /\ doc' = doc /\ kept' = kept /\ saved' = saved /\ groups' = groups
        /\ summary' # "save" /\ pc' \in {"complete", "end"} /\ link' = link
    BY DEF RelInv, Done, tree, relations, context
  <1>2. DocOK'
    BY <1>1, DocSame
  <1>3. LinkType'
    BY <1>1 DEF LinkType, Ids
  <1> QED  BY <1>1, <1>2, <1>3 DEF RelInv

LEMMA SummarizeStep ==
  ASSUME RelInv, Summarize
  PROVE  RelInv'
  <1>1. /\ LinkType /\ DocOK /\ doc' = doc /\ kept' = kept /\ saved' = 0
        /\ pc = "recall" /\ pc' = pc /\ link' = link /\ ~failed /\ failed' = failed
    BY DEF RelInv, Summarize, tree, relations
  <1>2. ASSUME groups' # <<>>, NEW n \in kept PROVE doc[n].sized
    <2>1. PICK list \in Listings :
             LET gs == IF \E m \in kept : Size(m) < 0 THEN <<>> ELSE Merge(SplitAll(list))
             IN groups' = IF Nothing \in Range(Ends(gs)) \/ gs = <<>> THEN <<>>
                          ELSE [i \in DOMAIN Told(gs) |-> Told(gs)[i].nodes]
      BY DEF Summarize
    <2>2. ~(Size(n) < 0)
      BY <1>2, <2>1
    <2>3. n \in 1..Len(doc) /\ Len(doc) \in Nat
      BY <1>1, NodeIs DEF DocOK
    <2> QED  BY <2>2, <2>3 DEF Size
  <1>3. DocOK'
    BY <1>1, <1>2 DEF DocOK, Parsed
  <1>4. LinkType'
    BY <1>1 DEF LinkType, Ids
  <1> QED  BY <1>1, <1>3, <1>4 DEF RelInv

LEMMA SaveStep ==
  ASSUME RelInv, SaveContext
  PROVE  RelInv'
  <1> DEFINE node == Biggest(Free)
             changed == (Structure \cap Head(groups)) \cup {node}
  <1>1. /\ LinkType /\ DocOK /\ pc = "recall" /\ pc' = pc /\ link' = link /\ failed' = failed
        /\ summary' = summary /\ groups # <<>> /\ Free # {} /\ saved' = saved + 1
        /\ kept' = kept \cup {node}
        /\ Chunks \subseteq kept => ~failed
    BY DEF RelInv, SaveContext, relations
  <1>2. doc' = [n \in DOMAIN doc |-> IF n \in changed THEN [doc[n] EXCEPT !.context = saved + 1]
                                                      ELSE doc[n]]
    BY DEF SaveContext
  <1>3. Parsed(doc) /\ kept \subseteq DOMAIN doc /\ saved \in Nat /\ Len(doc) \in Nat
        /\ DOMAIN doc = 1..Len(doc)
    BY <1>1, NodeIs DEF DocOK
  <1>4. node \in Free
    BY <1>3, <1>1, LastIs DEF Free, LastOf
  <1>5. node \in DOMAIN doc /\ node \notin kept /\ doc[node].kind = "context"
    BY <1>4 DEF Free
  <1>6. /\ changed \subseteq DOMAIN doc /\ \A n \in changed : doc[n].sized
        /\ \A n \in changed : n # node => n \in kept /\ doc[n].kind # "context"
    <2>1. doc[node].sized
      BY <1>3, <1>5 DEF Parsed
    <2>2. \A n \in Structure \cap Head(groups) : n \in DOMAIN doc /\ doc[n].sized /\ n \in kept
                                                 /\ doc[n].kind # "context"
      BY <1>1, <1>3 DEF DocOK, Structure
    <2> QED  BY <1>5, <2>1, <2>2
  <1>7. DOMAIN doc' = DOMAIN doc
    BY <1>2
  <1>8. ASSUME NEW n \in DOMAIN doc
        PROVE  /\ doc'[n] \in Node /\ doc'[n].under = doc[n].under /\ doc'[n].kind = doc[n].kind
               /\ doc'[n].table = doc[n].table /\ doc'[n].row = doc[n].row
               /\ doc'[n].col = doc[n].col /\ doc'[n].sized = doc[n].sized
               /\ doc'[n].context = IF n \in changed THEN saved + 1 ELSE doc[n].context
    <2>1. doc[n] \in Node
      BY <1>3, ElementOfSeq DEF Parsed
    <2>2. doc'[n] = IF n \in changed THEN [doc[n] EXCEPT !.context = saved + 1] ELSE doc[n]
      BY <1>2
    <2> HIDE DEF changed
    <2> QED  BY <1>3, <2>1, <2>2 DEF Node
  <1> HIDE DEF changed, node
  <1>9. Parsed(doc')
    <2>1. doc' \in Seq(Node)
      BY <1>2, <1>3, <1>8, SeqDef
    <2>2. ASSUME NEW n \in DOMAIN doc'
          PROVE  /\ doc'[n].under \in 0..n - 1
                 /\ doc'[n].under # 0 => /\ doc'[doc'[n].under].kind = "text"
                                         /\ doc'[doc'[n].under].sized
                                         /\ doc'[n].kind # "context" /\ doc'[n].sized
                 /\ ~doc'[n].sized => doc'[n].kind # "context" /\ doc'[n].context = 0
      <3>1. n \in DOMAIN doc /\ n \in Nat
        BY <1>3, <1>7
      <3>2. /\ doc[n].under \in 0..n - 1
            /\ doc[n].under # 0 => /\ doc[doc[n].under].kind = "text" /\ doc[doc[n].under].sized
                                   /\ doc[n].kind # "context" /\ doc[n].sized
            /\ ~doc[n].sized => doc[n].kind # "context" /\ doc[n].context = 0
        BY <1>3, <3>1 DEF Parsed
      <3>3. doc[n].under # 0 => doc[n].under \in DOMAIN doc
        BY <1>3, <3>1, <3>2
      <3>4. ~doc[n].sized => n \notin changed
        BY <1>6
      <3> QED  BY <1>8, <3>1, <3>2, <3>3, <3>4
    <2>3. ASSUME NEW m \in DOMAIN doc', NEW n \in DOMAIN doc',
                 doc'[m].kind = "cell", doc'[n].kind = "cell", doc'[m].table = doc'[n].table
          PROVE  /\ doc'[m].under = doc'[n].under /\ doc'[m].sized = doc'[n].sized
                 /\ doc'[m].row = doc'[n].row /\ doc'[m].col = doc'[n].col => m = n
      BY <1>7, <1>8, <2>3, <1>3 DEF Parsed
    <2> QED  BY <2>1, <2>2, <2>3 DEF Parsed
  <1>10. DocOK'
    <2>1. kept' \subseteq DOMAIN doc' /\ saved' \in Nat
      BY <1>1, <1>3, <1>5, <1>7
    <2>2. \A n \in kept' : doc'[n].kind = "context" => doc'[n].context # 0
      <3> SUFFICES ASSUME NEW n \in kept', doc'[n].kind = "context" PROVE doc'[n].context # 0
        OBVIOUS
      <3>1. n \in DOMAIN doc /\ doc[n].kind = "context"
        BY <1>7, <1>8, <2>1
      <3>2. CASE n = node
        BY <1>3, <1>8, <3>1, <3>2 DEF changed
      <3>3. CASE n # node
        BY <1>1, <1>6, <3>1, <3>3, <1>8 DEF DocOK
      <3> QED  BY <3>2, <3>3
    <2>3. \A n \in kept' : doc'[n].sized
      <3> SUFFICES ASSUME NEW n \in kept' PROVE doc'[n].sized
        OBVIOUS
      <3>1. n \in DOMAIN doc /\ (n \in kept \/ n \in changed)
        BY <1>1, <1>7, <2>1 DEF changed
      <3>2. doc[n].sized
        BY <1>1, <1>6, <3>1 DEF DocOK
      <3> QED  BY <1>8, <3>1, <3>2
    <2> QED  BY <1>9, <2>1, <2>2, <2>3 DEF DocOK
  <1>11. Len(doc') = Len(doc)
    BY <1>3, <1>7, <1>9, NodeIs, SameUpTo, LenProperties DEF Parsed
  <1>12. LinkType'
    BY <1>1, <1>11 DEF LinkType, Ids
  <1>13. Chunks' = Chunks
    BY <1>7, <1>8 DEF Chunks
  <1>14. Chunks \subseteq kept' => Chunks \subseteq kept
    BY <1>1, <1>5 DEF Chunks
  <1> QED  BY <1>1, <1>10, <1>12, <1>13, <1>14 DEF RelInv

LEMMA UnrelatedStep ==
  ASSUME RelInv, Unrelated, UNCHANGED tree, saved' = saved, groups' = <<>>, summary' # "save"
  PROVE  RelInv'
  <1>1. /\ DocOK /\ doc' = doc /\ kept' = kept /\ link' = Unlinked /\ visited' = {} /\ path' = {}
        /\ stack' = <<>> /\ pc' = "link" /\ failed' = FALSE
    BY DEF RelInv, Unrelated, tree
  <1>2. DocOK' /\ Parsed(doc)
    BY <1>1, DocSame DEF DocOK
  <1>3. LinkType'
    BY <1>1, <1>2, UnlinkedIs DEF LinkType, Ids
  <1>4. WalkOK'
    BY <1>1 DEF WalkOK
  <1> QED  BY <1>1, <1>2, <1>3, <1>4 DEF RelInv

LEMMA RelNext == RelInv /\ [NextContexts]_<<vars, context>> => RelInv'
  <1> SUFFICES ASSUME RelInv, [NextContexts]_<<vars, context>> PROVE RelInv'
    OBVIOUS
  <1>1. CASE StartWalk /\ summary # "save" /\ UNCHANGED context
    <2>1. /\ pc = "link" /\ DocOK /\ doc' = doc /\ kept' = kept /\ saved' = saved
          /\ groups' = groups /\ summary' # "save" /\ pc' = pc
      BY <1>1 DEF RelInv, StartWalk, tree, context
    <2>2. WalkOK' /\ LinkType'
      BY <1>1, StartWalkStep
    <2>3. DocOK'
      BY <2>1, DocSame
    <2> QED  BY <2>1, <2>2, <2>3 DEF RelInv
  <1>2. CASE Visit /\ summary # "save" /\ UNCHANGED context
    BY <1>2, VisitStep
  <1>3. CASE Expand /\ summary # "save" /\ UNCHANGED context
    BY <1>3, ExpandStep
  <1>4. CASE MockTables /\ summary # "save" /\ UNCHANGED context
    BY <1>4, MockStep
  <1>5. CASE Recall /\ summary # "save" /\ UNCHANGED context
    BY <1>5, RecallStep
  <1>6. CASE CompleteNode /\ summary # "save" /\ UNCHANGED context
    BY <1>6, DoneStep DEF CompleteNode
  <1>7. CASE MergeContexts /\ summary # "save" /\ UNCHANGED context
    BY <1>7, DoneStep DEF MergeContexts
  <1>8. CASE Summarize
    BY <1>8, SummarizeStep
  <1>9. CASE Unanswered
    <2>1. /\ DocOK /\ LinkType /\ doc' = doc /\ kept' = kept /\ saved' = saved /\ groups' = <<>>
          /\ summary' # "save" /\ pc' = pc /\ failed' = failed /\ link' = link /\ pc = "recall"
      BY <1>9 DEF RelInv, Unanswered, tree, relations
    <2>2. DocOK' /\ LinkType' /\ Chunks' = Chunks
      BY <2>1, DocSame DEF LinkType, Ids, Chunks
    <2> QED  BY <2>1, <2>2 DEF RelInv
  <1>10. CASE SaveContext
    BY <1>10, SaveStep
  <1>11. CASE SummaryDone
    BY <1>11, UnrelatedStep DEF SummaryDone
  <1>12. CASE Die
    BY <1>12, UnrelatedStep DEF Die
  <1>13. CASE UNCHANGED <<vars, context>>
    <2>1. /\ doc' = doc /\ kept' = kept /\ saved' = saved /\ groups' = groups /\ pc' = pc
          /\ summary' = summary /\ failed' = failed /\ link' = link /\ visited' = visited
          /\ stack' = stack /\ path' = path
      BY <1>13 DEF vars, context, tree, relations, walk
    <2>2. DocOK' /\ LinkType' /\ Chunks' = Chunks /\ Structure' = Structure /\ Entry' = Entry
      BY <2>1, DocSame, DomSame DEF LinkType, Ids, RelInv
    <2>3. \A n : Faithful(n)' <=> Faithful(n)
      BY <2>1, DomSame DEF Faithful
    <2>4. \A key, a, b : Beyond(key, a, b)' <=> Beyond(key, a, b)
      BY <2>1, DomSame
    <2>5. WalkOK => WalkOK'
      BY <2>1, <2>2, <2>3, <2>4 DEF WalkOK, Started
    <2> QED  BY <2>1, <2>2, <2>3, <2>5 DEF RelInv
  <1> QED  BY <1>1, <1>2, <1>3, <1>4, <1>5, <1>6, <1>7, <1>8, <1>9, <1>10, <1>11, <1>12, <1>13
           DEF NextContexts, Next, Rebuild

(* Every node is linked as it was parsed, and no complete file fails.       *)
THEOREM RestoredStands == SpecContexts => []Restored
  <1>1. RelInv => Restored
    BY DEF RelInv, Restored, Faithful
  <1> QED  BY <1>1, RelInit, RelNext, PTL DEF SpecContexts
-----------------------------------------------------------------------------
(* The invariant behind ShownOnce.  Linked nodes: every relation leads on   *)
(* in its direction, left and right are inverse, and parents are higher.    *)
SideKeys == {"up", "down", "left", "right"}
Height(n) == IF n > Len(doc) THEN 2 * (n - Len(doc)) + 1 ELSE 2 * n
Linked ==
  /\ LinkType /\ kids \in [Ids -> SUBSET Ids]
  /\ \A n \in Ids : \A key \in Range(Keys) \ {"parent"} : link[n][key] # 0 =>
        n \in Chunks /\ link[n][key] \in Chunks /\ Beyond(key, n, link[n][key])
  /\ \A n \in Ids : /\ link[n]["left"] # 0 => link[link[n]["left"]]["right"] = n
                    /\ link[n]["right"] # 0 => link[link[n]["right"]]["left"] = n
  /\ \A n \in Ids : \A key \in SideKeys : link[n][key] # 0 => IsTable(link[n][key])
  /\ \A n \in Ids : link[n]["parent"] # 0 => Height(link[n]["parent"]) < Height(n)

LEMMA ChunksAre ==
  ASSUME Parsed(doc)
  PROVE  Chunks \subseteq Ids /\ 0 \in Ids /\ 0 \notin Chunks /\ Chunks \subseteq DOMAIN doc
         /\ SideKeys \subseteq Range(Keys) /\ "parent" \in Range(Keys) /\ "parent" \notin SideKeys
  BY NodeIs, KeysAre DEF Chunks, SideKeys, Ids

(* A chain from n in one direction.                                         *)
ChainFrom(c, n, key) ==
  /\ c \in Seq(Ids) /\ c # <<>> /\ c[1] = n
  /\ \A i \in 1..Len(c) - 1 : c[i + 1] = link[c[i]][key] /\ c[i + 1] # 0
  /\ \A i, j \in 1..Len(c) : i < j => c[i] \in Chunks /\ c[j] \in Chunks /\ Beyond(key, c[i], c[j])

LEMMA ChainGrows ==
  ASSUME Parsed(doc), Linked, NEW n \in Ids, NEW key \in SideKeys,
         NEW c, ChainFrom(c, n, key), link[Last(c)][key] # 0
  PROVE  /\ ChainFrom(Append(c, link[Last(c)][key]), n, key)
         /\ Last(Append(c, link[Last(c)][key])) = link[Last(c)][key]
         /\ Last(c) \in Chunks /\ link[Last(c)][key] \in Chunks /\ Beyond(key, Last(c), link[Last(c)][key])
  <1> DEFINE L == Len(c)
             x == link[Last(c)][key]
             d == Append(c, x)
  <1>1. /\ c \in Seq(Ids) /\ L \in Nat /\ L > 0 /\ Last(c) = c[L] /\ Last(c) \in Ids
        /\ \A i \in 1..L : c[i] \in Ids
    BY FrontIs, ElementOfSeq DEF ChainFrom
  <1>2. key \in Range(Keys) \ {"parent"} /\ Chunks \subseteq Ids
    BY ChunksAre
  <1>3. Last(c) \in Chunks /\ x \in Chunks /\ Beyond(key, Last(c), x)
    BY <1>1, <1>2 DEF Linked
  <1>4. /\ d \in Seq(Ids) /\ d # <<>> /\ Len(d) = L + 1 /\ d[L + 1] = x
        /\ \A i \in 1..L : d[i] = c[i]
    BY <1>1, <1>2, <1>3, AppendProperties
  <1>5. \A a, b, e \in Chunks : Beyond(key, a, b) /\ Beyond(key, b, e) => Beyond(key, a, e)
    BY <1>2, BeyondOrders
  <1>6. Last(d) = x
    BY <1>4 DEF Last
  <1>7. /\ c[1] = n /\ \A i \in 1..L - 1 : c[i + 1] = link[c[i]][key] /\ c[i + 1] # 0
        /\ \A i, j \in 1..L : i < j => c[i] \in Chunks /\ c[j] \in Chunks /\ Beyond(key, c[i], c[j])
    BY DEF ChainFrom
  <1>8. x # 0 /\ x = link[c[L]][key]
    BY <1>1
  <1> HIDE DEF L, x, d
  <1>9. \A i \in 1..Len(d) - 1 : d[i + 1] = link[d[i]][key] /\ d[i + 1] # 0
    <2> SUFFICES ASSUME NEW i \in 1..L PROVE d[i + 1] = link[d[i]][key] /\ d[i + 1] # 0
      BY <1>1, <1>4
    <2>1. CASE i = L
      BY <1>1, <1>4, <1>8, <2>1
    <2>2. CASE i # L
      <3>1. i \in 1..L - 1 /\ i + 1 \in 1..L /\ i \in 1..L
        BY <1>1, <2>2
      <3> QED  BY <1>4, <1>7, <3>1
    <2> QED  BY <2>1, <2>2
  <1>10. ASSUME NEW i \in 1..L, NEW j \in 1..L + 1, i < j
         PROVE  d[i] \in Chunks /\ d[j] \in Chunks /\ Beyond(key, d[i], d[j])
    <2>1. CASE j \in 1..L
      BY <1>4, <1>7, <1>10, <2>1
    <2>2. CASE j = L + 1 /\ i = L
      BY <1>1, <1>3, <1>4, <2>2
    <2>3. CASE j = L + 1 /\ i # L
      BY <1>1, <2>3, <1>7, <1>3, <1>5, <1>4
    <2> QED  BY <1>1, <2>1, <2>2, <2>3
  <1>11. \A i, j \in 1..Len(d) : i < j => d[i] \in Chunks /\ d[j] \in Chunks /\ Beyond(key, d[i], d[j])
    BY <1>1, <1>4, <1>10
  <1>12. d[1] = n
    BY <1>1, <1>4, <1>7
  <1>13. ChainFrom(d, n, key)
    BY <1>4, <1>9, <1>11, <1>12 DEF ChainFrom
  <1> QED  BY <1>3, <1>6, <1>13 DEF d, x

LEMMA ChainIs ==
  ASSUME Parsed(doc), Linked, NEW n \in Ids, NEW key \in SideKeys
  PROVE  ChainFrom(Chain(n, key), n, key) /\ link[Last(Chain(n, key))][key] = 0
  <1> DEFINE D == Seq(Ids) \ {<<>>}
             x(c) == link[Last(c)][key]
             stop == {c \in D : x(c) = 0}
             next == [c \in D |-> Append(c, x(c))]
             go == CHOOSE f : f = [list \in Seq(Ids) \ {<<>>} |->
                       LET e == link[Last(list)][key] IN
                       IF e = 0 THEN list ELSE f[Append(list, e)]]
             I == {c \in D : ChainFrom(c, n, key)}
             after(a) == {b \in Chunks : Beyond(key, a, b)}
             m == [c \in D |-> Cardinality(after(Last(c)))]
  <1>1. key \in Range(Keys) \ {"parent"} /\ Chunks \subseteq Ids /\ key \in Range(Keys)
    BY ChunksAre
  <1>2. Chain(n, key) = go[<<n>>]
    BY DEF Chain
  <1>3. ASSUME NEW c \in D PROVE x(c) \in Ids /\ Append(c, x(c)) \in D
    <2>1. Last(c) \in Ids
      BY FrontIs
    <2>2. x(c) \in Ids
      BY <1>1, <2>1 DEF Linked, LinkType
    <2> QED  BY <2>2, AppendProperties
  <1>4. next \in [D -> D]
    BY <1>3
  <1>5. \A f : Loop(D, stop, next, f) <=> f = [list \in D |-> LET e == link[Last(list)][key] IN
                       IF e = 0 THEN list ELSE f[Append(list, e)]]
    BY DEF Loop
  <1>6. Loop(D, stop, next, go)
    <2> HIDE DEF D, stop, next
    <2> QED  BY <1>4, LoopExists, <1>5 DEF D
  <1>7. IsFiniteSet(Chunks) /\ \A a : after(a) \in SUBSET Chunks /\ Cardinality(after(a)) \in Nat
    BY NodeIs, <1>1, IdsFinite
  <1>8. <<n>> \in I
    BY DEF ChainFrom
  <1>9. ASSUME NEW c \in I, c \notin stop
        PROVE  next[c] \in I /\ m[next[c]] < m[c]
    <2>1. c \in D /\ x(c) # 0 /\ next[c] = Append(c, x(c)) /\ Append(c, x(c)) \in D
      BY <1>3, <1>9
    <2>2. /\ ChainFrom(Append(c, x(c)), n, key) /\ Last(Append(c, x(c))) = x(c)
          /\ Last(c) \in Chunks /\ x(c) \in Chunks /\ Beyond(key, Last(c), x(c))
      BY <2>1, <1>9, ChainGrows
    <2>3. after(x(c)) \subseteq after(Last(c)) /\ x(c) \in after(Last(c)) /\ x(c) \notin after(x(c))
      BY <1>1, <2>2, BeyondOrders
    <2>4. m[next[c]] = Cardinality(after(x(c))) /\ m[c] = Cardinality(after(Last(c)))
      BY <2>1, <2>2
    <2>5. IsFiniteSet(after(Last(c)))
      BY <1>7, FS_Subset
    <2> HIDE DEF after
    <2>6. Cardinality(after(x(c))) < Cardinality(after(Last(c)))
      BY <2>3, <2>5, Fewer
    <2> QED  BY <2>1, <2>2, <2>4, <2>6
  <1>10. I \subseteq D /\ \A c \in I : m[c] \in Nat
    BY <1>7
  <1> HIDE DEF D, stop, next, I, m, go
  <1>11. go[<<n>>] \in I /\ go[<<n>>] \in stop
    BY <1>6, <1>8, <1>9, <1>10, LoopEnds
  <1> QED  BY <1>2, <1>11 DEF I, stop

LEMMA TableCells ==
  ASSUME Parsed(doc), NEW n, IsTable(n), ~failed
  PROVE  Cells(n)
  BY NodeIs DEF IsTable, Cells, IsMock

(* A set that holds the beginning of a chain and is closed holds all of it. *)
LEMMA ChainWithin ==
  ASSUME NEW c, NEW n, NEW key, ChainFrom(c, n, key), NEW C, n \in C,
         \A m \in C : link[m][key] # 0 => link[m][key] \in C
  PROVE  \A i \in 1..Len(c) : c[i] \in C
  <1> DEFINE Bad == {i \in 1..Len(c) : c[i] \notin C}
  <1>1. c \in Seq(Ids) /\ c # <<>> /\ c[1] = n /\ Len(c) \in Nat
        /\ \A i \in 1..Len(c) - 1 : c[i + 1] = link[c[i]][key] /\ c[i + 1] # 0
    BY LenProperties DEF ChainFrom
  <1> SUFFICES ASSUME Bad # {} PROVE FALSE
    OBVIOUS
  <1>2. Bad \subseteq Nat
    OBVIOUS
  <1>3. PICK i \in Bad : \A j \in Bad : i <= j
    <2> HIDE DEF Bad
    <2> QED  BY <1>2, LeastOf
  <1>4. i \in 1..Len(c) /\ c[i] \notin C /\ i # 1
    BY <1>1, <1>3
  <1>5. i - 1 \in 1..Len(c) - 1 /\ i - 1 \in 1..Len(c) /\ ~(i <= i - 1) /\ (i - 1) + 1 = i
    BY <1>1, <1>4
  <1>6. c[i - 1] \in C
    BY <1>3, <1>5
  <1>7. c[i] = link[c[i - 1]][key] /\ c[i] # 0
    BY <1>1, <1>5
  <1> QED  BY <1>4, <1>6, <1>7

(* The cells to the left of n, those to the right, and what a row is.       *)
Closed(C) == \A m \in C : \A key \in {"left", "right"} : link[m][key] # 0 => link[m][key] \in C
RowOf(r, n) ==
  /\ r \in Seq(Ids) /\ n \in Range(r) /\ Range(r) \subseteq Ids
  /\ \A i, j \in 1..Len(r) : r[i] = r[j] => i = j
  /\ Closed(Range(r))
  /\ \A C : n \in C /\ Closed(C) => Range(r) \subseteq C

LEMMA RowIs ==
  ASSUME Parsed(doc), Linked, NEW n \in Ids
  PROVE  RowOf(Row(n), n)
  <1> DEFINE L == Chain(n, "left")
             R == Chain(n, "right")
             l == Len(L)
             T == Reverse(Tail(L))
             r == T \o R
  <1>1. Row(n) = r
    BY DEF Row
  <1>2. /\ ChainFrom(L, n, "left") /\ link[Last(L)]["left"] = 0
        /\ ChainFrom(R, n, "right") /\ link[Last(R)]["right"] = 0
    BY ChainIs DEF SideKeys
  <1> HIDE DEF L, R
  <1>3. /\ L \in Seq(Ids) /\ L # <<>> /\ R \in Seq(Ids) /\ R # <<>> /\ L[1] = n /\ R[1] = n
        /\ \A i \in 1..l - 1 : L[i + 1] = link[L[i]]["left"] /\ L[i + 1] # 0
        /\ \A i \in 1..Len(R) - 1 : R[i + 1] = link[R[i]]["right"] /\ R[i + 1] # 0
    BY <1>2 DEF ChainFrom
  <1>4. l \in Nat /\ l > 0 /\ Len(R) \in Nat /\ Len(R) > 0 /\ Last(L) = L[l] /\ Last(R) = R[Len(R)]
    BY <1>3, FrontIs
  <1>5. \A i, j \in 1..l : i < j =>
           L[i] \in Chunks /\ L[j] \in Chunks /\ doc[L[j]].col < doc[L[i]].col
    BY <1>2 DEF ChainFrom, Beyond
  <1>6. \A i, j \in 1..Len(R) : i < j =>
           R[i] \in Chunks /\ R[j] \in Chunks /\ doc[R[i]].col < doc[R[j]].col
    BY <1>2 DEF ChainFrom, Beyond
  <1>7. Tail(L) \in Seq(Ids) /\ Len(Tail(L)) = l - 1 /\ \A i \in 1..l - 1 : Tail(L)[i] = L[i + 1]
    BY <1>3, HeadTailProperties
  <1>8. T \in Seq(Ids) /\ Len(T) = l - 1 /\ \A i \in 1..l - 1 : T[i] = L[l - i + 1]
    <2>1. T = [i \in 1..l - 1 |-> Tail(L)[l - 1 - i + 1]]
      BY <1>7 DEF Reverse
    <2>2. \A i \in 1..l - 1 : l - 1 - i + 1 \in 1..l - 1 /\ (l - 1 - i + 1) + 1 = l - i + 1
      BY <1>4
    <2> HIDE DEF T
    <2>3. \A i \in 1..l - 1 : T[i] = L[l - i + 1]
      BY <1>7, <2>1, <2>2
    <2>4. \A i \in 1..l - 1 : T[i] \in Ids
      BY <1>7, ElementOfSeq, <2>1, <2>2
    <2>5. l - 1 \in Nat
      BY <1>4
    <2>6. T \in [1..l - 1 -> Ids]
      BY <2>1, <2>4
    <2>7. T \in Seq(Ids)
      BY <2>5, <2>6, SeqDef
    <2>8. DOMAIN T = 1..l - 1 /\ DOMAIN T = 1..Len(T) /\ Len(T) \in Nat
      BY <2>1, <2>7, LenProperties
    <2>9. Len(T) = l - 1
      BY <2>5, <2>8, SameUpTo
    <2> QED  BY <2>3, <2>7, <2>9
  <1> HIDE DEF T
  <1>9. /\ r \in Seq(Ids) /\ Len(r) = l - 1 + Len(R)
        /\ \A i \in 1..l - 1 + Len(R) : r[i] = IF i <= l - 1 THEN T[i] ELSE R[i - (l - 1)]
    <2>1. T \in Seq(Ids) /\ R \in Seq(Ids)
      BY <1>3, <1>8
    <2>2. /\ T \o R \in Seq(Ids) /\ Len(T \o R) = Len(T) + Len(R)
          /\ \A i \in 1..Len(T) + Len(R) : (T \o R)[i] = IF i <= Len(T) THEN T[i] ELSE R[i - Len(T)]
      BY <2>1, ConcatProperties, Zenon
    <2>3. Len(T) = l - 1
      BY <1>8
    <2> QED  BY <2>2, <2>3
  <1> HIDE DEF r
  <1>10. \A i \in 1..l - 1 : r[i] = L[l - i + 1] /\ l - i + 1 \in 2..l
    BY <1>4, <1>8, <1>9
  <1>11. \A i \in l..Len(r) : r[i] = R[i - l + 1] /\ i - l + 1 \in 1..Len(R)
    BY <1>4, <1>9
  <1>12. \A m \in Chunks : doc[m].col \in Nat
    BY NodeIs DEF Chunks
  <1>13. ASSUME NEW i \in 1..Len(r), NEW j \in 1..Len(r), i < j PROVE r[i] # r[j]
    <2>1. CASE j < l
      <3>1. i \in 1..l - 1 /\ j \in 1..l - 1 /\ l - j + 1 < l - i + 1
            /\ l - j + 1 \in 1..l /\ l - i + 1 \in 1..l
        BY <1>4, <1>13, <2>1
      <3>2. /\ L[l - j + 1] \in Chunks /\ L[l - i + 1] \in Chunks
            /\ doc[L[l - i + 1]].col < doc[L[l - j + 1]].col
        BY <1>5, <3>1
      <3>3. doc[r[i]].col < doc[r[j]].col /\ doc[r[i]].col \in Nat
        BY <1>10, <1>12, <3>1, <3>2
      <3> QED  BY <3>3
    <2>2. CASE i >= l
      <3>1. /\ i \in l..Len(r) /\ j \in l..Len(r) /\ i - l + 1 < j - l + 1
            /\ i - l + 1 \in 1..Len(R) /\ j - l + 1 \in 1..Len(R)
        BY <1>4, <1>9, <1>13, <2>2
      <3>2. /\ R[i - l + 1] \in Chunks /\ R[j - l + 1] \in Chunks
            /\ doc[R[i - l + 1]].col < doc[R[j - l + 1]].col
        BY <1>6, <3>1
      <3>3. doc[r[i]].col < doc[r[j]].col /\ doc[r[i]].col \in Nat
        BY <1>11, <1>12, <3>1, <3>2
      <3> QED  BY <3>3
    <2>3. CASE i < l /\ j >= l
      <3>1. i \in 1..l - 1 /\ j \in l..Len(r) /\ l - i + 1 \in 1..l /\ 1 < l - i + 1 /\ 1 \in 1..l
        BY <1>4, <1>9, <2>3
      <3>2. L[1] \in Chunks /\ L[l - i + 1] \in Chunks /\ doc[L[l - i + 1]].col < doc[L[1]].col
        BY <1>5, <3>1
      <3>3. doc[r[i]].col < doc[n].col /\ doc[r[i]].col \in Nat /\ doc[n].col \in Nat
        BY <1>3, <1>10, <1>12, <3>1, <3>2
      <3>4. CASE j = l
        BY <1>3, <1>4, <1>11, <3>1, <3>4, <3>3
      <3>5. CASE j # l
        <4>1. 1 < j - l + 1 /\ j - l + 1 \in 1..Len(R) /\ 1 \in 1..Len(R)
          BY <1>4, <1>9, <3>1, <3>5
        <4>2. R[j - l + 1] \in Chunks /\ doc[R[1]].col < doc[R[j - l + 1]].col
          BY <1>6, <4>1
        <4>3. doc[n].col < doc[r[j]].col /\ doc[r[j]].col \in Nat
          BY <1>3, <1>11, <1>12, <3>1, <4>2
        <4> QED  BY <3>3, <4>3
      <3> QED  BY <3>4, <3>5
    <2> QED  BY <1>4, <2>1, <2>2, <2>3
  <1>14. \A i, j \in 1..Len(r) : r[i] = r[j] => i = j
    BY <1>13
  <1>15. Range(r) = {r[i] : i \in 1..Len(r)} /\ Range(r) \subseteq Ids
    BY <1>9, RangeEquality, RangeOfSeq
  <1>16. ASSUME NEW i \in 1..l PROVE L[i] \in Range(r)
    <2>1. CASE i = 1
      <3>1. l \in 1..Len(r) /\ l \in l..Len(r) /\ l - l + 1 = 1
        BY <1>4, <1>9
      <3>2. r[l] = n
        BY <1>3, <1>11, <3>1
      <3> QED  BY <1>3, <1>15, <2>1, <3>1, <3>2
    <2>2. CASE i # 1
      <3>1. l - i + 1 \in 1..l - 1 /\ l - i + 1 \in 1..Len(r) /\ l - (l - i + 1) + 1 = i
        BY <1>4, <1>9, <2>2
      <3>2. r[l - i + 1] = L[i]
        BY <1>10, <3>1
      <3> QED  BY <1>15, <3>1, <3>2
    <2> QED  BY <2>1, <2>2
  <1>17. ASSUME NEW i \in 1..Len(R) PROVE R[i] \in Range(r)
    <2>1. i + l - 1 \in l..Len(r) /\ i + l - 1 \in 1..Len(r) /\ i + l - 1 - l + 1 = i
      BY <1>4, <1>9
    <2>2. r[i + l - 1] = R[i]
      BY <1>11, <2>1
    <2> QED  BY <1>15, <2>1, <2>2
  <1>18. \A m \in Range(r) : (\E i \in 1..l : m = L[i]) \/ (\E i \in 1..Len(R) : m = R[i])
    <2> SUFFICES ASSUME NEW k \in 1..Len(r)
                 PROVE  (\E i \in 1..l : r[k] = L[i]) \/ (\E i \in 1..Len(R) : r[k] = R[i])
      BY <1>15
    <2>1. CASE k < l
      BY <1>4, <2>1, <1>10
    <2>2. CASE k >= l
      BY <1>4, <1>9, <2>2, <1>11
    <2> QED  BY <1>4, <1>9, <2>1, <2>2
  <1>19. ASSUME NEW i \in 1..l, NEW key \in {"left", "right"}, link[L[i]][key] # 0
         PROVE  link[L[i]][key] \in Range(r)
    <2>1. CASE key = "left"
      BY <1>2, <1>4, <1>19, <2>1, <1>3, <1>16
    <2>2. CASE key = "right" /\ i = 1
      <3>1. link[R[1]]["right"] # 0
        BY <1>3, <1>19, <2>2
      <3>2. Len(R) # 1
        BY <1>2, <1>4, <3>1
      <3>3. 1 \in 1..Len(R) - 1 /\ 1 + 1 \in 1..Len(R)
        <4> DEFINE k == Len(R)
        <4>1. k \in Nat /\ k > 0 /\ k # 1
          BY <1>4, <3>2
        <4> HIDE DEF k
        <4>2. 1 \in 1..k - 1 /\ 1 + 1 \in 1..k
          BY <4>1
        <4> QED  BY <4>2 DEF k
      <3>4. R[1 + 1] = link[R[1]]["right"]
        BY <1>3, <3>3
      <3> QED  BY <1>3, <1>17, <2>2, <3>3, <3>4
    <2>3. CASE key = "right" /\ i # 1
      <3>1. i - 1 \in 1..l - 1 /\ i - 1 \in 1..l /\ (i - 1) + 1 = i
        BY <1>4, <2>3
      <3>2. L[i] = link[L[i - 1]]["left"] /\ L[i] # 0 /\ L[i - 1] \in Ids
        BY <1>3, <3>1, ElementOfSeq
      <3>3. link[L[i]]["right"] = L[i - 1]
        BY <3>2 DEF Linked
      <3> QED  BY <1>16, <2>3, <3>1, <3>3
    <2> QED  BY <2>1, <2>2, <2>3
  <1>20. ASSUME NEW i \in 1..Len(R), NEW key \in {"left", "right"}, link[R[i]][key] # 0
         PROVE  link[R[i]][key] \in Range(r)
    <2>1. CASE key = "right"
      BY <1>2, <1>4, <1>20, <2>1, <1>3, <1>17
    <2>2. CASE key = "left" /\ i = 1
      BY <1>3, <1>4, <2>2, <1>19, <1>20
    <2>3. CASE key = "left" /\ i # 1
      <3>1. i - 1 \in 1..Len(R) - 1 /\ i - 1 \in 1..Len(R) /\ (i - 1) + 1 = i
        BY <1>4, <2>3
      <3>2. R[i] = link[R[i - 1]]["right"] /\ R[i] # 0 /\ R[i - 1] \in Ids
        BY <1>3, <3>1, ElementOfSeq
      <3>3. link[R[i]]["left"] = R[i - 1]
        BY <3>2 DEF Linked
      <3> QED  BY <1>17, <2>3, <3>1, <3>3
    <2> QED  BY <2>1, <2>2, <2>3
  <1>21. Closed(Range(r))
    BY <1>18, <1>19, <1>20 DEF Closed
  <1>22. ASSUME NEW C, n \in C, Closed(C) PROVE Range(r) \subseteq C
    BY <1>22, <1>2, ChainWithin, <1>18 DEF Closed
  <1>23. n \in Range(r)
    BY <1>3, <1>4, <1>17
  <1> QED  BY <1>1, <1>9, <1>14, <1>15, <1>21, <1>22, <1>23 DEF RowOf

(* Nodes in one row have the same row.                                      *)
LEMMA RowsAre ==
  ASSUME Parsed(doc), Linked, NEW n \in Ids, NEW m \in Range(Row(n))
  PROVE  m \in Ids /\ Range(Row(m)) = Range(Row(n))
  <1>1. RowOf(Row(n), n) /\ m \in Ids
    BY RowIs DEF RowOf
  <1>2. \A x \in Ids : RowOf(Row(x), x)
    BY RowIs
  <1>3. ASSUME NEW x \in Ids, NEW y \in Range(Row(x)) PROVE Range(Row(y)) \subseteq Range(Row(x))
    BY <1>2, <1>3 DEF RowOf
  <1> DEFINE C == {x \in Ids : n \in Range(Row(x))}
  <1>4. n \in C
    BY <1>1 DEF RowOf
  <1>5. ASSUME NEW x \in C, NEW key \in {"left", "right"}, link[x][key] # 0
        PROVE  link[x][key] \in C
    <2> DEFINE y == link[x][key]
               back == IF key = "left" THEN "right" ELSE "left"
    <2>1. link[y][back] = x /\ x # 0 /\ y \in Ids /\ x \in Ids
      BY <1>5, KeysAre, ChunksAre DEF Linked
    <2>2. RowOf(Row(y), y)
      BY <1>2, <2>1
    <2> HIDE DEF y
    <2>3. x \in Range(Row(y))
      BY <2>1, <2>2 DEF RowOf, Closed
    <2>4. n \in Range(Row(y))
      BY <1>3, <1>5, <2>1, <2>3
    <2> QED  BY <2>1, <2>4 DEF y
  <1>6. m \in C
    <2> HIDE DEF C
    <2> QED  BY <1>5, <1>1, <1>4 DEF Closed, RowOf
  <1> QED  BY <1>1, <1>3, <1>6

LEMMA RowOfCells ==
  ASSUME Parsed(doc), Linked, NEW n \in Ids, Cells(n), NEW m \in Range(Row(n))
  PROVE  Cells(m)
  <1> DEFINE C == {x \in Ids : Cells(x)}
  <1>1. ASSUME NEW x \in C, NEW key \in {"left", "right"}, link[x][key] # 0
        PROVE  link[x][key] \in C
    <2>1. IsTable(link[x][key]) /\ link[x][key] \in Ids
      BY KeysAre, <1>1 DEF SideKeys, Linked, LinkType
    <2>2. ~failed
      BY <1>1 DEF Cells
    <2> QED  BY <2>1, <2>2, TableCells
  <1>2. Closed(C)
    BY <1>1 DEF Closed
  <1>3. n \in C
    OBVIOUS
  <1> HIDE DEF C
  <1>4. m \in C
    BY <1>2, <1>3, RowIs DEF RowOf
  <1> QED  BY <1>4 DEF C

-----------------------------------------------------------------------------
(* Rows are marked as a whole, and a text gives nodes that were not marked  *)
(* before and are after it, each of them once, headers of tables aside.     *)
Rows(S) == S \subseteq Ids /\ \A n \in S : Cells(n) => Range(Row(n)) \subseteq S
Once(n) == n \in Chunks /\ ~InHeader(n)
FreshIn(text, before, after) ==
  /\ text \in Seq(Items) /\ before \subseteq after
  /\ \A i \in 1..Len(text) : Once(text[i]) => text[i] \in after \ before
  /\ \A i, j \in 1..Len(text) : Once(text[i]) /\ text[i] = text[j] => i = j

LEMMA IdsAreItems == Parsed(doc) => Ids \subseteq Items
  BY NodeIs DEF Ids, Items

LEMMA FreshBoth ==
  ASSUME NEW a, NEW b, NEW c, NEW s, NEW t, FreshIn(s, a, b), FreshIn(t, b, c)
  PROVE  FreshIn(s \o t, a, c) /\ FreshIn(t \o s, a, c)
  <1> DEFINE ls == Len(s)
             lt == Len(t)
  <1>1. s \in Seq(Items) /\ t \in Seq(Items) /\ ls \in Nat /\ lt \in Nat /\ a \subseteq b /\ b \subseteq c
    BY LenProperties DEF FreshIn
  <1>2. /\ \A i \in 1..ls : Once(s[i]) => s[i] \in b \ a
        /\ \A i, j \in 1..ls : Once(s[i]) /\ s[i] = s[j] => i = j
        /\ \A i \in 1..lt : Once(t[i]) => t[i] \in c \ b
        /\ \A i, j \in 1..lt : Once(t[i]) /\ t[i] = t[j] => i = j
    BY DEF FreshIn
  <1>3. ASSUME NEW p, NEW q, NEW lp \in Nat, NEW lq \in Nat, NEW r, NEW lr,
               lr = lp + lq, \A i \in 1..lp + lq : r[i] = IF i <= lp THEN p[i] ELSE q[i - lp],
               NEW P, NEW Q, P \cap Q = {},
               \A i \in 1..lp : Once(p[i]) => p[i] \in P,
               \A i, j \in 1..lp : Once(p[i]) /\ p[i] = p[j] => i = j,
               \A i \in 1..lq : Once(q[i]) => q[i] \in Q,
               \A i, j \in 1..lq : Once(q[i]) /\ q[i] = q[j] => i = j
        PROVE  /\ \A i \in 1..lr : Once(r[i]) => r[i] \in P \cup Q
               /\ \A i, j \in 1..lr : Once(r[i]) /\ r[i] = r[j] => i = j
    <2>1. \A i \in 1..lr : \/ i \in 1..lp /\ r[i] = p[i]
                           \/ i - lp \in 1..lq /\ r[i] = q[i - lp]
      BY <1>3
    <2>2. \A i \in 1..lr : i \in Nat
      BY <1>3
    <2>3. ASSUME NEW i \in 1..lr, NEW j \in 1..lr, Once(r[i]), r[i] = r[j] PROVE i = j
      <3>1. CASE i \in 1..lp /\ r[i] = p[i] /\ j \in 1..lp /\ r[j] = p[j]
        BY <1>3, <2>3, <3>1
      <3>2. CASE i - lp \in 1..lq /\ r[i] = q[i - lp] /\ j - lp \in 1..lq /\ r[j] = q[j - lp]
        <4>1. i - lp = j - lp
          BY <1>3, <2>3, <3>2
        <4> QED  BY <2>2, <4>1
      <3>3. CASE i \in 1..lp /\ r[i] = p[i] /\ j - lp \in 1..lq /\ r[j] = q[j - lp]
        BY <1>3, <2>3, <3>3
      <3>4. CASE i - lp \in 1..lq /\ r[i] = q[i - lp] /\ j \in 1..lp /\ r[j] = p[j]
        BY <1>3, <2>3, <3>4
      <3> QED  BY <2>1, <3>1, <3>2, <3>3, <3>4
    <2>4. \A i \in 1..lr : Once(r[i]) => r[i] \in P \cup Q
      BY <1>3, <2>1
    <2> QED  BY <2>3, <2>4
  <1>4. (b \ a) \cap (c \ b) = {} /\ (c \ b) \cap (b \ a) = {}
        /\ (b \ a) \cup (c \ b) \subseteq c \ a /\ (c \ b) \cup (b \ a) \subseteq c \ a
    BY <1>1
  <1>5. /\ s \o t \in Seq(Items) /\ Len(s \o t) = ls + lt
        /\ \A i \in 1..ls + lt : (s \o t)[i] = IF i <= ls THEN s[i] ELSE t[i - ls]
    BY <1>1, ConcatProperties, Zenon
  <1>6. /\ t \o s \in Seq(Items) /\ Len(t \o s) = lt + ls
        /\ \A i \in 1..lt + ls : (t \o s)[i] = IF i <= lt THEN t[i] ELSE s[i - lt]
    BY <1>1, ConcatProperties, Zenon
  <1> HIDE DEF ls, lt
  <1> DEFINE u == s \o t
             v == t \o s
  <1>7. /\ \A i \in 1..Len(u) : Once(u[i]) => u[i] \in (b \ a) \cup (c \ b)
        /\ \A i, j \in 1..Len(u) : Once(u[i]) /\ u[i] = u[j] => i = j
    <2>1. Len(u) = ls + lt /\ \A i \in 1..ls + lt : u[i] = IF i <= ls THEN s[i] ELSE t[i - ls]
      BY <1>5
    <2> HIDE DEF u
    <2> DEFINE P == b \ a
               Q == c \ b
    <2>2. /\ P \cap Q = {} /\ ls \in Nat /\ lt \in Nat
          /\ \A i \in 1..ls : Once(s[i]) => s[i] \in P
          /\ \A i, j \in 1..ls : Once(s[i]) /\ s[i] = s[j] => i = j
          /\ \A i \in 1..lt : Once(t[i]) => t[i] \in Q
          /\ \A i, j \in 1..lt : Once(t[i]) /\ t[i] = t[j] => i = j
      BY <1>1, <1>2, <1>4
    <2> HIDE DEF P, Q
    <2>3. /\ \A i \in 1..Len(u) : Once(u[i]) => u[i] \in P \cup Q
          /\ \A i, j \in 1..Len(u) : Once(u[i]) /\ u[i] = u[j] => i = j
      BY <1>3, <2>1, <2>2
    <2> QED  BY <2>3 DEF P, Q
  <1>8. /\ \A i \in 1..Len(v) : Once(v[i]) => v[i] \in (c \ b) \cup (b \ a)
        /\ \A i, j \in 1..Len(v) : Once(v[i]) /\ v[i] = v[j] => i = j
    <2>1. Len(v) = lt + ls /\ \A i \in 1..lt + ls : v[i] = IF i <= lt THEN t[i] ELSE s[i - lt]
      BY <1>6
    <2> HIDE DEF v
    <2> DEFINE P == c \ b
               Q == b \ a
    <2>2. /\ P \cap Q = {} /\ ls \in Nat /\ lt \in Nat
          /\ \A i \in 1..lt : Once(t[i]) => t[i] \in P
          /\ \A i, j \in 1..lt : Once(t[i]) /\ t[i] = t[j] => i = j
          /\ \A i \in 1..ls : Once(s[i]) => s[i] \in Q
          /\ \A i, j \in 1..ls : Once(s[i]) /\ s[i] = s[j] => i = j
      BY <1>1, <1>2, <1>4
    <2> HIDE DEF P, Q
    <2>3. /\ \A i \in 1..Len(v) : Once(v[i]) => v[i] \in P \cup Q
          /\ \A i, j \in 1..Len(v) : Once(v[i]) /\ v[i] = v[j] => i = j
      BY <1>3, <2>1, <2>2
    <2> QED  BY <2>3 DEF P, Q
  <1>9. u \in Seq(Items) /\ v \in Seq(Items)
    BY <1>5, <1>6
  <1> HIDE DEF u, v
  <1>10. FreshIn(u, a, c) /\ FreshIn(v, a, c)
    BY <1>1, <1>4, <1>7, <1>8, <1>9 DEF FreshIn
  <1> QED  BY <1>10 DEF u, v

LEMMA FreshMore ==
  ASSUME NEW a, NEW b, NEW c, NEW s, FreshIn(s, a, b), b \subseteq c
  PROVE  FreshIn(s, a, c)
  BY DEF FreshIn

LEMMA FreshNone ==
  ASSUME NEW a, NEW b, NEW s \in Seq(Items), a \subseteq b, \A i \in 1..Len(s) : ~Once(s[i])
  PROVE  FreshIn(s, a, b)
  BY DEF FreshIn

LEMMA FreshEmpty == ASSUME NEW a PROVE FreshIn(<<>>, a, a)
  BY EmptySeq DEF FreshIn

LEMMA FreshOne ==
  ASSUME NEW a, NEW b, NEW n \in Items, a \subseteq b, Once(n) => n \in b \ a
  PROVE  FreshIn(<<n>>, a, b)
  BY DEF FreshIn

(* A row that is not marked is fresh.                                       *)
LEMMA RowFresh ==
  ASSUME Parsed(doc), Linked, NEW S, Rows(S), NEW n \in Ids, n \notin S, Cells(n)
  PROVE  /\ FreshIn(Row(n), S, S \cup Range(Row(n))) /\ Rows(S \cup Range(Row(n)))
         /\ n \in Range(Row(n)) /\ \A m \in Range(Row(n)) : Cells(m)
  <1> DEFINE r == Row(n)
  <1>1. RowOf(r, n)
    BY RowIs
  <1>2. \A m \in Range(r) : m \in Ids /\ Cells(m) /\ Range(Row(m)) = Range(r)
    BY RowsAre, RowOfCells
  <1>3. r \in Seq(Ids) /\ n \in Range(r) /\ \A i, j \in 1..Len(r) : r[i] = r[j] => i = j
    BY <1>1 DEF RowOf
  <1>4. r \in Seq(Items)
    BY <1>3, IdsAreItems, SeqMonotonic
  <1>5. Range(r) = {r[i] : i \in 1..Len(r)}
    BY <1>3, RangeEquality
  <1> HIDE DEF r
  <1>6. \A m \in Range(r) : m \notin S
    BY <1>2, <1>3 DEF Rows
  <1>7. FreshIn(r, S, S \cup Range(r))
    BY <1>3, <1>4, <1>5, <1>6 DEF FreshIn
  <1>8. Rows(S \cup Range(r))
    BY <1>2 DEF Rows
  <1> QED  BY <1>2, <1>3, <1>7, <1>8 DEF r

(* The cells of a header are cells of headers.                              *)
LEMMA HeaderIs ==
  ASSUME Parsed(doc), Linked, NEW n \in Ids, Cells(n)
  PROVE  /\ Header(n) \in Ids /\ Cells(Header(n))
         /\ \A m \in Range(Row(Header(n))) : InHeader(m)
  <1> DEFINE c == Chain(n, "up")
             C == {x \in Ids : Cells(x)}
             h == Header(n)
  <1>1. ChainFrom(c, n, "up") /\ link[Last(c)]["up"] = 0 /\ h = Last(c)
    BY ChainIs DEF SideKeys, Header
  <1>2. ASSUME NEW x \in C, link[x]["up"] # 0 PROVE link[x]["up"] \in C
    <2>1. IsTable(link[x]["up"]) /\ link[x]["up"] \in Ids
      BY KeysAre, <1>2 DEF SideKeys, Linked, LinkType
    <2>2. ~failed
      BY <1>2 DEF Cells
    <2> QED  BY <2>1, <2>2, TableCells
  <1>3. n \in C
    OBVIOUS
  <1>4. c \in Seq(Ids) /\ c # <<>> /\ Len(c) \in Nat /\ Len(c) > 0 /\ h = c[Len(c)] /\ Len(c) \in 1..Len(c)
    <2>1. c \in Seq(Ids) /\ c # <<>>
      BY <1>1 DEF ChainFrom
    <2> HIDE DEF c
    <2>2. Len(c) \in Nat /\ Len(c) > 0 /\ Last(c) = c[Len(c)]
      BY <2>1, FrontIs
    <2> QED  BY <1>1, <2>1, <2>2
  <1> HIDE DEF c, h, C
  <1>5. h \in C
    BY <1>1, <1>2, <1>3, <1>4, ChainWithin
  <1>6. h \in Ids /\ Cells(h)
    BY <1>5 DEF C
  <1>7. ASSUME NEW m \in Range(Row(h)) PROVE InHeader(m)
    <2>1. Cells(m) /\ Range(Row(m)) = Range(Row(h)) /\ h \in Range(Row(h))
      BY <1>6, RowsAre, RowOfCells, RowIs DEF RowOf
    <2> QED  BY <1>1, <2>1 DEF InHeader
  <1> QED  BY <1>6, <1>7 DEF h

(* What a table gives, where b was marked before.                           *)
Grew(b, g) == FreshIn(g.text, b, g.seen) /\ Rows(g.seen) /\ \A m \in g.seen \ b : Cells(m)

LEMMA AddRowIs ==
  ASSUME Parsed(doc), Linked, NEW key \in {"up", "down"}, NEW r \in Growth
  PROVE  AddRow(r, key) \in Growth
  <1> DEFINE x == link[r.at][key]
  <1>1. key \in Range(Keys) /\ r.at \in Ids /\ r.text \in Seq(Items) /\ r.seen \subseteq Ids
    BY KeysAre DEF Growth
  <1>2. x \in Ids
    BY <1>1 DEF Linked, LinkType
  <1> HIDE DEF x
  <1>3. RowOf(Row(x), x)
    BY <1>2, RowIs
  <1>4. Row(x) \in Seq(Ids) /\ Range(Row(x)) \subseteq Ids
    BY <1>3 DEF RowOf
  <1>5. Row(x) \in Seq(Items)
    BY <1>4, IdsAreItems, SeqMonotonic
  <1>6. Row(x) \o r.text \in Seq(Items) /\ r.text \o Row(x) \in Seq(Items)
    BY <1>1, <1>5, ConcatProperties
  <1>7. AddRow(r, key) = [at |-> x, text |-> IF key = "up" THEN Row(x) \o r.text ELSE r.text \o Row(x),
                          seen |-> r.seen \cup Range(Row(x))]
    BY DEF AddRow, WithRow, x
  <1> QED  BY <1>1, <1>2, <1>4, <1>6, <1>7 DEF Growth

LEMMA AddRowMore ==
  ASSUME Parsed(doc), Linked, NEW key \in {"up", "down"}, NEW r \in Growth, ~NoRow(r, key)
  PROVE  r.seen \subseteq AddRow(r, key).seen /\ \E n \in AddRow(r, key).seen : n \notin r.seen
  <1> DEFINE x == link[r.at][key]
  <1>1. key \in Range(Keys) /\ r.at \in Ids
    BY KeysAre DEF Growth
  <1>2. x \in Ids /\ x \notin r.seen
    BY <1>1 DEF Linked, LinkType, NoRow
  <1>3. x \in Range(Row(x))
    BY <1>2, RowIs DEF RowOf
  <1>4. AddRow(r, key).seen = r.seen \cup Range(Row(x))
    BY DEF AddRow, WithRow
  <1> QED  BY <1>2, <1>3, <1>4

LEMMA AddRowGrows ==
  ASSUME Parsed(doc), Linked, ~failed, NEW key \in {"up", "down"}, NEW r \in Growth,
         NEW b, Grew(b, r), ~NoRow(r, key)
  PROVE  Grew(b, AddRow(r, key))
  <1> DEFINE x == link[r.at][key]
  <1>1. key \in SideKeys /\ key \in Range(Keys) /\ r.at \in Ids
    BY KeysAre DEF Growth, SideKeys
  <1>2. x \in Ids /\ x # 0 /\ x \notin r.seen
    BY <1>1 DEF Linked, LinkType, NoRow
  <1>3. Cells(x)
    BY <1>1, <1>2, TableCells DEF Linked
  <1> DEFINE s == r.seen \cup Range(Row(x))
             a == AddRow(r, key)
  <1>4. a.text = (IF key = "up" THEN Row(x) \o r.text ELSE r.text \o Row(x)) /\ a.seen = s
    BY DEF AddRow, WithRow
  <1> HIDE DEF x, a
  <1>5. /\ FreshIn(Row(x), r.seen, s) /\ Rows(s)
        /\ x \in Range(Row(x)) /\ \A m \in Range(Row(x)) : Cells(m)
    BY <1>2, <1>3, RowFresh DEF Grew
  <1>6. FreshIn(r.text, b, r.seen) /\ b \subseteq r.seen
    BY DEF Grew, FreshIn
  <1>7. FreshIn(Row(x) \o r.text, b, s) /\ FreshIn(r.text \o Row(x), b, s)
    BY <1>5, <1>6, FreshBoth
  <1>8. FreshIn(a.text, b, a.seen)
    BY <1>4, <1>7
  <1>9. \A m \in a.seen \ b : Cells(m)
    BY <1>4, <1>5 DEF Grew
  <1>10. Grew(b, a)
    BY <1>4, <1>5, <1>8, <1>9 DEF Grew
  <1> QED  BY <1>10 DEF a

LEMMA GrowIs ==
  ASSUME Parsed(doc), Linked, ~failed, NEW n \in Ids, NEW key \in {"up", "down"}, NEW head,
         NEW given, given.text \in Seq(Items), given.seen \subseteq Ids,
         NEW strict \in BOOLEAN, NEW b, strict => Grew(b, given)
  PROVE  LET g == Grow(n, key, head, given) IN
         /\ g.text \in Seq(Items) /\ given.seen \subseteq g.seen /\ g.seen \subseteq Ids
         /\ strict => Grew(b, g)
  <1> DEFINE D == Growth
             stop == {r \in D : NoRow(r, key) \/ Tokens(head \o AddRow(r, key).text) > Budget}
             next == [r \in D |-> AddRow(r, key)]
             go == CHOOSE f : f = [r \in Growth |->
                       IF NoRow(r, key) \/ Tokens(head \o AddRow(r, key).text) > Budget
                       THEN r ELSE f[AddRow(r, key)]]
             I == {r \in D : (strict => Grew(b, r)) /\ given.seen \subseteq r.seen}
             m == [r \in D |-> Cardinality(Ids \ r.seen)]
             start == [at |-> n, text |-> given.text, seen |-> given.seen]
             last == go[start]
  <1>1. Grow(n, key, head, given) = WithTried(last, key)
    BY DEF Grow
  <1>2. next \in [D -> D]
    BY AddRowIs
  <1>3. \A f : Loop(D, stop, next, f) <=>
           f = [r \in D |-> IF NoRow(r, key) \/ Tokens(head \o AddRow(r, key).text) > Budget
                            THEN r ELSE f[AddRow(r, key)]]
    <2> HIDE DEF D
    <2> QED  BY DEF Loop
  <1>4. Loop(D, stop, next, go)
    <2> HIDE DEF D, stop, next
    <2> QED  BY <1>2, LoopExists, <1>3 DEF D
  <1>5. start \in I
    BY DEF Growth, Grew
  <1>6. IsFiniteSet(Ids) /\ \A S : Cardinality(Ids \ S) \in Nat
    BY NodeIs, IdsFinite
  <1>7. ASSUME NEW r \in I, r \notin stop
        PROVE  next[r] \in I /\ m[next[r]] < m[r]
    <2>1. /\ r \in Growth /\ (strict => Grew(b, r)) /\ ~NoRow(r, key) /\ next[r] = AddRow(r, key)
          /\ next[r] \in Growth
      BY <1>7, AddRowIs
    <2>2. /\ strict => Grew(b, next[r])
          /\ r.seen \subseteq next[r].seen /\ \E x \in next[r].seen : x \notin r.seen
      BY <2>1, AddRowGrows, AddRowMore
    <2>3. next[r].seen \subseteq Ids
      BY <2>1 DEF Growth
    <2>4. Ids \ next[r].seen \subseteq Ids \ r.seen /\ Ids \ next[r].seen # Ids \ r.seen
      BY <2>2, <2>3
    <2>5. m[next[r]] = Cardinality(Ids \ next[r].seen) /\ m[r] = Cardinality(Ids \ r.seen)
      BY <2>1
    <2>6. IsFiniteSet(Ids \ r.seen)
      BY <1>6, FS_Subset
    <2>7. next[r] \in I
      BY <1>7, <2>1, <2>2
    <2> HIDE DEF next, m, I
    <2>8. Cardinality(Ids \ next[r].seen) < Cardinality(Ids \ r.seen)
      BY <2>4, <2>6, Fewer
    <2> QED  BY <2>5, <2>7, <2>8
  <1>8. I \subseteq D /\ \A r \in I : m[r] \in Nat
    BY <1>6
  <1> HIDE DEF D, stop, next, I, m, go, start
  <1>9. last \in I /\ last \in stop
    BY <1>4, <1>5, <1>7, <1>8, LoopEnds
  <1> HIDE DEF last
  <1>10. last \in Growth /\ (strict => Grew(b, last)) /\ given.seen \subseteq last.seen
    BY <1>9 DEF I, D
  <1>11. last.text \in Seq(Items) /\ last.seen \subseteq Ids
    BY <1>10 DEF Growth
  <1> DEFINE g == WithTried(last, key)
  <1>12. CASE NoRow(last, key)
    <2>1. g.text = last.text /\ g.seen = last.seen
      BY <1>12 DEF WithTried, Res
    <2> HIDE DEF g
    <2>2. strict => Grew(b, g)
      BY <1>10, <2>1 DEF Grew
    <2> QED  BY <1>1, <1>10, <1>11, <2>1, <2>2 DEF g
  <1>13. CASE ~NoRow(last, key)
    <2>1. g.text = last.text /\ g.seen = AddRow(last, key).seen
      BY <1>13 DEF WithTried, Res
    <2>2. last.seen \subseteq AddRow(last, key).seen /\ AddRow(last, key).seen \subseteq Ids
      BY <1>10, <1>13, AddRowMore, AddRowIs DEF Growth
    <2> HIDE DEF g
    <2>3. ASSUME strict PROVE Grew(b, g)
      <3>1. Grew(b, last) /\ Grew(b, AddRow(last, key))
        BY <1>10, <1>13, <2>3, AddRowGrows
      <3>2. FreshIn(last.text, b, AddRow(last, key).seen)
        BY <2>2, <3>1, FreshMore DEF Grew
      <3> QED  BY <2>1, <3>1, <3>2 DEF Grew
    <2> QED  BY <1>1, <1>10, <1>11, <2>1, <2>2, <2>3 DEF g
  <1> QED  BY <1>12, <1>13

LEMMA TableType ==
  ASSUME Parsed(doc), Linked, NEW n \in Ids, Cells(n), NEW S \in SUBSET Ids
  PROVE  /\ Table(n, S).text \in Seq(Items) /\ S \subseteq Table(n, S).seen
         /\ Table(n, S).seen \subseteq Ids
  <1> DEFINE head == Row(Header(n))
             own == IF Header(n) = n THEN <<>> ELSE Row(n)
             s == S \cup Range(head \o own)
             given == Res(own, s)
             t == Table(n, S)
  <1>0. ~failed /\ n \in Items /\ Ids \subseteq Items
    BY IdsAreItems DEF Cells
  <1>1. head \in Seq(Ids)
    BY HeaderIs, RowIs DEF RowOf
  <1>2. own \in Seq(Ids)
    BY EmptySeq, RowIs DEF RowOf
  <1>3. S \subseteq s /\ s \subseteq Ids /\ own \in Seq(Items) /\ head \in Seq(Items)
    <2> HIDE DEF own, head
    <2> QED  BY <1>1, <1>2, RangeConcatenation, RangeOfSeq, <1>0, SeqMonotonic
  <1>4. t = Res(<<>>, S) \/ t = TableAt(n, head, given)
    BY DEF Table
  <1>5. given.text = own /\ given.seen = s
    BY DEF Res
  <1> HIDE DEF t, given, head, own, s
  <1>6. CASE t = Res(<<>>, S)
    BY <1>6, EmptySeq DEF Res, t
  <1> DEFINE up == Grow(n, "up", head, given)
             both == Grow(n, "down", head, up)
  <1>7. CASE t = Res(<<n>>, given.seen)
    BY <1>5, <1>7, <1>0, <1>3 DEF Res, t
  <1>8. CASE t = Headed(head, both)
    <2>1. up.text \in Seq(Items) /\ s \subseteq up.seen /\ up.seen \subseteq Ids
      BY <1>3, <1>5, <1>0, GrowIs
    <2> HIDE DEF up
    <2>2. both.text \in Seq(Items) /\ up.seen \subseteq both.seen /\ both.seen \subseteq Ids
      BY <1>0, <2>1, GrowIs
    <2> HIDE DEF both
    <2>3. t.text = head \o both.text /\ t.seen = both.seen
      BY <1>8 DEF Headed, Res
    <2>4. head \o both.text \in Seq(Items)
      BY <1>3, <2>2, ConcatProperties
    <2> QED  BY <1>3, <2>1, <2>2, <2>3, <2>4 DEF t
  <1> QED  BY <1>4, <1>6, <1>7, <1>8 DEF TableAt

LEMMA TableIs ==
  ASSUME Parsed(doc), Linked, NEW n \in Ids, Cells(n), NEW S, Rows(S)
  PROVE  Grew(S, Table(n, S)) /\ n \in Table(n, S).seen
  <1> DEFINE head == Row(Header(n))
             own == IF Header(n) = n THEN <<>> ELSE Row(n)
             s == S \cup Range(head \o own)
             given == Res(own, s)
             t == Table(n, S)
  <1>0. ~failed /\ n \in Items
    BY IdsAreItems DEF Cells
  <1>1. CASE n \in S
    <2> HIDE DEF t
    <2> QED  BY <1>1, FreshEmpty DEF Table, Res, Grew, t
  <1>2. CASE n \notin S
    <2>1. t = TableAt(n, head, given)
      BY <1>2 DEF Table
    <2>2. /\ Header(n) \in Ids /\ Cells(Header(n)) /\ \A m \in Range(head) : InHeader(m)
      BY HeaderIs
    <2>3. head \in Seq(Ids) /\ Range(head) \subseteq Ids /\ Header(n) \in Range(head)
      BY <2>2, RowIs DEF RowOf
    <2>4. /\ FreshIn(Row(n), S, S \cup Range(Row(n))) /\ Rows(S \cup Range(Row(n)))
          /\ n \in Range(Row(n)) /\ \A m \in Range(Row(n)) : Cells(m)
      BY <1>2, RowFresh
    <2>5. Row(n) \in Seq(Ids)
      BY RowIs DEF RowOf
    <2>6. \A m \in Range(head) : Cells(m) /\ Range(Row(m)) = Range(head)
      BY <2>2, RowsAre, RowOfCells
    <2>7. own \in Seq(Ids) /\ (own = Row(n) \/ (own = <<>> /\ Header(n) = n))
      <3>1. <<>> \in Seq(Ids)
        BY EmptySeq
      <3>2. Header(n) = n => own = <<>>
        BY Zenon
      <3>3. Header(n) # n => own = Row(n)
        BY Zenon
      <3> HIDE DEF own
      <3> QED  BY <2>5, <3>1, <3>2, <3>3
    <2>8. /\ S \subseteq s /\ Rows(s) /\ n \in s /\ FreshIn(own, S, s)
          /\ \A m \in s \ S : Cells(m)
      <3>1. Range(head \o own) = Range(head) \cup Range(own)
        BY <2>3, <2>7, RangeConcatenation
      <3>2. CASE own = Row(n)
        <4>1. s = S \cup Range(Row(n)) \cup Range(head)
          BY <3>1, <3>2
        <4> HIDE DEF s, own, head
        <4>2. FreshIn(own, S, s)
          BY <2>4, <3>2, <4>1, FreshMore
        <4>3. Rows(s)
          BY <2>3, <2>4, <2>6, <4>1 DEF Rows
        <4> QED  BY <2>4, <2>6, <4>1, <4>2, <4>3
      <3>3. CASE own = <<>> /\ Header(n) = n
        <4>1. Range(own) = {} /\ head = Row(n)
          BY <3>3 DEF Range
        <4>2. s = S \cup Range(Row(n))
          BY <3>1, <4>1
        <4> HIDE DEF s, own, head
        <4>3. FreshIn(own, S, S) /\ S \subseteq s
          BY <3>3, <4>2, FreshEmpty
        <4>4. FreshIn(own, S, s)
          BY <4>3, FreshMore
        <4> QED  BY <2>4, <4>2, <4>4
      <3> QED  BY <2>7, <3>2, <3>3
    <2>9. given.text = own /\ given.seen = s
      BY DEF Res
    <2> HIDE DEF given, s, own
    <2>10. Grew(S, given)
      BY <2>8, <2>9 DEF Grew
    <2>11. \A i \in 1..Len(head) : head[i] \in Range(head)
      BY <2>3, RangeEquality
    <2>12. FreshIn(head, S, S)
      <3>1. \A i \in 1..Len(head) : ~Once(head[i])
        BY <2>2, <2>11 DEF Once
      <3>2. head \in Seq(Items)
        BY <2>3, IdsAreItems, SeqMonotonic
      <3> QED  BY <3>1, <3>2, FreshNone
    <2> HIDE DEF head, t
    <2> DEFINE up == Grow(n, "up", head, given)
               both == Grow(n, "down", head, up)
    <2>13. CASE t = Res(<<n>>, given.seen)
      <3>1. t.text = <<n>> /\ t.seen = s
        BY <2>9, <2>13 DEF Res
      <3>2. FreshIn(<<n>>, S, s)
        BY <1>0, <1>2, <2>8, FreshOne
      <3>3. Grew(S, t) /\ n \in t.seen
        BY <2>8, <3>1, <3>2 DEF Grew
      <3> QED  BY <3>3 DEF t
    <2>14. CASE t = Headed(head, both)
      <3>1. Grew(S, up) /\ given.seen \subseteq up.seen
        BY <2>10, <1>0, GrowIs DEF Grew, FreshIn, Rows
      <3> HIDE DEF up
      <3>2. Grew(S, both) /\ up.seen \subseteq both.seen
        BY <3>1, <1>0, GrowIs DEF Grew, FreshIn, Rows
      <3> HIDE DEF both
      <3>3. t.text = head \o both.text /\ t.seen = both.seen
        BY <2>14 DEF Headed, Res
      <3>4. FreshIn(both.text, S, both.seen)
        BY <3>2 DEF Grew
      <3>5. FreshIn(head \o both.text, S, both.seen)
        BY <2>12, <3>4, FreshBoth
      <3>6. Grew(S, t) /\ n \in t.seen
        BY <2>8, <2>9, <3>1, <3>2, <3>3, <3>5 DEF Grew
      <3> QED  BY <3>6 DEF t
    <2> QED  BY <2>1, <2>13, <2>14 DEF TableAt
  <1> QED  BY <1>1, <1>2

-----------------------------------------------------------------------------
(* A loop ends when one measure goes down, or stays while another goes down.*)
LEMMA LoopEndsToo ==
  ASSUME NEW D, NEW stop, NEW next, NEW f, Loop(D, stop, next, f),
         NEW I, I \subseteq D, NEW m, NEW k, NEW start \in I,
         \A r \in I : m[r] \in Nat /\ k[r] \in Nat,
         \A r \in I : r \notin stop =>
            next[r] \in I /\ (m[next[r]] < m[r] \/ (m[next[r]] = m[r] /\ k[next[r]] < k[r]))
  PROVE  f[start] \in I /\ f[start] \in stop
  <1> DEFINE Bad == {r \in I : ~(f[r] \in I /\ f[r] \in stop)}
             Sizes == {m[r] : r \in Bad}
  <1> SUFFICES ASSUME Bad # {} PROVE FALSE
    OBVIOUS
  <1>1. Sizes \subseteq Nat /\ Sizes # {}
    OBVIOUS
  <1>2. PICK x \in Sizes : \A y \in Sizes : x <= y
    <2> HIDE DEF Sizes
    <2> QED  BY <1>1, LeastOf
  <1> DEFINE Worst == {r \in Bad : m[r] = x}
             Lengths == {k[r] : r \in Worst}
  <1>3. Lengths \subseteq Nat /\ Lengths # {}
    BY <1>2
  <1>4. PICK z \in Lengths : \A y \in Lengths : z <= y
    <2> HIDE DEF Lengths
    <2> QED  BY <1>3, LeastOf
  <1>5. PICK r \in Worst : k[r] = z
    BY <1>4
  <1>6. r \in I /\ m[r] = x /\ r \in Bad
    BY <1>5
  <1>7. f[r] = IF r \in stop THEN r ELSE f[next[r]]
    BY <1>6 DEF Loop
  <1>8. r \notin stop
    BY <1>6, <1>7
  <1>9. next[r] \in I /\ f[next[r]] = f[r]
    BY <1>6, <1>7, <1>8
  <1>10. next[r] \in Bad
    BY <1>6, <1>9
  <1>11. m[next[r]] \in Sizes /\ m[next[r]] \in Nat /\ m[r] \in Nat
    BY <1>6, <1>9, <1>10
  <1>12. x <= m[next[r]]
    BY <1>2, <1>11
  <1>13. m[next[r]] = m[r] /\ k[next[r]] < k[r]
    BY <1>6, <1>8, <1>11, <1>12
  <1>14. k[next[r]] \in Lengths /\ k[next[r]] \in Nat /\ k[r] \in Nat
    BY <1>6, <1>9, <1>10, <1>13
  <1>15. z <= k[next[r]]
    BY <1>4, <1>14
  <1> QED  BY <1>5, <1>13, <1>14, <1>15

LEMMA ItemsFinite ==
  ASSUME Parsed(doc)
  PROVE  Items \subseteq Int /\ \A S \in SUBSET Items : IsFiniteSet(S) /\ S \subseteq Int
  <1>1. -2 * Len(doc) \in Int /\ 2 * Len(doc) \in Int
    BY NodeIs
  <1>2. IsFiniteSet(Items)
    BY <1>1, FS_Interval DEF Items
  <1>3. Items \subseteq Int
    BY <1>1 DEF Items
  <1> QED  BY <1>2, <1>3, FS_Subset

LEMMA InOrderIs ==
  ASSUME Parsed(doc), NEW S \in SUBSET Items
  PROVE  /\ InOrder(S) \in Seq(S)
         /\ \A i, j \in 1..Len(InOrder(S)) : InOrder(S)[i] = InOrder(S)[j] => i = j
  <1> DEFINE P == {n \in S : IsMock(n)}
             Q == {n \in S : ~IsMock(n)}
             p == Ascending(P)
             q == Ascending(Q)
             a == Cardinality(P)
             b == Cardinality(Q)
             o == p \o q
  <1>1. /\ IsFiniteSet(P) /\ P \subseteq Int /\ IsFiniteSet(Q) /\ Q \subseteq Int /\ P \cap Q = {}
        /\ P \subseteq S /\ Q \subseteq S
    <2>1. P \in SUBSET Items /\ Q \in SUBSET Items /\ P \cap Q = {} /\ P \subseteq S /\ Q \subseteq S
      OBVIOUS
    <2> HIDE DEF P, Q
    <2> QED  BY <2>1, ItemsFinite
  <1>2. InOrder(S) = o
    BY DEF InOrder
  <1> HIDE DEF P, Q
  <1>3. /\ a \in Nat /\ p \in Seq(P) /\ Len(p) = a /\ \A i \in 1..a : p[i] \in P
        /\ \A i, j \in 1..a : i < j => p[i] < p[j]
    BY <1>1, AscendingIs
  <1>4. /\ b \in Nat /\ q \in Seq(Q) /\ Len(q) = b /\ \A i \in 1..b : q[i] \in Q
        /\ \A i, j \in 1..b : i < j => q[i] < q[j]
    BY <1>1, AscendingIs
  <1> HIDE DEF p, q, a, b
  <1>5. p \in Seq(S) /\ q \in Seq(S)
    BY <1>1, <1>3, <1>4, SeqMonotonic
  <1>6. /\ o \in Seq(S) /\ Len(o) = a + b
        /\ \A i \in 1..a + b : o[i] = IF i <= a THEN p[i] ELSE q[i - a]
    <2>1. /\ p \o q \in Seq(S) /\ Len(p \o q) = Len(p) + Len(q)
          /\ \A i \in 1..Len(p) + Len(q) : (p \o q)[i] = IF i <= Len(p) THEN p[i] ELSE q[i - Len(p)]
      BY <1>5, ConcatProperties, Zenon
    <2> QED  BY <1>3, <1>4, <2>1
  <1> HIDE DEF o
  <1>7. \A i \in 1..a + b : \/ i \in 1..a /\ o[i] = p[i]
                            \/ i - a \in 1..b /\ o[i] = q[i - a]
    BY <1>3, <1>4, <1>6
  <1>8. \A i, j \in 1..a : p[i] = p[j] => i = j
    <2> SUFFICES ASSUME NEW i \in 1..a, NEW j \in 1..a, p[i] = p[j], i < j PROVE FALSE
      BY <1>3
    <2>1. p[i] < p[j] /\ p[i] \in Int
      BY <1>1, <1>3
    <2> QED  BY <2>1
  <1>9. \A i, j \in 1..b : q[i] = q[j] => i = j
    <2> SUFFICES ASSUME NEW i \in 1..b, NEW j \in 1..b, q[i] = q[j], i < j PROVE FALSE
      BY <1>4
    <2>1. q[i] < q[j] /\ q[i] \in Int
      BY <1>1, <1>4
    <2> QED  BY <2>1
  <1>10. ASSUME NEW i \in 1..a + b, NEW j \in 1..a + b, o[i] = o[j] PROVE i = j
    <2>1. CASE i \in 1..a /\ o[i] = p[i] /\ j \in 1..a /\ o[j] = p[j]
      BY <1>8, <1>10, <2>1
    <2>2. CASE i - a \in 1..b /\ o[i] = q[i - a] /\ j - a \in 1..b /\ o[j] = q[j - a]
      <3>1. i - a = j - a
        BY <1>9, <1>10, <2>2
      <3> QED  BY <1>3, <3>1
    <2>3. CASE i \in 1..a /\ o[i] = p[i] /\ j - a \in 1..b /\ o[j] = q[j - a]
      BY <1>1, <1>3, <1>4, <1>10, <2>3
    <2>4. CASE i - a \in 1..b /\ o[i] = q[i - a] /\ j \in 1..a /\ o[j] = p[j]
      BY <1>1, <1>3, <1>4, <1>10, <2>4
    <2> QED  BY <1>7, <2>1, <2>2, <2>3, <2>4
  <1> QED  BY <1>2, <1>6, <1>10

(* complete_all_sub_nodes: what is given is new, whatever the list.         *)
Shown(b, r) == FreshIn(r.text, b, r.seen) /\ Rows(r.seen)

LEMMA PassShows ==
  ASSUME NEW b, NEW r, Shown(b, r), NEW more, FreshIn(more.text, r.seen, more.seen), Rows(more.seen)
  PROVE  Shown(b, Pass(r, more))
  <1> DEFINE p == Pass(r, more)
  <1>1. p.text = r.text \o more.text /\ p.seen = more.seen
    BY DEF Pass
  <1>2. FreshIn(r.text \o more.text, b, more.seen)
    BY FreshBoth DEF Shown
  <1> HIDE DEF p
  <1>3. Shown(b, p)
    BY <1>1, <1>2 DEF Shown
  <1> QED  BY <1>3 DEF p

LEMMA HeadIs ==
  ASSUME NEW S, NEW r \in Showing(S), r.todo # <<>>
  PROVE  /\ Head(r.todo) \in S /\ Tail(r.todo) \in Seq(S) /\ Len(Tail(r.todo)) = Len(r.todo) - 1
         /\ Len(r.todo) \in Nat /\ r.text \in Seq(Items) /\ r.seen \subseteq Ids
  BY HeadTailProperties, LenProperties DEF Showing

LEMMA PassType ==
  ASSUME NEW S, NEW r \in Showing(S), r.todo # <<>>,
         NEW more, more.text \in Seq(Items), more.seen \subseteq Ids
  PROVE  Pass(r, more) \in Showing(S) /\ Pass(r, more).todo = Tail(r.todo)
  BY HeadIs, ConcatProperties DEF Pass, Showing

(* One step: either the node is passed, or it is taken for the first time.  *)
LEMMA ShowNextIs ==
  ASSUME Parsed(doc), Linked, NEW r \in Showing(Items), r.todo # <<>>,
         NEW strict \in BOOLEAN, NEW b, strict => Shown(b, r)
  PROVE  LET s == ShowNext(r) IN
         /\ s \in Showing(Items) /\ r.seen \subseteq s.seen
         /\ s.todo = Tail(r.todo) \/ \E n \in s.seen : n \notin r.seen
         /\ strict => Shown(b, s)
  <1> DEFINE n == Head(r.todo)
             s == ShowNext(r)
  <1>1. n \in Items /\ Tail(r.todo) \in Seq(Items) /\ r.text \in Seq(Items) /\ r.seen \subseteq Ids
    BY HeadIs
  <1>2. Len(doc) \in Nat /\ Ids \subseteq Items /\ n \in Int
    BY <1>1, NodeIs, IdsAreItems, ItemsFinite
  <1> HIDE DEF n
  <1>3. ASSUME NEW more, s = Pass(r, more), more.text \in Seq(Items), more.seen \subseteq Ids,
               r.seen \subseteq more.seen,
               strict => FreshIn(more.text, r.seen, more.seen) /\ Rows(more.seen)
        PROVE  /\ s \in Showing(Items) /\ r.seen \subseteq s.seen
               /\ s.todo = Tail(r.todo)
               /\ strict => Shown(b, s)
    <2> HIDE DEF s
    <2> QED  BY <1>3, PassType, PassShows DEF Pass
  <1>4. strict => Rows(r.seen)
    BY DEF Shown
  <1>5. ASSUME NEW t \in Seq(Items), s = Pass(r, Res(t, r.seen)), \A i \in 1..Len(t) : ~Once(t[i])
        PROVE  /\ s \in Showing(Items) /\ r.seen \subseteq s.seen
               /\ s.todo = Tail(r.todo)
               /\ strict => Shown(b, s)
    <2> DEFINE more == Res(t, r.seen)
    <2>1. more.text = t /\ more.seen = r.seen
      BY DEF Res
    <2>2. s = Pass(r, more)
      BY <1>5
    <2>3. FreshIn(t, r.seen, r.seen)
      BY <1>5, FreshNone
    <2> HIDE DEF more, s
    <2> QED  BY <1>1, <1>3, <1>4, <1>5, <2>1, <2>2, <2>3
  <1>6. CASE n < 0
    <2> DEFINE t == IF n < -Len(doc) THEN <<>> ELSE <<n>>
    <2>1. s = Pass(r, Res(t, r.seen))
      BY <1>6 DEF ShowNext, n
    <2>2. n \notin Ids /\ ~Once(n)
      BY <1>2, <1>6, ChunksAre DEF Ids, Once
    <2>3. t \in Seq(Items) /\ \A i \in 1..Len(t) : ~Once(t[i])
      BY <1>1, <2>2
    <2> HIDE DEF t, s
    <2> QED  BY <1>5, <2>1, <2>3 DEF s
  <1>7. CASE ~(n < 0) /\ n \in r.seen
    <2>1. s = Pass(r, Res(<<>>, r.seen))
      BY <1>7 DEF ShowNext, n
    <2>2. <<>> \in Seq(Items) /\ \A i \in 1..Len(<<>>) : ~Once(<<>>[i])
      OBVIOUS
    <2> HIDE DEF s
    <2> QED  BY <1>5, <2>1, <2>2 DEF s
  <1>8. n < 0 \/ n \in Ids
    BY <1>1, <1>2 DEF Ids, Items
  <1>9. CASE ~(n < 0) /\ n \notin r.seen /\ Cells(n)
    <2> DEFINE t == Table(n, r.seen)
    <2>1. s = Pass(r, t)
      BY <1>9 DEF ShowNext, n
    <2>2. n \in Ids
      BY <1>8, <1>9
    <2>3. t.text \in Seq(Items) /\ r.seen \subseteq t.seen /\ t.seen \subseteq Ids
      BY <1>1, <1>9, <2>2, TableType
    <2>4. strict => FreshIn(t.text, r.seen, t.seen) /\ Rows(t.seen)
      BY <1>4, <1>9, <2>2, TableIs DEF Grew
    <2> HIDE DEF t, s
    <2> QED  BY <1>3, <2>1, <2>3, <2>4 DEF s
  <1>10. CASE ~(n < 0) /\ n \notin r.seen /\ ~Cells(n)
    <2>1. s = Take(r, n)
      BY <1>10 DEF ShowNext, n
    <2>2. n \in Ids
      BY <1>8, <1>10
    <2>3. /\ s.todo = InOrder(kids[n]) \o Tail(r.todo) /\ s.seen = r.seen \cup {n}
          /\ s.text = IF IsMock(n) THEN r.text ELSE Append(r.text, n)
      <3> HIDE DEF s
      <3>1. s = [todo |-> InOrder(kids[n]) \o Tail(r.todo),
                 text |-> IF IsMock(n) THEN r.text ELSE Append(r.text, n),
                 seen |-> r.seen \cup {n}]
        BY <2>1 DEF Take
      <3> QED  BY <3>1, Zenon
    <2>4. s = [todo |-> s.todo, text |-> s.text, seen |-> s.seen]
      BY <2>1 DEF Take
    <2>5. s.todo \in Seq(Items)
      <3>1. kids[n] \in SUBSET Ids
        BY <2>2 DEF Linked
      <3>2. kids[n] \in SUBSET Items
        BY <1>2, <3>1
      <3>3. InOrder(kids[n]) \in Seq(kids[n])
        BY <3>2, InOrderIs
      <3>4. InOrder(kids[n]) \in Seq(Items)
        BY <3>2, <3>3, SeqMonotonic
      <3> HIDE DEF s
      <3> QED  BY <1>1, <2>3, <3>4, ConcatProperties
    <2>6. Append(r.text, n) = r.text \o <<n>> /\ Append(r.text, n) \in Seq(Items) /\ <<n>> \in Seq(Items)
      BY <1>1, AppendIsConcat, AppendProperties
    <2> HIDE DEF s
    <2>7. s \in Showing(Items)
      <3>1. s.text \in Seq(Items)
        BY <1>1, <2>3, <2>6
      <3>2. s.seen \subseteq Ids
        BY <1>1, <2>2, <2>3
      <3> QED  BY <2>4, <2>5, <3>1, <3>2 DEF Showing
    <2>8. ASSUME strict PROVE Shown(b, s)
      <3>1. Shown(b, r) /\ FreshIn(r.text, b, r.seen)
        BY <2>8 DEF Shown
      <3>2. Rows(s.seen)
        BY <1>4, <1>10, <2>2, <2>3, <2>8 DEF Rows
      <3>3. FreshIn(<<n>>, r.seen, s.seen)
        BY <1>1, <1>10, <2>3, FreshOne
      <3>4. FreshIn(r.text \o <<n>>, b, s.seen)
        BY <3>1, <3>3, FreshBoth
      <3>5. FreshIn(r.text, b, s.seen)
        BY <2>3, <3>1, FreshMore
      <3>6. FreshIn(s.text, b, s.seen)
        BY <2>3, <2>6, <3>4, <3>5
      <3> QED  BY <3>2, <3>6 DEF Shown
    <2> QED  BY <1>10, <2>3, <2>7, <2>8 DEF s
  <1> QED  BY <1>6, <1>7, <1>9, <1>10

(* What every step keeps holds at the end.                                  *)
LEMMA ShowAllKeeps ==
  ASSUME Parsed(doc), Linked, NEW list \in Seq(Items), NEW S \in SUBSET Ids,
         NEW I \in SUBSET Showing(Items), [todo |-> list, text |-> <<>>, seen |-> S] \in I,
         \A r \in I : r.todo # <<>> => ShowNext(r) \in I
  PROVE  ShowAll(list, S) \in I /\ ShowAll(list, S).todo = <<>>
  <1> DEFINE D == Showing(Items)
             stop == {r \in D : r.todo = <<>>}
             next == [r \in D |-> IF r.todo = <<>> THEN r ELSE ShowNext(r)]
             go == CHOOSE f : f = [r \in Showing(Items) |-> IF r.todo = <<>> THEN r ELSE f[ShowNext(r)]]
             m == [r \in D |-> Cardinality(Ids \ r.seen)]
             k == [r \in D |-> Len(r.todo)]
             start == [todo |-> list, text |-> <<>>, seen |-> S]
             last == go[start]
  <1>1. ShowAll(list, S) = last
    BY DEF ShowAll
  <1>2. next \in [D -> D]
    BY ShowNextIs
  <1>3. \A f : Loop(D, stop, next, f) <=>
           f = [r \in D |-> IF r.todo = <<>> THEN r ELSE f[ShowNext(r)]]
    <2> HIDE DEF D
    <2> QED  BY DEF Loop
  <1>4. Loop(D, stop, next, go)
    <2> HIDE DEF D, stop, next
    <2> QED  BY <1>2, LoopExists, <1>3 DEF D
  <1>5. start \in I
    OBVIOUS
  <1>6. IsFiniteSet(Ids) /\ \A T : Cardinality(Ids \ T) \in Nat
    BY NodeIs, IdsFinite
  <1>7. ASSUME NEW r \in I, r \notin stop
        PROVE  next[r] \in I /\ (m[next[r]] < m[r] \/ (m[next[r]] = m[r] /\ k[next[r]] < k[r]))
    <2> DEFINE s == next[r]
    <2>1. /\ r \in D /\ r.todo # <<>>
          /\ s = ShowNext(r)
      BY <1>7
    <2>2. /\ s \in D /\ r.seen \subseteq s.seen
          /\ s.todo = Tail(r.todo) \/ \E n \in s.seen : n \notin r.seen
      <3> HIDE DEF s
      <3> QED  BY <2>1, ShowNextIs
    <2>3. s.seen \subseteq Ids /\ Len(Tail(r.todo)) = Len(r.todo) - 1 /\ Len(r.todo) \in Nat
      BY <2>1, <2>2, HeadIs DEF Showing
    <2>4. /\ m[s] = Cardinality(Ids \ s.seen) /\ m[r] = Cardinality(Ids \ r.seen)
          /\ k[s] = Len(s.todo) /\ k[r] = Len(r.todo)
      BY <2>1, <2>2
    <2>5. s \in I
      BY <1>7, <2>1
    <2> HIDE DEF m, k, s, next, stop
    <2>6. CASE \E n \in s.seen : n \notin r.seen
      <3>1. Ids \ s.seen \subseteq Ids \ r.seen /\ Ids \ s.seen # Ids \ r.seen
        BY <2>2, <2>3, <2>6
      <3>2. IsFiniteSet(Ids \ r.seen)
        BY <1>6, FS_Subset
      <3>3. Cardinality(Ids \ s.seen) < Cardinality(Ids \ r.seen)
        BY <3>1, <3>2, Fewer
      <3> QED  BY <2>4, <2>5, <3>3 DEF s
    <2>7. CASE ~(\E n \in s.seen : n \notin r.seen)
      <3>1. s.todo = Tail(r.todo) /\ s.seen = r.seen
        BY <2>2, <2>7
      <3>2. m[s] = m[r] /\ k[s] < k[r]
        BY <2>3, <2>4, <3>1
      <3> QED  BY <2>5, <3>2 DEF s
    <2> QED  BY <2>6, <2>7
  <1>8. ASSUME NEW r \in I PROVE m[r] \in Nat /\ k[r] \in Nat
    <2>1. r \in D /\ r.todo \in Seq(Items)
      BY DEF Showing
    <2>2. m[r] = Cardinality(Ids \ r.seen) /\ k[r] = Len(r.todo)
      BY <2>1
    <2> HIDE DEF m, k, D
    <2>3. Len(r.todo) \in Nat
      BY <2>1, LenProperties
    <2> QED  BY <1>6, <2>2, <2>3
  <1>9. I \subseteq D
    OBVIOUS
  <1> HIDE DEF D, next, m, k, go, start
  <1>10. last \in I /\ last \in stop
    <2> HIDE DEF stop
    <2> QED  BY <1>4, <1>5, <1>7, <1>8, <1>9, LoopEndsToo
  <1> QED  BY <1>1, <1>10

LEMMA ShowAllIs ==
  ASSUME Parsed(doc), Linked, NEW list \in Seq(Items), NEW S \in SUBSET Ids,
         NEW strict \in BOOLEAN, strict => Rows(S)
  PROVE  LET s == ShowAll(list, S) IN
         /\ s.text \in Seq(Items) /\ S \subseteq s.seen /\ s.seen \subseteq Ids
         /\ strict => Shown(S, s)
  <1> DEFINE D == Showing(Items)
             I == {r \in D : (strict => Shown(S, r)) /\ S \subseteq r.seen}
             start == [todo |-> list, text |-> <<>>, seen |-> S]
             last == ShowAll(list, S)
  <1>1. start \in I
    BY EmptySeq, FreshEmpty DEF Showing, Shown
  <1>2. ASSUME NEW r \in I, r.todo # <<>> PROVE ShowNext(r) \in I
    <2> DEFINE s == ShowNext(r)
    <2>1. r \in D /\ (strict => Shown(S, r)) /\ S \subseteq r.seen
      OBVIOUS
    <2>2. s \in D /\ r.seen \subseteq s.seen /\ (strict => Shown(S, s))
      BY <1>2, <2>1, ShowNextIs
    <2> HIDE DEF s
    <2>3. s \in I
      BY <2>1, <2>2
    <2> QED  BY <2>3 DEF s
  <1>3. I \in SUBSET Showing(Items)
    OBVIOUS
  <1> HIDE DEF I
  <1>4. last \in I
    BY <1>1, <1>2, <1>3, ShowAllKeeps
  <1> HIDE DEF last
  <1>5. last \in Showing(Items) /\ (strict => Shown(S, last)) /\ S \subseteq last.seen
    BY <1>4 DEF I
  <1>6. last.text \in Seq(Items) /\ last.seen \subseteq Ids
    BY <1>5 DEF Showing
  <1> QED  BY <1>5, <1>6 DEF last

-----------------------------------------------------------------------------
(* A context: what its list still holds is not marked, but for cells.       *)
LeftOf(S, r) ==
  /\ Shown(S, r)
  /\ \A i, j \in 1..Len(r.todo) : r.todo[i] = r.todo[j] => i = j
  /\ \A i \in 1..Len(r.todo) : r.todo[i] \in r.seen => Cells(r.todo[i])

LEMMA TailIs ==
  ASSUME NEW X, NEW s \in Seq(X), s # <<>>
  PROVE  /\ Head(s) = s[1] /\ Head(s) \in X /\ Tail(s) \in Seq(X) /\ 1 \in 1..Len(s)
         /\ Len(s) \in Nat /\ Len(Tail(s)) = Len(s) - 1
         /\ \A i \in 1..Len(Tail(s)) : i + 1 \in 1..Len(s) /\ i + 1 # 1 /\ Tail(s)[i] = s[i + 1]
  BY FrontIs, HeadTailProperties, ElementOfSeq

LEMMA TellNextIs ==
  ASSUME Parsed(doc), Linked, NEW r \in Showing(Ids), r.todo # <<>>
  PROVE  /\ TellNext(r) \in Showing(Ids) /\ TellNext(r).todo = Tail(r.todo)
         /\ \A S : LeftOf(S, r) =>
              /\ LeftOf(S, TellNext(r))
              /\ \A m \in TellNext(r).seen \ r.seen : Cells(m) \/ m = Head(r.todo)
  <1> DEFINE n == Head(r.todo)
             t == Table(n, r.seen)
             u == Res(<<n>>, r.seen \cup {n})
             more == IF Cells(n) THEN t ELSE u
             s == TellNext(r)
             T == Tail(r.todo)
  <1>1. n \in Ids /\ n \in Items /\ r.text \in Seq(Items) /\ r.seen \subseteq Ids
    BY HeadIs, IdsAreItems
  <1>2. s = Pass(r, more)
    BY DEF TellNext
  <1>3. u.text = <<n>> /\ u.seen = r.seen \cup {n}
    BY DEF Res
  <1>4. s.seen = more.seen
    BY DEF TellNext, Pass
  <1>5. more.text \in Seq(Items) /\ more.seen \subseteq Ids
    <2>1. CASE Cells(n)
      <3>1. more = t /\ t.text \in Seq(Items) /\ t.seen \subseteq Ids
        BY <1>1, <2>1, TableType
      <3> HIDE DEF more, t
      <3> QED  BY <3>1
    <2>2. CASE ~Cells(n)
      <3>1. more = u
        BY <2>2
      <3>2. <<n>> \in Seq(Items)
        BY <1>1
      <3> HIDE DEF more, u, n
      <3> QED  BY <1>1, <1>3, <3>1, <3>2
    <2> QED  BY <2>1, <2>2
  <1>6. r.todo \in Seq(Ids)
    BY DEF Showing
  <1>7. /\ n = r.todo[1] /\ 1 \in 1..Len(r.todo)
        /\ \A i \in 1..Len(T) : i + 1 \in 1..Len(r.todo) /\ i + 1 # 1 /\ T[i] = r.todo[i + 1]
        /\ Len(T) \in Nat
    BY <1>6, TailIs, LenProperties
  <1> HIDE DEF s, more, t, u, n
  <1>8. s \in Showing(Ids) /\ s.todo = T
    BY <1>2, <1>5, PassType DEF T
  <1> HIDE DEF T
  <1>9. ASSUME NEW S, LeftOf(S, r)
        PROVE  LeftOf(S, s) /\ \A m \in s.seen \ r.seen : Cells(m) \/ m = n
    <2>1. /\ Shown(S, r) /\ Rows(r.seen)
          /\ \A i, j \in 1..Len(r.todo) : r.todo[i] = r.todo[j] => i = j
          /\ \A i \in 1..Len(r.todo) : r.todo[i] \in r.seen => Cells(r.todo[i])
      BY <1>9 DEF LeftOf, Shown
    <2>2. FreshIn(more.text, r.seen, more.seen) /\ Rows(more.seen)
          /\ \A m \in more.seen \ r.seen : Cells(m) \/ m = n
      <3>1. CASE Cells(n)
        <4>1. Grew(r.seen, t)
          BY <1>1, <2>1, <3>1, TableIs DEF t
        <4>2. more = t
          BY <3>1 DEF more
        <4> QED  BY <4>1, <4>2 DEF Grew
      <3>2. CASE ~Cells(n)
        <4>1. n \notin r.seen
          BY <1>7, <2>1, <3>2
        <4>2. more = u
          BY <3>2 DEF more
        <4>3. FreshIn(<<n>>, r.seen, r.seen \cup {n})
          BY <4>1, <1>1, FreshOne
        <4>4. Rows(r.seen \cup {n})
          BY <1>1, <2>1, <3>2 DEF Rows
        <4> QED  BY <1>3, <4>2, <4>3, <4>4
      <3> QED  BY <3>1, <3>2
    <2>3. Shown(S, s)
      BY <1>2, <2>1, <2>2, PassShows
    <2>4. \A i, j \in 1..Len(T) : T[i] = T[j] => i = j
      <3> SUFFICES ASSUME NEW i \in 1..Len(T), NEW j \in 1..Len(T), T[i] = T[j] PROVE i = j
        OBVIOUS
      <3>1. i + 1 = j + 1
        BY <1>7, <2>1
      <3> QED  BY <1>7, <3>1
    <2>5. ASSUME NEW i \in 1..Len(T), T[i] \in s.seen PROVE Cells(T[i])
      BY <1>7, <2>1, <1>4, <2>5, <2>2
    <2>6. LeftOf(S, s)
      BY <1>8, <2>3, <2>4, <2>5 DEF LeftOf
    <2> QED  BY <1>4, <2>2, <2>6
  <1> QED  BY <1>8, <1>9 DEF s, T, n

LEMMA WithContextIs ==
  ASSUME Parsed(doc), Linked, kept \subseteq DOMAIN doc, NEW c \in DOMAIN doc, c \notin Chunks,
         NEW S, Rows(S), \A n \in Group(c) : n \in S => Cells(n)
  PROVE  /\ Shown(S, WithContext(c, S))
         /\ \A m \in WithContext(c, S).seen \ S : Cells(m) \/ m \in Group(c)
  <1> DEFINE D == Showing(Ids)
             G == Group(c)
             stop == {r \in D : r.todo = <<>>}
             next == [r \in D |-> IF r.todo = <<>> THEN r ELSE TellNext(r)]
             go == CHOOSE f : f = [r \in Showing(Ids) |-> IF r.todo = <<>> THEN r ELSE f[TellNext(r)]]
             I == {r \in D : /\ LeftOf(S, r) /\ \A m \in r.seen \ S : Cells(m) \/ m \in G
                             /\ r.todo \in Seq(G)}
             m == [r \in D |-> Len(r.todo)]
             start == [todo |-> InOrder(Group(c)), text |-> <<c>>, seen |-> S]
             last == go[start]
  <1>1. WithContext(c, S) = last
    BY DEF WithContext
  <1>2. next \in [D -> D]
    BY TellNextIs
  <1>3. \A f : Loop(D, stop, next, f) <=>
           f = [r \in D |-> IF r.todo = <<>> THEN r ELSE f[TellNext(r)]]
    <2> HIDE DEF D
    <2> QED  BY DEF Loop
  <1>4. Loop(D, stop, next, go)
    <2> HIDE DEF D, stop, next
    <2> QED  BY <1>2, LoopExists, <1>3 DEF D
  <1>5. G \in SUBSET Ids /\ G \in SUBSET Items /\ G \in SUBSET DOMAIN doc /\ Ids \subseteq Items
    BY NodeIs, IdsAreItems DEF Group, Structure
  <1>6. start \in I
    <2> DEFINE o == InOrder(G)
    <2>1. o \in Seq(G) /\ \A i, j \in 1..Len(o) : o[i] = o[j] => i = j
      BY <1>5, InOrderIs
    <2>2. o \in Seq(Ids) /\ \A i \in 1..Len(o) : o[i] \in G
      BY <1>5, <2>1, SeqMonotonic, ElementOfSeq
    <2>3. c \in Ids /\ c \in Items /\ ~Once(c)
      BY NodeIs, IdsAreItems DEF Once
    <2>4. <<c>> \in Seq(Items) /\ FreshIn(<<c>>, S, S)
      BY <2>3, FreshOne
    <2> HIDE DEF o, G
    <2>5. start.todo = o /\ start.text = <<c>> /\ start.seen = S
      BY DEF o, G
    <2>6. start \in D
      BY <2>2, <2>4 DEF Rows, o, G, Showing
    <2> HIDE DEF start
    <2>7. Shown(S, start)
      BY <2>4, <2>5 DEF Shown
    <2>8. LeftOf(S, start)
      BY <2>1, <2>2, <2>5, <2>7 DEF LeftOf, G
    <2>9. start.todo \in Seq(G)
      BY <2>1, <2>5
    <2> HIDE DEF D
    <2> QED  BY <2>5, <2>6, <2>8, <2>9
  <1>7. ASSUME NEW r \in I, r \notin stop
        PROVE  next[r] \in I /\ m[next[r]] < m[r]
    <2> DEFINE s == next[r]
    <2>1. /\ r \in D /\ r.todo # <<>> /\ LeftOf(S, r) /\ s = TellNext(r)
          /\ \A x \in r.seen \ S : Cells(x) \/ x \in G
          /\ r.todo \in Seq(G)
      BY <1>7
    <2>2. /\ s \in D /\ s.todo = Tail(r.todo) /\ LeftOf(S, s)
          /\ \A x \in s.seen \ r.seen : Cells(x) \/ x = Head(r.todo)
      BY <2>1, TellNextIs
    <2>3. Head(r.todo) \in G /\ Tail(r.todo) \in Seq(G) /\ Len(Tail(r.todo)) = Len(r.todo) - 1
          /\ Len(r.todo) \in Nat
      BY <2>1, TailIs
    <2>4. m[s] = Len(s.todo) /\ m[r] = Len(r.todo)
      BY <2>1, <2>2
    <2> HIDE DEF s, G, D, m
    <2>5. \A x \in s.seen \ S : Cells(x) \/ x \in G
      BY <2>1, <2>2, <2>3
    <2>6. s \in I
      BY <2>2, <2>3, <2>5
    <2>7. m[s] < m[r]
      BY <2>2, <2>3, <2>4
    <2> QED  BY <2>6, <2>7 DEF s
  <1>8. I \subseteq D /\ \A r \in I : m[r] \in Nat
    <2> HIDE DEF D
    <2> QED  BY LenProperties DEF Showing
  <1> HIDE DEF D, stop, next, I, m, go, start
  <1>9. last \in I
    BY <1>4, <1>6, <1>7, <1>8, LoopEnds
  <1> HIDE DEF last
  <1>10. LeftOf(S, last) /\ \A x \in last.seen \ S : Cells(x) \/ x \in G
    BY <1>9 DEF I
  <1> HIDE DEF G
  <1> QED  BY <1>1, <1>10 DEF LeftOf, G

-----------------------------------------------------------------------------
(* Sums of tokens are numbers.                                              *)
SumOf(f, w, m) == f = [k \in 0..m |-> IF k = 0 THEN 0 ELSE f[k-1] + w[k]]

LEMMA SumsAre ==
  ASSUME NEW n \in Nat, NEW w, \A k \in 1..n : w[k] \in Nat
  PROVE  /\ \E f : SumOf(f, w, n)
         /\ \A f : SumOf(f, w, n) => f[n] \in Nat
  <1>1. ASSUME NEW f, NEW m \in 0..n, SumOf(f, w, m) PROVE \A k \in 0..m : f[k] \in Nat
    <2> DEFINE T == {k \in 0..m : f[k] \notin Nat}
    <2>0. m \in Nat
      OBVIOUS
    <2>1. f[0] = 0 /\ \A k \in 1..m : f[k] = f[k-1] + w[k]
      BY <1>1 DEF SumOf
    <2> SUFFICES ASSUME T # {} PROVE FALSE
      OBVIOUS
    <2>2. PICK x \in T : \A y \in T : x <= y
      <3>1. T \subseteq Nat
        OBVIOUS
      <3> HIDE DEF T
      <3> QED  BY <3>1, LeastOf
    <2>3. x # 0
      BY <2>1, <2>2
    <2>4. x - 1 \in 0..m /\ x \in 1..m /\ ~(x <= x - 1)
      BY <2>2, <2>3
    <2>5. f[x-1] \in Nat
      BY <2>2, <2>4
    <2>6. f[x] \in Nat
      BY <2>1, <2>4, <2>5
    <2> QED  BY <2>2, <2>6
  <1>2. ASSUME NEW m \in 0..n PROVE \E f : SumOf(f, w, m)
    <2> DEFINE T == {k \in 0..n : ~\E f : SumOf(f, w, k)}
    <2> SUFFICES ASSUME T # {} PROVE FALSE
      OBVIOUS
    <2>1. PICK x \in T : \A y \in T : x <= y
      <3>1. T \subseteq Nat
        OBVIOUS
      <3> HIDE DEF T
      <3> QED  BY <3>1, LeastOf
    <2>2. x # 0
      <3> DEFINE z == [k \in 0..0 |-> 0]
      <3>1. SumOf(z, w, 0)
        BY DEF SumOf
      <3> QED  BY <2>1, <3>1
    <2>3. x - 1 \in 0..n /\ x \in 1..n /\ ~(x <= x - 1)
      BY <2>1, <2>2
    <2>4. PICK f : SumOf(f, w, x - 1)
      BY <2>1, <2>3
    <2> DEFINE g == [k \in 0..x |-> IF k = x THEN f[x-1] + w[x] ELSE f[k]]
    <2>5. \A k \in 0..x-1 : f[k] = IF k = 0 THEN 0 ELSE f[k-1] + w[k]
      BY <2>4 DEF SumOf
    <2>6. \A k \in 0..x : g[k] = IF k = 0 THEN 0 ELSE g[k-1] + w[k]
      <3> SUFFICES ASSUME NEW k \in 0..x PROVE g[k] = IF k = 0 THEN 0 ELSE g[k-1] + w[k]
        OBVIOUS
      <3>0. x \in Nat /\ x > 0 /\ k \in Nat /\ k >= 0 /\ k <= x
        BY <2>3
      <3>1. CASE k = x
        BY <3>0, <3>1
      <3>2. CASE k = 0
        BY <3>0, <3>2, <2>5
      <3>3. CASE k # x /\ k # 0
        BY <3>0, <3>3, <2>5
      <3> QED  BY <3>1, <3>2, <3>3
    <2>7. SumOf(g, w, x)
      <3>1. g = [k \in 0..x |-> g[k]]
        OBVIOUS
      <3> HIDE DEF g
      <3>2. g = [k \in 0..x |-> IF k = 0 THEN 0 ELSE g[k-1] + w[k]]
        BY <2>6, <3>1
      <3> QED  BY <3>2 DEF SumOf
    <2> QED  BY <2>1, <2>7
  <1>3. n \in 0..n
    OBVIOUS
  <1> QED  BY <1>1, <1>2, <1>3

LEMMA TokensAre ==
  ASSUME Parsed(doc), NEW S
  PROVE  TokensOf(S) \in Nat
  <1> DEFINE N == Len(doc)
             w == [k \in 1..N |-> IF k \in S THEN doc[k].own ELSE 0]
             sum == CHOOSE f : f = [k \in 0..Len(doc) |-> IF k = 0 THEN 0
                                        ELSE f[k - 1] + (IF k \in S THEN doc[k].own ELSE 0)]
  <1>1. N \in Nat /\ \A k \in 1..N : doc[k].own \in Nat /\ w[k] \in Nat
    BY NodeIs
  <1>2. TokensOf(S) = sum[N]
    BY DEF TokensOf
  <1>3. \A f : SumOf(f, w, N) <=> f = [k \in 0..Len(doc) |-> IF k = 0 THEN 0
                                        ELSE f[k - 1] + (IF k \in S THEN doc[k].own ELSE 0)]
    <2> SUFFICES ASSUME NEW f
                 PROVE  [k \in 0..N |-> IF k = 0 THEN 0 ELSE f[k - 1] + w[k]] =
                        [k \in 0..N |-> IF k = 0 THEN 0
                                        ELSE f[k - 1] + (IF k \in S THEN doc[k].own ELSE 0)]
      BY DEF SumOf
    <2>1. \A k \in 0..N : k # 0 => k \in 1..N
      BY <1>1
    <2>2. \A k \in 1..N : w[k] = IF k \in S THEN doc[k].own ELSE 0
      OBVIOUS
    <2> HIDE DEF N, w
    <2> QED  BY <2>1, <2>2
  <1>4. \E f : SumOf(f, w, N)
    <2> HIDE DEF w, N
    <2> QED  BY <1>1, SumsAre
  <1>5. SumOf(sum, w, N)
    <2> HIDE DEF w, N
    <2> QED  BY <1>3, <1>4
  <1> HIDE DEF sum, w, N
  <1>6. sum[N] \in Nat
    BY <1>1, <1>5, SumsAre
  <1> QED  BY <1>2, <1>6

LEMMA NodeTokenIs ==
  ASSUME Parsed(doc), NEW n \in Ids, n # 0
  PROVE  /\ Own(n) \in Int /\ Size(n) \in Int /\ NodeToken(n) \in Int
         /\ n \in DOMAIN doc => (Size(n) < 0 <=> ~doc[n].sized)
  <1>1. Len(doc) \in Nat /\ n \in Nat /\ n > 0
    BY NodeIs DEF Ids
  <1>2. Own(n) \in Int
    <2>1. CASE n > Len(doc)
      BY <2>1 DEF Own
    <2>2. CASE ~(n > Len(doc))
      BY <1>1, <2>2, NodeIs DEF Own
    <2> QED  BY <2>1, <2>2
  <1>3. Size(n) \in Int /\ (n \in DOMAIN doc => (Size(n) < 0 <=> ~doc[n].sized))
    BY <1>1, NodeIs, TokensAre DEF Size
  <1> QED  BY <1>2, <1>3 DEF NodeToken

-----------------------------------------------------------------------------
(* The nodes around a hit.                                                  *)
LEMMA ClimbKeeps ==
  ASSUME Parsed(doc), Linked, NEW h, NEW I \in SUBSET (Ids \ {0}), h \in I,
         \A n \in I : link[n]["parent"] # 0 /\ Size(link[n]["parent"]) <= Budget => link[n]["parent"] \in I
  PROVE  Climb(h) \in I
  <1> DEFINE D == Ids
             p(n) == link[n]["parent"]
             stop == {n \in D : ~(p(n) # 0 /\ Size(p(n)) <= Budget)}
             next == [n \in D |-> p(n)]
             go == CHOOSE f : f = [n \in Ids |-> LET q == link[n]["parent"] IN
                                      IF q # 0 /\ Size(q) <= Budget THEN f[q] ELSE n]
             m == [n \in D |-> Height(n)]
  <1>1. Climb(h) = go[h]
    BY DEF Climb
  <1>2. \A n \in Ids : p(n) \in Ids /\ (p(n) # 0 => Height(p(n)) < Height(n))
    BY ChunksAre DEF Linked, LinkType
  <1>3. next \in [D -> D]
    BY <1>2
  <1>4. \A f : Loop(D, stop, next, f) <=>
           f = [n \in D |-> LET q == link[n]["parent"] IN
                   IF q # 0 /\ Size(q) <= Budget THEN f[q] ELSE n]
    <2> HIDE DEF D
    <2> QED  BY DEF Loop
  <1>5. Loop(D, stop, next, go)
    <2> HIDE DEF D, stop, next
    <2> QED  BY <1>3, LoopExists, <1>4 DEF D
  <1>6. \A n \in I : m[n] \in Nat
    BY NodeIs DEF Ids, Height
  <1>7. \A n \in I : n \notin stop => next[n] \in I /\ m[next[n]] < m[n]
    BY <1>2
  <1>8. h \in I /\ I \subseteq D
    OBVIOUS
  <1> HIDE DEF D, stop, next, m, go
  <1>9. go[h] \in I
    BY <1>5, <1>6, <1>7, <1>8, LoopEnds
  <1> QED  BY <1>1, <1>9

LEMMA ClimbIs ==
  ASSUME Parsed(doc), Linked, NEW h \in Ids, h # 0
  PROVE  Climb(h) \in Ids /\ Climb(h) # 0
  <1> DEFINE I == Ids \ {0}
  <1>1. \A n \in Ids : link[n]["parent"] \in Ids
    BY ChunksAre DEF Linked, LinkType
  <1>2. Climb(h) \in I
    BY <1>1, ClimbKeeps
  <1> QED  BY <1>2

(* Left leads down to the beginning, right up to the end.                   *)
ToEnd(r) == IF r.right = 0 THEN 0 ELSE 2 * Len(doc) + 1 - r.right
LEMMA SpanIs ==
  ASSUME Parsed(doc), NEW r \in Spreading
  PROVE  /\ r.left \in Nat /\ r.right \in Nat /\ ToEnd(r) \in Nat /\ Len(doc) \in Nat
         /\ r.list \in Seq(Ids) /\ r.left \in Ids /\ r.right \in Ids /\ r.sum \in Int
  BY NodeIs DEF Spreading, Ids, ToEnd

LEMMA AddLeftIs ==
  ASSUME Parsed(doc), Linked, NEW r \in Spreading
  PROVE  /\ AddLeft(r) \in Spreading /\ ToEnd(AddLeft(r)) = ToEnd(r)
         /\ AddLeft(r).left <= r.left /\ (GoLeft(r) => AddLeft(r).left < r.left)
  <1> DEFINE a == AddLeft(r)
             x == link[r.left]["previous"]
  <1>1. /\ r.left \in Nat /\ Len(doc) \in Nat
        /\ r.list \in Seq(Ids) /\ r.left \in Ids /\ r.right \in Ids /\ r.sum \in Int
    BY SpanIs
  <1>2. CASE ~GoLeft(r)
    BY <1>1, <1>2 DEF AddLeft
  <1>3. CASE GoLeft(r)
    <2>1. r.left # 0 /\ NodeToken(r.left) + r.sum \in Int
      BY <1>3, <1>1, NodeTokenIs DEF GoLeft
    <2>2. x \in Ids /\ (x # 0 => x < r.left) /\ x \in Nat
      <3>1. "previous" \in Range(Keys) \ {"parent"}
        BY KeysAre
      <3>2. x \in Ids
        BY <1>1, <3>1 DEF Linked, LinkType
      <3>3. x # 0 => Beyond("previous", r.left, x)
        BY <1>1, <3>1 DEF Linked
      <3> QED  BY <1>1, <3>2, <3>3 DEF Beyond, Ids
    <2>3. <<r.left>> \o r.list \in Seq(Ids)
      BY <1>1, ConcatProperties
    <2>4. a = [list |-> <<r.left>> \o r.list, left |-> x, right |-> r.right, sum |-> NodeToken(r.left) + r.sum]
      BY <1>3 DEF AddLeft, Spreading
    <2> HIDE DEF a, x
    <2>5. a \in Spreading /\ a.left = x /\ a.right = r.right
      BY <1>1, <2>1, <2>2, <2>3, <2>4 DEF Spreading
    <2>6. x < r.left
      BY <1>1, <2>1, <2>2
    <2> QED  BY <1>1, <2>2, <2>5, <2>6 DEF ToEnd, a
  <1> QED  BY <1>2, <1>3

LEMMA AddRightIs ==
  ASSUME Parsed(doc), Linked, NEW r \in Spreading
  PROVE  /\ AddRight(r) \in Spreading /\ AddRight(r).left = r.left
         /\ ToEnd(AddRight(r)) <= ToEnd(r) /\ (GoRight(r) => ToEnd(AddRight(r)) < ToEnd(r))
  <1> DEFINE a == AddRight(r)
             x == link[r.right]["next"]
  <1>1. /\ r.right \in Nat /\ Len(doc) \in Nat /\ ToEnd(r) \in Nat
        /\ r.list \in Seq(Ids) /\ r.left \in Ids /\ r.right \in Ids /\ r.sum \in Int
    BY SpanIs
  <1>2. CASE ~GoRight(r)
    BY <1>1, <1>2 DEF AddRight
  <1>3. CASE GoRight(r)
    <2>1. r.right # 0 /\ NodeToken(r.right) + r.sum \in Int
      BY <1>3, <1>1, NodeTokenIs DEF GoRight
    <2>2. x \in Ids /\ (x # 0 => r.right < x) /\ x \in 0..2 * Len(doc) /\ r.right \in 0..2 * Len(doc)
      <3>1. "next" \in Range(Keys) \ {"parent"}
        BY KeysAre
      <3>2. x \in Ids
        BY <1>1, <3>1 DEF Linked, LinkType
      <3>3. x # 0 => Beyond("next", r.right, x)
        BY <1>1, <3>1 DEF Linked
      <3> QED  BY <1>1, <3>2, <3>3 DEF Beyond, Ids
    <2>3. Append(r.list, r.right) \in Seq(Ids)
      BY <1>1, AppendProperties
    <2>4. a = [list |-> Append(r.list, r.right), left |-> r.left, right |-> x, sum |-> NodeToken(r.right) + r.sum]
      BY <1>3 DEF AddRight, Spreading
    <2> HIDE DEF a, x
    <2>5. a \in Spreading /\ a.left = r.left /\ a.right = x
      BY <1>1, <2>1, <2>2, <2>3, <2>4 DEF Spreading
    <2>6. ToEnd(a) < ToEnd(r)
      BY <2>1, <2>5, <1>1, <2>2 DEF ToEnd
    <2>7. ToEnd(a) \in Nat
      BY <2>5, SpanIs
    <2>8. ToEnd(a) <= ToEnd(r)
      BY <1>1, <2>6, <2>7
    <2> QED  BY <2>5, <2>6, <2>8 DEF a
  <1> QED  BY <1>2, <1>3

Beginning(top) ==
  [list |-> <<top>>, left |-> link[top]["previous"], right |-> link[top]["next"], sum |-> NodeToken(top)]

LEMMA BeginningIs ==
  ASSUME Parsed(doc), Linked, NEW top \in Ids, top # 0
  PROVE  Beginning(top) \in Spreading
  BY KeysAre, NodeTokenIs DEF Linked, LinkType, Spreading, Beginning

LEMMA SpreadKeeps ==
  ASSUME Parsed(doc), Linked, NEW top \in Ids, top # 0,
         NEW I \in SUBSET Spreading, Beginning(top) \in I,
         \A r \in I : (GoLeft(r) \/ GoRight(r)) => AddRight(AddLeft(r)) \in I
  PROVE  Spread(top) \in I /\ ~GoLeft(Spread(top)) /\ ~GoRight(Spread(top))
  <1> DEFINE D == Spreading
             stop == {r \in D : ~GoLeft(r) /\ ~GoRight(r)}
             next == [r \in D |-> AddRight(AddLeft(r))]
             go == CHOOSE f : f = [r \in Spreading |->
                       IF ~GoLeft(r) /\ ~GoRight(r) THEN r ELSE f[AddRight(AddLeft(r))]]
             m == [r \in D |-> r.left]
             k == [r \in D |-> ToEnd(r)]
             start == Beginning(top)
  <1>1. Spread(top) = go[start]
    BY DEF Spread, Beginning
  <1>2. next \in [D -> D]
    BY AddLeftIs, AddRightIs
  <1>3. \A f : Loop(D, stop, next, f) <=>
           f = [r \in D |-> IF ~GoLeft(r) /\ ~GoRight(r) THEN r ELSE f[AddRight(AddLeft(r))]]
    <2> HIDE DEF D
    <2> QED  BY DEF Loop
  <1>4. Loop(D, stop, next, go)
    <2> HIDE DEF D, stop, next
    <2> QED  BY <1>2, LoopExists, <1>3 DEF D
  <1>5. start \in I
    OBVIOUS
  <1>6. \A r \in I : m[r] \in Nat /\ k[r] \in Nat
    BY SpanIs
  <1>7. ASSUME NEW r \in I, r \notin stop
        PROVE  next[r] \in I /\ (m[next[r]] < m[r] \/ (m[next[r]] = m[r] /\ k[next[r]] < k[r]))
    <2> DEFINE a == AddLeft(r)
               b == AddRight(a)
    <2>0. r \in Spreading
      OBVIOUS
    <2>1. next[r] = b /\ (GoLeft(r) \/ GoRight(r)) /\ b \in I
      BY <1>7
    <2>2. /\ a \in Spreading /\ ToEnd(a) = ToEnd(r)
          /\ a.left <= r.left /\ (GoLeft(r) => a.left < r.left)
      BY <2>0, AddLeftIs
    <2>3. ~GoLeft(r) => a = r
      BY DEF AddLeft
    <2> HIDE DEF a
    <2>4. b \in Spreading /\ b.left = a.left /\ (GoRight(a) => ToEnd(b) < ToEnd(a))
      BY <2>2, AddRightIs
    <2> HIDE DEF b
    <2>5. m[b] = b.left /\ m[r] = r.left /\ k[b] = ToEnd(b) /\ k[r] = ToEnd(r)
      BY <2>0, <2>4
    <2> HIDE DEF D, m, k, next, stop
    <2>6. CASE GoLeft(r)
      BY <2>1, <2>2, <2>4, <2>5, <2>6 DEF D
    <2>7. CASE ~GoLeft(r)
      BY <2>1, <2>3, <2>4, <2>5, <2>7 DEF D
    <2> QED  BY <2>6, <2>7
  <1>8. I \subseteq D
    OBVIOUS
  <1> HIDE DEF D, next, m, k, go, start
  <1>9. go[start] \in I /\ go[start] \in stop
    <2> HIDE DEF stop
    <2> QED  BY <1>4, <1>5, <1>6, <1>7, <1>8, LoopEndsToo
  <1> QED  BY <1>1, <1>9

LEMMA SpreadIs ==
  ASSUME Parsed(doc), Linked, NEW top \in Ids, top # 0
  PROVE  Spread(top) \in Spreading
  <1> DEFINE I == Spreading
  <1>1. Beginning(top) \in I
    BY BeginningIs
  <1>2. \A r \in I : AddRight(AddLeft(r)) \in I
    BY AddLeftIs, AddRightIs
  <1> QED  BY <1>1, <1>2, SpreadKeeps

LEMMA ReadyIs ==
  ASSUME Parsed(doc), Linked, NEW h \in Ids, h # 0
  PROVE  Ready(h) \in Seq(Items)
  <1> DEFINE top == Climb(h)
             p == link[top]["parent"]
             r == Spread(top)
  <1>1. top \in Ids /\ top # 0
    BY ClimbIs
  <1> HIDE DEF top
  <1>2. Ids \subseteq Items /\ \A n \in Ids : -n \in Items
    BY NodeIs, IdsAreItems DEF Ids, Items
  <1>3. p \in Ids
    BY <1>1, ChunksAre DEF Linked, LinkType
  <1>4. r.list \in Seq(Items)
    <2>1. r.list \in Seq(Ids)
      BY <1>1, SpreadIs DEF Spreading
    <2> HIDE DEF r
    <2> QED  BY <1>2, <2>1, SeqMonotonic
  <1> HIDE DEF r, p
  <1>5. Heading(p, r) \in Seq(Items)
    BY <1>2, <1>3 DEF Heading
  <1>6. Heading(p, r) \o r.list \in Seq(Items)
    BY <1>4, <1>5, ConcatProperties
  <1>7. <<top>> \in Seq(Items)
    BY <1>1, <1>2
  <1>8. Ready(h) = <<top>> \/ Ready(h) = Heading(p, r) \o r.list
    BY DEF Ready, ReadyAt, Neighbourhood, top, p, r
  <1> QED  BY <1>6, <1>7, <1>8

(* The three ways in which a hit is completed give what is new.             *)
LEMMA MoreInfoIs ==
  ASSUME Parsed(doc), Linked, NEW S, Rows(S), NEW h \in Ids, h \notin S
  PROVE  /\ Shown(S, MoreInfo(h, S))
         /\ \A m \in MoreInfo(h, S).seen \ S : Cells(m) \/ m = h
  <1> DEFINE given == IF Cells(h) THEN Table(h, S) ELSE Res(<<h>>, S)
             none == Res(<<>>, given.seen)
             all == Res(given.text, given.seen \cup {h})
             r == MoreInfo(h, S)
             w == given.seen \cup {h}
  <1>1. r = none \/ r = all
    BY DEF MoreInfo
  <1>2. /\ none.text = <<>> /\ none.seen = given.seen
        /\ all.text = given.text /\ all.seen = w
    BY DEF Res
  <1>3. /\ S \subseteq given.seen /\ Rows(given.seen) /\ Rows(w) /\ FreshIn(given.text, S, w)
        /\ \A m \in w \ S : Cells(m) \/ m = h
    <2>1. CASE Cells(h)
      <3>1. given = Table(h, S)
        BY <2>1
      <3>2. Grew(S, given) /\ h \in given.seen
        BY <2>1, <3>1, TableIs
      <3> HIDE DEF given
      <3>3. w = given.seen
        BY <3>2
      <3>4. FreshIn(given.text, S, given.seen) /\ S \subseteq given.seen
        BY <3>2 DEF Grew, FreshIn
      <3> HIDE DEF w
      <3> QED  BY <3>2, <3>3, <3>4 DEF Grew
    <2>2. CASE ~Cells(h)
      <3>1. given = Res(<<h>>, S)
        BY <2>2
      <3>2. given.text = <<h>> /\ given.seen = S
        BY <3>1 DEF Res
      <3> HIDE DEF given
      <3>3. w = S \cup {h} /\ h \in w \ S /\ S \subseteq w /\ h \in Items
        BY <3>2, IdsAreItems
      <3> HIDE DEF w
      <3>4. FreshIn(<<h>>, S, w)
        BY <3>3, FreshOne
      <3>5. Rows(w)
        BY <2>2, <3>3 DEF Rows
      <3> QED  BY <3>2, <3>3, <3>4, <3>5
    <2> QED  BY <2>1, <2>2
  <1> HIDE DEF given
  <1>4. CASE r = none
    <2>1. <<>> \in Seq(Items) /\ \A i \in 1..Len(<<>>) : ~Once(<<>>[i])
      OBVIOUS
    <2>2. FreshIn(<<>>, S, given.seen)
      BY <1>3, <2>1, FreshNone
    <2>3. r.text = <<>> /\ r.seen = given.seen
      BY <1>2, <1>4
    <2> HIDE DEF r, none, all
    <2>4. Shown(S, r)
      BY <1>3, <2>2, <2>3 DEF Shown
    <2> QED  BY <1>3, <2>3, <2>4 DEF r
  <1>5. CASE r = all
    <2> HIDE DEF r, none, all, w
    <2> QED  BY <1>2, <1>5, <1>3 DEF Shown, r
  <1> QED  BY <1>1, <1>4, <1>5

LEMMA ContextOfIs ==
  ASSUME Parsed(doc), kept \subseteq DOMAIN doc, NEW n
  PROVE  ContextOf(n) # 0 => /\ ContextOf(n) \in kept \ Chunks /\ ContextOf(n) \in Ids
                             /\ IsContext(ContextOf(n)) /\ doc[n].context = doc[ContextOf(n)].context
                             /\ ~failed /\ ~IsMock(n)
  <1> DEFINE S == {c \in kept : /\ ~failed /\ ~IsMock(n) /\ IsContext(c)
                                /\ doc[n].context = doc[c].context}
  <1>1. Len(doc) \in Nat /\ S \in SUBSET (1..Len(doc)) /\ ContextOf(n) = LastOf(S)
    BY NodeIs DEF ContextOf
  <1> HIDE DEF S
  <1>2. ContextOf(n) # 0 => ContextOf(n) \in S
    BY <1>1, LastIs
  <1>3. \A c \in S : c \in kept \ Chunks /\ c \in Ids
    BY NodeIs DEF S, IsContext, Chunks
  <1> QED  BY <1>2, <1>3 DEF S

LEMMA JoinIs ==
  ASSUME Parsed(doc), kept \subseteq DOMAIN doc, NEW r \in Merging, NEW rest \in Seq(Items),
         NEW n, NEW shown, shown.text \in Seq(Items), shown.seen \subseteq Ids
  PROVE  LET s == Join(r, rest, ContextOf(n), shown) IN
         /\ s \in Merging /\ s.todo = rest
         /\ \A S : Shown(S, r) /\ Shown(r.seen, shown) => Shown(S, s)
  <1> DEFINE c == ContextOf(n)
             told == shown.text # <<>> /\ c # 0
             h == IF told THEN <<c>> ELSE <<>>
             s == Join(r, rest, c, shown)
             more == IF told THEN Own(c) ELSE 0
             q == r.text \o h
             text == q \o shown.text
  <1>1. s = [todo |-> rest, text |-> text, seen |-> shown.seen, more |-> more]
    BY DEF Join
  <1>2. c # 0 => c \in Ids /\ c \in Items /\ ~Once(c) /\ Own(c) \in Int
    <2> HIDE DEF c
    <2> QED  BY ContextOfIs, IdsAreItems, NodeTokenIs DEF c, Once
  <1> HIDE DEF c
  <1>3. h \in Seq(Items) /\ more \in Int /\ \A i \in 1..Len(h) : ~Once(h[i])
    <2>1. CASE told
      <3>1. h = <<c>> /\ more = Own(c) /\ c \in Items /\ ~Once(c) /\ more \in Int
        BY <1>2, <2>1
      <3>2. <<c>> \in Seq(Items) /\ Len(<<c>>) = 1 /\ <<c>>[1] = c /\ \A i \in 1..1 : i = 1
        BY <3>1
      <3> HIDE DEF h, more
      <3> QED  BY <3>1, <3>2
    <2>2. CASE ~told
      <3>1. h = <<>> /\ more = 0
        BY <2>2
      <3> HIDE DEF h, more
      <3> QED  BY <3>1
    <2> QED  BY <2>1, <2>2
  <1> HIDE DEF h, more
  <1>4. r.text \in Seq(Items)
    BY DEF Merging
  <1>5. q \in Seq(Items)
    BY <1>3, <1>4, ConcatProperties
  <1> HIDE DEF q
  <1>6. text \in Seq(Items)
    BY <1>5, ConcatProperties
  <1> HIDE DEF text, s
  <1>7. s \in Merging /\ s.todo = rest /\ s.text = text /\ s.seen = shown.seen
    BY <1>1, <1>3, <1>6 DEF Merging
  <1>8. ASSUME NEW S, Shown(S, r), Shown(r.seen, shown) PROVE Shown(S, s)
    <2>1. FreshIn(r.text, S, r.seen) /\ FreshIn(shown.text, r.seen, shown.seen) /\ Rows(shown.seen)
      BY <1>8 DEF Shown
    <2>2. FreshIn(h, r.seen, r.seen)
      BY <1>3, FreshNone
    <2>3. FreshIn(q, S, r.seen)
      BY <2>1, <2>2, FreshBoth DEF q
    <2>4. FreshIn(text, S, shown.seen)
      BY <2>1, <2>3, FreshBoth DEF text
    <2> QED  BY <1>7, <2>1, <2>4 DEF Shown
  <1> QED  BY <1>7, <1>8 DEF s, c

LEMMA MergeNextIs ==
  ASSUME Parsed(doc), Linked, kept \subseteq DOMAIN doc, NEW r \in Merging, r.todo # <<>>
  PROVE  LET s == MergeNext(r) IN
         /\ s \in Merging /\ Len(s.todo) < Len(r.todo)
         /\ \A S : Shown(S, r) => Shown(S, s)
  <1> DEFINE c == ContextOf(Head(r.todo))
             group == {n \in Range(r.todo) : ContextOf(n) = c}
             rest == Only(r.todo, Items \ group)
             shown == ShowAll(InOrder(group), r.seen)
             s == MergeNext(r)
  <1>1. r.todo \in Seq(Items) /\ r.text \in Seq(Items) /\ r.seen \in SUBSET Ids /\ r.more \in Int
    BY DEF Merging
  <1>2. Head(r.todo) = r.todo[1] /\ 1 \in 1..Len(r.todo)
    BY <1>1, TailIs
  <1>3. Range(r.todo) = {r.todo[i] : i \in 1..Len(r.todo)} /\ Range(r.todo) \subseteq Items
    BY <1>1, RangeEquality, RangeOfSeq
  <1>4. r.todo[1] \in group /\ group \in SUBSET Items
    BY <1>2, <1>3
  <1>5. /\ s = (IF \A n \in group : n < 0 THEN [r EXCEPT !.todo = rest] ELSE Join(r, rest, c, shown))
    BY DEF MergeNext
  <1> HIDE DEF group, c
  <1>6. rest \in Seq(Items) /\ Len(rest) < Len(r.todo)
    BY <1>2, <1>4, <1>1, OnlyIs
  <1> HIDE DEF rest
  <1>7. InOrder(group) \in Seq(Items)
    BY <1>4, InOrderIs, SeqMonotonic
  <1>8. /\ shown.text \in Seq(Items) /\ shown.seen \subseteq Ids
        /\ Rows(r.seen) => Shown(r.seen, shown)
    <2>1. shown.text \in Seq(Items) /\ shown.seen \subseteq Ids
      <3>1. FALSE \in BOOLEAN
        OBVIOUS
      <3> QED  BY ZenonT(30), <1>1, <1>7, <3>1, ShowAllIs
    <2>2. ASSUME Rows(r.seen) PROVE Shown(r.seen, shown)
      BY <1>1, <1>7, <2>2, ShowAllIs
    <2> QED  BY <2>1, <2>2
  <1> HIDE DEF shown, s
  <1>9. CASE \A n \in group : n < 0
    <2>1. s = [todo |-> rest, text |-> r.text, seen |-> r.seen, more |-> r.more]
      BY <1>5, <1>9 DEF Merging
    <2>2. s \in Merging /\ s.todo = rest /\ s.text = r.text /\ s.seen = r.seen
      BY <1>1, <1>6, <2>1 DEF Merging
    <2>3. \A S : Shown(S, r) => Shown(S, s)
      BY <2>2 DEF Shown
    <2> QED  BY <1>6, <2>2, <2>3 DEF s
  <1>10. CASE ~(\A n \in group : n < 0)
    <2>1. s = Join(r, rest, c, shown)
      BY <1>5, <1>10
    <2>2. /\ s \in Merging /\ s.todo = rest
          /\ \A S : Shown(S, r) /\ Shown(r.seen, shown) => Shown(S, s)
      BY <1>6, <1>8, <2>1, JoinIs DEF c
    <2>3. \A S : Shown(S, r) => Shown(S, s)
      BY <1>8, <2>2 DEF Shown
    <2> QED  BY <1>6, <2>2, <2>3 DEF s
  <1> QED  BY <1>9, <1>10

LEMMA MergedIs ==
  ASSUME Parsed(doc), Linked, kept \subseteq DOMAIN doc, NEW h \in Ids, h # 0, NEW S, Rows(S)
  PROVE  Shown(S, Merged(h, S))
  <1> DEFINE D == Merging
             list == IF Size(h) > Budget THEN <<h>> ELSE Ready(h)
             todo == Only(list, Items \ S)
             stop == {r \in D : r.todo = <<>>}
             next == [r \in D |-> IF r.todo = <<>> THEN r ELSE MergeNext(r)]
             go == CHOOSE f : f = [r \in Merging |-> IF r.todo = <<>> THEN r ELSE f[MergeNext(r)]]
             I == {r \in D : Shown(S, r)}
             m == [r \in D |-> Len(r.todo)]
             start == [todo |-> todo, text |-> <<>>, seen |-> S, more |-> 0]
             last == go[start]
  <1>1. Merged(h, S) = last
    BY DEF Merged
  <1>2. next \in [D -> D]
    BY MergeNextIs
  <1>3. \A f : Loop(D, stop, next, f) <=>
           f = [r \in D |-> IF r.todo = <<>> THEN r ELSE f[MergeNext(r)]]
    <2> HIDE DEF D
    <2> QED  BY DEF Loop
  <1>4. Loop(D, stop, next, go)
    <2> HIDE DEF D, stop, next
    <2> QED  BY <1>2, LoopExists, <1>3 DEF D
  <1>5. start \in I
    <2>1. list \in Seq(Items)
      BY IdsAreItems, ReadyIs
    <2> HIDE DEF list
    <2>2. todo \in Seq(Items)
      BY <2>1, OnlyIs
    <2>3. FreshIn(<<>>, S, S) /\ S \subseteq Ids
      BY FreshEmpty DEF Rows
    <2> HIDE DEF todo
    <2>4. start \in D /\ start.text = <<>> /\ start.seen = S
      BY <2>2, <2>3, EmptySeq DEF Merging
    <2> HIDE DEF start, D
    <2>5. Shown(S, start)
      BY <2>3, <2>4 DEF Shown
    <2> QED  BY <2>4, <2>5
  <1>6. \A r \in D : Len(r.todo) \in Nat
    <2> HIDE DEF D
    <2> QED  BY LenProperties DEF Merging
  <1>7. ASSUME NEW r \in I, r \notin stop
        PROVE  next[r] \in I /\ m[next[r]] < m[r]
    <2> DEFINE s == next[r]
    <2>1. r \in D /\ r.todo # <<>> /\ Shown(S, r) /\ s = MergeNext(r)
      BY <1>7
    <2>2. s \in D /\ Len(s.todo) < Len(r.todo) /\ Shown(S, s)
      BY <2>1, MergeNextIs
    <2> HIDE DEF s, D
    <2> QED  BY <2>1, <2>2 DEF s
  <1>8. I \subseteq D /\ \A r \in I : m[r] \in Nat
    BY <1>6
  <1> HIDE DEF D, stop, next, I, m, go, start
  <1>9. last \in I
    BY <1>4, <1>5, <1>7, <1>8, LoopEnds
  <1> QED  BY <1>1, <1>9 DEF I

LEMMA NoneShown == ASSUME NEW S, Rows(S) PROVE Shown(S, Res(<<>>, S)) /\ Res(<<>>, S).seen = S
  <1> DEFINE r == Res(<<>>, S)
  <1>1. r.text = <<>> /\ r.seen = S
    BY DEF Res
  <1> HIDE DEF r
  <1>2. Shown(S, r) /\ r.seen = S
    BY <1>1, FreshEmpty DEF Shown
  <1> QED  BY <1>2 DEF r

LEMMA MostCompleteIs ==
  ASSUME Parsed(doc), Linked, NEW h \in Ids, h # 0, ~IsContext(h), NEW S, Rows(S)
  PROVE  Shown(S, MostComplete(h, S))
  <1> DEFINE list == IF Size(h) > Budget THEN <<h>> ELSE Ready(h)
             r == MostComplete(h, S)
  <1>1. r = (IF h \in S THEN Res(<<>>, S) ELSE IF Size(h) < 0 THEN MoreInfo(h, S) ELSE ShowAll(list, S))
    BY DEF MostComplete
  <1>2. list \in Seq(Items)
    BY IdsAreItems, ReadyIs
  <1>3. TRUE \in BOOLEAN /\ S \in SUBSET Ids
    BY DEF Rows
  <1> HIDE DEF list, r
  <1>4. Shown(S, ShowAll(list, S))
    BY <1>2, <1>3, ShowAllIs
  <1>5. h \notin S => Shown(S, MoreInfo(h, S))
    BY MoreInfoIs
  <1>6. Shown(S, Res(<<>>, S))
    BY NoneShown
  <1> QED  BY <1>1, <1>4, <1>5, <1>6 DEF r

-----------------------------------------------------------------------------
(* The rebuild links nodes as Linked says.                                  *)
SameFile == doc' = doc /\ kept' = kept /\ link' = link /\ kids' = kids /\ failed' = failed

LEMMA SameRows ==
  ASSUME SameFile
  PROVE  /\ \A n : /\ Row(n)' = Row(n) /\ (IsTable(n)' <=> IsTable(n)) /\ (Cells(n)' <=> Cells(n))
                   /\ (Once(n)' <=> Once(n)) /\ Group(n)' = Group(n)
                   /\ (IsContext(n)' <=> IsContext(n))
         /\ Ids' = Ids /\ Items' = Items /\ Chunks' = Chunks /\ (Linked => Linked')
  <1>1. /\ doc' = doc /\ kept' = kept /\ link' = link /\ kids' = kids /\ failed' = failed
        /\ Ids' = Ids /\ Chunks' = Chunks /\ Structure' = Structure
        /\ \A m, key : Dom(m, key)' = Dom(m, key)
        /\ \A key, a, b : Beyond(key, a, b)' <=> Beyond(key, a, b)
    BY DomSame DEF SameFile
  <1>2. \A n, key : Chain(n, key)' = Chain(n, key)
    BY DEF SameFile, Chain, Ids
  <1>3. \A n : Row(n)' = Row(n)
    BY <1>2 DEF Row
  <1>4. \A n : IsTable(n)' <=> IsTable(n)
    BY <1>1 DEF IsTable, Stored
  <1>5. \A n : (Cells(n)' <=> Cells(n)) /\ (IsContext(n)' <=> IsContext(n)) /\ (IsMock(n)' <=> IsMock(n))
    BY <1>1, <1>4 DEF Cells, IsMock, IsContext
  <1>6. \A n : InHeader(n)' <=> InHeader(n)
    BY <1>1, <1>3, <1>5 DEF InHeader
  <1>7. \A n : Once(n)' <=> Once(n)
    BY <1>1, <1>6 DEF Once
  <1>8. \A n : ContextOf(n)' = ContextOf(n)
    BY <1>1, <1>5 DEF ContextOf
  <1>9. \A n : Group(n)' = Group(n)
    BY <1>1, <1>8 DEF Group
  <1>10. Items' = Items
    BY <1>1 DEF Items
  <1>11. \A n : Height(n)' = Height(n)
    BY <1>1 DEF Height
  <1>12. Linked => Linked'
    BY <1>1, <1>4, <1>11 DEF Linked, LinkType
  <1> QED  BY <1>1, <1>3, <1>4, <1>5, <1>7, <1>9, <1>10, <1>12

LEMMA NeighbourIs ==
  ASSUME Parsed(doc), NEW n \in Chunks, NEW key \in SameLevel, Dom(n, key) # 0
  PROVE  /\ Dom(n, key) \in Chunks /\ doc[Dom(n, key)].under = doc[n].under
         /\ key = "left" => Dom(Dom(n, key), "right") = n
         /\ key = "right" => Dom(Dom(n, key), "left") = n
         /\ key \in SideKeys => IsTable(Dom(n, key))
  <1> DEFINE b == Dom(n, key)
  <1>1. /\ n \in DOMAIN doc /\ b \in Chunks /\ b \in DOMAIN doc /\ n # 0
        /\ Len(doc) \in Nat /\ DOMAIN doc = 1..Len(doc)
        /\ \A m \in DOMAIN doc : doc[m].row \in Nat /\ doc[m].col \in Nat
    BY KeysAre, NodeIs, DomIs DEF SameLevel, Chunks
  <1>2. CASE key \in {"previous", "next"}
    <2>1. b = LastOf({m \in Line(n) : m < n}) \/ b = FirstOf({m \in Line(n) : m > n})
      BY <1>2 DEF Dom
    <2>2. Line(n) \in SUBSET (1..Len(doc))
      BY <1>1 DEF Line
    <2>3. b \in Line(n)
      BY <1>1, <2>1, <2>2, LastIs, FirstIs
    <2>4. doc[b].under = doc[n].under
      BY <2>3 DEF Line
    <2> QED  BY <1>1, <1>2, <2>4 DEF SideKeys
  <1>3. ASSUME NEW down \in Int, NEW right \in Int, Dom(n, key) = Cell(n, down, right),
               NEW up \in Int, NEW left \in Int, up + down = 0, left + right = 0
        PROVE  /\ doc[b].under = doc[n].under /\ Cell(b, up, left) = n
    <2>1. /\ doc[n].kind = "cell" /\ doc[b].kind = "cell" /\ doc[b].table = doc[n].table
          /\ doc[b].row = doc[n].row + down /\ doc[b].col = doc[n].col + right
      BY <1>1, <1>3, CellIs
    <2>2. doc[b].under = doc[n].under
      BY <1>1, <2>1 DEF Parsed
    <2>3. /\ doc[n].row \in Int /\ doc[n].col \in Int
      BY <1>1
    <2> HIDE DEF b
    <2>4. doc[n].row = doc[b].row + up /\ doc[n].col = doc[b].col + left
      <3>1. \A x \in Int : x = (x + down) + up /\ x = (x + right) + left
        BY <1>3
      <3> QED  BY <2>1, <2>3, <3>1
    <2>5. /\ b \in DOMAIN doc /\ n \in DOMAIN doc
          /\ doc[b].kind = "cell" /\ doc[n].kind = "cell" /\ doc[n].table = doc[b].table
      BY <1>1, <2>1
    <2>6. \A m \in DOMAIN doc :
              /\ doc[b].kind = "cell" /\ doc[m].kind = "cell" /\ doc[m].table = doc[b].table
              /\ doc[m].row = doc[b].row + up /\ doc[m].col = doc[b].col + left
              => Cell(b, up, left) = m
      BY <1>3, <2>5, CellIs
    <2>7. Cell(b, up, left) = n
      BY <2>4, <2>5, <2>6
    <2> QED  BY <2>2, <2>7
  <1>4. ASSUME NEW back \in SideKeys, Dom(b, back) = n PROVE IsTable(b)
    BY <1>1, <1>4, KeysAre DEF Stored, SideKeys, IsTable
  <1>5. /\ 0 \in Int /\ 1 \in Int /\ -1 \in Int /\ 0 + 0 = 0 /\ 1 + (-1) = 0 /\ -1 + 1 = 0
    OBVIOUS
  <1>6. CASE key = "up"
    <2>1. Dom(n, key) = Cell(n, -1, 0)
      BY <1>6 DEF Dom
    <2>2. doc[b].under = doc[n].under /\ Cell(b, 1, 0) = n
      BY <1>3, <1>5, <2>1
    <2> HIDE DEF b
    <2>3. Dom(b, "down") = n
      BY <2>2 DEF Dom
    <2> QED  BY <1>1, <1>4, <1>6, <2>2, <2>3 DEF SideKeys, b
  <1>7. CASE key = "down"
    <2>1. Dom(n, key) = Cell(n, 1, 0)
      BY <1>7 DEF Dom
    <2>2. doc[b].under = doc[n].under /\ Cell(b, -1, 0) = n
      BY <1>3, <1>5, <2>1
    <2> HIDE DEF b
    <2>3. Dom(b, "up") = n
      BY <2>2 DEF Dom
    <2> QED  BY <1>1, <1>4, <1>7, <2>2, <2>3 DEF SideKeys, b
  <1>8. CASE key = "left"
    <2>1. Dom(n, key) = Cell(n, 0, -1)
      BY <1>8 DEF Dom
    <2>2. doc[b].under = doc[n].under /\ Cell(b, 0, 1) = n
      BY <1>3, <1>5, <2>1
    <2> HIDE DEF b
    <2>3. Dom(b, "right") = n
      BY <2>2 DEF Dom
    <2> QED  BY <1>1, <1>4, <1>8, <2>2, <2>3 DEF SideKeys, b
  <1>9. CASE key = "right"
    <2>1. Dom(n, key) = Cell(n, 0, 1)
      BY <1>9 DEF Dom
    <2>2. doc[b].under = doc[n].under /\ Cell(b, 0, -1) = n
      BY <1>3, <1>5, <2>1
    <2> HIDE DEF b
    <2>3. Dom(b, "left") = n
      BY <2>2 DEF Dom
    <2> QED  BY <1>1, <1>4, <1>9, <2>2, <2>3 DEF SideKeys, b
  <1> QED  BY <1>2, <1>6, <1>7, <1>8, <1>9 DEF SameLevel

(* The children of a section stand in it.                                   *)
Children == \A s \in Ids : \A n \in kids[s] : s \in Structure /\ n \in Structure /\ doc[n].under = s

LEMMA LevelIs ==
  ASSUME Parsed(doc), LinkType, kept \subseteq DOMAIN doc, NEW s \in Structure,
         \A n \in Structure : Faithful(n), link[s]["head_child"] # 0, ~Dangles(s, "head_child")
  PROVE  /\ Level(HeadChild(s)) \subseteq Ids
         /\ \A n \in Level(HeadChild(s)) : n \in Structure /\ doc[n].under = s
  <1> DEFINE C == {n \in Structure : doc[n].under = s}
             h == HeadChild(s)
             next == [m \in Ids |-> {link[m][key] : key \in SameLevel} \ {0}]
  <1>1. /\ Structure \subseteq Chunks /\ Chunks \subseteq Ids /\ Len(doc) \in Nat
        /\ DOMAIN doc = 1..Len(doc) /\ s \in Chunks
    BY NodeIs DEF Structure, Chunks
  <1>2. "head_child" \in Range(Keys) /\ SameLevel \subseteq Range(Keys)
    BY KeysAre DEF SameLevel
  <1>3. h \in C
    <2>1. Dom(s, "head_child") = h /\ link[s]["head_child"] = h
      BY <1>2 DEF Faithful, Dom
    <2>2. h \in Chunks /\ h \in kept
      BY <2>1, <1>1, <1>2, DomIs DEF Dangles
    <2>3. doc[h].under = s
      <3> DEFINE S == {m \in DOMAIN doc : doc[m].under = s}
      <3>1. h = FirstOf(S) /\ S \in SUBSET (1..Len(doc)) /\ h # 0
        BY <1>1, <2>1 DEF HeadChild
      <3> HIDE DEF S
      <3>2. h \in S
        BY <1>1, <3>1, FirstIs
      <3> QED  BY <3>2 DEF S
    <2> HIDE DEF h
    <2> QED  BY <2>2, <2>3 DEF Structure, Chunks
  <1>4. ASSUME NEW m \in C PROVE m \in Ids /\ next[m] \subseteq C
    <2>0. m \in Structure /\ m \in Chunks /\ m \in Ids /\ doc[m].under = s
      BY <1>1
    <2> SUFFICES ASSUME NEW key \in SameLevel, link[m][key] # 0 PROVE link[m][key] \in C
      BY <2>0
    <2>1. link[m][key] = Dom(m, key) /\ Dom(m, key) \in kept /\ Dom(m, key) # 0
      BY <1>2, <2>0 DEF Faithful, Dangles
    <2>2. Dom(m, key) \in Chunks /\ doc[Dom(m, key)].under = s
      BY <2>0, <2>1, NeighbourIs
    <2> QED  BY <2>1, <2>2 DEF Structure, Chunks
  <1>5. \A m \in Ids : next[m] \subseteq Ids
    BY <1>2 DEF LinkType
  <1>6. Level(h) = Reached({h}, next) /\ h \in Ids
    BY <1>1, <1>3 DEF Level
  <1> HIDE DEF next, C
  <1>7. {h} \subseteq C /\ \A m \in C : m \in Ids => next[m] \subseteq C
    BY <1>3, <1>4
  <1> HIDE DEF h
  <1>8. Level(h) \subseteq Ids /\ Level(h) \subseteq C
    BY <1>1, <1>5, <1>6, <1>7, ReachedIs
  <1> QED  BY <1>8 DEF C, h

LEMMA LinkedSame ==
  ASSUME doc' = doc, kept' = kept, link' = link, kids' = kids, Linked
  PROVE  Linked'
  BY DomSame DEF IsTable, Stored, Height, Linked, LinkType

(* Nothing is linked.                                                       *)
LEMMA UnlinkedLinked ==
  ASSUME Parsed(doc), doc' = doc, kept' = kept, link' = Unlinked, kids' = [n \in Ids |-> {}]
  PROVE  Linked'
  <1>1. link' \in [Ids -> [Range(Keys) -> Ids]] /\ \A n \in Ids : \A key \in Range(Keys) : link'[n][key] = 0
    BY UnlinkedIs DEF Unlinked
  <1>2. SideKeys \subseteq Range(Keys) /\ "parent" \in Range(Keys)
    BY ChunksAre
  <1>3. "left" \in Range(Keys) /\ "right" \in Range(Keys) /\ Ids' = Ids
    BY <1>2, DomSame DEF SideKeys
  <1> QED  BY <1>1, <1>2, <1>3 DEF Linked, LinkType

Bare(S) == \A n \in Ids \ S : \A key \in Range(Keys) : link[n][key] = 0

LEMMA MockLinks ==
  ASSUME RelInv, MockTables, kids \in [Ids -> SUBSET Ids], Children, Bare(Structure)
  PROVE  Linked'
  <1> DEFINE sections == {n \in Structure : \E c \in kids[n] : IsTable(c)}
             Of(n) == n - Len(doc)
             s(n) == CHOOSE x \in sections : n \in kids[x]
             in(n) == \E x \in sections : n \in kids[x]
  <1>1. /\ LinkType /\ DocOK /\ doc' = doc /\ kept' = kept /\ failed' = failed
        /\ \A n \in Structure : Faithful(n)
    BY DEF RelInv, MockTables, tree
  <1>2. /\ Parsed(doc) /\ Structure \subseteq Chunks /\ Chunks \subseteq Ids
        /\ Len(doc) \in Nat /\ \A n \in Chunks : n \in 1..Len(doc) /\ n \in DOMAIN doc
        /\ \A n \in Chunks : n \in kept => n \in Structure
    BY <1>1, NodeIs DEF DocOK, Structure, Chunks
  <1>3. link' = [n \in Ids |->
                CASE in(n) -> [link[n] EXCEPT !["parent"] = Mock(s(n))]
                  [] Of(n) \in sections -> [link[n] EXCEPT !["parent"] = Of(n)]
                  [] OTHER -> link[n]]
    BY DEF MockTables
  <1>4. kids' = [n \in Ids |-> CASE n \in sections   -> {Mock(n)}
                                 [] Of(n) \in sections -> kids[Of(n)]
                                 [] OTHER -> kids[n]]
    BY DEF MockTables
  <1>5. \A n : in(n) => s(n) \in sections /\ n \in kids[s(n)]
    OBVIOUS
  <1>6. sections \subseteq Structure
    OBVIOUS
  <1> HIDE DEF sections, s, in
  <1>7. \A x \in sections : x \in Ids /\ Mock(x) \in Ids /\ x \in Nat /\ x \in 1..Len(doc)
    BY <1>2, <1>6 DEF Ids, Mock
  <1>8. ASSUME NEW n \in Ids
        PROVE  \/ in(n) /\ link'[n] = [link[n] EXCEPT !["parent"] = Mock(s(n))]
               \/ Of(n) \in sections /\ link'[n] = [link[n] EXCEPT !["parent"] = Of(n)]
               \/ link'[n] = link[n]
    <2>1. CASE in(n)
      BY <1>3, <2>1
    <2>2. CASE ~in(n) /\ Of(n) \in sections
      BY <1>3, <2>2
    <2>3. CASE ~in(n) /\ Of(n) \notin sections
      BY <1>3, <2>3
    <2> QED  BY <2>1, <2>2, <2>3
  <1>9. "parent" \in Range(Keys) /\ SideKeys \subseteq Range(Keys) \ {"parent"}
        /\ SideKeys \subseteq SameLevel /\ "left" \in SideKeys /\ "right" \in SideKeys
    BY KeysAre DEF SideKeys, SameLevel
  <1>10. ASSUME NEW n \in Ids
         PROVE  /\ link'[n] \in [Range(Keys) -> Ids]
                /\ \A key \in Range(Keys) \ {"parent"} : link'[n][key] = link[n][key]
                /\ \/ in(n) /\ link'[n]["parent"] = Mock(s(n))
                   \/ Of(n) \in sections /\ link'[n]["parent"] = Of(n)
                   \/ link'[n]["parent"] = link[n]["parent"]
    <2>1. link[n] \in [Range(Keys) -> Ids]
      BY <1>1 DEF LinkType
    <2>2. CASE in(n) /\ link'[n] = [link[n] EXCEPT !["parent"] = Mock(s(n))]
      BY <1>5, <1>7, <2>2, <1>9, <2>1
    <2>3. CASE Of(n) \in sections /\ link'[n] = [link[n] EXCEPT !["parent"] = Of(n)]
      BY <1>7, <1>9, <2>1, <2>3
    <2>4. CASE link'[n] = link[n]
      BY <2>1, <2>4
    <2> QED  BY <1>8, <2>2, <2>3, <2>4
  <1>11. LinkType'
    BY <1>3, <1>10, <1>1 DEF LinkType, Ids
  <1>12. kids' \in [Ids -> SUBSET Ids]
    <2> SUFFICES ASSUME NEW n \in Ids PROVE kids'[n] \in SUBSET Ids
      BY <1>4
    <2>1. \/ n \in sections /\ kids'[n] = {Mock(n)}
          \/ Of(n) \in sections /\ kids'[n] = kids[Of(n)]
          \/ kids'[n] = kids[n]
      <3>1. CASE n \in sections
        BY <1>4, <3>1
      <3>2. CASE n \notin sections /\ Of(n) \in sections
        BY <1>4, <3>2
      <3>3. CASE n \notin sections /\ Of(n) \notin sections
        BY <1>4, <3>3
      <3> QED  BY <3>1, <3>2, <3>3
    <2> QED  BY <1>7, <2>1
  <1>13. ASSUME NEW n \in Ids, NEW key \in Range(Keys), link[n][key] # 0
         PROVE  /\ n \in Structure /\ link[n][key] = Dom(n, key) /\ Dom(n, key) # 0
                /\ Dom(n, key) \in Structure /\ Beyond(key, n, Dom(n, key))
    <2>1. n \in Structure
      BY <1>13 DEF Bare
    <2>2. link[n][key] = Dom(n, key) /\ Dom(n, key) \in kept /\ Dom(n, key) # 0
      BY <1>1, <1>13, <2>1 DEF Faithful, Dangles
    <2>3. Dom(n, key) \in Chunks /\ Beyond(key, n, Dom(n, key))
      BY <1>2, <2>1, <2>2, DomIs
    <2> QED  BY <1>2, <2>1, <2>2, <2>3
  <1> DEFINE l == link'
  <1>14. ASSUME NEW n \in Ids, NEW key \in Range(Keys) \ {"parent"}, l[n][key] # 0
         PROVE  n \in Chunks /\ l[n][key] \in Chunks /\ Beyond(key, n, l[n][key])
    BY <1>10, <1>14, <1>2, <1>13
  <1>15. ASSUME NEW n \in Ids, NEW key \in SideKeys, l[n][key] # 0
         PROVE  /\ IsTable(l[n][key])
                /\ key = "left" => l[l[n][key]]["right"] = n
                /\ key = "right" => l[l[n][key]]["left"] = n
    <2>1. l[n][key] = link[n][key] /\ link[n][key] # 0 /\ key \in Range(Keys)
      BY <1>9, <1>10, <1>15
    <2>2. /\ n \in Structure /\ l[n][key] = Dom(n, key) /\ Dom(n, key) # 0
          /\ Dom(n, key) \in Structure
      BY <1>13, <2>1
    <2> DEFINE b == Dom(n, key)
    <2> HIDE DEF l
    <2>3. /\ key = "left" => Dom(b, "right") = n
          /\ key = "right" => Dom(b, "left") = n
          /\ IsTable(b)
      BY <1>2, <1>9, <2>2, NeighbourIs
    <2>4. b \in Structure /\ b \in Ids /\ n \in kept
      BY <1>2, <2>2 DEF Structure
    <2> HIDE DEF b
    <2>5. ASSUME NEW back \in {"left", "right"}, Dom(b, back) = n PROVE l[b][back] = n
      <3>1. back \in Range(Keys) \ {"parent"}
        BY <1>9
      <3>2. link[b][back] = n
        BY <1>1, <2>4, <2>5, <3>1 DEF Faithful, Dangles
      <3> QED  BY <1>10, <2>4, <3>1, <3>2 DEF l
    <2> QED  BY <2>2, <2>3, <2>5 DEF b
  <1>16. ASSUME NEW n \in Ids, l[n]["parent"] # 0
         PROVE  Height(l[n]["parent"]) < Height(n)
    <2> HIDE DEF l
    <2>1. CASE in(n) /\ l[n]["parent"] = Mock(s(n))
      <3> DEFINE x == s(n)
      <3>1. x \in sections /\ n \in kids[x]
        BY <1>5, <2>1
      <3>2. n \in Structure /\ doc[n].under = x
        BY <1>7, <3>1 DEF Children
      <3>3. n \in 1..Len(doc) /\ n \in DOMAIN doc /\ x \in 1..Len(doc)
        BY <1>2, <1>7, <3>1, <3>2
      <3>4. doc[n].under \in 0..n - 1
        BY <1>2, <3>3 DEF Parsed
      <3> HIDE DEF x
      <3>5. x < n
        BY <1>2, <3>2, <3>3, <3>4
      <3>6. Height(n) = 2 * n /\ Height(Mock(x)) = 2 * x + 1
        BY <1>2, <3>3 DEF Height, Mock
      <3>7. 2 * x + 1 < 2 * n
        BY <3>3, <3>5
      <3> QED  BY <2>1, <3>6, <3>7 DEF x
    <2>2. CASE Of(n) \in sections /\ l[n]["parent"] = Of(n)
      <3> DEFINE x == n - Len(doc)
      <3>1. x \in 1..Len(doc) /\ l[n]["parent"] = x
        BY <1>7, <2>2
      <3>2. n \in Int
        BY <1>2 DEF Ids
      <3> HIDE DEF x
      <3>3. n = Len(doc) + x
        BY <1>2, <3>2 DEF x
      <3>4. Height(n) = 2 * x + 1 /\ Height(x) = 2 * x
        BY <1>2, <3>1, <3>3 DEF Height
      <3> QED  BY <3>1, <3>4
    <2>3. CASE l[n]["parent"] = link[n]["parent"]
      <3>1. /\ n \in Structure /\ link[n]["parent"] = Dom(n, "parent")
            /\ Dom(n, "parent") \in Structure /\ Beyond("parent", n, Dom(n, "parent"))
        BY <1>9, <1>13, <1>16, <2>3
      <3>2. Dom(n, "parent") < n
        BY <3>1 DEF Beyond
      <3>3. n \in 1..Len(doc) /\ Dom(n, "parent") \in 1..Len(doc)
        BY <1>2, <3>1
      <3> DEFINE y == Dom(n, "parent")
      <3> HIDE DEF y
      <3>4. Height(y) = 2 * y /\ Height(n) = 2 * n /\ 2 * y < 2 * n
        BY <1>2, <3>2, <3>3 DEF Height, y
      <3> QED  BY <2>3, <3>1, <3>4 DEF y
    <2> QED  BY <1>10, <2>1, <2>2, <2>3 DEF l
  <1>17. /\ Ids' = Ids /\ Chunks' = Chunks /\ \A n : (IsTable(n)' <=> IsTable(n)) /\ Height(n)' = Height(n)
         /\ \A key, a, b : Beyond(key, a, b)' <=> Beyond(key, a, b)
    BY <1>1, DomSame DEF IsTable, Stored, Height
  <1>18. \A n \in Ids : /\ l[n]["left"] # 0 => l[l[n]["left"]]["right"] = n
                        /\ l[n]["right"] # 0 => l[l[n]["right"]]["left"] = n
    BY <1>9, <1>15
  <1>19. \A n \in Ids : \A key \in SideKeys : l[n][key] # 0 => IsTable(l[n][key])
    BY <1>15
  <1> QED  BY <1>11, <1>12, <1>14, <1>16, <1>17, <1>18, <1>19 DEF Linked

(* A context that is saved changes nothing else of the document.            *)
LEMMA SaveChanges ==
  ASSUME RelInv, SaveContext
  PROVE  /\ DOMAIN doc' = DOMAIN doc /\ Len(doc') = Len(doc)
         /\ \A n \in DOMAIN doc :
               /\ doc'[n].under = doc[n].under /\ doc'[n].kind = doc[n].kind
               /\ doc'[n].table = doc[n].table /\ doc'[n].row = doc[n].row
               /\ doc'[n].col = doc[n].col /\ doc'[n].sized = doc[n].sized
         /\ Parsed(doc) /\ Parsed(doc') /\ link' = link /\ kids' = kids /\ pc = "recall" /\ pc' = "recall"
         /\ failed' = failed /\ completing' = completing
  <1>1. Parsed(doc) /\ Parsed(doc') /\ saved \in Nat /\ link' = link /\ kids' = kids
        /\ failed' = failed /\ completing' = completing /\ pc = "recall" /\ pc' = "recall"
    BY SaveStep DEF RelInv, DocOK, SaveContext, relations
  <1>2. \A n \in DOMAIN doc : doc'[n] = doc[n] \/ doc'[n] = [doc[n] EXCEPT !.context = saved + 1]
    BY DEF SaveContext
  <1>3. DOMAIN doc' = DOMAIN doc
    BY DEF SaveContext
  <1>4. \A n \in DOMAIN doc : doc[n] \in Node
    BY <1>1, NodeIs
  <1>5. \A n \in DOMAIN doc :
               /\ doc'[n].under = doc[n].under /\ doc'[n].kind = doc[n].kind
               /\ doc'[n].table = doc[n].table /\ doc'[n].row = doc[n].row
               /\ doc'[n].col = doc[n].col /\ doc'[n].sized = doc[n].sized
    <2> SUFFICES ASSUME NEW n \in DOMAIN doc
                 PROVE  /\ doc'[n].under = doc[n].under /\ doc'[n].kind = doc[n].kind
                        /\ doc'[n].table = doc[n].table /\ doc'[n].row = doc[n].row
                        /\ doc'[n].col = doc[n].col /\ doc'[n].sized = doc[n].sized
      OBVIOUS
    <2> DEFINE d == doc[n]
               e == doc'[n]
    <2>1. d \in Node /\ (e = d \/ e = [d EXCEPT !.context = saved + 1])
      BY <1>2, <1>4
    <2> HIDE DEF d, e
    <2>2. /\ e.under = d.under /\ e.kind = d.kind /\ e.table = d.table /\ e.row = d.row
          /\ e.col = d.col /\ e.sized = d.sized
      BY <2>1 DEF Node
    <2> QED  BY <2>2 DEF d, e
  <1>6. Len(doc') = Len(doc)
    BY <1>1, <1>3, SameUpTo, LenProperties DEF Parsed
  <1> QED  BY <1>1, <1>3, <1>5, <1>6

LEMMA SaveLinked ==
  ASSUME RelInv, SaveContext, Linked
  PROVE  Linked'
  <1>1. /\ DOMAIN doc' = DOMAIN doc /\ Len(doc') = Len(doc) /\ link' = link /\ kids' = kids
        /\ \A n \in DOMAIN doc :
               /\ doc'[n].kind = doc[n].kind
               /\ doc'[n].table = doc[n].table /\ doc'[n].row = doc[n].row
               /\ doc'[n].col = doc[n].col
        /\ Parsed(doc)
    BY SaveChanges
  <1>2. /\ Ids' = Ids /\ Chunks' = Chunks /\ \A n : Height(n)' = Height(n)
    BY <1>1 DEF Ids, Chunks, Height
  <1>3. \A n \in DOMAIN doc : \A down, right : Cell(n, down, right)' = Cell(n, down, right)
    BY <1>1 DEF Cell, IsTableCell
  <1>4. \A n \in DOMAIN doc : \A key \in SideKeys : Dom(n, key)' = Dom(n, key)
    <2> SUFFICES ASSUME NEW n \in DOMAIN doc, NEW key \in SideKeys PROVE Dom(n, key)' = Dom(n, key)
      OBVIOUS
    <2>1. CASE key = "up"
      BY <1>3, <2>1 DEF Dom
    <2>2. CASE key = "down"
      BY <1>3, <2>2 DEF Dom
    <2>3. CASE key = "left"
      BY <1>3, <2>3 DEF Dom
    <2>4. CASE key = "right"
      BY <1>3, <2>4 DEF Dom
    <2> QED  BY <2>1, <2>2, <2>3, <2>4 DEF SideKeys
  <1>5. \A n : IsTable(n)' <=> IsTable(n)
    BY <1>1, <1>4 DEF IsTable, Stored, SideKeys
  <1>6. \A key : \A a, b \in Chunks : Beyond(key, a, b)' <=> Beyond(key, a, b)
    BY <1>1 DEF Beyond, Chunks
  <1> QED  BY <1>1, <1>2, <1>5, <1>6 DEF Linked, LinkType

-----------------------------------------------------------------------------
(* The queue: every hit once, those without a token count and the contexts  *)
(* before the others.                                                       *)
Listed(s, X) == s \in Seq(X) /\ \A i, j \in 1..Len(s) : s[i] = s[j] => i = j

LEMMA ListedBoth ==
  ASSUME NEW A, NEW B, NEW a, NEW b, Listed(a, A), Listed(b, B), A \cap B = {}
  PROVE  /\ Listed(a \o b, A \cup B) /\ Len(a \o b) = Len(a) + Len(b)
         /\ Len(a) \in Nat /\ Len(b) \in Nat
         /\ \A i \in 1..Len(a \o b) : (i <= Len(a) /\ (a \o b)[i] \in A) \/ (i > Len(a) /\ (a \o b)[i] \in B)
  <1> DEFINE la == Len(a)
             lb == Len(b)
             s == a \o b
  <1>1. a \in Seq(A) /\ b \in Seq(B) /\ a \in Seq(A \cup B) /\ b \in Seq(A \cup B)
    BY SeqMonotonic DEF Listed
  <1>2. la \in Nat /\ lb \in Nat /\ (\A i \in 1..la : a[i] \in A) /\ (\A i \in 1..lb : b[i] \in B)
    BY <1>1, LenProperties, ElementOfSeq
  <1>3. /\ \A i, j \in 1..la : a[i] = a[j] => i = j
        /\ \A i, j \in 1..lb : b[i] = b[j] => i = j
    BY DEF Listed
  <1>4. /\ s \in Seq(A \cup B) /\ Len(s) = la + lb
        /\ \A i \in 1..la + lb : s[i] = IF i <= la THEN a[i] ELSE b[i - la]
    BY <1>1, ConcatProperties, Zenon
  <1> HIDE DEF la, lb, s
  <1>5. \A i \in 1..la + lb : \/ i \in 1..la /\ s[i] = a[i] /\ s[i] \in A
                              \/ i - la \in 1..lb /\ i > la /\ s[i] = b[i - la] /\ s[i] \in B
    <2> SUFFICES ASSUME NEW i \in 1..la + lb
                 PROVE  \/ i \in 1..la /\ s[i] = a[i] /\ s[i] \in A
                        \/ i - la \in 1..lb /\ i > la /\ s[i] = b[i - la] /\ s[i] \in B
      OBVIOUS
    <2>1. CASE i <= la
      BY <1>2, <1>4, <2>1
    <2>2. CASE ~(i <= la)
      BY <1>2, <1>4, <2>2
    <2> QED  BY <2>1, <2>2
  <1>6. ASSUME NEW i \in 1..la + lb, NEW j \in 1..la + lb, s[i] = s[j] PROVE i = j
    <2>1. CASE i \in 1..la /\ s[i] = a[i] /\ j \in 1..la /\ s[j] = a[j]
      BY <1>3, <1>6, <2>1
    <2>2. CASE i - la \in 1..lb /\ s[i] = b[i - la] /\ j - la \in 1..lb /\ s[j] = b[j - la]
      <3>1. i - la = j - la
        BY <1>3, <1>6, <2>2
      <3> QED  BY <1>2, <3>1
    <2>3. ~(s[i] \in A /\ s[j] \in B) /\ ~(s[i] \in B /\ s[j] \in A)
      BY <1>6
    <2> QED  BY <1>5, <2>1, <2>2, <2>3
  <1>7. Listed(s, A \cup B)
    BY <1>4, <1>6 DEF Listed
  <1>8. \A i \in 1..Len(s) : (i <= la /\ s[i] \in A) \/ (i > la /\ s[i] \in B)
    BY <1>4, <1>5
  <1> QED  BY <1>2, <1>4, <1>7, <1>8 DEF s, la, lb

LEMMA ListedOnly ==
  ASSUME NEW X, NEW list, Listed(list, X), NEW S
  PROVE  /\ Listed(Only(list, S), S \cap X)
         /\ (\E i \in 1..Len(list) : list[i] \in S) => Only(list, S) # <<>>
  <1> DEFINE o == Only(list, S)
  <1>1. list \in Seq(X) /\ \A i, j \in 1..Len(list) : list[i] = list[j] => i = j
    BY DEF Listed
  <1>2. o \in Seq(X) /\ \A i \in 1..Len(o) : o[i] \in S \cap X
    BY <1>1, OnlyIs
  <1>3. PICK p \in [1..Len(o) -> 1..Len(list)] :
              /\ \A i \in 1..Len(o) : o[i] = list[p[i]]
              /\ \A i, j \in 1..Len(o) : i < j => p[i] < p[j]
              /\ \A i \in 1..Len(list) : list[i] \in S => \E j \in 1..Len(o) : p[j] = i
    <2>1. \E p \in [1..Len(Only(list, S)) -> 1..Len(list)] :
              /\ \A i \in 1..Len(Only(list, S)) : Only(list, S)[i] = list[p[i]]
              /\ \A i, j \in 1..Len(Only(list, S)) : i < j => p[i] < p[j]
              /\ \A i \in 1..Len(list) :
                    list[i] \in S => \E j \in 1..Len(Only(list, S)) : p[j] = i
      BY <1>1, OnlyIs
    <2> QED  BY <2>1
  <1> HIDE DEF o
  <1>4. Len(o) \in Nat /\ Len(list) \in Nat
    BY <1>1, <1>2, LenProperties
  <1>5. ASSUME NEW i \in 1..Len(o), NEW j \in 1..Len(o), o[i] = o[j] PROVE i = j
    BY <1>1, <1>3, <1>5, <1>4
  <1>6. o \in Seq(S \cap X)
    BY <1>2, LenProperties, <1>4, SeqDef
  <1>7. ASSUME \E i \in 1..Len(list) : list[i] \in S PROVE o # <<>>
    BY <1>3, <1>7
  <1> QED  BY <1>5, <1>6, <1>7 DEF o, Listed

LEMMA ListedReverse ==
  ASSUME NEW X, NEW s, Listed(s, X)
  PROVE  Listed(Reverse(s), X) /\ Len(Reverse(s)) = Len(s)
  <1> DEFINE l == Len(s)
             t == Reverse(s)
  <1>1. s \in Seq(X) /\ l \in Nat /\ \A i, j \in 1..l : s[i] = s[j] => i = j
    BY LenProperties DEF Listed
  <1>2. t = [i \in 1..l |-> s[l - i + 1]]
    BY <1>1 DEF Reverse
  <1> HIDE DEF l, t
  <1>3. \A i \in 1..l : l - i + 1 \in 1..l /\ t[i] = s[l - i + 1]
    BY <1>1, <1>2
  <1>4. \A i \in 1..l : s[i] \in X
    BY <1>1, ElementOfSeq DEF l
  <1>5. t \in [1..l -> X]
    BY <1>2, <1>3, <1>4
  <1>6. t \in Seq(X)
    BY <1>1, <1>5, SeqDef
  <1>7. Len(t) = l
    BY <1>2, <1>6, LenProperties, <1>1, SameUpTo
  <1>8. ASSUME NEW i \in 1..l, NEW j \in 1..l, t[i] = t[j] PROVE i = j
    BY <1>1, <1>3, <1>8
  <1> QED  BY <1>6, <1>7, <1>8 DEF Listed, t, l

InTurn(q, m) ==
  /\ Listed(q, kept)
  /\ m = "complete" => \A i \in 1..Len(q) : ~IsContext(q[i])
  /\ \A i, j \in 1..Len(q) : i < j /\ IsContext(q[j]) => IsContext(q[i]) \/ ~doc[q[i]].sized

LEMMA QueueIs ==
  ASSUME Parsed(doc), kept \subseteq DOMAIN doc, NEW list, Listed(list, kept), list # <<>>,
         NEW m, m = "complete" => \A i \in 1..Len(list) : ~IsContext(list[i])
  PROVE  InTurn(QueueOf(m, list), m) /\ QueueOf(m, list) # <<>>
  <1> DEFINE told == {n \in Range(list) : IsContext(n)}
             plain == {n \in Range(list) \ told : Size(n) < 0}
             others == Range(list) \ (told \cup plain)
             first == Only(list, plain)
             second == Reverse(Only(list, told))
             third == Only(list, others)
             q == first \o second \o third
  <1>1. list \in Seq(kept) /\ \A n \in kept : n \in DOMAIN doc /\ n \in Ids /\ n # 0
    BY NodeIs DEF Listed
  <1>2. CASE m = "complete"
    BY <1>2 DEF QueueOf, InTurn
  <1>3. CASE m # "complete"
    <2>1. QueueOf(m, list) = q
      BY <1>3 DEF QueueOf
    <2>2. Range(list) = {list[i] : i \in 1..Len(list)} /\ Range(list) \subseteq kept
          /\ 1 \in 1..Len(list)
      BY <1>1, RangeEquality, RangeOfSeq, TailIs
    <2>3. told \cap plain = {} /\ (plain \cup told) \cap others = {}
          /\ Range(list) = plain \cup told \cup others
      OBVIOUS
    <2>4. /\ \A n \in told : IsContext(n)
          /\ \A n \in plain : ~doc[n].sized
          /\ \A n \in others : ~IsContext(n)
      BY <2>2, <1>1, NodeTokenIs
    <2>5. /\ told \subseteq kept /\ plain \subseteq kept /\ others \subseteq kept
      BY <2>2
    <2> HIDE DEF told, plain, others
    <2>6. /\ Listed(first, plain) /\ Listed(Only(list, told), told) /\ Listed(third, others)
      BY <2>5, ListedOnly
    <2>7. Listed(second, told) /\ Len(second) = Len(Only(list, told))
      BY <2>6, ListedReverse
    <2>8. first # <<>> \/ Only(list, told) # <<>> \/ third # <<>>
      BY <2>2, <2>3, ListedOnly
    <2>9. Len(first) > 0 \/ Len(second) > 0 \/ Len(third) > 0
      <3> HIDE DEF first, second, third
      <3> QED  BY FrontIs, <2>6, <2>7, <2>8 DEF Listed
    <2> HIDE DEF first, second, third
    <2>a. plain \cap told = {} /\ Listed(first, plain) /\ Listed(second, told)
      BY <2>3, <2>6, <2>7
    <2>b. Listed(first \o second, plain \cup told)
      BY <2>a, ListedBoth
    <2>c. Len(first \o second) = Len(first) + Len(second)
      BY <2>a, ListedBoth
    <2>d. Len(first) \in Nat /\ Len(second) \in Nat
      BY <2>a, ListedBoth
    <2> DEFINE both == first \o second
    <2>10. /\ Listed(both, plain \cup told) /\ Len(both) = Len(first) + Len(second)
           /\ Len(first) \in Nat /\ Len(second) \in Nat
      BY <2>b, <2>c, <2>d
    <2> HIDE DEF both
    <2>11. /\ Listed(both \o third, plain \cup told \cup others) /\ Len(both \o third) = Len(both) + Len(third)
           /\ Len(both) \in Nat /\ Len(third) \in Nat
           /\ \A i \in 1..Len(both \o third) : \/ (i <= Len(both) /\ (both \o third)[i] \in plain \cup told)
                                               \/ (i > Len(both) /\ (both \o third)[i] \in others)
      BY <2>3, <2>6, <2>10, ListedBoth
    <2> DEFINE s == both \o third
    <2>12. q = s
      BY DEF both
    <2> HIDE DEF s, q
    <2>13. Listed(s, kept)
      BY <2>5, <2>11, SeqMonotonic DEF Listed, s
    <2>14. ASSUME NEW i \in 1..Len(s), NEW j \in 1..Len(s), i < j, IsContext(s[j])
           PROVE  IsContext(s[i]) \/ ~doc[s[i]].sized
      BY <2>4, <2>11, <2>14 DEF s
    <2>15. s # <<>>
      BY <2>9, <2>10, <2>11 DEF s
    <2>16. InTurn(s, m)
      BY <1>3, <2>13, <2>14 DEF InTurn
    <2> QED  BY <2>1, <2>12, <2>15, <2>16
  <1> QED  BY <1>2, <1>3

-----------------------------------------------------------------------------
(* A text that is cut off is the beginning of a text.                       *)
LEMMA LimitedIs ==
  ASSUME NEW text \in Seq(Items), NEW limit
  PROVE  LET t == Limited(text, limit).text IN
         /\ t \in Seq(Items) /\ \A i \in 1..Len(t) : i \in 1..Len(text) /\ t[i] = text[i]
  <1> DEFINE N == Len(text)
             S == {k \in 0..Len(text) : Tokens(SubSeq(text, 1, k)) <= Budget}
             b == Biggest(S)
             t == Limited(text, limit).text
  <1>1. N \in Nat /\ \A i \in 1..N : text[i] \in Items
    BY LenProperties, ElementOfSeq
  <1>2. Tokens(<<>>) = 0
    <2> DEFINE sum == CHOOSE f : f = [k \in 0..Len(<<>>) |->
                          IF k = 0 THEN 0 ELSE f[k - 1] + Own(<<>>[k])]
               z == [k \in 0..0 |-> 0]
    <2>1. Tokens(<<>>) = sum[0] /\ Len(<<>>) = 0
      BY DEF Tokens
    <2>2. z = [k \in 0..0 |-> IF k = 0 THEN 0 ELSE z[k - 1] + Own(<<>>[k])]
      OBVIOUS
    <2>3. sum = [k \in 0..0 |-> IF k = 0 THEN 0 ELSE sum[k - 1] + Own(<<>>[k])]
      <3> HIDE DEF z
      <3> QED  BY <2>2, <2>1
    <2> HIDE DEF sum
    <2>4. sum[0] = 0
      BY <2>3
    <2> QED  BY <2>1, <2>4
  <1>3. 0 \in S
    <2>1. SubSeq(text, 1, 0) = <<>>
      BY SubSeqEmpty
    <2>2. Tokens(SubSeq(text, 1, 0)) <= Budget
      <3>1. Tokens(SubSeq(text, 1, 0)) = 0
        BY <1>2, <2>1, Zenon
      <3> QED  BY <3>1, BudgetAssumption
    <2> QED  BY <1>1, <2>2
  <1>4. b \in 0..N
    <2> DEFINE T == {N - k : k \in S}
    <2>1. T \subseteq Nat /\ T # {}
      <3>1. \A k \in 0..N : N - k \in Nat
        BY <1>1
      <3>2. S \subseteq 0..N
        OBVIOUS
      <3> HIDE DEF S
      <3> QED  BY <1>3, <3>1, <3>2
    <2>2. PICK x \in T : \A y \in T : x <= y
      <3> HIDE DEF T
      <3> QED  BY <2>1, LeastOf
    <2>3. PICK m \in S : x = N - m
      BY <2>2
    <2>4. ASSUME NEW n \in S PROVE m >= n
      <3>1. N - n \in T /\ m \in 0..N /\ n \in 0..N
        OBVIOUS
      <3>2. N - m <= N - n
        BY <2>2, <2>3, <3>1
      <3> QED  BY <1>1, <3>1, <3>2
    <2>5. Biggest(S) \in S
      <3> HIDE DEF S
      <3> QED  BY <2>4 DEF Biggest
    <2> QED  BY <2>5
  <1>5. t = text \/ t = SubSeq(text, 1, b)
    BY DEF Limited
  <1> HIDE DEF t, b
  <1>6. CASE t = text
    BY <1>1, <1>6 DEF t
  <1>7. CASE t = SubSeq(text, 1, b)
    <2>1. 1 \in Int /\ b \in Int /\ \A i \in 1..b : text[i] \in Items
      BY <1>1, <1>4
    <2>2. /\ SubSeq(text, 1, b) \in Seq(Items)
          /\ Len(SubSeq(text, 1, b)) = IF 1 <= b THEN b - 1 + 1 ELSE 0
          /\ \A i \in 1..b - 1 + 1 : SubSeq(text, 1, b)[i] = text[1 + i - 1]
      BY <2>1, SubSeqProperties
    <2>3. Len(t) = b
      BY <1>1, <1>4, <1>7, <2>2
    <2>4. \A i \in 1..b : i \in 1..N /\ t[i] = text[i]
      BY <1>1, <1>4, <1>7, <2>2
    <2> QED  BY <1>7, <2>2, <2>3, <2>4 DEF t
  <1> QED  BY <1>5, <1>6, <1>7

(* What is given: once each, and marked.                                    *)
GivenIn(told, marked) ==
  /\ \A h \in DOMAIN told : told[h].text \in Seq(Items)
  /\ \A h \in DOMAIN told : \A i \in 1..Len(told[h].text) :
        Once(told[h].text[i]) => told[h].text[i] \in marked
  /\ \A h, g \in DOMAIN told : \A i \in 1..Len(told[h].text), j \in 1..Len(told[g].text) :
        Once(told[h].text[i]) /\ told[h].text[i] = told[g].text[j] => h = g /\ i = j

LEMMA GivenMore ==
  ASSUME NEW S, GivenIn(result, S), NEW r, Shown(S, r), NEW h, NEW limit
  PROVE  GivenIn(Results(h, r, limit), r.seen)
  <1> DEFINE told == result
             e == Limited(r.text, limit)
             all == [g \in DOMAIN told \cup {h} |-> IF g \in DOMAIN told THEN told[g] ELSE e]
             t == e.text
  <1> HIDE DEF told
  <1>1. /\ r.text \in Seq(Items) /\ S \subseteq r.seen
        /\ \A i \in 1..Len(r.text) : Once(r.text[i]) => r.text[i] \in r.seen \ S
        /\ \A i, j \in 1..Len(r.text) : Once(r.text[i]) /\ r.text[i] = r.text[j] => i = j
    BY DEF Shown, FreshIn
  <1>2. t \in Seq(Items) /\ \A i \in 1..Len(t) : i \in 1..Len(r.text) /\ t[i] = r.text[i]
    BY <1>1, LimitedIs
  <1>0. GivenIn(told, S)
    BY DEF told
  <1>3. GivenIn(told, r.seen)
    BY <1>0, <1>1 DEF GivenIn
  <1>4. /\ DOMAIN all = DOMAIN told \cup {h}
        /\ \A g \in DOMAIN told : all[g] = told[g]
        /\ h \notin DOMAIN told => all[h] = e
    OBVIOUS
  <1>9. Results(h, r, limit) = told \/ Results(h, r, limit) = all
    BY DEF Results, told
  <1> HIDE DEF e, all
  <1>5. /\ \A i \in 1..Len(t) : Once(t[i]) => t[i] \in r.seen \ S
        /\ \A i, j \in 1..Len(t) : Once(t[i]) /\ t[i] = t[j] => i = j
    BY <1>1, <1>2
  <1> HIDE DEF t
  <1>6. CASE h \in DOMAIN told
    BY <1>4, <1>6, <1>3, <1>9 DEF GivenIn
  <1>7. CASE h \notin DOMAIN told
    <2>1. all[h].text = t
      BY <1>4, <1>7 DEF t
    <2>2. \A g \in DOMAIN all : (g = h /\ all[g].text = t) \/ (g \in DOMAIN told /\ g # h /\ all[g].text = told[g].text)
      BY <1>4, <1>7, <2>1
    <2>3. \A g \in DOMAIN told : /\ told[g].text \in Seq(Items)
                                 /\ \A i \in 1..Len(told[g].text) : Once(told[g].text[i]) => told[g].text[i] \in S
      BY <1>0 DEF GivenIn
    <2>4. \A g \in DOMAIN all : all[g].text \in Seq(Items)
      BY <1>2, <2>2, <2>3
    <2>5. ASSUME NEW g \in DOMAIN all, NEW i \in 1..Len(all[g].text), Once(all[g].text[i])
          PROVE  all[g].text[i] \in r.seen
      <3>1. CASE g = h /\ all[g].text = t
        BY <2>5, <3>1, <1>5
      <3>2. CASE g \in DOMAIN told /\ all[g].text = told[g].text
        BY <2>5, <3>2, <1>1, <2>3
      <3> QED  BY <2>2, <3>1, <3>2
    <2>6. ASSUME NEW g \in DOMAIN all, NEW f \in DOMAIN all,
                 NEW i \in 1..Len(all[g].text), NEW j \in 1..Len(all[f].text),
                 Once(all[g].text[i]), all[g].text[i] = all[f].text[j]
          PROVE  g = f /\ i = j
      <3> DEFINE x == all[g].text[i]
      <3>0. Once(x) /\ x = all[f].text[j]
        BY <2>6
      <3>1. CASE g = h /\ all[g].text = t /\ f = h /\ all[f].text = t
        BY <1>5, <2>6, <3>1
      <3>2. CASE /\ g \in DOMAIN told /\ all[g].text = told[g].text
                 /\ f \in DOMAIN told /\ all[f].text = told[f].text
        BY <1>0, <2>6, <3>2 DEF GivenIn
      <3>3. CASE /\ g = h /\ all[g].text = t
                 /\ f \in DOMAIN told /\ all[f].text = told[f].text
        BY <1>5, <2>6, <3>3, <2>3
      <3>4. CASE /\ g \in DOMAIN told /\ all[g].text = told[g].text
                 /\ f = h /\ all[f].text = t
        <4>1. x \in S
          BY <2>3, <2>6, <3>4
        <4>2. x \in r.seen \ S
          <5> HIDE DEF x
          <5> QED  BY <2>6, <3>4, <1>5, <3>0
        <4> QED  BY <4>1, <4>2
      <3> QED  BY <2>2, <3>1, <3>2, <3>3, <3>4
    <2>7. GivenIn(all, r.seen)
      BY <2>4, <2>5, <2>6 DEF GivenIn
    <2> QED  BY <1>3, <1>9, <2>7
  <1> QED  BY <1>6, <1>7

-----------------------------------------------------------------------------
(* The invariant behind ShownOnce: relations are Linked once nodes are      *)
(* completed, rows are marked as a whole, what was given is marked, and the *)
(* nodes of a context that still waits are not marked unless as cells.      *)
Waiting ==
  /\ InTurn(queue, mode) /\ queue # <<>>
  /\ \A i \in 1..Len(queue) : IsContext(queue[i]) => \A n \in Group(queue[i]) : n \in seen => Cells(n)
ShowInv ==
  /\ kids \in [Ids -> SUBSET Ids]
  /\ pc = "link" => Bare(visited)
  /\ pc = "mock" => Bare(Structure) /\ Children
  /\ pc = "recall" /\ ~failed => Linked
  /\ pc \in {"link", "mock", "recall"} => result = <<>> /\ seen = {}
  /\ pc \in {"complete", "end"} => Linked /\ Rows(seen) /\ GivenIn(result, seen)
  /\ pc = "complete" => Waiting
  /\ pc \in {"link", "mock", "recall", "complete", "end"}

LEMMA SameMarks ==
  ASSUME SameFile, Rows(seen'), GivenIn(result', seen')
  PROVE  Rows(seen)' /\ GivenIn(result, seen)'
  BY SameRows DEF Rows, GivenIn

LEMMA SameWaiting ==
  ASSUME SameFile, InTurn(queue', mode'), queue' # <<>>,
         \A i \in 1..Len(queue') : IsContext(queue'[i]) => \A n \in Group(queue'[i]) : n \in seen' => Cells(n)
  PROVE  Waiting'
  BY SameRows DEF SameFile, InTurn, Listed, Waiting

(* A step that changes nothing of all that.                                 *)
LEMMA ShowSame ==
  ASSUME ShowInv, SameFile, visited' = visited, pc' = pc, UNCHANGED completing
  PROVE  ShowInv'
  <1>1. /\ doc' = doc /\ kept' = kept /\ link' = link /\ kids' = kids /\ failed' = failed
        /\ seen' = seen /\ result' = result /\ queue' = queue /\ mode' = mode
        /\ Ids' = Ids /\ Structure' = Structure
    BY SameRows DEF SameFile, completing, Structure
  <1>2. kids' \in [Ids' -> SUBSET Ids']
    BY <1>1 DEF ShowInv
  <1>3. /\ Bare(visited) => Bare(visited)'
        /\ Bare(Structure) => Bare(Structure)'
        /\ Children => Children'
    BY <1>1 DEF Bare, Children
  <1>4. Linked => Linked'
    BY SameRows
  <1>5. Rows(seen) /\ GivenIn(result, seen) => Rows(seen)' /\ GivenIn(result, seen)'
    BY <1>1, SameMarks
  <1>6. Waiting => Waiting'
    BY <1>1, SameWaiting DEF Waiting
  <1> QED  BY <1>1, <1>2, <1>3, <1>4, <1>5, <1>6 DEF ShowInv

-----------------------------------------------------------------------------
(* The next node of the queue is done with r.                               *)
LEMMA DoneShows ==
  ASSUME ShowInv, pc = "complete", NEW r, NEW limit, Done(Head(queue), r, limit),
         Shown(seen, r),
         \A i \in 2..Len(queue) : IsContext(queue[i]) => \A n \in Group(queue[i]) : n \in r.seen => Cells(n)
  PROVE  ShowInv'
  <1>1. /\ SameFile /\ mode' = mode /\ seen' = r.seen /\ queue' = Tail(queue)
        /\ result' = Results(Head(queue), r, limit)
        /\ pc' = IF Len(queue) = 1 THEN "end" ELSE pc
    BY DEF Done, SameFile, tree, relations
  <1>2. /\ Linked /\ Rows(seen) /\ GivenIn(result, seen) /\ InTurn(queue, mode) /\ queue # <<>>
        /\ kids \in [Ids -> SUBSET Ids]
    BY DEF ShowInv, Waiting
  <1>3. Linked' /\ kids' \in [Ids' -> SUBSET Ids']
    BY <1>1, <1>2, SameRows DEF SameFile
  <1>4. Rows(r.seen) /\ GivenIn(Results(Head(queue), r, limit), r.seen)
    BY <1>2, GivenMore DEF Shown
  <1>5. Rows(seen)' /\ GivenIn(result, seen)'
    BY <1>1, <1>4, SameMarks
  <1>6. queue \in Seq(kept) /\ \A i, j \in 1..Len(queue) : queue[i] = queue[j] => i = j
    BY <1>2 DEF InTurn, Listed
  <1> DEFINE q == Tail(queue)
  <1>7. /\ q \in Seq(kept) /\ Len(queue) \in Nat /\ Len(q) = Len(queue) - 1
        /\ \A i \in 1..Len(q) : i + 1 \in 2..Len(queue) /\ i + 1 \in 1..Len(queue) /\ q[i] = queue[i + 1]
    <2>1. /\ q \in Seq(kept) /\ Len(queue) \in Nat /\ Len(q) = Len(queue) - 1
          /\ \A i \in 1..Len(q) : i + 1 \in 1..Len(queue) /\ i + 1 # 1 /\ q[i] = queue[i + 1]
      BY <1>2, <1>6, TailIs
    <2> HIDE DEF q
    <2>2. \A i \in 1..Len(q) : i + 1 \in 2..Len(queue)
      BY <2>1
    <2> QED  BY <2>1, <2>2
  <1>8. CASE Len(queue) # 1
    <2> HIDE DEF q
    <2>1. q # <<>>
      BY <1>7, <1>8
    <2>2. \A i \in 1..Len(q) : IsContext(q[i]) => \A n \in Group(q[i]) : n \in r.seen => Cells(n)
      BY <1>7
    <2>3. InTurn(q, mode)
      <3>1. \A i, j \in 1..Len(q) : q[i] = q[j] => i = j
        <4> SUFFICES ASSUME NEW i \in 1..Len(q), NEW j \in 1..Len(q), q[i] = q[j] PROVE i = j
          OBVIOUS
        <4>1. i + 1 = j + 1
          BY <1>6, <1>7
        <4> QED  BY <4>1
      <3>2. mode = "complete" => \A i \in 1..Len(q) : ~IsContext(q[i])
        BY <1>2, <1>7 DEF InTurn
      <3>3. \A i, j \in 1..Len(q) : i < j /\ IsContext(q[j]) => IsContext(q[i]) \/ ~doc[q[i]].sized
        BY <1>7, <1>2 DEF InTurn
      <3> QED  BY <1>7, <3>1, <3>2, <3>3 DEF InTurn, Listed
    <2>4. queue' = q
      BY <1>1 DEF q
    <2>5. Waiting'
      BY <1>1, <2>1, <2>2, <2>3, <2>4, SameWaiting
    <2>6. pc' = "complete"
      BY <1>1, <1>8
    <2> QED  BY <1>3, <1>5, <2>5, <2>6 DEF ShowInv
  <1>9. CASE Len(queue) = 1
    BY <1>1, <1>9, <1>3, <1>5 DEF ShowInv
  <1> QED  BY <1>8, <1>9

(* What is known of the node at the head of the queue.                      *)
LEMMA HeadOfQueue ==
  ASSUME RelInv, ShowInv, pc = "complete"
  PROVE  /\ Parsed(doc) /\ Linked /\ kept \subseteq DOMAIN doc /\ Rows(seen)
         /\ Head(queue) = queue[1] /\ Head(queue) \in kept /\ Head(queue) \in DOMAIN doc
         /\ Head(queue) \in Ids /\ Head(queue) # 0 /\ 1 \in 1..Len(queue) /\ Len(queue) \in Nat
         /\ \A i \in 2..Len(queue) : /\ i \in 1..Len(queue) /\ queue[i] \in kept /\ queue[i] # Head(queue)
                                     /\ queue[i] # 0
         /\ mode = "complete" => \A i \in 1..Len(queue) : ~IsContext(queue[i])
         /\ ~IsContext(Head(queue)) /\ doc[Head(queue)].sized => \A i \in 2..Len(queue) : ~IsContext(queue[i])
         /\ \A i \in 1..Len(queue) : IsContext(queue[i]) => \A n \in Group(queue[i]) : n \in seen => Cells(n)
  <1>1. /\ Parsed(doc) /\ Linked /\ kept \subseteq DOMAIN doc /\ Rows(seen) /\ Waiting
    BY DEF RelInv, DocOK, ShowInv
  <1>2. /\ queue \in Seq(kept) /\ queue # <<>>
        /\ \A i, j \in 1..Len(queue) : queue[i] = queue[j] => i = j
        /\ mode = "complete" => \A i \in 1..Len(queue) : ~IsContext(queue[i])
        /\ \A i, j \in 1..Len(queue) : i < j /\ IsContext(queue[j]) => IsContext(queue[i]) \/ ~doc[queue[i]].sized
    BY <1>1 DEF Waiting, InTurn, Listed
  <1>3. /\ Head(queue) = queue[1] /\ Head(queue) \in kept /\ 1 \in 1..Len(queue) /\ Len(queue) \in Nat
    BY <1>2, TailIs
  <1>4. \A n \in kept : n \in DOMAIN doc /\ n \in Ids /\ n # 0
    BY <1>1, NodeIs
  <1>5. \A i \in 2..Len(queue) : /\ i \in 1..Len(queue) /\ queue[i] \in kept /\ queue[i] # Head(queue)
                                 /\ queue[i] # 0
    BY <1>3, <1>2, ElementOfSeq, <1>4
  <1>6. ~IsContext(Head(queue)) /\ doc[Head(queue)].sized => \A i \in 2..Len(queue) : ~IsContext(queue[i])
    BY <1>3, <1>2
  <1>7. \A i \in 1..Len(queue) : IsContext(queue[i]) => \A n \in Group(queue[i]) : n \in seen => Cells(n)
    BY <1>1 DEF Waiting
  <1> QED  BY <1>1, <1>2, <1>3, <1>4, <1>5, <1>6, <1>7

LEMMA CompleteNodeShows ==
  ASSUME RelInv, ShowInv, CompleteNode
  PROVE  ShowInv'
  <1> DEFINE h == Head(queue)
             r == MostComplete(Head(queue), seen)
  <1>1. pc = "complete" /\ mode = "complete" /\ Done(Head(queue), r, Budget)
    BY DEF CompleteNode
  <1>2. /\ Parsed(doc) /\ Linked /\ Rows(seen) /\ h = queue[1] /\ h \in Ids /\ h # 0 /\ 1 \in 1..Len(queue)
        /\ \A i \in 2..Len(queue) : i \in 1..Len(queue)
        /\ \A i \in 1..Len(queue) : ~IsContext(queue[i])
    BY <1>1, HeadOfQueue
  <1> HIDE DEF h
  <1>3. ~IsContext(h)
    BY <1>2
  <1>4. Shown(seen, MostComplete(h, seen))
    BY <1>2, <1>3, MostCompleteIs
  <1>5. Shown(seen, r)
    BY <1>4 DEF h
  <1>6. \A i \in 2..Len(queue) : ~IsContext(queue[i])
    BY <1>2
  <1> HIDE DEF r
  <1> QED  BY <1>1, <1>5, <1>6, DoneShows

LEMMA MergeContextsShows ==
  ASSUME RelInv, ShowInv, MergeContexts
  PROVE  ShowInv'
  <1> DEFINE h == Head(queue)
  <1>1. pc = "complete"
    BY DEF MergeContexts
  <1>2. /\ Parsed(doc) /\ Linked /\ kept \subseteq DOMAIN doc /\ Rows(seen)
        /\ h = queue[1] /\ h \in kept /\ h \in DOMAIN doc /\ h \in Ids /\ h # 0 /\ 1 \in 1..Len(queue)
        /\ \A i \in 2..Len(queue) : i \in 1..Len(queue) /\ queue[i] \in kept /\ queue[i] # h /\ queue[i] # 0
        /\ ~IsContext(h) /\ doc[h].sized => \A i \in 2..Len(queue) : ~IsContext(queue[i])
        /\ \A i \in 1..Len(queue) : IsContext(queue[i]) => \A n \in Group(queue[i]) : n \in seen => Cells(n)
    BY <1>1, HeadOfQueue
  <1>3. /\ IsContext(h) => Done(h, WithContext(h, seen), Budget)
        /\ ~IsContext(h) /\ Size(h) < 0 =>
              Done(h, IF h \in seen THEN Res(<<>>, seen) ELSE MoreInfo(h, seen), Budget)
        /\ ~IsContext(h) /\ ~(Size(h) < 0) /\ h \in seen => Done(h, Res(<<>>, seen), Budget)
        /\ ~IsContext(h) /\ ~(Size(h) < 0) /\ h \notin seen =>
              Done(h, Merged(h, seen), Budget + Merged(h, seen).more)
    BY DEF MergeContexts
  <1>4. \A r, limit : Done(h, r, limit) <=> Done(Head(queue), r, limit)
    OBVIOUS
  <1> HIDE DEF h
  <1>5. ASSUME NEW r, NEW limit, Done(h, r, limit), Shown(seen, r),
               \A m \in r.seen \ seen : \A i \in 2..Len(queue) :
                   IsContext(queue[i]) /\ m \in Group(queue[i]) => Cells(m)
        PROVE  ShowInv'
    BY <1>2, <1>5, <1>1, <1>4, DoneShows
  <1>6. CASE h \in seen /\ Done(h, Res(<<>>, seen), Budget)
    <2>1. Shown(seen, Res(<<>>, seen)) /\ Res(<<>>, seen).seen = seen
      BY <1>2, NoneShown
    <2>2. \A m \in Res(<<>>, seen).seen \ seen : FALSE
      BY <2>1
    <2> DEFINE r == Res(<<>>, seen)
    <2>3. Shown(seen, r) /\ Done(h, r, Budget) /\ \A m \in r.seen \ seen : FALSE
      BY <1>6, <2>1, <2>2
    <2> HIDE DEF r
    <2> QED  BY <1>5, <2>3
  <1>7. CASE IsContext(h) /\ Done(h, WithContext(h, seen), Budget)
    <2> DEFINE r == WithContext(h, seen)
    <2>1. h \notin Chunks
      BY <1>7 DEF IsContext, Chunks
    <2>2. \A n \in Group(h) : n \in seen => Cells(n)
      BY <1>2, <1>7
    <2>3. Shown(seen, r) /\ \A m \in r.seen \ seen : Cells(m) \/ m \in Group(h)
      BY <1>2, <2>1, <2>2, WithContextIs
    <2>4. \A i \in 2..Len(queue) : \A m \in Group(queue[i]) : m \notin Group(h)
      BY <1>2 DEF Group
    <2> HIDE DEF r
    <2>5. \A m \in r.seen \ seen : \A i \in 2..Len(queue) :
                   IsContext(queue[i]) /\ m \in Group(queue[i]) => Cells(m)
      BY <2>3, <2>4
    <2> QED  BY <1>5, <1>7, <2>3, <2>5 DEF r
  <1>8. CASE ~IsContext(h) /\ Size(h) < 0 /\ h \notin seen /\ Done(h, MoreInfo(h, seen), Budget)
    <2> DEFINE r == MoreInfo(h, seen)
    <2>1. Shown(seen, r) /\ \A m \in r.seen \ seen : Cells(m) \/ m = h
      BY <1>2, <1>8, MoreInfoIs
    <2>2. doc[h].context = 0
      BY <1>2, <1>8, NodeTokenIs DEF Parsed
    <2>3. \A i \in 2..Len(queue) : IsContext(queue[i]) => h \notin Group(queue[i])
      <3> SUFFICES ASSUME NEW i \in 2..Len(queue), IsContext(queue[i]), h \in Group(queue[i]) PROVE FALSE
        OBVIOUS
      <3> DEFINE c == queue[i]
      <3>1. ContextOf(h) = c /\ c # 0 /\ c \in kept /\ doc[c].kind = "context"
        BY <1>2 DEF Group, IsContext
      <3>2. doc[h].context = doc[c].context
        BY <1>2, <3>1, ContextOfIs
      <3>3. doc[c].context # 0
        BY <3>1 DEF RelInv, DocOK
      <3> QED  BY <2>2, <3>2, <3>3
    <2> HIDE DEF r
    <2>5. \A m \in r.seen \ seen : \A i \in 2..Len(queue) :
                   IsContext(queue[i]) /\ m \in Group(queue[i]) => Cells(m)
      BY <2>1, <2>3
    <2> QED  BY <1>5, <1>8, <2>1, <2>5 DEF r
  <1>9. CASE ~IsContext(h) /\ ~(Size(h) < 0) /\ Done(h, Merged(h, seen), Budget + Merged(h, seen).more)
    <2> DEFINE r == Merged(h, seen)
               limit == Budget + Merged(h, seen).more
    <2>1. Shown(seen, r)
      BY <1>2, MergedIs
    <2>2. doc[h].sized
      BY <1>2, <1>9, NodeTokenIs
    <2>3. \A i \in 2..Len(queue) : ~IsContext(queue[i])
      BY <1>2, <1>9, <2>2
    <2>4. Done(h, r, limit)
      BY <1>9
    <2> HIDE DEF r, limit
    <2> QED  BY <1>5, <2>1, <2>3, <2>4
  <1>10. CASE h \in seen
    BY <1>3, <1>6, <1>7, <1>10
  <1>11. CASE h \notin seen
    BY <1>3, <1>7, <1>8, <1>9, <1>11
  <1> QED  BY <1>10, <1>11

-----------------------------------------------------------------------------
(* The steps of the rebuild.                                                *)
LEMMA VisitShows ==
  ASSUME RelInv, ShowInv, Visit, UNCHANGED completing
  PROVE  ShowInv'
  <1> DEFINE n == Last(stack).node
             d == Last(stack).dir
  <1>1. /\ pc = "link" /\ LinkType /\ doc' = doc /\ kept' = kept /\ kids' = kids
        /\ Ids' = Ids /\ Structure' = Structure
        /\ result' = result /\ seen' = seen /\ result = <<>> /\ seen = {}
        /\ kids \in [Ids -> SUBSET Ids] /\ Bare(visited)
    BY DomSame DEF RelInv, ShowInv, Visit, tree, completing
  <1>2. \/ UNCHANGED <<link, visited, failed, pc>>
        \/ failed' = TRUE /\ pc' = "recall"
        \/ /\ link' = [link EXCEPT ![n] = Link(n, d)]
           /\ visited' = visited \cup {n} /\ pc' = pc
    BY DEF Visit
  <1> HIDE DEF n, d
  <1>3. CASE UNCHANGED <<link, visited, failed, pc>>
    BY <1>1, <1>3, ShowSame DEF SameFile
  <1>4. CASE failed' = TRUE /\ pc' = "recall"
    BY <1>1, <1>4 DEF ShowInv
  <1>5. CASE /\ link' = [link EXCEPT ![n] = Link(n, d)]
             /\ visited' = visited \cup {n} /\ pc' = pc
    <2>1. Bare(visited)'
      BY <1>1, <1>5 DEF Bare, LinkType
    <2> QED  BY <1>1, <1>5, <2>1 DEF ShowInv
  <1> QED  BY <1>2, <1>3, <1>4, <1>5

LEMMA ExpandShows ==
  ASSUME RelInv, ShowInv, Expand, UNCHANGED completing
  PROVE  ShowInv'
  <1> DEFINE heads == {n \in Structure : link[n]["head_child"] # 0}
             lost == \/ \E n \in Structure : Dangles(n, "head_child")
                     \/ \E n \in heads : \E m \in Level(HeadChild(n)), key \in SameLevel :
                           Dangles(m, key)
  <1>1. /\ pc = "link" /\ WalkOK /\ LinkType /\ Structure \subseteq visited
        /\ doc' = doc /\ kept' = kept /\ link' = link /\ Ids' = Ids /\ Structure' = Structure
        /\ result' = result /\ seen' = seen /\ result = <<>> /\ seen = {}
        /\ kids \in [Ids -> SUBSET Ids] /\ Bare(visited) /\ Parsed(doc) /\ kept \subseteq DOMAIN doc
    BY DomSame DEF RelInv, ShowInv, Expand, tree, completing, DocOK
  <1>2. /\ failed' = lost /\ pc' = IF lost THEN "recall" ELSE "mock"
        /\ kids' = IF lost THEN kids
                   ELSE [n \in Ids |-> IF n \in heads THEN Level(HeadChild(n)) ELSE {}]
    BY DEF Expand
  <1>3. CASE lost
    <2> HIDE DEF lost
    <2> QED  BY <1>1, <1>2, <1>3 DEF ShowInv
  <1>4. CASE ~lost
    <2>1. \A n \in Structure : ~Dangles(n, "head_child")
      BY <1>4
    <2> HIDE DEF lost
    <2>2. \A n \in Structure : Faithful(n)
      BY <1>1 DEF WalkOK
    <2>3. ASSUME NEW s \in heads
          PROVE  /\ Level(HeadChild(s)) \subseteq Ids
                 /\ \A n \in Level(HeadChild(s)) : n \in Structure /\ doc[n].under = s
      BY <1>1, <2>1, <2>2, LevelIs
    <2>4. \A s \in heads : s \in Structure
      OBVIOUS
    <2> HIDE DEF heads
    <2>5. kids' = [n \in Ids |-> IF n \in heads THEN Level(HeadChild(n)) ELSE {}]
      BY <1>2, <1>4
    <2>6. kids' \in [Ids -> SUBSET Ids]
      BY <2>3, <2>5
    <2>7. Children'
      BY <2>3, <2>4, <2>5, <1>1 DEF Children
    <2>8. Bare(Structure)'
      BY <1>1 DEF WalkOK, Bare
    <2>9. pc' = "mock"
      BY <1>2, <1>4
    <2> QED  BY <1>1, <2>6, <2>7, <2>8, <2>9 DEF ShowInv
  <1> QED  BY <1>3, <1>4

LEMMA MockShows ==
  ASSUME RelInv, ShowInv, MockTables, UNCHANGED completing
  PROVE  ShowInv'
  BY MockLinks DEF MockTables, ShowInv, completing, Linked

LEMMA RecallShows ==
  ASSUME RelInv, ShowInv, Recall
  PROVE  ShowInv'
  <1>1. /\ pc = "recall" /\ pc' = "complete" /\ doc' = doc /\ kept' = kept
        /\ result' = result /\ seen' = seen /\ result = <<>> /\ seen = {}
        /\ Parsed(doc) /\ kept \subseteq DOMAIN doc
    BY DEF Recall, RelInv, ShowInv, tree, DocOK
  <1>2. PICK k \in 1..MaxHits : \E list \in [1..k -> kept] :
         /\ \A i, j \in 1..k : i # j => list[i] # list[j]
         /\ mode' = "complete" => \A i \in 1..k : ~IsContext(list[i])
         /\ queue' = QueueOf(mode', list)
         /\ link' = IF failed \/ ~Relevant(list) THEN Unlinked ELSE link
         /\ kids' = IF failed \/ ~Relevant(list) THEN [n \in Ids |-> {}] ELSE kids
    BY DEF Recall
  <1>3. PICK list \in [1..k -> kept] :
         /\ \A i, j \in 1..k : i # j => list[i] # list[j]
         /\ mode' = "complete" => \A i \in 1..k : ~IsContext(list[i])
         /\ queue' = QueueOf(mode', list)
         /\ link' = IF failed \/ ~Relevant(list) THEN Unlinked ELSE link
         /\ kids' = IF failed \/ ~Relevant(list) THEN [n \in Ids |-> {}] ELSE kids
    BY <1>2
  <1>4. Linked'
    <2>1. CASE failed \/ ~Relevant(list)
      BY <1>3, <2>1, <1>1, UnlinkedLinked
    <2>2. CASE ~(failed \/ ~Relevant(list))
      BY <1>3, <2>2, <1>1, LinkedSame DEF ShowInv
    <2> QED  BY <2>1, <2>2
  <1>5. kids' \in [Ids' -> SUBSET Ids']
    BY <1>4 DEF Linked
  <1>6. Listed(list, kept) /\ list # <<>> /\ Len(list) = k
    <2>1. k \in Nat /\ k >= 1
      BY BudgetAssumption
    <2>2. list \in Seq(kept)
      BY <2>1, SeqDef
    <2>3. DOMAIN list = 1..Len(list) /\ DOMAIN list = 1..k /\ Len(list) \in Nat
      BY <2>2, LenProperties
    <2>4. Len(list) = k
      BY <2>1, <2>3, SameUpTo
    <2>5. list # <<>>
      BY <2>1, <2>4
    <2> QED  BY <1>3, <2>2, <2>4, <2>5 DEF Listed
  <1>7. InTurn(queue', mode') /\ queue' # <<>>
    BY <1>1, <1>3, <1>6, QueueIs
  <1>8. /\ Rows(seen)' /\ GivenIn(result, seen)'
    BY <1>1 DEF Rows, GivenIn
  <1>9. Waiting'
    <2>1. InTurn(queue, mode)'
      BY <1>1, <1>7 DEF InTurn, Listed, IsContext, IsMock
    <2>2. seen' = {}
      BY <1>1
    <2> QED  BY <1>7, <2>1, <2>2 DEF Waiting
  <1> QED  BY <1>1, <1>4, <1>5, <1>8, <1>9 DEF ShowInv

(* The steps of the contexts.                                               *)
LEMMA SaveShows ==
  ASSUME RelInv, ShowInv, SaveContext
  PROVE  ShowInv'
  <1>1. /\ Len(doc') = Len(doc) /\ kids' = kids /\ pc = "recall" /\ pc' = "recall"
        /\ failed' = failed /\ completing' = completing
    BY SaveChanges
  <1>2. /\ result' = result /\ seen' = seen /\ result = <<>> /\ seen = {} /\ kids \in [Ids -> SUBSET Ids]
        /\ ~failed => Linked
    BY <1>1 DEF ShowInv, completing
  <1>3. kids' \in [Ids' -> SUBSET Ids']
    BY <1>1, <1>2 DEF Ids
  <1>4. ~failed' => Linked'
    BY <1>1, <1>2, SaveLinked
  <1> QED  BY <1>1, <1>2, <1>3, <1>4 DEF ShowInv

LEMMA UnrelatedShows ==
  ASSUME RelInv, ShowInv, summary = "save", Unrelated, UNCHANGED <<tree, completing>>
  PROVE  ShowInv'
  <1>1. /\ pc = "recall" /\ doc' = doc /\ kept' = kept /\ Ids' = Ids
        /\ result' = result /\ seen' = seen /\ result = <<>> /\ seen = {}
        /\ pc' = "link" /\ link' = Unlinked /\ kids' = [n \in Ids |-> {}] /\ visited' = {}
    BY DomSame DEF RelInv, ShowInv, Unrelated, tree, completing
  <1>2. kids' \in [Ids' -> SUBSET Ids']
    BY <1>1
  <1>3. Bare(visited)'
    BY <1>1 DEF Bare, Unlinked
  <1> QED  BY <1>1, <1>2, <1>3 DEF ShowInv

LEMMA ShowInit == InitContexts => ShowInv
  BY DEF InitContexts, InitAll, Init, Bare, Unlinked, ShowInv

LEMMA ShowNextStep == RelInv /\ ShowInv /\ [NextContexts]_<<vars, context>> => ShowInv'
  <1> SUFFICES ASSUME RelInv, ShowInv, [NextContexts]_<<vars, context>> PROVE ShowInv'
    OBVIOUS
  <1>1. CASE StartWalk /\ UNCHANGED completing
    BY <1>1, ShowSame DEF StartWalk, SameFile, tree, relations
  <1>2. CASE Visit /\ UNCHANGED completing
    BY <1>2, VisitShows
  <1>3. CASE Expand /\ UNCHANGED completing
    BY <1>3, ExpandShows
  <1>4. CASE MockTables /\ UNCHANGED completing
    BY <1>4, MockShows
  <1>5. CASE Recall
    BY <1>5, RecallShows
  <1>6. CASE CompleteNode
    BY <1>6, CompleteNodeShows
  <1>7. CASE MergeContexts
    BY <1>7, MergeContextsShows
  <1>8. CASE Summarize
    BY <1>8, ShowSame DEF Summarize, SameFile, tree, relations, walk
  <1>9. CASE Unanswered
    BY <1>9, ShowSame DEF Unanswered, SameFile, tree, relations, walk
  <1>10. CASE SaveContext
    BY <1>10, SaveShows
  <1>11. CASE SummaryDone
    BY <1>11, UnrelatedShows DEF SummaryDone
  <1>12. CASE Die
    BY <1>12, UnrelatedShows DEF Die
  <1>13. CASE UNCHANGED <<vars, context>>
    BY <1>13, ShowSame DEF SameFile, vars, tree, relations, walk
  <1> QED  BY <1>1, <1>2, <1>3, <1>4, <1>5, <1>6, <1>7, <1>8, <1>9, <1>10, <1>11, <1>12, <1>13
           DEF NextContexts, Next, Rebuild

(* No text and no row of a table is given twice.                            *)
THEOREM ShownOnceStands == SpecContexts => []ShownOnce
  <1>1. ASSUME RelInv, ShowInv PROVE ShownOnce
    <2> SUFFICES ASSUME NEW n \in Structure, ~InHeader(n) PROVE Cardinality(Occurrences(n)) <= 1
      BY DEF ShownOnce
    <2> DEFINE O == Occurrences(n)
    <2>1. Once(n)
      BY <1>1 DEF RelInv, DocOK, Once, Structure, Chunks
    <2>2. GivenIn(result, seen)
      BY <1>1 DEF GivenIn, ShowInv
    <2>3. \A p \in O : \E h \in DOMAIN result : \E i \in 1..Len(result[h].text) :
              p = <<h, i>> /\ result[h].text[i] = n
      <3> SUFFICES ASSUME NEW p \in O
                   PROVE  \E h \in DOMAIN result : \E i \in 1..Len(result[h].text) :
                             p = <<h, i>> /\ result[h].text[i] = n
        OBVIOUS
      <3>1. PICK h \in DOMAIN result : p \in {h} \X DOMAIN result[h].text
        BY DEF Occurrences
      <3>2. PICK i \in DOMAIN result[h].text : p = <<h, i>>
        BY <3>1
      <3>3. result[p[1]].text[p[2]] = n
        BY DEF Occurrences
      <3>4. result[h].text[i] = n
        BY <3>2, <3>3
      <3>5. DOMAIN result[h].text = 1..Len(result[h].text)
        BY <2>2, LenProperties DEF GivenIn
      <3> QED  BY <3>2, <3>4, <3>5
    <2>4. \A p, q \in O : p = q
      <3> SUFFICES ASSUME NEW p \in O, NEW q \in O PROVE p = q
        OBVIOUS
      <3> HIDE DEF O
      <3>1. PICK h \in DOMAIN result : \E i \in 1..Len(result[h].text) :
               p = <<h, i>> /\ result[h].text[i] = n
        BY <2>3
      <3>11. PICK i \in 1..Len(result[h].text) : p = <<h, i>> /\ result[h].text[i] = n
        BY <3>1
      <3>2. PICK g \in DOMAIN result : \E j \in 1..Len(result[g].text) :
               q = <<g, j>> /\ result[g].text[j] = n
        BY <2>3
      <3>22. PICK j \in 1..Len(result[g].text) : q = <<g, j>> /\ result[g].text[j] = n
        BY <3>2
      <3>3. h = g /\ i = j
        BY <2>1, <2>2, <3>11, <3>22 DEF GivenIn
      <3> QED  BY <3>11, <3>22, <3>3
    <2>5. O = {} \/ \E p : O = {p}
      <3> HIDE DEF O
      <3> QED  BY <2>4
    <2>6. Cardinality(O) = 0 \/ Cardinality(O) = 1
      <3> HIDE DEF O
      <3> QED  BY <2>5, FS_EmptySet, FS_Singleton
    <2> QED  BY <2>6
  <1> QED  BY <1>1, RelInit, RelNext, ShowInit, ShowNextStep, PTL DEF SpecContexts

-----------------------------------------------------------------------------
(* The invariant behind HitsGiven.  In a document of texts only, the nodes  *)
(* of a section are all its children, and so what is marked from a section  *)
(* down is all that stands in it.                                           *)
Has(list, n) == \E i \in 1..Len(list) : list[i] = n
Nested ==
  /\ \A s \in Ids : \A n \in kids[s] : s \in DOMAIN doc /\ n \in DOMAIN doc /\ doc[n].under = s
  /\ \A n \in Ids : link[n]["parent"] # 0 => n \in kids[link[n]["parent"]]
Deep(C) == \A n \in C : n \in Ids => kids[n] \subseteq C

LEMMA NoCells ==
  ASSUME Parsed(doc), TextOnly
  PROVE  \A n : ~IsTable(n) /\ ~Cells(n)
  <1> SUFFICES ASSUME NEW n, n \in DOMAIN doc PROVE ~IsTable(n)
    BY DEF Cells, IsTable
  <1>1. \A m \in DOMAIN doc : ~IsTableCell(m)
    BY DEF TextOnly, IsTableCell
  <1>2. \A down, right : Cell(n, down, right) = 0
    BY <1>1 DEF Cell, FirstOf
  <1>3. \A key \in {"up", "left", "down", "right"} : Dom(n, key) = 0
    BY <1>2 DEF Dom
  <1> QED  BY <1>3 DEF IsTable, Stored

(* From the first child the walk over the same level misses no other one.   *)
LEMMA LevelAll ==
  ASSUME Parsed(doc), TextOnly, LinkType, kept \subseteq DOMAIN doc, NEW s \in Structure,
         \A n \in Structure : Faithful(n), ~Dangles(s, "head_child"),
         link[s]["head_child"] # 0 =>
            \A m \in Level(HeadChild(s)), key \in SameLevel : ~Dangles(m, key),
         NEW n \in Structure, doc[n].under = s
  PROVE  link[s]["head_child"] # 0 /\ n \in Level(HeadChild(s))
  <1> DEFINE h == HeadChild(s)
             S == {m \in DOMAIN doc : doc[m].under = s}
             L == Level(h)
             next == [m \in Ids |-> {link[m][key] : key \in SameLevel} \ {0}]
  <1>1. /\ Len(doc) \in Nat /\ DOMAIN doc = 1..Len(doc) /\ Structure \subseteq DOMAIN doc
        /\ \A m \in DOMAIN doc : m \in Ids /\ m \in Nat /\ m # 0
        /\ "head_child" \in Range(Keys) /\ "next" \in SameLevel /\ SameLevel \subseteq Range(Keys)
    BY NodeIs, KeysAre DEF Structure, SameLevel
  <1>2. S \in SUBSET (1..Len(doc)) /\ n \in S /\ h = FirstOf(S)
    BY <1>1 DEF HeadChild
  <1> HIDE DEF S
  <1>3. h \in S /\ h # 0 /\ h <= n
    <2>1. S # {} /\ Len(doc) \in Nat
      BY <1>1, <1>2
    <2>2. FirstOf(S) \in S /\ FirstOf(S) # 0 /\ \A m \in S : FirstOf(S) <= m
      BY <1>2, <2>1, FirstIs
    <2> QED  BY <1>2, <2>2
  <1>4. Dom(s, "head_child") = h
    BY DEF Dom
  <1>5. link[s]["head_child"] = h
    BY <1>1, <1>4 DEF Faithful
  <1>6. h \in DOMAIN doc /\ h \in Ids
    BY <1>1, <1>2, <1>3
  <1>7. \A m \in Ids : next[m] \subseteq Ids
    BY <1>1 DEF LinkType
  <1>8. L = Reached({h}, next)
    BY DEF Level
  <1> HIDE DEF next, L, h
  <1>9. h \in L /\ L \subseteq Ids /\ \A m \in L : next[m] \subseteq L
    <2>1. {h} \in SUBSET Ids /\ Len(doc) \in Nat
      BY <1>1, <1>6
    <2>2. /\ Reached({h}, next) \in SUBSET Ids /\ {h} \subseteq Reached({h}, next)
          /\ \A m \in Reached({h}, next) : next[m] \subseteq Reached({h}, next)
      BY <1>7, <2>1, ReachedIs
    <2> QED  BY <1>8, <2>2
  <1>10. \A m \in L, key \in SameLevel : ~Dangles(m, key)
    BY <1>3, <1>5 DEF L, h
  <1>11. \A m \in L : m \in Structure /\ doc[m].under = s
    BY <1>3, <1>5, LevelIs DEF L, h
  <1> DEFINE T == {n - m : m \in {x \in L : x <= n}}
  <1>12. T \subseteq Nat /\ T # {}
    <2>1. \A m \in L : m \in Nat
      BY <1>1, <1>11
    <2>2. n \in Nat
      BY <1>1
    <2>3. n - h \in T
      BY <1>3, <1>9
    <2>4. \A m \in L : m <= n => n - m \in Nat
      BY <2>1, <2>2
    <2> QED  BY <2>3, <2>4
  <1>13. PICK x \in T : \A y \in T : x <= y
    <2> HIDE DEF T
    <2> QED  BY <1>12, LeastOf
  <1>14. PICK q \in L : q <= n /\ x = n - q
    BY <1>13
  <1>15. q \in Structure /\ doc[q].under = s /\ q \in Nat /\ n \in Nat /\ q \in DOMAIN doc /\ n \in DOMAIN doc
         /\ q \in Ids
    BY <1>1, <1>11
  <1>16. CASE q = n
    BY <1>3, <1>5, <1>14, <1>16 DEF L, h
  <1>17. CASE q # n
    <2> DEFINE R == {m \in Line(q) : m > q}
               e == FirstOf(R)
    <2>1. InLine(q) /\ InLine(n)
      <3>1. \A m \in Structure : doc[m].under # 0 => doc[m].sized /\ doc[m].kind = "text"
        BY <1>1, NodeIs DEF Parsed, TextOnly
      <3>2. s # 0
        BY <1>1
      <3> QED  BY <1>15, <3>1, <3>2 DEF InLine
    <2>2. n \in R /\ R \in SUBSET (1..Len(doc))
      BY <1>1, <1>14, <1>15, <1>17, <2>1 DEF Line
    <2>3. e \in R /\ e # 0 /\ e <= n
      <3> HIDE DEF R
      <3> QED  BY <1>1, <2>2, FirstIs
    <2>4. Dom(q, "next") = e
      BY DEF Dom
    <2>5. e \in DOMAIN doc /\ e > q /\ e \in Nat
      BY <1>1, <2>3 DEF Line
    <2> HIDE DEF e, R
    <2>6. link[q]["next"] = e
      BY <1>1, <1>10, <1>15, <2>4 DEF Faithful
    <2>7. e \in next[q]
      BY <1>1, <1>15, <2>3, <2>6 DEF next
    <2>8. e \in L
      BY <1>9, <2>7
    <2>9. n - e \in T
      BY <2>3, <2>8
    <2>10. n - q <= n - e
      BY <1>13, <1>14, <2>9
    <2> QED  BY <1>15, <2>5, <2>10
  <1> QED  BY <1>16, <1>17

LEMMA HasBoth ==
  ASSUME NEW X, NEW s \in Seq(X), NEW t \in Seq(X), NEW n
  PROVE  Has(s \o t, n) <=> Has(s, n) \/ Has(t, n)
  <1> DEFINE a == Len(s)
             b == Len(t)
             o == s \o t
  <1>1. a \in Nat /\ b \in Nat
    BY LenProperties
  <1>2. Len(o) = a + b /\ \A i \in 1..a + b : o[i] = IF i <= a THEN s[i] ELSE t[i - a]
    BY ConcatProperties, Zenon
  <1> HIDE DEF a, b, o
  <1>3. ASSUME NEW i \in 1..a + b, o[i] = n PROVE (\E j \in 1..a : s[j] = n) \/ (\E j \in 1..b : t[j] = n)
    <2>1. CASE i <= a
      BY <1>1, <1>2, <1>3, <2>1
    <2>2. CASE ~(i <= a)
      BY <1>1, <1>2, <1>3, <2>2
    <2> QED  BY <2>1, <2>2
  <1>4. ASSUME NEW j \in 1..a, s[j] = n PROVE \E i \in 1..a + b : o[i] = n
    BY <1>1, <1>2, <1>4
  <1>5. ASSUME NEW j \in 1..b, t[j] = n PROVE \E i \in 1..a + b : o[i] = n
    BY <1>1, <1>2, <1>5
  <1> QED  BY <1>2, <1>3, <1>4, <1>5 DEF Has, a, b, o

LEMMA HasOne == \A x, n : Has(<<x>>, n) <=> x = n
  BY DEF Has

LEMMA HasNone == \A n : ~Has(<<>>, n)
  BY DEF Has

LEMMA HasTail ==
  ASSUME NEW X, NEW s \in Seq(X), s # <<>>, NEW n, Has(s, n)
  PROVE  n = Head(s) \/ Has(Tail(s), n)
  <1>1. PICK i \in 1..Len(s) : s[i] = n
    BY DEF Has
  <1>2. /\ Head(s) = s[1] /\ Len(s) \in Nat /\ Len(Tail(s)) = Len(s) - 1
        /\ \A j \in 1..Len(Tail(s)) : Tail(s)[j] = s[j + 1]
    BY TailIs
  <1>3. CASE i = 1
    BY <1>1, <1>2, <1>3
  <1>4. CASE i # 1
    <2>1. i - 1 \in 1..Len(Tail(s)) /\ (i - 1) + 1 = i
      BY <1>2, <1>4
    <2>2. Tail(s)[i - 1] = n
      BY <1>1, <1>2, <2>1
    <2> QED  BY <2>1, <2>2 DEF Has
  <1> QED  BY <1>3, <1>4

LEMMA InOrderAll ==
  ASSUME Parsed(doc), NEW S \in SUBSET Items, NEW n \in S
  PROVE  Has(InOrder(S), n)
  <1> DEFINE P == {m \in S : IsMock(m)}
             Q == {m \in S : ~IsMock(m)}
  <1>1. P \in SUBSET Items /\ Q \in SUBSET Items /\ (n \in P \/ n \in Q)
    OBVIOUS
  <1>2. InOrder(S) = Ascending(P) \o Ascending(Q)
    BY DEF InOrder
  <1> HIDE DEF P, Q
  <1>3. IsFiniteSet(P) /\ P \subseteq Int /\ IsFiniteSet(Q) /\ Q \subseteq Int
    BY <1>1, ItemsFinite
  <1>4. Ascending(P) \in Seq(P) /\ Ascending(Q) \in Seq(Q)
    BY <1>3, AscendingIs
  <1>5. Ascending(P) \in Seq(Items) /\ Ascending(Q) \in Seq(Items)
    BY <1>1, <1>4, SeqMonotonic
  <1>6. n \in P => Has(Ascending(P), n)
    BY <1>3, AscendingIs DEF Has
  <1>7. n \in Q => Has(Ascending(Q), n)
    BY <1>3, AscendingIs DEF Has
  <1> QED  BY <1>1, <1>2, <1>5, <1>6, <1>7, HasBoth

(* What a list holds is marked in the end, and all below it; and the nodes  *)
(* of the document that are newly marked stand in the text.                 *)
Pending(r, n) == n \in r.seen \/ Has(r.todo, n)
Reaches(S, W, r) ==
  /\ S \subseteq r.seen
  /\ \A n \in W : Pending(r, n)
  /\ \A n \in r.seen : \A m \in kids[n] : Pending(r, m)
  /\ \A n \in r.seen \ S : n \in DOMAIN doc => Has(r.text, n)

LEMMA PassReaches ==
  ASSUME NEW S, NEW W, NEW r \in Showing(Items), r.todo # <<>>, Reaches(S, W, r),
         NEW t \in Seq(Items), Head(r.todo) \notin Ids \/ Head(r.todo) \in r.seen,
         Linked, W \subseteq Ids
  PROVE  Reaches(S, W, Pass(r, Res(t, r.seen)))
  <1> DEFINE s == Pass(r, Res(t, r.seen))
  <1>1. s.todo = Tail(r.todo) /\ s.text = r.text \o t /\ s.seen = r.seen
    BY DEF Pass, Res
  <1> HIDE DEF s
  <1>2. r.todo \in Seq(Items) /\ r.text \in Seq(Items) /\ r.seen \subseteq Ids
    BY DEF Showing
  <1>3. \A n \in Ids : Pending(r, n) => Pending(s, n)
    BY <1>1, <1>2, HasTail DEF Pending
  <1>4. \A n : Has(r.text, n) => Has(s.text, n)
    BY <1>1, <1>2, HasBoth
  <1>5. \A n \in r.seen : kids[n] \subseteq Ids
    BY <1>2 DEF Linked
  <1>6. Reaches(S, W, s)
    BY <1>1, <1>3, <1>4, <1>5 DEF Reaches
  <1> QED  BY <1>6 DEF s

LEMMA TakeReaches ==
  ASSUME Parsed(doc), Linked, NEW S, NEW W, W \subseteq Ids,
         NEW r \in Showing(Items), r.todo # <<>>, Reaches(S, W, r),
         Head(r.todo) \in Ids
  PROVE  Reaches(S, W, Take(r, Head(r.todo)))
  <1> DEFINE n == Head(r.todo)
             s == Take(r, n)
             first == InOrder(kids[n])
             rest == Tail(r.todo)
  <1>1. /\ s.todo = first \o rest /\ s.seen = r.seen \cup {n}
        /\ s.text = IF IsMock(n) THEN r.text ELSE Append(r.text, n)
    BY DEF Take
  <1>2. r.todo \in Seq(Items) /\ r.text \in Seq(Items) /\ r.seen \subseteq Ids /\ n \in Items
        /\ rest \in Seq(Items)
    BY HeadIs DEF Showing
  <1>3. Ids \subseteq Items /\ Len(doc) \in Nat /\ DOMAIN doc = 1..Len(doc)
    BY IdsAreItems, NodeIs
  <1>4. kids[n] \in SUBSET Items /\ \A m \in Ids : kids[m] \subseteq Ids
    BY <1>3 DEF Linked
  <1>5. first \in Seq(Items)
    BY <1>4, InOrderIs, SeqMonotonic
  <1>6. \A m \in kids[n] : Has(first, m)
    BY <1>4, InOrderAll
  <1>7. \A m \in Ids : Has(r.todo, m) => m = n \/ Has(rest, m)
    BY <1>2, HasTail
  <1> HIDE DEF s, first, rest
  <1>8. \A m : Has(s.todo, m) <=> Has(first, m) \/ Has(rest, m)
    BY <1>1, <1>2, <1>5, HasBoth
  <1>9. \A m \in Ids : Pending(r, m) => Pending(s, m)
    BY <1>1, <1>7, <1>8 DEF Pending
  <1>10. \A m \in kids[n] : Pending(s, m)
    BY <1>6, <1>8 DEF Pending
  <1>11. /\ \A m : Has(r.text, m) => Has(s.text, m)
         /\ n \in DOMAIN doc => Has(s.text, n)
    <2>1. CASE IsMock(n)
      BY <1>3, <2>1, <1>1 DEF IsMock
    <2>2. CASE ~IsMock(n)
      <3> DEFINE one == <<n>>
      <3>1. s.text = r.text \o one
        BY <1>1, <1>2, <2>2, AppendIsConcat
      <3>2. one \in Seq(Items)
        BY <1>2
      <3>3. Has(one, n)
        BY HasOne
      <3> HIDE DEF one, n
      <3>4. \A m : Has(r.text \o one, m) <=> Has(r.text, m) \/ Has(one, m)
        BY <1>2, <3>2, HasBoth
      <3> QED  BY <3>1, <3>3, <3>4
    <2> QED  BY <2>1, <2>2
  <1> HIDE DEF n
  <1>12. Reaches(S, W, s)
    <2>1. S \subseteq s.seen /\ \A m \in W : Pending(s, m)
      BY <1>1, <1>9 DEF Reaches
    <2>2. \A k \in s.seen : \A m \in kids[k] : Pending(s, m)
      BY <1>1, <1>2, <1>4, <1>9, <1>10 DEF Reaches
    <2>3. \A k \in s.seen \ S : k \in DOMAIN doc => Has(s.text, k)
      BY <1>1, <1>11 DEF Reaches
    <2> QED  BY <2>1, <2>2, <2>3 DEF Reaches
  <1> QED  BY <1>12 DEF s, n

LEMMA ShowAllReaches ==
  ASSUME Parsed(doc), Linked, TextOnly, NEW list \in Seq(Items), NEW S \in SUBSET Ids, Deep(S)
  PROVE  LET s == ShowAll(list, S) IN
         /\ s.text \in Seq(Items) /\ S \subseteq s.seen /\ s.seen \subseteq Ids /\ Deep(s.seen)
         /\ \A n \in Ids : Has(list, n) => n \in s.seen
         /\ \A n \in s.seen \ S : n \in DOMAIN doc => Has(s.text, n)
  <1> DEFINE W == {n \in Ids : Has(list, n)}
             I == {r \in Showing(Items) : Reaches(S, W, r)}
             start == [todo |-> list, text |-> <<>>, seen |-> S]
             last == ShowAll(list, S)
  <1>1. start \in I
    <2>1. start \in Showing(Items) /\ start.text = <<>> /\ start.seen = S /\ start.todo = list
      BY EmptySeq DEF Showing
    <2>2. \A n \in W : Pending(start, n)
      BY DEF Pending
    <2>3. \A n \in S : \A m \in kids[n] : m \in S
      BY DEF Deep
    <2> HIDE DEF start, W
    <2>4. Reaches(S, W, start)
      BY <2>1, <2>2, <2>3 DEF Reaches, Pending
    <2> QED  BY <2>1, <2>4
  <1>2. ASSUME NEW r \in I, r.todo # <<>> PROVE ShowNext(r) \in I
    <2> DEFINE n == Head(r.todo)
               s == ShowNext(r)
    <2>1. r \in Showing(Items) /\ Reaches(S, W, r) /\ W \subseteq Ids
      OBVIOUS
    <2> HIDE DEF W
    <2>2. s \in Showing(Items)
      BY <1>2, <2>1, ShowNextIs
    <2>3. ~Cells(n) /\ n \in Items /\ Len(doc) \in Nat
      BY <1>2, <2>1, NoCells, HeadIs, NodeIs
    <2>4. CASE n < 0
      <3> DEFINE t == IF n < -Len(doc) THEN <<>> ELSE <<n>>
      <3>1. s = Pass(r, Res(t, r.seen))
        BY <2>4 DEF ShowNext
      <3>2. t \in Seq(Items) /\ n \notin Ids
        BY <2>3, <2>4 DEF Ids
      <3> HIDE DEF s, t
      <3>3. Reaches(S, W, s)
        BY <1>2, <2>1, <3>1, <3>2, PassReaches
      <3> QED  BY <2>2, <3>3 DEF s
    <2>5. CASE ~(n < 0) /\ n \in r.seen
      <3>1. s = Pass(r, Res(<<>>, r.seen))
        BY <2>5 DEF ShowNext
      <3>2. <<>> \in Seq(Items)
        OBVIOUS
      <3> HIDE DEF s
      <3>3. Reaches(S, W, s)
        BY <1>2, <2>1, <2>5, <3>1, <3>2, PassReaches
      <3> QED  BY <2>2, <3>3 DEF s
    <2>6. CASE ~(n < 0) /\ n \notin r.seen
      <3>1. s = Take(r, n)
        BY <2>3, <2>6 DEF ShowNext
      <3>2. n \in Ids
        BY <2>3, <2>6 DEF Ids, Items
      <3> HIDE DEF s
      <3>3. Reaches(S, W, s)
        BY <1>2, <2>1, <3>1, <3>2, TakeReaches
      <3> QED  BY <2>2, <3>3 DEF s
    <2> QED  BY <2>4, <2>5, <2>6
  <1>3. I \in SUBSET Showing(Items)
    OBVIOUS
  <1> HIDE DEF I
  <1>4. last \in I /\ last.todo = <<>>
    BY <1>1, <1>2, <1>3, ShowAllKeeps
  <1> HIDE DEF last
  <1>5. last \in Showing(Items) /\ Reaches(S, W, last)
    BY <1>4 DEF I
  <1>6. \A n : Pending(last, n) => n \in last.seen
    BY <1>4, HasNone DEF Pending
  <1>7. last.text \in Seq(Items) /\ last.seen \subseteq Ids
    BY <1>5 DEF Showing
  <1>8. Deep(last.seen)
    BY <1>5, <1>6 DEF Reaches, Deep
  <1>9. \A n \in Ids : Has(list, n) => n \in last.seen
    BY <1>5, <1>6 DEF Reaches
  <1> QED  BY <1>5, <1>7, <1>8, <1>9 DEF last, Reaches

(* The list around a hit holds the section that the hit stands in.          *)
LEMMA SpreadHas ==
  ASSUME Parsed(doc), Linked, NEW top \in Ids, top # 0
  PROVE  Has(Spread(top).list, top)
  <1> DEFINE I == {r \in Spreading : Has(r.list, top)}
  <1>1. Beginning(top) \in I
    BY BeginningIs, HasOne DEF Beginning
  <1>2. ASSUME NEW r \in I PROVE AddRight(AddLeft(r)) \in I
    <2> DEFINE a == AddLeft(r)
               b == AddRight(a)
    <2>1. r \in Spreading /\ Has(r.list, top) /\ r.list \in Seq(Ids) /\ r.left \in Ids
      BY DEF Spreading
    <2>2. a \in Spreading /\ b \in Spreading
      BY <2>1, AddLeftIs, AddRightIs
    <2>3. Has(a.list, top)
      <3>1. a.list = r.list \/ a.list = <<r.left>> \o r.list
        BY <2>1 DEF AddLeft, Spreading
      <3>2. <<r.left>> \in Seq(Ids)
        BY <2>1
      <3>3. Has(<<r.left>> \o r.list, top)
        BY <2>1, <3>2, HasBoth
      <3> QED  BY <2>1, <3>1, <3>3
    <2> HIDE DEF a
    <2>4. a.list \in Seq(Ids) /\ a.right \in Ids
      BY <2>2 DEF Spreading
    <2>5. Has(b.list, top)
      <3>1. b.list = a.list \/ b.list = Append(a.list, a.right)
        BY <2>2 DEF AddRight, Spreading
      <3>2. <<a.right>> \in Seq(Ids) /\ Append(a.list, a.right) = a.list \o <<a.right>>
        BY <2>4, AppendIsConcat
      <3>3. Has(a.list \o <<a.right>>, top)
        BY <2>3, <2>4, <3>2, HasBoth
      <3> QED  BY <2>3, <3>1, <3>2, <3>3
    <2> HIDE DEF b
    <2>6. b \in I
      BY <2>2, <2>5
    <2> QED  BY <2>6 DEF a, b
  <1>3. I \in SUBSET Spreading
    OBVIOUS
  <1> HIDE DEF I
  <1>4. Spread(top) \in I
    BY <1>1, <1>2, <1>3, SpreadKeeps
  <1> QED  BY <1>4 DEF I

LEMMA ReadyHas ==
  ASSUME Parsed(doc), Linked, NEW h \in Ids, h # 0
  PROVE  Has(Ready(h), Climb(h))
  <1> DEFINE top == Climb(h)
             p == link[top]["parent"]
             r == Spread(top)
  <1>1. top \in Ids /\ top # 0
    BY ClimbIs
  <1> HIDE DEF top
  <1>2. Has(r.list, top) /\ r.list \in Seq(Ids) /\ p \in Ids
    BY <1>1, SpreadHas, SpreadIs, ChunksAre DEF Spreading, Linked, LinkType
  <1>3. Ids \subseteq Items /\ \A n \in Ids : -n \in Items
    BY NodeIs, IdsAreItems DEF Ids, Items
  <1> HIDE DEF r, p
  <1>4. r.list \in Seq(Items)
    BY <1>2, <1>3, SeqMonotonic
  <1>5. Heading(p, r) \in Seq(Items)
    BY <1>2, <1>3 DEF Heading
  <1>6. Has(Heading(p, r) \o r.list, top)
    BY <1>2, <1>4, <1>5, HasBoth
  <1>7. Ready(h) = <<top>> \/ Ready(h) = Heading(p, r) \o r.list
    BY DEF Ready, ReadyAt, Neighbourhood, top, p, r
  <1>8. Has(<<top>>, top)
    BY HasOne
  <1> QED  BY <1>6, <1>7, <1>8 DEF top

LEMMA ClimbHolds ==
  ASSUME Parsed(doc), Linked, Nested, NEW h \in Ids, h # 0, NEW C, Deep(C), Climb(h) \in C
  PROVE  h \in C
  <1> DEFINE I == {n \in Ids \ {0} : \A B : n \in B /\ Deep(B) => h \in B}
  <1>1. I \in SUBSET (Ids \ {0}) /\ h \in I
    OBVIOUS
  <1>2. ASSUME NEW n \in I, link[n]["parent"] # 0 PROVE link[n]["parent"] \in I
    <2> DEFINE p == link[n]["parent"]
    <2>1. p \in Ids
      BY ChunksAre DEF Linked, LinkType
    <2>2. n \in kids[p]
      BY <1>2 DEF Nested
    <2> HIDE DEF p
    <2>3. ASSUME NEW B, p \in B, Deep(B) PROVE h \in B
      BY <2>1, <2>2, <2>3 DEF Deep
    <2>4. p # 0
      BY <1>2 DEF p
    <2>5. p \in I
      BY <2>1, <2>3, <2>4
    <2> QED  BY <2>5 DEF p
  <1> HIDE DEF I
  <1>3. Climb(h) \in I
    BY <1>1, <1>2, ClimbKeeps
  <1> QED  BY <1>3 DEF I

(* What becomes of a node that is completed.                                *)
Gives(h, S, r) ==
  /\ r.text \in Seq(Items) /\ S \subseteq r.seen /\ r.seen \subseteq Ids /\ Deep(r.seen)
  /\ \A n \in r.seen \ S : n \in DOMAIN doc => Has(r.text, n)
  /\ doc[h].sized => h \in r.seen

LEMMA MostCompleteGives ==
  ASSUME Parsed(doc), Linked, TextOnly, Nested, NEW h \in DOMAIN doc, ~IsContext(h),
         NEW S \in SUBSET Ids, Deep(S)
  PROVE  Gives(h, S, MostComplete(h, S))
  <1> DEFINE r == MostComplete(h, S)
  <1>1. /\ h \in Ids /\ h # 0 /\ h \in Items /\ h \in Int /\ <<>> \in Seq(Items) /\ <<h>> \in Seq(Items)
        /\ Size(h) \in Int /\ Budget \in Nat /\ ~Cells(h)
        /\ Size(h) < 0 <=> ~doc[h].sized
    BY NodeIs, IdsAreItems, NodeTokenIs, NoCells, BudgetAssumption
  <1>2. CASE h \in S
    <2> HIDE DEF r
    <2> QED  BY <1>2, <1>1 DEF MostComplete, Res, Gives, r
  <1>3. CASE h \notin S /\ Size(h) < 0
    <2>1. r = MoreInfo(h, S)
      BY <1>3 DEF MostComplete
    <2>2. r = Res(<<>>, S) \/ r = Res(<<h>>, S \cup {h})
      BY <1>1, <2>1 DEF MoreInfo, Res
    <2>3. \/ r.text = <<>> /\ r.seen = S
          \/ r.text = <<h>> /\ r.seen = S \cup {h}
      BY <2>2 DEF Res
    <2> HIDE DEF r
    <2>4. kids[h] = {}
      BY <1>1, <1>3 DEF Nested, Parsed
    <2>5. Deep(S \cup {h})
      BY <2>4 DEF Deep
    <2>6. CASE r.text = <<>> /\ r.seen = S
      BY <1>1, <1>3, <2>6 DEF Gives, r
    <2>7. CASE r.text = <<h>> /\ r.seen = S \cup {h}
      BY HasOne, <1>1, <2>5, <2>7 DEF Gives, r
    <2> QED  BY <2>3, <2>6, <2>7
  <1>4. CASE h \notin S /\ ~(Size(h) < 0)
    <2> DEFINE list == IF Size(h) > Budget THEN <<h>> ELSE Ready(h)
    <2>1. r = ShowAll(list, S)
      BY <1>4 DEF MostComplete
    <2>2. list \in Seq(Items)
      BY <1>1, ReadyIs
    <2>3. list = <<h>> \/ list = Ready(h)
      OBVIOUS
    <2> HIDE DEF list, r
    <2>4. /\ r.text \in Seq(Items) /\ S \subseteq r.seen /\ r.seen \subseteq Ids /\ Deep(r.seen)
          /\ \A n \in Ids : Has(list, n) => n \in r.seen
          /\ \A n \in r.seen \ S : n \in DOMAIN doc => Has(r.text, n)
      BY <2>1, <2>2, ShowAllReaches
    <2>5. h \in r.seen
      <3>1. CASE list = <<h>>
        BY <3>1, HasOne, <1>1, <2>4
      <3>2. CASE list = Ready(h)
        BY <1>1, ClimbIs, <3>2, ReadyHas, <2>4, ClimbHolds
      <3> QED  BY <2>3, <3>1, <3>2
    <2>6. Gives(h, S, r)
      BY <2>4, <2>5 DEF Gives
    <2> QED  BY <2>6 DEF r
  <1> QED  BY <1>2, <1>3, <1>4

-----------------------------------------------------------------------------
(* Of the nodes that were recalled, those that are done are marked, and all *)
(* that is marked stands in a text.                                         *)
Answered ==
  /\ hits \in Seq(kept) /\ Deep(seen)
  /\ Whole => \A n \in seen : n \in DOMAIN doc => \E g \in DOMAIN result : Has(result[g].text, n)
  /\ \A i \in 1..Len(hits) : Has(queue, hits[i]) \/ ~doc[hits[i]].sized \/ hits[i] \in seen
  /\ \A i \in 1..Len(queue) : queue[i] \notin DOMAIN result
  /\ pc = "end" => queue = <<>>
HitInv ==
  TextOnly =>
    /\ pc = "mock" \/ (pc = "recall" /\ ~failed) => Nested
    /\ pc \in {"complete", "end"} => Nested /\ (mode = "complete" => Answered)

LEMMA CompleteNodeHits ==
  ASSUME RelInv, ShowInv, HitInv, CompleteNode
  PROVE  HitInv'
  <1> SUFFICES ASSUME TextOnly' PROVE Nested' /\ Answered'
    BY DEF HitInv, CompleteNode, Done
  <1> DEFINE h == Head(queue)
             r == MostComplete(h, seen)
             q == Tail(queue)
             e == Limited(r.text, Budget)
             told == Results(h, r, Budget)
  <1>1. /\ pc = "complete" /\ mode = "complete" /\ mode' = mode
        /\ doc' = doc /\ kept' = kept /\ link' = link /\ kids' = kids /\ hits' = hits
        /\ seen' = r.seen /\ queue' = q /\ result' = told
        /\ pc' = IF Len(queue) = 1 THEN "end" ELSE pc
    BY DEF CompleteNode, Done, tree, relations
  <1>2. TextOnly
    BY <1>1 DEF TextOnly
  <1>3. /\ Nested /\ Answered
        /\ Ids' = Ids
    BY <1>1, <1>2 DEF HitInv, Ids
  <1>4. Nested'
    BY <1>1, <1>3 DEF Nested
  <1>5. /\ Parsed(doc) /\ Linked /\ kept \subseteq DOMAIN doc /\ h = queue[1] /\ h \in DOMAIN doc
        /\ ~IsContext(h) /\ seen \in SUBSET Ids /\ 1 \in 1..Len(queue) /\ Deep(seen)
        /\ queue \in Seq(kept) /\ queue # <<>>
        /\ \A i, j \in 1..Len(queue) : queue[i] = queue[j] => i = j
    <2>1. /\ Parsed(doc) /\ Linked /\ kept \subseteq DOMAIN doc /\ h = queue[1] /\ h \in DOMAIN doc
          /\ 1 \in 1..Len(queue) /\ \A i \in 1..Len(queue) : ~IsContext(queue[i])
      BY <1>1, HeadOfQueue
    <2>2. ~IsContext(queue[1])
      BY <2>1
    <2>3. Waiting /\ Rows(seen)
      BY <1>1 DEF ShowInv
    <2> HIDE DEF h
    <2> QED  BY <1>3, <2>1, <2>2, <2>3 DEF Waiting, InTurn, Listed, Rows, Answered
  <1> HIDE DEF h
  <1>6. Gives(h, seen, r)
    BY <1>2, <1>3, <1>5, MostCompleteGives
  <1>7. /\ Len(queue) \in Nat /\ Len(q) = Len(queue) - 1 /\ q \in Seq(kept)
        /\ \A i \in 1..Len(q) : i + 1 \in 1..Len(queue) /\ i + 1 # 1 /\ q[i] = queue[i + 1]
    BY <1>5, TailIs
  <1>8. \A n : Has(queue, n) => n = h \/ Has(q, n)
    BY <1>5, HasTail DEF h
  <1> HIDE DEF r, q
  <1>9. /\ r.text = <<>> => told = result
        /\ r.text # <<>> => /\ DOMAIN told = DOMAIN result \cup {h}
                            /\ \A g \in DOMAIN result : told[g] = result[g]
                            /\ h \notin DOMAIN result => told[h] = e
    BY DEF Results
  <1>10. h \notin DOMAIN result /\ \A i \in 1..Len(q) : q[i] \notin DOMAIN told
    <2>1. \A i \in 1..Len(queue) : queue[i] \notin DOMAIN result
      BY <1>3 DEF Answered
    <2>2. h \notin DOMAIN result
      BY <1>5, <2>1
    <2> HIDE DEF told
    <2>3. ASSUME NEW i \in 1..Len(q) PROVE q[i] \notin DOMAIN told
      BY <1>7, <2>1, <1>5, <1>9
    <2> QED  BY <2>2, <2>3
  <1>11. ~e.cut => e.text = r.text
    BY DEF Limited
  <1> HIDE DEF e, told
  <1>12. ASSUME \A g \in DOMAIN told : ~told[g].cut, NEW n \in r.seen, n \in DOMAIN doc
         PROVE  \E g \in DOMAIN told : Has(told[g].text, n)
    <2>1. \A g \in DOMAIN result : g \in DOMAIN told /\ told[g] = result[g]
      BY <1>9
    <2>2. CASE n \in seen
      <3>1. Whole
        BY <1>12, <2>1 DEF Whole
      <3>2. PICK g \in DOMAIN result : Has(result[g].text, n)
        BY <1>3, <1>12, <2>2, <3>1 DEF Answered
      <3> QED  BY <2>1, <3>2
    <2>3. CASE n \notin seen
      <3>1. Has(r.text, n)
        BY <1>6, <1>12, <2>3 DEF Gives
      <3>2. r.text # <<>>
        BY <3>1, HasNone
      <3>3. h \in DOMAIN told /\ told[h] = e
        BY <1>9, <1>10, <3>2
      <3>4. told[h].text = r.text
        BY <1>11, <1>12, <3>3
      <3> QED  BY <3>1, <3>3, <3>4
    <2> QED  BY <2>2, <2>3
  <1>13. \A i \in 1..Len(hits) : Has(q, hits[i]) \/ ~doc[hits[i]].sized \/ hits[i] \in r.seen
    <2> SUFFICES ASSUME NEW i \in 1..Len(hits), ~Has(q, hits[i]), doc[hits[i]].sized
                 PROVE  hits[i] \in r.seen
      OBVIOUS
    <2>1. Has(queue, hits[i]) \/ hits[i] \in seen
      BY <1>3 DEF Answered
    <2>2. CASE hits[i] \in seen
      BY <1>6, <2>2 DEF Gives
    <2>3. CASE Has(queue, hits[i])
      BY <1>8, <2>3, <1>6 DEF Gives
    <2> QED  BY <2>1, <2>2, <2>3
  <1>14. Deep(seen)'
    BY <1>1, <1>3, <1>6 DEF Deep, Gives
  <1>15. pc' = "end" => queue' = <<>>
    BY <1>1, <1>7, EmptySeq
  <1>16. Answered'
    <2>1. hits' \in Seq(kept')
      BY <1>1, <1>3 DEF Answered
    <2>2. Whole' => \A n \in seen' : n \in DOMAIN doc' => \E g \in DOMAIN result' : Has(result'[g].text, n)
      BY <1>1, <1>12 DEF Whole
    <2>3. \A i \in 1..Len(hits') : Has(queue', hits'[i]) \/ ~doc'[hits'[i]].sized \/ hits'[i] \in seen'
      BY <1>1, <1>13
    <2>4. \A i \in 1..Len(queue') : queue'[i] \notin DOMAIN result'
      BY <1>1, <1>10
    <2> QED  BY <1>14, <1>15, <2>1, <2>2, <2>3, <2>4 DEF Answered, Has
  <1> QED  BY <1>4, <1>16

LEMMA MergeContextsHits ==
  ASSUME HitInv, MergeContexts
  PROVE  HitInv'
  <1> SUFFICES ASSUME TextOnly' PROVE Nested' /\ mode' = "context"
    BY DEF HitInv, MergeContexts, Done
  <1>1. /\ pc = "complete" /\ mode = "context" /\ mode' = mode
        /\ doc' = doc /\ kept' = kept /\ link' = link /\ kids' = kids
    BY DEF MergeContexts, Done, tree, relations
  <1>2. TextOnly
    BY <1>1 DEF TextOnly
  <1>3. Nested /\ Ids' = Ids
    BY <1>1, <1>2 DEF HitInv, Ids
  <1> QED  BY <1>1, <1>3 DEF Nested

LEMMA RecallHits ==
  ASSUME RelInv, ShowInv, HitInv, Recall
  PROVE  HitInv'
  <1> SUFFICES ASSUME TextOnly' PROVE Nested' /\ (mode' = "complete" => Answered')
    BY DEF HitInv, Recall
  <1>1. /\ pc = "recall" /\ pc' = "complete" /\ doc' = doc /\ kept' = kept
        /\ result' = result /\ seen' = seen /\ result = <<>> /\ seen = {} /\ Ids' = Ids
        /\ Len(doc) \in Nat
    BY NodeIs DEF Recall, ShowInv, tree, Ids, RelInv, DocOK
  <1>2. PICK k \in 1..MaxHits : \E list \in [1..k -> kept] :
         /\ hits' = list /\ queue' = QueueOf(mode', list)
         /\ link' = IF failed \/ ~Relevant(list) THEN Unlinked ELSE link
         /\ kids' = IF failed \/ ~Relevant(list) THEN [n \in Ids |-> {}] ELSE kids
    BY DEF Recall
  <1>3. PICK list \in [1..k -> kept] :
         /\ hits' = list /\ queue' = QueueOf(mode', list)
         /\ link' = IF failed \/ ~Relevant(list) THEN Unlinked ELSE link
         /\ kids' = IF failed \/ ~Relevant(list) THEN [n \in Ids |-> {}] ELSE kids
    BY <1>2
  <1>4. Nested'
    <2>1. CASE failed \/ ~Relevant(list)
      BY <1>3, <2>1, KeysAre, <1>1 DEF Unlinked, Nested
    <2>2. CASE ~(failed \/ ~Relevant(list))
      BY <1>3, <2>2, <1>1 DEF TextOnly, HitInv, Nested
    <2> QED  BY <2>1, <2>2
  <1>5. ASSUME mode' = "complete" PROVE Answered'
    <2>1. queue' = hits' /\ hits' = list
      BY <1>3, <1>5 DEF QueueOf
    <2>2. k \in Nat /\ list \in Seq(kept)
      BY BudgetAssumption, SeqDef
    <2>3. \A i \in 1..Len(list) : Has(list, list[i])
      BY DEF Has
    <2>4. DOMAIN result' = {} /\ seen' = {}
      BY <1>1
    <2> QED  BY <1>1, <2>1, <2>2, <2>3, <2>4 DEF Answered, Deep, Has
  <1> QED  BY <1>4, <1>5

(* The steps of the rebuild.                                                *)
LEMMA HitSame ==
  ASSUME HitInv, SameFile, pc' = pc, UNCHANGED completing
  PROVE  HitInv'
  <1>1. /\ doc' = doc /\ kept' = kept /\ link' = link /\ kids' = kids /\ failed' = failed /\ Ids' = Ids
        /\ mode' = mode /\ hits' = hits /\ queue' = queue /\ seen' = seen /\ result' = result
    BY DEF SameFile, completing, Ids
  <1>2. /\ TextOnly' <=> TextOnly
        /\ Nested => Nested'
        /\ Whole' <=> Whole
        /\ Deep(seen) => Deep(seen)'
    BY <1>1 DEF TextOnly, Nested, Whole, Deep
  <1>3. Answered => Answered'
    BY <1>1, <1>2 DEF Answered, Has
  <1> QED  BY <1>1, <1>2, <1>3 DEF HitInv

LEMMA ExpandHits ==
  ASSUME RelInv, ShowInv, Expand
  PROVE  HitInv'
  <1> DEFINE heads == {n \in Structure : link[n]["head_child"] # 0}
             lost == \/ \E n \in Structure : Dangles(n, "head_child")
                     \/ \E n \in heads : \E m \in Level(HeadChild(n)), key \in SameLevel :
                           Dangles(m, key)
  <1>1. /\ WalkOK /\ LinkType /\ Structure \subseteq visited
        /\ doc' = doc /\ kept' = kept /\ link' = link /\ Ids' = Ids
        /\ Bare(visited) /\ Parsed(doc) /\ kept \subseteq DOMAIN doc
        /\ visited = Structure /\ (\A n \in Structure : Faithful(n)) /\ Structure \subseteq DOMAIN doc
    BY DEF RelInv, ShowInv, Expand, tree, DocOK, Ids, WalkOK, Structure
  <1>2. /\ failed' = lost /\ pc' = IF lost THEN "recall" ELSE "mock"
        /\ kids' = IF lost THEN kids
                   ELSE [n \in Ids |-> IF n \in heads THEN Level(HeadChild(n)) ELSE {}]
    BY DEF Expand
  <1>3. CASE lost
    <2> HIDE DEF lost
    <2> QED  BY <1>2, <1>3 DEF HitInv
  <1>4. CASE ~lost
    <2>1. /\ \A n \in Structure : ~Dangles(n, "head_child")
          /\ \A s \in heads : \A m \in Level(HeadChild(s)), key \in SameLevel : ~Dangles(m, key)
      BY <1>4
    <2> HIDE DEF lost
    <2>2. kids' = [n \in Ids |-> IF n \in heads THEN Level(HeadChild(n)) ELSE {}]
      BY <1>2, <1>4
    <2>3. ASSUME TextOnly' PROVE Nested'
      <3>1. TextOnly
        BY <1>1, <2>3 DEF TextOnly
      <3>2. ASSUME NEW s \in Ids, NEW n \in kids'[s]
            PROVE  s \in DOMAIN doc /\ n \in DOMAIN doc /\ doc[n].under = s
        BY <2>2, <3>2, <1>1, <2>1, LevelIs
      <3>3. ASSUME NEW n \in Ids, link[n]["parent"] # 0 PROVE n \in kids'[link[n]["parent"]]
        <4> DEFINE s == link[n]["parent"]
        <4>1. "parent" \in Range(Keys)
          BY KeysAre
        <4>2. n \in Structure
          BY <1>1, <3>3, <4>1 DEF Bare
        <4>3. Dom(n, "parent") = doc[n].under
          BY DEF Dom
        <4>4. s = doc[n].under /\ doc[n].under \in kept /\ doc[n].under # 0
          BY <1>1, <3>3, <4>1, <4>2, <4>3 DEF Faithful, Dangles
        <4>5. doc[s].kind = "text" /\ s \in kept
          BY <1>1, <4>2, <4>4 DEF Parsed
        <4> HIDE DEF s
        <4>6. s \in Structure /\ s \in Ids
          BY <4>5, <1>1, NodeIs DEF Structure
        <4>7. link[s]["head_child"] # 0 /\ n \in Level(HeadChild(s))
          <5>1. link[s]["head_child"] # 0 =>
                  \A m \in Level(HeadChild(s)), key \in SameLevel : ~Dangles(m, key)
            BY <2>1, <4>6
          <5>2. doc[n].under = s
            BY <4>4
          <5> QED  BY <1>1, <2>1, <3>1, <4>2, <4>6, <5>1, <5>2, LevelAll
        <4>8. s \in heads
          BY <4>6, <4>7
        <4> HIDE DEF heads
        <4>9. n \in kids'[s]
          BY <2>2, <4>6, <4>7, <4>8
        <4> QED  BY <4>9 DEF s
      <3> QED  BY <1>1, <3>2, <3>3 DEF Nested
    <2>4. pc' = "mock"
      BY <1>2, <1>4
    <2> QED  BY <2>3, <2>4 DEF HitInv
  <1> QED  BY <1>3, <1>4

LEMMA MockHits ==
  ASSUME RelInv, ShowInv, HitInv, MockTables
  PROVE  HitInv'
  <1> DEFINE sections == {n \in Structure : \E c \in kids[n] : IsTable(c)}
             Of(n) == n - Len(doc)
  <1>1. /\ pc = "mock" /\ pc' = "recall" /\ doc' = doc /\ Ids' = Ids /\ Parsed(doc)
        /\ kids' = [n \in Ids |-> CASE n \in sections   -> {Mock(n)}
                                    [] Of(n) \in sections -> kids[Of(n)]
                                    [] OTHER -> kids[n]]
        /\ link' = [n \in Ids |->
              CASE \E s \in sections : n \in kids[s] ->
                      [link[n] EXCEPT !["parent"] = Mock(CHOOSE s \in sections : n \in kids[s])]
                [] Of(n) \in sections -> [link[n] EXCEPT !["parent"] = Of(n)]
                [] OTHER -> link[n]]
    BY DEF MockTables, tree, Ids, RelInv, DocOK
  <1>2. ASSUME TextOnly' PROVE Nested'
    <2>1. TextOnly
      BY <1>1, <1>2 DEF TextOnly
    <2>2. sections = {}
      BY <1>1, <2>1, NoCells
    <2>3. Nested
      BY <1>1, <2>1 DEF HitInv
    <2> HIDE DEF sections
    <2>4. \A n \in Ids : kids'[n] = kids[n] /\ link'[n] = link[n]
      BY <1>1, <2>2
    <2>5. doc' = doc /\ Ids' = Ids
      BY <1>1
    <2>6. \A s \in Ids : \A n \in kids'[s] : s \in DOMAIN doc /\ n \in DOMAIN doc /\ doc[n].under = s
      BY <2>3, <2>4 DEF Nested
    <2>7. \A n \in Ids : link'[n]["parent"] # 0 => n \in kids'[link'[n]["parent"]]
      <3> SUFFICES ASSUME NEW n \in Ids, link[n]["parent"] # 0 PROVE n \in kids'[link[n]["parent"]]
        BY <2>4
      <3>1. n \in kids[link[n]["parent"]]
        BY <2>3 DEF Nested
      <3>2. link[n]["parent"] \in Ids
        BY <1>1, KeysAre DEF RelInv, LinkType
      <3> QED  BY <2>4, <3>1, <3>2
    <2> QED  BY <2>5, <2>6, <2>7 DEF Nested
  <1> QED  BY <1>1, <1>2 DEF HitInv

(* The steps of the contexts.                                               *)
LEMMA SaveHits ==
  ASSUME RelInv, HitInv, SaveContext
  PROVE  HitInv'
  <1>1. /\ DOMAIN doc' = DOMAIN doc /\ Len(doc') = Len(doc) /\ kids' = kids /\ link' = link
        /\ \A n \in DOMAIN doc : doc'[n].under = doc[n].under /\ doc'[n].kind = doc[n].kind
        /\ pc = "recall" /\ pc' = "recall" /\ failed' = failed
    BY SaveChanges
  <1>2. Ids' = Ids
    BY <1>1 DEF Ids
  <1>3. TextOnly' <=> TextOnly
    BY <1>1 DEF TextOnly
  <1>4. Nested => Nested'
    BY <1>1, <1>2 DEF Nested
  <1> QED  BY <1>1, <1>3, <1>4 DEF HitInv

LEMMA HitInit == InitContexts => HitInv
  BY DEF InitContexts, InitAll, Init, HitInv

LEMMA HitNext == RelInv /\ ShowInv /\ HitInv /\ [NextContexts]_<<vars, context>> => HitInv'
  <1> SUFFICES ASSUME RelInv, ShowInv, HitInv, [NextContexts]_<<vars, context>> PROVE HitInv'
    OBVIOUS
  <1>1. CASE StartWalk /\ UNCHANGED completing
    BY <1>1, HitSame DEF StartWalk, SameFile, tree, relations
  <1>2. CASE Visit /\ UNCHANGED completing
    BY <1>2 DEF Visit, HitInv
  <1>3. CASE Expand /\ UNCHANGED completing
    BY <1>3, ExpandHits
  <1>4. CASE MockTables /\ UNCHANGED completing
    BY <1>4, MockHits
  <1>5. CASE Recall
    BY <1>5, RecallHits
  <1>6. CASE CompleteNode
    BY <1>6, CompleteNodeHits
  <1>7. CASE MergeContexts
    BY <1>7, MergeContextsHits
  <1>8. CASE Summarize
    BY <1>8, HitSame DEF Summarize, SameFile, tree, relations
  <1>9. CASE Unanswered
    BY <1>9, HitSame DEF Unanswered, SameFile, tree, relations
  <1>10. CASE SaveContext
    BY <1>10, SaveHits
  <1>11. CASE SummaryDone
    BY <1>11 DEF SummaryDone, Unrelated, HitInv
  <1>12. CASE Die
    BY <1>12 DEF Die, Unrelated, HitInv
  <1>13. CASE UNCHANGED <<vars, context>>
    BY <1>13, HitSame DEF SameFile, vars, tree, relations
  <1> QED  BY <1>1, <1>2, <1>3, <1>4, <1>5, <1>6, <1>7, <1>8, <1>9, <1>10, <1>11, <1>12, <1>13
           DEF NextContexts, Next, Rebuild

(* In a document of texts every node that was recalled is given, unless a   *)
(* text was cut off: by itself or with the node around which it was marked. *)
THEOREM HitsGivenStands == SpecContexts => []HitsGiven
  <1>1. ASSUME RelInv, ShowInv, HitInv PROVE HitsGiven
    <2> SUFFICES ASSUME pc = "end", mode = "complete", TextOnly, Whole,
                        NEW i \in DOMAIN hits, Size(hits[i]) >= 0
                 PROVE  Occurrences(hits[i]) # {}
      BY DEF HitsGiven
    <2> DEFINE n == hits[i]
    <2>1. /\ Parsed(doc) /\ kept \subseteq DOMAIN doc /\ Answered /\ GivenIn(result, seen)
          /\ hits \in Seq(kept) /\ queue = <<>>
      BY <1>1 DEF RelInv, DocOK, HitInv, ShowInv, Answered
    <2>2. i \in 1..Len(hits) /\ n \in kept /\ n \in DOMAIN doc
      BY <2>1, LenProperties, ElementOfSeq
    <2>3. doc[n].sized
      BY <2>1, <2>2, NodeIs, NodeTokenIs
    <2>4. Has(queue, n) \/ ~doc[n].sized \/ n \in seen
      BY <2>1, <2>2 DEF Answered
    <2> HIDE DEF n
    <2>5. n \in seen
      BY <2>1, <2>3, <2>4, HasNone
    <2>6. PICK g \in DOMAIN result : Has(result[g].text, n)
      BY <2>1, <2>2, <2>5 DEF Answered
    <2>7. PICK j \in 1..Len(result[g].text) : result[g].text[j] = n
      BY <2>6 DEF Has
    <2>8. j \in DOMAIN result[g].text
      BY <2>1, LenProperties DEF GivenIn
    <2> DEFINE p == <<g, j>>
    <2>9. p \in {g} \X DOMAIN result[g].text /\ result[p[1]].text[p[2]] = n
      BY <2>7, <2>8
    <2> HIDE DEF p
    <2>10. p \in Occurrences(n)
      BY <2>9 DEF Occurrences
    <2> QED  BY <2>10 DEF n
  <1> QED  BY <1>1, RelInit, RelNext, ShowInit, ShowNextStep, HitInit, HitNext, PTL DEF SpecContexts

-----------------------------------------------------------------------------
(* Sums.  What holds at 0 and goes on by one holds up to N.                 *)
LEMMA UpTo ==
  ASSUME NEW N \in Nat, NEW G, 0 \in G, \A k \in 1..N : k - 1 \in G => k \in G
  PROVE  \A k \in 0..N : k \in G
  <1> DEFINE T == {k \in 0..N : k \notin G}
  <1> SUFFICES ASSUME T # {} PROVE FALSE
    OBVIOUS
  <1>1. PICK x \in T : \A y \in T : x <= y
    <2>1. T \subseteq Nat
      OBVIOUS
    <2> HIDE DEF T
    <2> QED  BY <2>1, LeastOf
  <1>2. x # 0 /\ x \in 0..N /\ x \notin G
    BY <1>1
  <1>3. x \in 1..N /\ x - 1 \in 0..N /\ ~(x <= x - 1)
    BY <1>2
  <1>4. x - 1 \in G
    BY <1>1, <1>3
  <1> QED  BY <1>2, <1>3, <1>4

Total(w, n) == (CHOOSE f : SumOf(f, w, n))[n]
Terms(w, n) == \A k \in 1..n : w[k] \in Nat

LEMMA SumStep ==
  ASSUME NEW n \in Nat, NEW w, NEW f, SumOf(f, w, n)
  PROVE  f[0] = 0 /\ \A k \in 1..n : f[k] = f[k - 1] + w[k]
  BY DEF SumOf

LEMMA TotalOf ==
  ASSUME NEW n \in Nat, NEW w, Terms(w, n), NEW f, SumOf(f, w, n)
  PROVE  \A k \in 0..n : f[k] = Total(w, k) /\ f[k] \in Nat
  <1>1. ASSUME NEW k \in 0..n PROVE f[k] = Total(w, k) /\ f[k] \in Nat
    <2> DEFINE g == CHOOSE g : SumOf(g, w, k)
               G == {j \in 0..k : f[j] = g[j]}
               h == [j \in 0..k |-> f[j]]
    <2>1. k \in Nat /\ Terms(w, k)
      BY DEF Terms
    <2>2. SumOf(g, w, k)
      BY <2>1, SumsAre DEF Terms
    <2>3. f[0] = 0 /\ \A j \in 1..n : f[j] = f[j - 1] + w[j]
      BY SumStep
    <2> HIDE DEF g
    <2>4. g[0] = 0 /\ \A j \in 1..k : g[j] = g[j - 1] + w[j]
      BY <2>1, <2>2, SumStep
    <2>5. 0 \in G /\ \A j \in 1..k : j - 1 \in G => j \in G
      BY <2>1, <2>3, <2>4
    <2> HIDE DEF G
    <2>6. k \in G
      BY <2>1, <2>5, UpTo
    <2>7. f[k] = g[k]
      BY <2>6 DEF G
    <2>8. g[k] \in Nat
      BY <2>1, <2>2, SumsAre DEF Terms
    <2> QED  BY <2>7, <2>8 DEF Total, g
  <1> QED  BY <1>1

LEMMA TotalIs ==
  ASSUME NEW n \in Nat, NEW w, Terms(w, n)
  PROVE  /\ Total(w, 0) = 0
         /\ \A k \in 1..n : Total(w, k) = Total(w, k - 1) + w[k]
         /\ \A k \in 0..n : Total(w, k) \in Nat
  <1>1. PICK f : SumOf(f, w, n)
    BY SumsAre DEF Terms
  <1>2. f[0] = 0 /\ \A k \in 1..n : f[k] = f[k - 1] + w[k]
    BY <1>1, SumStep
  <1>3. \A k \in 0..n : f[k] = Total(w, k) /\ f[k] \in Nat
    BY <1>1, TotalOf
  <1>4. 0 \in 0..n /\ \A k \in 1..n : k \in 0..n /\ k - 1 \in 0..n
    OBVIOUS
  <1> QED  BY <1>2, <1>3, <1>4

(* Sums of the same terms, of terms that are sums, and of terms that follow.*)
LEMMA TotalSame ==
  ASSUME NEW n \in Nat, NEW w, Terms(w, n), NEW v, \A k \in 1..n : w[k] = v[k]
  PROVE  Total(w, n) = Total(v, n)
  <1> DEFINE G == {k \in 0..n : Total(w, k) = Total(v, k)}
  <1>1. Terms(v, n)
    BY DEF Terms
  <1>2. 0 \in G /\ \A k \in 1..n : k - 1 \in G => k \in G
    BY <1>1, TotalIs
  <1> HIDE DEF G
  <1>3. n \in G
    BY <1>2, UpTo
  <1> QED  BY <1>3 DEF G

LEMMA TotalPlus ==
  ASSUME NEW n \in Nat, NEW w, Terms(w, n), NEW v, Terms(v, n), NEW u, \A k \in 1..n : u[k] = w[k] + v[k]
  PROVE  Total(u, n) = Total(w, n) + Total(v, n)
  <1> DEFINE G == {k \in 0..n : Total(u, k) = Total(w, k) + Total(v, k)}
  <1>1. Terms(u, n)
    BY DEF Terms
  <1>2. /\ Total(w, 0) = 0 /\ \A k \in 1..n : Total(w, k) = Total(w, k - 1) + w[k]
        /\ Total(v, 0) = 0 /\ \A k \in 1..n : Total(v, k) = Total(v, k - 1) + v[k]
        /\ Total(u, 0) = 0 /\ \A k \in 1..n : Total(u, k) = Total(u, k - 1) + u[k]
        /\ \A k \in 0..n : Total(w, k) \in Nat /\ Total(v, k) \in Nat
    BY <1>1, TotalIs
  <1>3. 0 \in G
    BY <1>2
  <1>4. ASSUME NEW k \in 1..n, k - 1 \in G PROVE k \in G
    BY <1>4, <1>2 DEF Terms
  <1> HIDE DEF G
  <1>5. n \in G
    BY <1>3, <1>4, UpTo
  <1> QED  BY <1>5 DEF G

Follows(u, w, n, v, m) ==
  (\A k \in 1..n : u[k] = w[k]) /\ (\A k \in 1..m : u[n + k] = v[k])

LEMMA TotalBoth ==
  ASSUME NEW n \in Nat, NEW m \in Nat, NEW w, Terms(w, n), NEW v, Terms(v, m), NEW u,
         Follows(u, w, n, v, m), NEW p, p = n + m
  PROVE  Total(u, p) = Total(w, n) + Total(v, m)
  <1>0. (\A k \in 1..n : u[k] = w[k]) /\ (\A k \in 1..m : u[n + k] = v[k])
    BY DEF Follows
  <1> DEFINE G == {k \in 0..m : Total(u, n + k) = Total(w, n) + Total(v, k)}
  <1>1. Terms(u, n + m)
    <2> SUFFICES ASSUME NEW k \in 1..n + m PROVE u[k] \in Nat
      BY DEF Terms
    <2>1. CASE k <= n
      BY <2>1, <1>0 DEF Terms
    <2>2. CASE ~(k <= n)
      BY <2>2, <1>0 DEF Terms
    <2> QED  BY <2>1, <2>2
  <1>2. n + m \in Nat
    OBVIOUS
  <1>3. /\ Total(v, 0) = 0 /\ \A k \in 1..m : Total(v, k) = Total(v, k - 1) + v[k]
        /\ \A k \in 1..n + m : Total(u, k) = Total(u, k - 1) + u[k]
        /\ \A k \in 0..m : Total(v, k) \in Nat
        /\ \A k \in 0..n : Total(w, k) \in Nat
    BY <1>1, <1>2, TotalIs
  <1>4. 0 \in G
    BY <1>0, TotalSame, <1>3
  <1>5. ASSUME NEW k \in 1..m, k - 1 \in G PROVE k \in G
    <2>1. k \in 0..m /\ k - 1 \in 0..m /\ v[k] \in Nat /\ n \in 0..n
      BY DEF Terms
    <2>2. Total(u, n + (k - 1)) = Total(w, n) + Total(v, k - 1)
      BY <1>5
    <2>3. n + k \in 1..n + m /\ (n + k) - 1 = n + (k - 1)
      OBVIOUS
    <2>4. Total(u, n + k) = Total(u, n + (k - 1)) + v[k]
      BY <1>0, <1>3, <2>3
    <2>5. Total(u, n + k) = Total(w, n) + Total(v, k)
      BY <1>3, <2>1, <2>2, <2>4
    <2> QED  BY <2>1, <2>5
  <1> HIDE DEF G
  <1>6. m \in G
    BY <1>4, <1>5, UpTo
  <1> QED  BY <1>6 DEF G

(* The sum over the items of a list.                                        *)
Tally(of, list) == Total([k \in 1..Len(list) |-> of[list[k]]], Len(list))

LEMMA TallyTerms ==
  ASSUME NEW X, NEW of, \A x \in X : of[x] \in Nat, NEW s \in Seq(X)
  PROVE  /\ Len(s) \in Nat /\ \A k \in 1..Len(s) : s[k] \in X
         /\ Terms([k \in 1..Len(s) |-> of[s[k]]], Len(s)) /\ Tally(of, s) \in Nat
  <1>1. Len(s) \in Nat /\ \A k \in 1..Len(s) : s[k] \in X
    BY LenProperties, ElementOfSeq
  <1> DEFINE w == [k \in 1..Len(s) |-> of[s[k]]]
  <1>2. Terms(w, Len(s))
    BY <1>1 DEF Terms
  <1> HIDE DEF w
  <1>3. Total(w, Len(s)) \in Nat
    BY <1>1, <1>2, TotalIs
  <1> QED  BY <1>1, <1>2, <1>3 DEF Tally, w

LEMMA TallyBoth ==
  ASSUME NEW X, NEW of, \A x \in X : of[x] \in Nat, NEW s \in Seq(X), NEW t \in Seq(X)
  PROVE  Tally(of, s \o t) = Tally(of, s) + Tally(of, t)
  <1> DEFINE a == Len(s)
             b == Len(t)
             o == s \o t
             w == [k \in 1..a |-> of[s[k]]]
             v == [k \in 1..b |-> of[t[k]]]
             u == [k \in 1..Len(o) |-> of[o[k]]]
  <1>1. /\ a \in Nat /\ b \in Nat /\ Terms(w, a) /\ Terms(v, b)
    BY TallyTerms
  <1>2. Len(o) = a + b /\ \A i \in 1..a + b : o[i] = IF i <= a THEN s[i] ELSE t[i - a]
    BY ConcatProperties, Zenon
  <1> HIDE DEF o
  <1>3. \A k \in 1..a : u[k] = w[k]
    <2> HIDE DEF a, b
    <2> QED  BY <1>1, <1>2
  <1>4. \A k \in 1..b : u[a + k] = v[k]
    <2> HIDE DEF a, b
    <2> QED  BY <1>1, <1>2
  <1> HIDE DEF a, b, u, v, w
  <1> DEFINE p == a + b
  <1>5. p = a + b
    OBVIOUS
  <1> HIDE DEF p
  <1>6. Total(u, p) = Total(w, a) + Total(v, b)
    <2>1. Follows(u, w, a, v, b)
      BY <1>3, <1>4 DEF Follows
    <2>2. a \in Nat /\ b \in Nat /\ Terms(w, a) /\ Terms(v, b)
      BY <1>1
    <2> QED  BY <1>5, <2>1, <2>2, TotalBoth
  <1> QED  BY <1>2, <1>5, <1>6 DEF Tally, a, b, o, u, v, w

LEMMA TallyNone == \A of : Tally(of, <<>>) = 0
  <1> SUFFICES ASSUME NEW of PROVE Tally(of, <<>>) = 0
    OBVIOUS
  <1> DEFINE w == [k \in 1..Len(<<>>) |-> of[<<>>[k]]]
  <1>1. Len(<<>>) = 0 /\ 0 \in Nat /\ \A k \in 1..0 : FALSE
    OBVIOUS
  <1> HIDE DEF w
  <1>2. Terms(w, 0)
    BY <1>1 DEF Terms
  <1>3. Total(w, 0) = 0
    BY <1>1, <1>2, TotalIs
  <1> QED  BY <1>1, <1>3 DEF Tally, w

LEMMA TallyOne ==
  ASSUME NEW of, NEW x, of[x] \in Nat
  PROVE  Tally(of, <<x>>) = of[x]
  <1> DEFINE w == [k \in 1..Len(<<x>>) |-> of[<<x>>[k]]]
  <1>1. Len(<<x>>) = 1 /\ 1 \in Nat /\ 1 \in 1..1 /\ 1 - 1 = 0 /\ (\A k \in 1..1 : k = 1) /\ <<x>>[1] = x
    OBVIOUS
  <1>2. w[1] = of[x]
    BY <1>1
  <1> HIDE DEF w
  <1>3. Terms(w, 1)
    BY <1>1, <1>2 DEF Terms
  <1>4. Total(w, 0) = 0 /\ Total(w, 1) = Total(w, 0) + w[1]
    BY <1>1, <1>3, TotalIs
  <1>5. Total(w, 1) = of[x]
    BY <1>2, <1>4
  <1> QED  BY <1>1, <1>5 DEF Tally, w

LEMMA TallyTail ==
  ASSUME NEW X, NEW of, \A x \in X : of[x] \in Nat, NEW s \in Seq(X), s # <<>>
  PROVE  /\ Tally(of, s) = of[Head(s)] + Tally(of, Tail(s))
         /\ Head(s) \in X /\ Tail(s) \in Seq(X) /\ of[Head(s)] \in Nat /\ Tally(of, Tail(s)) \in Nat
  <1> DEFINE a == Head(s)
             t == Tail(s)
             w == [k \in 1..1 |-> of[a]]
             v == [k \in 1..Len(t) |-> of[t[k]]]
             u == [k \in 1..Len(s) |-> of[s[k]]]
  <1>1. /\ a = s[1] /\ a \in X /\ t \in Seq(X) /\ 1 \in 1..Len(s)
        /\ Len(s) \in Nat /\ Len(t) = Len(s) - 1
        /\ \A i \in 1..Len(t) : i + 1 \in 1..Len(s) /\ t[i] = s[i + 1]
    BY TailIs
  <1> HIDE DEF a, t
  <1>2. /\ Len(t) \in Nat /\ Terms(v, Len(t)) /\ Tally(of, t) \in Nat
    BY <1>1, TallyTerms
  <1>3. Terms(w, 1) /\ w[1] = of[a] /\ 1 \in Nat
    BY <1>1 DEF Terms
  <1>4. \A k \in 1..1 : u[k] = w[k]
    BY <1>1
  <1>5. \A k \in 1..Len(t) : u[1 + k] = v[k]
    BY <1>1
  <1> HIDE DEF u, v, w
  <1>8. Len(s) = 1 + Len(t)
    BY <1>1
  <1>6. Total(u, Len(s)) = Total(w, 1) + Total(v, Len(t))
    BY <1>2, <1>3, <1>4, <1>5, <1>8, TotalBoth DEF Follows
  <1>7. Total(w, 1) = of[a]
    BY <1>1, <1>3, TotalIs
  <1>9. Tally(of, s) = Total(u, Len(s)) /\ Tally(of, t) = Total(v, Len(t))
    BY DEF Tally, u, v
  <1>10. Tally(of, s) = of[a] + Tally(of, t)
    BY <1>6, <1>7, <1>9
  <1> QED  BY <1>1, <1>2, <1>10 DEF a, t

(* count_tokens and the tokens of a set as such sums.                       *)
LEMMA TokensTally ==
  ASSUME NEW X, NEW of, \A x \in X : of[x] \in Nat /\ of[x] = Own(x), NEW text \in Seq(X)
  PROVE  Tokens(text) = Tally(of, text)
  <1> DEFINE N == Len(text)
             w == [k \in 1..N |-> of[text[k]]]
             sum == CHOOSE f : f = [k \in 0..Len(text) |-> IF k = 0 THEN 0 ELSE f[k - 1] + Own(text[k])]
  <1>1. N \in Nat /\ Terms(w, N) /\ \A k \in 1..N : text[k] \in X
    BY TallyTerms
  <1>2. \A f : SumOf(f, w, N) <=>
                 f = [k \in 0..Len(text) |-> IF k = 0 THEN 0 ELSE f[k - 1] + Own(text[k])]
    <2> SUFFICES ASSUME NEW f
                 PROVE  [k \in 0..N |-> IF k = 0 THEN 0 ELSE f[k - 1] + w[k]] =
                        [k \in 0..N |-> IF k = 0 THEN 0 ELSE f[k - 1] + Own(text[k])]
      BY DEF SumOf
    <2>1. \A k \in 0..N : k # 0 => k \in 1..N
      BY <1>1
    <2>2. \A k \in 1..N : w[k] = Own(text[k])
      BY <1>1
    <2> HIDE DEF N, w
    <2> QED  BY <2>1, <2>2
  <1>3. \E f : SumOf(f, w, N)
    <2> HIDE DEF w, N
    <2> QED  BY <1>1, SumsAre DEF Terms
  <1>4. SumOf(sum, w, N)
    <2> HIDE DEF w, N
    <2> QED  BY <1>2, <1>3
  <1>5. Tokens(text) = sum[N]
    BY DEF Tokens
  <1> HIDE DEF sum, w, N
  <1>6. sum[N] = Total(w, N)
    BY <1>1, <1>4, TotalOf
  <1> QED  BY <1>5, <1>6 DEF Tally, w, N

Counted(S) == [k \in 1..Len(doc) |-> IF k \in S THEN doc[k].own ELSE 0]
LEMMA TokensOfIs ==
  ASSUME Parsed(doc), NEW S
  PROVE  /\ Len(doc) \in Nat /\ Terms(Counted(S), Len(doc))
         /\ \A k \in 1..Len(doc) : Counted(S)[k] = IF k \in S THEN doc[k].own ELSE 0
         /\ TokensOf(S) = Total(Counted(S), Len(doc))
  <1> DEFINE N == Len(doc)
             w == Counted(S)
             sum == CHOOSE f : f = [k \in 0..Len(doc) |-> IF k = 0 THEN 0
                                        ELSE f[k - 1] + (IF k \in S THEN doc[k].own ELSE 0)]
  <1>1. /\ N \in Nat /\ \A k \in 1..N : doc[k].own \in Nat
        /\ \A k \in 1..N : w[k] = IF k \in S THEN doc[k].own ELSE 0
    BY NodeIs DEF Counted
  <1>2. Terms(w, N)
    BY <1>1 DEF Terms
  <1>3. TokensOf(S) = sum[N]
    BY DEF TokensOf
  <1> HIDE DEF w
  <1>4. \A f : SumOf(f, w, N) <=> f = [k \in 0..Len(doc) |-> IF k = 0 THEN 0
                                        ELSE f[k - 1] + (IF k \in S THEN doc[k].own ELSE 0)]
    <2> SUFFICES ASSUME NEW f
                 PROVE  [k \in 0..N |-> IF k = 0 THEN 0 ELSE f[k - 1] + w[k]] =
                        [k \in 0..N |-> IF k = 0 THEN 0
                                        ELSE f[k - 1] + (IF k \in S THEN doc[k].own ELSE 0)]
      BY DEF SumOf
    <2>1. \A k \in 0..N : k # 0 => k \in 1..N
      BY <1>1
    <2> HIDE DEF N
    <2> QED  BY <1>1, <2>1
  <1>5. \E f : SumOf(f, w, N)
    <2> HIDE DEF N
    <2> QED  BY <1>1, <1>2, SumsAre DEF Terms
  <1>6. SumOf(sum, w, N)
    <2> HIDE DEF N
    <2> QED  BY <1>4, <1>5
  <1> HIDE DEF sum, N
  <1>7. sum[N] = Total(w, N)
    BY <1>1, <1>2, <1>6, TotalOf
  <1> QED  BY <1>1, <1>2, <1>3, <1>7 DEF w, N

(* The tokens of disjoint parts add up.                                     *)
LEMMA TokensOfBoth ==
  ASSUME Parsed(doc), NEW A, NEW B, A \cap B = {}
  PROVE  TokensOf(A \cup B) = TokensOf(A) + TokensOf(B)
  <1> DEFINE C == A \cup B
             w == Counted(A)
             v == Counted(B)
             u == Counted(C)
  <1>1. /\ Len(doc) \in Nat /\ Terms(w, Len(doc)) /\ Terms(v, Len(doc))
        /\ \A k \in 1..Len(doc) : w[k] = IF k \in A THEN doc[k].own ELSE 0
        /\ \A k \in 1..Len(doc) : v[k] = IF k \in B THEN doc[k].own ELSE 0
        /\ \A k \in 1..Len(doc) : u[k] = IF k \in C THEN doc[k].own ELSE 0
        /\ TokensOf(A) = Total(w, Len(doc)) /\ TokensOf(B) = Total(v, Len(doc))
        /\ TokensOf(C) = Total(u, Len(doc))
    BY TokensOfIs
  <1>2. \A k \in 1..Len(doc) : doc[k].own \in Nat
    BY NodeIs
  <1> HIDE DEF w, v, u
  <1>3. \A k \in 1..Len(doc) : u[k] = w[k] + v[k]
    <2> SUFFICES ASSUME NEW k \in 1..Len(doc) PROVE u[k] = w[k] + v[k]
      OBVIOUS
    <2>1. k \in C <=> k \in A \/ k \in B
      OBVIOUS
    <2>2. ~(k \in A /\ k \in B)
      OBVIOUS
    <2> HIDE DEF C
    <2> QED  BY <1>1, <1>2, <2>1, <2>2
  <1> QED  BY <1>1, <1>3, TotalPlus

LEMMA TokensOfMore ==
  ASSUME Parsed(doc), NEW B, NEW A \in SUBSET B
  PROVE  TokensOf(A) <= TokensOf(B)
  <1> DEFINE C == B \ A
  <1>1. B = A \cup C /\ A \cap C = {}
    OBVIOUS
  <1>2. TokensOf(A) \in Nat /\ TokensOf(C) \in Nat
    BY TokensAre
  <1> HIDE DEF C
  <1>3. TokensOf(B) = TokensOf(A) + TokensOf(C)
    BY <1>1, TokensOfBoth
  <1> QED  BY <1>2, <1>3

LEMMA TokensOfOne ==
  ASSUME Parsed(doc), NEW n \in DOMAIN doc
  PROVE  TokensOf({n}) = doc[n].own
  <1> DEFINE w == Counted({n})
             N == Len(doc)
             G == {k \in 0..N : Total(w, k) = IF k < n THEN 0 ELSE doc[n].own}
  <1>1. N \in Nat /\ n \in 1..N /\ doc[n].own \in Nat
    BY NodeIs
  <1>2. /\ Terms(w, N) /\ TokensOf({n}) = Total(w, N)
        /\ \A k \in 1..N : w[k] = IF k = n THEN doc[n].own ELSE 0
    BY TokensOfIs
  <1> HIDE DEF w, N
  <1>3. Total(w, 0) = 0 /\ \A k \in 1..N : Total(w, k) = Total(w, k - 1) + w[k]
    BY <1>1, <1>2, TotalIs
  <1>4. 0 \in G
    BY <1>1, <1>3
  <1>5. ASSUME NEW k \in 1..N, k - 1 \in G PROVE k \in G
    BY <1>1, <1>5, <1>2, <1>3
  <1> HIDE DEF G
  <1>6. N \in G
    BY <1>1, <1>4, <1>5, UpTo
  <1> QED  BY <1>1, <1>2, <1>6 DEF G

-----------------------------------------------------------------------------
(* What stands below a node, and its tokens.                                *)
LEMMA BelowIs ==
  ASSUME Parsed(doc), NEW n \in DOMAIN doc
  PROVE  /\ Below({n}) \subseteq DOMAIN doc /\ n \in Below({n}) /\ \A x \in Below({n}) : x >= n
         /\ \A x \in Below({n}) : \A m \in DOMAIN doc : doc[m].under = x => m \in Below({n})
         /\ \A x \in Below({n}) : x = n \/ doc[x].under \in Below({n})
         /\ \A C : n \in C /\ (\A x \in C : \A m \in DOMAIN doc : doc[m].under = x => m \in C)
                     => Below({n}) \subseteq C
  <1> DEFINE next == [k \in Ids |-> {m \in DOMAIN doc : doc[m].under = k}]
             B == Below({n})
             C1 == {x \in DOMAIN doc : x >= n}
             C2 == {x \in B : x = n \/ doc[x].under \in B}
  <1>1. /\ Len(doc) \in Nat /\ DOMAIN doc = 1..Len(doc)
        /\ \A m \in DOMAIN doc : m \in Ids /\ m \in Nat /\ doc[m].under \in Nat /\ doc[m].under < m
    BY NodeIs DEF Parsed
  <1>2. /\ B \in SUBSET Ids /\ {n} \subseteq B
        /\ \A x \in B : next[x] \subseteq B
        /\ \A C : {n} \subseteq C /\ (\A x \in C : x \in Ids => next[x] \subseteq C) => B \subseteq C
    <2>1. {n} \in SUBSET Ids /\ \A k \in Ids : next[k] \subseteq Ids
      BY <1>1
    <2>2. B = Reached({n}, next)
      BY DEF Below
    <2> HIDE DEF B, next
    <2> QED  BY <1>1, <2>1, <2>2, ReachedIs
  <1>3. \A k \in Ids : next[k] = {m \in DOMAIN doc : doc[m].under = k}
    OBVIOUS
  <1> HIDE DEF next, B
  <1>4. \A C : n \in C /\ (\A x \in C : \A m \in DOMAIN doc : doc[m].under = x => m \in C) => B \subseteq C
    BY <1>2, <1>3
  <1>5. \A x \in B : \A m \in DOMAIN doc : doc[m].under = x => m \in B
    BY <1>2, <1>3
  <1>6. B \subseteq C1
    <2>1. n \in C1
      BY <1>1
    <2>2. ASSUME NEW x \in C1, NEW m \in DOMAIN doc, doc[m].under = x PROVE m \in C1
      BY <1>1, <2>2
    <2> HIDE DEF C1
    <2> QED  BY <1>4, <2>1, <2>2
  <1>7. B \subseteq C2
    <2>1. n \in C2
      BY <1>2
    <2>2. ASSUME NEW x \in C2, NEW m \in DOMAIN doc, doc[m].under = x PROVE m \in C2
      BY <1>5, <2>2
    <2> HIDE DEF C2
    <2> QED  BY <1>4, <2>1, <2>2
  <1> QED  BY <1>2, <1>4, <1>5, <1>6, <1>7 DEF B

LEMMA BelowApart ==
  ASSUME Parsed(doc), NEW a \in DOMAIN doc, NEW b \in DOMAIN doc, a # b, doc[a].under = doc[b].under
  PROVE  Below({a}) \cap Below({b}) = {}
  <1> DEFINE B == Below({b})
             n == doc[a].under
             C == {x \in DOMAIN doc : x >= a /\ x \notin B}
  <1>1. /\ \A m \in DOMAIN doc : m \in Nat /\ doc[m].under \in Nat /\ doc[m].under < m
    BY NodeIs DEF Parsed
  <1>2. /\ B \subseteq DOMAIN doc /\ (\A x \in B : x >= b) /\ (\A x \in B : x = b \/ doc[x].under \in B)
    BY BelowIs
  <1> HIDE DEF B
  <1>3. a \in C
    <2>1. a \notin B
      <3> HIDE DEF n
      <3> QED  BY <1>2, <1>1
    <2> QED  BY <1>1, <2>1
  <1>4. ASSUME NEW x \in C, NEW m \in DOMAIN doc, doc[m].under = x PROVE m \in C
    <2>1. m >= a /\ x >= a /\ x \notin B
      BY <1>1, <1>4
    <2>2. m # b
      BY <1>1, <1>4, <2>1
    <2>3. m \notin B
      BY <1>2, <1>4, <2>1, <2>2
    <2> QED  BY <2>1, <2>3
  <1>5. Below({a}) \subseteq C
    <2> HIDE DEF C
    <2> QED  BY <1>3, <1>4, BelowIs
  <1> QED  BY <1>5 DEF B

(* A section has the tokens of its text and of what stands in it.           *)
LEMMA PartsFit ==
  ASSUME Parsed(doc), NEW n \in DOMAIN doc,
         NEW S \in SUBSET DOMAIN doc, \A m \in S : doc[m].under = n,
         NEW s \in Seq(S), \A i, j \in 1..Len(s) : s[i] = s[j] => i = j,
         NEW of, \A m \in S : of[m] = TokensOf(Below({m}))
  PROVE  doc[n].own + Tally(of, s) <= TokensOf(Below({n}))
  <1> DEFINE N == Len(s)
             w == [k \in 1..N |-> of[s[k]]]
             U == [k \in 0..N |-> {n} \cup UNION {Below({s[i]}) : i \in 1..k}]
             G == {k \in 0..N : doc[n].own + Total(w, k) = TokensOf(U[k])}
  <1>1. \A m \in S : of[m] \in Nat
    BY TokensAre
  <1>2. /\ N \in Nat /\ (\A k \in 1..N : s[k] \in S) /\ Terms(w, N)
    BY <1>1, TallyTerms
  <1>3. \A k \in 1..N : w[k] = TokensOf(Below({s[k]})) /\ s[k] \in DOMAIN doc /\ doc[s[k]].under = n
    BY <1>2
  <1>4. /\ doc[n].own \in Nat /\ n \in Nat
        /\ \A m \in DOMAIN doc : m \in Nat /\ doc[m].under < m
    BY NodeIs DEF Parsed
  <1>5. Tally(of, s) = Total(w, N)
    BY DEF Tally
  <1> HIDE DEF w
  <1>6. Total(w, 0) = 0 /\ (\A k \in 1..N : Total(w, k) = Total(w, k - 1) + w[k]) /\ \A k \in 0..N : Total(w, k) \in Nat
    BY <1>2, TotalIs
  <1>7. \A k \in 0..N : \A x : x \in U[k] <=> x = n \/ \E i \in 1..k : x \in Below({s[i]})
    OBVIOUS
  <1> HIDE DEF U
  <1>8. 0 \in G
    <2>1. 1..0 = {} /\ 0 \in 0..N
      BY <1>2
    <2>2. U[0] = {n}
      BY <1>7, <2>1
    <2>3. TokensOf({n}) = doc[n].own
      BY TokensOfOne
    <2>4. doc[n].own + Total(w, 0) = TokensOf(U[0])
      BY <1>4, <1>6, <2>2, <2>3
    <2> QED  BY <2>1, <2>4
  <1>9. ASSUME NEW k \in 1..N, k - 1 \in G PROVE k \in G
    <2> DEFINE A == U[k - 1]
               B == Below({s[k]})
    <2>1. k \in 0..N /\ k - 1 \in 0..N /\ k \in Nat /\ \A i : i \in 1..k <=> i \in 1..k - 1 \/ i = k
      BY <1>2
    <2>2. U[k] = A \cup B
      BY <1>7, <2>1
    <2>3. A \cap B = {}
      <3>1. ASSUME NEW x \in B PROVE x # n
        <4>1. x >= s[k] /\ s[k] \in DOMAIN doc /\ doc[s[k]].under = n
          BY <1>3, BelowIs
        <4>2. x \in DOMAIN doc
          BY <1>3, BelowIs
        <4>3. x \in Nat /\ s[k] \in Nat /\ n < s[k]
          BY <1>4, <4>1, <4>2
        <4> QED  BY <1>4, <4>1, <4>3
      <3>2. ASSUME NEW i \in 1..k - 1 PROVE Below({s[i]}) \cap B = {}
        BY <1>2, <1>3, BelowApart
      <3>3. \A x \in A : x = n \/ \E i \in 1..k - 1 : x \in Below({s[i]})
        BY <1>7, <2>1
      <3> HIDE DEF A, B
      <3>4. \A x \in A : x \notin B
        BY <3>1, <3>2, <3>3
      <3> QED  BY <3>4
    <2>4. TokensOf(A) = doc[n].own + Total(w, k - 1)
      BY <1>9
    <2>5. w[k] = TokensOf(B) /\ TokensOf(B) \in Nat
      BY <1>3, TokensAre
    <2> HIDE DEF A, B
    <2>6. TokensOf(U[k]) = TokensOf(A) + TokensOf(B)
      BY <2>2, <2>3, TokensOfBoth
    <2>7. doc[n].own + Total(w, k) = TokensOf(U[k])
      <3>1. Total(w, k) = Total(w, k - 1) + w[k]
        BY <1>6
      <3>2. Total(w, k - 1) \in Nat
        BY <1>6, <2>1
      <3> QED  BY <1>4, <2>4, <2>5, <2>6, <3>1, <3>2
    <2> QED  BY <2>1, <2>7
  <1>10. N \in G
    <2> HIDE DEF G
    <2>1. N \in 0..N
      BY <1>2
    <2> QED  BY <1>2, <1>8, <1>9, <2>1, UpTo
  <1>11. U[N] \subseteq Below({n})
    <2>1. n \in Below({n})
      BY BelowIs
    <2>2. ASSUME NEW i \in 1..N PROVE Below({s[i]}) \subseteq Below({n})
      BY <1>3, <2>1, BelowIs
    <2>3. N \in 0..N
      BY <1>2
    <2> QED  BY <1>7, <2>1, <2>2, <2>3
  <1>12. TokensOf(U[N]) <= TokensOf(Below({n}))
    BY <1>11, TokensOfMore
  <1>13. doc[n].own + Total(w, N) = TokensOf(U[N])
    BY <1>10
  <1> QED  BY <1>5, <1>12, <1>13

(* What the nodes and headings of a list cost.                              *)
Good == (-Len(doc)..Len(doc)) \ {0}
Owns == [n \in Good |-> Own(n)]
Costs == [n \in Good |-> IF n < 0 THEN Own(n) ELSE NodeToken(n)]

LEMMA CostsAre ==
  ASSUME Parsed(doc)
  PROVE  /\ DOMAIN doc \subseteq Good /\ Good \subseteq Items /\ \A n \in DOMAIN doc : -n \in Good
         /\ \A n \in Good : Owns[n] = Own(n) /\ Owns[n] \in Nat /\ Costs[n] \in Nat
         /\ \A n \in Good : n < 0 => Costs[n] = Owns[n]
         /\ \A n \in Good : ~(n < 0) => n \in DOMAIN doc
         /\ \A n \in DOMAIN doc : /\ Owns[n] = doc[n].own /\ Own(-n) = doc[n].own /\ Costs[n] = NodeToken(n)
                                  /\ doc[n].sized => NodeToken(n) = TokensOf(Below({n})) /\ Size(n) = TokensOf(Below({n}))
                                  /\ ~doc[n].sized => NodeToken(n) = doc[n].own /\ Size(n) < 0
  <1>1. /\ Len(doc) \in Nat /\ DOMAIN doc = 1..Len(doc)
        /\ \A n \in DOMAIN doc : doc[n].own \in Nat /\ n \in Nat /\ n # 0
    BY NodeIs
  <1>2. ASSUME NEW n \in DOMAIN doc PROVE Own(n) = doc[n].own /\ Own(-n) = doc[n].own
    BY <1>1 DEF Own
  <1>3. ASSUME NEW n \in DOMAIN doc
        PROVE  /\ doc[n].sized => NodeToken(n) = TokensOf(Below({n})) /\ Size(n) = TokensOf(Below({n}))
               /\ ~doc[n].sized => NodeToken(n) = doc[n].own /\ Size(n) < 0
               /\ NodeToken(n) \in Nat
    BY <1>1, TokensAre, <1>2 DEF Size, NodeToken
  <1>4. \A n \in Good : IF n < 0 THEN -n \in DOMAIN doc /\ -(-n) = n ELSE n \in DOMAIN doc
    BY <1>1 DEF Good
  <1>5. /\ DOMAIN doc \subseteq Good /\ Good \subseteq Items /\ \A n \in DOMAIN doc : -n \in Good /\ ~(n < 0)
    BY <1>1 DEF Good, Items
  <1>6. \A n \in Good : Own(n) \in Nat
    <2> SUFFICES ASSUME NEW n \in Good PROVE Own(n) \in Nat
      OBVIOUS
    <2>1. CASE n < 0
      <3> DEFINE m == -n
      <3>1. m \in DOMAIN doc /\ -m = n
        BY <1>4, <2>1
      <3> HIDE DEF m
      <3> QED  BY <1>1, <1>2, <3>1
    <2>2. CASE ~(n < 0)
      BY <1>1, <1>2, <1>4, <2>2
    <2> QED  BY <2>1, <2>2
  <1>7. \A n \in Good : Owns[n] = Own(n) /\ Costs[n] = IF n < 0 THEN Own(n) ELSE NodeToken(n)
    BY DEF Owns, Costs
  <1> HIDE DEF Good
  <1>8. \A n \in Good : Costs[n] \in Nat /\ (n < 0 => Costs[n] = Owns[n]) /\ (~(n < 0) => n \in DOMAIN doc)
    <2> SUFFICES ASSUME NEW n \in Good
                 PROVE  Costs[n] \in Nat /\ (n < 0 => Costs[n] = Owns[n]) /\ (~(n < 0) => n \in DOMAIN doc)
      OBVIOUS
    <2>1. Owns[n] = Own(n) /\ Own(n) \in Nat /\ Costs[n] = IF n < 0 THEN Own(n) ELSE NodeToken(n)
      BY <1>6, <1>7
    <2>2. ~(n < 0) => n \in DOMAIN doc
      BY <1>4
    <2>3. n \in DOMAIN doc => NodeToken(n) \in Nat
      BY <1>3
    <2> QED  BY <2>1, <2>2, <2>3
  <1>9. \A n \in DOMAIN doc : Owns[n] = doc[n].own /\ Own(-n) = doc[n].own /\ Costs[n] = NodeToken(n)
    BY <1>5, <1>7, <1>2
  <1>10. \A n \in Good : Owns[n] = Own(n) /\ Owns[n] \in Nat
    BY <1>6, <1>7
  <1> QED  BY <1>3, <1>5, <1>8, <1>9, <1>10

LEMMA KidsFit ==
  ASSUME Parsed(doc), Linked, Nested, NEW n \in DOMAIN doc
  PROVE  /\ InOrder(kids[n]) \in Seq(Good)
         /\ Owns[n] + Tally(Costs, InOrder(kids[n])) <= Costs[n]
  <1> DEFINE S == kids[n]
             s == InOrder(S)
  <1>1. n \in Ids /\ S \in SUBSET DOMAIN doc /\ \A m \in S : doc[m].under = n
    BY NodeIs DEF Nested
  <1>2. S \in SUBSET Items /\ S \subseteq Good
    BY <1>1, CostsAre
  <1> HIDE DEF S
  <1>3. s \in Seq(S) /\ \A i, j \in 1..Len(s) : s[i] = s[j] => i = j
    BY <1>2, InOrderIs
  <1> HIDE DEF s
  <1>4. s \in Seq(Good)
    BY <1>2, <1>3, SeqMonotonic
  <1>5. /\ Owns[n] = doc[n].own /\ Costs[n] = NodeToken(n) /\ doc[n].own \in Nat
    BY CostsAre, NodeIs
  <1>6. \A m \in S : doc[m].sized /\ doc[n].sized
    BY <1>1, NodeIs DEF Parsed
  <1>7. \A m \in S : Costs[m] = TokensOf(Below({m}))
    BY <1>1, <1>6, CostsAre
  <1>8. CASE doc[n].sized
    <2>1. doc[n].own + Tally(Costs, s) <= TokensOf(Below({n}))
      BY <1>1, <1>3, <1>7, PartsFit
    <2>2. Costs[n] = TokensOf(Below({n}))
      BY <1>8, CostsAre
    <2> QED  BY <1>4, <1>5, <2>1, <2>2 DEF s, S
  <1>9. CASE ~doc[n].sized
    <2>1. S = {}
      BY <1>6, <1>9
    <2>2. s = <<>>
      BY <1>3, <2>1, EmptySeq
    <2>3. Tally(Costs, s) = 0
      BY <2>2, TallyNone
    <2>4. NodeToken(n) = doc[n].own
      BY <1>9, CostsAre
    <2> QED  BY <1>4, <1>5, <2>3, <2>4 DEF s, S
  <1> QED  BY <1>8, <1>9

-----------------------------------------------------------------------------
(* What a list costs is never exceeded by the text that is made of it.      *)
Fits(r) ==
  /\ r.todo \in Seq(Good) /\ r.text \in Seq(Good)
  /\ Tally(Owns, r.text) + Tally(Costs, r.todo) <= Budget

LEMMA GoodSums ==
  ASSUME Parsed(doc)
  PROVE  \A x \in Good : Owns[x] \in Nat /\ Costs[x] \in Nat /\ Owns[x] = Own(x)
  BY CostsAre

LEMMA PassFits ==
  ASSUME Parsed(doc), NEW r, Fits(r), r.todo # <<>>,
         NEW t \in Seq(Good), NEW S, Tally(Owns, t) <= Costs[Head(r.todo)]
  PROVE  Fits(Pass(r, Res(t, S)))
  <1> DEFINE s == Pass(r, Res(t, S))
             n == Head(r.todo)
             rest == Tail(r.todo)
  <1>1. s.todo = rest /\ s.text = r.text \o t
    BY DEF Pass, Res
  <1> HIDE DEF s
  <1>2. \A x \in Good : Owns[x] \in Nat /\ Costs[x] \in Nat
    BY GoodSums
  <1>3. r.todo \in Seq(Good) /\ r.text \in Seq(Good) /\ Tally(Owns, r.text) + Tally(Costs, r.todo) <= Budget
    BY DEF Fits
  <1>4. /\ Tally(Costs, r.todo) = Costs[n] + Tally(Costs, rest)
        /\ rest \in Seq(Good) /\ Costs[n] \in Nat /\ Tally(Costs, rest) \in Nat
    BY <1>2, <1>3, TallyTail
  <1>5. Tally(Owns, r.text) \in Nat /\ Tally(Owns, t) \in Nat
    BY <1>2, <1>3, TallyTerms
  <1>6. Tally(Owns, r.text \o t) = Tally(Owns, r.text) + Tally(Owns, t)
    BY <1>2, <1>3, TallyBoth
  <1>7. r.text \o t \in Seq(Good)
    BY <1>3, ConcatProperties
  <1>8. Budget \in Nat /\ Tally(Owns, t) <= Costs[n]
    BY BudgetAssumption
  <1> HIDE DEF n, rest
  <1>9. Tally(Owns, s.text) + Tally(Costs, s.todo) <= Budget
    BY <1>1, <1>3, <1>4, <1>5, <1>6, <1>8
  <1> QED  BY <1>1, <1>4, <1>7, <1>9 DEF Fits, s

LEMMA TakeFits ==
  ASSUME Parsed(doc), Linked, Nested, NEW r, Fits(r), r.todo # <<>>, Head(r.todo) \in DOMAIN doc
  PROVE  Fits(Take(r, Head(r.todo)))
  <1> DEFINE n == Head(r.todo)
             s == Take(r, n)
             first == InOrder(kids[n])
             rest == Tail(r.todo)
             one == <<n>>
  <1>1. n \in Good /\ ~IsMock(n)
    <2> HIDE DEF n
    <2> QED  BY NodeIs, CostsAre DEF n, IsMock
  <1>2. \A x \in Good : Owns[x] \in Nat /\ Costs[x] \in Nat
    BY GoodSums
  <1>3. r.todo \in Seq(Good) /\ r.text \in Seq(Good) /\ Tally(Owns, r.text) + Tally(Costs, r.todo) <= Budget
    BY DEF Fits
  <1>4. s.todo = first \o rest /\ s.text = r.text \o one
    BY <1>1, <1>3, AppendIsConcat DEF Take
  <1>5. /\ Tally(Costs, r.todo) = Costs[n] + Tally(Costs, rest)
        /\ rest \in Seq(Good) /\ Costs[n] \in Nat /\ Tally(Costs, rest) \in Nat
    BY <1>2, <1>3, TallyTail
  <1>6. first \in Seq(Good) /\ Owns[n] + Tally(Costs, first) <= Costs[n]
    BY KidsFit
  <1>7. one \in Seq(Good) /\ Tally(Owns, one) = Owns[n] /\ Owns[n] \in Nat
    BY <1>1, <1>2, TallyOne
  <1> HIDE DEF s, first, rest, one, n
  <1>8. Tally(Owns, r.text) \in Nat /\ Tally(Costs, first) \in Nat
    BY <1>2, <1>3, <1>6, TallyTerms
  <1>9. Tally(Owns, r.text \o one) = Tally(Owns, r.text) + Tally(Owns, one)
    BY <1>2, <1>3, <1>7, TallyBoth
  <1>10. Tally(Costs, first \o rest) = Tally(Costs, first) + Tally(Costs, rest)
    BY <1>2, <1>5, <1>6, TallyBoth
  <1>11. r.text \o one \in Seq(Good) /\ first \o rest \in Seq(Good)
    BY <1>3, <1>5, <1>6, <1>7, ConcatProperties
  <1>12. Tally(Owns, s.text) + Tally(Costs, s.todo) <= Budget
    BY <1>3, <1>4, <1>5, <1>6, <1>7, <1>8, <1>9, <1>10, BudgetAssumption
  <1> QED  BY <1>4, <1>11, <1>12 DEF Fits, s, n

LEMMA ShowAllFits ==
  ASSUME Parsed(doc), Linked, TextOnly, Nested, NEW list \in Seq(Good), NEW S \in SUBSET Ids,
         Tally(Costs, list) <= Budget
  PROVE  /\ ShowAll(list, S).text \in Seq(Good)
         /\ Tokens(ShowAll(list, S).text) <= Budget
  <1> DEFINE I == {r \in Showing(Items) : Fits(r)}
             start == [todo |-> list, text |-> <<>>, seen |-> S]
             last == ShowAll(list, S)
  <1>1. Good \subseteq Items /\ list \in Seq(Items)
    BY CostsAre, SeqMonotonic
  <1>2. start \in I
    <2>1. start \in Showing(Items) /\ start.text = <<>> /\ start.todo = list
      BY <1>1, EmptySeq DEF Showing
    <2>2. \A x \in Good : Costs[x] \in Nat
      BY GoodSums
    <2>3. Tally(Owns, <<>>) = 0 /\ Tally(Costs, list) \in Nat
      BY <2>2, TallyNone, TallyTerms
    <2> HIDE DEF start
    <2>4. <<>> \in Seq(Good)
      OBVIOUS
    <2>5. Fits(start)
      BY <2>1, <2>3, <2>4 DEF Fits
    <2> QED  BY <2>1, <2>5
  <1>3. ASSUME NEW r \in I, r.todo # <<>> PROVE ShowNext(r) \in I
    <2> DEFINE n == Head(r.todo)
               s == ShowNext(r)
    <2>1. r \in Showing(Items) /\ Fits(r)
      OBVIOUS
    <2>2. s \in Showing(Items)
      BY <1>3, <2>1, ShowNextIs
    <2>3. ~Cells(n) /\ n \in Good /\ Len(doc) \in Nat
      BY <2>1, <1>3, NoCells, NodeIs DEF Fits
    <2>4. Owns[n] \in Nat /\ Costs[n] \in Nat /\ (n < 0 => Costs[n] = Owns[n]) /\ (~(n < 0) => n \in DOMAIN doc)
      BY <2>3, CostsAre
    <2>5. CASE n < 0
      <3> DEFINE t == <<n>>
      <3>1. ~(n < -Len(doc))
        BY <2>3 DEF Good
      <3>2. s = Pass(r, Res(t, r.seen))
        BY <2>5, <3>1 DEF ShowNext
      <3>3. t \in Seq(Good) /\ Tally(Owns, t) = Owns[n]
        BY <2>3, <2>4, TallyOne
      <3>4. Tally(Owns, t) <= Costs[Head(r.todo)]
        BY <2>4, <2>5, <3>3
      <3> HIDE DEF s, t, n
      <3>5. Fits(s)
        BY <1>3, <2>1, <3>2, <3>3, <3>4, PassFits
      <3> QED  BY <2>2, <3>5 DEF s
    <2>6. CASE ~(n < 0) /\ n \in r.seen
      <3>1. s = Pass(r, Res(<<>>, r.seen))
        BY <2>6 DEF ShowNext
      <3>2. <<>> \in Seq(Good) /\ Tally(Owns, <<>>) <= Costs[Head(r.todo)]
        BY <2>4, TallyNone
      <3> HIDE DEF s, n
      <3>3. Fits(s)
        BY <1>3, <2>1, <3>1, <3>2, PassFits
      <3> QED  BY <2>2, <3>3 DEF s
    <2>7. CASE ~(n < 0) /\ n \notin r.seen
      <3>1. s = Take(r, Head(r.todo))
        BY <2>3, <2>7 DEF ShowNext
      <3>2. Head(r.todo) \in DOMAIN doc
        BY <2>4, <2>7
      <3> HIDE DEF s, n
      <3>3. Fits(s)
        BY <1>3, <2>1, <3>1, <3>2, TakeFits
      <3> QED  BY <2>2, <3>3 DEF s
    <2> QED  BY <2>5, <2>6, <2>7
  <1>4. I \in SUBSET Showing(Items)
    OBVIOUS
  <1> HIDE DEF I
  <1>5. last \in I /\ last.todo = <<>>
    BY <1>1, <1>2, <1>3, <1>4, ShowAllKeeps
  <1> HIDE DEF last
  <1>6. Fits(last)
    BY <1>5 DEF I
  <1>7. last.text \in Seq(Good) /\ Tally(Owns, last.text) + Tally(Costs, <<>>) <= Budget
    BY <1>5, <1>6 DEF Fits
  <1>8. \A x \in Good : Owns[x] \in Nat /\ Owns[x] = Own(x)
    BY GoodSums
  <1>9. Tokens(last.text) = Tally(Owns, last.text)
    BY <1>7, <1>8, TokensTally
  <1>10. Tally(Owns, last.text) \in Nat /\ Tally(Costs, <<>>) = 0
    BY <1>7, <1>8, TallyTerms, TallyNone
  <1> QED  BY <1>7, <1>9, <1>10, BudgetAssumption DEF last

(* So is what is found around a node that fits: the list costs what is      *)
(* counted for it.                                                          *)
Spaces == {0} \cup DOMAIN doc
Adds(r) ==
  /\ r.list \in Seq(DOMAIN doc) /\ r.left \in Spaces /\ r.right \in Spaces
  /\ r.sum = Tally(Costs, r.list) /\ r.sum <= Budget

LEMMA NeighboursIn ==
  ASSUME Parsed(doc), Linked, NEW n \in DOMAIN doc, NEW key \in {"previous", "next"}
  PROVE  link[n][key] \in Spaces
  BY KeysAre, NodeIs DEF Linked, Chunks, Spaces

LEMMA AddLeftAdds ==
  ASSUME Parsed(doc), Linked, NEW r \in Spreading, Adds(r)
  PROVE  Adds(AddLeft(r))
  <1> DEFINE a == AddLeft(r)
             x == r.left
             y == link[x]["previous"]
  <1>1. CASE ~GoLeft(r)
    BY <1>1 DEF AddLeft
  <1>2. CASE GoLeft(r)
    <2>1. x \in DOMAIN doc /\ NodeToken(x) + r.sum <= Budget
      BY <1>2 DEF GoLeft, Adds, Spaces
    <2>2. y \in Spaces
      BY <2>1, NeighboursIn
    <2>3. a.list = <<x>> \o r.list /\ a.left = y /\ a.right = r.right /\ a.sum = NodeToken(x) + r.sum
      BY <1>2 DEF AddLeft, Spreading
    <2>4. r.list \in Seq(DOMAIN doc) /\ r.right \in Spaces /\ r.sum = Tally(Costs, r.list)
      BY DEF Adds
    <2>5. (\A z \in DOMAIN doc : Costs[z] \in Nat) /\ Costs[x] = NodeToken(x)
      BY <2>1, CostsAre
    <2> HIDE DEF a, x, y
    <2>6. <<x>> \in Seq(DOMAIN doc) /\ Tally(Costs, <<x>>) = NodeToken(x)
      BY <2>1, <2>5, TallyOne
    <2>7. Tally(Costs, <<x>> \o r.list) = Tally(Costs, <<x>>) + Tally(Costs, r.list)
      BY <2>4, <2>5, <2>6, TallyBoth
    <2>8. <<x>> \o r.list \in Seq(DOMAIN doc)
      BY <2>4, <2>6, ConcatProperties
    <2> QED  BY <2>1, <2>2, <2>3, <2>4, <2>6, <2>7, <2>8 DEF Adds, a
  <1> QED  BY <1>1, <1>2

LEMMA AddRightAdds ==
  ASSUME Parsed(doc), Linked, NEW r \in Spreading, Adds(r)
  PROVE  Adds(AddRight(r))
  <1> DEFINE a == AddRight(r)
             x == r.right
             y == link[x]["next"]
  <1>1. CASE ~GoRight(r)
    BY <1>1 DEF AddRight
  <1>2. CASE GoRight(r)
    <2>1. x \in DOMAIN doc /\ NodeToken(x) + r.sum <= Budget
      BY <1>2 DEF GoRight, Adds, Spaces
    <2>2. y \in Spaces
      BY <2>1, NeighboursIn
    <2>3. a.list = Append(r.list, x) /\ a.left = r.left /\ a.right = y /\ a.sum = NodeToken(x) + r.sum
      BY <1>2 DEF AddRight, Spreading
    <2>4. r.list \in Seq(DOMAIN doc) /\ r.left \in Spaces /\ r.sum = Tally(Costs, r.list)
      BY DEF Adds
    <2>5. (\A z \in DOMAIN doc : Costs[z] \in Nat) /\ Costs[x] = NodeToken(x)
      BY <2>1, CostsAre
    <2> HIDE DEF a, x, y
    <2>6. <<x>> \in Seq(DOMAIN doc) /\ Tally(Costs, <<x>>) = NodeToken(x) /\ NodeToken(x) \in Nat
      BY <2>1, <2>5, TallyOne
    <2>7. Tally(Costs, r.list \o <<x>>) = Tally(Costs, r.list) + Tally(Costs, <<x>>)
      BY ZenonT(30), <2>4, <2>5, <2>6, TallyBoth
    <2>8. r.list \o <<x>> \in Seq(DOMAIN doc) /\ Append(r.list, x) = r.list \o <<x>>
      BY <2>1, <2>4, <2>6, ConcatProperties, AppendIsConcat
    <2>9. Tally(Costs, r.list) \in Nat
      BY <2>4, <2>5, TallyTerms
    <2>10. a.sum = Tally(Costs, a.list)
      BY <2>3, <2>4, <2>6, <2>7, <2>8, <2>9
    <2> QED  BY <2>1, <2>2, <2>3, <2>4, <2>8, <2>10 DEF Adds, a
  <1> QED  BY <1>1, <1>2

FitsIn(n) == n \in DOMAIN doc /\ doc[n].sized /\ Size(n) <= Budget

LEMMA SpreadAdds ==
  ASSUME Parsed(doc), Linked, NEW top, FitsIn(top)
  PROVE  Adds(Spread(top))
  <1> DEFINE I == {r \in Spreading : Adds(r)}
             b == Beginning(top)
  <1>1. top \in DOMAIN doc /\ top \in Ids /\ top # 0 /\ doc[top].sized /\ Size(top) <= Budget
    BY NodeIs DEF FitsIn
  <1>2. b \in I
    <2>1. b \in Spreading
      BY <1>1, BeginningIs
    <2>2. /\ b.list = <<top>> /\ b.left = link[top]["previous"] /\ b.right = link[top]["next"]
          /\ b.sum = NodeToken(top)
      BY DEF Beginning
    <2>3. b.left \in Spaces /\ b.right \in Spaces
      BY <1>1, <2>2, NeighboursIn
    <2>4. Costs[top] = NodeToken(top) /\ Costs[top] \in Nat /\ NodeToken(top) = Size(top)
      BY <1>1, CostsAre
    <2>5. Tally(Costs, <<top>>) = Costs[top] /\ <<top>> \in Seq(DOMAIN doc)
      BY <1>1, <2>4, TallyOne
    <2> HIDE DEF b
    <2>6. Adds(b)
      BY <1>1, <2>2, <2>3, <2>4, <2>5 DEF Adds
    <2> QED  BY <2>1, <2>6
  <1>3. \A r \in I : AddRight(AddLeft(r)) \in I
    BY AddLeftIs, AddLeftAdds, AddRightIs, AddRightAdds
  <1>4. I \in SUBSET Spreading
    OBVIOUS
  <1> HIDE DEF I
  <1>5. Spread(top) \in I
    BY <1>1, <1>2, <1>3, <1>4, SpreadKeeps
  <1> QED  BY <1>5 DEF I

LEMMA ClimbFits ==
  ASSUME Parsed(doc), Linked, Nested, NEW h, FitsIn(h)
  PROVE  FitsIn(Climb(h))
  <1> DEFINE I == {n \in DOMAIN doc : FitsIn(n)}
  <1>1. I \in SUBSET (Ids \ {0}) /\ h \in I
    BY NodeIs DEF FitsIn
  <1>2. ASSUME NEW n \in I, link[n]["parent"] # 0, Size(link[n]["parent"]) <= Budget
        PROVE  link[n]["parent"] \in I
    <2> DEFINE p == link[n]["parent"]
    <2>1. n \in Ids /\ p \in Ids
      BY <1>1, KeysAre DEF Linked, LinkType
    <2>2. n \in kids[p]
      BY <1>2, <2>1 DEF Nested
    <2>3. p \in DOMAIN doc /\ n \in DOMAIN doc /\ doc[n].under = p
      BY <2>1, <2>2 DEF Nested
    <2>4. doc[p].sized
      BY <1>2, <2>3 DEF Parsed
    <2>5. FitsIn(p)
      BY <1>2, <2>3, <2>4 DEF FitsIn
    <2> QED  BY <2>3, <2>5
  <1> HIDE DEF I
  <1>3. Climb(h) \in I
    BY <1>1, <1>2, ClimbKeeps
  <1> QED  BY <1>3 DEF I

LEMMA ReadyFits ==
  ASSUME Parsed(doc), Linked, TextOnly, Nested, NEW h, FitsIn(h)
  PROVE  Ready(h) \in Seq(Good) /\ Tally(Costs, Ready(h)) <= Budget
  <1> DEFINE top == Climb(h)
             p == link[top]["parent"]
             r == Spread(top)
             head == Heading(p, r)
  <1>1. FitsIn(top)
    BY ClimbFits
  <1>2. Adds(r)
    BY <1>1, SpreadAdds
  <1>3. top \in Ids /\ p \in Ids
    BY <1>1, NodeIs, KeysAre DEF FitsIn, Linked, LinkType
  <1>4. p # 0 => p \in DOMAIN doc
    BY <1>3 DEF Nested
  <1>5. Ready(h) = head \o r.list
    BY NoCells DEF Ready, ReadyAt, Neighbourhood
  <1> HIDE DEF top, p, r
  <1>6. \A x \in Good : Costs[x] \in Nat
    BY GoodSums
  <1>7. /\ r.list \in Seq(Good) /\ r.sum = Tally(Costs, r.list) /\ r.sum <= Budget
        /\ Tally(Costs, r.list) \in Nat
    BY <1>2, CostsAre, SeqMonotonic, <1>6, TallyTerms DEF Adds
  <1>8. head \in Seq(Good) /\ Tally(Costs, head) \in Nat /\ r.sum + Tally(Costs, head) <= Budget
    <2>1. CASE head = <<>>
      <3> HIDE DEF head
      <3> QED  BY TallyNone, <1>7, <2>1, BudgetAssumption
    <2>2. CASE head # <<>>
      <3>1. head = <<-p>> /\ p # 0 /\ r.sum + Own(p) <= Budget
        BY <2>2 DEF Heading
      <3>2. p \in DOMAIN doc /\ p \in Nat
        BY <1>4, <3>1, NodeIs
      <3> DEFINE m == -p
      <3>3. m \in Good /\ m < 0 /\ Own(m) = doc[p].own /\ Owns[p] = doc[p].own /\ p \in Good
        <4>1. -p < 0
          BY <3>1, <3>2
        <4> QED  BY <3>2, <4>1, CostsAre
      <3>4. head = <<m>>
        BY <3>1
      <3> HIDE DEF m, head
      <3>5. Costs[m] = Owns[m] /\ Owns[m] = Own(m) /\ Owns[p] = Own(p) /\ Costs[m] \in Nat
        BY <3>3, CostsAre
      <3>6. Tally(Costs, <<m>>) = Costs[m] /\ <<m>> \in Seq(Good)
        BY <3>3, <3>5, TallyOne
      <3> QED  BY <3>1, <3>3, <3>4, <3>5, <3>6
    <2> QED  BY <2>1, <2>2
  <1> HIDE DEF head
  <1>9. Tally(Costs, head \o r.list) = Tally(Costs, head) + Tally(Costs, r.list)
    BY <1>6, <1>7, <1>8, TallyBoth
  <1>10. head \o r.list \in Seq(Good)
    BY <1>7, <1>8, ConcatProperties
  <1> QED  BY <1>5, <1>7, <1>8, <1>9, <1>10

LEMMA MostCompleteFits ==
  ASSUME Parsed(doc), Linked, TextOnly, Nested, NEW h \in DOMAIN doc, ~IsContext(h),
         NEW S \in SUBSET Ids, Size(h) <= Budget, MostComplete(h, S).text # <<>>
  PROVE  Tokens(MostComplete(h, S).text) <= Budget
  <1> DEFINE r == MostComplete(h, S)
             more == MoreInfo(h, S)
  <1>1. Size(h) \in Int /\ Budget \in Nat /\ (Size(h) < 0 <=> ~doc[h].sized)
    BY NodeIs, NodeTokenIs, BudgetAssumption
  <1>2. h \notin S
    BY DEF MostComplete, Res
  <1>3. CASE Size(h) < 0
    <2>1. r = more
      BY <1>2, <1>3 DEF MostComplete
    <2>2. more.text # <<>> => ~(Tokens(more.text) > Budget)
      <3> DEFINE given == IF Cells(h) THEN Table(h, S) ELSE Res(<<h>>, S)
      <3>1. more = IF Tokens(given.text) > Budget THEN Res(<<>>, given.seen)
                   ELSE Res(given.text, given.seen \cup {h})
        BY DEF MoreInfo
      <3> HIDE DEF given, more
      <3>2. CASE Tokens(given.text) > Budget
        BY <3>1, <3>2 DEF Res
      <3>3. CASE ~(Tokens(given.text) > Budget)
        BY <3>1, <3>3 DEF Res
      <3> QED  BY <3>2, <3>3
    <2>3. Tokens(more.text) \in Int
      <3>1. more.text = <<h>> \/ more.text = <<>>
        BY NoCells DEF MoreInfo, Res
      <3>2. h \in Good /\ \A x \in Good : Owns[x] \in Nat /\ Owns[x] = Own(x)
        BY CostsAre
      <3>3. <<h>> \in Seq(Good) /\ <<>> \in Seq(Good)
        BY <3>2
      <3> HIDE DEF more
      <3>4. more.text \in Seq(Good)
        BY <3>1, <3>3
      <3>5. Tokens(more.text) = Tally(Owns, more.text)
        BY <3>2, <3>4, TokensTally
      <3>6. \A x \in Good : Owns[x] \in Nat
        BY <3>2
      <3>7. Tally(Owns, more.text) \in Nat
        BY <3>4, <3>6, TallyTerms
      <3> QED  BY <3>5, <3>7
    <2> HIDE DEF more
    <2> QED  BY <1>1, <2>1, <2>2, <2>3
  <1>4. CASE ~(Size(h) < 0)
    <2>1. ~(Size(h) > Budget) /\ FitsIn(h)
      BY <1>1, <1>4 DEF FitsIn
    <2>2. r = ShowAll(Ready(h), S)
      BY <1>2, <1>4, <2>1 DEF MostComplete
    <2>3. Ready(h) \in Seq(Good) /\ Tally(Costs, Ready(h)) <= Budget
      BY <2>1, ReadyFits
    <2> HIDE DEF r
    <2>4. Tokens(r.text) <= Budget
      BY <2>2, <2>3, ShowAllFits
    <2> QED  BY <2>4 DEF r
  <1> QED  BY <1>3, <1>4

LEMMA SizeSame ==
  ASSUME doc' = doc, kids' = kids
  PROVE  \A n : Size(n)' = Size(n)
  BY DEF Ids, Below, Reached, TokensOf, Size

LEMMA FitSame ==
  ASSUME FittingStaysWhole, SameFile, UNCHANGED completing
  PROVE  FittingStaysWhole'
  BY SizeSame DEF SameFile, completing, TextOnly, FittingStaysWhole

LEMMA CompleteNodeFits ==
  ASSUME RelInv, ShowInv, HitInv, FittingStaysWhole, CompleteNode
  PROVE  FittingStaysWhole'
  <1> SUFFICES ASSUME TextOnly', NEW g \in DOMAIN result', Size(g)' <= Budget PROVE ~result'[g].cut
    BY DEF FittingStaysWhole
  <1> DEFINE h == Head(queue)
             r == MostComplete(h, seen)
             e == Limited(r.text, Budget)
             told == Results(h, r, Budget)
  <1>1. /\ pc = "complete" /\ mode = "complete" /\ doc' = doc /\ kids' = kids /\ result' = told
    BY DEF CompleteNode, Done, tree, relations
  <1>2. TextOnly /\ Nested /\ Size(g) <= Budget
    BY <1>1, SizeSame DEF TextOnly, HitInv
  <1>3. /\ Parsed(doc) /\ Linked /\ h \in DOMAIN doc /\ ~IsContext(h) /\ seen \in SUBSET Ids
    <2>1. /\ Parsed(doc) /\ Linked /\ h = queue[1] /\ h \in DOMAIN doc
          /\ 1 \in 1..Len(queue) /\ \A i \in 1..Len(queue) : ~IsContext(queue[i])
      BY <1>1, HeadOfQueue
    <2>2. ~IsContext(queue[1])
      BY <2>1
    <2>3. Rows(seen)
      BY <1>1 DEF ShowInv
    <2> HIDE DEF h
    <2> QED  BY <2>1, <2>2, <2>3 DEF Rows
  <1> HIDE DEF h
  <1>4. /\ r.text = <<>> => told = result
        /\ r.text # <<>> => /\ DOMAIN told = DOMAIN result \cup {h}
                            /\ told[g] = IF g \in DOMAIN result THEN result[g] ELSE e
    BY <1>1 DEF Results
  <1>5. CASE g \in DOMAIN result
    BY <1>4, <1>5, <1>1, <1>2 DEF FittingStaysWhole
  <1>6. CASE g \notin DOMAIN result
    <2>1. r.text # <<>> /\ g = h /\ told[g] = e
      BY <1>1, <1>4, <1>6
    <2>2. Tokens(r.text) <= Budget
      BY <1>2, <1>3, <2>1, MostCompleteFits
    <2> HIDE DEF r
    <2>3. e.cut = FALSE
      BY <2>2 DEF Limited
    <2> QED  BY <1>1, <2>1, <2>3
  <1> QED  BY <1>5, <1>6

LEMMA FitNext ==
  RelInv /\ ShowInv /\ HitInv /\ FittingStaysWhole /\ [NextContexts]_<<vars, context>> => FittingStaysWhole'
  <1> SUFFICES ASSUME RelInv, ShowInv, HitInv, FittingStaysWhole, [NextContexts]_<<vars, context>>
               PROVE  FittingStaysWhole'
    OBVIOUS
  <1>1. pc' \in {"link", "mock", "recall"} => FittingStaysWhole'
    BY ShowNextStep DEF ShowInv, FittingStaysWhole
  <1>2. CASE StartWalk /\ UNCHANGED completing
    BY <1>2, FitSame DEF StartWalk, SameFile, tree, relations
  <1>3. CASE (Visit \/ Expand \/ MockTables) /\ UNCHANGED completing
    BY <1>3, <1>1 DEF Visit, Expand, MockTables
  <1>4. CASE Recall
    BY <1>4 DEF Recall, ShowInv, FittingStaysWhole
  <1>5. CASE CompleteNode
    BY <1>5, CompleteNodeFits
  <1>6. CASE MergeContexts
    BY <1>6 DEF MergeContexts, Done, FittingStaysWhole
  <1>7. CASE Summarize
    BY <1>7, FitSame DEF Summarize, SameFile, tree, relations
  <1>8. CASE Unanswered
    BY <1>8, FitSame DEF Unanswered, SameFile, tree, relations
  <1>9. CASE SaveContext
    BY <1>9, SaveChanges, <1>1
  <1>10. CASE SummaryDone
    BY <1>1, <1>10 DEF SummaryDone, Unrelated
  <1>11. CASE Die
    BY <1>1, <1>11 DEF Die, Unrelated
  <1>12. CASE UNCHANGED <<vars, context>>
    BY <1>12, FitSame DEF SameFile, vars, tree, relations
  <1> QED  BY <1>2, <1>3, <1>4, <1>5, <1>6, <1>7, <1>8, <1>9, <1>10, <1>11, <1>12
           DEF NextContexts, Next, Rebuild

(* In a document of texts, a node that fits the budget is not cut off: the  *)
(* section it grows into, its neighbours and the heading, each counted by   *)
(* the tokens the document gives it, hold all the text that is put out.     *)
THEOREM FittingStaysWholeStands == SpecContexts => []FittingStaysWhole
  <1>1. InitContexts => FittingStaysWhole
    BY DEF InitContexts, InitAll, FittingStaysWhole
  <1> QED  BY <1>1, RelInit, RelNext, ShowInit, ShowNextStep, HitInit, HitNext, FitNext, PTL DEF SpecContexts

-----------------------------------------------------------------------------
(* In a document of texts a rebuild that does not fail finds under each     *)
(* section that is left all that stands in it.                              *)
Standing ==
  /\ \A s \in Ids : kids[s] = {n \in DOMAIN doc : s \in kept /\ doc[n].under = s}
  /\ \A n \in DOMAIN doc : doc[n].under \in kept => n \in kept
StandInv == TextOnly => (pc = "mock" \/ (pc = "recall" /\ ~failed) => Standing)

LEMMA TextsStand ==
  ASSUME Parsed(doc), TextOnly, NEW n \in DOMAIN doc, doc[n].under # 0
  PROVE  /\ doc[n].kind = "text" /\ InLine(n)
         /\ doc[n].under \in DOMAIN doc /\ doc[n].under < n /\ doc[doc[n].under].kind = "text"
  BY NodeIs DEF Parsed, TextOnly, InLine

LEMMA NoneGone ==
  ASSUME Parsed(doc), TextOnly, LinkType, kept \subseteq DOMAIN doc,
         \A n \in Structure : Faithful(n),
         \A n \in Structure : ~Dangles(n, "head_child"),
         \A s \in Structure : link[s]["head_child"] # 0 =>
            \A m \in Level(HeadChild(s)), key \in SameLevel : ~Dangles(m, key)
  PROVE  \A n \in DOMAIN doc : doc[n].under \in kept => n \in kept
  <1> DEFINE T == {n \in DOMAIN doc : doc[n].under \in kept /\ n \notin kept}
  <1> SUFFICES ASSUME T # {} PROVE FALSE
    OBVIOUS
  <1>1. /\ Len(doc) \in Nat /\ DOMAIN doc = 1..Len(doc)
        /\ \A n \in DOMAIN doc : n \in Nat /\ n # 0 /\ doc[n].under \in Nat
    BY NodeIs
  <1>2. PICK n \in T : \A m \in T : n <= m
    <2>1. T \subseteq Nat
      BY <1>1
    <2> HIDE DEF T
    <2> QED  BY <2>1, LeastOf
  <1> DEFINE s == doc[n].under
             S == {m \in DOMAIN doc : doc[m].under = s}
             h == HeadChild(s)
             B == {m \in Line(n) : m < n}
             b == Dom(n, "previous")
             N == {m \in Line(b) : m > b}
  <1>3. n \in DOMAIN doc /\ s \in kept /\ n \notin kept /\ n \in S /\ s # 0
    BY <1>1, <1>2
  <1>4. s \in Structure
    <2> HIDE DEF s
    <2> QED  BY <1>3, TextsStand DEF Structure
  <1>5. h \in S /\ h # 0 /\ \A m \in S : h <= m
    <2>1. S \in SUBSET (1..Len(doc)) /\ S # {}
      BY <1>1, <1>3
    <2>2. h = FirstOf(S)
      BY DEF HeadChild
    <2> HIDE DEF S, h
    <2> QED  BY <1>1, <2>1, <2>2, FirstIs
  <1>6. h \in kept /\ h < n
    <2>1. Dom(s, "head_child") = h
      BY DEF Dom
    <2>2. ~Dangles(s, "head_child")
      BY <1>4
    <2> HIDE DEF h, s, S
    <2>3. h \in kept
      BY <1>5, <2>1, <2>2 DEF Dangles
    <2>4. h <= n /\ h # n
      BY <1>3, <1>5, <2>3
    <2>5. h \in Nat /\ n \in Nat
      BY <1>1, <1>3, <2>3
    <2> QED  BY <2>3, <2>4, <2>5
  <1>7. \A m \in S : m \in Line(n)
    BY <1>3, TextsStand DEF Line
  <1>8. b \in B /\ b >= h
    <2>1. B \in SUBSET (1..Len(doc)) /\ h \in B
      BY <1>1, <1>5, <1>6, <1>7 DEF Line
    <2>2. b = LastOf(B)
      BY DEF Dom
    <2> HIDE DEF B, b, h
    <2> QED  BY <1>1, <2>1, <2>2, LastIs
  <1>9. b \in DOMAIN doc /\ doc[b].under = s /\ b < n /\ b \in Nat /\ n \in Nat
    <2> HIDE DEF b
    <2> QED  BY <1>8, <1>1, <1>3 DEF Line
  <1> HIDE DEF b
  <1>10. b \in Structure
    <2>1. b \in kept
      BY <1>2, <1>9, <1>3
    <2>2. doc[b].kind = "text"
      BY <1>3, <1>9, TextsStand
    <2> QED  BY <2>1, <2>2 DEF Structure
  <1>11. ~Dangles(b, "next")
    <2>1. "next" \in SameLevel
      BY DEF SameLevel
    <2>2. link[s]["head_child"] # 0 =>
            \A m \in Level(HeadChild(s)), key \in SameLevel : ~Dangles(m, key)
      BY <1>4
    <2>3. ~Dangles(s, "head_child") /\ doc[b].under = s
      BY <1>4, <1>9
    <2> HIDE DEF s
    <2>4. link[s]["head_child"] # 0 /\ b \in Level(HeadChild(s))
      BY <1>4, <1>10, <2>2, <2>3, LevelAll
    <2> QED  BY <2>1, <2>2, <2>4
  <1>12. Dom(b, "next") = n
    <2>1. N \in SUBSET (1..Len(doc)) /\ n \in N
      <3>1. n \in Line(b)
        BY <1>3, <1>7, <1>8 DEF Line
      <3> QED  BY <1>1, <1>9, <3>1 DEF Line
    <2>2. Dom(b, "next") = FirstOf(N)
      BY DEF Dom
    <2> DEFINE f == FirstOf(N)
    <2>3. f \in N /\ f <= n
      <3> HIDE DEF N
      <3> QED  BY <1>1, <2>1, FirstIs
    <2>4. f \in Line(b) /\ f > b
      BY <2>3
    <2>5. f \in S /\ f \in Nat
      <3> HIDE DEF f
      <3> QED  BY <1>1, <1>9, <2>4 DEF Line
    <2>6. ASSUME f < n PROVE FALSE
      <3>1. f \in B
        BY <1>7, <2>5, <2>6
      <3>2. b = LastOf(B) /\ B \in SUBSET (1..Len(doc))
        BY <1>1 DEF b, Dom, Line
      <3> HIDE DEF f, B
      <3>3. b >= f
        BY <1>1, <3>1, <3>2, LastIs
      <3> QED  BY <1>9, <2>4, <2>5, <3>3
    <2> HIDE DEF f
    <2> QED  BY <1>9, <2>2, <2>3, <2>5, <2>6 DEF f
  <1> QED  BY <1>3, <1>9, <1>11, <1>12, <1>1 DEF Dangles

LEMMA ExpandStands ==
  ASSUME RelInv, ShowInv, Expand
  PROVE  StandInv'
  <1> DEFINE heads == {n \in Structure : link[n]["head_child"] # 0}
             lost == \/ \E n \in Structure : Dangles(n, "head_child")
                     \/ \E n \in heads : \E m \in Level(HeadChild(n)), key \in SameLevel :
                           Dangles(m, key)
  <1>1. /\ WalkOK /\ LinkType /\ doc' = doc /\ kept' = kept /\ Ids' = Ids
        /\ Parsed(doc) /\ kept \subseteq DOMAIN doc
        /\ (\A n \in Structure : Faithful(n)) /\ Structure \subseteq kept
    BY DEF RelInv, ShowInv, Expand, tree, DocOK, Ids, WalkOK, Structure
  <1>2. /\ failed' = lost /\ pc' = IF lost THEN "recall" ELSE "mock"
        /\ kids' = IF lost THEN kids
                   ELSE [n \in Ids |-> IF n \in heads THEN Level(HeadChild(n)) ELSE {}]
    BY DEF Expand
  <1>3. CASE lost
    <2> HIDE DEF lost
    <2> QED  BY <1>2, <1>3 DEF StandInv
  <1>4. CASE ~lost
    <2>1. /\ \A n \in Structure : ~Dangles(n, "head_child")
          /\ \A s \in Structure : link[s]["head_child"] # 0 =>
                \A m \in Level(HeadChild(s)), key \in SameLevel : ~Dangles(m, key)
      BY <1>4
    <2> HIDE DEF lost
    <2>2. kids' = [n \in Ids |-> IF n \in heads THEN Level(HeadChild(n)) ELSE {}]
      BY <1>2, <1>4
    <2>3. ASSUME TextOnly' PROVE Standing'
      <3>1. TextOnly
        BY <1>1, <2>3 DEF TextOnly
      <3>2. \A n \in DOMAIN doc : doc[n].under \in kept => n \in kept
        BY <1>1, <2>1, <3>1, NoneGone
      <3>3. ASSUME NEW s \in Ids, NEW n \in kids'[s]
            PROVE  n \in DOMAIN doc /\ s \in kept /\ doc[n].under = s
        BY <2>2, <3>3, <1>1, <2>1, LevelIs
      <3>4. ASSUME NEW s \in Ids, NEW n \in DOMAIN doc, s \in kept, doc[n].under = s
            PROVE  n \in kids'[s]
        <4>1. doc[n].under # 0
          BY <1>1, <3>4, NodeIs
        <4>2. doc[n].kind = "text" /\ doc[s].kind = "text"
          BY <1>1, <3>1, <3>4, <4>1, TextsStand
        <4>3. n \in Structure /\ s \in Structure
          BY <3>2, <3>4, <4>2 DEF Structure
        <4>4. link[s]["head_child"] # 0 /\ n \in Level(HeadChild(s))
          BY <2>1, <4>3, <1>1, <3>1, <3>4, LevelAll
        <4>5. s \in heads
          BY <4>3, <4>4
        <4> HIDE DEF heads
        <4> QED  BY <2>2, <4>4, <4>5
      <3> HIDE DEF heads
      <3>5. \A s \in Ids : kids'[s] = {n \in DOMAIN doc : s \in kept /\ doc[n].under = s}
        BY <3>3, <3>4
      <3> QED  BY <1>1, <3>2, <3>5 DEF Standing
    <2> QED  BY <2>3 DEF StandInv
  <1> QED  BY <1>3, <1>4

LEMMA MockStands ==
  ASSUME RelInv, StandInv, MockTables
  PROVE  StandInv'
  <1> DEFINE sections == {n \in Structure : \E c \in kids[n] : IsTable(c)}
             Of(n) == n - Len(doc)
  <1>1. /\ pc = "mock" /\ doc' = doc /\ kept' = kept /\ Ids' = Ids /\ Parsed(doc)
        /\ kids' = [n \in Ids |-> CASE n \in sections   -> {Mock(n)}
                                    [] Of(n) \in sections -> kids[Of(n)]
                                    [] OTHER -> kids[n]]
    BY DEF MockTables, tree, Ids, RelInv, DocOK
  <1>2. ASSUME TextOnly' PROVE Standing'
    <2>1. TextOnly
      BY <1>1, <1>2 DEF TextOnly
    <2>2. sections = {}
      BY <1>1, <2>1, NoCells
    <2>3. Standing
      BY <1>1, <2>1 DEF StandInv
    <2> HIDE DEF sections
    <2>4. \A n \in Ids : kids'[n] = kids[n]
      BY <1>1, <2>2
    <2> QED  BY <1>1, <2>3, <2>4 DEF Standing
  <1> QED  BY <1>2 DEF StandInv

LEMMA SaveIs ==
  ASSUME RelInv, SaveContext
  PROVE  LET node == Biggest(Free) IN
         /\ node \in DOMAIN doc /\ node \notin kept /\ doc[node].kind = "context"
         /\ kept' = kept \cup {node}
         /\ doc' = [n \in DOMAIN doc |-> IF n \in Structure \cap Head(groups) \/ n = node
                                         THEN [doc[n] EXCEPT !.context = saved + 1] ELSE doc[n]]
  <1>1. Free # {} /\ Free \in SUBSET (1..Len(doc)) /\ Len(doc) \in Nat
    BY NodeIs DEF SaveContext, Free, RelInv, DocOK
  <1>2. Biggest(Free) \in Free
    BY <1>1, LastIs DEF LastOf
  <1> QED  BY <1>2 DEF SaveContext, Free

LEMMA SaveStands ==
  ASSUME RelInv, StandInv, SaveContext
  PROVE  StandInv'
  <1> DEFINE node == Biggest(Free)
  <1>1. /\ DOMAIN doc' = DOMAIN doc /\ Len(doc') = Len(doc) /\ kids' = kids /\ Parsed(doc)
        /\ \A n \in DOMAIN doc : doc'[n].under = doc[n].under /\ doc'[n].kind = doc[n].kind
        /\ pc = "recall" /\ pc' = "recall" /\ failed' = failed
    BY SaveChanges
  <1>2. node \in DOMAIN doc /\ doc[node].kind = "context" /\ kept' = kept \cup {node}
    BY SaveIs
  <1> HIDE DEF node
  <1>3. Ids' = Ids
    BY <1>1 DEF Ids
  <1>4. ASSUME TextOnly', ~failed PROVE Standing'
    <2>1. TextOnly
      BY <1>1, <1>4 DEF TextOnly
    <2>2. Standing
      BY <1>1, <1>4, <2>1 DEF StandInv
    <2>3. \A n \in DOMAIN doc : doc[n].under # node
      BY <1>1, <1>2, NodeIs, <2>1, TextsStand
    <2>4. \A s \in Ids : kids'[s] = {n \in DOMAIN doc : s \in kept' /\ doc[n].under = s}
      BY <1>1, <2>2, <1>2, <2>3 DEF Standing
    <2>5. \A n \in DOMAIN doc : doc[n].under \in kept' => n \in kept'
      BY <1>2, <2>2, <2>3 DEF Standing
    <2>6. \A s \in Ids : {n \in DOMAIN doc : s \in kept' /\ doc[n].under = s} =
                         {n \in DOMAIN doc' : s \in kept' /\ doc'[n].under = s}
      BY <1>1
    <2> QED  BY <1>1, <1>3, <2>4, <2>5, <2>6 DEF Standing
  <1> QED  BY <1>1, <1>4 DEF StandInv

LEMMA StandSame ==
  ASSUME StandInv, doc' = doc, kept' = kept, kids' = kids, failed' = failed, pc' = pc
  PROVE  StandInv'
  BY DEF Ids, TextOnly, StandInv, Standing

LEMMA StandInit == InitContexts => StandInv
  BY DEF InitContexts, InitAll, Init, StandInv

LEMMA StandNext == RelInv /\ ShowInv /\ StandInv /\ [NextContexts]_<<vars, context>> => StandInv'
  <1> SUFFICES ASSUME RelInv, ShowInv, StandInv, [NextContexts]_<<vars, context>> PROVE StandInv'
    OBVIOUS
  <1>1. CASE StartWalk /\ UNCHANGED completing
    BY <1>1, StandSame DEF StartWalk, tree, relations
  <1>2. CASE Visit /\ UNCHANGED completing
    BY <1>2 DEF Visit, StandInv
  <1>3. CASE Expand /\ UNCHANGED completing
    BY <1>3, ExpandStands
  <1>4. CASE MockTables /\ UNCHANGED completing
    BY <1>4, MockStands
  <1>5. CASE Recall
    BY <1>5 DEF Recall, StandInv
  <1>6. CASE CompleteNode \/ MergeContexts
    BY <1>6 DEF CompleteNode, MergeContexts, Done, StandInv
  <1>7. CASE Summarize
    BY <1>7, StandSame DEF Summarize, tree, relations
  <1>8. CASE Unanswered
    BY <1>8, StandSame DEF Unanswered, tree, relations
  <1>9. CASE SaveContext
    BY <1>9, SaveStands
  <1>10. CASE SummaryDone
    BY <1>10 DEF SummaryDone, Unrelated, StandInv
  <1>11. CASE Die
    BY <1>11 DEF Die, Unrelated, StandInv
  <1>12. CASE UNCHANGED <<vars, context>>
    BY <1>12, StandSame DEF vars, tree, relations
  <1> QED  BY <1>1, <1>2, <1>3, <1>4, <1>5, <1>6, <1>7, <1>8, <1>9, <1>10, <1>11, <1>12
           DEF NextContexts, Next, Rebuild

-----------------------------------------------------------------------------
(* What lies between a node and one below it lies below it.                 *)
LEMMA BelowBetween ==
  ASSUME Parsed(doc), Sorted(doc), NEW n \in DOMAIN doc, NEW x \in Below({n}),
         NEW m \in DOMAIN doc, doc[m].sized, n <= m, m <= x
  PROVE  m \in Below({n})
  <1> DEFINE B == Below({n})
             Between(y) == \A k \in DOMAIN doc : doc[k].sized /\ n <= k /\ k <= y => k \in B
             C == {y \in B : Between(y)}
  <1>1. \A k \in DOMAIN doc : /\ k \in Nat /\ doc[k].under \in Nat /\ doc[k].under < k
                              /\ doc[k].under # 0 => doc[k].under \in DOMAIN doc /\ doc[doc[k].under].sized
    BY NodeIs DEF Parsed
  <1>2. /\ B \subseteq DOMAIN doc /\ n \in B /\ (\A y \in B : y >= n)
        /\ \A y \in B : \A k \in DOMAIN doc : doc[k].under = y => k \in B
        /\ \A D : n \in D /\ (\A y \in D : \A k \in DOMAIN doc : doc[k].under = y => k \in D) => B \subseteq D
    BY BelowIs
  <1> HIDE DEF B
  <1>3. n \in C
    BY <1>1, <1>2
  <1>4. ASSUME NEW y \in C, NEW k \in DOMAIN doc, doc[k].under = y PROVE k \in C
    <2> DEFINE T == {j \in DOMAIN doc : doc[j].sized /\ y < j /\ j < k /\ j \notin B}
    <2>1. y \in B /\ Between(y) /\ k \in B /\ y \in DOMAIN doc /\ y >= n /\ y < k /\ k \in Nat /\ y \in Nat /\ n \in Nat
      BY <1>1, <1>2, <1>4
    <2>2. T = {}
      <3> SUFFICES ASSUME T # {} PROVE FALSE
        OBVIOUS
      <3>1. PICK j \in T : \A i \in T : j <= i
        <4>1. T \subseteq Nat
          BY <1>1
        <4> HIDE DEF T
        <4> QED  BY <4>1, LeastOf
      <3> DEFINE u == doc[j].under
      <3>2. j \in DOMAIN doc /\ doc[j].sized /\ y < j /\ j < k /\ j \notin B /\ j \in Nat
        BY <1>1, <3>1
      <3>3. u >= y
        BY <1>4, <3>2 DEF Sorted
      <3>4. u \in DOMAIN doc /\ doc[u].sized /\ u < j /\ u \in Nat
        BY <1>1, <3>2, <2>1, NodeIs, <3>3
      <3>5. u \notin B
        BY <1>2, <3>2
      <3> HIDE DEF u
      <3>6. y < u
        BY <2>1, <3>5, <3>3, <3>4
      <3>7. u \in T
        BY <2>1, <3>2, <3>4, <3>5, <3>6
      <3>8. j <= u
        BY <3>1, <3>7
      <3> QED  BY <3>2, <3>4, <3>8
    <2>3. Between(k)
      <3> SUFFICES ASSUME NEW j \in DOMAIN doc, doc[j].sized, n <= j, j <= k PROVE j \in B
        OBVIOUS
      <3>1. j \in Nat
        BY <1>1
      <3>2. CASE j <= y
        BY <2>1, <3>2
      <3>3. CASE j = k
        BY <2>1, <3>3
      <3>4. CASE ~(j <= y) /\ j # k
        BY <2>1, <3>1, <3>4, <2>2
      <3> QED  BY <3>2, <3>3, <3>4
    <2> QED  BY <2>1, <2>3
  <1>5. B \subseteq C
    <2> HIDE DEF C
    <2> QED  BY <1>2, <1>3, <1>4
  <1>6. x \in C
    BY <1>5 DEF B
  <1> QED  BY <1>6 DEF B

LEMMA AllBelowIs ==
  ASSUME Parsed(doc), Linked, NEW n \in Ids
  PROVE  AllBelow({n}) \in SUBSET Ids
  <1> DEFINE next == [m \in Ids |-> kids[m] \cup (IF IsTable(m) THEN {link[m][key] : key \in SameLevel} \ {0}
                                                             ELSE {})]
  <1>1. Len(doc) \in Nat /\ SameLevel \subseteq Range(Keys)
    BY NodeIs, KeysAre DEF SameLevel
  <1>2. \A m \in Ids : next[m] \subseteq Ids
    BY <1>1 DEF Linked, LinkType
  <1>3. AllBelow({n}) = Reached({n}, next)
    BY DEF AllBelow
  <1> HIDE DEF next
  <1>4. {n} \in SUBSET Ids
    OBVIOUS
  <1> QED  BY <1>1, <1>2, <1>3, <1>4, ReachedIs

LEMMA AllBelowTexts ==
  ASSUME Parsed(doc), Linked, TextOnly, Standing, kept \subseteq DOMAIN doc, NEW n \in kept
  PROVE  AllBelow({n}) = Below({n}) /\ Below({n}) \subseteq kept /\ n \in Below({n})
  <1> DEFINE next == [m \in Ids |-> kids[m] \cup (IF IsTable(m) THEN {link[m][key] : key \in SameLevel} \ {0}
                                                             ELSE {})]
             R == AllBelow({n})
             B == Below({n})
             C == {x \in B : x \in kept}
  <1>1. Len(doc) \in Nat /\ \A m \in DOMAIN doc : m \in Ids
    BY NodeIs
  <1>2. \A m \in Ids : next[m] = kids[m]
    BY NoCells
  <1>3. \A m \in Ids : kids[m] \subseteq Ids /\ kids[m] = {k \in DOMAIN doc : m \in kept /\ doc[k].under = m}
    BY DEF Linked, Standing
  <1>4. /\ {n} \subseteq R /\ R \subseteq Ids
        /\ \A m \in R : next[m] \subseteq R
        /\ \A D : {n} \subseteq D /\ (\A m \in D : m \in Ids => next[m] \subseteq D) => R \subseteq D
    <2>1. {n} \in SUBSET Ids /\ \A m \in Ids : next[m] \subseteq Ids
      BY <1>1, <1>2, <1>3
    <2>2. R = Reached({n}, next)
      BY DEF AllBelow
    <2> HIDE DEF R, next
    <2> QED  BY <1>1, <2>1, <2>2, ReachedIs
  <1>5. /\ B \subseteq DOMAIN doc /\ n \in B
        /\ \A y \in B : \A k \in DOMAIN doc : doc[k].under = y => k \in B
        /\ \A D : n \in D /\ (\A y \in D : \A k \in DOMAIN doc : doc[k].under = y => k \in D) => B \subseteq D
    BY BelowIs
  <1> HIDE DEF next, R, B
  <1>6. R \subseteq C
    <2>1. n \in C
      BY <1>5
    <2>2. ASSUME NEW m \in C, m \in Ids PROVE next[m] \subseteq C
      BY <1>3, <2>2, <1>5, <1>2 DEF Standing
    <2> HIDE DEF C
    <2> QED  BY <1>4, <2>1, <2>2
  <1>7. B \subseteq R
    <2>1. ASSUME NEW y \in R, NEW k \in DOMAIN doc, doc[k].under = y PROVE k \in R
      BY <1>4, <1>6, <1>2, <1>3, <2>1
    <2> QED  BY <1>4, <1>5, <2>1
  <1>8. R = B /\ B \subseteq kept
    BY <1>6, <1>7
  <1> QED  BY <1>5, <1>8 DEF R, B

(* The section above a node from which its group is taken.                  *)
LEMMA AscendKeeps ==
  ASSUME Parsed(doc), Linked, NEW start, NEW added, NEW I \in SUBSET Ids, start \in I,
         \A n \in I : link[n]["parent"] # 0 => link[n]["parent"] \in I
  PROVE  Ascend(start, added) \in I
  <1> DEFINE D == Ids
             p(n) == link[n]["parent"]
             Up(n) == p(n) # 0 /\ p(n) \notin added /\ Size(p(n)) <= SpiltMax
             stop == {n \in D : ~Up(n)}
             next == [n \in D |-> p(n)]
             go == CHOOSE f : f = [n \in Ids |-> LET q == link[n]["parent"] IN
                                      IF q # 0 /\ q \notin added /\ Size(q) <= SpiltMax THEN f[q] ELSE n]
             m == [n \in D |-> Height(n)]
  <1>1. Ascend(start, added) = go[start]
    BY DEF Ascend
  <1>2. \A n \in Ids : p(n) \in Ids /\ (p(n) # 0 => Height(p(n)) < Height(n))
    BY ChunksAre DEF Linked, LinkType
  <1>3. next \in [D -> D]
    BY <1>2
  <1>4. \A f : Loop(D, stop, next, f) <=>
           f = [n \in D |-> LET q == link[n]["parent"] IN
                   IF q # 0 /\ q \notin added /\ Size(q) <= SpiltMax THEN f[q] ELSE n]
    <2> HIDE DEF D
    <2> QED  BY DEF Loop
  <1>5. Loop(D, stop, next, go)
    <2> HIDE DEF D, stop, next
    <2> QED  BY <1>3, LoopExists, <1>4 DEF D
  <1>6. \A n \in I : m[n] \in Nat
    BY NodeIs DEF Ids, Height
  <1>7. \A n \in I : n \notin stop => next[n] \in I /\ m[next[n]] < m[n]
    BY <1>2
  <1>8. start \in I /\ I \subseteq D
    OBVIOUS
  <1> HIDE DEF D, stop, next, m, go
  <1>9. go[start] \in I
    BY <1>5, <1>6, <1>7, <1>8, LoopEnds
  <1> QED  BY <1>1, <1>9

LEMMA AscendIs ==
  ASSUME Parsed(doc), Linked, NEW n \in Ids, NEW added
  PROVE  Ascend(n, added) \in Ids
  <1>1. \A m \in Ids : link[m]["parent"] \in Ids
    BY ChunksAre DEF Linked, LinkType
  <1>2. Ids \in SUBSET Ids
    OBVIOUS
  <1> QED  BY <1>1, <1>2, AscendKeeps

LEMMA AscendHolds ==
  ASSUME Parsed(doc), Linked, Nested, Standing, kept \subseteq DOMAIN doc, NEW n \in kept, NEW added
  PROVE  Ascend(n, added) \in kept /\ n \in Below({Ascend(n, added)})
  <1> DEFINE I == {m \in kept : n \in Below({m})}
  <1>1. I \in SUBSET Ids /\ n \in I
    BY NodeIs, BelowIs
  <1>2. ASSUME NEW m \in I, link[m]["parent"] # 0 PROVE link[m]["parent"] \in I
    <2> DEFINE p == link[m]["parent"]
    <2>1. m \in Ids /\ p \in Ids /\ m \in kept /\ n \in Below({m})
      BY <1>1, KeysAre DEF Linked, LinkType
    <2>2. m \in kids[p]
      BY <1>2, <2>1 DEF Nested
    <2>3. p \in kept /\ m \in DOMAIN doc /\ doc[m].under = p
      BY <2>1, <2>2 DEF Standing
    <2> HIDE DEF p
    <2>4. p \in DOMAIN doc
      BY <2>3
    <2>5. m \in Below({p})
      BY <2>3, <2>4, BelowIs
    <2>6. \A x \in Below({p}) : \A k \in DOMAIN doc : doc[k].under = x => k \in Below({p})
      BY <2>4, BelowIs
    <2>7. Below({m}) \subseteq Below({p})
      BY <2>3, <2>5, <2>6, BelowIs
    <2> QED  BY <2>1, <2>3, <2>7 DEF p
  <1> HIDE DEF I
  <1>3. Ascend(n, added) \in I
    BY <1>1, <1>2, AscendKeeps
  <1> QED  BY <1>3 DEF I

-----------------------------------------------------------------------------
(* The loops of the contexts: grouping, merging, cutting into backgrounds.  *)
GroupType == [tokens : Nat, nodes : SUBSET Ids]

LEMMA GroupIs ==
  ASSUME Parsed(doc), NEW A, NEW B \in SUBSET Ids
  PROVE  GroupOf(A, B) \in GroupType /\ GroupOf(A, B).nodes = B
  BY TokensAre DEF GroupOf, GroupType

LEMMA SplitIs ==
  ASSUME Parsed(doc), Linked, NEW r \in Splitting, r.todo # <<>>
  PROVE  Split(r) \in Splitting /\ Split(r).todo = Tail(r.todo)
  <1> DEFINE n == Head(r.todo)
             p == link[n]["parent"]
             tooLong == ~IsTable(n) /\ Size(n) > SpiltMax
             g == CASE tooLong -> GroupOf({}, {n})
                    [] IsTable(n) /\ (p = 0 \/ Size(p) > SpiltMax) -> OnlyCell(n)
                    [] OTHER -> Section(n, IF IsTable(n) THEN {} ELSE r.added)
  <1>1. /\ r = [todo |-> r.todo, groups |-> r.groups, added |-> r.added]
        /\ r.todo \in Seq(DOMAIN doc) /\ r.groups \in Seq(GroupType) /\ r.added \in SUBSET Ids
    BY DEF Splitting, Groups, GroupType
  <1>2. n \in DOMAIN doc /\ Tail(r.todo) \in Seq(DOMAIN doc) /\ n \in Ids
    BY <1>1, TailIs, NodeIs
  <1>3. g \in GroupType
    <2>1. OnlyCell(n) \in GroupType
      BY <1>2, AllBelowIs, GroupIs DEF OnlyCell
    <2>2. GroupOf({}, {n}) \in GroupType
      BY <1>2, GroupIs
    <2>3. ASSUME NEW added PROVE Section(n, added) \in GroupType
      <3> DEFINE top == Ascend(n, added)
                 q == link[top]["parent"]
                 heading == IF IsTable(n) \/ q = 0 \/ q \in added THEN {} ELSE {q}
      <3>1. AllBelow({top}) \in SUBSET Ids
        BY <1>2, AscendIs, AllBelowIs
      <3>2. Section(n, added) = GroupOf(heading, AllBelow({top}))
        BY DEF Section
      <3> HIDE DEF top, heading
      <3> QED  BY <3>1, <3>2, GroupIs
    <2> QED  BY <2>1, <2>2, <2>3
  <1>4. Split(r) = IF n \in r.added THEN [r EXCEPT !.todo = Tail(r.todo)]
                   ELSE [todo |-> Tail(r.todo), groups |-> Append(r.groups, g),
                         added |-> IF tooLong THEN r.added ELSE r.added \cup g.nodes]
    BY DEF Split
  <1> HIDE DEF n, g, tooLong
  <1>5. g.nodes \in SUBSET Ids
    BY <1>3 DEF GroupType
  <1>6. Append(r.groups, g) \in Seq(GroupType)
    BY <1>1, <1>3
  <1>7. CASE n \in r.added
    <2>1. Split(r) = [todo |-> Tail(r.todo), groups |-> r.groups, added |-> r.added]
      BY <1>1, <1>4, <1>7
    <2> QED  BY <1>1, <1>2, <2>1 DEF Splitting, Groups, GroupType
  <1>8. CASE n \notin r.added
    <2>1. Split(r) = [todo |-> Tail(r.todo), groups |-> Append(r.groups, g),
                      added |-> IF tooLong THEN r.added ELSE r.added \cup g.nodes]
      BY <1>4, <1>8
    <2>2. (IF tooLong THEN r.added ELSE r.added \cup g.nodes) \in SUBSET Ids
      BY <1>1, <1>5
    <2> QED  BY <1>1, <1>2, <1>6, <2>1, <2>2 DEF Splitting, Groups, GroupType
  <1> QED  BY <1>7, <1>8

LEMMA SplitAllKeeps ==
  ASSUME Parsed(doc), Linked, NEW list \in Seq(DOMAIN doc), NEW I \in SUBSET Splitting,
         [todo |-> list, groups |-> <<>>, added |-> {}] \in I,
         \A r \in I : r.todo # <<>> => Split(r) \in I
  PROVE  \E r \in I : r.todo = <<>> /\ SplitAll(list) = r.groups
  <1> DEFINE D == Splitting
             stop == {r \in D : r.todo = <<>>}
             next == [r \in D |-> IF r.todo = <<>> THEN r ELSE Split(r)]
             go == CHOOSE f : f = [r \in Splitting |-> IF r.todo = <<>> THEN r ELSE f[Split(r)]]
             k == [r \in D |-> Len(r.todo)]
             start == [todo |-> list, groups |-> <<>>, added |-> {}]
             last == go[start]
  <1>1. SplitAll(list) = last.groups
    BY DEF SplitAll
  <1>2. next \in [D -> D]
    BY SplitIs
  <1>3. \A f : Loop(D, stop, next, f) <=>
           f = [r \in D |-> IF r.todo = <<>> THEN r ELSE f[Split(r)]]
    <2> HIDE DEF D
    <2> QED  BY DEF Loop
  <1>4. Loop(D, stop, next, go)
    <2> HIDE DEF D, stop, next
    <2> QED  BY <1>2, LoopExists, <1>3 DEF D
  <1>5. start \in I /\ I \subseteq D
    OBVIOUS
  <1>6. \A r \in I : k[r] \in Nat
    BY DEF Splitting
  <1>7. ASSUME NEW r \in I, r \notin stop PROVE next[r] \in I /\ k[next[r]] < k[r]
    <2>1. r \in D /\ r.todo # <<>> /\ next[r] = Split(r)
      BY <1>7
    <2>2. Split(r) \in D /\ Split(r).todo = Tail(r.todo)
      BY <2>1, SplitIs
    <2>3. Len(Tail(r.todo)) = Len(r.todo) - 1 /\ Len(r.todo) \in Nat
      BY <2>1, TailIs DEF Splitting
    <2>4. k[next[r]] = Len(Tail(r.todo)) /\ k[r] = Len(r.todo)
      BY <2>1, <2>2
    <2>5. Split(r) \in I
      BY <1>7, <2>1
    <2> HIDE DEF k, next
    <2> QED  BY <2>1, <2>3, <2>4, <2>5
  <1> HIDE DEF D, stop, next, go, k, start
  <1>8. go[start] \in I /\ go[start] \in stop
    BY <1>4, <1>5, <1>6, <1>7, LoopEnds
  <1>9. last \in I /\ last.todo = <<>>
    BY <1>8 DEF stop
  <1> QED  BY <1>1, <1>9

LEMMA OrderOfNodes ==
  ASSUME Parsed(doc), NEW U, U \subseteq DOMAIN doc
  PROVE  /\ InOrder(U) \in Seq(U)
         /\ \A i, j \in 1..Len(InOrder(U)) : i < j => InOrder(U)[i] < InOrder(U)[j]
         /\ \A n \in U : Has(InOrder(U), n)
  <1> DEFINE N == {n \in U : ~IsMock(n)}
             M == {n \in U : IsMock(n)}
  <1>1. Len(doc) \in Nat /\ \A n \in U : n \in Nat /\ n \in 1..Len(doc)
    BY NodeIs
  <1>2. M = {} /\ N = U
    BY <1>1 DEF IsMock
  <1>3. IsFiniteSet(U) /\ U \subseteq Int /\ IsFiniteSet({}) /\ {} \subseteq Int
    <2>1. IsFiniteSet(1..Len(doc))
      BY <1>1, FS_Interval
    <2> QED  BY <1>1, <2>1, FS_Subset, FS_EmptySet
  <1>4. Ascending({}) = <<>>
    BY <1>3, AscendingIs, FS_EmptySet
  <1>5. Ascending(U) \in Seq(U)
    BY <1>3, AscendingIs
  <1>6. InOrder(U) = Ascending({}) \o Ascending(U)
    BY <1>2 DEF InOrder
  <1>7. InOrder(U) = Ascending(U)
    BY <1>4, <1>5, <1>6
  <1>8. /\ Cardinality(U) \in Nat /\ Len(Ascending(U)) = Cardinality(U)
        /\ \A i, j \in 1..Cardinality(U) : i < j => Ascending(U)[i] < Ascending(U)[j]
        /\ \A n \in U : \E i \in 1..Cardinality(U) : Ascending(U)[i] = n
    BY <1>3, AscendingIs
  <1> QED  BY <1>5, <1>7, <1>8 DEF Has

-----------------------------------------------------------------------------
(* In a listing in the order of the file every node that is left gets into  *)
(* a group, and the last group ends last.                                   *)
Inside(gs, x) == \E i \in 1..Len(gs) : x \in gs[i].nodes
Topped(gs, z) ==
    gs # <<>> => /\ z \in gs[Len(gs)].nodes
                 /\ \A i \in 1..Len(gs) : \A x \in gs[i].nodes : x <= z /\ (i < Len(gs) => x # z)
Grouped(r) ==
  /\ r.todo \in Seq(kept)
  /\ \A i, j \in 1..Len(r.todo) : i < j => r.todo[i] < r.todo[j]
  /\ \A n \in kept : Has(r.todo, n) \/ Inside(r.groups, n)
  /\ \A n \in r.added : Inside(r.groups, n)
  /\ \A i \in 1..Len(r.groups) : r.groups[i].nodes \subseteq kept
  /\ \A i \in 1..Len(r.todo) :
        r.todo[i] \in r.added \/ \A x : Inside(r.groups, x) => x < r.todo[i]
  /\ \E z : Topped(r.groups, z)

LEMMA AppendInside ==
  ASSUME NEW gs \in Seq(GroupType), NEW g \in GroupType
  PROVE  /\ Append(gs, g) \in Seq(GroupType) /\ Append(gs, g) # <<>>
         /\ Len(gs) \in Nat /\ Len(Append(gs, g)) = Len(gs) + 1 /\ Append(gs, g)[Len(gs) + 1] = g
         /\ \A i \in 1..Len(gs) : Append(gs, g)[i] = gs[i]
         /\ \A x : Inside(Append(gs, g), x) <=> Inside(gs, x) \/ x \in g.nodes
  <1> DEFINE hs == Append(gs, g)
  <1>1. /\ hs \in Seq(GroupType) /\ hs # <<>> /\ Len(gs) \in Nat /\ Len(hs) = Len(gs) + 1 /\ hs[Len(gs) + 1] = g
        /\ \A i \in 1..Len(gs) : hs[i] = gs[i]
    OBVIOUS
  <1> HIDE DEF hs
  <1>2. \A i \in 1..Len(gs) + 1 : i \in 1..Len(gs) \/ i = Len(gs) + 1
    BY <1>1
  <1>3. \A i \in 1..Len(gs) : i \in 1..Len(gs) + 1
    BY <1>1
  <1>4. Len(gs) + 1 \in 1..Len(gs) + 1
    BY <1>1
  <1>5. \A x : Inside(hs, x) <=> Inside(gs, x) \/ x \in g.nodes
    BY <1>1, <1>2, <1>3, <1>4 DEF Inside
  <1> QED  BY <1>1, <1>5 DEF hs

(* A group that begins at n and has all of the file up to its end.          *)
LEMMA GroupedMore ==
  ASSUME Parsed(doc), kept \subseteq DOMAIN doc, NEW r \in Splitting, Grouped(r), r.todo # <<>>,
         Head(r.todo) \notin r.added,
         NEW g \in GroupType, g.nodes \subseteq kept, Head(r.todo) \in g.nodes,
         NEW added, added \subseteq r.added \cup g.nodes, r.added \subseteq added,
         \A m \in kept : m > Head(r.todo) => m \in added \/ \A x \in g.nodes : x < m
  PROVE  Grouped([todo |-> Tail(r.todo), groups |-> Append(r.groups, g), added |-> added])
  <1> DEFINE n == Head(r.todo)
             T == Tail(r.todo)
             gs == r.groups
             hs == Append(gs, g)
  <1>1. /\ n = r.todo[1] /\ n \in kept /\ T \in Seq(kept) /\ 1 \in 1..Len(r.todo) /\ Len(r.todo) \in Nat
        /\ Len(T) = Len(r.todo) - 1
        /\ \A i \in 1..Len(T) : i + 1 \in 1..Len(r.todo) /\ i + 1 # 1 /\ T[i] = r.todo[i + 1]
    BY TailIs DEF Grouped
  <1>2. gs \in Seq(GroupType)
    BY DEF Splitting, Groups, GroupType
  <1>3. /\ hs \in Seq(GroupType) /\ hs # <<>>
        /\ Len(gs) \in Nat /\ Len(hs) = Len(gs) + 1 /\ hs[Len(gs) + 1] = g
        /\ \A i \in 1..Len(gs) : hs[i] = gs[i]
        /\ \A x : Inside(hs, x) <=> Inside(gs, x) \/ x \in g.nodes
    BY <1>2, AppendInside
  <1>4. Len(doc) \in Nat /\ kept \subseteq 1..Len(doc) /\ \A m \in kept : m \in Nat
    BY NodeIs
  <1>5. \A x : Inside(gs, x) => x \in kept
    BY DEF Grouped, Inside
  <1>6. \A x : Inside(gs, x) => x < n
    BY <1>1 DEF Grouped
  <1> HIDE DEF n, T, gs, hs
  <1>7. \A i, j \in 1..Len(T) : i < j => T[i] < T[j]
    BY <1>1 DEF Grouped
  <1>8. \A i \in 1..Len(T) : T[i] > n /\ T[i] \in kept
    <2> SUFFICES ASSUME NEW i \in 1..Len(T) PROVE T[i] > n /\ T[i] \in kept
      OBVIOUS
    <2>1. i + 1 \in 1..Len(r.todo) /\ 1 < i + 1 /\ T[i] = r.todo[i + 1]
      BY <1>1
    <2>2. r.todo[1] < r.todo[i + 1]
      BY <1>1, <2>1 DEF Grouped
    <2>3. T[i] \in kept
      BY <1>1
    <2> QED  BY <1>1, <1>4, <2>1, <2>2, <2>3
  <1>9. \A m \in kept : Has(T, m) \/ Inside(hs, m)
    <2> SUFFICES ASSUME NEW m \in kept, Has(r.todo, m) PROVE Has(T, m) \/ Inside(hs, m)
      BY <1>3 DEF Grouped, gs
    <2>1. PICK i \in 1..Len(r.todo) : r.todo[i] = m
      BY DEF Has
    <2>2. CASE i = 1
      BY <1>1, <1>3, <2>1, <2>2 DEF n
    <2>3. CASE i # 1
      <3>1. i - 1 \in 1..Len(T) /\ (i - 1) + 1 = i
        BY <1>1, <2>3
      <3>2. T[i - 1] = m
        BY <1>1, <2>1, <3>1
      <3> QED  BY <3>1, <3>2 DEF Has
    <2> QED  BY <2>2, <2>3
  <1>10. \A m \in added : Inside(hs, m)
    BY <1>3 DEF Grouped, gs
  <1>11. \A i \in 1..Len(hs) : hs[i].nodes \subseteq kept
    BY <1>3 DEF Grouped, gs
  <1>12. ASSUME NEW i \in 1..Len(T) PROVE T[i] \in added \/ \A x : Inside(hs, x) => x < T[i]
    <2>1. T[i] > n /\ T[i] \in kept /\ T[i] \in Nat
      BY <1>4, <1>8
    <2>2. \A x : Inside(gs, x) => x < T[i]
      BY <1>1, <1>4, <1>5, <1>6, <2>1
    <2>3. T[i] \in added \/ \A x \in g.nodes : x < T[i]
      BY <2>1 DEF n
    <2> QED  BY <1>3, <2>2, <2>3
  <1>13. \E z : Topped(hs, z)
    <2> DEFINE z == LastOf(g.nodes)
    <2>1. z \in g.nodes /\ \A x \in g.nodes : z >= x
      <3> HIDE DEF z
      <3> QED  BY <1>4, LastIs DEF z
    <2>2. n <= z /\ z \in Nat
      BY <1>4, <2>1 DEF n
    <2> HIDE DEF z
    <2>3. ASSUME NEW i \in 1..Len(hs), NEW x \in hs[i].nodes PROVE x <= z /\ (i < Len(hs) => x # z)
      <3>1. x \in kept /\ x \in Nat
        BY <1>4, <1>11
      <3>2. CASE i \in 1..Len(gs)
        <4>1. Inside(gs, x)
          BY <1>3, <2>3, <3>2 DEF Inside
        <4>2. x < n /\ n \in Nat
          BY <1>1, <1>4, <1>6, <4>1
        <4> QED  BY <2>2, <3>1, <4>2
      <3>3. CASE i = Len(gs) + 1
        BY <1>3, <2>3, <3>3, <2>1, <2>2, <3>1
      <3> QED  BY <1>3, <3>2, <3>3
    <2>4. z \in hs[Len(hs)].nodes
      BY <1>3, <2>1
    <2>5. Topped(hs, z)
      BY <2>3, <2>4 DEF Topped
    <2> QED  BY <2>5
  <1> QED  BY <1>1, <1>7, <1>9, <1>10, <1>11, <1>12, <1>13 DEF Grouped, T, hs, gs

LEMMA GroupedStep ==
  ASSUME Parsed(doc), Linked, Nested, Standing, TextOnly, Sorted(doc), kept \subseteq DOMAIN doc,
         \A m \in kept : doc[m].sized, NEW r \in Splitting, Grouped(r), r.todo # <<>>
  PROVE  Grouped(Split(r))
  <1> DEFINE n == Head(r.todo)
             p == link[n]["parent"]
             tooLong == ~IsTable(n) /\ Size(n) > SpiltMax
             g == CASE tooLong -> GroupOf({}, {n})
                    [] IsTable(n) /\ (p = 0 \/ Size(p) > SpiltMax) -> OnlyCell(n)
                    [] OTHER -> Section(n, IF IsTable(n) THEN {} ELSE r.added)
             added == IF tooLong THEN r.added ELSE r.added \cup g.nodes
  <1>1. /\ n = r.todo[1] /\ n \in kept /\ Tail(r.todo) \in Seq(kept) /\ 1 \in 1..Len(r.todo)
        /\ Len(Tail(r.todo)) = Len(r.todo) - 1 /\ Len(r.todo) \in Nat
        /\ \A i \in 1..Len(Tail(r.todo)) : i + 1 \in 1..Len(r.todo) /\ i + 1 # 1 /\ Tail(r.todo)[i] = r.todo[i + 1]
    BY TailIs DEF Grouped
  <1>2. /\ n \in DOMAIN doc /\ n \in Ids /\ n \in Nat
        /\ \A m \in kept : m \in Nat
    BY <1>1, NodeIs
  <1>3. Split(r) = IF n \in r.added THEN [r EXCEPT !.todo = Tail(r.todo)]
                   ELSE [todo |-> Tail(r.todo), groups |-> Append(r.groups, g), added |-> added]
    BY DEF Split
  <1>4. CASE n \in r.added
    <2> DEFINE s == Split(r)
               T == Tail(r.todo)
    <2>1. s.todo = T /\ s.groups = r.groups /\ s.added = r.added
      BY <1>3, <1>4 DEF Splitting
    <2>2. Inside(r.groups, n)
      BY <1>4 DEF Grouped
    <2> HIDE DEF n, s, T
    <2>3. \A i, j \in 1..Len(T) : i < j => T[i] < T[j]
      BY <1>1 DEF Grouped, T
    <2>4. \A m \in kept : Has(T, m) \/ Inside(r.groups, m)
      <3> SUFFICES ASSUME NEW m \in kept, Has(r.todo, m) PROVE Has(T, m) \/ Inside(r.groups, m)
        BY DEF Grouped
      <3>1. PICK i \in 1..Len(r.todo) : r.todo[i] = m
        BY DEF Has
      <3>2. CASE i = 1
        BY <1>1, <2>2, <3>1, <3>2
      <3>3. CASE i # 1
        <4>1. i - 1 \in 1..Len(T) /\ (i - 1) + 1 = i
          BY <1>1, <3>3 DEF T
        <4>2. T[i - 1] = m
          BY <1>1, <3>1, <4>1 DEF T
        <4> QED  BY <4>1, <4>2 DEF Has
      <3> QED  BY <3>2, <3>3
    <2>5. \A i \in 1..Len(T) : T[i] \in r.added \/ \A x : Inside(r.groups, x) => x < T[i]
      BY <1>1 DEF Grouped, T
    <2>6. T \in Seq(kept)
      BY <1>1 DEF T
    <2>7. Grouped(s)
      BY <2>1, <2>3, <2>4, <2>5, <2>6 DEF Grouped
    <2> QED  BY <2>7 DEF s
  <1>5. CASE n \notin r.added
    <2>1. ~IsTable(n)
      BY NoCells
    <2>2. Split(r) = [todo |-> Tail(r.todo), groups |-> Append(r.groups, g), added |-> added]
      BY <1>3, <1>5
    <2>3. CASE tooLong
      <3>1. g = GroupOf({}, {n}) /\ added = r.added
        BY <2>3
      <3>2. {n} \in SUBSET Ids
        BY <1>2
      <3> HIDE DEF g, added
      <3>3. g \in GroupType /\ g.nodes = {n}
        BY <3>1, <3>2, GroupIs
      <3> HIDE DEF tooLong
      <3>4. \A m \in kept : m > n => m \in added \/ \A x \in g.nodes : x < m
        BY <1>2, <3>3
      <3>5. g.nodes \subseteq kept /\ n \in g.nodes /\ added \subseteq r.added \cup g.nodes /\ r.added \subseteq added
        BY <1>1, <3>1, <3>3
      <3> QED  BY <1>5, <2>2, <3>3, <3>4, <3>5, GroupedMore
    <2>4. CASE ~tooLong
      <3> DEFINE top == Ascend(n, r.added)
                 q == link[top]["parent"]
                 heading == IF IsTable(n) \/ q = 0 \/ q \in r.added THEN {} ELSE {q}
      <3>1. g = Section(n, r.added) /\ added = r.added \cup g.nodes
        BY <2>1, <2>4
      <3>2. Section(n, r.added) = GroupOf(heading, AllBelow({top}))
        BY DEF Section
      <3>3. top \in kept /\ n \in Below({top})
        BY <1>1, AscendHolds
      <3> HIDE DEF n, tooLong, g, added, top, heading
      <3>4. AllBelow({top}) = Below({top}) /\ Below({top}) \subseteq kept
        BY <3>3, AllBelowTexts
      <3>5. Below({top}) \in SUBSET Ids
        BY <3>4, NodeIs
      <3>6. g \in GroupType /\ g.nodes = Below({top})
        BY <3>1, <3>2, <3>4, <3>5, GroupIs
      <3>7. ASSUME NEW m \in kept, m > n, NEW x \in g.nodes, ~(x < m) PROVE m \in g.nodes
        <4>1. top \in DOMAIN doc /\ x \in Below({top}) /\ m \in DOMAIN doc /\ doc[m].sized
          BY <3>3, <3>6
        <4>2. top <= n
          BY <3>3, <4>1, BelowIs
        <4>3. top \in Nat /\ x \in Nat /\ m \in Nat
          BY <1>2, <3>3, <3>4, <4>1
        <4>4. top <= m /\ m <= x
          BY <1>2, <3>7, <4>2, <4>3
        <4> QED  BY <3>6, <4>1, <4>4, BelowBetween
      <3>8. \A m \in kept : m > n => m \in added \/ \A x \in g.nodes : x < m
        BY <3>1, <3>7
      <3>9. g.nodes \subseteq kept /\ n \in g.nodes /\ added \subseteq r.added \cup g.nodes /\ r.added \subseteq added
        BY <3>1, <3>3, <3>4, <3>6
      <3> QED  BY <1>5, <2>2, <3>6, <3>8, <3>9, GroupedMore DEF n
    <2> QED  BY <2>3, <2>4
  <1> QED  BY <1>4, <1>5

LEMMA SplitAllIs ==
  ASSUME Parsed(doc), Linked, NEW list \in Seq(DOMAIN doc)
  PROVE  SplitAll(list) \in Seq(GroupType)
  <1>1. [todo |-> list, groups |-> <<>>, added |-> {}] \in Splitting
    BY DEF Splitting, Groups
  <1>2. Splitting \in SUBSET Splitting /\ \A r \in Splitting : r.todo # <<>> => Split(r) \in Splitting
    BY SplitIs
  <1>3. \E r \in Splitting : r.todo = <<>> /\ SplitAll(list) = r.groups
    BY <1>1, <1>2, SplitAllKeeps
  <1> QED  BY <1>3 DEF Splitting, Groups, GroupType

LEMMA SplitAllGroups ==
  ASSUME Parsed(doc), Linked, Nested, Standing, TextOnly, Sorted(doc), kept \subseteq DOMAIN doc,
         \A m \in kept : doc[m].sized
  PROVE  LET gs == SplitAll(InOrder(kept)) IN
         /\ \A n \in kept : Inside(gs, n)
         /\ \A i \in 1..Len(gs) : gs[i].nodes \subseteq kept
         /\ \E z : Topped(gs, z)
  <1> DEFINE list == InOrder(kept)
             I == {r \in Splitting : Grouped(r)}
             start == [todo |-> list, groups |-> <<>>, added |-> {}]
  <1>1. /\ list \in Seq(kept)
        /\ \A i, j \in 1..Len(list) : i < j => list[i] < list[j]
        /\ \A n \in kept : Has(list, n)
    BY OrderOfNodes
  <1>2. list \in Seq(DOMAIN doc)
    BY <1>1
  <1> HIDE DEF list
  <1>3. start \in I
    <2>1. start \in Splitting
      BY <1>2 DEF Splitting, Groups
    <2>2. \A x : ~Inside(<<>>, x)
      BY DEF Inside
    <2>3. \E z : Topped(<<>>, z)
      BY DEF Topped
    <2>4. Grouped(start)
      BY <1>1, <2>2, <2>3 DEF Grouped
    <2> QED  BY <2>1, <2>4
  <1>4. \A r \in I : r.todo # <<>> => Split(r) \in I
    BY SplitIs, GroupedStep
  <1> HIDE DEF I
  <1>5. PICK r \in I : r.todo = <<>> /\ SplitAll(list) = r.groups
    BY <1>2, <1>3, <1>4, SplitAllKeeps DEF I
  <1>6. Grouped(r) /\ \A n : ~Has(r.todo, n)
    BY <1>5 DEF I, Has
  <1> QED  BY <1>5, <1>6 DEF Grouped, list

-----------------------------------------------------------------------------
(* merge_node_group joins two groups that stand next to each other.         *)
LEMMA RemoveIs ==
  ASSUME NEW X, NEW s \in Seq(X), NEW i \in 1..Len(s)
  PROVE  /\ RemoveAt(s, i) \in Seq(X) /\ Len(RemoveAt(s, i)) = Len(s) - 1
         /\ \A k \in 1..Len(s) - 1 : RemoveAt(s, i)[k] = IF k < i THEN s[k] ELSE s[k + 1]
  <1> DEFINE a == SubSeq(s, 1, i - 1)
             b == SubSeq(s, i + 1, Len(s))
  <1>1. Len(s) \in Nat /\ i \in Nat /\ 1 <= i /\ i <= Len(s)
    OBVIOUS
  <1>2. a \in Seq(X) /\ Len(a) = i - 1 /\ \A k \in 1..i - 1 : a[k] = s[k]
    BY <1>1
  <1>3. b \in Seq(X) /\ Len(b) = Len(s) - i /\ \A k \in 1..Len(s) - i : b[k] = s[k + i]
    BY <1>1
  <1>4. RemoveAt(s, i) = a \o b
    BY DEF RemoveAt
  <1> HIDE DEF a, b
  <1>5. /\ a \o b \in Seq(X) /\ Len(a \o b) = Len(a) + Len(b)
        /\ \A k \in 1..Len(a) : (a \o b)[k] = a[k]
        /\ \A k \in 1..Len(b) : (a \o b)[Len(a) + k] = b[k]
    <2>1. /\ a \o b \in Seq(X) /\ Len(a \o b) = Len(a) + Len(b)
          /\ \A k \in 1..Len(a) + Len(b) : (a \o b)[k] = IF k <= Len(a) THEN a[k] ELSE b[k - Len(a)]
      BY <1>2, <1>3, ConcatProperties
    <2>2. Len(a) \in Nat /\ Len(b) \in Nat
      BY <1>2, <1>3
    <2>3. \A k \in 1..Len(a) : k \in 1..Len(a) + Len(b) /\ k <= Len(a)
      BY <2>2
    <2>4. \A k \in 1..Len(b) : /\ Len(a) + k \in 1..Len(a) + Len(b) /\ ~(Len(a) + k <= Len(a))
                               /\ (Len(a) + k) - Len(a) = k
      BY <2>2
    <2> QED  BY <2>1, <2>3, <2>4
  <1>6. Len(a \o b) = Len(s) - 1
    BY <1>1, <1>2, <1>3, <1>5
  <1>7. ASSUME NEW k \in 1..Len(s) - 1 PROVE (a \o b)[k] = IF k < i THEN s[k] ELSE s[k + 1]
    <2>1. CASE k < i
      BY <1>1, <2>1, <1>2, <1>5
    <2>2. CASE ~(k < i)
      <3> DEFINE l == k - (i - 1)
      <3>1. l \in 1..Len(s) - i /\ Len(a) + l = k /\ l + i = k + 1
        BY <1>1, <1>2, <2>2
      <3> HIDE DEF l
      <3>2. l \in 1..Len(b)
        BY <1>3, <3>1
      <3>3. (a \o b)[Len(a) + l] = b[l]
        BY <1>5, <3>2
      <3>4. b[l] = s[l + i]
        BY <1>3, <3>1
      <3> QED  BY <2>2, <3>1, <3>3, <3>4
    <2> QED  BY <2>1, <2>2
  <1> QED  BY <1>4, <1>5, <1>6, <1>7

Joined(gs, hs) ==
  /\ hs \in Seq(GroupType) /\ Len(hs) = Len(gs) - 1
  /\ \E a \in 1..Len(gs) - 1 :
        \A k \in 1..Len(gs) - 1 :
           hs[k].nodes = IF k < a THEN gs[k].nodes
                         ELSE IF k = a THEN gs[a].nodes \cup gs[a + 1].nodes
                         ELSE gs[k + 1].nodes

LEMMA JoinFirstIs ==
  ASSUME NEW gs \in Seq(GroupType), Len(gs) > 1, Small(gs) # {}
  PROVE  Joined(gs, JoinFirst(gs))
  <1> DEFINE i == Smallest(Small(gs))
             j == Partner(gs, i)
             both == [tokens |-> gs[i].tokens + gs[j].tokens, nodes |-> gs[i].nodes \cup gs[j].nodes]
             hs == [gs EXCEPT ![j] = both]
             N == Len(gs)
             R == RemoveAt(hs, i)
  <1>1. N \in Nat /\ N > 1 /\ DOMAIN gs = 1..N
    OBVIOUS
  <1>2. i \in 1..N
    <2>1. Small(gs) \in SUBSET (1..N)
      BY <1>1 DEF Small
    <2>2. FirstOf(Small(gs)) \in Small(gs)
      BY <1>1, <2>1, FirstIs
    <2>3. FirstOf(Small(gs)) = i
      BY DEF FirstOf
    <2> HIDE DEF i, N
    <2> QED  BY <2>1, <2>2, <2>3
  <1>3. JoinFirst(gs) = R
    BY DEF JoinFirst
  <1> HIDE DEF i
  <1>4. j \in 1..N /\ (j = i + 1 \/ j = i - 1)
    <2>1. i \in Nat /\ 1 <= i /\ i <= N
      BY <1>1, <1>2
    <2> DEFINE less == gs[i - 1].tokens <= gs[i + 1].tokens
    <2>2. j = IF i = 1 THEN 2 ELSE IF i = N THEN i - 1 ELSE IF less THEN i - 1 ELSE i + 1
      BY DEF Partner
    <2> HIDE DEF j, N, less
    <2> QED  BY <1>1, <2>1, <2>2
  <1> HIDE DEF j
  <1>5. gs[i] \in GroupType /\ gs[j] \in GroupType
    BY <1>1, <1>2, <1>4
  <1>6. both \in GroupType /\ both.nodes = gs[i].nodes \cup gs[j].nodes
    BY <1>5 DEF GroupType
  <1> HIDE DEF both
  <1>7. hs \in Seq(GroupType) /\ Len(hs) = N /\ hs[j] = both /\ \A k \in 1..N : k # j => hs[k] = gs[k]
    BY <1>1, <1>4, <1>6
  <1> HIDE DEF hs
  <1>8. /\ R \in Seq(GroupType) /\ Len(R) = N - 1
        /\ \A k \in 1..N - 1 : R[k] = IF k < i THEN hs[k] ELSE hs[k + 1]
    BY <1>2, <1>7, RemoveIs
  <1> HIDE DEF R, N
  <1> DEFINE a == IF j = i + 1 THEN i ELSE j
  <1>9. a \in 1..N - 1
    BY <1>1, <1>2, <1>4
  <1>10. ASSUME NEW k \in 1..N - 1
         PROVE  R[k].nodes = IF k < a THEN gs[k].nodes
                             ELSE IF k = a THEN gs[a].nodes \cup gs[a + 1].nodes ELSE gs[k + 1].nodes
    <2>1. k \in 1..N /\ k + 1 \in 1..N /\ k \in Nat
      BY <1>1
    <2>2. CASE j = i + 1
      <3>1. CASE k < i
        BY <1>2, <2>1, <2>2, <3>1, <1>7, <1>8
      <3>2. CASE k = i
        <4>1. R[k] = hs[i + 1]
          BY <1>2, <1>8, <3>2
        <4>2. R[k].nodes = gs[i].nodes \cup gs[i + 1].nodes
          BY <1>6, <1>7, <2>2, <4>1
        <4>3. a = i /\ k = a /\ ~(k < a)
          BY <2>1, <2>2, <3>2
        <4> HIDE DEF a
        <4> QED  BY <4>2, <4>3
      <3>3. CASE ~(k < i) /\ k # i
        BY <1>2, <1>8, <2>1, <2>2, <3>3, <1>7
      <3> QED  BY <3>1, <3>2, <3>3
    <2>3. CASE j = i - 1
      <3>1. a = j /\ j + 1 = i /\ j # i + 1
        BY <1>2, <2>3
      <3>2. CASE k < j
        <4>1. k < i /\ k # j
          BY <1>2, <1>4, <2>1, <2>3, <3>2
        <4> QED  BY <1>7, <1>8, <2>1, <3>1, <3>2, <4>1
      <3>3. CASE k = j
        <4>1. k < i
          BY <1>2, <2>1, <2>3, <3>3
        <4>2. R[k] = both
          BY <1>7, <1>8, <3>3, <4>1
        <4>3. R[k].nodes = gs[j].nodes \cup gs[j + 1].nodes
          BY <1>6, <3>1, <4>2
        <4>4. k = a /\ ~(k < a)
          BY <2>1, <3>1, <3>3
        <4> HIDE DEF a
        <4> QED  BY <3>1, <4>3, <4>4
      <3>4. CASE ~(k < j) /\ k # j
        <4>1. ~(k < i) /\ k + 1 # j
          BY <1>2, <1>4, <2>1, <2>3, <3>4
        <4> QED  BY <1>7, <1>8, <2>1, <3>1, <3>4, <4>1
      <3> QED  BY <3>2, <3>3, <3>4
    <2> QED  BY <1>4, <2>2, <2>3
  <1> HIDE DEF a
  <1>11. Joined(gs, R)
    BY <1>8, <1>9, <1>10 DEF Joined, N
  <1> QED  BY <1>3, <1>11

LEMMA JoinKeeps ==
  ASSUME NEW gs \in Seq(GroupType), Len(gs) > 1, Small(gs) # {}
  PROVE  /\ \A x : Inside(gs, x) => Inside(JoinFirst(gs), x)
         /\ \A K : (\A k \in 1..Len(gs) : gs[k].nodes \subseteq K)
                     => \A k \in 1..Len(JoinFirst(gs)) : JoinFirst(gs)[k].nodes \subseteq K
         /\ \A z : Topped(gs, z) => Topped(JoinFirst(gs), z)
  <1> DEFINE hs == JoinFirst(gs)
             N == Len(gs)
  <1>0. Joined(gs, hs) /\ Len(gs) \in Nat
    BY JoinFirstIs
  <1>1. N \in Nat /\ N > 1 /\ hs \in Seq(GroupType) /\ Len(hs) = N - 1
    BY <1>0 DEF Joined
  <1>2. PICK a \in 1..N - 1 :
           \A k \in 1..N - 1 : hs[k].nodes = IF k < a THEN gs[k].nodes
                                             ELSE IF k = a THEN gs[a].nodes \cup gs[a + 1].nodes
                                             ELSE gs[k + 1].nodes
    BY <1>0 DEF Joined
  <1>3. a \in Nat /\ 1 <= a /\ a + 1 <= N
    BY <1>1
  <1> HIDE DEF hs, N
  <1>4. ASSUME NEW k \in 1..N - 1, NEW x \in hs[k].nodes
        PROVE  \E l \in 1..N : x \in gs[l].nodes /\ (k < N - 1 => l < N)
    <2>1. k \in 1..N /\ k + 1 \in 1..N /\ (k < N - 1 => k + 1 < N) /\ (k < N - 1 => k < N)
      BY <1>1
    <2>2. x \in gs[k].nodes \/ x \in gs[k + 1].nodes
      BY <1>2, <1>4
    <2> QED  BY <2>1, <2>2
  <1>5. ASSUME NEW l \in 1..N, NEW x \in gs[l].nodes PROVE \E k \in 1..N - 1 : x \in hs[k].nodes
    <2>1. CASE l <= a
      BY <1>1, <1>3, <2>1, <1>2, <1>5
    <2>2. CASE l = a + 1
      BY <1>2, <1>3, <1>5, <2>2
    <2>3. CASE ~(l <= a) /\ l # a + 1
      <3>1. l - 1 \in 1..N - 1 /\ ~(l - 1 < a) /\ l - 1 # a /\ (l - 1) + 1 = l
        BY <1>1, <1>3, <2>3
      <3>2. x \in hs[l - 1].nodes
        BY <1>2, <1>5, <3>1
      <3> QED  BY <3>1, <3>2
    <2> QED  BY <2>1, <2>2, <2>3
  <1>6. \A x : Inside(gs, x) => Inside(hs, x)
    BY <1>1, <1>5 DEF Inside, N
  <1>7. \A K : (\A k \in 1..N : gs[k].nodes \subseteq K) => \A k \in 1..Len(hs) : hs[k].nodes \subseteq K
    BY <1>1, <1>4
  <1>8. ASSUME NEW z, Topped(gs, z) PROVE Topped(hs, z)
    <2>1. gs # <<>>
      BY <1>1 DEF N
    <2>2. /\ z \in gs[N].nodes
          /\ \A i \in 1..N : \A x \in gs[i].nodes : x <= z /\ (i < N => x # z)
      BY <1>8, <2>1 DEF Topped, N
    <2>3. z \in hs[N - 1].nodes
      BY <1>1, <1>3, <1>2, <2>2
    <2>4. \A k \in 1..N - 1 : \A x \in hs[k].nodes : x <= z /\ (k < N - 1 => x # z)
      BY <1>4, <2>2
    <2> QED  BY <1>1, <2>3, <2>4 DEF Topped
  <1> QED  BY <1>6, <1>7, <1>8 DEF hs, N

(* What merging leaves has all the nodes, and still ends last.              *)
LEMMA MergeKeeps ==
  ASSUME NEW gs \in Groups
  PROVE  /\ Merge(gs) \in Seq(GroupType)
         /\ \A x : Inside(gs, x) => Inside(Merge(gs), x)
         /\ \A K : (\A k \in 1..Len(gs) : gs[k].nodes \subseteq K)
                     => \A k \in 1..Len(Merge(gs)) : Merge(gs)[k].nodes \subseteq K
         /\ \A z : Topped(gs, z) => Topped(Merge(gs), z)
  <1> DEFINE D == Groups
             stop == {g \in D : Len(g) <= 1 \/ Small(g) = {}}
             next == [g \in D |-> IF g \in stop THEN g ELSE JoinFirst(g)]
             go == CHOOSE f : f = [g \in Groups |-> IF Len(g) <= 1 \/ Small(g) = {} THEN g ELSE f[JoinFirst(g)]]
             k == [g \in D |-> Len(g)]
             I == {g \in D : /\ \A x : Inside(gs, x) => Inside(g, x)
                             /\ \A K : (\A l \in 1..Len(gs) : gs[l].nodes \subseteq K)
                                         => \A l \in 1..Len(g) : g[l].nodes \subseteq K
                             /\ \A z : Topped(gs, z) => Topped(g, z)}
  <1>1. Merge(gs) = go[gs]
    BY DEF Merge
  <1>2. D = Seq(GroupType)
    BY DEF Groups, GroupType
  <1>3. \A g \in D : g \notin stop => JoinFirst(g) \in D /\ Len(JoinFirst(g)) = Len(g) - 1
                                      /\ Len(g) \in Nat /\ Len(g) > 1 /\ Small(g) # {}
    <2> SUFFICES ASSUME NEW g \in D, g \notin stop
                 PROVE  JoinFirst(g) \in D /\ Len(JoinFirst(g)) = Len(g) - 1
                        /\ Len(g) \in Nat /\ Len(g) > 1 /\ Small(g) # {}
      OBVIOUS
    <2>1. g \in Seq(GroupType) /\ Len(g) \in Nat /\ Len(g) > 1 /\ Small(g) # {}
      BY <1>2
    <2>2. Joined(g, JoinFirst(g))
      BY <2>1, JoinFirstIs
    <2> HIDE DEF D, stop
    <2> QED  BY <1>2, <2>1, <2>2 DEF Joined
  <1>4. next \in [D -> D]
    <2> HIDE DEF D, stop
    <2> QED  BY <1>3
  <1>5. \A f : Loop(D, stop, next, f) <=>
           f = [g \in D |-> IF Len(g) <= 1 \/ Small(g) = {} THEN g ELSE f[JoinFirst(g)]]
    <2> HIDE DEF D
    <2> QED  BY DEF Loop
  <1>6. Loop(D, stop, next, go)
    <2> HIDE DEF D, stop, next
    <2> QED  BY <1>4, LoopExists, <1>5 DEF D
  <1>7. gs \in I /\ I \subseteq D
    OBVIOUS
  <1>8. \A g \in I : k[g] \in Nat
    BY <1>2
  <1>9. ASSUME NEW g \in I, g \notin stop PROVE next[g] \in I /\ k[next[g]] < k[g]
    <2> DEFINE h == JoinFirst(g)
    <2>1. /\ g \in D /\ h \in D /\ Len(h) = Len(g) - 1 /\ Len(g) \in Nat /\ Len(g) > 1 /\ Small(g) # {}
          /\ next[g] = h
      BY <1>3, <1>9
    <2>2. /\ \A x : Inside(g, x) => Inside(h, x)
          /\ \A K : (\A l \in 1..Len(g) : g[l].nodes \subseteq K)
                      => \A l \in 1..Len(h) : h[l].nodes \subseteq K
          /\ \A z : Topped(g, z) => Topped(h, z)
      BY <1>2, <2>1, JoinKeeps
    <2> HIDE DEF h, D
    <2>3. h \in I
      BY <1>9, <2>1, <2>2
    <2>4. k[h] = Len(h) /\ k[g] = Len(g)
      BY <2>1
    <2> HIDE DEF I, k, next, stop
    <2> QED  BY <2>1, <2>3, <2>4
  <1> HIDE DEF D, stop, next, go, k, I
  <1>10. go[gs] \in I
    BY <1>6, <1>7, <1>8, <1>9, LoopEnds
  <1> QED  BY <1>1, <1>2, <1>10 DEF I

-----------------------------------------------------------------------------
(* The last background ends with the file, so that no group is dropped.     *)
LEMMA CutIs ==
  ASSUME Parsed(doc), NEW r \in Cutting, r.todo # <<>>
  PROVE  /\ Cut(r) \in Cutting /\ Cut(r).todo = Tail(r.todo) /\ Cut(r).last = PosOf(Head(r.todo))
         /\ Len(Tail(r.todo)) = Len(r.todo) - 1 /\ Len(r.todo) \in Nat
  <1> DEFINE n == Head(r.todo)
             over == r.length + Own(n) > Background
             ends == IF over THEN Append(r.ends, r.last) ELSE r.ends
             length == IF over THEN Own(n) ELSE r.length + Own(n)
  <1>1. /\ r.todo \in Seq(Ids \ {0}) /\ r.ends \in Seq(Int) /\ r.last \in Int /\ r.length \in Nat
    BY DEF Cutting
  <1>2. n \in Ids \ {0} /\ Tail(r.todo) \in Seq(Ids \ {0}) /\ Len(Tail(r.todo)) = Len(r.todo) - 1
        /\ Len(r.todo) \in Nat
    BY <1>1, TailIs
  <1>3. Cut(r) = [todo |-> Tail(r.todo), ends |-> ends, last |-> PosOf(n), length |-> length]
    BY DEF Cut
  <1> HIDE DEF n
  <1>4. Len(doc) \in Nat /\ n \in Nat /\ n # 0
    BY <1>2, NodeIs DEF Ids
  <1>5. Own(n) \in Nat
    <2>1. CASE n > Len(doc)
      BY <2>1 DEF Own
    <2>2. CASE ~(n > Len(doc))
      BY <1>4, <2>2, NodeIs DEF Own
    <2> QED  BY <2>1, <2>2
  <1>6. PosOf(n) \in Int
    BY <1>4 DEF PosOf
  <1>7. ends \in Seq(Int) /\ length \in Nat
    <2> HIDE DEF over
    <2> QED  BY <1>1, <1>5
  <1> HIDE DEF ends, length
  <1> QED  BY <1>2, <1>3, <1>6, <1>7 DEF Cutting, n

LEMMA EndsKeeps ==
  ASSUME Parsed(doc), NEW gs, gs # <<>>, NEW I \in SUBSET Cutting,
         [todo |-> InOrder(UNION {gs[i].nodes : i \in DOMAIN gs}), ends |-> <<>>,
          last |-> Nothing, length |-> 0] \in I,
         \A r \in I : r.todo # <<>> => Cut(r) \in I
  PROVE  \E r \in I : r.todo = <<>> /\ Ends(gs) = Append(r.ends, r.last)
  <1> DEFINE D == Cutting
             stop == {r \in D : r.todo = <<>>}
             next == [r \in D |-> IF r.todo = <<>> THEN r ELSE Cut(r)]
             go == CHOOSE f : f = [r \in Cutting |-> IF r.todo = <<>> THEN r ELSE f[Cut(r)]]
             k == [r \in D |-> Len(r.todo)]
             start == [todo |-> InOrder(UNION {gs[i].nodes : i \in DOMAIN gs}), ends |-> <<>>,
                       last |-> Nothing, length |-> 0]
             last == go[start]
  <1>1. Ends(gs) = Append(last.ends, last.last)
    BY DEF Ends
  <1>2. next \in [D -> D]
    BY CutIs
  <1>3. \A f : Loop(D, stop, next, f) <=>
           f = [r \in D |-> IF r.todo = <<>> THEN r ELSE f[Cut(r)]]
    <2> HIDE DEF D
    <2> QED  BY DEF Loop
  <1>4. Loop(D, stop, next, go)
    <2> HIDE DEF D, stop, next
    <2> QED  BY <1>2, LoopExists, <1>3 DEF D
  <1>5. start \in I /\ I \subseteq D
    OBVIOUS
  <1>6. \A r \in I : k[r] \in Nat
    BY DEF Cutting
  <1>7. ASSUME NEW r \in I, r \notin stop PROVE next[r] \in I /\ k[next[r]] < k[r]
    <2>1. r \in D /\ r.todo # <<>> /\ next[r] = Cut(r)
      BY <1>7
    <2>2. /\ Cut(r) \in D /\ Cut(r).todo = Tail(r.todo)
          /\ Len(Tail(r.todo)) = Len(r.todo) - 1 /\ Len(r.todo) \in Nat
      BY <2>1, CutIs
    <2>3. k[next[r]] = Len(Tail(r.todo)) /\ k[r] = Len(r.todo)
      BY <2>1, <2>2
    <2>4. Cut(r) \in I
      BY <1>7, <2>1
    <2> HIDE DEF k, next
    <2> QED  BY <2>1, <2>2, <2>3, <2>4
  <1> HIDE DEF D, stop, next, go, k, start
  <1>8. go[start] \in I /\ go[start] \in stop
    <2>1. \A r \in I : r \notin stop => next[r] \in I /\ k[next[r]] < k[r]
      BY <1>7
    <2>2. start \in I
      BY <1>5
    <2>3. I \subseteq D
      BY <1>5
    <2> QED  BY <1>4, <1>6, <2>1, <2>2, <2>3, LoopEnds
  <1>9. last \in I /\ last.todo = <<>>
    BY <1>8 DEF stop
  <1> QED  BY <1>1, <1>9

EndsAt(s, z) == s # <<>> => s[Len(s)] = z

LEMMA EndsIs ==
  ASSUME Parsed(doc), NEW gs \in Seq(GroupType), gs # <<>>,
         \A i \in 1..Len(gs) : gs[i].nodes \subseteq DOMAIN doc, NEW z, Topped(gs, z)
  PROVE  Ends(gs) \in Seq(Int) /\ Ends(gs) # <<>> /\ EndsAt(Ends(gs), z)
  <1> DEFINE U == UNION {gs[i].nodes : i \in DOMAIN gs}
             list == InOrder(U)
             start == [todo |-> list, ends |-> <<>>, last |-> Nothing, length |-> 0]
             I == {r \in Cutting : /\ \A i \in 1..Len(r.todo) : r.todo[i] \in DOMAIN doc
                                   /\ EndsAt(r.todo, z)
                                   /\ r.todo = <<>> => r.last = z}
  <1>1. Len(doc) \in Nat /\ DOMAIN doc = 1..Len(doc) /\ \A n \in DOMAIN doc : n \in Nat /\ n \in Ids \ {0}
    BY NodeIs
  <1>2. DOMAIN gs = 1..Len(gs) /\ Len(gs) \in Nat /\ Len(gs) \in 1..Len(gs)
    OBVIOUS
  <1>3. U \subseteq DOMAIN doc
    BY <1>2
  <1>4. z \in U /\ \A x \in U : x <= z
    BY <1>2 DEF Topped
  <1> HIDE DEF U
  <1>5. /\ list \in Seq(U) /\ \A i, j \in 1..Len(list) : i < j => list[i] < list[j]
        /\ \A n \in U : Has(list, n)
    BY <1>3, OrderOfNodes
  <1> HIDE DEF list
  <1>6. list # <<>> /\ list[Len(list)] = z
    <2>1. PICK i \in 1..Len(list) : list[i] = z
      BY <1>4, <1>5 DEF Has
    <2>2. Len(list) \in Nat /\ Len(list) \in 1..Len(list) /\ list[Len(list)] \in U
      BY <1>5, <2>1
    <2>3. list[Len(list)] <= z /\ list[Len(list)] \in Nat /\ z \in Nat
      BY <1>1, <1>3, <1>4, <2>2
    <2>4. CASE i < Len(list)
      BY <1>5, <2>2, <2>4, <2>1, <2>3
    <2>5. CASE ~(i < Len(list))
      BY <2>2, <2>5, <2>1
    <2> QED  BY <2>4, <2>5
  <1>7. start \in I
    <2>1. start \in Cutting
      BY <1>1, <1>3, <1>5 DEF Nothing, Cutting
    <2>2. \A i \in 1..Len(list) : list[i] \in DOMAIN doc
      BY <1>3, <1>5
    <2> QED  BY <1>6, <2>1, <2>2 DEF EndsAt
  <1>8. ASSUME NEW r \in I, r.todo # <<>> PROVE Cut(r) \in I
    <2> DEFINE s == Cut(r)
               T == Tail(r.todo)
    <2>1. /\ s \in Cutting /\ s.todo = T /\ s.last = PosOf(Head(r.todo)) /\ r \in Cutting
      BY <1>8, CutIs
    <2>2. /\ Head(r.todo) = r.todo[1] /\ 1 \in 1..Len(r.todo) /\ Len(r.todo) \in Nat
          /\ Len(T) = Len(r.todo) - 1
          /\ \A i \in 1..Len(T) : i + 1 \in 1..Len(r.todo) /\ i + 1 # 1 /\ T[i] = r.todo[i + 1]
      BY <2>1, <1>8, TailIs DEF Cutting
    <2> HIDE DEF s, T
    <2>3. \A i \in 1..Len(T) : T[i] \in DOMAIN doc
      BY <1>8, <2>2
    <2>4. EndsAt(T, z)
      <3> SUFFICES ASSUME T # <<>> PROVE T[Len(T)] = z
        BY DEF EndsAt
      <3>1. Len(T) \in 1..Len(T) /\ Len(T) + 1 = Len(r.todo)
        BY <2>1, <2>2 DEF Cutting
      <3> QED  BY <1>8, <2>2, <3>1 DEF EndsAt
    <2>5. ASSUME T = <<>> PROVE s.last = z
      <3>1. Len(r.todo) = 1
        BY <2>2, <2>5
      <3>2. Head(r.todo) = z /\ z \in DOMAIN doc
        BY <1>8, <2>2, <3>1 DEF EndsAt
      <3>3. PosOf(z) = z
        BY <1>1, <3>2 DEF PosOf, IsMock
      <3> QED  BY <2>1, <3>2, <3>3
    <2> QED  BY <2>1, <2>3, <2>4, <2>5 DEF s
  <1> HIDE DEF I
  <1>9. PICK r \in I : r.todo = <<>> /\ Ends(gs) = Append(r.ends, r.last)
    <2>1. I \in SUBSET Cutting
      BY DEF I
    <2>2. start = [todo |-> InOrder(UNION {gs[i].nodes : i \in DOMAIN gs}), ends |-> <<>>,
                   last |-> Nothing, length |-> 0]
      BY DEF list, U
    <2> HIDE DEF start
    <2> QED  BY <1>7, <1>8, <2>1, <2>2, EndsKeeps
  <1>10. r.last = z /\ r.ends \in Seq(Int) /\ r.last \in Int
    BY <1>9 DEF I, Cutting
  <1>11. /\ Append(r.ends, z) \in Seq(Int) /\ Append(r.ends, z) # <<>>
         /\ Append(r.ends, z)[Len(Append(r.ends, z))] = z
    BY <1>10
  <1> QED  BY <1>9, <1>10, <1>11 DEF EndsAt

-----------------------------------------------------------------------------
(* With each background go the groups up to the one in which it ends.       *)
LEMMA TellIs ==
  ASSUME NEW r \in Telling, r.todo # <<>>
  PROVE  LET i == FirstOf({k \in DOMAIN r.left : Around(r.left[k], Head(r.todo))})
             s == WithBackground(r) IN
         /\ s \in Telling /\ s.todo = Tail(r.todo) /\ i \in 0..Len(r.left)
         /\ Len(s.todo) = Len(r.todo) - 1 /\ Len(r.todo) \in Nat
         /\ Len(r.left) \in Nat /\ Len(s.left) = Len(r.left) - i
         /\ \A k \in 1..Len(r.left) - i : s.left[k] = r.left[k + i]
         /\ \A x : Inside(r.told, x) \/ Inside(r.left, x) => Inside(s.told, x) \/ Inside(s.left, x)
  <1> DEFINE S == {k \in DOMAIN r.left : Around(r.left[k], Head(r.todo))}
             i == FirstOf(S)
             s == WithBackground(r)
             L == Len(r.left)
             a == SubSeq(r.left, 1, i)
             b == SubSeq(r.left, i + 1, L)
  <1>1. /\ r.todo \in Seq(Int) /\ r.told \in Seq(GroupType) /\ r.left \in Seq(GroupType)
        /\ L \in Nat /\ DOMAIN r.left = 1..L
    BY DEF Telling, Groups, GroupType
  <1>2. Tail(r.todo) \in Seq(Int) /\ Len(Tail(r.todo)) = Len(r.todo) - 1 /\ Len(r.todo) \in Nat
    BY <1>1, TailIs
  <1>3. i \in 0..L
    <2>1. S \in SUBSET (1..L)
      BY <1>1
    <2>2. S = {} => i = 0
      BY <1>1, <2>1, FirstIs
    <2>3. S # {} => i \in S
      BY <1>1, <2>1, FirstIs
    <2> HIDE DEF i, L
    <2> QED  BY <1>1, <2>1, <2>2, <2>3
  <1>4. s = [todo |-> Tail(r.todo), told |-> r.told \o a, left |-> b]
    BY DEF WithBackground
  <1> HIDE DEF i, s, L
  <1>5. a \in Seq(GroupType) /\ Len(a) = i /\ \A k \in 1..i : a[k] = r.left[k]
    BY <1>1, <1>3 DEF L
  <1>6. b \in Seq(GroupType) /\ Len(b) = L - i /\ \A k \in 1..L - i : b[k] = r.left[k + i]
    BY SMTT(30), <1>1, <1>3 DEF L
  <1> HIDE DEF a, b
  <1>7. s \in Telling
    <2>1. r.told \o a \in Seq(GroupType)
      BY <1>1, <1>5
    <2> QED  BY <1>2, <1>4, <1>6, <2>1 DEF Telling, Groups, GroupType
  <1>8. /\ Len(r.told \o a) = Len(r.told) + Len(a) /\ Len(r.told) \in Nat
        /\ \A k \in 1..Len(r.told) + Len(a) :
              (r.told \o a)[k] = IF k <= Len(r.told) THEN r.told[k] ELSE a[k - Len(r.told)]
    <2>1. r.told \in Seq(GroupType) /\ a \in Seq(GroupType)
      BY <1>1, <1>5
    <2>2. Len(r.told) \in Nat
      BY <2>1
    <2> DEFINE q == r.told
    <2>3. q \in Seq(GroupType)
      BY <2>1
    <2> HIDE DEF q
    <2>4. /\ Len(q \o a) = Len(q) + Len(a)
          /\ \A k \in 1..Len(q) + Len(a) : (q \o a)[k] = IF k <= Len(q) THEN q[k] ELSE a[k - Len(q)]
      BY <2>1, <2>3, ConcatProperties
    <2> QED  BY <2>2, <2>4 DEF q
  <1>9. ASSUME NEW x, Inside(r.told, x) PROVE Inside(s.told, x)
    <2>1. PICK k \in 1..Len(r.told) : x \in r.told[k].nodes
      BY <1>9 DEF Inside
    <2>2. k \in 1..Len(r.told) + Len(a) /\ k <= Len(r.told)
      BY <1>3, <1>5, <1>8
    <2>3. x \in (r.told \o a)[k].nodes
      BY <1>8, <2>1, <2>2
    <2> QED  BY <1>4, <1>8, <2>2, <2>3 DEF Inside
  <1>10. ASSUME NEW x, Inside(r.left, x) PROVE Inside(s.told, x) \/ Inside(s.left, x)
    <2>1. PICK k \in 1..L : x \in r.left[k].nodes
      BY <1>10 DEF Inside, L
    <2>2. CASE k <= i
      <3> DEFINE l == Len(r.told) + k
      <3>1. /\ k \in 1..i /\ l \in 1..Len(r.told) + Len(a) /\ ~(l <= Len(r.told))
            /\ l - Len(r.told) = k
        BY <1>1, <1>3, <1>5, <1>8, <2>2
      <3> HIDE DEF l
      <3>2. (r.told \o a)[l] = r.left[k]
        BY <1>5, <1>8, <3>1
      <3>3. x \in s.told[l].nodes /\ l \in 1..Len(s.told)
        BY <1>4, <1>8, <2>1, <3>1, <3>2
      <3> QED  BY <3>3 DEF Inside
    <2>3. CASE ~(k <= i)
      <3> DEFINE l == k - i
      <3>1. l \in 1..L - i /\ l + i = k
        BY <1>1, <1>3, <2>3
      <3> HIDE DEF l
      <3>2. b[l] = r.left[k]
        BY <1>6, <3>1
      <3>3. x \in s.left[l].nodes /\ l \in 1..Len(s.left)
        BY <1>4, <1>6, <2>1, <3>1, <3>2
      <3> QED  BY <3>3 DEF Inside
    <2> QED  BY <2>2, <2>3
  <1>11. s.todo = Tail(r.todo) /\ s.left = b
    BY <1>4
  <1>12. \A x : Inside(r.told, x) \/ Inside(r.left, x) => Inside(s.told, x) \/ Inside(s.left, x)
    BY <1>9, <1>10
  <1> QED  BY <1>1, <1>2, <1>3, <1>6, <1>7, <1>11, <1>12 DEF i, s, L

LEMMA ToldKeeps ==
  ASSUME NEW gs, NEW I \in SUBSET Telling,
         [todo |-> Ends(gs), told |-> <<>>, left |-> gs] \in I,
         \A r \in I : r.todo # <<>> => WithBackground(r) \in I
  PROVE  \E r \in I : r.todo = <<>> /\ Told(gs) = r.told
  <1> DEFINE D == Telling
             stop == {r \in D : r.todo = <<>>}
             next == [r \in D |-> IF r.todo = <<>> THEN r ELSE WithBackground(r)]
             go == CHOOSE f : f = [r \in Telling |-> IF r.todo = <<>> THEN r ELSE f[WithBackground(r)]]
             k == [r \in D |-> Len(r.todo)]
             start == [todo |-> Ends(gs), told |-> <<>>, left |-> gs]
             last == go[start]
  <1>1. Told(gs) = last.told
    BY DEF Told
  <1>2. next \in [D -> D]
    BY TellIs
  <1>3. \A f : Loop(D, stop, next, f) <=>
           f = [r \in D |-> IF r.todo = <<>> THEN r ELSE f[WithBackground(r)]]
    <2> HIDE DEF D
    <2> QED  BY DEF Loop
  <1>4. Loop(D, stop, next, go)
    <2> HIDE DEF D, stop, next
    <2> QED  BY <1>2, LoopExists, <1>3 DEF D
  <1>5. start \in I /\ I \subseteq D
    OBVIOUS
  <1>6. \A r \in I : k[r] \in Nat
    BY DEF Telling
  <1>7. ASSUME NEW r \in I, r \notin stop PROVE next[r] \in I /\ k[next[r]] < k[r]
    <2> DEFINE s == WithBackground(r)
    <2>1. r \in D /\ r.todo # <<>> /\ next[r] = s
      BY <1>7
    <2>2. s \in D /\ Len(s.todo) = Len(r.todo) - 1 /\ Len(r.todo) \in Nat
      BY <2>1, TellIs
    <2>3. k[next[r]] = Len(s.todo) /\ k[r] = Len(r.todo)
      BY <2>1, <2>2
    <2>4. s \in I
      BY <1>7, <2>1
    <2> HIDE DEF k, next, s
    <2> QED  BY <2>1, <2>2, <2>3, <2>4
  <1> HIDE DEF D, stop, next, go, k, start
  <1>8. go[start] \in I /\ go[start] \in stop
    <2>1. \A r \in I : r \notin stop => next[r] \in I /\ k[next[r]] < k[r]
      BY <1>7
    <2>2. start \in I
      BY <1>5
    <2>3. I \subseteq D
      BY <1>5
    <2> QED  BY <1>4, <1>6, <2>1, <2>2, <2>3, LoopEnds
  <1>9. last \in I /\ last.todo = <<>>
    BY <1>8 DEF stop
  <1> QED  BY <1>1, <1>9

Ending(r, z) ==
  /\ \A i \in 1..Len(r.left) : r.left[i].nodes \subseteq DOMAIN doc
  /\ Topped(r.left, z) /\ EndsAt(r.todo, z)
  /\ r.todo = <<>> => r.left = <<>>

LEMMA EndingStep ==
  ASSUME Parsed(doc), NEW r \in Telling, r.todo # <<>>, NEW z, Ending(r, z)
  PROVE  Ending(WithBackground(r), z)
  <1> DEFINE S == {k \in DOMAIN r.left : Around(r.left[k], Head(r.todo))}
             i == FirstOf(S)
             s == WithBackground(r)
             L == Len(r.left)
             T == Tail(r.todo)
  <1>1. /\ s \in Telling /\ s.todo = T /\ i \in 0..L /\ L \in Nat /\ Len(s.left) = L - i
        /\ \A k \in 1..L - i : s.left[k] = r.left[k + i]
    BY TellIs
  <1>2. /\ Head(r.todo) = r.todo[1] /\ 1 \in 1..Len(r.todo) /\ Len(r.todo) \in Nat /\ T \in Seq(Int)
        /\ Len(T) = Len(r.todo) - 1
        /\ \A k \in 1..Len(T) : k + 1 \in 1..Len(r.todo) /\ k + 1 # 1 /\ T[k] = r.todo[k + 1]
    BY TailIs DEF Telling
  <1>3. /\ r.left \in Seq(GroupType) /\ s.left \in Seq(GroupType) /\ DOMAIN r.left = 1..L
    BY <1>1 DEF Telling, Groups, GroupType
  <1>4. \A n \in DOMAIN doc : n \in Nat /\ PosOf(n) = n
    BY NodeIs DEF PosOf, IsMock
  <1> HIDE DEF s, T
  <1>5. \A k \in 1..Len(s.left) : s.left[k].nodes \subseteq DOMAIN doc
    <2> HIDE DEF i
    <2> HIDE DEF L
    <2> QED  BY <1>1 DEF Ending, L
  <1>6. Topped(s.left, z)
    <2> HIDE DEF i
    <2> SUFFICES ASSUME s.left # <<>>
                 PROVE  /\ z \in s.left[Len(s.left)].nodes
                        /\ \A k \in 1..Len(s.left) : \A x \in s.left[k].nodes :
                              x <= z /\ (k < Len(s.left) => x # z)
      BY DEF Topped
    <2>1. Len(s.left) # 0
      BY <1>3
    <2>2. r.left # <<>> /\ L - i \in 1..L - i /\ (L - i) + i = L
      BY <1>1, <1>3, <2>1
    <2>3. z \in r.left[L].nodes /\ \A k \in 1..L : \A x \in r.left[k].nodes : x <= z /\ (k < L => x # z)
      BY <2>2 DEF Ending, Topped
    <2>4. \A k \in 1..L - i : k + i \in 1..L /\ (k < L - i => k + i < L)
      BY <1>1
    <2> HIDE DEF L
    <2>5. z \in s.left[L - i].nodes
      BY <1>1, <2>2, <2>3
    <2>6. \A k \in 1..L - i : \A x \in s.left[k].nodes : x <= z /\ (k < L - i => x # z)
      BY <1>1, <2>3, <2>4
    <2> QED  BY <1>1, <2>5, <2>6
  <1>7. EndsAt(T, z)
    BY <1>2 DEF EndsAt, Ending
  <1>8. ASSUME T = <<>> PROVE s.left = <<>>
    <2>1. Len(r.todo) = 1
      BY <1>2, <1>8
    <2>2. Head(r.todo) = z
      BY <1>2, <2>1 DEF Ending, EndsAt
    <2>3. CASE r.left = <<>>
      <3>1. L = 0
        BY <2>3
      <3> HIDE DEF i, L
      <3>2. i \in 0..L /\ Len(s.left) = L - i
        BY <1>1
      <3>3. i = 0
        BY <3>1, <3>2
      <3>4. Len(s.left) = 0
        BY <3>1, <3>2, <3>3
      <3> QED  BY <1>3, <3>4
    <2>4. CASE r.left # <<>>
      <3>1. L \in 1..L
        BY <1>3, <2>4
      <3>2. /\ z \in r.left[L].nodes
            /\ \A k \in 1..L : \A x \in r.left[k].nodes : x <= z /\ (k < L => x # z)
        BY <2>4 DEF Ending, Topped
      <3>3. \A k \in 1..L : \A x \in r.left[k].nodes : x \in DOMAIN doc
        BY DEF Ending
      <3>4. z \in Nat /\ PosOf(z) = z
        BY <1>4, <3>1, <3>2, <3>3
      <3>5. L \in S
        BY <3>2, <3>4, <1>3, <2>2, <3>1 DEF Around
      <3>6. \A k \in S : k = L
        <4> SUFFICES ASSUME NEW k \in S, k # L PROVE FALSE
          OBVIOUS
        <4>1. k \in 1..L /\ Around(r.left[k], z)
          BY <1>3, <2>2
        <4>2. PICK x \in r.left[k].nodes : z <= PosOf(x)
          BY <4>1 DEF Around
        <4>3. x \in Nat /\ PosOf(x) = x
          BY <1>4, <3>3, <4>1
        <4>4. x <= z /\ x # z
          BY <1>1, <3>2, <4>1
        <4> QED  BY <3>4, <4>2, <4>3, <4>4
      <3>7. i \in S
        BY <1>3, <3>5, <1>1, FirstIs
      <3>8. i = L
        BY <3>6, <3>7
      <3>9. Len(s.left) = 0
        BY <1>1, <3>8
      <3> QED  BY <1>3, <3>9
    <2> QED  BY <2>3, <2>4
  <1>9. s.todo = T
    BY <1>1
  <1> QED  BY <1>5, <1>6, <1>7, <1>8, <1>9 DEF Ending, s

LEMMA ToldIs ==
  ASSUME Parsed(doc), NEW gs \in Seq(GroupType), gs # <<>>,
         \A i \in 1..Len(gs) : gs[i].nodes \subseteq DOMAIN doc, NEW z, Topped(gs, z)
  PROVE  Told(gs) \in Seq(GroupType) /\ \A x : Inside(gs, x) => Inside(Told(gs), x)
  <1> DEFINE I == {r \in Telling : /\ Ending(r, z)
                                   /\ \A x : Inside(gs, x) => Inside(r.told, x) \/ Inside(r.left, x)}
             start == [todo |-> Ends(gs), told |-> <<>>, left |-> gs]
  <1>1. Ends(gs) \in Seq(Int) /\ Ends(gs) # <<>> /\ EndsAt(Ends(gs), z)
    BY EndsIs
  <1>2. start \in I
    BY <1>1 DEF Telling, Groups, GroupType, Ending
  <1>3. \A r \in I : r.todo # <<>> => WithBackground(r) \in I
    <2> SUFFICES ASSUME NEW r \in I, r.todo # <<>> PROVE WithBackground(r) \in I
      OBVIOUS
    <2> DEFINE s == WithBackground(r)
    <2>1. r \in Telling /\ Ending(r, z) /\ \A x : Inside(gs, x) => Inside(r.told, x) \/ Inside(r.left, x)
      OBVIOUS
    <2>2. s \in Telling /\ \A x : Inside(r.told, x) \/ Inside(r.left, x) => Inside(s.told, x) \/ Inside(s.left, x)
      BY <2>1, TellIs
    <2>3. Ending(s, z)
      BY <2>1, EndingStep
    <2> HIDE DEF s
    <2>4. s \in I
      BY <2>1, <2>2, <2>3
    <2> QED  BY <2>4 DEF s
  <1> HIDE DEF I
  <1>4. PICK r \in I : r.todo = <<>> /\ Told(gs) = r.told
    BY <1>2, <1>3, ToldKeeps DEF I
  <1>5. r \in Telling /\ r.left = <<>> /\ \A x : Inside(gs, x) => Inside(r.told, x) \/ Inside(r.left, x)
    BY <1>4 DEF I, Ending
  <1>6. \A x : ~Inside(r.left, x)
    BY <1>5 DEF Inside
  <1>7. r.told \in Seq(GroupType)
    BY <1>5 DEF Telling, Groups, GroupType
  <1> QED  BY <1>4, <1>5, <1>6, <1>7

-----------------------------------------------------------------------------
(* While the contexts of a listing in order are saved, each chunk waits in  *)
(* a group or has its context.                                              *)
Waits(n) == \E i \in 1..Len(groups) : n \in groups[i]
HasContext(n) == \E c \in kept \ Chunks : doc[c].context = doc[n].context
Promise == inOrder /\ TextOnly /\ \A n \in kept : doc[n].sized
TellInv ==
  /\ Sorted(doc)
  /\ Promise /\ summary = "save" =>
       /\ groups \in Seq(SUBSET Ids)
       /\ \A n \in Structure : Waits(n) \/ HasContext(n)
  /\ Promise /\ summary = "done" => \A n \in Structure : HasContext(n)

LEMMA TellInit == InitContexts => TellInv
  <1> SUFFICES ASSUME InitContexts PROVE TellInv
    OBVIOUS
  <1>1. /\ doc \in Documents /\ kept \in {Written} \cup {Written \ {n} : n \in Chunks}
        /\ summary = IF kept \subseteq Chunks THEN "none" ELSE "done"
    BY DEF InitContexts, InitAll, Init
  <1>2. Sorted(doc) /\ Settled(doc)
    BY <1>1, FilesAssumption
  <1>3. ASSUME Promise, summary = "done", NEW n \in Structure PROVE HasContext(n)
    <2> DEFINE told == {doc[c].context : c \in {m \in DOMAIN doc : doc[m].kind = "context"}} \ {0}
    <2>1. kept \subseteq Written /\ \A c \in Written : c \notin Chunks => c \in kept
      BY <1>1
    <2>2. PICK c \in kept : c \notin Chunks
      BY <1>1, <1>3
    <2>3. c \in DOMAIN doc /\ doc[c].kind = "context" /\ doc[c].context # 0
      BY <2>1, <2>2 DEF Written, Chunks
    <2>4. doc[c].context \in told
      BY <2>3
    <2>5. n \in DOMAIN doc /\ doc[n].sized /\ doc[n].kind # "context"
      BY <1>3, <2>1 DEF Promise, Structure, Written, Chunks
    <2>6. doc[n].context \in told
      <3> HIDE DEF told
      <3> QED  BY <1>2, <2>4, <2>5 DEF Settled, told
    <2>7. PICK b \in DOMAIN doc : doc[b].kind = "context" /\ doc[b].context = doc[n].context /\ doc[b].context # 0
      BY <2>6
    <2>8. b \in kept \ Chunks
      BY <2>1, <2>7 DEF Written, Chunks
    <2> QED  BY <2>7, <2>8 DEF HasContext
  <1> QED  BY <1>1, <1>2, <1>3 DEF TellInv

(* What is not told keeps its place in the document.                        *)
LEMMA TellSame ==
  ASSUME TellInv, doc' = doc, kept' = kept
  PROVE  /\ Sorted(doc)'
         /\ UNCHANGED context => TellInv'
         /\ summary' \in {"none", "raised"} => TellInv'
  <1>1. Ids' = Ids /\ Structure' = Structure /\ Chunks' = Chunks /\ (TextOnly' <=> TextOnly)
    BY DEF Ids, Structure, Chunks, TextOnly
  <1>2. Sorted(doc)'
    BY DEF TellInv, Sorted
  <1>3. ASSUME UNCHANGED context PROVE TellInv'
    <2>1. groups' = groups /\ summary' = summary /\ inOrder' = inOrder
      BY <1>3 DEF context
    <2>2. Promise' <=> Promise
      BY <1>1, <2>1 DEF Promise
    <2>3. \A n \in Structure : (Waits(n)' <=> Waits(n)) /\ (HasContext(n)' <=> HasContext(n))
      BY <1>1, <2>1 DEF Waits, HasContext
    <2> QED  BY <1>1, <1>2, <2>1, <2>2, <2>3 DEF TellInv
  <1>4. ASSUME summary' \in {"none", "raised"} PROVE TellInv'
    BY <1>4, <1>2 DEF TellInv
  <1> QED  BY <1>2, <1>3, <1>4

LEMMA SummarizeTells ==
  ASSUME RelInv, ShowInv, HitInv, StandInv, TellInv, Summarize
  PROVE  TellInv'
  <1>1. /\ doc' = doc /\ kept' = kept /\ pc = "recall" /\ ~failed
    BY DEF Summarize, tree
  <1>2. PICK list \in Listings :
           LET gs == IF \E n \in kept : Size(n) < 0 THEN <<>> ELSE Merge(SplitAll(list))
               raises == Nothing \in Range(Ends(gs))
           IN /\ inOrder' = (list = InOrder(kept))
              /\ groups' = IF raises \/ gs = <<>> THEN <<>> ELSE [i \in DOMAIN Told(gs) |-> Told(gs)[i].nodes]
              /\ summary' = IF raises THEN "raised" ELSE "save"
    BY DEF Summarize
  <1>3. CASE summary' = "raised"
    BY <1>1, <1>3, TellSame
  <1>4. CASE summary' # "raised"
    <2>1. summary' = "save"
      BY <1>2, <1>4
    <2>2. Sorted(doc)'
      BY <1>1, TellSame
    <2>3. Ids' = Ids /\ Structure' = Structure /\ (TextOnly' <=> TextOnly)
      BY <1>1 DEF Ids, Structure, TextOnly
    <2>4. ASSUME Promise'
          PROVE  groups' \in Seq(SUBSET Ids) /\ \A n \in Structure : \E i \in 1..Len(groups') : n \in groups'[i]
      <3>1. TextOnly /\ (\A n \in kept : doc[n].sized) /\ list = InOrder(kept)
        BY <1>1, <1>2, <2>3, <2>4 DEF Promise
      <3>2. /\ Parsed(doc) /\ kept \subseteq DOMAIN doc /\ Linked /\ Nested /\ Standing /\ Sorted(doc)
        BY <1>1, <3>1 DEF RelInv, DocOK, ShowInv, HitInv, StandInv, TellInv
      <3>3. ~(\E n \in kept : Size(n) < 0)
        BY <3>2, NodeIs, <3>1, NodeTokenIs
      <3> DEFINE all == SplitAll(InOrder(kept))
                 gs == Merge(all)
      <3>4. /\ summary' = IF Nothing \in Range(Ends(gs)) THEN "raised" ELSE "save"
            /\ groups' = IF Nothing \in Range(Ends(gs)) \/ gs = <<>> THEN <<>>
                         ELSE [i \in DOMAIN Told(gs) |-> Told(gs)[i].nodes]
        BY <1>2, <3>1, <3>3
      <3>5. groups' = IF gs = <<>> THEN <<>> ELSE [i \in DOMAIN Told(gs) |-> Told(gs)[i].nodes]
        <4> HIDE DEF gs
        <4> QED  BY <2>1, <3>4
      <3>6. InOrder(kept) \in Seq(DOMAIN doc)
        BY <3>2, OrderOfNodes
      <3>7. all \in Seq(GroupType)
        BY <3>2, <3>6, SplitAllIs
      <3>8. /\ \A n \in kept : Inside(all, n)
            /\ \A i \in 1..Len(all) : all[i].nodes \subseteq kept
            /\ \E z : Topped(all, z)
        BY <3>1, <3>2, SplitAllGroups
      <3> HIDE DEF all
      <3>9. PICK z : Topped(all, z)
        BY <3>8
      <3>10. /\ gs \in Seq(GroupType) /\ \A n \in kept : Inside(gs, n)
             /\ \A i \in 1..Len(gs) : gs[i].nodes \subseteq kept
             /\ Topped(gs, z)
        BY <3>7, <3>8, <3>9, MergeKeeps DEF Groups, GroupType
      <3> HIDE DEF gs
      <3>11. CASE gs = <<>>
        BY <3>5, <3>11, <3>10 DEF Inside, Structure
      <3>12. CASE gs # <<>>
        <4> DEFINE t == Told(gs)
        <4>1. t \in Seq(GroupType) /\ \A x : Inside(gs, x) => Inside(t, x)
          BY <3>2, <3>10, <3>12, ToldIs
        <4>2. groups' = [i \in DOMAIN t |-> t[i].nodes]
          BY <3>5, <3>12
        <4> HIDE DEF t
        <4>3. DOMAIN t = 1..Len(t) /\ Len(t) \in Nat /\ \A i \in 1..Len(t) : t[i].nodes \in SUBSET Ids
          <5>1. DOMAIN t = 1..Len(t) /\ Len(t) \in Nat
            BY <4>1
          <5>2. \A i \in 1..Len(t) : t[i] \in GroupType
            BY <4>1, <5>1
          <5> QED  BY <5>1, <5>2 DEF GroupType
        <4>4. groups' = [i \in 1..Len(t) |-> t[i].nodes]
          BY <4>2, <4>3
        <4>5. groups' \in Seq(SUBSET Ids) /\ Len(groups') = Len(t)
          BY <4>3, <4>4
        <4>6. ASSUME NEW n \in Structure PROVE \E i \in 1..Len(groups') : n \in groups'[i]
          <5>1. n \in kept
            BY DEF Structure
          <5>2. PICK i \in 1..Len(t) : n \in t[i].nodes
            BY <3>10, <4>1, <5>1 DEF Inside
          <5> QED  BY <4>4, <4>5, <5>2
        <4> QED  BY <4>5, <4>6
      <3> QED  BY <3>11, <3>12
    <2>5. \A n \in Structure : (\E i \in 1..Len(groups') : n \in groups'[i]) => Waits(n)'
      BY DEF Waits
    <2> QED  BY <2>1, <2>2, <2>3, <2>4, <2>5 DEF TellInv
  <1> QED  BY <1>3, <1>4

LEMMA SaveTells ==
  ASSUME RelInv, TellInv, SaveContext
  PROVE  TellInv'
  <1> DEFINE node == Biggest(Free)
  <1>1. /\ DOMAIN doc' = DOMAIN doc /\ Len(doc') = Len(doc) /\ Parsed(doc)
        /\ \A n \in DOMAIN doc : /\ doc'[n].under = doc[n].under /\ doc'[n].kind = doc[n].kind
                                 /\ doc'[n].sized = doc[n].sized
    BY SaveChanges
  <1>2. /\ node \in DOMAIN doc /\ node \notin kept /\ doc[node].kind = "context" /\ kept' = kept \cup {node}
        /\ doc' = [n \in DOMAIN doc |-> IF n \in Structure \cap Head(groups) \/ n = node
                                        THEN [doc[n] EXCEPT !.context = saved + 1] ELSE doc[n]]
    BY SaveIs
  <1>3. /\ summary = "save" /\ summary' = "save" /\ groups # <<>> /\ groups' = Tail(groups)
        /\ inOrder' = inOrder
    BY DEF SaveContext
  <1> HIDE DEF node
  <1>4. Sorted(doc)'
    BY <1>1 DEF TellInv, Sorted
  <1>5. Ids' = Ids /\ Structure' = Structure /\ Chunks' = Chunks /\ kept \subseteq DOMAIN doc
    BY <1>1, <1>2 DEF Ids, Structure, Chunks, RelInv, DocOK
  <1>6. ASSUME Promise' PROVE groups' \in Seq(SUBSET Ids) /\ \A n \in Structure' : Waits(n)' \/ HasContext(n)'
    <2>1. Promise
      BY <1>1, <1>2, <1>3, <1>5, <1>6 DEF Promise, TextOnly
    <2>2. groups \in Seq(SUBSET Ids) /\ \A n \in Structure : Waits(n) \/ HasContext(n)
      BY <1>3, <2>1 DEF TellInv
    <2>3. /\ Head(groups) = groups[1] /\ Tail(groups) \in Seq(SUBSET Ids) /\ Len(groups) \in Nat
          /\ Len(Tail(groups)) = Len(groups) - 1
          /\ \A i \in 1..Len(Tail(groups)) : i + 1 \in 1..Len(groups) /\ Tail(groups)[i] = groups[i + 1]
      BY <1>3, <2>2, TailIs
    <2>4. \A n \in DOMAIN doc : doc[n] \in Node
      BY <1>1, NodeIs
    <2>5. \A n \in DOMAIN doc : n \in Structure \cap Head(groups) \/ n = node => doc'[n].context = saved + 1
      BY <1>2, <2>4 DEF Node
    <2>6. \A n \in DOMAIN doc : ~(n \in Structure \cap Head(groups) \/ n = node) => doc'[n] = doc[n]
      BY <1>2
    <2>7. node \in kept' \ Chunks' /\ doc'[node].context = saved + 1
      BY <1>2, <1>5, <2>5 DEF Chunks
    <2>8. ASSUME NEW n \in Structure PROVE Waits(n)' \/ HasContext(n)'
      <3>1. n \in DOMAIN doc /\ n \in kept /\ n # node
        BY <1>2, <1>5 DEF Structure
      <3>2. CASE n \in Head(groups)
        BY <2>5, <2>8, <3>1, <3>2, <2>7 DEF HasContext
      <3>3. CASE n \notin Head(groups) /\ HasContext(n)
        <4>1. PICK c \in kept \ Chunks : doc[c].context = doc[n].context
          BY <3>3 DEF HasContext
        <4>2. c \in DOMAIN doc /\ c \notin Structure /\ c # node
          BY <1>2, <1>5, <4>1 DEF Structure, Chunks
        <4>3. doc'[c] = doc[c] /\ doc'[n] = doc[n]
          BY <2>6, <3>1, <3>3, <4>2
        <4>4. c \in kept' \ Chunks' /\ doc'[c].context = doc'[n].context
          BY <1>2, <1>5, <4>1, <4>3
        <4> QED  BY <4>4 DEF HasContext
      <3>4. CASE n \notin Head(groups) /\ Waits(n)
        <4>1. PICK i \in 1..Len(groups) : n \in groups[i]
          BY <3>4 DEF Waits
        <4>2. i # 1
          BY <2>3, <3>4, <4>1
        <4> DEFINE j == i - 1
        <4>3. j \in 1..Len(Tail(groups)) /\ j + 1 = i
          BY <2>3, <4>1, <4>2
        <4> HIDE DEF j
        <4>4. j \in 1..Len(groups') /\ n \in groups'[j]
          BY <1>3, <2>3, <4>1, <4>3
        <4> QED  BY <4>4 DEF Waits
      <3> QED  BY <2>2, <3>2, <3>3, <3>4
    <2> QED  BY <1>3, <1>5, <2>3, <2>8
  <1> QED  BY <1>3, <1>4, <1>5, <1>6 DEF TellInv

LEMMA SummaryDoneTells ==
  ASSUME TellInv, SummaryDone
  PROVE  TellInv'
  <1>1. /\ doc' = doc /\ kept' = kept /\ summary = "save" /\ groups = <<>> /\ summary' = "done"
        /\ inOrder' = inOrder
    BY DEF SummaryDone, tree
  <1>2. Sorted(doc)'
    BY <1>1, TellSame
  <1>3. Structure' = Structure /\ Chunks' = Chunks /\ (TextOnly' <=> TextOnly)
    BY <1>1 DEF Structure, Chunks, TextOnly
  <1>4. ASSUME Promise', NEW n \in Structure PROVE HasContext(n)'
    <2>1. Promise
      BY <1>1, <1>3, <1>4 DEF Promise
    <2>2. ~Waits(n)
      BY <1>1 DEF Waits
    <2>3. HasContext(n)
      BY <1>1, <1>4, <2>1, <2>2 DEF TellInv
    <2> QED  BY <1>1, <1>3, <2>3 DEF HasContext
  <1> QED  BY <1>1, <1>2, <1>3, <1>4 DEF TellInv

LEMMA TellNextStep ==
  RelInv /\ ShowInv /\ HitInv /\ StandInv /\ TellInv /\ [NextContexts]_<<vars, context>> => TellInv'
  <1> SUFFICES ASSUME RelInv, ShowInv, HitInv, StandInv, TellInv, [NextContexts]_<<vars, context>>
               PROVE  TellInv'
    OBVIOUS
  <1>1. CASE Next /\ UNCHANGED context
    <2>1. doc' = doc /\ kept' = kept
      BY <1>1 DEF Next, Rebuild, StartWalk, Visit, Expand, MockTables, Recall, CompleteNode,
                  MergeContexts, Done, tree
    <2> QED  BY <1>1, <2>1, TellSame
  <1>2. CASE Summarize
    BY <1>2, SummarizeTells
  <1>3. CASE Unanswered
    BY <1>3, TellSame DEF Unanswered, tree
  <1>4. CASE SaveContext
    BY <1>4, SaveTells
  <1>5. CASE SummaryDone
    BY <1>5, SummaryDoneTells
  <1>6. CASE Die
    BY <1>6, TellSame DEF Die, tree
  <1>7. CASE UNCHANGED <<vars, context>>
    BY <1>7, TellSame DEF vars, tree
  <1> QED  BY <1>1, <1>2, <1>3, <1>4, <1>5, <1>6, <1>7 DEF NextContexts

(* When the task that summarises a file of texts has finished, every chunk  *)
(* has a context that is stored, whatever runs of it died before: grouping, *)
(* merging and cutting into backgrounds lose no node of a listing in order. *)
THEOREM EveryChunkToldStands == SpecContexts => []EveryChunkTold
  <1>1. ASSUME RelInv, TellInv PROVE EveryChunkTold
    <2> SUFFICES ASSUME summary = "done", inOrder, TextOnly, \A n \in kept : Size(n) >= 0,
                        NEW n \in kept \cap Chunks
                 PROVE  \E c \in kept \ Chunks : doc[c].context = doc[n].context
      BY DEF EveryChunkTold
    <2>1. Parsed(doc) /\ kept \subseteq DOMAIN doc
      BY <1>1 DEF RelInv, DocOK
    <2>2. \A m \in kept : doc[m].sized
      BY <2>1, NodeIs, NodeTokenIs
    <2>3. Promise
      BY <2>2 DEF Promise
    <2>4. n \in Structure
      BY DEF Structure, Chunks
    <2>5. HasContext(n)
      BY <1>1, <2>3, <2>4 DEF TellInv
    <2> QED  BY <2>5 DEF HasContext
  <1>2. InitContexts => RelInv /\ ShowInv /\ HitInv /\ StandInv /\ TellInv
    BY RelInit, ShowInit, HitInit, StandInit, TellInit
  <1>3. RelInv /\ ShowInv /\ HitInv /\ StandInv /\ TellInv /\ [NextContexts]_<<vars, context>>
          => RelInv' /\ ShowInv' /\ HitInv' /\ StandInv' /\ TellInv'
    BY RelNext, ShowNextStep, HitNext, StandNext, TellNextStep
  <1> QED  BY <1>1, <1>2, <1>3, PTL DEF SpecContexts
=============================================================================
