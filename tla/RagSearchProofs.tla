--------------------------- MODULE RagSearchProofs ---------------------------
(***************************************************************************)
(* Theorems about RagSearch, for every corpus, every similarity and every  *)
(* set of requests: what a search hands out, whatever the order in which a *)
(* deletion and the request take their steps.                              *)
(***************************************************************************)
EXTENDS RagSearch, FiniteSetTheorems, SequenceTheorems, WellFoundedInduction, TLAPS

-----------------------------------------------------------------------------
(* The stream of a request: nothing is sent before its first item, the     *)
(* nodes come with that item, and what may end a stream has not been sent. *)
Words == {"retrieval.completed", "delta", "sensitives", "error", "message.completed"}
Last == {"error", "message.completed"}
StreamInv ==
    /\ events \in Seq(Words)
    /\ pc \notin {"stream", "end"} => events = <<>>
    /\ pc = "stream" => /\ \A i \in 1..Len(events) : events[i] \notin Last
                        /\ \A i \in 1..Len(events) : events[i] = "retrieval.completed" <=> i = 1
    /\ StreamOrder

LEMMA StreamInit == Init => StreamInv
  BY EmptySeq DEF Init, StreamInv, StreamOrder, Words

LEMMA Pair == ASSUME NEW a \in Words, NEW b \in Words PROVE <<a>> \o <<b>> = <<a, b>>
  <1>1. <<a>> \in Seq(Words) /\ <<b>> \in Seq(Words) /\ <<a, b>> \in Seq(Words)
    OBVIOUS
  <1>2. /\ <<a>> \o <<b>> \in Seq(Words) /\ Len(<<a>> \o <<b>>) = 2
        /\ (<<a>> \o <<b>>)[1] = a /\ (<<a>> \o <<b>>)[2] = b
    BY <1>1, ConcatProperties
  <1>3. \A i \in 1..2 : (<<a>> \o <<b>>)[i] = <<a, b>>[i]
    BY <1>2
  <1> QED  BY <1>1, <1>2, <1>3, SeqEqual

LEMMA Triple ==
  ASSUME NEW a \in Words, NEW b \in Words, NEW c \in Words
  PROVE  <<a, b>> \o <<c>> = <<a, b, c>>
  <1>1. <<a, b>> \in Seq(Words) /\ <<c>> \in Seq(Words) /\ <<a, b, c>> \in Seq(Words)
    OBVIOUS
  <1>2. /\ <<a, b>> \o <<c>> \in Seq(Words) /\ Len(<<a, b>> \o <<c>>) = 3
        /\ (<<a, b>> \o <<c>>)[1] = a /\ (<<a, b>> \o <<c>>)[2] = b
        /\ (<<a, b>> \o <<c>>)[3] = c
    BY <1>1, ConcatProperties
  <1>3. \A i \in 1..3 : (<<a, b>> \o <<c>>)[i] = <<a, b, c>>[i]
    BY <1>2
  <1> QED  BY <1>1, <1>2, <1>3, SeqEqual

(* What an item adds to the stream.                                         *)
LEMMA SentIs ==
  ASSUME NEW event \in Words, events \in Seq(Words)
  PROVE  /\ Sent(event) \in Seq(Words)
         /\ events = <<>> => Sent(event) = <<"retrieval.completed", event>>
         /\ events # <<>> => Sent(event) = <<event>>
  <1>1. CASE events = <<>>
    <2>1. Sent(event) = <<"retrieval.completed">> \o <<event>>
      BY <1>1 DEF Sent
    <2>2. Sent(event) = <<"retrieval.completed", event>>
      BY <2>1, Pair DEF Words
    <2> QED  BY <1>1, <2>2 DEF Words
  <1>2. CASE events # <<>>
    <2>1. Sent(event) = <<event>>
      BY <1>2 DEF Sent
    <2> QED  BY <1>2, <2>1 DEF Words
  <1> QED  BY <1>1, <1>2

LEMMA StreamStep == StreamInv /\ [Next]_vars => StreamInv'
  <1> SUFFICES ASSUME StreamInv, [Next]_vars PROVE StreamInv'
    OBVIOUS
  <1> USE DEF Words, Last
  <1>0. events \in Seq(Words)
    BY DEF StreamInv
  <1>1. CASE UNCHANGED vars
    BY <1>1 DEF vars, deletion, StreamInv, StreamOrder
  <1>2. CASE pc \notin {"answer", "stream"} /\ events' = events /\ pc \notin {"stream", "end"}
                /\ pc' # "stream"
    <2>1. events = <<>>
      BY <1>2 DEF StreamInv
    <2>2. StreamOrder'
      BY <1>2, <2>1 DEF StreamOrder
    <2> QED  BY <1>2, <2>1, <2>2 DEF StreamInv
  <1>3. CASE Erase \/ Purge
    BY <1>3 DEF Erase, Purge, Reading, StreamInv, StreamOrder
  <1>4. CASE AnswerDirectly
    <2>1. events = <<>>
      BY <1>4 DEF AnswerDirectly, StreamInv
    <2>2. pc' = "end"
      BY <1>4 DEF AnswerDirectly, Finish
    <2>3. CASE events' = <<>>
      BY <2>2, <2>3 DEF StreamInv, StreamOrder
    <2>4. CASE events' = Sent("delta") \o <<"message.completed">>
      <3>0. Sent("delta") = <<"retrieval.completed", "delta">>
        BY <1>0, <2>1, SentIs
      <3>1. events' = <<"retrieval.completed", "delta", "message.completed">>
        BY <2>4, <3>0, Triple
      <3> QED  BY <2>2, <3>1 DEF StreamInv, StreamOrder
    <2> QED  BY <1>4, <2>3, <2>4 DEF AnswerDirectly
  <1>5. CASE AnswerAtOnce
    <2>1. events = <<>> /\ pc' = "end" /\ events' = events
      BY <1>5 DEF AnswerAtOnce, Finish, StreamInv
    <2> QED  BY <2>1 DEF StreamInv, StreamOrder
  <1>6. CASE Ask
    <2>1. events = <<>> /\ pc' = "stream" /\ events' = events
      BY <1>6 DEF Ask, Goto, StreamInv
    <2> QED  BY <2>1 DEF StreamInv, StreamOrder
  <1>7. CASE StreamItem
    <2>1. pc = "stream" /\ pc' = pc
      BY <1>7 DEF StreamItem
    <2>2. PICK item \in {"delta", "sensitives"} : events' = events \o Sent(item)
      BY <1>7 DEF StreamItem
    <2>3. events' \in Seq(Words) /\ Len(events') = Len(events) + Len(Sent(item))
      BY <1>0, <2>2, SentIs, ConcatProperties
    <2>4. \A i \in 1..Len(events') : /\ events'[i] \notin Last
                                     /\ events'[i] = "retrieval.completed" <=> i = 1
      <3>1. CASE events = <<>>
        <4>0. Sent(item) = <<"retrieval.completed", item>>
          BY <1>0, <3>1, SentIs
        <4>1. events' = <<"retrieval.completed", item>>
          BY <2>2, <3>1, <4>0, ConcatEmptySeq
        <4> QED  BY <4>1
      <3>2. CASE events # <<>>
        <4>1. events' = events \o <<item>> /\ Len(events) # 0
          BY <1>0, <2>2, <3>2, EmptySeq DEF Sent
        <4>2. Len(events') = Len(events) + 1
          BY <1>0, <4>1
        <4>3. \A i \in 1..Len(events) : events'[i] = events[i]
          BY <1>0, <4>1
        <4>4. events'[Len(events) + 1] = item
          BY <1>0, <4>1
        <4> QED  BY <1>0, <2>1, <4>1, <4>2, <4>3, <4>4 DEF StreamInv
      <3> QED  BY <3>1, <3>2
    <2>5. StreamOrder'
      <3>1. events' # <<"message.completed">>
        BY <2>3, <2>4
      <3>2. DOMAIN events' = 1..Len(events')
        BY <2>3
      <3> QED  BY <2>4, <3>1, <3>2 DEF StreamOrder
    <2>6. pc' = "stream"
      BY <2>1
    <2> QED  BY <2>3, <2>4, <2>5, <2>6 DEF StreamInv
  <1>8. CASE StreamEnd
    <2>1. pc = "stream" /\ pc' = "end"
      BY <1>8 DEF StreamEnd, Finish
    <2>2. \A i \in 1..Len(events) : /\ events[i] \notin Last
                                    /\ events[i] = "retrieval.completed" <=> i = 1
      BY <2>1 DEF StreamInv
    <2>3. CASE events' = Append(events, "message.completed")
      <3>1. events' \in Seq(Words) /\ Len(events') = Len(events) + 1
        BY <1>0, <2>3
      <3>2. \A i \in 1..Len(events) : events'[i] = events[i]
        BY <1>0, <2>3
      <3>3. events'[Len(events) + 1] = "message.completed"
        BY <1>0, <2>3
      <3>4. StreamOrder'
        <4>1. CASE events = <<>>
          <5>1. events' = <<"message.completed">>
            BY <4>1, <2>3
          <5> QED  BY <5>1 DEF StreamOrder
        <4>2. CASE events # <<>>
          <5>1. Len(events) \in Nat \ {0}
            BY <1>0, <4>2, EmptySeq
          <5>2. events' # <<"message.completed">>
            BY <3>1, <5>1
          <5> QED  BY <2>2, <3>1, <3>2, <3>3, <5>1, <5>2 DEF StreamOrder
        <4> QED  BY <4>1, <4>2
      <3> QED  BY <2>1, <3>1, <3>4 DEF StreamInv
    <2>4. CASE StreamError
      <3>1. CASE events = <<>>
        <4>0. Sent("error") = <<"retrieval.completed", "error">>
          BY <1>0, <3>1, SentIs
        <4>1. events' = <<"retrieval.completed", "error">>
          BY <2>4, <3>1, <4>0, ConcatEmptySeq DEF StreamError
        <4> QED  BY <2>1, <4>1 DEF StreamInv, StreamOrder
      <3>2. CASE events # <<>>
        <4>1. events' = events \o <<"error">> /\ Len(events) \in Nat \ {0}
          BY <1>0, <2>4, <3>2, EmptySeq DEF StreamError, Sent
        <4>2. events' \in Seq(Words) /\ Len(events') = Len(events) + 1
          BY <1>0, <4>1
        <4>3. \A i \in 1..Len(events) : events'[i] = events[i]
          BY <1>0, <4>1
        <4>4. events'[Len(events) + 1] = "error"
          BY <1>0, <4>1
        <4>5. events' # <<"message.completed">>
          BY <4>1, <4>2
        <4>6. StreamOrder'
          BY <2>2, <4>1, <4>2, <4>3, <4>4, <4>5 DEF StreamOrder
        <4> QED  BY <2>1, <4>2, <4>6 DEF StreamInv
      <3> QED  BY <3>1, <3>2
    <2>5. CASE UNCHANGED events
      BY <2>1, <2>5 DEF StreamInv, StreamOrder
    <2> QED  BY <1>8, <2>3, <2>4, <2>5 DEF StreamEnd
  <1>9. CASE Read \/ FilterDeleted \/ Build \/ QueryChunks \/ ReadChunkRows \/ QueryQas
                \/ ReadQaRows \/ FuseSimilar \/ QueryEs \/ Fuse \/ Postprocess
    BY <1>2, <1>9 DEF Read, FilterDeleted, Build, QueryChunks, ReadChunkRows, QueryQas, Query,
       ReadQaRows, FuseSimilar, QueryEs, Fuse, Postprocess, Goto, Finish, Fail
  <1> QED  BY <1>1, <1>3, <1>4, <1>5, <1>6, <1>7, <1>8, <1>9 DEF Next, RequestStep

(* However the model's answer goes on and ends, the nodes are named once,  *)
(* before anything else, and nothing follows an error or a completion.      *)
THEOREM StreamKeepsOrder == Spec => []StreamOrder
  <1>1. Spec => []StreamInv
    BY StreamInit, StreamStep, PTL DEF Spec
  <1>2. StreamInv => StreamOrder
    BY DEF StreamInv
  <1> QED  BY <1>1, <1>2, PTL
-----------------------------------------------------------------------------
(* What the operators on lists return.                                      *)
LEMMA ListedIs ==
  ASSUME NEW S, NEW n \in Nat, NEW f, DOMAIN f = 1..n, \A i \in 1..n : f[i] \in S
  PROVE  /\ Listed(f) \in Seq(S) /\ Len(Listed(f)) = n /\ DOMAIN Listed(f) = 1..n
         /\ \A i \in 1..n : Listed(f)[i] = f[i]
  <1>1. Cardinality(1..n) = n
    BY FS_Interval
  <1>2. Listed(f) = SubSeq(f, 1, n)
    BY <1>1 DEF Listed
  <1>3. /\ SubSeq(f, 1, n) \in Seq(S)
        /\ Len(SubSeq(f, 1, n)) = IF 1 <= n THEN n - 1 + 1 ELSE 0
        /\ \A i \in 1..n-1+1 : SubSeq(f, 1, n)[i] = f[1 + i - 1]
    BY SubSeqProperties
  <1>4. Len(Listed(f)) = n
    BY <1>2, <1>3
  <1>5. \A i \in 1..n : Listed(f)[i] = f[i]
    BY <1>2, <1>3
  <1> QED  BY <1>2, <1>3, <1>4, <1>5, LenProperties

LEMMA NumbersAre ==
  ASSUME NEW n \in Nat, NEW f, DOMAIN f = 1..n, \A i \in 1..n : f[i] \in Int
  PROVE  /\ DOMAIN Listed(f) = 1..n
         /\ \A i \in 1..n : Listed(f)[i] = f[i] /\ Listed(f)[i] \in Int
  <1> DEFINE S == Int
  <1>1. \A i \in 1..n : f[i] \in S
    OBVIOUS
  <1> HIDE DEF S
  <1>2. Listed(f) \in Seq(S) /\ Len(Listed(f)) = n
    BY <1>1, ListedIs
  <1>3. \A i \in 1..n : Listed(f)[i] = f[i]
    BY SMTT(20), <1>1, ListedIs
  <1> QED  BY <1>2, <1>3, LenProperties

LEMMA FunctionIs ==
  ASSUME NEW S, NEW n \in Nat, NEW f \in [1..n -> S]
  PROVE  f \in Seq(S) /\ Len(f) = n
  <1>1. f \in Seq(S)
    BY SeqDef
  <1> QED  BY <1>1, LenProperties

LEMMA FirstIs ==
  ASSUME NEW S, NEW s \in Seq(S), NEW k \in Nat
  PROVE  /\ First(s, k) \in Seq(S) /\ Len(First(s, k)) <= k /\ Len(First(s, k)) <= Len(s)
         /\ \A i \in 1..Len(First(s, k)) : First(s, k)[i] = s[i]
  <1> DEFINE m == IF k < Len(s) THEN k ELSE Len(s)
  <1>1. m \in Nat /\ m <= Len(s) /\ m <= k
    BY LenProperties
  <1>2. \A i \in 1..m : s[i] \in S
    BY <1>1, ElementOfSeq
  <1>3. First(s, k) = SubSeq(s, 1, m)
    BY DEF First
  <1> HIDE DEF m
  <1>4. /\ SubSeq(s, 1, m) \in Seq(S)
        /\ Len(SubSeq(s, 1, m)) = IF 1 <= m THEN m - 1 + 1 ELSE 0
        /\ \A i \in 1..m-1+1 : SubSeq(s, 1, m)[i] = s[1 + i - 1]
    BY <1>1, <1>2, SubSeqProperties
  <1>5. Len(SubSeq(s, 1, m)) = m
    BY <1>1, <1>4
  <1> QED  BY <1>1, <1>3, <1>4, <1>5

(* The ranks of the indices I are 1..Cardinality(I), each taken once.       *)
Earlier(I, key, i) == {j \in I : key[j] > key[i] \/ (key[j] = key[i] /\ j <= i)}
Rank(I, key) == [i \in I |-> Cardinality(Earlier(I, key, i))]

LEMMA Ranks ==
  ASSUME NEW I, IsFiniteSet(I), \A i \in I : i \in Int, NEW key, \A i \in I : key[i] \in Int
  PROVE  /\ Cardinality(I) \in Nat
         /\ \A i \in I : Rank(I, key)[i] \in 1..Cardinality(I)
         /\ \A i, j \in I : i \in Earlier(I, key, j) /\ i # j => Rank(I, key)[i] < Rank(I, key)[j]
         /\ \A i, j \in I : i = j \/ i \in Earlier(I, key, j) \/ j \in Earlier(I, key, i)
         /\ Rank(I, key) \in Surjection(I, 1..Cardinality(I))
  <1> DEFINE before(i) == Earlier(I, key, i)
             rank == Rank(I, key)
  <1>a. \A i, j \in I : j \in before(i) <=> key[j] > key[i] \/ (key[j] = key[i] /\ j <= i)
    BY DEF Earlier
  <1>b. \A i \in I : before(i) \in SUBSET I /\ rank[i] = Cardinality(before(i))
    BY DEF Earlier, Rank
  <1>c. DOMAIN rank = I /\ rank = [i \in I |-> Cardinality(before(i))]
    BY DEF Rank
  <1> HIDE DEF before, rank
  <1>1. IsFiniteSet(I) /\ Cardinality(I) \in Nat
    BY FS_CardinalityType
  <1>2. ASSUME NEW i \in I
        PROVE  /\ before(i) \in SUBSET I /\ i \in before(i) /\ IsFiniteSet(before(i))
               /\ rank[i] = Cardinality(before(i)) /\ rank[i] \in 1..Cardinality(I)
    <2>1. before(i) \in SUBSET I /\ i \in before(i) /\ rank[i] = Cardinality(before(i))
      <3>1. i \in Int
        OBVIOUS
      <3> QED  BY <1>a, <1>b, <3>1
    <2>2. IsFiniteSet(before(i)) /\ Cardinality(before(i)) <= Cardinality(I)
      BY <1>1, <2>1, FS_Subset
    <2>3. Cardinality(before(i)) \in Nat /\ Cardinality(before(i)) # 0
      BY <2>1, <2>2, FS_CardinalityType, FS_EmptySet
    <2> QED  BY <1>1, <2>1, <2>2, <2>3
  <1>3. ASSUME NEW i \in I, NEW j \in I, i \in before(j), i # j
        PROVE  rank[i] < rank[j]
    <2>0. i \in Int /\ j \in Int
      OBVIOUS
    <2>1. before(i) \subseteq before(j)
      <3> SUFFICES ASSUME NEW l \in before(i) PROVE l \in before(j)
        OBVIOUS
      <3>1. l \in I /\ (key[l] > key[i] \/ (key[l] = key[i] /\ l <= i))
        BY <1>a, <1>b
      <3>2. key[i] > key[j] \/ (key[i] = key[j] /\ i <= j)
        BY <1>3, <1>a
      <3>3. key[l] > key[j] \/ (key[l] = key[j] /\ l <= j)
        <4>1. l \in Int /\ key[l] \in Int /\ key[i] \in Int /\ key[j] \in Int
          BY <3>1
        <4> QED  BY <2>0, <3>1, <3>2, <4>1
      <3> QED  BY <3>1, <3>3, <1>a
    <2>2. j \notin before(i)
      <3>1. key[i] > key[j] \/ (key[i] = key[j] /\ i <= j)
        BY <1>3, <1>a
      <3> QED  BY <1>3, <1>a, <2>0, <3>1
    <2>3. Cardinality(before(i)) <= Cardinality(before(j)) /\ Cardinality(before(i)) # Cardinality(before(j))
      BY <1>2, <2>1, <2>2, FS_Subset
    <2> QED  BY <1>2, <2>3, <1>1
  <1>4. ASSUME NEW i \in I, NEW j \in I
        PROVE  i = j \/ i \in before(j) \/ j \in before(i)
    <2>1. i \in Int /\ j \in Int /\ key[i] \in Int /\ key[j] \in Int
      OBVIOUS
    <2>2. \/ key[i] > key[j] \/ (key[i] = key[j] /\ i <= j)
          \/ key[j] > key[i] \/ (key[j] = key[i] /\ j <= i)
      BY <2>1
    <2> QED  BY <2>2, <1>a
  <1>5. rank \in Injection(I, 1..Cardinality(I))
    <2>1. rank \in [I -> 1..Cardinality(I)]
      BY <1>2, <1>c
    <2>2. \A i, j \in I : rank[i] = rank[j] => i = j
      <3> SUFFICES ASSUME NEW i \in I, NEW j \in I, rank[i] = rank[j], i # j PROVE FALSE
        OBVIOUS
      <3>1. rank[i] \in Int /\ rank[j] \in Int
        BY <1>2
      <3> QED  BY <1>3, <1>4, <3>1
    <2> QED  BY <2>1, <2>2 DEF Injection, IsInjective
  <1>6. IsFiniteSet(1..Cardinality(I)) /\ Cardinality(1..Cardinality(I)) = Cardinality(I)
    BY <1>1, FS_Interval
  <1>7. rank \in Surjection(I, 1..Cardinality(I))
    BY <1>5, <1>6, FS_Injection
  <1> QED  BY <1>1, <1>2, <1>3, <1>4, <1>7 DEF before, rank

LEMMA OrderIs ==
  ASSUME NEW m \in Nat, NEW I \in SUBSET (1..m), NEW key, DOMAIN key = 1..m,
         \A i \in I : key[i] \in Int
  PROVE  /\ Cardinality(I) \in Nat /\ Order(I, key) \in Seq(I)
         /\ Len(Order(I, key)) = Cardinality(I) /\ DOMAIN Order(I, key) = 1..Cardinality(I)
         /\ \A i \in I : \E k \in 1..Cardinality(I) : Order(I, key)[k] = i
         /\ \A k, l \in 1..Cardinality(I) : k < l =>
               /\ key[Order(I, key)[k]] >= key[Order(I, key)[l]]
               /\ key[Order(I, key)[k]] = key[Order(I, key)[l]]
                     => Order(I, key)[k] < Order(I, key)[l]
               /\ Order(I, key)[k] # Order(I, key)[l]
  <1> DEFINE B(i) == {j \in I : key[j] > key[i] \/ (key[j] = key[i] /\ j <= i)}
             f == [i \in DOMAIN key |-> Cardinality(B(i))]
             g == [k \in 1..Cardinality(I) |-> CHOOSE i \in I : Listed(f)[i] = k]
             values == {f[i] : i \in 1..m}
  <1>0. Order(I, key) = Listed(g)
    BY DEF Order
  <1>1. \A i \in I : f[i] = Rank(I, key)[i]
    BY DEF Rank, Earlier
  <1>2. DOMAIN f = 1..m /\ \A i \in 1..m : f[i] \in values
    OBVIOUS
  <1>c. DOMAIN g = 1..Cardinality(I)
    OBVIOUS
  <1>d. \A k \in 1..Cardinality(I) : g[k] = CHOOSE i \in I : Listed(f)[i] = k
    OBVIOUS
  <1>e. \A i, j \in I : i \in Earlier(I, key, j)
                          <=> key[i] > key[j] \/ (key[i] = key[j] /\ i <= j)
    BY DEF Earlier
  <1> HIDE DEF B, f, g, values
  <1>3. \A i \in 1..m : Listed(f)[i] = f[i]
    BY ZenonT(60), <1>2, ListedIs
  <1>f. \A i \in I : i \in Int
    OBVIOUS
  <1>4. /\ IsFiniteSet(I) /\ Cardinality(I) \in Nat
        /\ \A i \in I : Rank(I, key)[i] \in 1..Cardinality(I)
        /\ \A i, j \in I : i \in Earlier(I, key, j) /\ i # j => Rank(I, key)[i] < Rank(I, key)[j]
        /\ \A i, j \in I : i = j \/ i \in Earlier(I, key, j) \/ j \in Earlier(I, key, i)
        /\ \A k \in 1..Cardinality(I) : \E i \in I : Rank(I, key)[i] = k
    <2>1. IsFiniteSet(1..m)
      BY FS_Interval
    <2>2. IsFiniteSet(I)
      BY <2>1, FS_Subset
    <2>3. \A i \in I : Rank(I, key)[i] \in 1..Cardinality(I)
      BY <2>2, <1>f, Ranks
    <2>4. \A i, j \in I : i = j \/ i \in Earlier(I, key, j) \/ j \in Earlier(I, key, i)
      BY <2>2, <1>f, Ranks
    <2>5. \A i, j \in I : i \in Earlier(I, key, j) /\ i # j => Rank(I, key)[i] < Rank(I, key)[j]
      BY <2>2, <1>f, Ranks
    <2>a. Rank(I, key) \in Surjection(I, 1..Cardinality(I))
      BY <2>2, <1>f, Ranks
    <2>6. \A k \in 1..Cardinality(I) : \E i \in I : Rank(I, key)[i] = k
      BY <2>a DEF Surjection
    <2> QED  BY <2>2, <2>3, <2>4, <2>5, <2>6, FS_CardinalityType
  <1>5. \A i \in I : Listed(f)[i] = Rank(I, key)[i]
    BY <1>1, <1>3
  <1>6. ASSUME NEW k \in 1..Cardinality(I) PROVE g[k] \in I /\ Rank(I, key)[g[k]] = k
    <2>1. \E i \in I : Listed(f)[i] = k
      BY <1>4, <1>5
    <2>2. g[k] \in I /\ Listed(f)[g[k]] = k
      BY <2>1, <1>d
    <2> QED  BY <1>5, <2>2
  <1>7. /\ Listed(g) \in Seq(I) /\ Len(Listed(g)) = Cardinality(I)
        /\ DOMAIN Listed(g) = 1..Cardinality(I)
        /\ \A k \in 1..Cardinality(I) : Listed(g)[k] = g[k]
    BY SMTT(20), <1>4, <1>6, <1>c, ListedIs
  <1>8. ASSUME NEW i \in I PROVE g[Rank(I, key)[i]] = i
    <2>1. Rank(I, key)[i] \in 1..Cardinality(I)
      BY <1>4
    <2>2. g[Rank(I, key)[i]] \in I /\ Rank(I, key)[g[Rank(I, key)[i]]] = Rank(I, key)[i]
      BY <2>1, <1>6
    <2>3. Rank(I, key)[i] \in Int
      BY <1>4, <2>1
    <2>4. ASSUME NEW j \in I, Rank(I, key)[j] = Rank(I, key)[i] PROVE j = i
      <3>1. ~(Rank(I, key)[j] < Rank(I, key)[i]) /\ ~(Rank(I, key)[i] < Rank(I, key)[j])
        BY <2>3, <2>4
      <3> QED  BY <1>4, <3>1
    <2> QED  BY <1>4, <2>2, <2>4
  <1>9. ASSUME NEW k \in 1..Cardinality(I), NEW l \in 1..Cardinality(I), k < l
        PROVE  /\ key[g[k]] >= key[g[l]] /\ (key[g[k]] = key[g[l]] => g[k] < g[l])
               /\ g[k] # g[l]
    <2>1. g[k] \in I /\ g[l] \in I /\ Rank(I, key)[g[k]] = k /\ Rank(I, key)[g[l]] = l
      BY <1>6
    <2>a. k \in Int /\ l \in Int /\ k # l
      BY <1>4, <1>9
    <2>2. g[k] # g[l] /\ k \in Int /\ l \in Int
      BY <2>1, <2>a
    <2>3. g[k] \in Earlier(I, key, g[l])
      <3>1. g[l] \in Earlier(I, key, g[k]) => l < k
        BY <1>4, <2>1, <2>2
      <3>2. g[l] \notin Earlier(I, key, g[k])
        BY <1>9, <2>a, <3>1
      <3> QED  BY <1>4, <2>1, <2>2, <3>2
    <2>4. key[g[k]] > key[g[l]] \/ (key[g[k]] = key[g[l]] /\ g[k] <= g[l])
      BY <1>e, <2>1, <2>3
    <2>5. key[g[k]] \in Int /\ key[g[l]] \in Int /\ g[k] \in Int /\ g[l] \in Int
      BY <2>1, <1>f
    <2> QED  BY <2>2, <2>4, <2>5
  <1>10. \A i \in I : \E k \in 1..Cardinality(I) : Listed(g)[k] = i
    BY <1>4, <1>7, <1>8
  <1>11. \A k, l \in 1..Cardinality(I) : k < l =>
            /\ key[Listed(g)[k]] >= key[Listed(g)[l]]
            /\ key[Listed(g)[k]] = key[Listed(g)[l]] => Listed(g)[k] < Listed(g)[l]
            /\ Listed(g)[k] # Listed(g)[l]
    BY <1>7, <1>9
  <1> QED  BY <1>0, <1>4, <1>7, <1>10, <1>11

(* The values of a list at a list of its places, in their order.            *)
LEMMA AtValues ==
  ASSUME NEW T, NEW list, NEW indices \in Seq(T)
  PROVE  /\ Len(At(list, indices)) = Len(indices)
         /\ DOMAIN At(list, indices) = 1..Len(indices)
         /\ \A k \in 1..Len(indices) : At(list, indices)[k] = list[indices[k]]
  <1> DEFINE f == [k \in DOMAIN indices |-> list[indices[k]]]
             m == Len(indices)
             S == {list[i] : i \in T}
  <1>1. m \in Nat /\ DOMAIN indices = 1..m
    BY LenProperties
  <1>2. \A k \in 1..m : indices[k] \in T
    BY <1>1, ElementOfSeq
  <1>3. DOMAIN f = 1..m /\ \A k \in 1..m : f[k] = list[indices[k]] /\ f[k] \in S
    BY <1>1, <1>2
  <1>4. At(list, indices) = Listed(f)
    BY DEF At
  <1> HIDE DEF f, m, S
  <1>5. /\ Listed(f) \in Seq(S) /\ Len(Listed(f)) = m /\ DOMAIN Listed(f) = 1..m
        /\ \A k \in 1..m : Listed(f)[k] = f[k]
    BY <1>1, <1>3, ListedIs
  <1>6. \A k \in 1..m : Listed(f)[k] = list[indices[k]]
    BY <1>3, <1>5
  <1> QED  BY <1>4, <1>5, <1>6 DEF m, S

LEMMA AtIs ==
  ASSUME NEW S, NEW T, NEW list, \A i \in T : list[i] \in S, NEW indices \in Seq(T)
  PROVE  At(list, indices) \in Seq(S)
  <1> DEFINE f == [k \in DOMAIN indices |-> list[indices[k]]]
             m == Len(indices)
  <1>1. m \in Nat /\ DOMAIN indices = 1..m
    BY LenProperties
  <1>2. DOMAIN f = 1..m /\ \A k \in 1..m : f[k] \in S
    BY <1>1, ElementOfSeq
  <1>3. At(list, indices) = Listed(f)
    BY DEF At
  <1> HIDE DEF f, m
  <1>4. Listed(f) \in Seq(S)
    BY <1>1, <1>2, ListedIs
  <1> QED  BY <1>3, <1>4

LEMMA SortedIs ==
  ASSUME NEW S, NEW list \in Seq(S), NEW key, DOMAIN key = 1..Len(list),
         \A i \in 1..Len(list) : key[i] \in Int
  PROVE  /\ Sorted(list, key) \in Seq(S) /\ Len(Sorted(list, key)) = Len(list)
  <1>1. Len(list) \in Nat /\ DOMAIN list = 1..Len(list)
    BY LenProperties
  <1>2. Cardinality(1..Len(list)) = Len(list)
    <2> DEFINE n == Len(list)
    <2>1. n \in Nat
      BY <1>1
    <2> HIDE DEF n
    <2>2. Cardinality(1..n) = n
      BY <2>1, FS_Interval
    <2> QED  BY <2>2 DEF n
  <1>3. /\ Order(1..Len(list), key) \in Seq(1..Len(list))
        /\ Len(Order(1..Len(list), key)) = Len(list)
    BY <1>1, <1>2, OrderIs
  <1>4. Sorted(list, key) = At(list, Order(1..Len(list), key))
    BY <1>1 DEF Sorted
  <1>5. \A i \in 1..Len(list) : list[i] \in S
    BY <1>1, ElementOfSeq
  <1>6. Sorted(list, key) \in Seq(S)
    BY <1>3, <1>4, <1>5, AtIs
  <1>7. Len(Sorted(list, key)) = Len(list)
    BY <1>3, <1>4, AtValues
  <1> QED  BY <1>6, <1>7

LEMMA InTurnIs ==
  ASSUME NEW n \in Nat, NEW I \in SUBSET (1..n)
  PROVE  /\ Cardinality(I) \in Nat /\ InTurn(I, n) \in Seq(I)
         /\ Len(InTurn(I, n)) = Cardinality(I) /\ DOMAIN InTurn(I, n) = 1..Cardinality(I)
         /\ \A i \in I : \E k \in 1..Cardinality(I) : InTurn(I, n)[k] = i
         /\ \A k, l \in 1..Cardinality(I) : k < l => InTurn(I, n)[k] < InTurn(I, n)[l]
  <1> DEFINE zero == {0}
             f == [i \in 1..n |-> 0]
             key == Listed(f)
  <1>1. DOMAIN f = 1..n /\ \A i \in 1..n : f[i] \in zero
    OBVIOUS
  <1>2. InTurn(I, n) = Order(I, key)
    BY DEF InTurn
  <1>a. \A i \in 1..n : f[i] = 0
    OBVIOUS
  <1>b. key = Listed(f)
    OBVIOUS
  <1> HIDE DEF zero, f, key
  <1>3. DOMAIN key = 1..n /\ \A i \in 1..n : key[i] = f[i]
    <2>1. Listed(f) \in Seq(zero) /\ Len(Listed(f)) = n
      BY <1>1, ListedIs
    <2>2. \A i \in 1..n : Listed(f)[i] = f[i]
      BY ZenonT(60), <1>1, ListedIs
    <2> QED  BY <1>b, <2>1, <2>2, LenProperties
  <1>4. \A i \in I : key[i] = 0
    BY <1>a, <1>3
  <1>5. \A i \in I : key[i] \in Int
    BY <1>4
  <1>6. /\ Cardinality(I) \in Nat /\ Order(I, key) \in Seq(I)
        /\ Len(Order(I, key)) = Cardinality(I) /\ DOMAIN Order(I, key) = 1..Cardinality(I)
        /\ \A i \in I : \E k \in 1..Cardinality(I) : Order(I, key)[k] = i
        /\ \A k, l \in 1..Cardinality(I) : k < l =>
               (key[Order(I, key)[k]] = key[Order(I, key)[l]]
                   => Order(I, key)[k] < Order(I, key)[l])
    <2>1. /\ Cardinality(I) \in Nat /\ Order(I, key) \in Seq(I)
          /\ Len(Order(I, key)) = Cardinality(I) /\ DOMAIN Order(I, key) = 1..Cardinality(I)
      BY <1>3, <1>5, OrderIs
    <2>2. \A i \in I : \E k \in 1..Cardinality(I) : Order(I, key)[k] = i
      BY <1>3, <1>5, OrderIs
    <2>3. ASSUME NEW k \in 1..Cardinality(I), NEW l \in 1..Cardinality(I), k < l,
                 key[Order(I, key)[k]] = key[Order(I, key)[l]]
          PROVE  Order(I, key)[k] < Order(I, key)[l]
      BY <1>3, <1>5, <2>3, OrderIs
    <2> QED  BY <2>1, <2>2, <2>3
  <1>7. \A k \in 1..Cardinality(I) : Order(I, key)[k] \in I
    BY <1>6, ElementOfSeq
  <1> QED  BY <1>2, <1>4, <1>6, <1>7

(* The k-th of places in turn is not before place k, and all of them in     *)
(* turn are all of them.                                                    *)
LEMMA InTurnFrom ==
  ASSUME NEW n \in Nat, NEW I \in SUBSET (1..n), NEW k \in 1..Cardinality(I)
  PROVE  /\ InTurn(I, n)[k] \in I /\ k <= InTurn(I, n)[k]
         /\ Cardinality(I) = n => InTurn(I, n)[k] = k
  <1> DEFINE o == InTurn(I, n)
             c == Cardinality(I)
  <1>1. /\ c \in Nat /\ o \in Seq(I) /\ Len(o) = c /\ DOMAIN o = 1..c
        /\ \A i, j \in 1..c : i < j => o[i] < o[j]
    BY InTurnIs
  <1>a. k \in 1..c
    OBVIOUS
  <1>b. \A i \in I : i \in 1..n
    OBVIOUS
  <1> HIDE DEF o, c
  <1>2. \A i \in 1..c : o[i] \in I /\ o[i] \in 1..n
    BY <1>1, <1>b, ElementOfSeq
  <1>3. k <= o[k]
    <2> DEFINE f == [i \in 1..k |-> o[i]]
    <2>1. \A i \in 1..k : i \in 1..c /\ o[i] \in 1..o[k] /\ i \in Int
      <3> SUFFICES ASSUME NEW i \in 1..k PROVE i \in 1..c /\ o[i] \in 1..o[k] /\ i \in Int
        OBVIOUS
      <3>1. i \in 1..c /\ k \in Int /\ i \in Int
        BY <1>1, <1>a
      <3>2. i = k \/ i < k
        BY <3>1
      <3>3. o[i] \in 1..n /\ o[k] \in 1..n
        BY <1>2, <1>a, <3>1
      <3>4. i < k => o[i] < o[k]
        BY <1>1, <1>a, <3>1
      <3> QED  BY <3>1, <3>2, <3>3, <3>4
    <2>2. \A i, j \in 1..k : o[i] = o[j] => i = j
      <3> SUFFICES ASSUME NEW i \in 1..k, NEW j \in 1..k, o[i] = o[j], i # j PROVE FALSE
        OBVIOUS
      <3>1. o[i] \in Int /\ (i < j => o[i] < o[j]) /\ (j < i => o[j] < o[i])
        BY <1>1, <2>1
      <3>2. i < j \/ j < i
        BY <2>1
      <3> QED  BY <3>1, <3>2
    <2>3. f \in Injection(1..k, 1..o[k])
      BY <2>1, <2>2 DEF Injection, IsInjective
    <2>4. k \in Nat /\ o[k] \in Nat
      BY <1>1, <1>2, <1>a
    <2>a. k \in Int /\ o[k] \in Int /\ (1 > k => k = 0) /\ (1 > o[k] => o[k] = 0)
      BY <2>4
    <2>b. IsFiniteSet(1..o[k]) /\ Cardinality(1..o[k]) = o[k]
      BY <2>a, FS_Interval
    <2>c. Cardinality(1..k) = k
      BY <2>a, FS_Interval
    <2>5. /\ IsFiniteSet(1..o[k]) /\ Cardinality(1..o[k]) = o[k] /\ Cardinality(1..k) = k
      BY <2>b, <2>c
    <2>6. Cardinality(1..k) <= Cardinality(1..o[k])
      BY <2>3, <2>5, FS_Injection
    <2> QED  BY <2>5, <2>6
  <1>4. ASSUME c = n PROVE o[k] <= k
    <2> DEFINE f == [i \in k..n |-> o[i]]
    <2>1. \A i \in k..n : i \in 1..c /\ o[i] \in o[k]..n /\ i \in Int
      <3> SUFFICES ASSUME NEW i \in k..n PROVE i \in 1..c /\ o[i] \in o[k]..n /\ i \in Int
        OBVIOUS
      <3>1. i \in 1..c /\ k \in Int /\ i \in Int
        BY <1>1, <1>a, <1>4
      <3>2. i = k \/ k < i
        BY <3>1
      <3>3. o[i] \in 1..n /\ o[k] \in 1..n
        BY <1>2, <1>a, <3>1
      <3>4. k < i => o[k] < o[i]
        BY <1>1, <1>a, <3>1
      <3> QED  BY <3>1, <3>2, <3>3, <3>4
    <2>2. \A i, j \in k..n : o[i] = o[j] => i = j
      <3> SUFFICES ASSUME NEW i \in k..n, NEW j \in k..n, o[i] = o[j], i # j PROVE FALSE
        OBVIOUS
      <3>1. i \in 1..c /\ j \in 1..c
        BY <2>1
      <3>2. o[i] \in Int /\ (i < j => o[i] < o[j]) /\ (j < i => o[j] < o[i])
        BY <1>1, <1>2, <3>1
      <3>3. i < j \/ j < i
        BY <2>1
      <3> QED  BY <3>2, <3>3
    <2>3. f \in Injection(k..n, o[k]..n)
      BY <2>1, <2>2 DEF Injection, IsInjective
    <2>4. k \in 1..n /\ o[k] \in 1..n
      BY <1>2, <1>4, <1>a
    <2>a. k \in Int /\ o[k] \in Int /\ n \in Int /\ ~(k > n) /\ ~(o[k] > n)
      BY <2>4
    <2>b. IsFiniteSet(o[k]..n) /\ Cardinality(o[k]..n) = n - o[k] + 1
      BY <2>a, FS_Interval
    <2>c. Cardinality(k..n) = n - k + 1
      BY <2>a, FS_Interval
    <2>5. /\ IsFiniteSet(o[k]..n) /\ Cardinality(o[k]..n) = n - o[k] + 1
          /\ Cardinality(k..n) = n - k + 1
      BY <2>b, <2>c
    <2>6. Cardinality(k..n) <= Cardinality(o[k]..n)
      BY <2>3, <2>5, FS_Injection
    <2> QED  BY <2>4, <2>5, <2>6
  <1>5. c = n => o[k] = k
    <2>1. o[k] \in Int /\ k \in Int
      BY <1>1, <1>2, <1>a
    <2> QED  BY <1>3, <1>4, <2>1
  <1> QED  BY <1>2, <1>3, <1>5, <1>a DEF o, c

LEMMA OnlyIs ==
  ASSUME NEW S, NEW list \in Seq(S), NEW I \in SUBSET (1..Len(list))
  PROVE  /\ Cardinality(I) \in Nat /\ Cardinality(I) <= Len(list)
         /\ Only(list, I) \in Seq(S) /\ Len(Only(list, I)) = Cardinality(I)
         /\ \A k \in 1..Cardinality(I) :
               \E i \in I : i \in 1..Len(list) /\ k <= i /\ Only(list, I)[k] = list[i]
         /\ I = 1..Len(list) => Only(list, I) = list
  <1> DEFINE n == Len(list)
             o == InTurn(I, n)
  <1>1. n \in Nat /\ \A i \in 1..n : list[i] \in S
    BY LenProperties, ElementOfSeq
  <1>2. /\ Cardinality(I) \in Nat /\ o \in Seq(I) /\ Len(o) = Cardinality(I)
    BY <1>1, InTurnIs
  <1>a. I \in SUBSET (1..n)
    OBVIOUS
  <1>b. Only(list, I) = At(list, o)
    BY DEF Only
  <1>3. \A k \in 1..Cardinality(I) : /\ o[k] \in I /\ k <= o[k]
                                     /\ Cardinality(I) = n => o[k] = k
    BY <1>1, <1>a, InTurnFrom
  <1>c. list \in Seq(S) /\ Len(list) = n
    OBVIOUS
  <1> HIDE DEF o, n
  <1>4. o \in Seq(1..n)
    BY <1>2, <1>a, SeqMonotonic
  <1>d. At(list, o) \in Seq(S)
    BY <1>1, <1>4, AtIs
  <1>e. /\ Len(At(list, o)) = Len(o)
        /\ \A k \in 1..Len(o) : At(list, o)[k] = list[o[k]]
    BY <1>1, <1>4, AtValues
  <1>5. /\ At(list, o) \in Seq(S) /\ Len(At(list, o)) = Cardinality(I)
        /\ \A k \in 1..Cardinality(I) : At(list, o)[k] = list[o[k]]
    BY <1>2, <1>d, <1>e
  <1>6. Cardinality(I) <= n
    <2>1. IsFiniteSet(1..n) /\ Cardinality(1..n) = n
      BY <1>1, FS_Interval
    <2> QED  BY <1>a, <2>1, FS_Subset
  <1>7. ASSUME I = 1..n PROVE Only(list, I) = list
    <2>1. Cardinality(I) = n
      BY <1>1, <1>7, FS_Interval
    <2>2. \A k \in 1..n : At(list, o)[k] = list[k]
      BY <1>3, <1>5, <2>1
    <2> QED  BY <1>b, <1>c, <1>5, <2>1, <2>2, SeqEqual
  <1>8. ASSUME NEW k \in 1..Cardinality(I)
        PROVE  \E i \in I : i \in 1..n /\ k <= i /\ Only(list, I)[k] = list[i]
    BY <1>3, <1>5, <1>a, <1>b
  <1> QED  BY <1>2, <1>5, <1>6, <1>7, <1>8, <1>b, <1>c

(* The greatest of some numbers is one of them.                             *)
LEMMA GreatestIs ==
  ASSUME NEW m \in Nat, NEW I \in SUBSET (1..m), I # {}, NEW key, DOMAIN key = 1..m,
         \A i \in I : key[i] \in Int
  PROVE  \E i \in I : /\ Greatest({key[j] : j \in I}) = key[i]
                      /\ \A j \in I : key[i] >= key[j]
  <1> DEFINE o == Order(I, key)
             c == Cardinality(I)
  <1>1. /\ c \in Nat /\ o \in Seq(I) /\ Len(o) = c
        /\ \A k, l \in 1..c : k < l => key[o[k]] >= key[o[l]]
    BY OrderIs
  <1>2. \A i \in I : \E k \in 1..c : o[k] = i
    BY OrderIs
  <1> HIDE DEF o, c
  <1>3. PICK x \in I : TRUE
    OBVIOUS
  <1>4. 1 \in 1..c
    BY <1>1, <1>2, <1>3
  <1>5. o[1] \in I
    BY <1>1, <1>4, ElementOfSeq
  <1>6. ASSUME NEW j \in I PROVE key[o[1]] >= key[j]
    <2>1. PICK k \in 1..c : o[k] = j
      BY <1>2
    <2>2. k = 1 \/ 1 < k
      BY <1>1
    <2>3. key[j] \in Int
      OBVIOUS
    <2> QED  BY <1>1, <1>4, <2>1, <2>2, <2>3
  <1>7. key[o[1]] \in {key[j] : j \in I} /\ \A y \in {key[j] : j \in I} : key[o[1]] >= y
    BY <1>5, <1>6
  <1>8. /\ Greatest({key[j] : j \in I}) \in {key[j] : j \in I}
        /\ \A y \in {key[j] : j \in I} : Greatest({key[j] : j \in I}) >= y
    BY <1>7 DEF Greatest
  <1> QED  BY <1>8

LEMMA ScoresAre ==
  ASSUME NEW list \in Seq(Entries)
  PROVE  /\ DOMAIN Scores(list) = 1..Len(list)
         /\ \A i \in 1..Len(list) : Scores(list)[i] = list[i].score /\ Scores(list)[i] \in Nat
  <1> DEFINE f == [i \in DOMAIN list |-> list[i].score]
             n == Len(list)
  <1>1. n \in Nat /\ DOMAIN list = 1..n /\ \A i \in 1..n : list[i] \in Entries
    BY LenProperties, ElementOfSeq
  <1>2. DOMAIN f = 1..n /\ \A i \in 1..n : f[i] = list[i].score /\ f[i] \in Nat
    BY <1>1 DEF Entries
  <1>3. Scores(list) = Listed(f)
    BY DEF Scores
  <1> HIDE DEF f
  <1>4. Listed(f) \in Seq(Nat) /\ Len(Listed(f)) = n /\ \A i \in 1..n : Listed(f)[i] = f[i]
    BY <1>1, <1>2, ListedIs
  <1>5. DOMAIN Scores(list) = 1..n
    BY <1>3, <1>4, LenProperties
  <1> QED  BY <1>2, <1>3, <1>4, <1>5

-----------------------------------------------------------------------------
(* What an entry inherits is a number: the sum over the lists is one.       *)
LEMMA LeastIs ==
  ASSUME NEW T, T \subseteq Nat, T # {}
  PROVE  \E x \in T : \A y \in T : x <= y
  <1>1. IsWellFoundedOn(OpToRel(<, Nat), Nat)
    BY NatLessThanWellFounded
  <1>2. \E x \in T : \A y \in T : ~(<<y, x>> \in OpToRel(<, Nat))
    BY <1>1, WFMin
  <1>3. PICK x \in T : \A y \in T : ~(<<y, x>> \in OpToRel(<, Nat))
    BY <1>2
  <1>4. ASSUME NEW y \in T PROVE x <= y
    <2>1. ~(y < x)
      BY <1>3 DEF OpToRel
    <2>2. x \in Nat /\ y \in Nat
      OBVIOUS
    <2> QED  BY <2>1, <2>2
  <1> QED  BY <1>4

SumOf(f, w, m) == f = [k \in 0..m |-> IF k = 0 THEN 0 ELSE f[k-1] + w[k]]

LEMMA SumsAre ==
  ASSUME NEW n \in Nat, NEW w, \A k \in 1..n : w[k] \in Int
  PROVE  /\ \E f : SumOf(f, w, n)
         /\ \A f : SumOf(f, w, n) => f[n] \in Int
  <1>1. ASSUME NEW f, NEW m \in 0..n, SumOf(f, w, m) PROVE \A k \in 0..m : f[k] \in Int
    <2> DEFINE T == {k \in 0..m : f[k] \notin Int}
    <2>0. m \in Nat
      OBVIOUS
    <2>1. f[0] = 0 /\ \A k \in 1..m : f[k] = f[k-1] + w[k]
      <3>1. \A k \in 0..m : f[k] = IF k = 0 THEN 0 ELSE f[k-1] + w[k]
        BY <1>1 DEF SumOf
      <3> QED  BY <3>1
    <2> SUFFICES ASSUME T # {} PROVE FALSE
      OBVIOUS
    <2>2. PICK x \in T : \A y \in T : x <= y
      <3>1. T \subseteq Nat
        OBVIOUS
      <3> HIDE DEF T
      <3> QED  BY <3>1, LeastIs
    <2>3. x # 0
      BY <2>1, <2>2
    <2>4. x - 1 \in 0..m /\ x \in 1..m /\ ~(x <= x - 1)
      BY <2>2, <2>3
    <2>5. f[x-1] \in Int
      BY <2>2, <2>4
    <2>6. f[x] \in Int
      BY <2>1, <2>4, <2>5
    <2> QED  BY <2>2, <2>6
  <1>2. ASSUME NEW m \in 0..n PROVE \E f : SumOf(f, w, m)
    <2> DEFINE T == {k \in 0..n : ~\E f : SumOf(f, w, k)}
    <2> SUFFICES ASSUME T # {} PROVE FALSE
      OBVIOUS
    <2>1. PICK x \in T : \A y \in T : x <= y
      <3>1. T \subseteq Nat
        OBVIOUS
      <3> HIDE DEF T
      <3> QED  BY <3>1, LeastIs
    <2>2. x # 0
      <3> DEFINE z == [k \in 0..0 |-> 0]
      <3>1. SumOf(z, w, 0)
        <4>1. \A k \in 0..0 : k = 0
          OBVIOUS
        <4>2. z = [k \in 0..0 |-> IF k = 0 THEN 0 ELSE z[k-1] + w[k]]
          BY <4>1
        <4> QED  BY <4>2 DEF SumOf
      <3> QED  BY <2>1, <3>1
    <2>3. x - 1 \in 0..n /\ x \in 1..n /\ ~(x <= x - 1)
      BY <2>1, <2>2
    <2>4. PICK f : SumOf(f, w, x - 1)
      BY <2>1, <2>3
    <2> DEFINE g == [k \in 0..x |-> IF k = x THEN f[x-1] + w[x] ELSE f[k]]
    <2>5. \A k \in 0..x-1 : f[k] = IF k = 0 THEN 0 ELSE f[k-1] + w[k]
      BY <2>4 DEF SumOf
    <2>6. \A k \in 0..x : g[k] = IF k = 0 THEN 0 ELSE g[k-1] + w[k]
      <3> SUFFICES ASSUME NEW k \in 0..x PROVE g[k] = IF k = 0 THEN 0 ELSE g[k-1] + w[k]
        OBVIOUS
      <3>0. x \in Int /\ x > 0 /\ k \in Int /\ k >= 0 /\ k <= x
        BY <2>3
      <3>1. CASE k = x
        <4>1. k # 0 /\ x - 1 \in 0..x /\ x - 1 # x
          BY <3>0, <3>1
        <4>2. g[x-1] = f[x-1]
          BY <4>1
        <4> QED  BY <3>1, <4>1, <4>2
      <3>2. CASE k = 0
        <4>1. g[k] = f[k] /\ k \in 0..x-1
          BY <3>0, <3>2
        <4> QED  BY <2>5, <3>2, <4>1
      <3>3. CASE k # x /\ k # 0
        <4>1. k \in 0..x-1 /\ k - 1 \in 0..x /\ k - 1 # x
          BY <3>0, <3>3
        <4>2. g[k] = f[k] /\ g[k-1] = f[k-1]
          BY <3>3, <4>1
        <4> QED  BY <2>5, <3>3, <4>1, <4>2
      <3> QED  BY <3>1, <3>2, <3>3
    <2>7. SumOf(g, w, x)
      <3>1. g = [k \in 0..x |-> g[k]]
        OBVIOUS
      <3> HIDE DEF g
      <3>2. g = [k \in 0..x |-> IF k = 0 THEN 0 ELSE g[k-1] + w[k]]
        BY <2>6, <3>1
      <3> QED  BY <3>2 DEF SumOf
    <2> QED  BY <2>1, <2>7
  <1>3. n \in 0..n
    OBVIOUS
  <1> QED  BY <1>1, <1>2, <1>3

LEMMA SharesAreNumbers ==
  ASSUME NEW all \in Seq(Entries), NEW n \in 0..Len(all), NEW i
  PROVE  Shares(all, i, n) \in Int
  <1> DEFINE m == Len(all)
             w == [k \in 1..m |-> IF k \in Same(all, i)
                                    THEN Weight(IF k <= n THEN k ELSE k - n) ELSE 0]
  <1>1. m \in Nat /\ n \in Nat
    BY LenProperties
  <1>2. \A k \in 1..m : w[k] \in Int
    <2> SUFFICES ASSUME NEW k \in 1..m PROVE w[k] \in Int
      OBVIOUS
    <2>1. ASSUME NEW r \in Nat, r > 0 PROVE Weight(r) \in Int
      <3>1. 60 + r - 1 \in Int /\ 60 + r - 1 > 0
        BY <2>1
      <3>2. \A d \in Int : d > 0 => 1000000000 \div d \in Int
        OBVIOUS
      <3> QED  BY <3>1, <3>2 DEF Weight
    <2>2. k <= n => k \in Nat /\ k > 0
      BY <1>1
    <2>3. ~(k <= n) => k - n \in Nat /\ k - n > 0
      BY <1>1
    <2> QED  BY <2>1, <2>2, <2>3
  <1> DEFINE sum == CHOOSE f : f = [k \in 0..Len(all) |->
                        IF k = 0 THEN 0 ELSE f[k-1] + (IF k \in Same(all, i)
                                             THEN Weight(IF k <= n THEN k ELSE k - n) ELSE 0)]
  <1>3. Shares(all, i, n) = sum[m]
    BY DEF Shares
  <1>4. \A f : SumOf(f, w, m) <=> f = [k \in 0..Len(all) |->
                        IF k = 0 THEN 0 ELSE f[k-1] + (IF k \in Same(all, i)
                                             THEN Weight(IF k <= n THEN k ELSE k - n) ELSE 0)]
    <2> SUFFICES ASSUME NEW f
                 PROVE  [k \in 0..m |-> IF k = 0 THEN 0 ELSE f[k-1] + w[k]]
                        = [k \in 0..Len(all) |->
                        IF k = 0 THEN 0 ELSE f[k-1] + (IF k \in Same(all, i)
                                             THEN Weight(IF k <= n THEN k ELSE k - n) ELSE 0)]
      BY DEF SumOf
    <2>1. \A k \in 0..m : k # 0 => k \in 1..m
      BY <1>1
    <2>2. \A k \in 1..m : w[k] = IF k \in Same(all, i)
                                   THEN Weight(IF k <= n THEN k ELSE k - n) ELSE 0
      OBVIOUS
    <2> QED  BY <2>1, <2>2
  <1>5. /\ \E f : SumOf(f, w, m)
        /\ \A f : SumOf(f, w, m) => f[m] \in Int
    <2> HIDE DEF w, m
    <2> QED  BY <1>1, <1>2, SumsAre
  <1>6. SumOf(sum, w, m)
    <2> HIDE DEF w, m
    <2> QED  BY <1>4, <1>5
  <1> QED  BY <1>3, <1>5, <1>6

-----------------------------------------------------------------------------
(* What holds of every entry of a request's lists, whatever is done with    *)
(* them: entries are dropped, reordered and marked as passed, and one takes *)
(* over the scores of another with its unique key.                          *)
Closed(G) ==
    /\ G \subseteq Entries
    /\ \A e, d \in G : \A p \in BOOLEAN :
          UniqueKey(e) = UniqueKey(d) => [Inherit(e, d) EXCEPT !.pass = p] \in G

LEMMA Parameters == {MatchScore, RerankThreshold, RetrievalNum, RerankNum, TopK} \subseteq Nat
  BY RagSearchAssumption

LEMMA MarkedIs ==
  ASSUME NEW G, Closed(G), NEW e \in G, NEW p \in BOOLEAN
  PROVE  [e EXCEPT !.pass = p] \in G
  <1>1. e \in Entries
    BY DEF Closed
  <1>2. [Inherit(e, e) EXCEPT !.pass = p] = [e EXCEPT !.pass = p]
    BY <1>1 DEF Inherit, Entries
  <1>3. [Inherit(e, e) EXCEPT !.pass = p] \in G
    BY DEF Closed
  <1> QED  BY <1>2, <1>3

LEMMA RecalledIs ==
  ASSUME NEW G, Closed(G), NEW found \in Seq(G)
  PROVE  Recalled(found) \in Seq(G) /\ Len(Recalled(found)) <= Len(found)
  <1> DEFINE n == Len(found)
             f == [i \in DOMAIN found |-> [found[i] EXCEPT !.pass = found[i].sim >= RerankThreshold]]
             I == {i \in DOMAIN found : found[i].sim > 0}
  <1>1. n \in Nat /\ DOMAIN found = 1..n /\ \A i \in 1..n : found[i] \in G
    BY LenProperties, ElementOfSeq
  <1>2. \A i \in 1..n : f[i] \in G
    <2> SUFFICES ASSUME NEW i \in 1..n PROVE f[i] \in G
      OBVIOUS
    <2>1. (found[i].sim >= RerankThreshold) \in BOOLEAN
      OBVIOUS
    <2>2. f[i] = [found[i] EXCEPT !.pass = found[i].sim >= RerankThreshold]
      BY <1>1
    <2>3. found[i] \in G
      BY <1>1
    <2>4. [found[i] EXCEPT !.pass = TRUE] \in G /\ [found[i] EXCEPT !.pass = FALSE] \in G
      BY <2>3, MarkedIs
    <2> QED  BY <2>1, <2>2, <2>4
  <1>3. DOMAIN f = 1..n /\ f = [i \in 1..n |-> f[i]]
    BY <1>1
  <1>4. I \in SUBSET (1..n)
    BY <1>1
  <1>5. Recalled(found) = Only(f, I)
    BY DEF Recalled
  <1> HIDE DEF f, I
  <1>6. f \in Seq(G) /\ Len(f) = n
    <2>1. f \in [1..n -> G]
      BY <1>2, <1>3
    <2> HIDE DEF n
    <2> QED  BY <1>1, <2>1, FunctionIs
  <1>7. Only(f, I) \in Seq(G) /\ Len(Only(f, I)) = Cardinality(I) /\ Cardinality(I) <= n
    BY <1>4, <1>6, OnlyIs
  <1> QED  BY <1>5, <1>7

LEMMA GroupsBestIs ==
  ASSUME NEW G, G \subseteq Entries, NEW list \in Seq(G)
  PROVE  GroupsBest(list) \in Seq(G)
  <1> DEFINE Contents(i) == Corpus[list[i].node].words
             Rival(i, j) == \/ i = j
                            \/ /\ IsQa(list[i].node) /\ IsQa(list[j].node)
                               /\ Corpus[list[i].node].group = Corpus[list[j].node].group
             fresh == {i \in DOMAIN list : \A j \in 1..i-1 : Contents(j) # Contents(i)}
             Rivals(i) == {j \in fresh : Rival(i, j)}
             leaders == {i \in fresh : \A j \in Rivals(i) : i <= j}
             Best(i) == Order(Rivals(i), Scores(list))[1]
             turns == InTurn(leaders, Len(list))
             idx == [k \in DOMAIN turns |-> Best(turns[k])]
             n == Len(list)
  <1>1. n \in Nat /\ DOMAIN list = 1..n /\ \A i \in 1..n : list[i] \in G
    BY LenProperties, ElementOfSeq
  <1>2. GroupsBest(list) = At(list, idx)
    BY DEF GroupsBest
  <1>3. fresh \in SUBSET (1..n) /\ leaders \in SUBSET (1..n) /\ leaders \subseteq fresh
    BY <1>1
  <1>4. \A i \in fresh : i \in Rivals(i) /\ Rivals(i) \in SUBSET (1..n)
    BY <1>3
  <1>5. list \in Seq(Entries)
    BY SeqMonotonic
  <1>a. idx = [k \in DOMAIN turns |-> Best(turns[k])]
    OBVIOUS
  <1>b. \A i : Best(i) = Order(Rivals(i), Scores(list))[1]
    OBVIOUS
  <1>c. turns = InTurn(leaders, n)
    OBVIOUS
  <1> HIDE DEF fresh, Rivals, leaders, turns, idx, Best
  <1>6. \A i \in fresh : Best(i) \in 1..n
    <2> SUFFICES ASSUME NEW i \in fresh PROVE Best(i) \in 1..n
      OBVIOUS
    <2> DEFINE R == Rivals(i)
               key == Scores(list)
    <2>1. DOMAIN key = 1..n /\ \A j \in 1..n : key[j] \in Nat
      BY <1>5, ScoresAre
    <2>2. R \in SUBSET (1..n) /\ i \in R
      BY <1>4
    <2>3. \A j \in R : key[j] \in Int
      BY <2>1, <2>2
    <2>4. Best(i) = Order(R, key)[1]
      BY <1>b
    <2> HIDE DEF R, key, n
    <2>5. /\ Cardinality(R) \in Nat /\ Order(R, key) \in Seq(R)
          /\ Len(Order(R, key)) = Cardinality(R)
      BY <1>1, <2>1, <2>2, <2>3, OrderIs
    <2>6. \A j \in R : \E k \in 1..Cardinality(R) : Order(R, key)[k] = j
      BY <1>1, <2>1, <2>2, <2>3, OrderIs
    <2>7. 1 \in 1..Cardinality(R)
      BY <2>2, <2>5, <2>6
    <2>8. Order(R, key)[1] \in R
      BY <2>5, <2>7, ElementOfSeq
    <2> QED  BY <2>2, <2>4, <2>8
  <1> HIDE DEF n
  <1>7. turns \in Seq(leaders)
    BY <1>1, <1>3, <1>c, InTurnIs
  <1>8. idx \in Seq(1..n)
    <2>1. Len(turns) \in Nat /\ DOMAIN turns = 1..Len(turns)
      BY <1>7, LenProperties
    <2>2. \A k \in 1..Len(turns) : turns[k] \in fresh
      BY <1>3, <1>7, <2>1, ElementOfSeq
    <2>3. idx \in [1..Len(turns) -> 1..n]
      BY <1>6, <1>a, <2>1, <2>2
    <2> QED  BY <2>1, <2>3, FunctionIs
  <1> QED  BY <1>1, <1>2, <1>8, AtIs

LEMMA SimilarFusionIs ==
  ASSUME NEW G, G \subseteq Entries, NEW list \in Seq(G)
  PROVE  SimilarFusion(list) \in Seq(G) /\ Len(SimilarFusion(list)) <= RetrievalNum
  <1> DEFINE best == GroupsBest(list)
  <1>1. best \in Seq(G) /\ best \in Seq(Entries)
    <2>1. best \in Seq(G)
      BY GroupsBestIs
    <2> HIDE DEF best
    <2> QED  BY <2>1, SeqMonotonic
  <1>2. SimilarFusion(list) = First(Sorted(best, Scores(best)), RetrievalNum)
    BY DEF SimilarFusion
  <1> HIDE DEF best
  <1>3. DOMAIN Scores(best) = 1..Len(best) /\ \A i \in 1..Len(best) : Scores(best)[i] \in Int
    BY <1>1, ScoresAre
  <1>4. Sorted(best, Scores(best)) \in Seq(G)
    BY <1>1, <1>3, SortedIs
  <1> QED  BY <1>2, <1>4, FirstIs, Parameters

LEMMA FusedIs ==
  ASSUME NEW G, Closed(G), NEW all \in Seq(G), NEW i \in 1..Len(all)
  PROVE  Fused(all, i) \in G
  <1> DEFINE n == Len(all)
             S == Same(all, i)
             key == [j \in 1..n |-> j]
  <1>1. n \in Nat /\ DOMAIN all = 1..n /\ \A j \in 1..n : all[j] \in G
    BY LenProperties, ElementOfSeq
  <1>2. S \in SUBSET (1..n) /\ i \in S /\ \A j \in S : UniqueKey(all[j]) = UniqueKey(all[i])
    BY <1>1 DEF Same
  <1>3. {key[j] : j \in S} = S /\ DOMAIN key = 1..n /\ \A j \in S : key[j] \in Int /\ key[j] = j
    <2> HIDE DEF S
    <2>1. DOMAIN key = 1..n /\ \A j \in S : key[j] = j /\ key[j] \in Int
      BY <1>2
    <2>2. \A x : x \in {key[j] : j \in S} <=> x \in S
      BY <2>1
    <2> HIDE DEF key
    <2> QED  BY <2>1, <2>2
  <1> HIDE DEF S, key, n
  <1>4. \E j \in S : Greatest({key[l] : l \in S}) = key[j] /\ \A l \in S : key[j] >= key[l]
    BY <1>1, <1>2, <1>3, GreatestIs
  <1>5. Greatest(S) \in S
    BY <1>3, <1>4
  <1> DEFINE last == all[Greatest(S)]
  <1>6. all[i] \in G /\ last \in G /\ UniqueKey(all[i]) = UniqueKey(last)
    BY <1>1, <1>2, <1>5
  <1>7. Fused(all, i) = [Inherit(all[i], last) EXCEPT !.pass = \E j \in S : all[j].pass]
    BY DEF Fused, S
  <1> HIDE DEF last
  <1>8. /\ [Inherit(all[i], last) EXCEPT !.pass = TRUE] \in G
        /\ [Inherit(all[i], last) EXCEPT !.pass = FALSE] \in G
    BY <1>6 DEF Closed
  <1> QED  BY <1>7, <1>8

LEMMA RankedIs ==
  ASSUME NEW G, Closed(G), NEW v \in Seq(G), NEW es \in Seq(G)
  PROVE  Ranked(v, es) \in Seq(G)
  <1> DEFINE all == v \o es
             n == Len(all)
             firsts == {i \in DOMAIN all : \A j \in Same(all, i) : i <= j}
             shares == [i \in DOMAIN all |-> Shares(all, i, Len(v))]
             ranks == Order(firsts, Listed(shares))
             fused == [k \in DOMAIN ranks |-> Fused(all, ranks[k])]
  <1>1. Ranked(v, es) = Listed(fused)
    BY DEF Ranked
  <1>2. all \in Seq(G) /\ n = Len(v) + Len(es) /\ Len(v) \in Nat /\ Len(es) \in Nat
    BY ConcatProperties, LenProperties
  <1>a. firsts \subseteq DOMAIN all
    OBVIOUS
  <1>b. shares = [i \in DOMAIN all |-> Shares(all, i, Len(v))]
    OBVIOUS
  <1>c. fused = [k \in DOMAIN ranks |-> Fused(all, ranks[k])]
    OBVIOUS
  <1>d. ranks = Order(firsts, Listed(shares)) /\ n = Len(all)
    OBVIOUS
  <1> HIDE DEF all, firsts, shares, ranks, fused, n
  <1>3. n \in Nat /\ DOMAIN all = 1..n /\ Len(v) \in 0..n
    BY <1>2, <1>d, LenProperties
  <1>4. all \in Seq(Entries)
    BY <1>2, SeqMonotonic DEF Closed
  <1>5. \A i \in 1..n : shares[i] \in Int
    BY <1>3, <1>4, <1>b, <1>d, SharesAreNumbers
  <1>6. DOMAIN shares = 1..n
    BY <1>3, <1>b
  <1>7. /\ Listed(shares) \in Seq(Int) /\ Len(Listed(shares)) = n
        /\ \A i \in 1..n : Listed(shares)[i] = shares[i]
    BY ZenonT(60), <1>3, <1>5, <1>6, ListedIs
  <1>8. DOMAIN Listed(shares) = 1..n
    BY <1>7, LenProperties
  <1>9. firsts \in SUBSET (1..n) /\ \A i \in firsts : Listed(shares)[i] \in Int
    BY <1>3, <1>5, <1>7, <1>a
  <1>10. ranks \in Seq(firsts)
    BY <1>3, <1>8, <1>9, <1>d, OrderIs
  <1>11. Len(ranks) \in Nat /\ DOMAIN ranks = 1..Len(ranks)
         /\ \A k \in 1..Len(ranks) : ranks[k] \in 1..n
    BY <1>9, <1>10, LenProperties, ElementOfSeq
  <1>12. DOMAIN fused = 1..Len(ranks)
    BY <1>11, <1>c
  <1>13. ASSUME NEW k \in 1..Len(ranks) PROVE fused[k] \in G
    <2>1. fused[k] = Fused(all, ranks[k])
      BY <1>11, <1>c
    <2>2. ranks[k] \in 1..Len(all)
      BY <1>11, <1>d
    <2> QED  BY <1>2, <2>1, <2>2, FusedIs
  <1>14. Listed(fused) \in Seq(G)
    BY <1>11, <1>12, <1>13, ListedIs
  <1> QED  BY <1>1, <1>14

LEMMA RankFusionIs ==
  ASSUME NEW G, Closed(G), NEW v \in Seq(G), NEW es \in Seq(G)
  PROVE  RankFusion(v, es) \in Seq(G) /\ Len(RankFusion(v, es)) <= RetrievalNum
  <1>1. ASSUME NEW list \in Seq(G) PROVE Sorted(list, Scores(list)) \in Seq(G)
    <2>1. list \in Seq(Entries)
      BY SeqMonotonic DEF Closed
    <2>2. DOMAIN Scores(list) = 1..Len(list) /\ \A i \in 1..Len(list) : Scores(list)[i] \in Int
      BY <2>1, ScoresAre
    <2> QED  BY <2>2, SortedIs
  <1>2. Sorted(v, Scores(v)) \in Seq(G) /\ Sorted(es, Scores(es)) \in Seq(G)
    BY <1>1
  <1>3. Ranked(Sorted(v, Scores(v)), Sorted(es, Scores(es))) \in Seq(G)
    BY <1>2, RankedIs
  <1> QED  BY <1>3, FirstIs, Parameters DEF RankFusion

LEMMA CompletionsAre ==
  ASSUME NEW G, NEW list \in Seq(G), NEW c \in Completions(list)
  PROVE  c \in Seq(G) /\ Len(c) <= Len(list)
  <1> DEFINE n == Len(list)
             I(gone) == {i \in DOMAIN list : \A j \in gone : list[j].node # list[i].node}
  <1>1. n \in Nat /\ DOMAIN list = 1..n
    BY LenProperties
  <1>2. PICK gone : c = Only(list, I(gone))
    BY DEF Completions
  <1>3. I(gone) \in SUBSET (1..Len(list))
    BY <1>1
  <1> HIDE DEF I
  <1> QED  BY <1>2, <1>3, OnlyIs

LEMMA InFileOrderIs ==
  ASSUME NEW G, G \subseteq Entries, NEW list \in Seq(G),
         NEW score, DOMAIN score = 1..Len(list), \A i \in 1..Len(list) : score[i] \in Int,
         NEW top \in Seq(1..Len(list))
  PROVE  InFileOrder(list, score, top) \in Seq(G) /\ Len(InFileOrder(list, score, top)) = Len(top)
  <1> DEFINE File(i) == Corpus[list[i].node].file
             Mates(i) == {j \in DOMAIN list : /\ \E k \in DOMAIN top : top[k] = j
                                              /\ \/ j = i
                                                 \/ /\ ~IsQa(list[i].node) /\ ~IsQa(list[j].node)
                                                    /\ File(j) = File(i)}
             Pos(i) == IF list[i].filled THEN Corpus[list[i].node].pos ELSE -911
             places == [k \in DOMAIN top |-> -Pos(top[k])]
             inOrder == Sorted(top, Listed(places))
             highest == [k \in DOMAIN top |-> Greatest({score[j] : j \in Mates(inOrder[k])})]
             best == Listed(highest)
             n == Len(list)
             m == Len(top)
             T == {top[k] : k \in 1..m}
  <1>1. InFileOrder(list, score, top) = At(list, Sorted(inOrder, best))
    BY DEF InFileOrder
  <1>2. /\ n \in Nat /\ DOMAIN list = 1..n /\ \A i \in 1..n : list[i] \in G
        /\ m \in Nat /\ DOMAIN top = 1..m /\ \A k \in 1..m : top[k] \in 1..n
    BY LenProperties, ElementOfSeq
  <1>3. \A i \in 1..n : Pos(i) \in Int
    BY <1>2, RagSearchAssumption DEF Entries
  <1>4. DOMAIN places = 1..m /\ \A k \in 1..m : places[k] \in Int
    <2> HIDE DEF Pos
    <2> QED  BY <1>2, <1>3
  <1>5. T \subseteq 1..n /\ top \in Seq(T)
    <2>1. T \subseteq 1..n
      BY <1>2
    <2>2. top \in [1..m -> T]
      <3>1. \A k \in 1..m : top[k] \in T
        OBVIOUS
      <3>2. top = [k \in 1..m |-> top[k]]
        BY <1>2, LenProperties
      <3> HIDE DEF T
      <3> QED  BY <3>1, <3>2
    <2> HIDE DEF T, m
    <2>3. top \in Seq(T)
      BY <1>2, <2>2, FunctionIs
    <2> QED  BY <2>1, <2>3
  <1>6. \A i \in T : i \in Mates(i) /\ Mates(i) \in SUBSET (1..n)
    BY <1>2
  <1>a. \A k \in 1..m : highest[k] = Greatest({score[j] : j \in Mates(inOrder[k])})
    BY <1>2
  <1>b. DOMAIN highest = 1..m
    BY <1>2
  <1>c. inOrder = Sorted(top, Listed(places)) /\ best = Listed(highest) /\ Len(list) = n /\ Len(top) = m
    OBVIOUS
  <1> HIDE DEF File, Mates, Pos, places, inOrder, highest, best, n, m, T
  <1>7. DOMAIN Listed(places) = 1..m /\ \A k \in 1..m : Listed(places)[k] \in Int
    BY <1>2, <1>4, NumbersAre
  <1>10. inOrder \in Seq(T) /\ Len(inOrder) = m
    BY <1>5, <1>7, <1>c, SortedIs
  <1>11. \A k \in 1..m : highest[k] \in Int
    <2> SUFFICES ASSUME NEW k \in 1..m PROVE highest[k] \in Int
      OBVIOUS
    <2> DEFINE M == Mates(inOrder[k])
    <2>1. inOrder[k] \in T
      BY <1>10, ElementOfSeq
    <2>2. M \in SUBSET (1..n) /\ M # {}
      BY <1>6, <2>1
    <2>3. highest[k] = Greatest({score[j] : j \in M})
      BY <1>a
    <2>4. DOMAIN score = 1..n /\ \A i \in 1..n : score[i] \in Int
      BY <1>c
    <2> HIDE DEF M
    <2>5. \A i \in M : score[i] \in Int
      BY <2>2, <2>4
    <2>6. \E i \in M : /\ Greatest({score[j] : j \in M}) = score[i]
                       /\ \A j \in M : score[i] >= score[j]
      BY <1>2, <2>2, <2>4, <2>5, GreatestIs
    <2> QED  BY <2>3, <2>5, <2>6
  <1>13. DOMAIN best = 1..m /\ \A k \in 1..m : best[k] \in Int
    BY <1>2, <1>11, <1>b, <1>c, NumbersAre
  <1>14. inOrder \in Seq(1..n)
    BY <1>5, <1>10, SeqMonotonic
  <1>15. Sorted(inOrder, best) \in Seq(1..n) /\ Len(Sorted(inOrder, best)) = m
    BY <1>10, <1>13, <1>14, SortedIs
  <1>16. /\ At(list, Sorted(inOrder, best)) \in Seq(G)
         /\ Len(At(list, Sorted(inOrder, best))) = Len(Sorted(inOrder, best))
    <2> DEFINE idx == Sorted(inOrder, best)
    <2>1. idx \in Seq(1..n) /\ n \in Nat /\ \A i \in 1..n : list[i] \in G
      BY <1>2, <1>15
    <2> HIDE DEF idx
    <2>2. At(list, idx) \in Seq(G)
      BY <2>1, AtIs
    <2>3. Len(At(list, idx)) = Len(idx)
      BY <2>1, AtValues
    <2> QED  BY <2>2, <2>3 DEF idx
  <1> QED  BY <1>1, <1>15, <1>16, <1>c

LEMMA ByBestOfFileIs ==
  ASSUME NEW G, G \subseteq Entries, NEW list \in Seq(G),
         NEW score, DOMAIN score = 1..Len(list), \A i \in 1..Len(list) : score[i] \in Int
  PROVE  ByBestOfFile(list, score) \in Seq(G) /\ Len(ByBestOfFile(list, score)) <= Len(list)
  <1> DEFINE n == Len(list)
             order == Order(1..n, score)
             top == First(order, TopK)
  <1>1. n \in Nat /\ DOMAIN list = 1..n
    BY LenProperties
  <1>2. Cardinality(1..n) = n
    <2> HIDE DEF n
    <2> QED  BY <1>1, FS_Interval
  <1>3. order \in Seq(1..n) /\ Len(order) = n
    BY <1>1, <1>2, OrderIs
  <1>4. ByBestOfFile(list, score) = InFileOrder(list, score, top)
    BY <1>1 DEF ByBestOfFile
  <1> HIDE DEF order
  <1>5. top \in Seq(1..n) /\ Len(top) <= n
    BY <1>3, FirstIs, Parameters
  <1> HIDE DEF top
  <1> QED  BY <1>4, <1>5, InFileOrderIs

LEMMA RerankedAre ==
  ASSUME NEW G, G \subseteq Entries, NEW list \in Seq(G), NEW r \in Reranked(list)
  PROVE  r \in Seq(G) /\ Len(r) <= Len(list)
  <1>0. Len(list) \in Nat
    BY LenProperties
  <1>1. CASE list = <<>> \/ \E i \in DOMAIN list : list[i].pass
    <2> DEFINE sorted == Sorted(list, Scores(list))
               score == Countdown(Len(list))
    <2>1. r = ByBestOfFile(sorted, score)
      BY <1>1 DEF Reranked
    <2>2. list \in Seq(Entries)
      BY SeqMonotonic
    <2>3. DOMAIN Scores(list) = 1..Len(list) /\ \A i \in 1..Len(list) : Scores(list)[i] \in Int
      BY <2>2, ScoresAre
    <2>4. sorted \in Seq(G) /\ Len(sorted) = Len(list)
      BY <2>3, SortedIs
    <2>5. DOMAIN score = 1..Len(list) /\ \A i \in 1..Len(list) : score[i] \in Int
      BY <1>0 DEF Countdown
    <2> HIDE DEF sorted, score
    <2>6. DOMAIN score = 1..Len(sorted) /\ \A i \in 1..Len(sorted) : score[i] \in Int
      BY <2>4, <2>5
    <2>7. r \in Seq(G) /\ Len(r) <= Len(sorted)
      BY <2>1, <2>4, <2>6, ByBestOfFileIs
    <2> QED  BY <2>4, <2>7
  <1>2. CASE ~(list = <<>> \/ \E i \in DOMAIN list : list[i].pass)
    <2> DEFINE k == IF RerankNum > TopK THEN RerankNum ELSE TopK
               cut == First(list, k)
    <2>1. r = cut \/ \E p \in Distinct(Len(cut)) : r = ByBestOfFile(cut, p)
      BY <1>2 DEF Reranked
    <2>2. k \in Nat
      BY Parameters
    <2> HIDE DEF k
    <2>3. cut \in Seq(G) /\ Len(cut) <= Len(list)
      BY <2>2, FirstIs
    <2> HIDE DEF cut
    <2>4. ASSUME NEW p \in Distinct(Len(cut)), r = ByBestOfFile(cut, p)
          PROVE  r \in Seq(G) /\ Len(r) <= Len(list)
      <3>1. Len(cut) \in Nat
        BY <2>3, LenProperties
      <3>2. DOMAIN p = 1..Len(cut) /\ \A i \in 1..Len(cut) : p[i] \in Int
        BY <3>1 DEF Distinct
      <3>3. r \in Seq(G) /\ Len(r) <= Len(cut)
        BY <2>3, <2>4, <3>2, ByBestOfFileIs
      <3>4. Len(r) \in Nat
        BY <3>3, LenProperties
      <3> QED  BY <1>0, <2>3, <3>1, <3>3, <3>4
    <2> QED  BY <2>1, <2>3, <2>4
  <1> QED  BY <1>1, <1>2

LEMMA PostprocessedAre ==
  ASSUME NEW G, G \subseteq Entries, NEW list \in Seq(G), NEW done \in Postprocessed(list)
  PROVE  done \in Seq(G) /\ Len(done) <= Len(list)
  <1>0. \A s \in Seq(G) : Len(s) \in Nat
    BY LenProperties
  <1>1. CASE req.mode = "fast"
    <2>1. PICK r \in Reranked(list) : done \in Completions(r)
      BY <1>1 DEF Postprocessed
    <2>2. r \in Seq(G) /\ Len(r) <= Len(list)
      BY RerankedAre
    <2>3. done \in Seq(G) /\ Len(done) <= Len(r)
      BY <2>1, <2>2, CompletionsAre
    <2> QED  BY <1>0, <2>2, <2>3
  <1>2. CASE req.mode # "fast"
    <2>1. PICK c \in Completions(list) : done \in Reranked(c)
      BY <1>2 DEF Postprocessed
    <2>2. c \in Seq(G) /\ Len(c) <= Len(list)
      BY CompletionsAre
    <2>3. done \in Seq(G) /\ Len(done) <= Len(c)
      BY <2>1, <2>2, RerankedAre
    <2> QED  BY <1>0, <2>2, <2>3
  <1> QED  BY <1>1, <1>2

-----------------------------------------------------------------------------
(* Where entries come from, and that every step keeps what holds of them.   *)
ListsOf(G) == chunks \in Seq(G) /\ qas \in Seq(G) /\ nodes \in Seq(G)
Fresh(G) ==
    /\ pc \in {"chunk rows", "qa rows"} => Scored(hits) \in Seq(G)
    /\ pc = "fuse" => \A i \in DOMAIN hits : EsEntry(hits[i]) \in G

LEMMA NodesAre == /\ Nodes = 1..Len(Corpus) /\ Len(Corpus) \in Nat
                  /\ \A n \in Nodes : Corpus[n].kind \in Kinds /\ Corpus[n].pos \in Nat
                  /\ sim \in Sims => \A n \in Nodes : Own(n) \in Nat
  BY RagSearchAssumption DEF Own

LEMMA ScoredIs ==
  ASSUME NEW found \in Seq(Nodes)
  PROVE  \E c \in Nat :
            /\ c <= Len(found) /\ DOMAIN Scored(found) = 1..c
            /\ Scored(found) = [k \in 1..c |-> Scored(found)[k]]
            /\ \A k \in 1..c : \E i \in 1..Len(found) :
                  /\ k <= i /\ HasRow(found[i])
                  /\ Scored(found)[k] = Entry(found[i], Own(found[k]))
            /\ (\A i \in 1..Len(found) : HasRow(found[i])) =>
                  \A k \in 1..c : Scored(found)[k] = Entry(found[k], Own(found[k]))
  <1> DEFINE n == Len(found)
             I == {i \in DOMAIN found : HasRow(found[i])}
             kept == Only(found, I)
             c == Cardinality(I)
             scored == [k \in DOMAIN kept |-> Entry(kept[k], Own(found[k]))]
  <1>1. n \in Nat /\ DOMAIN found = 1..n
    BY LenProperties
  <1>2. I \in SUBSET (1..n) /\ (\A i \in I : HasRow(found[i]))
        /\ ((\A i \in 1..n : HasRow(found[i])) => I = 1..n)
    BY <1>1
  <1>3. scored = Scored(found)
    BY DEF Scored
  <1>a. kept = Only(found, I) /\ c = Cardinality(I) /\ n = Len(found)
    OBVIOUS
  <1>b. scored = [k \in DOMAIN kept |-> Entry(kept[k], Own(found[k]))]
    OBVIOUS
  <1> HIDE DEF I, kept, c, n, scored
  <1>4. c \in Nat /\ c <= n /\ kept \in Seq(Nodes) /\ Len(kept) = c
    BY <1>2, <1>a, OnlyIs
  <1>5. \A k \in 1..c : \E i \in I : i \in 1..n /\ k <= i /\ kept[k] = found[i]
    BY <1>2, <1>a, OnlyIs
  <1>6. I = 1..n => kept = found
    BY <1>2, <1>a, OnlyIs
  <1>7. DOMAIN kept = 1..c
    BY <1>4, LenProperties
  <1>8. DOMAIN scored = 1..c /\ \A k \in 1..c : scored[k] = Entry(kept[k], Own(found[k]))
    BY <1>7, <1>b
  <1>9. scored = [k \in 1..c |-> scored[k]]
    BY <1>7, <1>8, <1>b
  <1>10. \A k \in 1..c : \E i \in 1..n : /\ k <= i /\ HasRow(found[i])
                                         /\ scored[k] = Entry(found[i], Own(found[k]))
    BY <1>2, <1>5, <1>8
  <1>11. (\A i \in 1..n : HasRow(found[i]))
            => \A k \in 1..c : scored[k] = Entry(found[k], Own(found[k]))
    BY <1>2, <1>6, <1>8
  <1> QED  BY <1>3, <1>4, <1>8, <1>9, <1>10, <1>11, <1>a

(* What the vector store may answer: matching points, the most similar first.*)
LEMMA SearchIs ==
  ASSUME sim \in Sims, NEW index
  PROVE  /\ Search(index) \in Seq(Nodes)
         /\ \A i \in 1..Len(Search(index)) :
               /\ Search(index)[i] \in Points(index)
               /\ VectorMatch(req.backend, Corpus[Search(index)[i]], User, OwnFilters, index)
         /\ \A k, l \in 1..Len(Search(index)) :
               k < l => Own(Search(index)[k]) >= Own(Search(index)[l])
  <1> DEFINE match == {n \in Points(index) :
                          VectorMatch(req.backend, Corpus[n], User, OwnFilters, index)}
             own == [n \in Nodes |-> Own(n)]
             key == Listed(own)
             order == Order(match, key)
             m == Len(Corpus)
  <1>1. Search(index) = First(order, RetrievalNum)
    BY DEF Search
  <1>2. m \in Nat /\ Nodes = 1..m
    BY NodesAre
  <1>3. match \in SUBSET (1..m) /\ match \in SUBSET Nodes
    BY <1>2 DEF Points
  <1>4. DOMAIN own = 1..m /\ \A n \in 1..m : own[n] = Own(n) /\ own[n] \in Int
    <2>1. DOMAIN own = 1..m /\ \A n \in 1..m : own[n] = Own(n)
      BY <1>2
    <2> QED  BY <1>2, <2>1, NodesAre
  <1>a. \A n \in match : /\ n \in Points(index)
                         /\ VectorMatch(req.backend, Corpus[n], User, OwnFilters, index)
    OBVIOUS
  <1>b. order = Order(match, key) /\ key = Listed(own)
    OBVIOUS
  <1> HIDE DEF match, own, key, order, m
  <1>5. DOMAIN key = 1..m /\ \A n \in 1..m : key[n] = Own(n) /\ key[n] \in Int
    <2>1. DOMAIN key = 1..m /\ \A n \in 1..m : key[n] = own[n] /\ key[n] \in Int
      BY <1>2, <1>4, <1>b, NumbersAre
    <2> QED  BY <1>4, <2>1
  <1>6. /\ order \in Seq(match) /\ Len(order) = Cardinality(match) /\ Cardinality(match) \in Nat
        /\ \A k, l \in 1..Cardinality(match) : k < l => key[order[k]] >= key[order[l]]
    <2>1. \A i \in match : key[i] \in Int
      BY <1>3, <1>5
    <2>2. order \in Seq(match) /\ Len(order) = Cardinality(match) /\ Cardinality(match) \in Nat
      BY <1>2, <1>3, <1>5, <1>b, <2>1, OrderIs
    <2>3. \A k, l \in 1..Cardinality(match) : k < l => key[order[k]] >= key[order[l]]
      BY <1>2, <1>3, <1>5, <1>b, <2>1, OrderIs
    <2> QED  BY <2>2, <2>3
  <1> DEFINE first == First(order, RetrievalNum)
  <1>7. /\ first \in Seq(match) /\ Len(first) <= Len(order)
        /\ \A i \in 1..Len(first) : first[i] = order[i]
    BY <1>6, FirstIs, Parameters
  <1>8. Len(first) \in Nat /\ \A i \in 1..Len(first) : first[i] \in match /\ i \in 1..Len(order)
    BY <1>6, <1>7, LenProperties, ElementOfSeq
  <1> HIDE DEF first
  <1>9. \A k, l \in 1..Len(first) : k < l => Own(first[k]) >= Own(first[l])
    <2> SUFFICES ASSUME NEW k \in 1..Len(first), NEW l \in 1..Len(first), k < l
                 PROVE  Own(first[k]) >= Own(first[l])
      OBVIOUS
    <2>1. k \in 1..Cardinality(match) /\ l \in 1..Cardinality(match)
      BY <1>6, <1>8
    <2>2. key[order[k]] >= key[order[l]] /\ first[k] = order[k] /\ first[l] = order[l]
      BY <1>6, <1>7, <2>1
    <2>3. first[k] \in 1..m /\ first[l] \in 1..m
      BY <1>3, <1>8
    <2> QED  BY <1>5, <2>2, <2>3
  <1>10. first \in Seq(Nodes)
    BY <1>3, <1>7, SeqMonotonic
  <1>11. Search(index) = first
    BY <1>1 DEF first
  <1> QED  BY <1>8, <1>9, <1>10, <1>11, <1>a

LEMMA EsFoundIs ==
  ASSUME NEW found \in SUBSET Nodes
  PROVE  /\ First(InTurn(found, Len(Corpus)), RetrievalNum) \in Seq(Nodes)
         /\ \A i \in 1..Len(First(InTurn(found, Len(Corpus)), RetrievalNum)) :
               First(InTurn(found, Len(Corpus)), RetrievalNum)[i] \in found
  <1> DEFINE order == InTurn(found, Len(Corpus))
             first == First(order, RetrievalNum)
  <1>1. order \in Seq(found)
    BY NodesAre, InTurnIs
  <1> HIDE DEF order
  <1>2. first \in Seq(found)
    BY <1>1, FirstIs, Parameters
  <1> HIDE DEF first
  <1>3. first \in Seq(Nodes) /\ \A i \in 1..Len(first) : first[i] \in found
    BY <1>2, SeqMonotonic, ElementOfSeq
  <1> QED  BY <1>3 DEF first, order

LEMMA ListsStep ==
  ASSUME NEW G, Closed(G), ListsOf(G), Fresh(G), hits \in Seq(Nodes), [Next]_vars
  PROVE  /\ ListsOf(G)'
         /\ Len(nodes) <= RetrievalNum => Len(nodes') <= RetrievalNum
  <1>0. G \subseteq Entries /\ <<>> \in Seq(G)
    BY EmptySeq DEF Closed
  <1>1. CASE UNCHANGED <<chunks, qas, nodes>>
    BY <1>1 DEF ListsOf
  <1>2. CASE ReadChunkRows
    <2>1. Scored(hits) \in Seq(G)
      BY <1>2 DEF ReadChunkRows, Fresh
    <2>2. Recalled(Scored(hits)) \in Seq(G)
      BY <2>1, RecalledIs
    <2> QED  BY <1>2, <2>2 DEF ReadChunkRows, ListsOf
  <1>3. CASE ReadQaRows
    <2>1. Scored(hits) \in Seq(G)
      BY <1>3 DEF ReadQaRows, Fresh
    <2>2. Recalled(Scored(hits)) \in Seq(G)
      BY <2>1, RecalledIs
    <2> QED  BY <1>3, <2>2 DEF ReadQaRows, ListsOf
  <1>4. CASE FuseSimilar
    <2>1. chunks \o qas \in Seq(G)
      BY ConcatProperties DEF ListsOf
    <2>2. /\ SimilarFusion(chunks \o qas) \in Seq(G)
          /\ Len(SimilarFusion(chunks \o qas)) <= RetrievalNum
      BY <1>0, <2>1, SimilarFusionIs
    <2> QED  BY <1>0, <1>4, <2>2 DEF FuseSimilar, ListsOf
  <1>5. CASE Fuse
    <2> DEFINE f == [i \in DOMAIN hits |-> EsEntry(hits[i])]
    <2>1. Len(hits) \in Nat /\ DOMAIN hits = 1..Len(hits)
      BY LenProperties
    <2>2. DOMAIN f = 1..Len(hits) /\ \A i \in 1..Len(hits) : f[i] \in G
      BY <1>5, <2>1 DEF Fuse, Fresh
    <2>3. nodes' = RankFusion(nodes, Listed(f)) /\ UNCHANGED <<chunks, qas>>
      BY <1>5 DEF Fuse
    <2> HIDE DEF f
    <2>4. Listed(f) \in Seq(G)
      BY <2>1, <2>2, ListedIs
    <2>5. nodes \in Seq(G)
      BY DEF ListsOf
    <2>6. /\ RankFusion(nodes, Listed(f)) \in Seq(G)
          /\ Len(RankFusion(nodes, Listed(f))) <= RetrievalNum
      BY <2>4, <2>5, RankFusionIs
    <2> QED  BY <2>3, <2>6 DEF ListsOf
  <1>6. CASE Postprocess
    <2>1. PICK done \in Postprocessed(nodes) : nodes' = First(done, TopK)
      BY <1>6 DEF Postprocess
    <2>2. UNCHANGED <<chunks, qas>>
      BY <1>6 DEF Postprocess
    <2>3. nodes \in Seq(G)
      BY DEF ListsOf
    <2>4. done \in Seq(G) /\ Len(done) <= Len(nodes)
      BY <1>0, <2>3, PostprocessedAre
    <2>5. nodes' \in Seq(G) /\ Len(nodes') <= Len(done)
      BY <2>1, <2>4, FirstIs, Parameters
    <2>6. Len(nodes) \in Nat /\ Len(done) \in Nat /\ Len(nodes') \in Nat /\ RetrievalNum \in Nat
      BY <2>3, <2>4, <2>5, LenProperties, Parameters
    <2>7. Len(nodes) <= RetrievalNum => Len(nodes') <= RetrievalNum
      BY <2>4, <2>5, <2>6
    <2> QED  BY <2>2, <2>5, <2>7 DEF ListsOf
  <1>7. CASE AnswerDirectly
    <2> DEFINE first == CHOOSE i \in Matching : \A j \in Matching : i <= j
    <2>1. nodes' = <<nodes[first]>> /\ UNCHANGED <<chunks, qas>> /\ Matching # {}
      BY <1>7 DEF AnswerDirectly
    <2>2. nodes \in Seq(G)
      BY DEF ListsOf
    <2>3. DOMAIN nodes = 1..Len(nodes) /\ Len(nodes) \in Nat
      BY <2>2, LenProperties
    <2>4. Matching \subseteq Nat /\ Matching \subseteq 1..Len(nodes)
      BY <2>3 DEF Matching
    <2>5. first \in Matching
      BY <2>1, <2>4, LeastIs
    <2>6. nodes[first] \in G
      BY <2>2, <2>4, <2>5, ElementOfSeq
    <2> HIDE DEF first
    <2>7. nodes' \in Seq(G) /\ Len(nodes') = 1
      BY <2>1, <2>6
    <2>8. RetrievalNum >= 1
      BY RagSearchAssumption
    <2> QED  BY <2>1, <2>7, <2>8 DEF ListsOf
  <1>8. CASE Read \/ FilterDeleted \/ Build \/ QueryChunks \/ QueryQas \/ QueryEs
             \/ AnswerAtOnce \/ Ask \/ StreamItem \/ StreamEnd \/ Erase \/ Purge
    BY <1>1, <1>8 DEF Read, FilterDeleted, Build, QueryChunks, QueryQas, Query, QueryEs,
       AnswerAtOnce, Ask, StreamItem, StreamEnd, Erase, Purge
  <1>9. CASE UNCHANGED vars
    BY <1>1, <1>9 DEF vars
  <1> QED  BY <1>2, <1>3, <1>4, <1>5, <1>6, <1>7, <1>8, <1>9 DEF Next, RequestStep

-----------------------------------------------------------------------------
(* Every list holds entries of the corpus, in every state.                  *)
TypeInv ==
    /\ TypeOK
    /\ hits \in Seq(Nodes) /\ ListsOf(Entries)
    /\ pc = "read" => hits = <<>> /\ chunks = <<>> /\ qas = <<>> /\ nodes = <<>>
    /\ purged => erased > 0

LEMMA EntriesClosed == Closed(Entries)
  BY DEF Closed, Inherit, Entries

LEMMA EntriesFresh ==
  ASSUME sim \in Sims, hits \in Seq(Nodes)
  PROVE  Fresh(Entries)
  <1>0. Len(hits) \in Nat /\ DOMAIN hits = 1..Len(hits) /\ \A i \in 1..Len(hits) : hits[i] \in Nodes
    BY LenProperties, ElementOfSeq
  <1>1. ASSUME NEW n \in Nodes, NEW s \in Nat PROVE Entry(n, s) \in Entries
    BY DEF Entry, Entries
  <1>2. ASSUME NEW n \in Nodes PROVE EsEntry(n) \in Entries
    <2>1. HasRow(n) \in BOOLEAN
      BY DEF HasRow
    <2> QED  BY <2>1 DEF EsEntry, Entries
  <1>3. Scored(hits) \in Seq(Entries)
    <2>1. PICK c \in Nat :
            /\ c <= Len(hits) /\ Scored(hits) = [k \in 1..c |-> Scored(hits)[k]]
            /\ \A k \in 1..c : \E i \in 1..Len(hits) :
                  /\ k <= i /\ Scored(hits)[k] = Entry(hits[i], Own(hits[k]))
      BY ScoredIs
    <2>2. \A k \in 1..c : Own(hits[k]) \in Nat
      BY <1>0, <2>1, NodesAre
    <2>3. \A k \in 1..c : Scored(hits)[k] \in Entries
      BY <1>0, <1>1, <2>1, <2>2
    <2>4. Scored(hits) \in [1..c -> Entries]
      BY <2>1, <2>3
    <2> QED  BY <2>4, FunctionIs
  <1> QED  BY <1>0, <1>2, <1>3 DEF Fresh

LEMMA HitsStep ==
  ASSUME sim \in Sims, hits \in Seq(Nodes), [Next]_vars
  PROVE  hits' \in Seq(Nodes)
  <1>0. <<>> \in Seq(Nodes)
    BY EmptySeq
  <1>1. CASE QueryChunks \/ QueryQas
    BY <1>1, SearchIs DEF QueryChunks, QueryQas, Query
  <1>2. CASE QueryEs
    <2>1. PICK found \in SUBSET {n \in Nodes : ~Gone(n, "es") /\ EsMatch(Corpus[n], OwnFilters)} :
            hits' = First(InTurn(found, Len(Corpus)), RetrievalNum)
      BY <1>2 DEF QueryEs
    <2>2. found \in SUBSET Nodes
      OBVIOUS
    <2> QED  BY <2>1, <2>2, EsFoundIs
  <1>3. CASE ReadChunkRows \/ ReadQaRows \/ Fuse
    BY <1>0, <1>3 DEF ReadChunkRows, ReadQaRows, Fuse
  <1>4. CASE Read \/ FilterDeleted \/ Build \/ FuseSimilar \/ Postprocess \/ AnswerDirectly
             \/ AnswerAtOnce \/ Ask \/ StreamItem \/ StreamEnd \/ Erase \/ Purge
    BY <1>4 DEF Read, FilterDeleted, Build, FuseSimilar, Postprocess, AnswerDirectly,
       AnswerAtOnce, Ask, StreamItem, StreamEnd, Erase, Purge
  <1>5. CASE UNCHANGED vars
    BY <1>5 DEF vars
  <1> QED  BY <1>1, <1>2, <1>3, <1>4, <1>5 DEF Next, RequestStep

(* What does not hold lists.                                                *)
RestOK ==
    /\ req \in Requests /\ sim \in Sims /\ files \subseteq Files
    /\ pc \in {"read", "filter", "build", "chunk", "chunk rows", "qa", "qa rows", "similar", "es",
               "fuse", "post", "answer", "stream", "end"}
    /\ reply \in {"none", "200", "direct", "api error", "cut", "422", "500"}
    /\ said \in 0..MaxItems+1
    /\ erased \in 0..6 /\ admitted \in 0..erased /\ purged \in BOOLEAN
    /\ purged => erased > 0

LEMMA Lengths == Len(EraseSteps) = 6
  BY DEF EraseSteps

LEMMA RestStep == RestOK /\ [Next]_vars => RestOK'
  <1> SUFFICES ASSUME RestOK, [Next]_vars PROVE RestOK'
    OBVIOUS
  <1> USE DEF Keep, deletion
  <1>0. MaxItems \in Nat
    BY RagSearchAssumption
  <1>a. erased \in 0..6 /\ admitted \in 0..erased /\ purged \in BOOLEAN /\ (purged => erased > 0)
        /\ said \in 0..MaxItems+1
    BY DEF RestOK
  <1>1. req' = req /\ sim' = sim
    BY DEF Next, RequestStep, Read, FilterDeleted, Build, QueryChunks, ReadChunkRows, QueryQas,
       Query, ReadQaRows, FuseSimilar, QueryEs, Fuse, Postprocess, AnswerDirectly, AnswerAtOnce,
       Ask, StreamItem, StreamEnd, Erase, Purge, vars
  <1>2. \/ UNCHANGED <<erased, purged, admitted>>
        \/ Read /\ UNCHANGED <<erased, purged>> /\ admitted' = erased
        \/ Erase /\ UNCHANGED <<purged, admitted>> /\ erased < 6 /\ erased' = erased + 1
        \/ Purge /\ UNCHANGED <<erased, admitted>> /\ purged' = TRUE
    BY Lengths
    DEF Next, RequestStep, Read, FilterDeleted, Build, QueryChunks, ReadChunkRows, QueryQas,
       Query, ReadQaRows, FuseSimilar, QueryEs, Fuse, Postprocess, AnswerDirectly, AnswerAtOnce,
       Ask, StreamItem, StreamEnd, Erase, Purge, vars
  <1>3. Purge => erased > 0
    BY <1>a DEF Purge, Did
  <1>4. erased' \in 0..6 /\ purged' \in BOOLEAN /\ (purged' => erased' > 0)
    <2>1. CASE UNCHANGED <<erased, purged>>
      BY <1>a, <2>1
    <2>2. CASE purged' = purged /\ erased < 6 /\ erased' = erased + 1
      <3>1. erased' \in 0..6 /\ erased' > 0
        BY <1>a, <2>2
      <3> QED  BY <1>a, <2>2, <3>1
    <2>3. CASE Purge /\ erased' = erased /\ purged' = TRUE
      BY <1>3, <1>a, <2>3
    <2> QED  BY <1>2, <2>1, <2>2, <2>3
  <1>5. admitted' \in 0..erased'
    <2>1. erased \in Int /\ erased >= 0 /\ admitted \in Int /\ 0 <= admitted /\ admitted <= erased
      BY <1>a
    <2>2. admitted' \in Int /\ erased' \in Int /\ 0 <= admitted' /\ admitted' <= erased'
      BY <1>2, <2>1
    <2> QED  BY <2>2
  <1>6. files' \subseteq Files
    BY DEF RestOK, Listing,
       Next, RequestStep, Read, FilterDeleted, Build, QueryChunks, ReadChunkRows, QueryQas,
       Query, ReadQaRows, FuseSimilar, QueryEs, Fuse, Postprocess, AnswerDirectly, AnswerAtOnce,
       Ask, StreamItem, StreamEnd, Erase, Purge, vars
  <1>7. (pc \in {"read", "filter", "build", "chunk", "chunk rows", "qa", "qa rows", "similar",
                 "es", "fuse", "post", "answer", "stream", "end"})'
    BY DEF RestOK, Goto, Fail, Finish,
       Next, RequestStep, Read, FilterDeleted, Build, QueryChunks, ReadChunkRows, QueryQas,
       Query, ReadQaRows, FuseSimilar, QueryEs, Fuse, Postprocess, AnswerDirectly, AnswerAtOnce,
       Ask, StreamItem, StreamEnd, Erase, Purge, vars
  <1>8. (reply \in {"none", "200", "direct", "api error", "cut", "422", "500"})'
    BY DEF RestOK, Goto, Fail, Finish,
       Next, RequestStep, Read, FilterDeleted, Build, QueryChunks, ReadChunkRows, QueryQas,
       Query, ReadQaRows, FuseSimilar, QueryEs, Fuse, Postprocess, AnswerDirectly, AnswerAtOnce,
       Ask, StreamItem, StreamEnd, Erase, Purge, vars
  <1>9. said' \in 0..MaxItems+1
    <2>1. \/ said' = said
          \/ said' = 1
          \/ said < MaxItems /\ said' = said + 1
      BY DEF RestOK, Goto, Fail, Finish,
         Next, RequestStep, Read, FilterDeleted, Build, QueryChunks, ReadChunkRows, QueryQas,
         Query, ReadQaRows, FuseSimilar, QueryEs, Fuse, Postprocess, AnswerDirectly, AnswerAtOnce,
         Ask, StreamItem, StreamEnd, Erase, Purge, vars
    <2>2. said \in Int /\ 0 <= said /\ said <= MaxItems + 1
      BY <1>0, <1>a
    <2>3. said' \in Int /\ 0 <= said' /\ said' <= MaxItems + 1
      BY <1>0, <2>1, <2>2
    <2> QED  BY <1>0, <2>3
  <1> QED  BY <1>1, <1>4, <1>5, <1>6, <1>7, <1>8, <1>9 DEF RestOK

LEMMA PassedAre ==
  ASSUME NEW G, ListsOf(G)
  PROVE  Passed \subseteq G
  <1>1. /\ DOMAIN chunks = 1..Len(chunks) /\ DOMAIN qas = 1..Len(qas)
        /\ DOMAIN nodes = 1..Len(nodes)
    BY LenProperties DEF ListsOf
  <1>2. /\ \A i \in 1..Len(chunks) : chunks[i] \in G
        /\ \A i \in 1..Len(qas) : qas[i] \in G
        /\ \A i \in 1..Len(nodes) : nodes[i] \in G
    BY ElementOfSeq DEF ListsOf
  <1> QED  BY <1>1, <1>2 DEF Passed

LEMMA TypeInvIs ==
  TypeInv <=> /\ RestOK /\ Len(nodes) <= RetrievalNum
              /\ hits \in Seq(Nodes) /\ ListsOf(Entries)
              /\ pc = "read" => hits = <<>> /\ chunks = <<>> /\ qas = <<>> /\ nodes = <<>>
  <1>1. hits \in Seq(Nodes) => \A i \in DOMAIN hits : hits[i] \in Nodes
    BY LenProperties, ElementOfSeq
  <1>2. ListsOf(Entries) => Passed \subseteq Entries
    BY PassedAre
  <1> QED  BY <1>1, <1>2, Lengths DEF TypeInv, TypeOK, RestOK

LEMMA TypeInit == Init => TypeInv
  <1> SUFFICES ASSUME Init PROVE TypeInv
    OBVIOUS
  <1>1. <<>> \in Seq(Nodes) /\ <<>> \in Seq(Entries) /\ Len(<<>>) = 0
    BY EmptySeq
  <1>2. MaxItems \in Nat /\ RetrievalNum \in Nat
    BY RagSearchAssumption
  <1>3. RestOK
    <2>1. 0 \in 0..MaxItems+1 /\ 0 \in 0..6 /\ 0 \in 0..0
      BY <1>2
    <2> QED  BY <2>1 DEF Init, RestOK
  <1> QED  BY <1>1, <1>2, <1>3, TypeInvIs DEF Init, ListsOf

LEMMA TypeStep == TypeInv /\ [Next]_vars => TypeInv'
  <1> SUFFICES ASSUME TypeInv, [Next]_vars PROVE TypeInv'
    OBVIOUS
  <1>1. RestOK /\ Len(nodes) <= RetrievalNum /\ hits \in Seq(Nodes) /\ ListsOf(Entries) /\ sim \in Sims
    BY TypeInvIs DEF RestOK
  <1>2. RestOK' /\ hits' \in Seq(Nodes)
    BY <1>1, RestStep, HitsStep
  <1>3. ListsOf(Entries)' /\ Len(nodes') <= RetrievalNum
    BY <1>1, EntriesClosed, EntriesFresh, ListsStep
  <1>4. (pc = "read" => hits = <<>> /\ chunks = <<>> /\ qas = <<>> /\ nodes = <<>>)'
    <2>1. CASE pc' # "read"
      BY <2>1
    <2>2. CASE UNCHANGED <<pc, hits, chunks, qas, nodes>>
      BY <2>2 DEF TypeInv
    <2>3. RequestStep => pc' # "read"
      BY DEF RequestStep, Read, FilterDeleted, Build, QueryChunks, ReadChunkRows, QueryQas, Query,
         ReadQaRows, FuseSimilar, QueryEs, Fuse, Postprocess, AnswerDirectly, AnswerAtOnce, Ask,
         StreamItem, StreamEnd, Goto, Finish, Fail
    <2>4. Erase \/ Purge \/ UNCHANGED vars => UNCHANGED <<pc, hits, chunks, qas, nodes>>
      BY DEF Erase, Purge, vars
    <2> QED  BY <2>1, <2>2, <2>3, <2>4 DEF Next
  <1> DEFINE Rest == /\ RestOK /\ Len(nodes) <= RetrievalNum
                     /\ hits \in Seq(Nodes) /\ ListsOf(Entries)
                     /\ pc = "read" => hits = <<>> /\ chunks = <<>> /\ qas = <<>> /\ nodes = <<>>
  <1>5. Rest'
    BY <1>2, <1>3, <1>4
  <1>6. Rest' => TypeInv'
    BY TypeInvIs, PTL
  <1> QED  BY <1>5, <1>6

(* Whatever is recalled, fused, completed and reranked, the lists of a      *)
(* request hold entries of the corpus and no more than RETRIEVAL_NUM.       *)
THEOREM TypeCorrect == Spec => []TypeOK
  <1>1. Spec => []TypeInv
    BY TypeInit, TypeStep, PTL DEF Spec
  <1>2. TypeInv => TypeOK
    BY DEF TypeInv
  <1> QED  BY <1>1, <1>2, PTL

-----------------------------------------------------------------------------
(* Entries with the same unique key have the same contents, or none of them *)
(* has a row: the key of an entry without its row is not one of another.    *)
LEMMA SameContents ==
  ASSUME NEW e \in Entries, NEW d \in Entries, UniqueKey(e) = UniqueKey(d)
  PROVE  /\ e.filled = d.filled
         /\ e.filled => Corpus[e.node].words = Corpus[d.node].words
  <1>1. /\ e.node \in Nodes /\ d.node \in Nodes /\ e.filled \in BOOLEAN /\ d.filled \in BOOLEAN
        /\ Corpus[e.node].pos \in Nat /\ Corpus[d.node].pos \in Nat
    BY NodesAre DEF Entries
  <1>2. ASSUME NEW x, x.node \in Nodes, x.filled \in BOOLEAN, Corpus[x.node].pos \in Nat
        PROVE  /\ x.filled => /\ UniqueKey(x)[2] = Corpus[x.node].words
                              /\ UniqueKey(x)[3] # -911
               /\ ~x.filled => UniqueKey(x)[3] = -911
    <2>1. CASE x.filled
      <3> DEFINE place == IF IsQa(x.node) THEN 0 ELSE Corpus[x.node].pos
      <3>1. UniqueKey(x) = <<Corpus[x.node].kind, Corpus[x.node].words, place>>
        BY <2>1 DEF UniqueKey
      <3>2. place \in Nat
        BY <1>2
      <3> HIDE DEF place
      <3>3. place # -911
        BY <3>2
      <3> QED  BY <2>1, <3>1, <3>3
    <2>2. CASE ~x.filled
      <3> DEFINE none == -911
                 empty == ""
      <3>1. UniqueKey(x) = <<Corpus[x.node].kind, empty, none>>
        BY <2>2 DEF UniqueKey
      <3> HIDE DEF none, empty
      <3>2. UniqueKey(x)[3] = none
        BY <3>1
      <3> QED  BY <2>2, <3>2 DEF none
    <2> QED  BY <2>1, <2>2
  <1>3. /\ e.filled => /\ UniqueKey(e)[2] = Corpus[e.node].words
                       /\ UniqueKey(e)[3] # -911
        /\ ~e.filled => UniqueKey(e)[3] = -911
    BY <1>1, <1>2
  <1>4. /\ d.filled => /\ UniqueKey(d)[2] = Corpus[d.node].words
                       /\ UniqueKey(d)[3] # -911
        /\ ~d.filled => UniqueKey(d)[3] = -911
    BY <1>1, <1>2
  <1>5. e.filled <=> d.filled
    BY <1>3, <1>4
  <1>6. e.filled => Corpus[e.node].words = Corpus[d.node].words
    BY <1>3, <1>4, <1>5
  <1> QED  BY <1>1, <1>5, <1>6

FairSet == {e \in Entries : /\ e.filled \/ e.sim = 0
                            /\ e.sim = 0 \/ e.sim >= Own(e.node)}
FairInv ==
    /\ TypeInv /\ ListsOf(FairSet)
    /\ pc \in {"chunk rows", "qa rows"} =>
          \A k, l \in 1..Len(hits) : k < l => Own(hits[k]) >= Own(hits[l])

LEMMA FairClosed == Closed(FairSet)
  <1> SUFFICES ASSUME NEW e \in FairSet, NEW d \in FairSet, NEW p \in BOOLEAN,
                      UniqueKey(e) = UniqueKey(d)
               PROVE  [Inherit(e, d) EXCEPT !.pass = p] \in FairSet
    BY DEF Closed, FairSet
  <1> DEFINE x == [Inherit(e, d) EXCEPT !.pass = p]
  <1>1. e \in Entries /\ d \in Entries
    BY DEF FairSet
  <1>2. x \in Entries /\ x.sim = e.sim /\ x.node = d.node /\ x.filled = d.filled
    BY <1>1 DEF Inherit, Entries
  <1>3. e.filled = d.filled /\ (e.filled => Own(e.node) = Own(d.node))
    BY <1>1, SameContents DEF Own
  <1>4. (e.filled \/ e.sim = 0) /\ (e.sim = 0 \/ e.sim >= Own(e.node))
    BY DEF FairSet
  <1> HIDE DEF x
  <1>5. (x.filled \/ x.sim = 0) /\ (x.sim = 0 \/ x.sim >= Own(x.node))
    BY <1>2, <1>3, <1>4
  <1> QED  BY <1>2, <1>5 DEF FairSet, x

LEMMA FairFresh == FairInv => Fresh(FairSet)
  <1> SUFFICES ASSUME FairInv PROVE Fresh(FairSet)
    OBVIOUS
  <1>0. sim \in Sims /\ hits \in Seq(Nodes)
    BY TypeInvIs DEF FairInv, RestOK
  <1>1. Len(hits) \in Nat /\ DOMAIN hits = 1..Len(hits) /\ \A i \in 1..Len(hits) : hits[i] \in Nodes
    BY <1>0, LenProperties, ElementOfSeq
  <1>2. ASSUME pc \in {"chunk rows", "qa rows"} PROVE Scored(hits) \in Seq(FairSet)
    <2>1. PICK c \in Nat :
            /\ c <= Len(hits) /\ Scored(hits) = [k \in 1..c |-> Scored(hits)[k]]
            /\ \A k \in 1..c : \E i \in 1..Len(hits) :
                  /\ k <= i /\ Scored(hits)[k] = Entry(hits[i], Own(hits[k]))
      BY <1>0, ScoredIs
    <2>2. ASSUME NEW k \in 1..c PROVE Scored(hits)[k] \in FairSet
      <3>1. PICK i \in 1..Len(hits) : k <= i /\ Scored(hits)[k] = Entry(hits[i], Own(hits[k]))
        BY <2>1
      <3>2. k \in 1..Len(hits) /\ k \in Int /\ i \in Int
        BY <1>1, <2>1
      <3>3. Own(hits[k]) \in Nat /\ Own(hits[i]) \in Nat /\ hits[i] \in Nodes
        BY <1>0, <1>1, <3>2, NodesAre
      <3>4. k = i \/ k < i
        BY <3>1, <3>2
      <3>5. Own(hits[k]) >= Own(hits[i])
        <4>1. k < i => Own(hits[k]) >= Own(hits[i])
          BY <1>2, <3>2 DEF FairInv
        <4>2. k = i => Own(hits[k]) >= Own(hits[i])
          BY <3>3
        <4> QED  BY <3>4, <4>1, <4>2
      <3> DEFINE x == Entry(hits[i], Own(hits[k]))
      <3>6. x \in Entries /\ x.filled /\ x.sim = Own(hits[k]) /\ x.node = hits[i]
        BY <3>3 DEF Entry, Entries
      <3> QED  BY <3>1, <3>5, <3>6 DEF FairSet
    <2>3. Scored(hits) \in [1..c -> FairSet]
      BY <2>1, <2>2
    <2> QED  BY <2>3, FunctionIs
  <1>3. ASSUME NEW n \in Nodes PROVE EsEntry(n) \in FairSet
    <2>1. HasRow(n) \in BOOLEAN
      BY DEF HasRow
    <2>2. EsEntry(n) \in Entries /\ EsEntry(n).sim = 0
      BY <2>1 DEF EsEntry, Entries
    <2> QED  BY <2>2 DEF FairSet
  <1> QED  BY <1>1, <1>2, <1>3 DEF Fresh

LEMMA SimStays == [Next]_vars => sim' = sim /\ (erased' = erased \/ Erase)
  BY DEF Keep, deletion, Next, RequestStep, Read, FilterDeleted, Build, QueryChunks, ReadChunkRows,
     QueryQas, Query, ReadQaRows, FuseSimilar, QueryEs, Fuse, Postprocess, AnswerDirectly,
     AnswerAtOnce, Ask, StreamItem, StreamEnd, Erase, Purge, vars

LEMMA FairStep == FairInv /\ [Next]_vars => FairInv'
  <1> SUFFICES ASSUME FairInv, [Next]_vars PROVE FairInv'
    OBVIOUS
  <1>1. TypeInv /\ TypeInv'
    BY TypeStep DEF FairInv
  <1>2. sim' = sim
    BY SimStays
  <1>3. ListsOf(FairSet)'
    <2> DEFINE G == FairSet
    <2>1. Closed(G) /\ ListsOf(G) /\ Fresh(G) /\ hits \in Seq(Nodes)
      BY <1>1, FairClosed, FairFresh DEF FairInv, TypeInv
    <2>2. FairSet' = G
      BY <1>2 DEF FairSet, Own
    <2> HIDE DEF G
    <2>3. chunks' \in Seq(G) /\ qas' \in Seq(G) /\ nodes' \in Seq(G)
      BY <2>1, ListsStep DEF ListsOf
    <2> QED  BY <2>2, <2>3 DEF ListsOf
  <1>4. (pc \in {"chunk rows", "qa rows"} =>
            \A k, l \in 1..Len(hits) : k < l => Own(hits[k]) >= Own(hits[l]))'
    <2>1. CASE QueryChunks \/ QueryQas
      <3>1. sim \in Sims
        BY <1>1, TypeInvIs DEF RestOK
      <3> SUFFICES ASSUME pc' \in {"chunk rows", "qa rows"},
                          NEW k \in 1..Len(hits'), NEW l \in 1..Len(hits'), k < l
                   PROVE  Own(hits'[k]) >= Own(hits'[l])
        BY <1>2 DEF Own
      <3>2. PICK index \in {"chunk", "qa"} : hits' = Search(index)
        BY <2>1 DEF QueryChunks, QueryQas, Query, Goto, Fail, Finish
      <3> QED  BY <3>1, <3>2, SearchIs
    <2>2. CASE pc' = pc /\ hits' = hits
      BY <1>2, <2>2 DEF FairInv, Own
    <2>3. CASE pc' \notin {"chunk rows", "qa rows"}
      BY <2>3
    <2>4. [Next]_vars => \/ QueryChunks \/ QueryQas
                         \/ pc' = pc /\ hits' = hits
                         \/ pc' \notin {"chunk rows", "qa rows"}
      BY DEF Goto, Finish, Fail, Next, RequestStep, Read, FilterDeleted, Build, ReadChunkRows,
         ReadQaRows, FuseSimilar, QueryEs, Fuse, Postprocess, AnswerDirectly,
         AnswerAtOnce, Ask, StreamItem, StreamEnd, Erase, Purge, vars
    <2> QED  BY <2>1, <2>2, <2>3, <2>4
  <1> QED  BY <1>1, <1>3, <1>4 DEF FairInv

LEMMA FairInit == Init => FairInv
  <1> SUFFICES ASSUME Init PROVE FairInv
    OBVIOUS
  <1>1. <<>> \in Seq(FairSet)
    BY EmptySeq
  <1> QED  BY <1>1, TypeInit DEF Init, FairInv, ListsOf

(* Rows that vanish between the store's answer and the reading of the rows  *)
(* shift the scores only towards nodes that deserved less: no node is ever  *)
(* scored below its own similarity, by no fusion and in no order of steps.  *)
THEOREM ScoresNeverTooLow == Spec => []NeverUnderrated
  <1>1. Spec => []FairInv
    BY FairInit, FairStep, PTL DEF Spec
  <1>2. FairInv => NeverUnderrated
    <2> SUFFICES ASSUME FairInv PROVE NeverUnderrated
      OBVIOUS
    <2>1. Passed \subseteq FairSet
      BY PassedAre DEF FairInv
    <2> QED  BY <2>1 DEF NeverUnderrated, FairSet
  <1> QED  BY <1>1, <1>2, PTL

-----------------------------------------------------------------------------
(* Before anything is deleted every entry has its row and, if it has a      *)
(* similarity at all, its own.                                              *)
ExactSet == {e \in Entries : e.filled /\ (e.sim = 0 \/ e.sim = Own(e.node))}
ExactInv ==
    /\ TypeInv
    /\ erased = 0 => ListsOf(ExactSet)
    /\ reply = "direct" => pc = "end"
    /\ reply = "direct" => Len(nodes) = 1 /\ nodes[1].sim > MatchScore

LEMMA ExactClosed == Closed(ExactSet)
  <1> SUFFICES ASSUME NEW e \in ExactSet, NEW d \in ExactSet, NEW p \in BOOLEAN,
                      UniqueKey(e) = UniqueKey(d)
               PROVE  [Inherit(e, d) EXCEPT !.pass = p] \in ExactSet
    BY DEF Closed, ExactSet
  <1> DEFINE x == [Inherit(e, d) EXCEPT !.pass = p]
  <1>1. e \in Entries /\ d \in Entries
    BY DEF ExactSet
  <1>2. x \in Entries /\ x.sim = e.sim /\ x.node = d.node /\ x.filled = d.filled
    BY <1>1 DEF Inherit, Entries
  <1>3. e.filled => Own(e.node) = Own(d.node)
    BY <1>1, SameContents DEF Own
  <1>4. e.filled /\ d.filled /\ (e.sim = 0 \/ e.sim = Own(e.node))
    BY DEF ExactSet
  <1> HIDE DEF x
  <1>5. x.filled /\ (x.sim = 0 \/ x.sim = Own(x.node))
    BY <1>2, <1>3, <1>4
  <1> QED  BY <1>2, <1>5 DEF ExactSet, x

LEMMA ExactFresh == TypeInv /\ erased = 0 => Fresh(ExactSet)
  <1> SUFFICES ASSUME TypeInv, erased = 0 PROVE Fresh(ExactSet)
    OBVIOUS
  <1>0. sim \in Sims /\ hits \in Seq(Nodes) /\ ~purged
    <2>1. sim \in Sims /\ hits \in Seq(Nodes)
      BY TypeInvIs DEF RestOK
    <2>2. purged => erased > 0
      BY DEF TypeInv
    <2> QED  BY <2>1, <2>2
  <1>1. Len(hits) \in Nat /\ DOMAIN hits = 1..Len(hits) /\ \A i \in 1..Len(hits) : hits[i] \in Nodes
    BY <1>0, LenProperties, ElementOfSeq
  <1>2. \A n \in Nodes : HasRow(n) = TRUE
    <2>1. ~Did("rows")
      BY DEF Did
    <2> QED  BY <1>0, <2>1 DEF HasRow, Gone
  <1>3. Scored(hits) \in Seq(ExactSet)
    <2>1. PICK c \in Nat :
            /\ c <= Len(hits) /\ Scored(hits) = [k \in 1..c |-> Scored(hits)[k]]
            /\ (\A i \in 1..Len(hits) : HasRow(hits[i])) =>
                  \A k \in 1..c : Scored(hits)[k] = Entry(hits[k], Own(hits[k]))
      BY <1>0, ScoredIs
    <2>2. ASSUME NEW k \in 1..c PROVE Scored(hits)[k] \in ExactSet
      <3>1. Scored(hits)[k] = Entry(hits[k], Own(hits[k]))
        BY <1>1, <1>2, <2>1
      <3>2. hits[k] \in Nodes /\ Own(hits[k]) \in Nat
        BY <1>0, <1>1, <2>1, NodesAre
      <3> DEFINE x == Entry(hits[k], Own(hits[k]))
      <3>3. x \in Entries /\ x.filled /\ x.sim = Own(hits[k]) /\ x.node = hits[k]
        BY <3>2 DEF Entry, Entries
      <3> QED  BY <3>1, <3>3 DEF ExactSet
    <2>3. Scored(hits) \in [1..c -> ExactSet]
      BY <2>1, <2>2
    <2> QED  BY <2>3, FunctionIs
  <1>4. ASSUME NEW n \in Nodes PROVE EsEntry(n) \in ExactSet
    <2>1. EsEntry(n) \in Entries /\ EsEntry(n).sim = 0 /\ EsEntry(n).filled
      BY <1>2 DEF EsEntry, Entries
    <2> QED  BY <2>1 DEF ExactSet
  <1> QED  BY <1>1, <1>3, <1>4 DEF Fresh

LEMMA ExactStep == ExactInv /\ [Next]_vars => ExactInv'
  <1> SUFFICES ASSUME ExactInv, [Next]_vars PROVE ExactInv'
    OBVIOUS
  <1>1. TypeInv /\ TypeInv'
    BY TypeStep DEF ExactInv
  <1>2. ASSUME erased' = 0 PROVE erased = 0
    <2>1. erased \in Nat
      <3>1. erased \in 0..6
        BY <1>1, TypeInvIs DEF RestOK
      <3> QED  BY <3>1
    <2>2. erased' = erased \/ erased' = erased + 1
      BY SimStays DEF Erase
    <2>3. erased' # erased + 1
      BY <1>2, <2>1
    <2> QED  BY <1>2, <2>2, <2>3
  <1>3. ASSUME erased' = 0 PROVE ListsOf(ExactSet)'
    <2> DEFINE G == ExactSet
    <2>1. Closed(G) /\ ListsOf(G) /\ Fresh(G) /\ hits \in Seq(Nodes)
      BY <1>1, <1>2, <1>3, ExactClosed, ExactFresh DEF ExactInv, TypeInv
    <2>2. ExactSet' = G
      BY SimStays DEF ExactSet, Own
    <2> HIDE DEF G
    <2>3. chunks' \in Seq(G) /\ qas' \in Seq(G) /\ nodes' \in Seq(G)
      BY <2>1, ListsStep DEF ListsOf
    <2> QED  BY <2>2, <2>3 DEF ListsOf
  <1>4. CASE AnswerDirectly
    <2> DEFINE first == CHOOSE i \in Matching : \A j \in Matching : i <= j
    <2>1. nodes' = <<nodes[first]>> /\ Matching # {} /\ pc' = "end"
      BY <1>4 DEF AnswerDirectly, Finish
    <2>2. nodes \in Seq(Entries)
      BY <1>1 DEF TypeInv, ListsOf
    <2>3. DOMAIN nodes = 1..Len(nodes) /\ Len(nodes) \in Nat
      BY <2>2, LenProperties
    <2>4. Matching \subseteq Nat
      BY <2>3 DEF Matching
    <2>5. first \in Matching
      BY <2>1, <2>4, LeastIs
    <2>6. nodes[first].sim > MatchScore
      BY <2>5 DEF Matching
    <2> HIDE DEF first
    <2>7. Len(nodes') = 1 /\ nodes'[1].sim > MatchScore
      BY <2>1, <2>6
    <2> QED  BY <1>1, <1>3, <2>1, <2>7 DEF ExactInv
  <1>5. CASE reply' = reply /\ (pc # "end" \/ (pc' = pc /\ nodes' = nodes))
    BY <1>1, <1>3, <1>5 DEF ExactInv
  <1>6. CASE reply' \in {"200", "api error", "cut", "422", "500"}
    BY <1>1, <1>3, <1>6 DEF ExactInv
  <1>7. CASE UNCHANGED vars
    <2>1. reply' = reply /\ pc' = pc /\ nodes' = nodes
      BY <1>7 DEF vars
    <2> QED  BY <1>5, <2>1
  <1>8. CASE Erase \/ Purge
    <2>1. reply' = reply /\ pc' = pc /\ nodes' = nodes
      BY <1>8 DEF Erase, Purge
    <2> QED  BY <1>5, <2>1
  <1>9. CASE Read \/ FilterDeleted \/ Build \/ QueryChunks \/ ReadChunkRows \/ QueryQas
             \/ ReadQaRows \/ FuseSimilar \/ QueryEs \/ Fuse \/ Postprocess
             \/ AnswerAtOnce \/ Ask \/ StreamItem \/ StreamEnd
    <2>1. \/ reply' = reply /\ pc # "end"
          \/ reply' \in {"200", "api error", "cut", "422", "500"}
      BY <1>9 DEF Read, FilterDeleted, Build, QueryChunks, ReadChunkRows, QueryQas, Query,
         ReadQaRows, FuseSimilar, QueryEs, Fuse, Postprocess,
         AnswerAtOnce, Ask, StreamItem, StreamEnd, Goto, Finish, Fail
    <2> QED  BY <1>5, <1>6, <2>1
  <1> QED  BY <1>4, <1>7, <1>8, <1>9 DEF Next, RequestStep

LEMMA ExactInit == Init => ExactInv
  <1> SUFFICES ASSUME Init PROVE ExactInv
    OBVIOUS
  <1>1. <<>> \in Seq(ExactSet)
    BY EmptySeq
  <1> QED  BY <1>1, TypeInit DEF Init, ExactInv, ListsOf

(* As long as nothing is deleted, a question answers in place of the model  *)
(* only for its own similarity, whatever recalls, fusions and reranks it    *)
(* went through: scores are only handed on between equal contents.          *)
THEOREM DirectAnswersAreEarned == Spec => []DirectAnswerEarned
  <1>1. Spec => []ExactInv
    BY ExactInit, ExactStep, PTL DEF Spec
  <1>2. ExactInv => DirectAnswerEarned
    <2> SUFFICES ASSUME ExactInv, reply = "direct", erased = 0
                 PROVE  Len(nodes) = 1 /\ nodes[1].filled /\ Own(nodes[1].node) > MatchScore
      BY DEF DirectAnswerEarned
    <2>1. Len(nodes) = 1 /\ nodes[1].sim > MatchScore /\ nodes \in Seq(ExactSet)
      BY DEF ExactInv, ListsOf
    <2>2. 1 \in 1..Len(nodes)
      BY <2>1
    <2>3. nodes[1] \in ExactSet
      BY <2>1, <2>2, ElementOfSeq
    <2>4. MatchScore \in Nat
      BY Parameters
    <2>5. ~(0 > MatchScore)
      BY <2>4
    <2> QED  BY <2>1, <2>3, <2>5 DEF ExactSet
  <1> QED  BY <1>1, <1>2, PTL

-----------------------------------------------------------------------------
(* A request read after the deletion was accepted: either the file is not   *)
(* among its files, or every store is clean of it.                          *)
SafeSet == {e \in Entries : Corpus[e.node].file # Doomed}
Searching == {"build", "chunk", "chunk rows", "qa", "qa rows", "similar", "es"}
UnseenInv ==
    /\ TypeInv
    /\ admitted > 0 => /\ ListsOf(SafeSet)
                       /\ \A i \in 1..Len(hits) : Corpus[hits[i]].file # Doomed
                       /\ pc \in Searching => Doomed \notin files \/ erased = 6

LEMMA SafeClosed == Closed(SafeSet)
  <1> SUFFICES ASSUME NEW e \in SafeSet, NEW d \in SafeSet, NEW p \in BOOLEAN
               PROVE  [Inherit(e, d) EXCEPT !.pass = p] \in SafeSet
    BY DEF Closed, SafeSet
  <1> DEFINE x == [Inherit(e, d) EXCEPT !.pass = p]
  <1>1. x \in Entries /\ x.node = d.node
    BY DEF Inherit, Entries, SafeSet
  <1> HIDE DEF x
  <1>2. x \in SafeSet
    BY <1>1 DEF SafeSet
  <1> QED  BY <1>2 DEF x

LEMMA SafeFresh ==
  ASSUME TypeInv, \A i \in 1..Len(hits) : Corpus[hits[i]].file # Doomed
  PROVE  Fresh(SafeSet)
  <1>0. sim \in Sims /\ hits \in Seq(Nodes)
    BY TypeInvIs DEF RestOK
  <1>1. /\ Len(hits) \in Nat /\ DOMAIN hits = 1..Len(hits)
        /\ \A i \in 1..Len(hits) : hits[i] \in Nodes /\ Own(hits[i]) \in Nat
    BY <1>0, LenProperties, ElementOfSeq, NodesAre
  <1>2. Scored(hits) \in Seq(SafeSet)
    <2>1. PICK c \in Nat :
            /\ c <= Len(hits) /\ Scored(hits) = [k \in 1..c |-> Scored(hits)[k]]
            /\ \A k \in 1..c : \E i \in 1..Len(hits) :
                  /\ k <= i /\ Scored(hits)[k] = Entry(hits[i], Own(hits[k]))
      BY <1>0, ScoredIs
    <2>2. ASSUME NEW k \in 1..c PROVE Scored(hits)[k] \in SafeSet
      <3>1. PICK i \in 1..Len(hits) : Scored(hits)[k] = Entry(hits[i], Own(hits[k]))
        BY <2>1
      <3>2. Own(hits[k]) \in Nat /\ hits[i] \in Nodes
        BY <1>1, <2>1
      <3> DEFINE x == Entry(hits[i], Own(hits[k]))
      <3>3. x \in Entries /\ x.node = hits[i]
        BY <3>2 DEF Entry, Entries
      <3> QED  BY <3>1, <3>3 DEF SafeSet
    <2>3. Scored(hits) \in [1..c -> SafeSet]
      BY <2>1, <2>2
    <2> QED  BY <2>3, FunctionIs
  <1>3. ASSUME NEW i \in 1..Len(hits) PROVE EsEntry(hits[i]) \in SafeSet
    <2>1. HasRow(hits[i]) \in BOOLEAN
      BY DEF HasRow
    <2>2. EsEntry(hits[i]) \in Entries /\ EsEntry(hits[i]).node = hits[i]
      BY <1>1, <2>1 DEF EsEntry, Entries
    <2> QED  BY <2>2 DEF SafeSet
  <1> QED  BY <1>1, <1>2, <1>3 DEF Fresh

(* The filter on the files is never overruled and every index has its key.  *)
LEMMA ScopeCounts ==
  ASSUME NEW index \in {"chunk", "qa", "es"}
  PROVE  Scope(files) \in Clean(OwnFilters, index)
  <1> DEFINE all == <<Scope(files), Builtin>> \o PluginFilters(req.mode)
  <1>1. /\ Scope(files).key = "source_id" /\ Builtin.key = "node_type"
        /\ NoContexts.key = "extra" /\ AllKinds.key = "node_type"
    BY DEF Scope, Builtin, NoContexts, AllKinds, Leaf
  <1>2. PICK last \in {NoContexts, AllKinds} : PluginFilters(req.mode) = <<last>>
    BY DEF PluginFilters
  <1>3. all[1] = Scope(files) /\ Len(all) = 3 /\ DOMAIN all = 1..3
        /\ all[2] = Builtin /\ all[3] = last
    <2> DEFINE S == {Scope(files), Builtin, last}
    <2>1. <<Scope(files), Builtin>> \in Seq(S) /\ <<last>> \in Seq(S)
      OBVIOUS
    <2>2. /\ all \in Seq(S) /\ Len(all) = 3
          /\ \A i \in 1..3 : all[i] = IF i <= 2 THEN <<Scope(files), Builtin>>[i] ELSE <<last>>[i - 2]
      BY <1>2, <2>1, ConcatProperties
    <2> HIDE DEF all
    <2> QED  BY <2>2, LenProperties
  <1>4. \A j \in 1+1..Len(all) : all[j].key # all[1].key
    <2>1. \A j \in 1+1..Len(all) : j = 2 \/ j = 3
      BY <1>3
    <2>2. all[2].key # all[1].key /\ all[3].key # all[1].key
      BY <1>1, <1>3
    <2> QED  BY <2>1, <2>2
  <1>5. Scope(files) \in OwnFilters
    <2>1. OwnFilters = {all[i] : i \in {i \in DOMAIN all :
              \/ all[i].key = "extra"
              \/ \A j \in i+1..Len(all) : all[j].key # all[i].key}}
      BY DEF OwnFilters, Combined
    <2> HIDE DEF all
    <2> QED  BY <1>3, <1>4, <2>1
  <1>6. "source_id" \in IndexKeys[index]
    BY DEF IndexKeys
  <1> QED  BY <1>1, <1>5, <1>6 DEF Clean

LEMMA InScope ==
  ASSUME NEW n \in Nodes
  PROVE  /\ \A index \in {"chunk", "qa"} :
               VectorMatch(req.backend, Corpus[n], User, OwnFilters, index)
                  => Corpus[n].file \in files
         /\ EsMatch(Corpus[n], OwnFilters) => Corpus[n].file \in files
  <1>1. /\ Scope(files).key = "source_id" /\ Scope(files).op = "in" /\ Scope(files).vals = files
        /\ Field(Corpus[n], "source_id") = {Corpus[n].file}
    BY DEF Scope, Leaf, Field
  <1>2. Satisfies(Corpus[n], Scope(files)) => Corpus[n].file \in files
    BY <1>1 DEF Satisfies
  <1>3. ASSUME NEW index \in {"chunk", "qa"},
               VectorMatch(req.backend, Corpus[n], User, OwnFilters, index)
        PROVE  Corpus[n].file \in files
    <2>1. Scope(files) \in Clean(OwnFilters, index)
      BY ScopeCounts
    <2>2. Satisfies(Corpus[n], Scope(files))
      BY <1>1, <1>3, <2>1 DEF VectorMatch, QdrantMatch, TencentMatch
    <2> QED  BY <1>2, <2>2
  <1>4. ASSUME EsMatch(Corpus[n], OwnFilters) PROVE Corpus[n].file \in files
    <2>1. Scope(files) \in Clean(OwnFilters, "es")
      BY ScopeCounts
    <2>2. Field(Corpus[n], "source_id") \cap files # {}
      BY <1>1, <1>4, <2>1 DEF EsMatch
    <2> QED  BY <1>1, <2>2
  <1> QED  BY <1>3, <1>4

LEMMA CleanStores ==
  ASSUME erased = 6, NEW n \in Nodes
  PROVE  /\ \A index \in {"chunk", "qa"} : n \in Points(index) => Corpus[n].file # Doomed
         /\ ~Gone(n, "es") => Corpus[n].file # Doomed
  <1>1. Did("chunk vectors") /\ Did("qa vectors") /\ Did("es")
    <2>1. /\ 3 \in 1..erased /\ EraseSteps[3] = "chunk vectors"
          /\ 4 \in 1..erased /\ EraseSteps[4] = "qa vectors"
          /\ 5 \in 1..erased /\ EraseSteps[5] = "es"
      BY DEF EraseSteps
    <2> QED  BY <2>1 DEF Did
  <1> QED  BY <1>1 DEF Points, Gone

(* An accepted deletion has set the tombstone, and it is the last step that *)
(* takes it away.                                                           *)
LEMMA TombstoneHolds ==
  ASSUME erased \in 1..6
  PROVE  Tombstoned(Doomed) \/ erased = 6
  <1>1. Did("tombstone")
    <2>1. 1 \in 1..erased /\ EraseSteps[1] = "tombstone"
      BY DEF EraseSteps
    <2> QED  BY <2>1 DEF Did
  <1>2. Did("untomb") => erased = 6
    <2> SUFFICES ASSUME NEW i \in 1..erased, EraseSteps[i] = "untomb" PROVE erased = 6
      BY DEF Did
    <2>1. i \in 1..6
      OBVIOUS
    <2>a. i = 1 \/ i = 2 \/ i = 3 \/ i = 4 \/ i = 5 \/ i = 6
      BY <2>1
    <2>b. /\ EraseSteps[1] # "untomb" /\ EraseSteps[2] # "untomb" /\ EraseSteps[3] # "untomb"
          /\ EraseSteps[4] # "untomb" /\ EraseSteps[5] # "untomb"
      BY DEF EraseSteps
    <2>2. i = 6
      BY <2>a, <2>b
    <2> QED  BY <2>2
  <1> QED  BY <1>1, <1>2 DEF Tombstoned

LEMMA UnseenStep == UnseenInv /\ [Next]_vars => UnseenInv'
  <1> SUFFICES ASSUME UnseenInv, [Next]_vars PROVE UnseenInv'
    OBVIOUS
  <1>1. TypeInv /\ TypeInv' /\ RestOK
    BY TypeStep, TypeInvIs DEF UnseenInv
  <1>2. CASE Read
    <2>1. hits = <<>> /\ chunks = <<>> /\ qas = <<>> /\ nodes = <<>>
      BY <1>1, <1>2 DEF TypeInv, Read
    <2>2. UNCHANGED <<hits, chunks, qas, nodes>> /\ pc' \notin Searching
      BY <1>2 DEF Read, Goto, Finish, Searching
    <2>3. <<>> \in Seq(SafeSet)
      BY EmptySeq
    <2>4. \A i \in 1..Len(hits') : Corpus[hits'[i]].file # Doomed
      BY <2>1, <2>2
    <2>5. ListsOf(SafeSet)'
      BY <2>1, <2>2, <2>3 DEF ListsOf, SafeSet
    <2> QED  BY <1>1, <2>2, <2>4, <2>5 DEF UnseenInv
  <1>3. CASE ~Read
    <2>1. admitted' = admitted
      BY <1>3 DEF Keep, deletion, Next, RequestStep, FilterDeleted, Build, QueryChunks,
         ReadChunkRows, QueryQas, Query, ReadQaRows, FuseSimilar, QueryEs, Fuse, Postprocess,
         AnswerDirectly, AnswerAtOnce, Ask, StreamItem, StreamEnd, Erase, Purge, vars
    <2> SUFFICES ASSUME admitted > 0
                 PROVE  /\ ListsOf(SafeSet)'
                        /\ \A i \in 1..Len(hits') : Corpus[hits'[i]].file # Doomed
                        /\ pc' \in Searching => Doomed \notin files' \/ erased' = 6
      BY <1>1, <2>1 DEF UnseenInv
    <2>2. erased \in 1..6
      <3>1. admitted \in 0..erased /\ erased \in 0..6
        BY <1>1 DEF RestOK
      <3> QED  BY <3>1
    <2>3. /\ ListsOf(SafeSet) /\ \A i \in 1..Len(hits) : Corpus[hits[i]].file # Doomed
          /\ pc \in Searching => Doomed \notin files \/ erased = 6
      BY DEF UnseenInv
    <2>4. ListsOf(SafeSet)'
      <3> DEFINE G == SafeSet
      <3>1. Closed(G) /\ ListsOf(G) /\ Fresh(G) /\ hits \in Seq(Nodes)
        BY <1>1, <2>3, SafeClosed, SafeFresh DEF TypeInv
      <3>2. SafeSet' = G
        BY DEF SafeSet
      <3> HIDE DEF G
      <3>3. chunks' \in Seq(G) /\ qas' \in Seq(G) /\ nodes' \in Seq(G)
        BY <3>1, ListsStep DEF ListsOf
      <3> QED  BY <3>2, <3>3 DEF ListsOf
    <2>5. \A i \in 1..Len(hits') : Corpus[hits'[i]].file # Doomed
      <3>1. CASE hits' = hits
        BY <2>3, <3>1
      <3>2. CASE hits' = <<>>
        BY <3>2
      <3>3. ASSUME NEW index \in {"chunk", "qa"}, pc = index, hits' = Search(index)
            PROVE  \A i \in 1..Len(hits') : Corpus[hits'[i]].file # Doomed
        <4> SUFFICES ASSUME NEW i \in 1..Len(hits') PROVE Corpus[hits'[i]].file # Doomed
          OBVIOUS
        <4>1. sim \in Sims
          BY <1>1 DEF RestOK
        <4> DEFINE n == hits'[i]
        <4>2. /\ n \in Points(index)
              /\ VectorMatch(req.backend, Corpus[n], User, OwnFilters, index)
          BY <3>3, <4>1, SearchIs
        <4>3. n \in Nodes
          BY <4>2 DEF Points
        <4> HIDE DEF n
        <4>4. Corpus[n].file \in files
          BY <4>2, <4>3, InScope
        <4>5. erased = 6 => Corpus[n].file # Doomed
          BY <4>2, <4>3, CleanStores
        <4>6. Doomed \notin files \/ erased = 6
          BY <2>3, <3>3 DEF Searching
        <4>7. Corpus[n].file # Doomed
          BY <4>4, <4>5, <4>6
        <4> QED  BY <4>7 DEF n
      <3>4. CASE QueryChunks \/ QueryQas
        <4>1. \/ hits' = hits
              \/ \E index \in {"chunk", "qa"} : pc = index /\ hits' = Search(index)
          BY <3>4 DEF QueryChunks, QueryQas, Query
        <4> QED  BY <3>1, <3>3, <4>1
      <3>5. CASE QueryEs
        <4>1. PICK found \in SUBSET {n \in Nodes : ~Gone(n, "es") /\ EsMatch(Corpus[n], OwnFilters)} :
                hits' = First(InTurn(found, Len(Corpus)), RetrievalNum)
          BY <3>5 DEF QueryEs
        <4>2. found \in SUBSET Nodes
          OBVIOUS
        <4>3. \A i \in 1..Len(hits') : hits'[i] \in found
          BY <4>1, <4>2, EsFoundIs
        <4>4. Doomed \notin files \/ erased = 6
          BY <2>3, <3>5 DEF QueryEs, Searching
        <4>5. ASSUME NEW n \in found PROVE Corpus[n].file # Doomed
          <5>1. n \in Nodes /\ ~Gone(n, "es") /\ EsMatch(Corpus[n], OwnFilters)
            OBVIOUS
          <5>2. Corpus[n].file \in files
            BY <5>1, InScope
          <5>3. erased = 6 => Corpus[n].file # Doomed
            BY <5>1, CleanStores
          <5> QED  BY <4>4, <5>2, <5>3
        <4> QED  BY <4>3, <4>5
      <3>6. CASE ReadChunkRows \/ ReadQaRows \/ Fuse
        BY <3>2, <3>6 DEF ReadChunkRows, ReadQaRows, Fuse
      <3>7. CASE FilterDeleted \/ Build \/ FuseSimilar \/ Postprocess \/ AnswerDirectly
                 \/ AnswerAtOnce \/ Ask \/ StreamItem \/ StreamEnd \/ Erase \/ Purge
        BY <3>1, <3>7 DEF FilterDeleted, Build, FuseSimilar, Postprocess, AnswerDirectly,
           AnswerAtOnce, Ask, StreamItem, StreamEnd, Erase, Purge
      <3>8. CASE UNCHANGED vars
        BY <3>1, <3>8 DEF vars
      <3> QED  BY <1>3, <3>4, <3>5, <3>6, <3>7, <3>8 DEF Next, RequestStep
    <2>6. pc' \in Searching => Doomed \notin files' \/ erased' = 6
      <3>1. CASE FilterDeleted
        <4>1. files' = {f \in files : ~Tombstoned(f)} /\ erased' = erased
          BY <3>1 DEF FilterDeleted, Keep, deletion
        <4>2. Tombstoned(Doomed) \/ erased = 6
          BY <2>2, TombstoneHolds
        <4> QED  BY <4>1, <4>2
      <3>2. CASE pc \in Searching /\ files' = files /\ erased' = erased
        BY <2>3, <3>2
      <3>3. CASE pc' \notin Searching
        BY <3>3
      <3>4. CASE Erase
        <4>1. pc' = pc /\ files' = files /\ erased < 6
          BY <3>4, Lengths DEF Erase
        <4>2. erased # 6
          BY <4>1, <2>2
        <4> QED  BY <2>3, <4>1, <4>2
      <3>5. CASE UNCHANGED <<pc, files, erased>>
        BY <2>3, <3>5
      <3>6. \/ FilterDeleted \/ Erase \/ UNCHANGED <<pc, files, erased>>
            \/ pc \in Searching /\ files' = files /\ erased' = erased
            \/ pc' \notin Searching
        BY <1>3 DEF Searching, Goto, Finish, Fail, Keep, deletion, Next, RequestStep, Build,
           QueryChunks, ReadChunkRows, QueryQas, Query, ReadQaRows, FuseSimilar, QueryEs, Fuse,
           Postprocess, AnswerDirectly, AnswerAtOnce, Ask, StreamItem, StreamEnd, Purge, vars
      <3> QED  BY <3>1, <3>2, <3>3, <3>4, <3>5, <3>6
    <2> QED  BY <2>4, <2>5, <2>6
  <1> QED  BY <1>2, <1>3

LEMMA UnseenInit == Init => UnseenInv
  <1> SUFFICES ASSUME Init PROVE UnseenInv
    OBVIOUS
  <1>1. ~(admitted > 0)
    BY DEF Init
  <1> QED  BY <1>1, TypeInit DEF UnseenInv

(* A request that is read after the deletion of a file was accepted sees no *)
(* node of it in any list: until every store is clean the tombstone keeps   *)
(* the file out of the request's scope, and no store recalls out of scope.  *)
THEOREM DeletedStaysUnseen == Spec => []DeletedUnseen
  <1>1. Spec => []UnseenInv
    BY UnseenInit, UnseenStep, PTL DEF Spec
  <1>2. UnseenInv => DeletedUnseen
    <2> SUFFICES ASSUME UnseenInv, admitted > 0
                 PROVE  /\ \A e \in Passed : Corpus[e.node].file # Doomed
                        /\ \A i \in DOMAIN hits : Corpus[hits[i]].file # Doomed
      BY DEF DeletedUnseen
    <2>1. ListsOf(SafeSet) /\ \A i \in 1..Len(hits) : Corpus[hits[i]].file # Doomed
      BY DEF UnseenInv
    <2>2. Passed \subseteq SafeSet
      BY <2>1, PassedAre
    <2>3. DOMAIN hits = 1..Len(hits)
      BY LenProperties DEF UnseenInv, TypeInv
    <2> QED  BY <2>1, <2>2, <2>3 DEF SafeSet
  <1> QED  BY <1>1, <1>2, PTL

=============================================================================
