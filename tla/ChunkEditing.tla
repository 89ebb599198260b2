---------------------------- MODULE ChunkEditing ----------------------------
(***************************************************************************)
(* Editing the chunks of one file through the chunk API while the file is  *)
(* searched: add_chunk, update_chunk, delete_chunk, save_context_chunk and *)
(* clear_context_nodes, each a MySQL transaction that also writes the      *)
(* vector store and the search index (which no transaction covers), and    *)
(* the per-process node cache that searches fill.                          *)
(*                                                                         *)
(* An editor is a thread that serves one call.  Its transaction is         *)
(* READ COMMITTED (Django's default): writes holds what it has written and *)
(* not committed; a row in there is locked for the others, and a statement *)
(* that needs a locked row waits until it gets it or times out.            *)
(***************************************************************************)
EXTENDS Integers, Sequences, FiniteSets, FiniteSetsExt, TLC

CONSTANTS Editors, Readers,  \* threads that edit; threads that search
          Procs, ProcOf,     \* processes; [Editors \cup Readers -> Procs]
          Texts, TokensOf,   \* contents; [Texts -> Nat], their token counts
          MaxId,             \* bound: chunk ids are 0..MaxId
          Kinds,             \* the calls made: some of those of Program
          MaxCalls,          \* bound: calls made by the editors
          MaxFaults          \* bound: statements and requests that raise

ASSUME ChunkEditingAssumption ==
    /\ ProcOf \in [Editors \cup Readers -> Procs]
    /\ Texts # {} /\ TokensOf \in [Texts -> Nat \ {0}]
    /\ {MaxId, MaxCalls, MaxFaults} \subseteq Nat /\ MaxId >= 2
    /\ Kinds \subseteq {"add", "update", "delete", "context", "clear"}

VARIABLES rows,      \* committed rows: chunk id -> row
          writes,    \* [Editors -> chunk id -> row or Gone], the open transactions
          vec, es,   \* vector store and search index: chunk id -> content
          cache,     \* [Procs -> {} or {chunk id -> content}]
          call,      \* [Editors -> the call served]
          pc,        \* [Editors -> Nat], its step; 0: none
          loading,   \* [Readers -> Idle or the ids a search has read]
          pks,       \* history: rows inserted so far
          calls, faults,
          stranded,  \* history: ids whose deletion failed half-way
          torn,      \* history: ids of which some write failed half-way
          overlap,   \* history: two calls were served at the same time
          excused    \* history: processes whose cache code cannot keep fresh

vars == <<rows, writes, vec, es, cache, call, pc, loading, pks, calls, faults,
          stranded, torn, overlap, excused>>
stores == <<rows, writes, vec, es, cache, loading, pks>>
history == <<stranded, torn, overlap, excused>>

Gone == [text |-> "gone"]
Idle == [idle |-> TRUE]
Blank == "blank"      \* what ES holds after a chunk without text was written
NoText == "noText"    \* a call that does not pass content_data
NoCall == [kind |-> "none", ids |-> {}, text |-> NoText, pos |-> 0, row |-> Gone]

(* The calls as the sequence of their effects. *)
AddChunk == <<"maxId", "shiftUp", "insert", "vec", "es", "commit">>
UpdateChunkStoreFirst ==                                   \* mutant of UpdateChunk
    <<"fetch", "uncache", "vec", "es", "save", "token", "commit">>
UpdateChunkKeepsCache ==                                   \* mutant of UpdateChunk
    <<"fetch", "save", "vec", "es", "token", "commit">>
UpdateChunk == <<"fetch", "uncache", "save", "vec", "es", "token", "commit">>
DeleteChunkStoresFirst ==                                  \* mutant of DeleteChunk
    <<"fetch", "dropVec", "dropEs", "dropRow", "shiftDown", "uncache", "token", "commit">>
DeleteChunk ==
    <<"fetch", "dropRow", "shiftDown", "dropVec", "dropEs", "uncache", "token", "commit">>
SaveContext == <<"maxId", "shiftUp", "insert", "mark", "vec", "es", "commit">>
ClearContexts == <<"fetchContexts", "dropVec", "dropEs", "dropRows", "unmark", "commit">>
Program == [add |-> AddChunk, update |-> UpdateChunk, delete |-> DeleteChunk,
            context |-> SaveContext, clear |-> ClearContexts]

Ids == 0..MaxId
With(f, g) == [x \in DOMAIN f \cup DOMAIN g |-> IF x \in DOMAIN g THEN g[x] ELSE f[x]]
Without(f, S) == [x \in DOMAIN f \ S |-> f[x]]
Row(text, pos, order, token) ==
    [text |-> text, pos |-> pos, order |-> order, ctx |-> FALSE, token |-> token, pk |-> 0]

(* Two structured chunks, the second a child of the first, and perhaps the  *)
(* context chunk that was extracted for them.                               *)
Structured(t, extracted) ==
    [i \in 0..1 |-> [Row(t, IF extracted THEN i + 1 ELSE i, IF i = 0 THEN <<1>> ELSE <<1, 1>>,
                         (2 - i) * TokensOf[t]) EXCEPT !.ctx = extracted, !.pk = i + 1]]
Init ==
    \E extracted \in BOOLEAN :
    LET t == CHOOSE x \in Texts : TRUE IN
    /\ rows = IF extracted
              THEN With(Structured(t, TRUE), [i \in {2} |-> [Row(t, 0, <<>>, -911) EXCEPT !.pk = 3]])
              ELSE Structured(t, FALSE)
    /\ vec = [i \in DOMAIN rows |-> t] /\ es = vec
    /\ writes = [e \in Editors |-> <<>>]
    /\ cache = [p \in Procs |-> {}]
    /\ call = [e \in Editors |-> NoCall] /\ pc = [e \in Editors |-> 0]
    /\ loading = [r \in Readers |-> Idle]
    /\ pks = Cardinality(DOMAIN rows) /\ calls = 0 /\ faults = 0
    /\ stranded = {} /\ torn = {} /\ overlap = FALSE /\ excused = {}

-----------------------------------------------------------------------------
Active(e) == pc[e] # 0
StepOf(e) == IF Active(e) THEN Program[call[e].kind][pc[e]] ELSE "none"
Row0(e) == call[e].row
ChunkOf(e) == CHOOSE i \in call[e].ids : TRUE

(* What a statement of the transaction of e sees: its own writes, otherwise *)
(* what is committed.                                                       *)
View(e) == LET f == With(rows, writes[e])
           IN  [i \in {j \in DOMAIN f : f[j] # Gone} |-> f[i]]
Locked(e, S) == \E f \in Editors \ {e} : S \cap DOMAIN writes[f] # {}
FromAfter(e, index) == {i \in DOMAIN View(e) : View(e)[i].pos > index}   \* mutant of From
From(e, index) == {i \in DOMAIN View(e) : View(e)[i].pos >= index}

(* The chunks whose token count contains that of a chunk at order. *)
Ancestors(e, order) ==
    {i \in DOMAIN View(e) : /\ View(e)[i].order # <<>> /\ View(e)[i].token > 0
                            /\ \E n \in 1..Len(order) : View(e)[i].order = SubSeq(order, 1, n)}

(* The rows the next statement of e writes. *)
Target(e) ==
    CASE StepOf(e) = "shiftUp" -> From(e, call[e].pos)
      [] StepOf(e) = "shiftDown" -> From(e, Row0(e).pos)
      [] StepOf(e) = "token" -> Ancestors(e, Row0(e).order)
      [] StepOf(e) \in {"insert", "save", "dropRow", "dropRows"} -> call[e].ids
      [] StepOf(e) \in {"mark", "unmark"} ->
           {i \in DOMAIN View(e) : StepOf(e) = "unmark" \/ View(e)[i].order # <<>>}
      [] OTHER -> {}
Blocked(e) == Locked(e, Target(e))

Write(e, f) == writes' = [writes EXCEPT ![e] = With(@, f)]
Advance(e) == pc' = [pc EXCEPT ![e] = @ + 1] /\ UNCHANGED <<call, calls, faults>>
Shift(e, S, n) == Write(e, [i \in S |-> [View(e)[i] EXCEPT !.pos = @ + n]])

(* A call ends: the transaction is gone with its locks. *)
EndCall(e) ==
    /\ writes' = [writes EXCEPT ![e] = <<>>]
    /\ pc' = [pc EXCEPT ![e] = 0] /\ call' = [call EXCEPT ![e] = NoCall]
    /\ UNCHANGED calls

-----------------------------------------------------------------------------
(* A request of the chunk API reaches the service (or the context          *)
(* extraction calls it).                                                   *)
Begin(e, k, i, text, pos) ==
    /\ ~Active(e) /\ calls < MaxCalls /\ k \in Kinds
    /\ k \in {"add", "context"} => text \in Texts /\ i = 0
    /\ k \in {"update", "delete"} => pos = 0
    /\ k = "delete" => text = NoText
    /\ k \in {"context", "clear"} => pos = 0
    /\ k = "clear" => text = NoText /\ i = 0
    /\ call' = [call EXCEPT ![e] = [NoCall EXCEPT !.kind = k, !.ids = {i}, !.text = text, !.pos = pos]]
    /\ pc' = [pc EXCEPT ![e] = 1]
    /\ calls' = calls + 1
    /\ overlap' = (overlap \/ \E f \in Editors : Active(f))
    /\ excused' = excused \cup {p \in Procs : \E r \in Readers : ProcOf[r] = p /\ loading[r] # Idle}
    /\ UNCHANGED <<stores, faults, stranded, torn>>

(* find_max_id_pos: the next id is the largest committed one plus one. *)
PickId(e) ==
    /\ StepOf(e) = "maxId"
    /\ \E id \in Ids :
         /\ id = Max({-1} \cup DOMAIN View(e)) + 1
         /\ call' = [call EXCEPT ![e].ids = {id},
                                 ![e].row = Row(call[e].text, call[e].pos, <<>>, -911)]
    /\ pc' = [pc EXCEPT ![e] = @ + 1]
    /\ UNCHANGED <<stores, history, calls, faults>>

(* The chunk is read before it is changed; one that is not there raises. *)
Fetch(e) ==
    /\ StepOf(e) = "fetch"
    /\ LET i == ChunkOf(e)
           found == i \in DOMAIN rows /\ (call[e].kind = "update" => i \in DOMAIN vec)
       IN  IF found
           THEN /\ call' = [call EXCEPT ![e].row = rows[i]]
                /\ pc' = [pc EXCEPT ![e] = @ + 1]
                /\ UNCHANGED <<stores, history, calls, faults>>
           ELSE /\ EndCall(e)
                /\ UNCHANGED <<rows, vec, es, cache, loading, pks, history, faults>>

(* Context chunks are those without context and without order. *)
FetchContexts(e) ==
    /\ StepOf(e) = "fetchContexts"
    /\ LET ids == {i \in DOMAIN rows : ~rows[i].ctx /\ rows[i].order = <<>>}
           structured == \E i \in DOMAIN rows : rows[i].order # <<>>
       IN  IF structured /\ ids # {}
           THEN /\ call' = [call EXCEPT ![e].ids = ids]
                /\ pc' = [pc EXCEPT ![e] = @ + 1]
                /\ UNCHANGED <<stores, history, calls, faults>>
           ELSE /\ EndCall(e)
                /\ UNCHANGED <<rows, vec, es, cache, loading, pks, history, faults>>

(* chunk_pos_increment, chunk_pos_decrement *)
ShiftPositions(e) ==
    /\ ~Blocked(e)
    /\ \/ StepOf(e) = "shiftUp" /\ Shift(e, Target(e), 1)
       \/ StepOf(e) = "shiftDown" /\ Shift(e, Target(e), -1)
    /\ Advance(e)
    /\ UNCHANGED <<rows, vec, es, cache, loading, pks, history>>

(* ChunkContentAttachedMapper.save: update_or_create by chunk id.  An       *)
(* update writes back the position and the token count it has read.         *)
SaveRow(e) ==
    /\ StepOf(e) \in {"insert", "save"} /\ ~Blocked(e)
    /\ LET i == ChunkOf(e)
           text == IF call[e].text = NoText THEN Row0(e).text ELSE call[e].text
           old == IF i \in DOMAIN View(e) THEN View(e)[i]
                  ELSE [Row(text, 0, <<>>, 0) EXCEPT !.pk = pks + 1]
       IN  /\ Write(e, [j \in {i} |-> [old EXCEPT !.text = text, !.pos = Row0(e).pos,
                                                  !.token = Row0(e).token]])
           /\ call' = [call EXCEPT ![e].row.text = text]
           /\ pks' = IF i \in DOMAIN View(e) THEN pks ELSE pks + 1
    /\ pc' = [pc EXCEPT ![e] = @ + 1]
    /\ UNCHANGED <<rows, vec, es, cache, loading, history, calls, faults>>

(* chunk.delete() by primary key; nothing deleted raises. *)
DropRow(e) ==
    /\ StepOf(e) = "dropRow" /\ ~Blocked(e)
    /\ LET i == ChunkOf(e) IN
       IF i \in DOMAIN View(e) /\ View(e)[i].pk = Row0(e).pk
       THEN /\ Write(e, [j \in {i} |-> Gone])
            /\ Advance(e)
            /\ UNCHANGED <<rows, vec, es, cache, loading, pks, history>>
       ELSE /\ EndCall(e)
            /\ UNCHANGED <<rows, vec, es, cache, loading, pks, history, faults>>

(* delete_by_chunk_ids, update_chunks_context_id, update_source_context_id *)
WriteRows(e) ==
    /\ ~Blocked(e)
    /\ \/ StepOf(e) = "dropRows" /\ Write(e, [i \in Target(e) \cap DOMAIN View(e) |-> Gone])
       \/ StepOf(e) = "mark" /\ Write(e, [i \in Target(e) |-> [View(e)[i] EXCEPT !.ctx = TRUE]])
       \/ StepOf(e) = "unmark" /\ Write(e, [i \in Target(e) |-> [View(e)[i] EXCEPT !.ctx = FALSE]])
    /\ Advance(e)
    /\ UNCHANGED <<rows, vec, es, cache, loading, pks, history>>

(* update_chunks_token: an update computes the difference after it has      *)
(* overwritten the old content.                                             *)
UpdateTokens(e) ==
    /\ StepOf(e) = "token" /\ ~Blocked(e)
    /\ LET given == IF call[e].text = NoText THEN 0 ELSE TokensOf[call[e].text]
           diff == IF call[e].kind = "delete" THEN -TokensOf[Row0(e).text]
                   ELSE given - TokensOf[Row0(e).text]
       IN  Write(e, [i \in Target(e) |-> [View(e)[i] EXCEPT !.token = @ + diff]])
    /\ Advance(e)
    /\ UNCHANGED <<rows, vec, es, cache, loading, pks, history>>

(* The vector store and the search index are written at once. *)
WriteStores(e) ==
    /\ LET f == [i \in call[e].ids |-> Row0(e).text] IN
       \/ StepOf(e) = "vec" /\ vec' = With(vec, f) /\ UNCHANGED es
       \/ StepOf(e) = "es" /\ es' = With(es, f) /\ UNCHANGED vec
       \/ StepOf(e) = "dropVec" /\ vec' = Without(vec, call[e].ids) /\ UNCHANGED es
       \/ StepOf(e) = "dropEs" /\ es' = Without(es, call[e].ids) /\ UNCHANGED vec
    /\ Advance(e)
    /\ UNCHANGED <<rows, writes, cache, loading, pks, history>>

(* node_cache.remove, in the process that serves the call *)
Uncache(e) ==
    /\ StepOf(e) = "uncache"
    /\ cache' = [cache EXCEPT ![ProcOf[e]] = {}]
    /\ Advance(e)
    /\ UNCHANGED <<rows, writes, vec, es, loading, pks, history>>

(* The transaction commits and the call returns.  Only update and delete    *)
(* clear the cache, and only that of their process.                         *)
Commit(e) ==
    /\ StepOf(e) = "commit"
    /\ rows' = View(e)
    /\ excused' = IF call[e].kind \in {"update", "delete"} THEN excused \cup (Procs \ {ProcOf[e]})
                  ELSE Procs
    /\ EndCall(e)
    /\ UNCHANGED <<vec, es, cache, loading, pks, faults, stranded, torn, overlap>>

-----------------------------------------------------------------------------
(* What follows an exception in e: the rollback by hand, then that of the   *)
(* transaction.  add_chunk deletes by document id, which matches nothing.   *)
(* update_chunk adds the chunk it had read: that has no embedding, which    *)
(* the vector store refuses, and no text, which the index accepts.          *)
Abort(e) ==
    LET half == StepOf(e) \in {"dropEs", "uncache", "token", "dropRows", "unmark", "commit"}
    IN  /\ es' = IF call[e].kind = "update" /\ StepOf(e) \in {"save", "vec", "es", "token"}
                 THEN With(es, [i \in call[e].ids |-> Blank]) ELSE es
        /\ stranded' = IF call[e].kind \in {"delete", "clear"} /\ half
                       THEN stranded \cup call[e].ids ELSE stranded
        /\ torn' = torn \cup call[e].ids
        /\ EndCall(e)
        /\ UNCHANGED <<rows, vec, cache, loading, pks, overlap, excused>>

(* A statement or a request raises. *)
Fail(e) ==
    /\ Active(e) /\ faults < MaxFaults
    /\ faults' = faults + 1
    /\ Abort(e)

(* innodb_lock_wait_timeout, or the deadlock detection *)
LockTimeoutNever(e) ==                                     \* mutant of LockTimeout
    /\ Active(e) /\ Blocked(e) /\ \A f \in Editors \ {e} : ~Active(f)
    /\ Abort(e)
    /\ UNCHANGED faults
LockTimeout(e) ==
    /\ Active(e) /\ Blocked(e)
    /\ Abort(e)
    /\ UNCHANGED faults

(* The process dies: MySQL rolls back, nobody touches the other stores; the *)
(* cache of the process is gone with it.                                    *)
Crash(p) ==
    /\ faults < MaxFaults
    /\ faults' = faults + 1
    /\ LET dead == {e \in Editors : ProcOf[e] = p /\ Active(e)} IN
       /\ dead # {}
       /\ torn' = torn \cup UNION {call[e].ids : e \in dead}
       /\ stranded' = stranded \cup UNION {call[e].ids : e \in {f \in dead : call[f].kind \in {"delete", "clear"}}}
       /\ writes' = [e \in Editors |-> IF e \in dead THEN <<>> ELSE writes[e]]
       /\ pc' = [e \in Editors |-> IF e \in dead THEN 0 ELSE pc[e]]
       /\ call' = [e \in Editors |-> IF e \in dead THEN NoCall ELSE call[e]]
    /\ cache' = [cache EXCEPT ![p] = {}]
    /\ loading' = [r \in Readers |-> IF ProcOf[r] = p THEN Idle ELSE loading[r]]
    /\ excused' = excused \ {p}
    /\ UNCHANGED <<rows, vec, es, pks, calls, overlap>>

-----------------------------------------------------------------------------
(* A search misses the cache: it reads the ids of the file from the vector  *)
(* store, then their rows, and puts the result into the cache.              *)
LoadIds(r) ==
    /\ loading[r] = Idle /\ cache[ProcOf[r]] = {}
    /\ loading' = [loading EXCEPT ![r] = [ids |-> DOMAIN vec]]
    /\ excused' = excused \cup {p \in {ProcOf[r]} : \E e \in Editors : Active(e)}
    /\ UNCHANGED <<rows, writes, vec, es, cache, call, pc, pks, calls, faults, stranded, torn, overlap>>

LoadRows(r) ==
    /\ loading[r] # Idle /\ "ids" \in DOMAIN loading[r]
    /\ loading' = [loading EXCEPT ![r] =
         [nodes |-> [i \in loading[r].ids \cap DOMAIN rows |-> rows[i].text]]]
    /\ UNCHANGED <<rows, writes, vec, es, cache, call, pc, pks, calls, faults, history>>

PutCache(r) ==
    /\ loading[r] # Idle /\ "nodes" \in DOMAIN loading[r]
    /\ cache' = [cache EXCEPT ![ProcOf[r]] = {loading[r].nodes}]
    /\ loading' = [loading EXCEPT ![r] = Idle]
    /\ UNCHANGED <<rows, writes, vec, es, call, pc, pks, calls, faults, history>>

-----------------------------------------------------------------------------
Statement(e) ==
    \/ PickId(e) \/ Fetch(e) \/ FetchContexts(e) \/ ShiftPositions(e) \/ SaveRow(e) \/ DropRow(e)
    \/ WriteRows(e) \/ UpdateTokens(e) \/ WriteStores(e) \/ Uncache(e) \/ Commit(e)

Search(r) == LoadIds(r) \/ LoadRows(r) \/ PutCache(r)

Next ==
    \/ \E e \in Editors :
         \/ \E k \in Kinds, i \in 0..2, t \in Texts \cup {NoText}, p \in 0..1 : Begin(e, k, i, t, p)
         \/ Statement(e) \/ Fail(e) \/ LockTimeout(e)
    \/ \E p \in Procs : Crash(p)
    \/ \E r \in Readers : Search(r)

(* Threads run, and a lock wait ends. *)
Fairness == \A e \in Editors : WF_vars(Statement(e) \/ LockTimeout(e))

Spec == Init /\ [][Next]_vars
FairSpec == Spec /\ Fairness

-----------------------------------------------------------------------------
ChunkRow == [text : Texts, pos : Int, order : Seq(Nat), ctx : BOOLEAN, token : Int, pk : Nat]
Call == [kind : {"none", "add", "update", "delete", "context", "clear"}, ids : SUBSET Ids,
         text : Texts \cup {NoText}, pos : Int, row : ChunkRow \cup {Gone}]

TypeOK ==
    /\ DOMAIN rows \subseteq Ids /\ DOMAIN vec \subseteq Ids /\ DOMAIN es \subseteq Ids
    /\ \A i \in DOMAIN rows : rows[i] \in ChunkRow
    /\ \A i \in DOMAIN vec : vec[i] \in Texts
    /\ \A i \in DOMAIN es : es[i] \in Texts \cup {Blank}
    /\ DOMAIN writes = Editors
    /\ \A e \in Editors : \A i \in DOMAIN writes[e] :
         i \in Ids /\ writes[e][i] \in ChunkRow \cup {Gone}
    /\ call \in [Editors -> Call] /\ DOMAIN pc = Editors
    /\ \A e \in Editors : IF pc[e] = 0 THEN call[e] = NoCall
                           ELSE pc[e] \in DOMAIN Program[call[e].kind]
    /\ pks \in Nat /\ stranded \subseteq Ids /\ torn \subseteq Ids

Touches(e, i) == Active(e) /\ i \in call[e].ids
Erasing(e, i) == Touches(e, i) /\ call[e].kind \in {"delete", "clear"}

(* A committed chunk can be found: it has its vector and its entry in the   *)
(* search index, whatever calls overlap, unless one that deletes it is      *)
(* being served or has failed half-way.                                     *)
RowIsFindable ==
    \A i \in DOMAIN rows \ stranded :
        i \in DOMAIN vec \cap DOMAIN es \/ \E e \in Editors : Erasing(e, i)

(* The three stores agree on the content of a chunk nobody is editing: the  *)
(* row lock held until the commit orders the writes to the stores that know *)
(* no lock.  Only a call that failed leaves them apart.                     *)
StoresAgree ==
    \A i \in DOMAIN rows \cap DOMAIN vec \cap DOMAIN es :
        i \in torn \/ (\E e \in Editors : Touches(e, i)) \/ (vec[i] = rows[i].text /\ es[i] = rows[i].text)

(* No two chunks of a file have the same position, in whatever order chunks *)
(* and contexts are added and removed and whichever calls fail, as long as  *)
(* calls for the file do not overlap.                                       *)
PositionsDistinct ==
    ~overlap => \A i, j \in DOMAIN rows : i # j => rows[i].pos # rows[j].pos

(* What a process has in its cache is what the file contains, unless one of *)
(* the things happened that the code does not guard against: the file was   *)
(* edited in another process, extended, or read while it was edited.        *)
CacheIsFresh ==
    \A p \in Procs \ excused : \A f \in cache[p] : \A i \in DOMAIN f :
        i \in DOMAIN rows /\ rows[i].text = f[i]

(* Every call ends: editors that wait for each other's rows do not wait     *)
(* forever.                                                                 *)
CallsEnd == \A e \in Editors : Active(e) ~> ~Active(e)
=============================================================================
