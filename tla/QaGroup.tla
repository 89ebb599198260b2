------------------------------- MODULE QaGroup -------------------------------
(***************************************************************************)
(* The question-answer groups of one source: adding, deleting and covering *)
(* a group, indexing a QA file of the source, and the nightly purge of     *)
(* rows that are marked as deleted.                                        *)
(*                                                                         *)
(* A call is a READ COMMITTED transaction of MySQL that writes the vector  *)
(* store and the search index before it commits; indexing commits its rows *)
(* first.  A deletion only marks the rows.                                 *)
(***************************************************************************)
EXTENDS Integers, Sequences, FiniteSets, FiniteSetsExt, TLC

CONSTANTS Callers,     \* threads that serve a call
          Groups,      \* group ids
          FileGroup,   \* stands for those of a QA file of the source
          Questions,   \* questions of a group
          Batch,       \* rows a purge deletes at a time
          Kinds,       \* the calls made: some of those of Program
          MaxCalls,    \* bound: calls
          MaxFaults    \* bound: statements and requests that raise, and crashes

ASSUME QaGroupAssumption ==
    /\ FileGroup \in Groups
    /\ {Questions, Batch} \subseteq Nat \ {0} /\ {MaxCalls, MaxFaults} \subseteq Nat
    /\ Kinds \subseteq {"add", "delete", "cover", "index"}

VARIABLES rows,      \* committed rows: id -> [group, no, live]
          writes,    \* [Callers -> id -> row], the open transactions
          vec,       \* vector store: id -> group
          es,        \* ids in the search index
          next,      \* AUTO_INCREMENT
          call, pc,  \* [Callers -> the call served], [Callers -> Nat], its step
          batch,     \* ids the purge is about to delete
          calls, faults,
          stranded,  \* history: groups of which a call failed half-way
          overlap,   \* history: groups on which calls overlapped
          bare       \* history: groups where no row was there to be locked

vars == <<rows, writes, vec, es, next, call, pc, batch, calls, faults, stranded, overlap, bare>>
stores == <<rows, vec, es, next, batch>>
history == <<stranded, overlap, bare>>

NoCall == [kind |-> "none", group |-> FileGroup, no |-> 0, listed |-> {}, sample |-> {}, new |-> {}]

AddProgram == <<"insert", "vec", "es", "commit">>
DeleteProgramVecFirst ==                                   \* mutant of DeleteProgram
    <<"list", "dropVec", "softDelete", "dropEs">>
DeleteProgramListLast ==                                   \* mutant of DeleteProgram
    <<"softDelete", "list", "dropVec", "dropEs">>
DeleteProgram == <<"list", "softDelete", "dropVec", "dropEs">>
Program == [add    |-> AddProgram,
            delete |-> DeleteProgram \o <<"commit">>,
            cover  |-> DeleteProgram \o AddProgram,
            index  |-> <<"softDelete", "insert", "readIds", "commit", "check", "vec", "es", "end">>]

Active(c) == pc[c] # 0
StepOf(c) == IF Active(c) THEN Program[call[c].kind][pc[c]] ELSE "none"
With(f, g) == [x \in DOMAIN f \cup DOMAIN g |-> IF x \in DOMAIN g THEN g[x] ELSE f[x]]

(* What a statement of c sees: its own writes, otherwise what is committed. *)
View(c) == With(rows, writes[c])
Locked(c, S) == \E d \in Callers \ {c} : S \cap DOMAIN writes[d] # {}

(* A QA file replaces everything of the source, a call of the API a group.  *)
Affects(k, g) == IF k.kind = "index" THEN TRUE ELSE k.group = g
Touches(c, g) == Active(c) /\ Affects(call[c], g)

Live(f, g) == {i \in DOMAIN f : f[i].group = g /\ f[i].live}
VectorsOf(g) == {i \in DOMAIN vec : vec[i] = g}

Init ==
    \E stored \in SUBSET Groups :
    LET ids(g) == IF g = FileGroup THEN 1..Questions ELSE Questions + 1..2 * Questions IN
    /\ Cardinality(stored \ {FileGroup}) <= 1
    /\ rows = [i \in UNION {ids(g) : g \in stored} |->
                 [group |-> CHOOSE g \in stored : i \in ids(g), no |-> 0, live |-> TRUE]]
    /\ vec = [i \in DOMAIN rows |-> rows[i].group] /\ es = DOMAIN rows
    /\ writes = [c \in Callers |-> <<>>]
    /\ next = 2 * Questions + 1 /\ batch = {}
    /\ call = [c \in Callers |-> NoCall] /\ pc = [c \in Callers |-> 0]
    /\ calls = 0 /\ faults = 0
    /\ stranded = {} /\ overlap = {} /\ bare = {}

-----------------------------------------------------------------------------
Advance(c) == pc' = [pc EXCEPT ![c] = @ + 1]
EndCall(c) ==
    /\ writes' = [writes EXCEPT ![c] = <<>>]
    /\ pc' = [pc EXCEPT ![c] = 0] /\ call' = [call EXCEPT ![c] = NoCall]

(* add_qa_group makes up a new group id, the others are given one. *)
Begin(c, k, g) ==
    /\ ~Active(c) /\ calls < MaxCalls /\ k \in Kinds
    /\ k = "index" <=> g = FileGroup
    /\ k = "add" => /\ VectorsOf(g) = {} /\ g \notin stranded
                    /\ \A i \in DOMAIN rows : rows[i].group # g
                    /\ \A d \in Callers : Active(d) => call[d].group # g
    /\ calls' = calls + 1
    /\ call' = [call EXCEPT ![c] = [NoCall EXCEPT !.kind = k, !.group = g, !.no = calls + 1]]
    /\ pc' = [pc EXCEPT ![c] = 1]
    /\ overlap' = overlap \cup {h \in Groups : /\ Affects(call'[c], h)
                                               /\ \E d \in Callers : Touches(d, h)}
    /\ UNCHANGED <<stores, writes, faults, stranded, bare>>

(* A node of the group from the vector store, and the ids of its live rows. *)
List(c) ==
    /\ StepOf(c) = "list"
    /\ \E s \in SUBSET VectorsOf(call[c].group) :
         /\ Cardinality(s) = IF VectorsOf(call[c].group) = {} THEN 0 ELSE 1
         /\ call' = [call EXCEPT ![c].sample = s \cap DOMAIN rows,
                                 ![c].listed = Live(View(c), call[c].group)]
    /\ Advance(c)
    /\ UNCHANGED <<stores, writes, calls, faults, history>>

(* update(del_status=1) of the group, or of the source: it locks the rows   *)
(* it matches and waits for those that another call has locked.             *)
MatchListed(c) == call[c].listed                           \* mutant of Match
Match(c) == {i \in DOMAIN View(c) : Affects(call[c], View(c)[i].group)}
Blocked(c) ==
    /\ StepOf(c) = "softDelete"
    /\ \E d \in Callers \ {c} : \E i \in DOMAIN writes[d] :
         Affects(call[c], writes[d][i].group)
SoftDelete(c) ==
    /\ StepOf(c) = "softDelete" /\ ~Blocked(c)
    /\ writes' = [writes EXCEPT ![c] =
         With(@, [i \in Match(c) |-> [View(c)[i] EXCEPT !.live = FALSE]])]
    /\ bare' = bare \cup {g \in Groups : /\ Affects(call[c], g)
                                         /\ \A i \in Match(c) : View(c)[i].group # g
                                         /\ \E d \in Callers \ {c} : Touches(d, g)}
    /\ Advance(c)
    /\ UNCHANGED <<stores, call, calls, faults, stranded, overlap>>

InsertedAll(S) == Cardinality(S) >= Questions

(* The rows are saved one by one; an indexing inserts them in one statement. *)
Insert(c) ==
    /\ StepOf(c) = "insert"
    /\ LET n == IF call[c].kind = "index" THEN Questions ELSE 1
           ids == next..next + n - 1
       IN  /\ writes' = [writes EXCEPT ![c] =
                With(@, [i \in ids |-> [group |-> call[c].group, no |-> call[c].no, live |-> TRUE]])]
           /\ next' = next + n
           /\ call' = [call EXCEPT ![c].new = @ \cup ids]
           /\ IF InsertedAll(call[c].new \cup ids) THEN Advance(c) ELSE UNCHANGED pc
    /\ UNCHANGED <<rows, vec, es, batch, calls, faults, history>>

(* The ids an indexing gives its nodes: those of all rows of the source,    *)
(* the deleted ones included.                                               *)
ReadIds(c) ==
    /\ StepOf(c) = "readIds"
    /\ call' = [call EXCEPT ![c].listed = DOMAIN View(c)]
    /\ Advance(c)
    /\ UNCHANGED <<stores, writes, calls, faults, history>>

(* build_recall_index: as many ids as nodes, else the indexing fails with   *)
(* its rows committed and no vectors.                                       *)
CheckIds(c) ==
    /\ StepOf(c) = "check"
    /\ IF Cardinality(call[c].listed) = Questions
       THEN Advance(c) /\ UNCHANGED <<call, writes, stranded>>
       ELSE EndCall(c) /\ stranded' = Groups
    /\ UNCHANGED <<stores, calls, faults, overlap, bare>>

WriteStores(c) ==
    /\ LET ids == IF call[c].kind = "index" THEN call[c].listed ELSE call[c].new IN
       \/ StepOf(c) = "vec" /\ vec' = With(vec, [i \in ids |-> call[c].group]) /\ UNCHANGED es
       \/ StepOf(c) = "es" /\ es' = es \cup ids /\ UNCHANGED vec
       \/ /\ StepOf(c) = "dropVec" /\ UNCHANGED es
          /\ vec' = [i \in DOMAIN vec \ VectorsOf(call[c].group) |-> vec[i]]
       \/ StepOf(c) = "dropEs" /\ es' = es \ call[c].listed /\ UNCHANGED vec
    /\ Advance(c)
    /\ UNCHANGED <<rows, writes, next, call, batch, calls, faults, history>>

Commit(c) ==
    /\ StepOf(c) = "commit"
    /\ rows' = View(c)
    /\ IF call[c].kind = "index"
       THEN /\ writes' = [writes EXCEPT ![c] = <<>>]
            /\ Advance(c) /\ UNCHANGED call
       ELSE EndCall(c)
    /\ UNCHANGED <<vec, es, next, batch, calls, faults, history>>

EndIndex(c) ==
    /\ StepOf(c) = "end"
    /\ EndCall(c)
    /\ UNCHANGED <<stores, calls, faults, history>>

-----------------------------------------------------------------------------
(* A store may hold what the rows no longer say once the first store write  *)
(* has succeeded, and an indexing once its rows are committed.              *)
Half(c) ==
    LET done == {Program[call[c].kind][n] : n \in 1..pc[c] - 1}
    IN  done \cap {"vec", "dropVec"} # {} \/ (call[c].kind = "index" /\ "commit" \in done)

(* The rollback by hand does not undo anything: the ids of new rows match   *)
(* no document id, and the vector store refuses the nodes without embedding *)
(* that a deletion has kept.  The search index takes the one kept node.     *)
Undo(c) == IF StepOf(c) \in {"dropVec", "dropEs"} THEN call[c].sample ELSE {}
Abort(c) ==
    /\ es' = es \cup Undo(c)
    /\ stranded' = IF Half(c) \/ Undo(c) # {}
                   THEN stranded \cup {g \in Groups : Affects(call[c], g)} ELSE stranded
    /\ EndCall(c)
    /\ UNCHANGED <<rows, vec, next, batch, calls, overlap, bare>>

(* A statement or a request raises. *)
Fail(c) ==
    /\ Active(c) /\ faults < MaxFaults
    /\ faults' = faults + 1
    /\ Abort(c)

(* innodb_lock_wait_timeout, or the deadlock detection *)
LockTimeout(c) == Blocked(c) /\ Abort(c) /\ UNCHANGED faults

(* The process dies: MySQL rolls back, nobody touches the other stores. *)
Crash(c) ==
    /\ Active(c) /\ faults < MaxFaults
    /\ faults' = faults + 1
    /\ stranded' = IF Half(c) THEN stranded \cup {g \in Groups : Affects(call[c], g)} ELSE stranded
    /\ EndCall(c)
    /\ UNCHANGED <<stores, calls, overlap, bare>>

-----------------------------------------------------------------------------
(* clear_deleted_qas_task: batches of rows marked as deleted, until there   *)
(* are none.  It waits for locked rows like everybody.                      *)
Purgeable == {i \in DOMAIN rows : ~rows[i].live}
DueFull == Cardinality(Purgeable) > Batch                  \* mutant of Due
Due == Purgeable # {}
SelectBatch ==
    /\ batch = {} /\ Due
    /\ \E S \in SUBSET Purgeable :
         /\ Cardinality(S) = Min({Batch, Cardinality(Purgeable)})
         /\ batch' = S
    /\ UNCHANGED <<rows, writes, vec, es, next, call, pc, calls, faults, history>>
DeleteBatch ==
    /\ batch # {} /\ \A c \in Callers : batch \cap DOMAIN writes[c] = {}
    /\ rows' = [i \in DOMAIN rows \ batch |-> rows[i]]
    /\ batch' = {}
    /\ UNCHANGED <<writes, vec, es, next, call, pc, calls, faults, history>>

-----------------------------------------------------------------------------
Statement(c) ==
    \/ List(c) \/ SoftDelete(c) \/ Insert(c) \/ ReadIds(c) \/ CheckIds(c)
    \/ WriteStores(c) \/ Commit(c) \/ EndIndex(c)
Purge == SelectBatch \/ DeleteBatch

Next ==
    \/ \E c \in Callers :
         \/ \E k \in Kinds, g \in Groups : Begin(c, k, g)
         \/ Statement(c) \/ Fail(c) \/ LockTimeout(c) \/ Crash(c)
    \/ Purge

(* Threads run, a lock wait ends, and the purge is called every night. *)
Fairness == /\ \A c \in Callers : WF_vars(Statement(c) \/ LockTimeout(c))
            /\ WF_vars(Purge)

Spec == Init /\ [][Next]_vars
FairSpec == Spec /\ Fairness

-----------------------------------------------------------------------------
Row == [group : Groups, no : Nat, live : BOOLEAN]
Call == [kind : {"none", "add", "delete", "cover", "index"}, group : Groups, no : Nat,
         listed : SUBSET Nat, sample : SUBSET Nat, new : SUBSET Nat]

TypeOK ==
    /\ next \in Nat /\ calls \in Nat /\ faults \in Nat
    /\ \A i \in DOMAIN rows : i \in Nat /\ i < next /\ rows[i] \in Row
    /\ DOMAIN writes = Callers
    /\ \A c \in Callers : \A i \in DOMAIN writes[c] :
         i \in Nat /\ i < next /\ writes[c][i] \in Row
    /\ \A i \in DOMAIN vec : i \in Nat /\ vec[i] \in Groups
    /\ es \in SUBSET Nat /\ batch \in SUBSET Nat
    /\ call \in [Callers -> Call] /\ pc \in [Callers -> 0..8]
    /\ \A c \in Callers : pc[c] = 0 <=> call[c].kind = "none"
    /\ stranded \in SUBSET Groups /\ overlap \in SUBSET Groups /\ bare \in SUBSET Groups

Quiet(g) == g \notin stranded /\ \A c \in Callers : ~Touches(c, g)

(* The vectors of a group are those of its live rows once no call is at     *)
(* work on it, in whatever order calls for the group overlap (the locks on  *)
(* its rows keep them apart) and whatever is purged meanwhile.  Exceptions: *)
(* a call failed half-way, or there was no row that could have been locked. *)
VectorsMatchRows ==
    \A g \in Groups \ bare : Quiet(g) => VectorsOf(g) = Live(rows, g)

(* So are the entries of the search index, but only without overlap: a call *)
(* lists the ids it removes there before it has locked the rows.            *)
EsMatchesRows ==
    \A g \in Groups \ overlap : Quiet(g) =>
        Live(rows, g) = {i \in es : i \in DOMAIN rows /\ rows[i].group = g}

(* The live rows of a group come from one call: a cover that waited for     *)
(* another one replaces also the rows that one has added meanwhile.         *)
OneVersion ==
    \A g \in Groups \ bare : \A i, j \in Live(rows, g) : rows[i].no = rows[j].no

(* A row that was marked as deleted disappears in the end, whatever calls   *)
(* lock it meanwhile.                                                       *)
DeletedIsPurged == \A i \in 1..2 * Questions : (i \in Purgeable) ~> (i \notin DOMAIN rows)
=============================================================================
