------------------------------ MODULE RagSearch ------------------------------
(***************************************************************************)
(* One search or chat request, from the request to its last byte, while a  *)
(* file it asks for is being deleted.                                      *)
(*                                                                         *)
(* The request reads the files it may use, recalls chunks and questions    *)
(* from the vector stores (similarity) and, in ultra mode, documents from  *)
(* Elasticsearch (relevance), reads the rows of what was recalled, fuses   *)
(* the lists, completes and reranks the nodes, and answers: with the nodes,*)
(* with the answer of a question that matches, or with what a language     *)
(* model says, in one piece or as a stream of events.                      *)
(*                                                                         *)
(* A similarity is a level, equal for equal contents; what completion      *)
(* makes of the nodes is Completion's subject: here it may absorb some.    *)
(***************************************************************************)
EXTENDS RagFilters, FiniteSets

CONSTANTS Corpus,          \* Seq of [file, kind, extra, group, words, pos]
          Files, Doomed,   \* the files asked for, the one that is deleted
          Requests,        \* the requests made
          Sims,            \* similarities of the contents to the query
          MatchScore,      \* MATCH_SCORE, a level
          RerankThreshold, \* RERANK_THRESHOLD, a level
          RetrievalNum, RerankNum, TopK,
          MaxItems         \* bound: items a model streams

Nodes == DOMAIN Corpus
ASSUME RagSearchAssumption ==
    /\ {MatchScore, RerankThreshold, RetrievalNum, RerankNum, TopK} \subseteq Nat \ {0}
    /\ MaxItems \in Nat /\ Doomed \in Files
    /\ Nodes = 1..Len(Corpus) /\ Len(Corpus) \in Nat
    /\ \A n \in Nodes : Corpus[n].kind \in Kinds /\ Corpus[n].pos \in Nat
    /\ \A s \in Sims : \A n \in Nodes : s[Corpus[n].words] \in Nat

VARIABLES req,        \* [mode, api, filter, backend]
          sim,        \* similarity of each content
          pc,
          files,      \* file_ids left by filter_deleted_files
          hits,       \* points the store returned, rows not read yet
          chunks, qas,\* entries of the two vector recalls
          nodes,      \* Seq of entries: the node list of the request
          reply,      \* how the request ended
          events,     \* events of the stream, oldest first
          said,       \* items of the model that were passed on
          erased,     \* steps of the deletion taken: 0..Len(EraseSteps)
          purged,     \* soft deleted questions were purged
          admitted    \* history: value of erased when the request was read

deletion == <<erased, purged>>
vars == <<req, sim, pc, files, hits, chunks, qas, nodes, reply, events, said,
          deletion, admitted>>

IsQa(n) == Corpus[n].kind = "qa"
Own(n) == sim[Corpus[n].words]
Uncut(s, k) == s                                            \* mutant of First
First(s, k) == SubSeq(s, 1, IF k < Len(s) THEN k ELSE Len(s))

(* A function on 1..n as the sequence of its values, each computed once.    *)
Listed(f) == SubSeq(f, 1, Cardinality(DOMAIN f))

(* The indices I, those of the highest key first, equal keys as they stand. *)
Order(I, key) ==
    LET Before(i) == {j \in I : key[j] > key[i] \/ (key[j] = key[i] /\ j <= i)}
        rank == Listed([i \in DOMAIN key |-> Cardinality(Before(i))])
    IN Listed([k \in 1..Cardinality(I) |-> CHOOSE i \in I : rank[i] = k])

At(list, indices) == Listed([k \in DOMAIN indices |-> list[indices[k]]])
Sorted(list, key) == At(list, Order(DOMAIN list, key))
InTurn(I, n) == Order(I, Listed([i \in 1..n |-> 0]))
Only(list, I) == At(list, InTurn(I, Len(list)))
Greatest(S) == CHOOSE x \in S : \A y \in S : x >= y
Scores(list) == Listed([i \in DOMAIN list |-> list[i].score])

-----------------------------------------------------------------------------
(* The deletion of Doomed, as the api and knowledge_file_delete do it, one  *)
(* store after the other.                                                   *)
EraseEarly == <<"tombstone", "rows", "chunk vectors", "untomb", "qa vectors", "es">>  \* mutant of EraseSteps
EraseSteps == <<"tombstone", "rows", "chunk vectors", "qa vectors", "es", "untomb">>
Did(step) == \E i \in 1..erased : EraseSteps[i] = step
Gone(n, step) == Corpus[n].file = Doomed /\ Did(step)
Tombstoned(f) == f = Doomed /\ Did("tombstone") /\ ~Did("untomb")

(* A row of a question is only marked deleted, which retrieval ignores, and *)
(* goes with the next run of the purge.                                     *)
HasRow(n) == IF IsQa(n) THEN ~(Corpus[n].file = Doomed /\ purged) ELSE ~Gone(n, "rows")
Points(index) == {n \in Nodes : IF index = "qa" THEN IsQa(n) /\ ~Gone(n, "qa vectors")
                                ELSE ~IsQa(n) /\ ~Gone(n, "chunk vectors")}

(* Only what happens before a read of the request makes a difference to it.  *)
Reading == pc \in {"read", "filter", "chunk", "chunk rows", "qa", "qa rows", "es", "fuse"}
Erase == /\ Reading /\ erased < Len(EraseSteps) /\ erased' = erased + 1
         /\ UNCHANGED <<req, sim, pc, files, hits, chunks, qas, nodes,
                        reply, events, said, purged, admitted>>
Purge == /\ Reading /\ Did("rows") /\ ~purged /\ purged' = TRUE
         /\ UNCHANGED <<req, sim, pc, files, hits, chunks, qas, nodes,
                        reply, events, said, erased, admitted>>

-----------------------------------------------------------------------------
Entry(n, s) == [node |-> n, score |-> s, sim |-> s, es |-> 0, pass |-> FALSE, filled |-> TRUE]

Init ==
    /\ req \in Requests /\ sim \in Sims /\ pc = "read"
    /\ files = {} /\ hits = <<>> /\ chunks = <<>> /\ qas = <<>> /\ nodes = <<>>
    /\ reply = "none" /\ events = <<>> /\ said = 0
    /\ erased = 0 /\ purged = FALSE /\ admitted = 0

Goto(stage) == pc' = stage /\ UNCHANGED <<reply, events, said>>
(* A stream was accepted before anything is done: an exception cuts it.     *)
Finish(how) == pc' = "end" /\ reply' = how
Fail(status) == Finish(IF req.api = "stream" THEN "cut" ELSE status) /\ UNCHANGED <<events, said>>
Keep == UNCHANGED <<req, sim, deletion>>

Valid == req.scope # {}

(* A file-api that cannot list a space lists no file.                       *)
Listing == IF "space" \in req.scope THEN {Files, {}} ELSE {Files}

Read ==
    /\ pc = "read" /\ admitted' = erased
    /\ IF Valid THEN files' \in Listing /\ Goto("filter")
                ELSE Finish("422") /\ UNCHANGED <<files, events, said>>
    /\ UNCHANGED <<hits, chunks, qas, nodes>> /\ Keep

FilterDeleted ==
    /\ pc = "filter" /\ files' = {f \in files : ~Tombstoned(f)}
    /\ Goto(IF files' = {} THEN "post" ELSE "build")
    /\ UNCHANGED <<hits, chunks, qas, nodes, admitted>> /\ Keep

User == FromDict(req.filter)
OwnFilters == Combined(req.mode, files)

(* create_retriever_by_mode                                                 *)
Build ==
    /\ pc = "build"
    /\ LET indexes == {"chunk", "qa"} \cup (IF req.mode = "ultra" THEN {"es"} ELSE {}) IN
       IF \E i \in indexes : Ambiguous(User, OwnFilters, i) THEN Fail("500") ELSE Goto("chunk")
    /\ UNCHANGED <<files, hits, chunks, qas, nodes, admitted>> /\ Keep

(* The vector store's answer: the most similar matching points.             *)
Search(index) ==
    LET match == {n \in Points(index) : VectorMatch(req.backend, Corpus[n], User, OwnFilters, index)}
    IN First(Order(match, Listed([n \in Nodes |-> Own(n)])), RetrievalNum)

(* The scores of the hits are handed to those that have a row, in order.    *)
ScoresFromEnd(found) ==                                    \* mutant of Scored
    LET kept == Only(found, {i \in DOMAIN found : HasRow(found[i])}) IN
    [i \in DOMAIN kept |-> Entry(kept[i], Own(found[Len(found) - Len(kept) + i]))]
Scored(found) ==
    LET kept == Only(found, {i \in DOMAIN found : HasRow(found[i])}) IN
    [i \in DOMAIN kept |-> Entry(kept[i], Own(found[i]))]

(* _build_node_list_from_query_result, with a cutoff of 0                   *)
Recalled(found) ==
    Only([i \in DOMAIN found |-> [found[i] EXCEPT !.pass = found[i].sim >= RerankThreshold]],
         {i \in DOMAIN found : found[i].sim > 0})

Query(index, stage) ==
    /\ pc = index
    /\ IF Refused(req.backend, User, OwnFilters, index)
         THEN Fail("422") /\ UNCHANGED hits
         ELSE hits' = Search(index) /\ Goto(stage)
    /\ UNCHANGED <<files, chunks, qas, nodes, admitted>> /\ Keep

QueryChunks == Query("chunk", "chunk rows")
QueryQas == Query("qa", "qa rows")

ReadChunkRows ==
    /\ pc = "chunk rows" /\ chunks' = Recalled(Scored(hits)) /\ hits' = <<>> /\ Goto("qa")
    /\ UNCHANGED <<files, qas, nodes, admitted>> /\ Keep

-----------------------------------------------------------------------------
(* SimilarQueryFusionRetriever: of equal contents the first counts, of the  *)
(* questions of a group the best, at the place of its first.                *)
GroupsBest(list) ==
    LET Words(i) == Corpus[list[i].node].words
        Rival(i, j) == \/ i = j
                       \/ /\ IsQa(list[i].node) /\ IsQa(list[j].node)
                          /\ Corpus[list[i].node].group = Corpus[list[j].node].group
        fresh == {i \in DOMAIN list : \A j \in 1..i-1 : Words(j) # Words(i)}
        Rivals(i) == {j \in fresh : Rival(i, j)}
        leaders == {i \in fresh : \A j \in Rivals(i) : i <= j}
        Best(i) == Order(Rivals(i), Scores(list))[1]
        turns == InTurn(leaders, Len(list))
    IN At(list, [k \in DOMAIN turns |-> Best(turns[k])])
SimilarFusion(list) ==
    LET best == GroupsBest(list) IN First(Sorted(best, Scores(best)), RetrievalNum)

(* unique_key: without its row a document has no content and no position.   *)
KindAndPlace(e) == <<Corpus[e.node].kind, Corpus[e.node].pos>>  \* mutant of UniqueKey
UniqueKey(e) ==
    IF ~e.filled THEN <<Corpus[e.node].kind, "", -911>>
    ELSE <<Corpus[e.node].kind, Corpus[e.node].words, IF IsQa(e.node) THEN 0 ELSE Corpus[e.node].pos>>

(* MultiRecallFusionRetriever: reciprocal ranks; the later object of a key  *)
(* replaces the earlier and takes over its scores.                          *)
Weight(rank) == 1000000000 \div (60 + rank - 1)
Inherit(one, last) ==
    [last EXCEPT !.score = one.score, !.sim = one.sim, !.es = one.es]
Same(all, i) == {j \in DOMAIN all : UniqueKey(all[j]) = UniqueKey(all[i])}
Shares(all, i, n) ==    \* what the first n entries of the lists add to the key of entry i
    LET sum[k \in 0..Len(all)] ==
            IF k = 0 THEN 0 ELSE sum[k-1] + (IF k \in Same(all, i)
                                             THEN Weight(IF k <= n THEN k ELSE k - n) ELSE 0)
    IN sum[Len(all)]
Fused(all, i) ==
    [Inherit(all[i], all[Greatest(Same(all, i))]) EXCEPT !.pass = \E j \in Same(all, i) : all[j].pass]
Ranked(v, es) ==
    LET all == v \o es
        firsts == {i \in DOMAIN all : \A j \in Same(all, i) : i <= j}
        ranks == Order(firsts, Listed([i \in DOMAIN all |-> Shares(all, i, Len(v))]))
    IN Listed([k \in DOMAIN ranks |-> Fused(all, ranks[k])])
RankFusion(vector, es) ==
    First(Ranked(Sorted(vector, Scores(vector)), Sorted(es, Scores(es))), RetrievalNum)

ReadQaRows ==
    /\ pc = "qa rows"
    /\ qas' = Recalled(Scored(hits)) /\ hits' = <<>> /\ Goto("similar")
    /\ UNCHANGED <<files, chunks, nodes, admitted>> /\ Keep

FuseSimilar ==
    /\ pc = "similar"
    /\ nodes' = SimilarFusion(chunks \o qas) /\ chunks' = <<>> /\ qas' = <<>>
    /\ IF req.mode = "ultra" THEN Goto("es") ELSE Goto("fuse")
    /\ UNCHANGED <<files, hits, admitted>> /\ Keep

(* ElasticsearchStore.query: any of the documents may share a word with the *)
(* query; those whose row is gone stay, empty.                              *)
QueryEs ==
    /\ pc = "es"
    /\ \E found \in SUBSET {n \in Nodes : ~Gone(n, "es") /\ EsMatch(Corpus[n], OwnFilters)} :
         hits' = First(InTurn(found, Len(Corpus)), RetrievalNum)
    /\ Goto("fuse")
    /\ UNCHANGED <<files, chunks, qas, nodes, admitted>> /\ Keep

EsEntry(n) == [node |-> n, score |-> 0, sim |-> 0, es |-> 1, pass |-> FALSE, filled |-> HasRow(n)]

Fuse ==
    /\ pc = "fuse"
    /\ nodes' = RankFusion(nodes, Listed([i \in DOMAIN hits |-> EsEntry(hits[i])]))
    /\ hits' = <<>> /\ Goto("post")
    /\ UNCHANGED <<files, chunks, qas, admitted>> /\ Keep

-----------------------------------------------------------------------------
(* CompletePostprocessor: questions stay, chunks may be absorbed by others, *)
(* a context may take the place of its best chunk.                          *)
Completions(list) ==
    LET structure == {i \in DOMAIN list : ~IsQa(list[i].node)} IN
    {Only(list, {i \in DOMAIN list : \A j \in gone : list[j].node # list[i].node}) :
        gone \in {g \in SUBSET structure : g = {} \/ g # structure}}

(* RerankPostprocessor: the top_k best, the chunks of a file together in    *)
(* the order of the file, files and questions by their best score.          *)
InFileOrder(list, score, top) ==
    LET File(i) == Corpus[list[i].node].file
        Mates(i) == {j \in DOMAIN list : /\ \E k \in DOMAIN top : top[k] = j
                                         /\ \/ j = i
                                            \/ /\ ~IsQa(list[i].node) /\ ~IsQa(list[j].node)
                                               /\ File(j) = File(i)}
        Pos(i) == IF list[i].filled THEN Corpus[list[i].node].pos ELSE -911
        inOrder == Sorted(top, Listed([k \in DOMAIN top |-> -Pos(top[k])]))
        best == Listed([k \in DOMAIN top |-> Greatest({score[j] : j \in Mates(inOrder[k])})])
    IN At(list, Sorted(inOrder, best))
ByBestOfFile(list, score) == InFileOrder(list, score, First(Order(DOMAIN list, score), TopK))

(* The first of the list gets the highest score, and so on down.            *)
Countdown(n) == [i \in 1..n |-> n - i]
Distinct(n) == {p \in [1..n -> 1..n] : \A i, j \in 1..n : p[i] = p[j] => i = j}

(* A node of any list passes for all; otherwise the model gives each        *)
(* document a score of its own, or the call fails.                          *)
Reranked(list) ==
    IF list = <<>> \/ \E i \in DOMAIN list : list[i].pass
      THEN {ByBestOfFile(Sorted(list, Scores(list)), Countdown(Len(list)))}
      ELSE LET cut == First(list, IF RerankNum > TopK THEN RerankNum ELSE TopK)
           IN {cut} \cup {ByBestOfFile(cut, p) : p \in Distinct(Len(cut))}

(* fast mode reranks first, since no one looks at the status of a plugin.   *)
Postprocessed(list) ==
    IF req.mode = "fast"
      THEN UNION {Completions(r) : r \in Reranked(list)}
      ELSE UNION {Reranked(c) : c \in Completions(list)}

Postprocess ==
    /\ pc = "post"
    /\ \E done \in Postprocessed(nodes) :
         /\ nodes' = First(done, TopK)                             \* ScorePostprocessor
         /\ IF req.api = "search" THEN Finish("200") /\ UNCHANGED <<events, said>>
            ELSE Goto("answer")
    /\ UNCHANGED <<files, hits, chunks, qas, admitted>> /\ Keep

-----------------------------------------------------------------------------
(* StandardAnswerGenerator                                                  *)
Matching == {i \in DOMAIN nodes : IsQa(nodes[i].node) /\ nodes[i].sim > MatchScore}

(* An item of the response; the nodes are sent with the first.              *)
Sent(event) == (IF events = <<>> THEN <<"retrieval.completed">> ELSE <<>>) \o <<event>>

AnswerDirectly ==
    /\ pc = "answer" /\ Matching # {}
    /\ nodes' = <<nodes[CHOOSE i \in Matching : \A j \in Matching : i <= j]>>
    /\ Finish("direct") /\ said' = 1
    /\ events' = IF req.api = "stream" THEN Sent("delta") \o <<"message.completed">> ELSE <<>>
    /\ UNCHANGED <<files, hits, chunks, qas, admitted>> /\ Keep

AnswerAtOnce ==
    /\ pc = "answer" /\ Matching = {} /\ req.api = "blocking"
    /\ \E how \in {"200", "api error", "500"} : Finish(how)
    /\ UNCHANGED <<events, said, files, hits, chunks, qas, nodes, admitted>> /\ Keep

Ask ==
    /\ pc = "answer" /\ Matching = {} /\ req.api = "stream"
    /\ Goto("stream")
    /\ UNCHANGED <<files, hits, chunks, qas, nodes, admitted>> /\ Keep

StreamItem ==
    /\ pc = "stream" /\ said < MaxItems
    /\ \E item \in {"delta", "sensitives"} : events' = events \o Sent(item)
    /\ said' = said + 1
    /\ UNCHANGED <<pc, reply, files, hits, chunks, qas, nodes, admitted>> /\ Keep

(* A model's error is the last item; any other exception cuts the stream.   *)
FinishError == events' = events \o Sent("error") \o <<"message.completed">>  \* mutant of StreamError
StreamError == events' = events \o Sent("error")
StreamEnd ==
    /\ pc = "stream"
    /\ \/ events' = Append(events, "message.completed") /\ Finish("200")
       \/ StreamError /\ Finish("api error")
       \/ UNCHANGED events /\ Finish("cut")
    /\ UNCHANGED <<said, files, hits, chunks, qas, nodes, admitted>> /\ Keep

RequestStep ==
    \/ Read \/ FilterDeleted \/ Build \/ QueryChunks \/ ReadChunkRows \/ QueryQas
    \/ ReadQaRows \/ FuseSimilar \/ QueryEs \/ Fuse \/ Postprocess
    \/ AnswerDirectly \/ AnswerAtOnce \/ Ask \/ StreamItem \/ StreamEnd
Next == RequestStep \/ Erase \/ Purge
Spec == Init /\ [][Next]_vars /\ WF_vars(RequestStep)
-----------------------------------------------------------------------------
Entries == [node : Nodes, score : Nat, sim : Nat, es : {0, 1}, pass : BOOLEAN, filled : BOOLEAN]
Passed == {chunks[i] : i \in DOMAIN chunks} \cup {qas[i] : i \in DOMAIN qas}
          \cup {nodes[i] : i \in DOMAIN nodes}

(* The request's lists, its answer and the deletion stay in their domains.  *)
TypeOK ==
    /\ req \in Requests /\ sim \in Sims /\ files \subseteq Files
    /\ pc \in {"read", "filter", "build", "chunk", "chunk rows", "qa", "qa rows", "similar", "es",
               "fuse", "post", "answer", "stream", "end"}
    /\ \A i \in DOMAIN hits : hits[i] \in Nodes
    /\ Passed \subseteq Entries /\ Len(nodes) <= RetrievalNum
    /\ reply \in {"none", "200", "direct", "api error", "cut", "422", "500"}
    /\ said \in 0..MaxItems+1
    /\ erased \in 0..Len(EraseSteps) /\ admitted \in 0..erased /\ purged \in BOOLEAN

(* Rows that vanish between a store's answer and the reading of the rows    *)
(* never lower a node's score: batch_set_node_contents drops the nodes, the *)
(* scores of query are handed out by place, and they are descending.        *)
NeverUnderrated == \A e \in Passed : e.sim = 0 \/ e.sim >= Own(e.node)

(* While nothing was deleted, a question answers in place of the model only *)
(* if its own similarity is above MATCH_SCORE, whatever lists it came       *)
(* through: fusion may hand a node the scores of another one.               *)
DirectAnswerEarned ==
    reply = "direct" /\ erased = 0 =>
        Len(nodes) = 1 /\ nodes[1].filled /\ Own(nodes[1].node) > MatchScore

(* A request that came after the deletion of a file was accepted never sees *)
(* a node of it, however far the deletion has got: the tombstone stays      *)
(* until the last store is clean.                                           *)
DeletedUnseen ==
    admitted > 0 =>
        /\ \A e \in Passed : Corpus[e.node].file # Doomed
        /\ \A i \in DOMAIN hits : Corpus[hits[i]].file # Doomed

(* A stream names the nodes once and before anything else, and nothing      *)
(* follows its error or its completion.                                     *)
StreamOrder ==
    \A i \in DOMAIN events :
        /\ events[i] = "retrieval.completed" <=> i = 1 /\ events # <<"message.completed">>
        /\ events[i] \in {"error", "message.completed"} => i = Len(events)

(* What is recalled passes the user's filter and the filters of the plugins,*)
(* contexts only where they are wanted (retrieval.py, plugins.py).          *)
FiltersHonoured ==
    \A i \in DOMAIN hits :
        /\ SatisfiesGroup(Corpus[hits[i]], [User EXCEPT !.leaves = Clean(User.leaves, "qa")])
        /\ \A l \in OwnFilters : Satisfies(Corpus[hits[i]], l)
=============================================================================
