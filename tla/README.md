# TLA+ models of bella-rag

bella-rag is a Django service for retrieval-augmented generation. Files accepted by an external file
service are parsed, indexed into MySQL, a vector store and Elasticsearch, summarised, edited chunk by
chunk and finally deleted; questions are answered by retrieving and fusing chunks and asking a model,
in one step or by a planning agent ("deep rag"). This directory models the parts of it in which state,
concurrency and failure meet, checks the models with TLC and proves some of the results with TLAPS.

All paths below are relative to `src/`.

## The parts of the system

| Part | Code | State | Operations | Talks to |
|---|---|---|---|---|
| Kafka consumption and retry | `common/tool/kafka_tool.py`, `app/workers/listeners/`, `app/workers/__init__.py` | offset of the group, pool of callback threads, `reconsume_times` in the message | poll, run callback, commit, retry, give up, stop | broker, task handlers |
| File task handlers | `app/workers/handlers/`, `app/services/file_service.py`, `app/postprocessors/` | Redis locks and success flags, the set `rag:deleted_file_ids`, rows, vectors, documents | index, summarise, summarise contexts, delete | Kafka producers, Redis, MySQL, vector stores, Elasticsearch, file service |
| Node cache | `bella_rag/utils/cache_util.py` | ordered dictionary of files, `node_count` | get, put, remove | relation rebuild, chunk editing, deletion |
| Chunk editing | `app/services/chunk_service.py`, `app/services/context_service.py` | rows, vectors, documents, positions, token counts | add, update, delete a chunk; save and clear contexts | MySQL transaction, stores, node cache |
| Question-answer groups | `app/services/qa_service.py`, `app/tasks/data_clear_task.py` | rows, vectors and documents of a group | add, delete, cover, index a QA file, purge | MySQL, question vector store, Elasticsearch |
| Context and summary extraction | `bella_rag/transformations/extractor/` | contexts of the file | split, merge, summarise, save | relation rebuild, stores, model |
| Relation rebuild and completion | `bella_rag/utils/schema_util.py`, `bella_rag/utils/complete_util.py` | none of its own; fills the node cache | restore the relations of nodes, grow hits into texts | node cache, vector store |
| Retrieval, fusion, rerank | `bella_rag/retrievals/`, `app/strategy/retrieval.py`, `app/plugin/`, `bella_rag/postprocessor/node.py` | none | filter, recall, fuse, complete, rank | stores, completion |
| Runners | `app/runner/rag_runner.py`, `deep_rag/pipline/` | plan, steps, stream of events | plan, execute, revise, answer, heartbeat | retrieval, model |
| Rate limiter | `common/middleware/rate_limit.py` | requests per key and window | admit or refuse | Redis |
| Progress callbacks | `app/callback/callback_handler.py`, `app/handler/` | nesting of traced steps | report progress and failure | file service |
| Adapters, index factory, parsers, model access, HTTP layer, configuration | `bella_rag/vector_stores/`, `bella_rag/transformations/`, `bella_rag/llm/`, `app/controllers/`, `init/` | none that actors share | translate | remote services |

How they interact: the file service announces events on the file-api topic. The file-api handler sends
index, summary and delete messages to topics of their own; an indexing that ends announces that on the
index-done topic, which two consumer groups read (summary extraction and context summary). All
handlers share MySQL, the stores and Redis, keyed by the file id, and are kept apart only by Redis
locks and success flags. Every gunicorn worker process runs one consumer per listener and has a node
cache of its own. HTTP requests reach the same services from request threads, without those locks; what
keeps two edits apart is the row lock of their MySQL transactions.

What is hard about it, and what correctness means:

* Consumption: crash between the retry and the commit, asynchronous commits, callbacks that outlive
  their timeout, several groups on one topic. *No task is lost, retries are bounded, a group gives a
  task up only after enough attempts, every task is eventually settled.*
* File tasks: overlapping handlers with different locks, redelivery, a handler that fails between two
  stores. *One builder at a time, a flag tells the truth, a deleted file is hidden or gone, a deletion
  completes.*
* Node cache: no lock, several threads, a counter separate from the dictionary. *The counter is the
  number of nodes, the capacity is kept, the policy is LRU.*
* Chunks and groups: identifiers chosen by maximum plus one, stores written inside a transaction that
  does not cover them, rollback by hand, fills of the cache that race invalidations. *Row, vector and
  document agree unless a call failed half-way; positions are distinct; calls end.*
* Contexts, relations, completion: algorithms over a document of which the index keeps only part.
  *Every relation comes back, every chunk is told by a context, every text reads like the document,
  shows a node once and is cut only if it cannot fit.*
* Search: several stores read one after the other while a file is deleted from them. *A score belongs to
  its node, a direct answer is earned, what was deleted before the request is not seen, a stream has its
  parts in order.*
* Deep rag: two threads share a list; a model revises the plan it executes. *Nothing is cut off or
  garbled, no step is left when the answer is drawn, results survive, every request ends.*

`PROJECT.json` lists every hazard at its line with the properties that guard it.

## The modules

| Module | What it is | Properties, in brief |
|---|---|---|
| `TaskDelivery` | abstract: publishing a task means every group that can retry settles it | |
| `TaskConsumer` | the consumer loop, callback pool and broker; refines `TaskDelivery` | no task lost, retries in a chain |
| `FileLifecycle` | one file, its events, tasks, locks, flags and stores | one builder, hidden or erased |
| `LRUCache` | abstract: a least-recently-used cache of files | |
| `NodeLRUCache` | the cache class at the grain of dictionary operations; refines `LRUCache` | counter exact |
| `ChunkEditing` | the chunk API and the saving of contexts, statement by statement, and the caches of the processes | findable, stores agree, fresh |
| `QaGroup` | question-answer groups, indexing of QA files, purge | vectors and documents match rows |
| `RagFilters` | which store a search uses and which entries match its filter | |
| `RagSearch` (extends `RagFilters`) | one search or chat request next to the deletion of a file | scores, answers, order of the stream |
| `DeepRag` | one deep rag request: pipeline, plan, event stream, heartbeats | nothing cut off, results kept |
| `RelationRebuild` | documents, what the index keeps of their relations, and the walks that link nodes again | |
| `Completion` (extends `RelationRebuild`) | hits grow into texts | texts read like the document |
| `ContextGroups` (extends `Completion`) | the context task: grouping, merging, saving, dying, and searches after it | every chunk is told |
| `TaskConsumerProofs`, `FileLifecycleProofs`, `NodeLRUCacheProofs`, `ChunkEditingProofs`, `QaGroupProofs`, `DeepRagProofs`, `RagSearchProofs`, `CompletionProofs` (of `ContextGroups` and what it extends) | the theorems and proofs of those modules | |
| `MC...` | constants, documents and symmetry for TLC | |

Definitions whose comment says "mutant of X" are plausible mistakes in X. They are not part of any
specification; substituting one for X must make TLC report the property that `PROJECT.json` pairs with it.

### TaskConsumer

State and code: `log` is the topic's partition, a sequence of copies (task, `reconsume_times`); offsets
are its indices. Per group, `pc` is the place in `consume_messages` (`poll`, `wait` for the callback,
`commit` after success, `failed`, `commitRetry`, `down`), `cur` the message in hand, `running` the
threads of `callback_executor` in use, `result` what the awaited future holds, `closed` the flag of
`stop()`. `commit(msg)` of the client is asynchronous, so `stored` is what it was called with and
`committed` what the broker has acknowledged; only the latter survives the process. `delivered`, `runs`,
`done` and `gaveUp` are history variables.

Actions: `Publish` (a producer of the application), `Poll`, `StartCallback`, `FinishCallback`,
`TakeResult`, `TimeoutCallback` (base.py `run_callback`), `CommitDone`, `GiveUp`, `Resend`, `CommitRetry`
(the tail of the loop), `FlushCommit` (broker), `Stop`, `LeaveLoop`, `Crash`, `Restart`. A commit on a
closed consumer raises; after a success this happens inside the inner `try`, which turns the success
into a failure, otherwise it ends the loop. `Resend` has the outcomes of the code: sent; not sent
without notice (no producer, or `sync_send_message` returned False, which nobody looks at); raised.

Left out: several partitions and rebalancing between live consumers of a group (partitions are
independent, and a group's consumers own disjoint ones), messages that carry a broker error (logged
only), the retry interval (a sleep), messages that are not JSON.

Properties: `NothingLost` and `RetryChain` (of groups with a producer), `GivenUpAfterMax`,
`CommitBehindLoop`, `CommitMonotone`, and the refinement `ImplementsDelivery` (of those groups).

Fairness (`Fairness`): the loop goes on, the pool starts queued callbacks, a wait ends by the timeout,
the broker acknowledges, and a loop that ended is replaced. The last is justified by
`gunicorn.conf.py`: there are at least two worker processes, each of which starts a consumer of every group in
`AppConfig.ready`, so the partition goes to another one, and a dead process is respawned. No fairness is
assumed of callbacks that nobody waits for, of failures or of `Publish`.

### FileLifecycle

A handler is a program: the sequence of its remote effects in the order of the code (`IndexTask`,
`DeleteTask`, ...). A worker is a thread of any process that runs one program at a time; `pc` is its
step. `lock` holds the Redis locks by name, `flags` the success flags, `data` the stores that have
content of the file, `tombstone` whether the file is in `rag:deleted_file_ids`. Everything is keyed by
the file id, therefore one file is modelled.

`FailTask` is an exception in any step, `Timeout` the retry of a task whose callback goes on, `Crash` the
death of a process, whose lock stays (`Dead`) until `ExpireLock`. `custom_exception_handler` is modelled
by what it does: an exception in `file_indexing` becomes a normal return (the program continues at
"flag"), unless reporting it raises too. Deliveries are a multiset per topic (`queue`): the order among
them and the bound on retries are the business of `TaskConsumer`.

Left out: black lists, ak codes, size and type checks (they end a handler before any effect), renaming,
the QA variant of a file (see `QaGroup`), the `file.created` event (reports a status).
The expiry of a success flag after a day is not modelled. The lock's holder is assumed to renew it.

Properties: `OneBuilder`, `IndexedIsFinal`, `FlagMeansIndexed`, `HiddenOrErased`, `VectorHasRow`,
and `DeletionCompletes`. Fairness: threads run, a waiting delivery is taken by some
worker, the lock of a dead process expires (`redis_lock` with `expire=180`; the renewal thread died with
its process).

### NodeLRUCache

`order` is the key order of the `OrderedDict`, `nodes` the union of its values, `node_count` the counter.
A step is one dictionary operation or one half of `node_count += ...`: the interpreter may switch
threads between them. `get`, `put` and `remove` are called from retrieval threads
(`schema_util.restore_relationships`), request threads and callback threads. `put` assumes, as its
callers ensure, that the nodes of a file have distinct ids. `overlapped` is a history variable: two calls that change
the cache have overlapped.

Properties: `CountExact` and `OnlyGetRaises` under `~overlapped` (gets may overlap anything), and
`ImplementsLRU` for a single thread. Without the condition the counter drifts: two puts of the same file
that overlap subtract its old nodes twice, the counter falls below the number of nodes, and the cache
keeps more than its capacity. The condition is therefore part of the properties, and it is what the
callers would have to guarantee.

### ChunkEditing

A call is a program, the sequence of its statements and requests in the order of `chunk_service.py` and
`context_service.py` (`AddChunk`, `UpdateChunk`, `DeleteChunk`, `SaveContext`, `ClearContexts`). A call is
one MySQL transaction (`@transaction.atomic`, READ COMMITTED): `writes` is what it has written and not
committed, a row in there is locked for the others until the end, `View` is what its statements see. A
statement that needs a locked row waits, and raises when the wait times out or a deadlock is found
(`LockTimeout`). The vector store (`vec`) and the search index (`es`) are outside of the transaction and
are written at once. `Abort` is an exception: the rollback by hand as it really works (`add_chunk` deletes
by document id and hits nothing; `update_chunk` puts back the chunk it had read, which the vector store
refuses because it has no embedding and the index takes without text), then the rollback of the
transaction. `cache` is the node cache of every process, filled by searches in three steps (`LoadIds`,
`LoadRows`, `PutCache`) and emptied by `Uncache` in the process of the call only.

Assumptions: `update_or_create` of one chunk is one step (two inserts of one id at the same moment are not
told apart); a store request that raises had no effect. The state starts with an indexed file of two
chunks, one below the other, with or without the context that was extracted for them.

Properties: `RowIsFindable`, `StoresAgree`, `PositionsDistinct`, `CacheIsFresh` and, under fairness,
`CallsEnd`. Their exceptions are history variables, set where the code does not guard: `stranded` (a
deletion failed half-way), `torn` (a call failed), `overlap`, and `excused` (a process whose cache nobody
empties: an edit in another process, a chunk added, a fill that overlaps a call).

Fairness: every editor's thread runs, and a lock wait ends (`innodb_lock_wait_timeout`).

### QaGroup

The same grain for `qa_service.py`. The `FileGroup` stands for the rows of a QA file, which indexing
(`coverage_data`, `build_recall_index`) replaces together with everything else of the source. Deleting
marks rows (`live`); `SelectBatch` and `DeleteBatch` are the nightly purge. The rollback by hand undoes
nothing that matters (`Undo`). `ReadIds` and `CheckIds` take the code at its word: the ids of all rows of
the source are read, marked ones included, and if they are not as many as the nodes the indexing fails
with its rows committed.

Properties: `VectorsMatchRows`, `EsMatchesRows`, `OneVersion`, `DeletedIsPurged`, with the history variables
`stranded` (a call failed half-way), `overlap`, `bare` (two calls touched a group that had no row to lock:
nothing keeps them apart). Fairness: callers as above, and the purge runs every night.

### DeepRag

`pc` is the stage of the pipeline (`plan`, `parse`, `task`, `tool`, `replan`, `conclude`, `end`), `plan` the
steps with their status and the turn that gave their result, `events` what the pipeline has yielded. In a
streaming request its thread (`alive`) appends two lines per event to `main_items` (`lines`), and the
serving thread reads them at `idx`; its loop condition is evaluated in two steps, as `LoopTest` says, between
which the other thread may run. Time is counted in ticks and passes only while a model or tool works. The
client may leave at any time. What a model answers is any choice: the number of steps, the tasks of a turn
(an order that is not in the plan is 0), the new status of each step, the pieces of the conclusion.

Assumptions: an event is always two lines, appended one by one (`AppendLine`), and the pipeline goes on when
both are in the list, as a generator does; the serving thread yields what it finds, line by line.

Properties: `NothingCutOff`, `FramesIntact`, `EventOrder`, `NoStepLeft`, `ResultsKept`, `RunEnds`. Fairness:
the pipeline goes on (model calls have timeouts), the thread appends and ends, the serving thread runs.

### RagFilters and RagSearch

`RagFilters` is the translation of a filter by each store: `QdrantMatch` ignores nested groups and unknown
operators as the code does, `TencentMatch` honours groups and the store refuses operators it does not know
(`Refused`), `EsMatch` takes every leaf for a term and ignores groups. `RagSearch` is one request:
`filter_deleted_files`, the recalls of chunks and questions and (ultra) of documents, the reading of rows,
fusion, completion (a choice of what it absorbs), rerank, and the answer: nodes, the answer of a question
that matches, or the model's, in one piece or as a stream. A node entry carries the score the code gives it
and, as history, whose it is. Meanwhile `Erase` empties the stores of one file in the order of
`file_service.delete`; its steps are taken between two reads of the request.

Properties: `NeverUnderrated`, `DirectAnswerEarned`, `DeletedUnseen`, `StreamOrder`, and `FiltersHonoured`,
which the code violates. A list is ordered by ranks: the place of an index is the number of those that come before
it (`Order`), equal keys as they stand, as Python's stable `sorted` leaves them; the sum of a key's weights (`Shares`) is a
recursive function. So the module needs no recursive operator and can be proved about. In the fast mode the code reranks before it completes, since the status of the
plugins is not looked at; this is modelled. A stream is a generator: an exception in the middle cuts it.

### RelationRebuild, Completion, ContextGroups

A document is a sequence of nodes with their parent, kind (text, cell, context), own token count and
place in a table. `Parsed` says what every parsed document satisfies, chunks that were added since included:
a section comes before what stands in it, the cells of a table stand in one section at places of their own, and only
added chunks and the cells of spreadsheets have no token count. It is assumed of `Documents` and all the proofs know of them.
`RelationRebuild` says which relations a parsed document has (`Dom`) and the index keeps
(`Stored`: of the children the first only, none across the borders of a table), and links the nodes again by
the walks of `schema_util.py` (`Visit`, `Expand`, `MockTables`), in any order of the nodes; `kept` are the chunks
that were not deleted since, and a relation to another one dangles.
`Completion` is `complete_util.py`: up to three hits grow by siblings and parents within the budget, share
the list of processed nodes, and become texts. `ContextGroups` is the context task (`extract_context.py`):
`SplitAll`, `Merge`, the backgrounds (`Told`), saving context by context (`SaveContext`), and a death (`Die`)
after which the task is delivered again and finds the contexts it has saved among the chunks. The store
lists the chunks in the order of the file or with two of them exchanged (`Listings`).

What the code does and the models follow: a section that mixes text and tables loses children, since only
the first child's id is stored (`convert.py:241`); `delete_chunk` leaves relations to a chunk that is gone,
rebuild raises on them and the caller swallows it; rows are marked as processed before they are fitted; in
the context mode a parent is marked without its children; a table node never gets its `table_id`
(`decorator.py`: the branch is unreachable), so the fallback reads the whole table; contexts are saved at the
front of the file. A text that holds only newlines counts as none, and headings may repeat.

Properties: `Restored`, `ShownOnce`, `ReadsLikeDocument` (no text left out in a file
whose sections do not begin with a table), `FittingStaysWhole`, `HitsGiven` (documents of text
only, in the complete mode), `EveryChunkTold` (if the store lists the chunks in the order of the file).
What the code does by loops and recursion (chains of rows, walks over children, growing, grouping) is written with
recursive functions over the states of the loop, so that the modules can be proved about. All of them but
`ReadsLikeDocument` are proved. `ContextGroups` assumes two things more of `Documents` (`FilesAssumption`): nodes are
`Sorted` by their paths, as `dom2nodes` leaves them (`schema_util.py:30`), chunks that were added aside, which stand in
no section; and a file that has contexts at first has one for each chunk (`Settled`), as a run on a listing in order leaves
it, chunks that were added since aside.

## The runs

Bounds are named in the modules (`MaxFaults`, `MaxCalls`, `MaxParses`, `MaxDirect`, `MaxId`, `MaxDeaths`, ...).

| Run | Instance | Shows |
|---|---|---|
| `consumer` | 1 task; a group that retries and one without producer; `err_retry_max` 2 and 3; pool of 2; 1 fault; fair | nothing lost, retry chain, late giving up, offsets; refinement of `TaskDelivery` with its liveness (491,544 states) |
| `file_sequential` | 1 worker, 2 parses, 1 call of the endpoint, deletion, 2 faults | a deleted file stays hidden until erased; a vector has its row |
| `file_workers` | 2 workers, deletion, 1 fault, fair | lock and flag; a deletion completes |
| `file_race` (violation) | 2 workers, deletion, no fault | deletion and indexing overlap; the erased file comes back |
| `cache_threads` | 2 threads, 2 files, 3 nodes, capacity 2, 4 calls | counter and exceptions under every interleaving |
| `cache_lru` | 1 thread, 3 files, 5 nodes, capacity 3, 5 calls | the policy is LRU |
| `chunk_editing` | 2 editors and 1 reader in 2 processes, ids 0..4, 2 calls of any kind, 1 fault, fair | stores, positions, caches; calls end |
| `qa_groups` | 2 callers, 1 group and 1 QA file, 2 questions, batches of 1, 2 calls of any kind, 1 fault, fair | stores match rows; one version; purge |
| `deep_rag` | 2 turns, 2 steps, 2 tasks a turn, 1 piece, heartbeat after 1 tick, 1 file, both kinds of request, fair | stream and plan; every request ends |
| `search` | 6 nodes of 2 files, 8 requests in all modes, 2 tables of similarities, 1 deletion | scores, direct answers, deletion, order of the stream (57,193 states) |
| `search_filters` (violation) | a filter on tags, Qdrant | nodes that do not match come back |
| `completion` | 6 documents, 3 hits, budget 4, 1 chunk deleted, 1 death of the context task | relations, texts and contexts (233,578 states) |

Why these bounds are enough to be of use: a retry limit of 2 has a retry and a give-up; a pool of two
has a queued callback; one fault reaches every place between two steps. Three workers would add nothing to
the pairwise conflicts of the handlers. Five calls on three files fill the cache, evict one file or two,
and replace a cached file. `cache_threads` has no room for a useful third file: `TwoAndOne` fills the
capacity of 2 with one file. Two calls of each of the five kinds meet in every order of their statements;
three calls with one fault (857,271 states) and three editors without (1,541,062 states) were explored once and
show the same. Two turns replan once after results; two steps can be executed out of order and be
dropped. The six documents have each shape that the algorithms branch on: nesting, a parent that does not
fit, a table within a section, at its start, and alone. `ReadsLikeDocument` was explored once on all
documents of five texts and cells of small shapes as well (292,830 states).

Deadlock is not checked in any run: with its bounds used up and nothing left to do each system stops.

The two violations are disagreements between the code and a comment of the repository; `PROJECT.json`
quotes both. The type invariants of seven modules are proved; those are not among the runs' properties.

### Observations

TLC showed more while the models were written; these have no run of their own.

* Retries of one group reach all groups of the topic, so a group sees a task more often than its
  `err_retry_max` (`kafka_tool.py:147`); a task that waits for a full pool is given up without having
  run (`base.py:44`); a listener without a producer (`file_api_listener.py`) loses a task at its first failure.
* The success flag is set after an indexing whose exception was swallowed (`knowledge_index_task.py:56`);
  the flag that two index-done messages share lets the first suppress the summary
  (`knowledge_file_index_done_task.py:45`); the indexing endpoint runs next to the indexing task; the vector
  of the summary is not removed by the deletion.
* `node_count` drifts when puts overlap (above).
* Token counts are wrong after an update: the difference is computed after the old content was
  overwritten (`chunk_service.py:123`).
* A QA file indexed again before the purge fails, since its marked rows are counted; the docstring at
  `question_answer_attached_service.py:12` promises a replacement.
* A streaming deep rag request plans again without the results of the turn (`rag_runner.py:287`).
* Qdrant lists points in the order of their ids, which are hashes, not in that of the file: then groups
  behind the one that contains the end of the background get no context (`EveryChunkTold` without
  `inOrder` is violated), and a first node longer than the background ends the task with an IndexError.
* A section with texts and a table is linked again without some of its children: `convert.py:243` says that the first
  child is enough to restore all by the links between them, but `dom2nodes` links no text to a cell
  (`schema_util.py:61`). What begins with a table so loses the texts behind it from every completed text around it.
* Cells of a section that mixes text and tables end up in no group, and texts in several.

## What is proved

TLAPS proves for every value of the constants (only the modules' `ASSUME`s are used):

* `TaskConsumerProofs!Typing`: `Spec => []TypeOK`, and `CommitBehind`: `Spec => []CommitBehindLoop`, from
  `Inv1 == TypeOK /\ OffsetInv`: committed, stored and current offset are in this order and within the
  log, and while the loop has a copy in hand the stored offset is the one before it.
  `OffsetsAdvance`: `Spec => CommitMonotone` follows from the same invariant.
* `NoTaskLost`: `Reliable => (Spec => []NothingLost)`. `Reliable` says that a send is never lost without
  notice, the condition under which the code keeps its promise. `NothingLost` speaks of the groups
  with a producer and of the committed offset only and is not inductive; `KeptInv` adds that the same holds of
  the offset the consumer may yet have acknowledged (`stored`), and what the loop knows of the copy in hand:
  at `commit` its task is done, at `commitRetry` a later copy is on the topic.
* `RetriesChained`: `Spec => []RetryChain`, inductive with `Inv1`. `GivenUpLate`: `Spec => []GivenUpAfterMax`;
  the strengthening `Handed` says that a group was handed the task of every copy behind its loop at least
  once more often than the copy counts failures; a copy with count k comes after one with count k - 1,
  which is why it rests on `RetryChain`.
* `DeliversAsPromised`: `Spec => Delivery!Spec`, the safety part of `ImplementsDelivery`: every step is one of
  `TaskDelivery` or a stutter. It rests on `KnownInv`: what was done or given up had been published.
* `FileLifecycleProofs!Typing`: `Spec => []TypeOK`. `IndexedOnce`: `Spec => []IndexedIsFinal`.
  `OneBuilderUnlessDirect`: `MaxDirect = 0 => (Spec => []OneBuilder)`; with the endpoint the property is false.
  The invariant `Inv` adds to the types that a handler past its first step holds its lock (`LockInv`), and
  that when the flag "indexed" is set an index handler past its lock is at its end (`FlagInv`). The
  handlers enter the proof only through `Shape`: the lock is taken first, the flag is set last.
* `FlaggedIsIndexed`: `IndexMayFail = FALSE => (Spec => []FlagMeansIndexed)`. The exception that is swallowed
  in `file_indexing` makes the property false; the hypothesis excludes that the index handler raises, while other handlers
  may, and every task may time out, die and be delivered again. `StoredInv` says what an indexing has stored at each of its
  steps (`Written`), and that nothing of a deletion is waiting or under way while the file exists (`Untouched`).
* `HiddenUntilErased` and `VectorsHaveRows`: `OneWorker => (Spec => []HiddenOrErased)` and
  `OneWorker => (Spec => []VectorHasRow)`. `OneWorker` says there is one thread; with two `file_race` shows the
  opposite. `SoloInv` says that what builds the index began before the deletion was recorded (`BuildInv`), that contexts and
  vectors come after rows (`ContextInv`, `VectorAfterRow`), what a deletion has emptied at each of its steps (`Dropped`), and
  that no task to empty the stores is sent before the deletion is recorded (`Unsent`).
* `NodeLRUCacheProofs!Typing`: also that a file occurs once in `order`; `TypeInv` adds that cached nodes belong
  to cached files and the arguments of a put to its file.
* `CountIsExact`: `Spec => []CountExact`; `PutNeverRaises`: `Spec => []OnlyGetRaises`. `CountExact` speaks of
  moments without a changing call. `CountInv` accounts for the call under way: as long as no two changing
  calls overlapped there is at most one, and at each of its steps the counter differs from the number of
  nodes by what it has taken out, put in or not yet written (`Sound`). `Alone` and `Beside` state what a
  thread may conclude from being the only one; the start of a call is where the condition enters.
* `ImplementsLeastRecentlyUsed`: `OneThread => (Spec => ImplementsLRU)`, for any files, nodes and capacity. The
  refinement mapping shows the cache between calls only, so each call maps to stutters and one step. `ShownInv`
  relates the cache during the call to the one that was shown before it; during an eviction (`Evicted`) the files
  dropped so far are the first k of the order, and with one less the nodes would not have fitted.
* `ChunkEditingProofs!Typing`, `Findable`: `Spec => []RowIsFindable`, and `Agreement`: `Spec => []StoresAgree`.
  Both are properties of the moments when nobody edits a chunk; what makes them true is what happens before.
  `LockInv` says what the row locks give: no two transactions hold a row (`Disjoint`), a transaction that has
  saved its chunk holds its row with the content that goes to the stores (`SavedRow`), only those that delete
  hold rows marked as gone (`GoneRows`, `DeletedRow`), all other rows held keep their content (`OtherRows`).
  `StoreInv` says where a vector or an index entry may be missing (`FindVec`, `FindEs`: the deleting call is past
  that store, and holds the row or is the removal of contexts, which locks its rows late) and where it
  may differ from the row (`SameVec`, `SameEs`: a call past that store, which then has its content). The steps
  fall into a few kinds, one lemma each: a step that rewrites rows without changing contents (`Touching`), saves
  (`Saving`), marks as gone (`Erasure`), puts into or drops from a store (`PutVec`, `PutEs`, `DropVec`, `DropEs`),
  commits (`Committing`) or ends without (`Ending`); the actions are shown to be of these kinds.
* `CacheStaysFresh`: `Spec => []CacheIsFresh`. `CacheInv` adds what a search has read and not yet put into the cache,
  and which process a call under way is going to empty. `PositionsStayDistinct`: `Spec => []PositionsDistinct`, from
  `PosInv`: what the one transaction sees has distinct positions, and between the shift and the write of the chunk
  the chunk's position is free.
* `QaGroupProofs!Typing` and `OneVersionStands`: `Spec => []OneVersion`. A call holds a group from its soft delete,
  or its first insert, to its commit. The invariant `Inv` adds to the types that a row is locked by one call only
  and keeps its group (`Disjoint`, `SameGroup`), what a call has written (`Idle`, `Foreign`, `Own`), that a call
  which holds its group has locked every committed row of it (`Held`), and that two calls hold a group only
  if it was bare (`Apart`).
* Also in `QaGroupProofs`: `VectorsMatchRowsStands` (`Spec => []VectorsMatchRows`) and `EsMatchesRowsStands`
  (`Spec => []EsMatchesRows`). Both need `IdInv` (identifiers of rows, written or committed, are not given twice) and
  say where a call may leave a store behind its rows: `VecInv` between the locks of a call and its commit, `EsInv`
  from the listing of the entries to be dropped, which comes before any lock. That is why `EsMatchesRows` excuses
  groups on which calls overlapped and `VectorsMatchRows` does not.
* `DeepRagProofs`: `StreamIsWhole`, `FramesStayIntact` from `ThreadsInv` (how lines, events and the thread's life
  are related) and `ServerInv` (what the serving thread knows at each of its places: once it saw the thread
  dead, nothing is appended any more); `ConclusionIsEarned`, `ResultsStay`, `Typing` from `PlanInv`;
  `EventsInOrder` from `OrderInv`, which relates the last event to the stage of the pipeline.
* `RagSearchProofs`: what the lists of a request hold. `Order` is shown to be a sequence without repetition of
  its indices, by highest key, from the cardinality of what comes before an index and without induction (`Ranks`, `OrderIs`); the
  sum over a list is a number because there is no least place where it is not (`SumsAre`). Recall, fusion,
  completion, rerank and cut yield entries of any set `G` that is `Closed`: closed under the changes the
  code makes to an entry, one lemma per operator. The theorems choose `G`:
  * `TypeCorrect`: `Spec => []TypeOK`, with all entries, and the lengths.
  * `ScoresNeverTooLow`: `Spec => []NeverUnderrated`, with the entries whose score is none or at least that of their node;
    `FairInv` adds that what a vector store found is in descending order of similarity, which is why a row that
    vanishes moves scores only upwards. Fusion hands scores on between nodes of one key, which have the same
    content (`SameContents`).
  * `DirectAnswersAreEarned`: `Spec => []DirectAnswerEarned`, with the entries that carry their own score, as long
    as nothing is erased (`ExactInv`).
  * `DeletedStaysUnseen`: `Spec => []DeletedUnseen`, with the entries of other files (`UnseenInv`): either the file is not
    in the scope that the request searches, or all stores are clean; `filter_deleted_files` is where the two meet.
  `StreamKeepsOrder`: `Spec => []StreamOrder`, from `StreamInv`, which relates the events to the stage of the request.
* `CompletionProofs` is about `SpecContexts`, whose steps are those of the rebuild, the completion, the contexts and the
  deaths of their task, for any parsed documents, budget and lengths. A recursive function `f = [r |-> IF r is an end THEN r
  ELSE f[next[r]]]` is a function even where it does not end (`LoopExists`, by closed sets), and it ends in a state with an
  invariant if a measure goes down (`LoopEnds`, and `LoopEndsToo` with a second measure); no induction is needed, since a set
  of natural numbers has a least one. So the chains, rows, tables, walks over children and growing lists of the code are
  shown to end and to keep what they must, one lemma per operator.
  * `RestoredStands`: `SpecContexts => []Restored`. The walk takes a relation for the end of a circle when it leads to a node
    of the path, and nothing in the code says that parsed documents have no such relation. `WalkOK` says why: every
    direction is an order of the nodes (`Beyond`: of positions, rows or columns), from the second entry of the stack on
    a walk keeps its direction, and each entry lies beyond all that were started before it. So no real relation is dropped
    (`NoCircle`), every linked node is `Faithful`, and a walk over a complete file meets no node that is gone (`NothingLost`).
  * `ShownOnceStands`: `SpecContexts => []ShownOnce`. Two nodes of one text share the list of marks, and so do all hits, but
    what is marked and what is given are different things: rows are marked before they are known to fit, nodes of contexts are given
    whether they are marked or not, and a section that becomes a heading is not marked. `Linked` says that the rebuilt relations lead on in
    their direction, that left and right are inverse and parents are higher, also for the parents made up for tables.
    Then rows are the connected sets of cells (`RowIs`, `RowsAre`), marked as a whole (`Rows`); every operator gives only
    texts that were not marked before and are marked after it (`Shown`), and composes (`FreshBoth`). `GivenIn` says
    that what was given is marked. Contexts give their nodes unasked; `Waiting` says why that is safe: the
    queue has them before all nodes that could have taken these in (`InTurn`), except nodes without a token count, which belong to
    no context, and the groups of two contexts are disjoint, even when they have one number.
  * `HitsGivenStands`: `SpecContexts => []HitsGiven`. A hit gets no text of its own once it is marked, so it must stand in
    the text of the one that marked it. `Nested` says that in a document of texts the children of a section are exactly the
    nodes that stand in it and are left (`LevelAll`: the walk over a level misses none, since it could not have
    passed the nearest), also after a failed rebuild, where no node has a parent. With `Deep`, what is marked includes all below it,
    so a hit is marked when the section it climbed to is (`ClimbHolds`). `ShowAllReaches` says that the walk down ends
    with everything of its list marked and everything newly marked in the text. `Answered` counts: a hit still waits, has no
    token count, or is marked; and what is marked stands in a result, as long as none was cut.
  * `FittingStaysWholeStands`: `SpecContexts => []FittingStaysWhole`. The code never counts a text before it cuts it: it relies on
    the token counts that indexing left at the sections, while it puts the text together node by node. `Total` and `Tally`
    are the sums of the model, with the law that they add up (`TotalBoth`, `TallyBoth`, `TokensOfBoth`). What stands below two nodes of one
    section is disjoint (`BelowApart`), so a section counts at least its own text and its children (`PartsFit`, `KidsFit`).
    Then the walk down never exceeds what its list costs (`Fits`), the list that grows left and right costs what is counted
    for it (`Adds`), and the section climbed to fits (`ClimbFits`). The budget is a precondition of each: a hit that is bigger than
    it is put out all the same, and cut.
  * `EveryChunkToldStands`: `SpecContexts => []EveryChunkTold`. Nobody counts whether the groups still hold all chunks after they
    were split, merged and cut into backgrounds, and a group is dropped in silence if it lies behind the last one that a background
    ends in. `Standing` says that a rebuild that does not fail finds below each section exactly what stands in it (`NoneGone`:
    were a node gone, the one before it, or its section, would dangle). What lies between a section and a node below it lies below it
    (`BelowBetween`, from `Sorted`), so the groups of a listing in order follow each other: `Grouped` says that what is still to be
    grouped is either taken or behind all groups, and `Topped` that the last group, and no other, has the last node.
    Merging joins neighbours, which keeps both (`JoinKeeps`). Hence the last background ends with the file (`EndsIs`), in the last group
    only, and all groups before it go along (`EndingStep`). `TellInv` follows the groups while they are saved: each chunk waits
    in one or has a context, and the contexts a dead run has saved stay among the chunks and are grouped with them, which
    `Grouped` allows.

Three theorems about files and one about the cache hold under the hypothesis they name, since the code does not give
the property without it; the hypotheses are those of the runs that check the properties.

Only model-checked: liveness (the liveness part of `ImplementsDelivery`, `DeletionCompletes`, `CallsEnd`, `DeletedIsPurged`,
`RunEnds`), which TLAPS cannot prove here; `ReadsLikeDocument`, which
compares every pair of nodes of a text, tables included, with the order of the whole document; and what the violation runs refute.

## Not modelled

* Rate limiter: one Redis transaction over clock values per request; no state of this program takes part.
* Progress callbacks: they report, and nothing in this program reads the reports.
* Configuration, logging, schedulers, models and database tools: no behaviour of their own. The nightly
  purge itself is in `QaGroup`.
* Of the vector store and index adapters, the parsers and readers, the index factory, the model access and
  the HTTP layer only what the services depend on is modelled, in the modules above: filters, reads,
  additions and deletions, the relations that indexing keeps, answers that fail, error answers of
  endpoints. The rest translates data between the service and remote systems and keeps no state that
  several actors share.

`PROJECT.json` gives the status and the reason for each part.

## What is left

* Theorems: that lists stand in the order of the document, from which `ReadsLikeDocument` would follow.
* Models: the expiry of success flags after a day; a single table as the abstract specification of the
  three stores of `ChunkEditing`.
