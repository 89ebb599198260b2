--------------------------- MODULE ContextGroups ---------------------------
(***************************************************************************)
(* The contexts of a file: its chunks are read and linked, grouped by the  *)
(* sections that fit, small groups are merged, and each group that is left *)
(* gets a node with its background.  The task may die between two of these *)
(* nodes and is delivered again; then it finds the contexts it saved among *)
(* the chunks.  Searches complete their nodes with whatever was saved.     *)
(***************************************************************************)
EXTENDS Completion

CONSTANTS SpiltMax,      \* SPILT_MAX_LENGTH
          MergeMin,      \* MERGE_MIN_LENGTH
          MergeMax,      \* MERGE_MAX_LENGTH
          ForceMerge,    \* FORCE_MERGE_LENGTH
          Background,    \* tokens of a background: 100000
          MaxDeaths      \* bound: deaths of the task
ASSUME LengthsAssumption == {SpiltMax, MergeMin, MergeMax, ForceMerge, Background, MaxDeaths} \subseteq Nat

VARIABLES groups,    \* groups that wait for their context
          saved,     \* order: contexts saved by this run of the task
          summary,   \* "none", "save", "done" or "raised"
          inOrder,   \* the store lists the chunks in the order of the file
          deaths
context == <<groups, saved, summary, inOrder, deaths>>

(* Nodes are sorted by their paths, so what lies between a section and one  *)
(* of its nodes stands in it too, chunks that were added aside.  A file has *)
(* no contexts at first, or those that a run on its listing in order left,  *)
(* so that each chunk but those has one.                                    *)
Sorted(d) ==
    \A m, n \in DOMAIN d :
        d[m].sized /\ d[n].under < m /\ m < n => d[m].under >= d[n].under
Settled(d) ==
    LET told == {d[c].context : c \in {n \in DOMAIN d : d[n].kind = "context"}} \ {0} IN
    told # {} => \A n \in DOMAIN d :
                    d[n].sized /\ d[n].kind # "context" => d[n].context \in told
ASSUME FilesAssumption == \A d \in Documents : Sorted(d) /\ Settled(d)

-----------------------------------------------------------------------------
(* spilt_nodes.  A group is [tokens, nodes]; here nothing is cut for length.*)
AllBelow(S) ==
    Reached(S, [n \in Ids |-> kids[n] \cup (IF IsTable(n) THEN {link[n][key] : key \in SameLevel} \ {0}
                                                        ELSE {})])
GroupOf(heading, nodes) == [tokens |-> TokensOf(heading \cup nodes), nodes |-> nodes]

Ascend(start, added) ==
    LET go[n \in Ids] ==
            LET p == link[n]["parent"] IN
            IF p # 0 /\ p \notin added /\ Size(p) <= SpiltMax THEN go[p] ELSE n
    IN go[start]

OnlyCell(n) == GroupOf({}, AllBelow({n}))
Section(n, added) ==
    LET top == Ascend(n, added)
        p == link[top]["parent"]
        heading == IF IsTable(n) \/ p = 0 \/ p \in added THEN {} ELSE {p}
    IN GroupOf(heading, AllBelow({top}))

Groups == Seq([tokens : Nat, nodes : SUBSET Ids])
Splitting == [todo : Seq(DOMAIN doc), groups : Groups, added : SUBSET Ids]
Split(r) ==
    LET n == Head(r.todo)
        p == link[n]["parent"]
        tooLong == ~IsTable(n) /\ Size(n) > SpiltMax
        g == CASE tooLong -> GroupOf({}, {n})
               [] IsTable(n) /\ (p = 0 \/ Size(p) > SpiltMax) -> OnlyCell(n)
               [] OTHER -> Section(n, IF IsTable(n) THEN {} ELSE r.added)
    IN IF n \in r.added THEN [r EXCEPT !.todo = Tail(r.todo)]
       ELSE [todo |-> Tail(r.todo), groups |-> Append(r.groups, g),
             added |-> IF tooLong THEN r.added ELSE r.added \cup g.nodes]
SplitAll(list) ==
    LET go[r \in Splitting] == IF r.todo = <<>> THEN r ELSE go[Split(r)]
    IN go[[todo |-> list, groups |-> <<>>, added |-> {}]].groups

-----------------------------------------------------------------------------
(* merge_node_group: the first group that is too small joins the smaller of *)
(* its neighbours, until none is left.                                      *)
Partner(gs, i) ==
    IF i = 1 THEN 2
    ELSE IF i = Len(gs) THEN i - 1
    ELSE IF gs[i - 1].tokens <= gs[i + 1].tokens THEN i - 1 ELSE i + 1
Mergeable(gs, i) ==
    \/ gs[i].tokens < ForceMerge
    \/ /\ gs[i].tokens < MergeMin
       /\ gs[Partner(gs, i)].tokens + gs[i].tokens <= MergeMax

Small(gs) == {i \in DOMAIN gs : Mergeable(gs, i)}
JoinFirst(gs) ==
    LET i == Smallest(Small(gs))
        j == Partner(gs, i)
        both == [tokens |-> gs[i].tokens + gs[j].tokens, nodes |-> gs[i].nodes \cup gs[j].nodes]
    IN RemoveAt([gs EXCEPT ![j] = both], i)
Merge(groups0) ==
    LET go[gs \in Groups] == IF Len(gs) <= 1 \/ Small(gs) = {} THEN gs ELSE go[JoinFirst(gs)]
    IN go[groups0]

-----------------------------------------------------------------------------
(* get_background_info: the nodes of all groups in the order of the file are*)
(* cut into backgrounds; with each go the groups up to the one in which it  *)
(* ends.  A first node that is longer than a background leaves an empty one *)
(* before it, which raises.                                                 *)
PosOf(n) == IF IsMock(n) THEN -911 ELSE n
Nothing == -1000
Cutting == [todo : Seq(Ids \ {0}), ends : Seq(Int), last : Int, length : Nat]
Cut(r) ==
    LET n == Head(r.todo)
        over == r.length + Own(n) > Background
    IN [todo   |-> Tail(r.todo),
        ends   |-> IF over THEN Append(r.ends, r.last) ELSE r.ends,
        last   |-> PosOf(n),
        length |-> IF over THEN Own(n) ELSE r.length + Own(n)]
Ends(gs) ==
    LET go[r \in Cutting] == IF r.todo = <<>> THEN r ELSE go[Cut(r)]
        r == go[[todo |-> InOrder(UNION {gs[i].nodes : i \in DOMAIN gs}), ends |-> <<>>,
                 last |-> Nothing, length |-> 0]]
    IN IF gs = <<>> THEN <<>> ELSE Append(r.ends, r.last)

Around(g, end) ==
    /\ \E n \in g.nodes : PosOf(n) <= end
    /\ \E n \in g.nodes : end <= PosOf(n)
WithBackgroundBefore(r) ==                                 \* mutant of WithBackground
    LET i == FirstOf({k \in DOMAIN r.left : Around(r.left[k], Head(r.todo))})
    IN [todo |-> Tail(r.todo), told |-> r.told \o SubSeq(r.left, 1, i - 1),
        left |-> SubSeq(r.left, i + 1, Len(r.left))]
WithBackground(r) ==
    LET i == FirstOf({k \in DOMAIN r.left : Around(r.left[k], Head(r.todo))})
    IN [todo |-> Tail(r.todo), told |-> r.told \o SubSeq(r.left, 1, i),
        left |-> SubSeq(r.left, i + 1, Len(r.left))]
Telling == [todo : Seq(Int), told : Groups, left : Groups]
Told(gs) ==
    LET go[r \in Telling] == IF r.todo = <<>> THEN r ELSE go[WithBackground(r)]
    IN go[[todo |-> Ends(gs), told |-> <<>>, left |-> gs]].told
-----------------------------------------------------------------------------
(* context_summary, on the chunks as they were linked.  The store lists them*)
(* in the order of the file, or with two in each other's place (bound).     *)
Listings ==
    LET list == InOrder(kept) IN
    {[list EXCEPT ![i] = list[j], ![j] = list[i]] : i, j \in DOMAIN list}
Free == {n \in DOMAIN doc : n \notin kept /\ doc[n].kind = "context"}
Unrelated == /\ link' = Unlinked /\ kids' = [n \in Ids |-> {}]
             /\ visited' = {} /\ path' = {} /\ stack' = <<>> /\ pc' = "link" /\ failed' = FALSE

Summarize ==
    /\ pc = "recall" /\ summary = "none" /\ ~failed /\ Free # {}
    /\ \E list \in Listings :
         LET gs == IF \E n \in kept : Size(n) < 0 THEN <<>> ELSE Merge(SplitAll(list))
             raises == Nothing \in Range(Ends(gs))
         IN /\ inOrder' = (list = InOrder(kept))
            /\ groups' = IF raises \/ gs = <<>> THEN <<>> ELSE [i \in DOMAIN Told(gs) |-> Told(gs)[i].nodes]
            /\ summary' = IF raises THEN "raised" ELSE "save"
    /\ saved' = 0
    /\ UNCHANGED <<tree, relations, walk, failed, pc, completing, deaths>>

(* The model's answer has another number of backgrounds three times.        *)
Unanswered ==
    /\ summary = "save" /\ saved = 0 /\ groups # <<>>
    /\ summary' = "raised" /\ groups' = <<>>
    /\ UNCHANGED <<tree, relations, walk, failed, pc, completing, saved, inOrder, deaths>>

(* save_context_chunk: a node at the front, and its id in the rows of the   *)
(* group.                                                                   *)
SaveContext ==
    /\ summary = "save" /\ groups # <<>> /\ Free # {}
    /\ LET node == Biggest(Free) IN
         /\ doc' = [n \in DOMAIN doc |-> IF n \in Structure \cap Head(groups) \/ n = node
                                         THEN [doc[n] EXCEPT !.context = saved + 1] ELSE doc[n]]
         /\ kept' = kept \cup {node}
    /\ groups' = Tail(groups) /\ saved' = saved + 1
    /\ UNCHANGED <<relations, walk, failed, pc, completing, summary, inOrder, deaths>>

SummaryDone ==
    /\ summary = "save" /\ groups = <<>>
    /\ summary' = "done" /\ Unrelated
    /\ UNCHANGED <<tree, completing, groups, saved, inOrder, deaths>>

(* The worker dies; the task is delivered to another.                       *)
Die ==
    /\ summary = "save" /\ deaths < MaxDeaths
    /\ summary' = "none" /\ deaths' = deaths + 1 /\ groups' = <<>> /\ Unrelated
    /\ UNCHANGED <<tree, completing, saved, inOrder>>

InitContexts ==
    /\ InitAll /\ groups = <<>> /\ saved = 0 /\ inOrder = TRUE /\ deaths = 0
    /\ summary = IF kept \subseteq Chunks THEN "none" ELSE "done"
NextContexts ==
    \/ summary # "save" /\ Next /\ UNCHANGED context
    \/ Summarize \/ Unanswered \/ SaveContext \/ SummaryDone \/ Die
SpecContexts == InitContexts /\ [][NextContexts]_<<vars, context>>
-----------------------------------------------------------------------------
(* When the task has finished, every chunk of a text has a context, whatever*)
(* runs of it died before, provided that the store lists the chunks in the  *)
(* order of the file: groups behind the one with the end of the file are    *)
(* dropped.                                                                 *)
EveryChunkTold ==
    summary = "done" /\ inOrder /\ TextOnly /\ (\A n \in kept : Size(n) >= 0) =>
        \A n \in kept \cap Chunks : \E c \in kept \ Chunks : doc[c].context = doc[n].context

=============================================================================
