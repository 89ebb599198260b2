----------------------------- MODULE Completion -----------------------------
(***************************************************************************)
(* What a search makes of the nodes it recalled: each grows into a text of *)
(* its surroundings that fits a budget of tokens, and what one of them has *)
(* taken in no later one takes in again.                                   *)
(*                                                                         *)
(* A text is a sequence of nodes; -n stands for the text of section n that *)
(* is put before the beginning of the section as a heading.                *)
(***************************************************************************)
EXTENDS RelationRebuild

CONSTANTS Budget,      \* chunk_max_length
          MaxHits      \* bound: nodes recalled from the document
ASSUME BudgetAssumption == Budget \in Nat \ {0} /\ MaxHits \in Nat \ {0}

VARIABLES mode,        \* "complete": most_complete, "context": context_complete
          hits,        \* the nodes recalled, best first
          queue,       \* those still to be completed
          seen,        \* has_process_node
          result       \* per hit that is done, [text, cut]
completing == <<mode, hits, queue, seen, result>>
vars == <<tree, relations, walk, failed, pc, completing>>

Res(text, marked) == [text |-> text, seen |-> marked]
IsMock(n) == n < 0 \/ n > Len(doc)
IsContext(n) == ~IsMock(n) /\ doc[n].kind = "context"
Cells(n) == ~failed /\ ~IsMock(n) /\ IsTable(n)
Items == -2 * Len(doc)..2 * Len(doc)      \* of texts and of lists of nodes

(* By pos: mocks first, which have none.                                    *)
AnyOrder(nodes) == Reverse(Ascending(nodes))              \* mutant of InOrder
InOrder(nodes) ==
    Ascending({n \in nodes : IsMock(n)}) \o Ascending({n \in nodes : ~IsMock(n)})

(* count_tokens of a text, and the token of a node: of it and all below.    *)
Own(n) == IF n > Len(doc) THEN 0 ELSE doc[IF n < 0 THEN -n ELSE n].own
Tokens(text) ==
    LET sum[k \in 0..Len(text)] == IF k = 0 THEN 0 ELSE sum[k - 1] + Own(text[k])
    IN sum[Len(text)]
TokensOf(S) ==
    LET sum[k \in 0..Len(doc)] ==
            IF k = 0 THEN 0 ELSE sum[k - 1] + (IF k \in S THEN doc[k].own ELSE 0)
    IN sum[Len(doc)]
Below(S) == Reached(S, [n \in Ids |-> {m \in DOMAIN doc : doc[m].under = n}])
Size(n) ==
    IF n > Len(doc) THEN TokensOf(Below(kids[n]))
    ELSE IF doc[n].sized THEN TokensOf(Below({n})) ELSE -911
OwnToken(n) == Own(n)                                     \* mutant of NodeToken
NodeToken(n) == IF Size(n) >= 0 THEN Size(n) ELSE Own(n)

-----------------------------------------------------------------------------
(* Tables: a row is completed at once, the header goes before it, then the  *)
(* rows above and below are added while they fit.  A row is marked before   *)
(* it is known to fit.                                                      *)
Chain(n, key) ==
    LET go[list \in Seq(Ids) \ {<<>>}] ==
            LET next == link[Last(list)][key] IN
            IF next = 0 THEN list ELSE go[Append(list, next)]
    IN go[<<n>>]
Row(n) == Reverse(Tail(Chain(n, "left"))) \o Chain(n, "right")
Header(n) == Last(Chain(n, "up"))

Growth == [at : Ids, text : Seq(Items), seen : SUBSET Ids]
WithRow(r, key, row) ==
    [at   |-> link[r.at][key],
     text |-> IF key = "up" THEN row \o r.text ELSE r.text \o row,
     seen |-> r.seen \cup Range(row)]
AddRow(r, key) == WithRow(r, key, Row(link[r.at][key]))
NoRow(r, key) == link[r.at][key] \in {0} \cup r.seen
WithTried(r, key) == Res(r.text, IF NoRow(r, key) THEN r.seen ELSE AddRow(r, key).seen)
Grow(n, key, head, given) ==
    LET go[r \in Growth] ==
            IF NoRow(r, key) \/ Tokens(head \o AddRow(r, key).text) > Budget
            THEN r ELSE go[AddRow(r, key)]
    IN WithTried(go[[at |-> n, text |-> given.text, seen |-> given.seen]], key)

Headed(head, given) == Res(head \o given.text, given.seen)
TableAt(n, head, given) ==
    IF Tokens(head \o given.text) > Budget THEN Res(<<n>>, given.seen)
    ELSE Headed(head, Grow(n, "down", head, Grow(n, "up", head, given)))
Table(n, marked) ==
    LET head == Row(Header(n))
        own == IF Header(n) = n THEN <<>> ELSE Row(n)
    IN IF n \in marked THEN Res(<<>>, marked)
       ELSE TableAt(n, head, Res(own, marked \cup Range(head \o own)))

(* complete_all_sub_nodes, of the nodes of a list: what is marked is left   *)
(* out, tables are completed, and from the others it goes on to all below   *)
(* them, in the order of the file.                                          *)
Showing(nodes) == [todo : Seq(nodes), text : Seq(Items), seen : SUBSET Ids]
TakeMarksBelow(r, n) ==                                    \* mutant of Take
    [todo |-> InOrder(kids[n]) \o Tail(r.todo),
     text |-> IF IsMock(n) THEN r.text ELSE Append(r.text, n),
     seen |-> r.seen \cup {n} \cup kids[n]]
Take(r, n) ==
    [todo |-> InOrder(kids[n]) \o Tail(r.todo),
     text |-> IF IsMock(n) THEN r.text ELSE Append(r.text, n),
     seen |-> r.seen \cup {n}]
Pass(r, more) == [todo |-> Tail(r.todo), text |-> r.text \o more.text, seen |-> more.seen]
ShowNext(r) ==
    LET n == Head(r.todo) IN
    IF n < 0 THEN Pass(r, Res(IF n < -Len(doc) THEN <<>> ELSE <<n>>, r.seen))
    ELSE IF n \in r.seen THEN Pass(r, Res(<<>>, r.seen))
    ELSE IF Cells(n) THEN Pass(r, Table(n, r.seen))
    ELSE Take(r, n)
ShowAll(list, marked) ==
    LET go[r \in Showing(Items)] == IF r.todo = <<>> THEN r ELSE go[ShowNext(r)]
    IN go[[todo |-> list, text |-> <<>>, seen |-> marked]]

-----------------------------------------------------------------------------
(* search_node_complete_list: the biggest section around the node that fits,*)
(* then its neighbours left and right in turn, and the text of the section  *)
(* above if its beginning was reached.                                      *)
Climb(h) ==
    LET go[n \in Ids] ==
            LET p == link[n]["parent"] IN IF p # 0 /\ Size(p) <= Budget THEN go[p] ELSE n
    IN go[h]

Spreading == [list : Seq(Ids), left : Ids, right : Ids, sum : Int]
GoLeft(r) == r.left # 0 /\ NodeToken(r.left) + r.sum <= Budget
AddLeft(r) ==
    IF ~GoLeft(r) THEN r
    ELSE [r EXCEPT !.list = <<r.left>> \o r.list, !.left = link[r.left]["previous"],
                   !.sum = NodeToken(r.left) + r.sum]
GoRight(r) == r.right # 0 /\ NodeToken(r.right) + r.sum <= Budget
AddRight(r) ==
    IF ~GoRight(r) THEN r
    ELSE [r EXCEPT !.list = Append(r.list, r.right), !.right = link[r.right]["next"],
                   !.sum = NodeToken(r.right) + r.sum]
Spread(top) ==
    LET go[r \in Spreading] ==
            IF ~GoLeft(r) /\ ~GoRight(r) THEN r ELSE go[AddRight(AddLeft(r))]
    IN go[[list |-> <<top>>, left |-> link[top]["previous"], right |-> link[top]["next"],
           sum |-> NodeToken(top)]]

Heading(p, r) == IF r.left = 0 /\ p # 0 /\ r.sum + Own(p) <= Budget THEN <<-p>> ELSE <<>>
Neighbourhood(p, r) == Heading(p, r) \o r.list
ReadyAt(h, top) ==
    IF link[top]["parent"] = 0 /\ top = h /\ Cells(h) THEN <<top>>
    ELSE Neighbourhood(link[top]["parent"], Spread(top))
Ready(h) == ReadyAt(h, Climb(h))

(* complete_contextual_node: all nodes of the context, however long.  Of    *)
(* two contexts with one id the last has the nodes, and the other none.  No *)
(* vector carries a table_id, so a table is never reduced to similar rows.  *)
ContextOf(n) ==
    LastOf({c \in kept : /\ ~failed /\ ~IsMock(n) /\ IsContext(c) /\ doc[n].context = doc[c].context})
Group(c) == {n \in Structure : ContextOf(n) = c}
TellNext(r) ==
    LET n == Head(r.todo) IN
    Pass(r, IF Cells(n) THEN Table(n, r.seen) ELSE Res(<<n>>, r.seen \cup {n}))
WithContext(c, marked) ==
    LET go[r \in Showing(Ids)] == IF r.todo = <<>> THEN r ELSE go[TellNext(r)]
    IN go[[todo |-> InOrder(Group(c)), text |-> <<c>>, seen |-> marked]]

(* small2big_more_info: only cells of spreadsheets and added chunks have no *)
(* token count, and neither have sections, children or neighbours.          *)
MoreInfo(h, marked) ==
    LET given == IF Cells(h) THEN Table(h, marked) ELSE Res(<<h>>, marked) IN
    IF Tokens(given.text) > Budget THEN Res(<<>>, given.seen)
    ELSE Res(given.text, given.seen \cup {h})

MostComplete(h, marked) ==
    IF h \in marked THEN Res(<<>>, marked)
    ELSE IF IsContext(h) THEN WithContext(h, marked)
    ELSE IF Size(h) < 0 THEN MoreInfo(h, marked)
    ELSE ShowAll(IF Size(h) > Budget THEN <<h>> ELSE Ready(h), marked)

(* nodes_small2big_context_merge: nodes of a context stand together behind  *)
(* its text.  What is not marked yet is grouped, then marked.               *)
Merging == [todo : Seq(Items), text : Seq(Items), seen : SUBSET Ids, more : Int]
Join(r, rest, c, shown) ==
    LET told == shown.text # <<>> /\ c # 0 IN
    [todo |-> rest,
     text |-> r.text \o (IF told THEN <<c>> ELSE <<>>) \o shown.text,
     seen |-> shown.seen,
     more |-> IF told THEN Own(c) ELSE 0]
MergeNext(r) ==
    LET c == ContextOf(Head(r.todo))
        group == {n \in Range(r.todo) : ContextOf(n) = c}
        rest == Only(r.todo, Items \ group)
    IN IF \A n \in group : n < 0 THEN [r EXCEPT !.todo = rest]
       ELSE Join(r, rest, c, ShowAll(InOrder(group), r.seen))
Merged(h, marked) ==
    LET list == IF Size(h) > Budget THEN <<h>> ELSE Ready(h)
        go[r \in Merging] == IF r.todo = <<>> THEN r ELSE go[MergeNext(r)]
    IN go[[todo |-> Only(list, Items \ marked), text |-> <<>>, seen |-> marked, more |-> 0]]

-----------------------------------------------------------------------------
(* str_token_limit: a node that is cut in the middle counts as cut off.     *)
Limited(text, limit) ==
    IF Tokens(text) <= limit THEN [text |-> text, cut |-> FALSE]
    ELSE [text |-> SubSeq(text, 1, Biggest({k \in 0..Len(text) : Tokens(SubSeq(text, 1, k)) <= Budget})),
          cut |-> TRUE]

(* A node that gets no text has no result.                                  *)
Results(h, r, limit) ==
    IF r.text = <<>> THEN result
    ELSE [g \in DOMAIN result \cup {h} |->
             IF g \in DOMAIN result THEN result[g] ELSE Limited(r.text, limit)]
DoneForgets(h, r, limit) ==                               \* mutant of Done
    /\ result' = Results(h, r, limit)
    /\ queue' = Tail(queue) /\ pc' = IF Len(queue) = 1 THEN "end" ELSE pc
    /\ UNCHANGED <<tree, relations, walk, failed, mode, hits, seen>>
Done(h, r, limit) ==
    /\ seen' = r.seen
    /\ result' = Results(h, r, limit)
    /\ queue' = Tail(queue)
    /\ pc' = IF Len(queue) = 1 THEN "end" ELSE pc
    /\ UNCHANGED <<tree, relations, walk, failed, mode, hits>>

(* In context mode nodes without a token count come first, then contexts,   *)
(* the last one first.                                                      *)
QueueOf(m, list) ==
    IF m = "complete" THEN list
    ELSE LET told == {n \in Range(list) : IsContext(n)}
             plain == {n \in Range(list) \ told : Size(n) < 0}
         IN Only(list, plain) \o Reverse(Only(list, told))
              \o Only(list, Range(list) \ (told \cup plain))

(* restore_relationships rebuilds only for nodes that have relations.       *)
Relevant(list) == \E i \in DOMAIN list : IsContext(list[i]) \/ Stored(list[i]) # {}

(* The rebuild is the same for every recall, so it comes first here.        *)
Recall ==
    /\ pc = "recall"
    /\ \E k \in 1..MaxHits : \E list \in [1..k -> kept] :
         /\ \A i, j \in 1..k : i # j => list[i] # list[j]
         /\ mode' \in {"complete", "context"}
         /\ mode' = "complete" => \A i \in 1..k : ~IsContext(list[i])
         /\ hits' = list /\ queue' = QueueOf(mode', list)
         /\ LET raised == failed \/ ~Relevant(list) IN
              /\ failed' = raised
              /\ link' = IF raised THEN Unlinked ELSE link
              /\ kids' = IF raised THEN [n \in Ids |-> {}] ELSE kids
    /\ pc' = "complete"
    /\ UNCHANGED <<tree, walk, seen, result>>

CompleteNode ==
    /\ pc = "complete" /\ mode = "complete"
    /\ Done(Head(queue), MostComplete(Head(queue), seen), Budget)

MergeContexts ==
    /\ pc = "complete" /\ mode = "context"
    /\ LET h == Head(queue) IN
       IF IsContext(h) THEN Done(h, WithContext(h, seen), Budget)
       ELSE IF Size(h) < 0
         THEN Done(h, IF h \in seen THEN Res(<<>>, seen) ELSE MoreInfo(h, seen), Budget)
       ELSE IF h \in seen THEN Done(h, Res(<<>>, seen), Budget)
       ELSE \E r \in {Merged(h, seen)} : Done(h, r, Budget + r.more)

InitAll ==
    /\ Init /\ mode = "complete" /\ hits = <<>> /\ queue = <<>> /\ seen = {} /\ result = <<>>
Next ==
    \/ Rebuild /\ UNCHANGED completing
    \/ Recall \/ CompleteNode \/ MergeContexts
Spec == InitAll /\ [][Next]_vars
-----------------------------------------------------------------------------
TypeOK ==
    /\ doc \in Seq(Node)
    /\ kept \subseteq DOMAIN doc /\ failed \in BOOLEAN
    /\ pc \in {"link", "mock", "recall", "complete", "end"}
    /\ link \in [Ids -> [Range(Keys) -> Ids]] /\ kids \in [Ids -> SUBSET Ids]
    /\ visited \subseteq kept /\ path \subseteq visited /\ seen \subseteq Ids
    /\ mode \in {"complete", "context"} /\ Range(queue) \subseteq Range(hits)
    /\ DOMAIN result \subseteq Range(hits) \ Range(queue)

Occurrences(n) ==
    {p \in UNION {{h} \X DOMAIN result[h].text : h \in DOMAIN result} : result[p[1]].text[p[2]] = n}
Texts == {n \in kept : doc[n].kind = "text"}
Whole == \A h \in DOMAIN result : ~result[h].cut
TextOnly == \A n \in DOMAIN doc : doc[n].kind # "cell"

(* However the nodes that were recalled lie in the document, no text and no *)
(* row of a table is given twice, headings and the headers of tables aside. *)
InHeader(n) == Cells(n) /\ \E m \in Range(Row(n)) : link[m]["up"] = 0
ShownOnce == \A n \in Structure : ~InHeader(n) => Cardinality(Occurrences(n)) <= 1

(* A completed text reads like the document: in its order, and leaving out  *)
(* no text that is not given in another one.  A section that begins with a  *)
(* table has lost the texts behind it.                                      *)
TablesBehindTexts == \A n \in Texts : doc[n].under # 0 => ~IsTableCell(HeadChild(doc[n].under))
ReadsLikeDocument ==
    mode = "complete" /\ Whole =>
        \A h \in DOMAIN result :
            LET t == result[h].text IN
            \A i, j \in DOMAIN t : i < j /\ t[i] \in Texts /\ t[j] \in Texts =>
                /\ t[i] < t[j]
                /\ TablesBehindTexts => \A n \in t[i]..t[j] \cap Texts : Occurrences(n) # {}

(* What grows around a node that fits the budget fits it too, so that       *)
(* nothing is cut off.                                                      *)
FittingStaysWhole ==
    mode = "complete" /\ TextOnly =>
        \A h \in DOMAIN result : Size(h) <= Budget => ~result[h].cut

(* What was recalled is given: a node is left out only for being given with *)
(* another one, unless that was cut off.                                    *)
HitsGiven ==
    pc = "end" /\ mode = "complete" /\ TextOnly /\ Whole =>
        \A i \in DOMAIN hits : Size(hits[i]) >= 0 => Occurrences(hits[i]) # {}

=============================================================================
