--------------------------- MODULE RelationRebuild ---------------------------
(***************************************************************************)
(* How the relations of a document's nodes survive the index: a parsed     *)
(* document links its nodes, the index keeps ids of neighbours and of the  *)
(* first child, and a search that recalls a node links all nodes of the    *)
(* file again from what the stores still hold.                             *)
(*                                                                         *)
(* A document is a sequence of nodes in the order of their positions:      *)
(*   [under, kind, own, table, row, col, context, sized]                   *)
(* under is the section a node stands in (0: none), own the tokens of its  *)
(* text, context the context it belongs to or is (0: none, or not written  *)
(* yet); sized is FALSE for nodes stored without a token count.            *)
(***************************************************************************)
EXTENDS Integers, FiniteSets, SequencesExt

CONSTANT Documents
Node == [under : Nat, kind : {"text", "cell", "context"}, own : Nat \ {0}, table : Nat,
         row : Nat, col : Nat, context : Nat, sized : BOOLEAN]

(* A section is a text before what stands in it.  The cells of a table      *)
(* stand in one section, each at a place of its own.  Only chunks that were *)
(* added and the cells of spreadsheets have no token count; they stand in   *)
(* no section and belong to no context.                                     *)
Parsed(d) ==
    /\ d \in Seq(Node)
    /\ \A n \in DOMAIN d :
        /\ d[n].under \in 0..n - 1
        /\ d[n].under # 0 => /\ d[d[n].under].kind = "text" /\ d[d[n].under].sized
                             /\ d[n].kind # "context" /\ d[n].sized
        /\ ~d[n].sized => d[n].kind # "context" /\ d[n].context = 0
    /\ \A m, n \in DOMAIN d :
        d[m].kind = "cell" /\ d[n].kind = "cell" /\ d[m].table = d[n].table =>
            /\ d[m].under = d[n].under /\ d[m].sized = d[n].sized
            /\ d[m].row = d[n].row /\ d[m].col = d[n].col => m = n
ASSUME DocumentsAssumption == \A d \in Documents : Parsed(d)

VARIABLES doc,       \* the document
          kept,      \* its nodes that still have a row and a vector
          link,      \* per node and relation, the related node or 0
          kids,      \* per node, its children
          stack,     \* of the walk: [node, dir, done]
          visited,   \* nodes the walk has linked
          path,      \* nodes of the walk that are not finished
          failed,    \* the rebuild raised
          pc

tree == <<doc, kept>>
relations == <<link, kids>>
walk == <<stack, visited, path>>

Smallest(S) == CHOOSE m \in S : \A n \in S : m <= n
Biggest(S) == CHOOSE m \in S : \A n \in S : m >= n
FirstOf(S) == IF S = {} THEN 0 ELSE Smallest(S)
LastOf(S) == IF S = {} THEN 0 ELSE Biggest(S)

(* The numbers of S in their order; the items of a list that are in S.      *)
Ascending(S) ==
    [i \in 1..Cardinality(S) |-> CHOOSE n \in S : Cardinality({m \in S : m < n}) = i - 1]
Only(list, S) ==
    LET places == Ascending({i \in DOMAIN list : list[i] \in S}) IN
    [k \in DOMAIN places |-> list[places[k]]]

-----------------------------------------------------------------------------
(* The relations of a parsed document.  Tables stand outside the chain of   *)
(* the nodes of a section, and so do chunks that were added; a cell knows   *)
(* its neighbours.                                                          *)
IsTableCell(n) == doc[n].kind = "cell"
InLine(n) == doc[n].kind = "text" /\ doc[n].sized
Line(n) == {m \in DOMAIN doc : InLine(n) /\ InLine(m) /\ doc[m].under = doc[n].under}
Cell(n, down, right) ==
    FirstOf({m \in DOMAIN doc : /\ IsTableCell(n) /\ IsTableCell(m) /\ doc[m].table = doc[n].table
                                /\ doc[m].row = doc[n].row + down /\ doc[m].col = doc[n].col + right})
HeadChild(n) == FirstOf({m \in DOMAIN doc : doc[m].under = n})

Dom(n, key) ==
    CASE key = "parent"     -> doc[n].under
      [] key = "head_child" -> HeadChild(n)
      [] key = "previous"   -> LastOf({m \in Line(n) : m < n})
      [] key = "next"       -> FirstOf({m \in Line(n) : m > n})
      [] key = "up"         -> Cell(n, -1, 0)
      [] key = "down"       -> Cell(n, 1, 0)
      [] key = "left"       -> Cell(n, 0, -1)
      [] key = "right"      -> Cell(n, 0, 1)

SameLevel == {"up", "left", "down", "right", "previous", "next"}
Keys == <<"up", "left", "down", "right", "parent", "head_child", "previous", "next">>

(* What the index holds of a node: the ids of all of these.                 *)
Stored(n) == {key \in Range(Keys) : Dom(n, key) # 0}
Dangles(n, key) == Dom(n, key) # 0 /\ Dom(n, key) \notin kept
Structure == {n \in kept : doc[n].kind # "context"}

(* A cell without neighbours comes back as a text.                          *)
IsTable(n) == n \in DOMAIN doc /\ Stored(n) \cap {"up", "left", "down", "right"} # {}

-----------------------------------------------------------------------------
(* The parent that is made up for the cells of a table under section n.     *)
Mock(n) == Len(doc) + n
Ids == 0..2 * Len(doc)
Unlinked == [n \in Ids |-> [key \in Range(Keys) |-> 0]]

(* A rebuild starts; a chunk of the document may have been deleted.  Nodes  *)
(* of contexts without a number are still to be written.                    *)
Chunks == {n \in DOMAIN doc : doc[n].kind # "context"}
Written == {n \in DOMAIN doc : n \in Chunks \/ doc[n].context # 0}
Init ==
    /\ doc \in Documents
    /\ kept \in {Written} \cup {Written \ {n} : n \in Chunks}
    /\ link = Unlinked /\ kids = [n \in Ids |-> {}]
    /\ stack = <<>> /\ visited = {} /\ path = {} /\ failed = FALSE /\ pc = "link"

(* A walk from each node that has none of its relations yet, in the order   *)
(* in which the store returned the nodes.                                   *)
StartWalk ==
    /\ pc = "link" /\ stack = <<>>
    /\ \E n \in Structure \ visited : stack' = <<[node |-> n, dir |-> "", done |-> FALSE]>>
    /\ path' = {}
    /\ UNCHANGED <<tree, relations, visited, failed, pc>>

(* From a node reached in one direction the walk goes on in that direction. *)
Onward(n, dir) == Only(Keys, IF dir = "" THEN Stored(n) ELSE Stored(n) \cap {dir})

CircleVisited(n, key, dir) ==                     \* mutant of Circle
    key \in Range(Onward(n, dir)) /\ Dom(n, key) \in visited
Circle(n, key, dir) ==
    key \in Range(Onward(n, dir)) /\ Dom(n, key) \in path \cup {n}

Link(n, dir) ==
    [key \in Range(Keys) |->
        IF Dangles(n, key) \/ Circle(n, key, dir) THEN 0 ELSE Dom(n, key)]

(* A node that is gone raises, unless it was only looked up.                *)
Visit ==
    /\ pc = "link" /\ stack # <<>>
    /\ LET top == Last(stack)
           onward == Onward(top.node, top.dir)
           done == [top EXCEPT !.done = TRUE]
       IN \/ /\ top.done
             /\ path' = path \ {top.node} /\ stack' = Front(stack)
             /\ UNCHANGED <<link, visited, failed, pc>>
          \/ /\ ~top.done /\ top.node \in visited
             /\ stack' = Front(stack) /\ UNCHANGED <<link, visited, path, failed, pc>>
          \/ /\ ~top.done /\ top.node \notin kept
             /\ failed' = TRUE /\ pc' = "recall" /\ UNCHANGED <<link, stack, visited, path>>
          \/ /\ ~top.done /\ top.node \in kept \ visited
             /\ link' = [link EXCEPT ![top.node] = Link(top.node, top.dir)]
             /\ visited' = visited \cup {top.node} /\ path' = path \cup {top.node}
             /\ stack' = Front(stack) \o <<done>> \o
                    [i \in DOMAIN onward |->
                        [node |-> Dom(top.node, onward[i]), dir |-> onward[i], done |-> FALSE]]
             /\ UNCHANGED <<failed, pc>>
    /\ UNCHANGED <<tree, kids>>

(* What is reached from S over next.                                        *)
Grown(S, next) == S \cup UNION {next[n] : n \in S}
Reached(S, next) ==
    LET go[T \in SUBSET Ids] == IF Grown(T, next) = T THEN T ELSE go[Grown(T, next)] IN go[S]

(* search_all_child_nodes: from the first child over the same level.        *)
Level(n) == Reached({n}, [m \in Ids |-> {link[m][key] : key \in SameLevel} \ {0}])

Expand ==
    /\ pc = "link" /\ stack = <<>> /\ Structure \subseteq visited
    /\ LET heads == {n \in Structure : link[n]["head_child"] # 0}
           lost == \/ \E n \in Structure : Dangles(n, "head_child")
                   \/ \E n \in heads : \E m \in Level(HeadChild(n)), key \in SameLevel : Dangles(m, key)
       IN /\ failed' = lost
          /\ kids' = IF lost THEN kids
                     ELSE [n \in Ids |-> IF n \in heads THEN Level(HeadChild(n)) ELSE {}]
          /\ pc' = IF lost THEN "recall" ELSE "mock"
    /\ UNCHANGED <<tree, link, walk>>

(* All children of a section with a table get one parent of their own.      *)
MockTables ==
    /\ pc = "mock"
    /\ LET sections == {n \in Structure : \E c \in kids[n] : IsTable(c)}
           Of(n) == n - Len(doc)
       IN /\ kids' = [n \in Ids |-> CASE n \in sections   -> {Mock(n)}
                                      [] Of(n) \in sections -> kids[Of(n)]
                                      [] OTHER -> kids[n]]
          /\ link' = [n \in Ids |->
                CASE \E s \in sections : n \in kids[s] ->
                        [link[n] EXCEPT !["parent"] = Mock(CHOOSE s \in sections : n \in kids[s])]
                  [] Of(n) \in sections -> [link[n] EXCEPT !["parent"] = Of(n)]
                  [] OTHER -> link[n]]
    /\ pc' = "recall"
    /\ UNCHANGED <<tree, walk, failed>>

Rebuild == StartWalk \/ Visit \/ Expand \/ MockTables
-----------------------------------------------------------------------------
(* Whatever order the walks took, a rebuild that does not fail has linked   *)
(* every node to the neighbours it had when it was parsed, as far as they   *)
(* are left: the detection of circles drops none of them.  And it fails for *)
(* no file that is still complete.                                          *)
Restored ==
    /\ pc = "recall" /\ Chunks \subseteq kept => ~failed
    /\ pc = "mock" =>
        \A n \in Structure : \A key \in Range(Keys) :
            link[n][key] = IF Dangles(n, key) THEN 0 ELSE Dom(n, key)

=============================================================================
