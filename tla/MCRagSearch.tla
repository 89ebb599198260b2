----------------------------- MODULE MCRagSearch -----------------------------
(* Two files, one of them deleted meanwhile: chunks of both, a context, two *)
(* questions of a group and one of the deleted file with an equal content.  *)
EXTENDS RagSearch

Node(file, kind, extra, group, words, pos) ==
    [file |-> file, kind |-> kind, extra |-> extra, group |-> group, words |-> words, pos |-> pos]
MCCorpus == <<
    Node("gone", "text", {}, "", "a", 1),
    Node("kept", "text", {}, "", "b", 1),
    Node("kept", "text", {"type:contextual"}, "", "c", 2),
    Node("gone", "qa", {}, "g2", "q", 0),
    Node("kept", "qa", {"tag:x"}, "g1", "r", 0),
    Node("kept", "qa", {}, "g1", "q", 0)>>
Level(a, b, c, q, r) == [w \in {"a", "b", "c", "q", "r"} |->
    CASE w = "a" -> a [] w = "b" -> b [] w = "c" -> c [] w = "q" -> q [] w = "r" -> r]
MCSims == {Level(4, 1, 2, 1, 2), Level(1, 2, 3, 3, 1)}

NoFilter == [cond |-> "none", leaves |-> {}]
Tagged(op) == [cond |-> "or", leaves |-> {Leaf("extra", op, {"tag:x"})}]
MCRequests ==
    {[mode |-> r[1], api |-> r[2], scope |-> {"file"}, filter |-> NoFilter, backend |-> "qdrant"] :
        r \in {<<"fast", "search">>, <<"normal", "stream">>, <<"ultra", "blocking">>}}
    \cup {[mode |-> "normal", api |-> "search", scope |-> {"space"}, filter |-> f, backend |-> "tencent"] :
        f \in {Tagged("=="), Tagged(">"), [cond |-> "and", leaves |-> {Leaf("source_id", "==", {"kept"})}]}}
    \cup {[mode |-> "normal", api |-> "stream", scope |-> s, filter |-> NoFilter, backend |-> "tencent"] :
        s \in {{}, {"space"}}}
MCFilterRequests ==
    {[mode |-> m, api |-> "search", scope |-> {"file"}, filter |-> Tagged("=="), backend |-> "qdrant"] :
        m \in {"fast", "normal"}}
=============================================================================
