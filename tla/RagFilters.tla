----------------------------- MODULE RagFilters -----------------------------
(***************************************************************************)
(* Which nodes a request may recall: the filters built for a request, the  *)
(* check of their keys against an index, and what each store makes of them.*)
(*                                                                         *)
(* A leaf is a MetadataFilter [key, op, vals]; the user's filter is one    *)
(* group [cond, leaves] of them, the other filters are leaves.  A node is  *)
(* seen by its attributes [file, kind, extra].                             *)
(***************************************************************************)
EXTENDS Integers, Sequences

Kinds == {"text", "image", "qa"}
Leaf(key, op, vals) == [key |-> key, op |-> op, vals |-> vals]

(* from_dict: a body without a condition is no filter at all.               *)
FromDict(body) ==
    IF body.cond \in {"and", "or"} THEN body ELSE [cond |-> "and", leaves |-> {}]

IndexKeys ==
    [chunk |-> {"source_id", "node_type", "relationships", "extra", "source_name"},
     qa    |-> {"source_id", "extra", "group_id", "source_name"},
     es    |-> {"source_id", "content", "relationships", "extra", "source_name", "type"}]

Scope(files) == Leaf("source_id", "in", files)
Builtin == Leaf("node_type", "!=", {"image"})
NoContexts == Leaf("extra", "exclude", {"type:contextual"})
AllKinds == Leaf("node_type", "in", Kinds)

(* Only the completion with contexts wants contextual nodes, and only the   *)
(* image recogniser images.                                                 *)
PluginFilters(mode) == IF mode = "ultra" THEN <<AllKinds>> ELSE <<NoContexts>>

(* Of two filters on a key the later one counts, except on "extra".         *)
Combined(mode, files) ==
    LET all == <<Scope(files), Builtin>> \o PluginFilters(mode) IN
    {all[i] : i \in {i \in DOMAIN all :
        \/ all[i].key = "extra"
        \/ \A j \in i+1..Len(all) : all[j].key # all[i].key}}

(* clean_filters: a key the index does not have is dropped silently.        *)
Clean(leaves, index) == {l \in leaves : l.key \in IndexKeys[index]}

(* _check_filter_keys: two filters on a key are an error.                   *)
Ambiguous(user, own, index) ==
    LET counted == {<<"user", l>> : l \in Clean(user.leaves, index)}
                   \cup {<<"own", l>> : l \in Clean(own, index)} IN
    \E c, e \in counted : c # e /\ c[2].key = e[2].key /\ c[2].key # "extra"

-----------------------------------------------------------------------------
(* What a filter asks for.                                                  *)
Field(a, key) ==
    CASE key = "source_id" -> {a.file}
      [] key = "node_type" -> {a.kind}
      [] key = "extra"     -> a.extra
      [] OTHER             -> {}

Satisfies(a, l) ==
    IF l.op \in {"!=", "exclude"} THEN Field(a, l.key) \cap l.vals = {}
    ELSE Field(a, l.key) \cap l.vals # {}

SatisfiesGroup(a, user) ==
    \/ user.leaves = {}
    \/ user.cond = "and" /\ \A l \in user.leaves : Satisfies(a, l)
    \/ user.cond = "or" /\ \E l \in user.leaves : Satisfies(a, l)

-----------------------------------------------------------------------------
(* What each store makes of it.  Qdrant drops the operators it does not     *)
(* know and every nested group; the Tencent store refuses unknown operators.*)
TencentOps == {"==", "any", "all", "in", "exclude", "!="}
Refused(backend, user, own, index) ==
    backend = "tencent"
    /\ \E l \in Clean(user.leaves, index) \cup Clean(own, index) : l.op \notin TencentOps

QdrantMatch(a, user, own) ==
    \A l \in own : l.op \in {"==", "in", "!="} => Satisfies(a, l)

TencentMatch(a, user, own) ==
    SatisfiesGroup(a, user) /\ \A l \in own : Satisfies(a, l)

VectorMatch(backend, a, user, own, index) ==
    LET asked == [user EXCEPT !.leaves = Clean(user.leaves, index)] IN
    IF backend = "qdrant" THEN QdrantMatch(a, asked, Clean(own, index))
                          ELSE TencentMatch(a, asked, Clean(own, index))

(* Elasticsearch takes every leaf for a term and ignores nested groups.     *)
EsMatch(a, own) == \A l \in Clean(own, "es") : Field(a, l.key) \cap l.vals # {}
=============================================================================
