------------------------- MODULE ChunkEditingProofs -------------------------
(***************************************************************************)
(* A committed chunk keeps its vector and its index entry, and the stores  *)
(* agree on its content, for any number of editors, calls and faults.      *)
(*                                                                         *)
(* Both rest on the row locks: an editor that writes the stores has locked *)
(* the chunk's row from its write of the row to its end.  Only the removal *)
(* of the contexts writes the stores first; until it has locked the rows,  *)
(* what it removes may be added again.                                     *)
(***************************************************************************)
EXTENDS ChunkEditing, FiniteSetTheorems, TLAPS

Last == [none |-> 0, add |-> 6, update |-> 7, delete |-> 8, context |-> 7, clear |-> 6]
In(e, kinds, n) == call[e].kind \in kinds /\ pc[e] >= n

(* How far a call has come: it has saved its chunk, written it to the       *)
(* stores, marked rows as gone, removed them from the stores.               *)
Saved(e) == In(e, {"add", "update", "context"}, 4)
VecDone(e) == In(e, {"add", "update"}, 5) \/ In(e, {"context"}, 6)
EsDone(e) == In(e, {"add", "update"}, 6) \/ In(e, {"context"}, 7)
RowGone(e) == In(e, {"delete"}, 3) \/ In(e, {"clear"}, 5)
VecGone(e) == In(e, {"delete"}, 5) \/ In(e, {"clear"}, 3)
EsGone(e) == In(e, {"delete"}, 6) \/ In(e, {"clear"}, 4)
Open(e) == call[e].kind = "clear" /\ pc[e] <= 4

StoreTypes ==
    /\ \A i \in DOMAIN rows : i \in Ids /\ rows[i] \in ChunkRow
    /\ \A i \in DOMAIN vec : i \in Ids /\ vec[i] \in Texts
    /\ \A i \in DOMAIN es : i \in Ids /\ es[i] \in Texts \cup {Blank}
    /\ pks \in Nat /\ stranded \subseteq Ids /\ torn \subseteq Ids
WriteTypes ==
    /\ DOMAIN writes = Editors
    /\ \A e \in Editors : \A i \in DOMAIN writes[e] :
         i \in Ids /\ writes[e][i] \in ChunkRow \cup {Gone}

(* A call k at its step n. *)
CallAt(k, n) ==
    /\ n \in 0..Last[k.kind]
    /\ n = 0 => k = NoCall
    /\ n # 0 => k.kind # "none"
    /\ n # 0 /\ k.kind # "clear" => \E i \in Ids : k.ids = {i}
    /\ n >= 2 /\ k.kind # "clear" => k.row \in ChunkRow
    /\ k.kind \in {"add", "context"} => k.text \in Texts
CallTypes ==
    /\ call \in [Editors -> Call] /\ DOMAIN pc = Editors
    /\ \A e \in Editors : CallAt(call[e], pc[e])
TypeInv == StoreTypes /\ WriteTypes /\ CallTypes

(* The open transactions. *)
Disjoint ==
    \A e, f \in Editors : e # f => DOMAIN writes[e] \cap DOMAIN writes[f] = {}
Untouched ==
    \A e \in Editors : pc[e] <= 1 \/ Open(e) => DOMAIN writes[e] = {}
GoneRows ==
    \A e \in Editors : \A i \in DOMAIN writes[e] :
        writes[e][i] = Gone => RowGone(e) /\ i \in call[e].ids
DeletedRow ==
    \A e \in Editors : call[e].kind = "delete" /\ RowGone(e) =>
        \A i \in call[e].ids : i \in DOMAIN writes[e] /\ writes[e][i] = Gone
SavedRow ==
    \A e \in Editors : Saved(e) =>
        \A i \in call[e].ids : i \in DOMAIN writes[e] /\ writes[e][i].text = call[e].row.text
OtherRows ==
    \A e \in Editors : \A i \in DOMAIN writes[e] :
        writes[e][i] # Gone /\ ~(Saved(e) /\ i \in call[e].ids) =>
            i \in DOMAIN rows /\ writes[e][i].text = rows[i].text
LockInv == Disjoint /\ Untouched /\ GoneRows /\ DeletedRow /\ SavedRow /\ OtherRows

(* Where a chunk's vector, or its entry in the index, may be missing. *)
Covers(f, i) ==
    i \in call[f].ids /\ (Open(f) \/ (i \in DOMAIN writes[f] /\ writes[f][i] = Gone))
FindVec ==
    /\ \A i \in DOMAIN rows \ stranded :
         i \in DOMAIN vec \/ \E f \in Editors : VecGone(f) /\ Covers(f, i)
    /\ \A e \in Editors : VecDone(e) => \A i \in call[e].ids \ stranded :
         i \in DOMAIN vec \/ \E f \in Editors : VecGone(f) /\ Open(f) /\ i \in call[f].ids
FindEs ==
    /\ \A i \in DOMAIN rows \ stranded :
         i \in DOMAIN es \/ \E f \in Editors : EsGone(f) /\ Covers(f, i)
    /\ \A e \in Editors : EsDone(e) => \A i \in call[e].ids \ stranded :
         i \in DOMAIN es \/ \E f \in Editors : EsGone(f) /\ Open(f) /\ i \in call[f].ids

(* Where the stores may hold another content than the row. *)
SameVec ==
    /\ \A i \in (DOMAIN rows \cap DOMAIN vec) \ torn :
         vec[i] = rows[i].text \/ \E e \in Editors : VecDone(e) /\ i \in call[e].ids
    /\ \A e \in Editors : VecDone(e) => \A i \in (call[e].ids \cap DOMAIN vec) \ torn :
         vec[i] = call[e].row.text
SameEs ==
    /\ \A i \in (DOMAIN rows \cap DOMAIN es) \ torn :
         es[i] = rows[i].text \/ \E e \in Editors : EsDone(e) /\ i \in call[e].ids
    /\ \A e \in Editors : EsDone(e) => \A i \in (call[e].ids \cap DOMAIN es) \ torn :
         es[i] = call[e].row.text

StoreInv == FindVec /\ FindEs /\ SameVec /\ SameEs
Inv == TypeInv /\ LockInv /\ StoreInv

-----------------------------------------------------------------------------
LEMMA RowNotGone == ASSUME NEW r \in ChunkRow PROVE r # Gone
  BY DEF ChunkRow, Gone

LEMMA KindOf ==
    ASSUME TypeInv, NEW e \in Editors
    PROVE  /\ call[e].kind \in {"none", "add", "update", "delete", "context", "clear"}
           /\ pc[e] \in Nat
           /\ pc[e] = 0 <=> call[e].kind = "none"
  <1>1. call[e].kind \in {"none", "add", "update", "delete", "context", "clear"}
    BY DEF TypeInv, CallTypes, Call
  <1>2. Last[call[e].kind] \in Nat
    BY <1>1 DEF Last
  <1>3. pc[e] \in Nat
    BY <1>2 DEF TypeInv, CallTypes, CallAt
  <1>4. pc[e] = 0 <=> call[e].kind = "none"
    BY DEF TypeInv, CallTypes, CallAt, NoCall
  <1>5. QED BY <1>1, <1>3, <1>4

(* Where a call stands when it is about to take a step. *)
At(e, kind, n) == call[e].kind = kind /\ pc[e] = n
Place(e) ==
    /\ StepOf(e) = "maxId" => At(e, "add", 1) \/ At(e, "context", 1)
    /\ StepOf(e) = "shiftUp" => At(e, "add", 2) \/ At(e, "context", 2)
    /\ StepOf(e) = "insert" => At(e, "add", 3) \/ At(e, "context", 3)
    /\ StepOf(e) = "mark" => At(e, "context", 4)
    /\ StepOf(e) = "fetch" => At(e, "update", 1) \/ At(e, "delete", 1)
    /\ StepOf(e) = "save" => At(e, "update", 3)
    /\ StepOf(e) = "vec" => At(e, "add", 4) \/ At(e, "update", 4) \/ At(e, "context", 5)
    /\ StepOf(e) = "es" => At(e, "add", 5) \/ At(e, "update", 5) \/ At(e, "context", 6)
    /\ StepOf(e) = "dropRow" => At(e, "delete", 2)
    /\ StepOf(e) = "shiftDown" => At(e, "delete", 3)
    /\ StepOf(e) = "dropVec" => At(e, "delete", 4) \/ At(e, "clear", 2)
    /\ StepOf(e) = "dropEs" => At(e, "delete", 5) \/ At(e, "clear", 3)
    /\ StepOf(e) = "uncache" => At(e, "update", 2) \/ At(e, "delete", 6)
    /\ StepOf(e) = "token" => At(e, "update", 6) \/ At(e, "delete", 7)
    /\ StepOf(e) = "fetchContexts" => At(e, "clear", 1)
    /\ StepOf(e) = "dropRows" => At(e, "clear", 4)
    /\ StepOf(e) = "unmark" => At(e, "clear", 5)
    /\ StepOf(e) = "commit" => \/ At(e, "add", 6) \/ At(e, "update", 7) \/ At(e, "delete", 8)
                               \/ At(e, "context", 7) \/ At(e, "clear", 6)
    /\ StepOf(e) \in {"none", "maxId", "shiftUp", "insert", "mark", "fetch", "save", "vec", "es",
                      "dropRow", "shiftDown", "dropVec", "dropEs", "uncache", "token",
                      "fetchContexts", "dropRows", "unmark", "commit"}

LEMMA Places == ASSUME TypeInv, NEW e \in Editors PROVE Place(e)
  <1>1. CASE pc[e] = 0
    BY <1>1 DEF StepOf, Active, Place
  <1>2. CASE pc[e] # 0 /\ call[e].kind = "add"
    <2>1. pc[e] \in {1, 2, 3, 4, 5, 6}
      BY <1>2 DEF TypeInv, CallTypes, CallAt, Last
    <2>2. StepOf(e) = AddChunk[pc[e]]
      BY <1>2 DEF StepOf, Active, Program
    <2>3. QED BY <1>2, <2>1, <2>2 DEF Place, At, AddChunk
  <1>3. CASE pc[e] # 0 /\ call[e].kind = "update"
    <2>1. pc[e] \in {1, 2, 3, 4, 5, 6, 7}
      BY <1>3 DEF TypeInv, CallTypes, CallAt, Last
    <2>2. StepOf(e) = UpdateChunk[pc[e]]
      BY <1>3 DEF StepOf, Active, Program
    <2>3. QED BY <1>3, <2>1, <2>2 DEF Place, At, UpdateChunk
  <1>4. CASE pc[e] # 0 /\ call[e].kind = "delete"
    <2>1. pc[e] \in {1, 2, 3, 4, 5, 6, 7, 8}
      BY <1>4 DEF TypeInv, CallTypes, CallAt, Last
    <2>2. StepOf(e) = DeleteChunk[pc[e]]
      BY <1>4 DEF StepOf, Active, Program
    <2>3. QED BY <1>4, <2>1, <2>2 DEF Place, At, DeleteChunk
  <1>5. CASE pc[e] # 0 /\ call[e].kind = "context"
    <2>1. pc[e] \in {1, 2, 3, 4, 5, 6, 7}
      BY <1>5 DEF TypeInv, CallTypes, CallAt, Last
    <2>2. StepOf(e) = SaveContext[pc[e]]
      BY <1>5 DEF StepOf, Active, Program
    <2>3. QED BY <1>5, <2>1, <2>2 DEF Place, At, SaveContext
  <1>6. CASE pc[e] # 0 /\ call[e].kind = "clear"
    <2>1. pc[e] \in {1, 2, 3, 4, 5, 6}
      BY <1>6 DEF TypeInv, CallTypes, CallAt, Last
    <2>2. StepOf(e) = ClearContexts[pc[e]]
      BY <1>6 DEF StepOf, Active, Program
    <2>3. QED BY <1>6, <2>1, <2>2 DEF Place, At, ClearContexts
  <1>7. QED BY <1>1, <1>2, <1>3, <1>4, <1>5, <1>6, KindOf

(* What a statement sees: committed rows and those of its own transaction, *)
(* without the ones it has deleted.                                         *)
LEMMA ViewRows ==
    ASSUME TypeInv, NEW e \in Editors
    PROVE  /\ \A i \in DOMAIN View(e) :
                /\ i \in Ids /\ View(e)[i] \in ChunkRow
                /\ View(e)[i] = IF i \in DOMAIN writes[e] THEN writes[e][i] ELSE rows[i]
                /\ i \in DOMAIN rows \/ i \in DOMAIN writes[e]
           /\ \A i \in DOMAIN writes[e] : i \in DOMAIN View(e) <=> writes[e][i] # Gone
           /\ \A i \in DOMAIN rows \ DOMAIN writes[e] : i \in DOMAIN View(e)
  <1> DEFINE f == With(rows, writes[e])
  <1>1. /\ DOMAIN f = DOMAIN rows \cup DOMAIN writes[e]
        /\ \A i \in DOMAIN f : f[i] = IF i \in DOMAIN writes[e] THEN writes[e][i] ELSE rows[i]
    BY DEF With
  <1>2. View(e) = [i \in {j \in DOMAIN f : f[j] # Gone} |-> f[i]]
    BY DEF View
  <1> HIDE DEF f
  <1>3. /\ DOMAIN View(e) = {j \in DOMAIN f : f[j] # Gone}
        /\ \A i \in DOMAIN View(e) : View(e)[i] = f[i]
    BY <1>2
  <1>4. \A i \in DOMAIN rows : rows[i] \in ChunkRow /\ rows[i] # Gone /\ i \in Ids
    BY RowNotGone DEF TypeInv, StoreTypes
  <1>5. \A i \in DOMAIN writes[e] : i \in Ids /\ writes[e][i] \in ChunkRow \cup {Gone}
    BY DEF TypeInv, WriteTypes
  <1>6. QED BY <1>1, <1>3, <1>4, <1>5

-----------------------------------------------------------------------------
(* What the flags of a call say about each other. *)
LEMMA FlagOrder ==
    ASSUME TypeInv, NEW e \in Editors
    PROVE  /\ VecDone(e) => Saved(e)
           /\ EsDone(e) => Saved(e)
           /\ EsGone(e) => VecGone(e)
           /\ VecGone(e) => RowGone(e) \/ Open(e)
           /\ Saved(e) => ~RowGone(e) /\ ~VecGone(e) /\ ~EsGone(e) /\ ~Open(e)
           /\ RowGone(e) => ~Open(e)
           /\ RowGone(e) \/ VecGone(e) => call[e].kind \in {"delete", "clear"}
  BY KindOf DEF VecDone, Saved, EsDone, EsGone, VecGone, RowGone, Open, In

Others(e) ==
    \A f \in Editors \ {e} : call'[f] = call[f] /\ pc'[f] = pc[f] /\ writes'[f] = writes[f]
FlagsKept(e) ==
    /\ Saved(e)' <=> Saved(e)
    /\ VecDone(e)' <=> VecDone(e)
    /\ EsDone(e)' <=> EsDone(e)
    /\ RowGone(e)' <=> RowGone(e)
    /\ VecGone(e)' <=> VecGone(e)
    /\ EsGone(e)' <=> EsGone(e)

LEMMA OthersKept ==
    ASSUME NEW e \in Editors, Others(e), NEW f \in Editors, f # e
    PROVE  /\ call'[f] = call[f] /\ pc'[f] = pc[f] /\ writes'[f] = writes[f]
           /\ FlagsKept(f) /\ (Open(f)' <=> Open(f))
           /\ \A i : Covers(f, i)' <=> Covers(f, i)
  BY DEF Others, FlagsKept, Saved, VecDone, EsDone, RowGone, VecGone, EsGone, Open, In, Covers

(* A step that takes one editor from call k at step n to another place. *)
LEMMA CallStep ==
    ASSUME CallTypes, NEW e \in Editors, NEW k \in Call, NEW n \in Nat, CallAt(k, n),
           call' = [call EXCEPT ![e] = k], pc' = [pc EXCEPT ![e] = n]
    PROVE  CallTypes' /\ call'[e] = k /\ pc'[e] = n
           /\ \A f \in Editors \ {e} : call'[f] = call[f] /\ pc'[f] = pc[f]
  <1>1. call'[e] = k /\ pc'[e] = n /\ call' \in [Editors -> Call] /\ DOMAIN pc' = Editors
        /\ \A f \in Editors \ {e} : call'[f] = call[f] /\ pc'[f] = pc[f]
    BY DEF CallTypes
  <1>2. ASSUME NEW f \in Editors PROVE CallAt(call'[f], pc'[f])
    <2>1. CASE f = e
      BY <2>1, <1>1
    <2>2. CASE f # e
      BY <2>2, <1>1 DEF CallTypes
    <2>3. QED BY <2>1, <2>2
  <1>3. CallTypes'
    BY <1>1, <1>2 DEF CallTypes
  <1>4. QED BY <1>1, <1>3

LEMMA NoCallTypes == NoCall \in Call /\ CallAt(NoCall, 0)
  <1>1. NoCall \in Call
    BY DEF NoCall, Call, NoText
  <1>2. CallAt(NoCall, 0)
    BY DEF CallAt, Last, NoCall
  <1>3. QED BY <1>1, <1>2

-----------------------------------------------------------------------------
(* Steps that change no store and no content: a call moves on, and writes   *)
(* rows S without touching what they say.                                   *)
LEMMA Touching ==
    ASSUME TypeInv, LockInv, StoreInv, NEW e \in Editors, Others(e), FlagsKept(e),
           DOMAIN writes' = Editors, UNCHANGED <<rows, vec, es>>,
           stranded' = stranded, torn' = torn,
           Saved(e) \/ RowGone(e) \/ VecGone(e) =>
               /\ call'[e].ids = call[e].ids /\ (Open(e)' <=> Open(e))
               /\ call'[e].kind = call[e].kind
               /\ call'[e].row = call[e].row,
           NEW S, DOMAIN writes'[e] = DOMAIN writes[e] \cup S,
           \A f \in Editors \ {e} : S \cap DOMAIN writes[f] = {},
           \A i \in DOMAIN writes[e] :
               IF writes[e][i] = Gone THEN writes'[e][i] = Gone
               ELSE writes'[e][i] # Gone /\ writes'[e][i].text = writes[e][i].text,
           \A i \in S \ DOMAIN writes[e] :
               i \in DOMAIN rows /\ writes'[e][i] # Gone /\ writes'[e][i].text = rows[i].text,
           pc'[e] <= 1 \/ Open(e)' => DOMAIN writes'[e] = {}
    PROVE  LockInv' /\ StoreInv'
  <1>1. Disjoint'
    BY DEF Disjoint, Others, LockInv
  <1>2. Untouched'
    <2>1. ASSUME NEW f \in Editors, pc'[f] <= 1 \/ Open(f)' PROVE DOMAIN writes'[f] = {}
      BY <2>1, OthersKept DEF LockInv, Untouched
    <2>2. QED BY <2>1 DEF Untouched
  <1>3. GoneRows'
    <2>1. ASSUME NEW f \in Editors, NEW i \in DOMAIN writes'[f], writes'[f][i] = Gone
          PROVE  RowGone(f)' /\ i \in call'[f].ids
      BY <2>1, OthersKept DEF LockInv, GoneRows, FlagsKept
    <2>2. QED BY <2>1 DEF GoneRows
  <1>4. DeletedRow'
    <2>1. ASSUME NEW f \in Editors, call'[f].kind = "delete", RowGone(f)', NEW i \in call'[f].ids
          PROVE  i \in DOMAIN writes'[f] /\ writes'[f][i] = Gone
      BY <2>1, OthersKept DEF LockInv, DeletedRow, FlagsKept
    <2>2. QED BY <2>1 DEF DeletedRow
  <1>5. SavedRow'
    <2>1. ASSUME NEW f \in Editors, Saved(f)', NEW i \in call'[f].ids
          PROVE  i \in DOMAIN writes'[f] /\ writes'[f][i].text = call'[f].row.text
      <3>1. CASE f # e
        BY <2>1, <3>1, OthersKept DEF LockInv, SavedRow, FlagsKept
      <3>2. CASE f = e
        <4>1. Saved(e) /\ ~RowGone(e)
          BY <2>1, <3>2, FlagOrder DEF FlagsKept
        <4>2. i \in DOMAIN writes[e] /\ writes[e][i].text = call[e].row.text
          BY <2>1, <3>2, <4>1 DEF LockInv, SavedRow
        <4>3. writes[e][i] # Gone
          BY <4>1, <4>2 DEF LockInv, GoneRows
        <4>4. QED BY <3>2, <4>1, <4>2, <4>3
      <3>3. QED BY <3>1, <3>2
    <2>2. QED BY <2>1 DEF SavedRow
  <1>6. OtherRows'
    <2>1. ASSUME NEW f \in Editors, NEW i \in DOMAIN writes'[f],
                 writes'[f][i] # Gone, ~(Saved(f)' /\ i \in call'[f].ids)
          PROVE  i \in DOMAIN rows' /\ writes'[f][i].text = rows'[i].text
      <3>1. CASE f # e
        BY <2>1, <3>1, OthersKept DEF LockInv, OtherRows, FlagsKept
      <3>2. CASE f = e /\ i \in DOMAIN writes[e]
        BY <2>1, <3>2 DEF LockInv, OtherRows, FlagsKept
      <3>3. CASE f = e /\ i \notin DOMAIN writes[e]
        BY <2>1, <3>3
      <3>4. QED BY <3>1, <3>2, <3>3
    <2>2. QED BY <2>1 DEF OtherRows
  <1>7. \A f \in Editors : FlagsKept(f)
    BY OthersKept
  <1>8. \A f \in Editors : (Saved(f) \/ VecGone(f)) => call'[f].ids = call[f].ids
                                    /\ call'[f].row = call[f].row
    BY OthersKept
  <1>9. \A f \in Editors : \A i : VecGone(f) /\ Covers(f, i) => Covers(f, i)'
    <2>1. ASSUME NEW f \in Editors, NEW i, VecGone(f), Covers(f, i) PROVE Covers(f, i)'
      <3>1. CASE f # e
        BY <2>1, <3>1, OthersKept
      <3>2. CASE f = e
        BY <2>1, <3>2 DEF Covers
      <3>3. QED BY <3>1, <3>2
    <2>2. QED BY <2>1
  <1>10. \A f \in Editors : VecGone(f) => (Open(f)' <=> Open(f))
    BY OthersKept
  <1>11. \A f \in Editors : /\ VecDone(f) => Saved(f)
                            /\ EsDone(f) => Saved(f)
                            /\ EsGone(f) => VecGone(f)
    BY FlagOrder
  <1>12. FindVec' /\ FindEs'
    BY <1>7, <1>8, <1>9, <1>10, <1>11 DEF StoreInv, FindVec, FindEs, FlagsKept
  <1>13. SameVec' /\ SameEs'
    BY <1>7, <1>8, <1>11 DEF StoreInv, SameVec, SameEs, FlagsKept
  <1>14. QED BY <1>1, <1>2, <1>3, <1>4, <1>5, <1>6, <1>12, <1>13 DEF LockInv, StoreInv

(* Calls that end without committing. *)
LEMMA Ending ==
    ASSUME TypeInv, LockInv, StoreInv, NEW D \in SUBSET Editors,
           \A f \in Editors \ D : call'[f] = call[f] /\ pc'[f] = pc[f] /\ writes'[f] = writes[f],
           \A e \in D : call'[e] = NoCall /\ pc'[e] = 0 /\ writes'[e] = <<>>,
           UNCHANGED <<rows, vec>>, stranded \subseteq stranded', torn \subseteq torn',
           \A e \in D : VecGone(e) => call[e].ids \subseteq stranded',
           \A e \in D : VecDone(e) \/ EsDone(e) => call[e].ids \subseteq torn',
           DOMAIN es \subseteq DOMAIN es',
           \A i \in DOMAIN es' \ torn' : i \in DOMAIN es /\ es'[i] = es[i]
    PROVE  LockInv' /\ StoreInv'
  <1>1. \A e \in D : /\ DOMAIN writes'[e] = {}
                     /\ ~Saved(e)' /\ ~RowGone(e)' /\ ~VecGone(e)' /\ ~VecDone(e)'
                     /\ ~EsDone(e)' /\ ~EsGone(e)' /\ ~Open(e)'
                     /\ call'[e].kind = "none"
    BY DEF Saved, VecDone, EsDone, RowGone, VecGone, EsGone, Open, In, NoCall
  <1>2. \A f \in Editors \ D :
          /\ FlagsKept(f) /\ (Open(f)' <=> Open(f))
          /\ \A i : Covers(f, i)' <=> Covers(f, i)
    BY DEF FlagsKept, Saved, VecDone, EsDone, RowGone, VecGone, EsGone, Open, In, Covers
  <1>3. Disjoint'
    BY <1>1 DEF LockInv, Disjoint
  <1>4. Untouched'
    BY <1>1, <1>2 DEF LockInv, Untouched
  <1>5. GoneRows'
    BY <1>1, <1>2 DEF LockInv, GoneRows, FlagsKept
  <1>6. DeletedRow'
    BY <1>1, <1>2 DEF LockInv, DeletedRow, FlagsKept
  <1>7. SavedRow'
    BY <1>1, <1>2 DEF LockInv, SavedRow, FlagsKept
  <1>8. OtherRows'
    BY <1>1, <1>2 DEF LockInv, OtherRows, FlagsKept
  <1>9. \A e \in Editors : EsGone(e) => VecGone(e)
    BY FlagOrder
  <1>10. \A f \in Editors : \A i : Covers(f, i) => i \in call[f].ids
    BY DEF Covers
  <1>11. FindVec'
    BY <1>1, <1>2, <1>10 DEF StoreInv, FindVec, FlagsKept
  <1>12. FindEs'
    BY <1>1, <1>2, <1>9, <1>10 DEF StoreInv, FindEs, FlagsKept
  <1>13. SameVec'
    BY <1>1, <1>2 DEF StoreInv, SameVec, FlagsKept
  <1>14. SameEs'
    BY <1>1, <1>2 DEF StoreInv, SameEs, FlagsKept
  <1>15. QED
    BY <1>3, <1>4, <1>5, <1>6, <1>7, <1>8, <1>11, <1>12, <1>13, <1>14 DEF LockInv, StoreInv

(* A chunk is saved. *)
LEMMA Saving ==
    ASSUME TypeInv, LockInv, StoreInv, NEW e \in Editors, Others(e),
           DOMAIN writes' = Editors, UNCHANGED <<rows, vec, es, stranded, torn>>,
           ~Saved(e), ~RowGone(e), ~VecGone(e), Saved(e)', ~VecDone(e)', ~EsDone(e)',
           call'[e].kind \in {"add", "update", "context"}, ~(pc'[e] <= 1),
           call'[e].ids = call[e].ids,
           NEW S, DOMAIN writes'[e] = DOMAIN writes[e] \cup S, call[e].ids = S,
           \A f \in Editors \ {e} : S \cap DOMAIN writes[f] = {},
           \A i \in S : writes'[e][i] # Gone /\ writes'[e][i].text = call'[e].row.text,
           \A i \in DOMAIN writes[e] \ S : writes'[e][i] = writes[e][i]
    PROVE  LockInv' /\ StoreInv'
  <1>1. \A f \in Editors \ {e} :
          /\ call'[f] = call[f] /\ pc'[f] = pc[f] /\ writes'[f] = writes[f]
          /\ FlagsKept(f) /\ (Open(f)' <=> Open(f))
          /\ \A i : Covers(f, i)' <=> Covers(f, i)
    BY OthersKept
  <1>2. ~RowGone(e)' /\ ~VecGone(e)' /\ ~EsGone(e)' /\ ~Open(e)'
    BY DEF VecGone, EsGone, RowGone, Open, In
  <1>3. ~VecDone(e) /\ ~EsDone(e) /\ ~EsGone(e)
    BY FlagOrder
  <1>4. \A i \in DOMAIN writes[e] : writes[e][i] # Gone
    BY DEF LockInv, GoneRows
  <1>5. Disjoint'
    BY <1>1 DEF LockInv, Disjoint
  <1>6. Untouched'
    <2>1. ASSUME NEW f \in Editors, pc'[f] <= 1 \/ Open(f)' PROVE DOMAIN writes'[f] = {}
      BY <2>1, <1>1, <1>2 DEF LockInv, Untouched
    <2>2. QED BY <2>1 DEF Untouched
  <1>7. GoneRows'
    BY <1>1, <1>4 DEF LockInv, GoneRows, FlagsKept
  <1>8. DeletedRow'
    BY <1>1, <1>2 DEF LockInv, DeletedRow, FlagsKept
  <1>9. SavedRow'
    BY <1>1 DEF LockInv, SavedRow, FlagsKept
  <1>10. OtherRows'
    BY <1>1 DEF LockInv, OtherRows, FlagsKept
  <1>11. FindVec' /\ FindEs'
    BY <1>1, <1>3 DEF StoreInv, FindVec, FindEs, FlagsKept
  <1>12. SameVec' /\ SameEs'
    BY <1>1, <1>3 DEF StoreInv, SameVec, SameEs, FlagsKept
  <1>13. QED
    BY <1>5, <1>6, <1>7, <1>8, <1>9, <1>10, <1>11, <1>12 DEF LockInv, StoreInv

(* Rows are marked as gone: by a deletion before it writes the stores, by   *)
(* the removal of the contexts after that.                                  *)
LEMMA Erasure ==
    ASSUME TypeInv, LockInv, StoreInv, NEW e \in Editors, Others(e),
           DOMAIN writes' = Editors, UNCHANGED <<rows, vec, es, stranded, torn>>,
           call'[e] = call[e], call[e].kind \in {"delete", "clear"}, ~(pc'[e] <= 1),
           ~RowGone(e), RowGone(e)', VecGone(e)' <=> VecGone(e), EsGone(e)' <=> EsGone(e), ~Open(e)',
           NEW S, S \subseteq call[e].ids, DOMAIN writes'[e] = DOMAIN writes[e] \cup S,
           call[e].kind = "delete" => S = call[e].ids,
           Open(e) => call[e].ids \cap DOMAIN rows \subseteq S,
           \A f \in Editors \ {e} : call[e].ids \cap DOMAIN writes[f] = {},
           \A i \in S : writes'[e][i] = Gone,
           \A i \in DOMAIN writes[e] \ S : writes'[e][i] = writes[e][i]
    PROVE  LockInv' /\ StoreInv'
  <1>1. \A f \in Editors \ {e} :
          /\ call'[f] = call[f] /\ pc'[f] = pc[f] /\ writes'[f] = writes[f]
          /\ FlagsKept(f) /\ (Open(f)' <=> Open(f))
          /\ \A i : Covers(f, i)' <=> Covers(f, i)
    BY OthersKept
  <1>2. /\ ~Saved(e) /\ ~VecDone(e) /\ ~EsDone(e)
        /\ ~Saved(e)' /\ ~VecDone(e)' /\ ~EsDone(e)'
    BY DEF Saved, VecDone, EsDone, In
  <1>3. \A f \in Editors : /\ VecDone(f) => Saved(f)
                           /\ EsDone(f) => Saved(f)
    BY FlagOrder
  <1>4. (VecGone(e) => Open(e)) /\ (EsGone(e) => Open(e))
    BY FlagOrder
  <1>5. \A i : i \in DOMAIN rows /\ VecGone(e) /\ Covers(e, i) => Covers(e, i)'
    BY <1>4 DEF Covers
  <1>6. \A i : i \in DOMAIN rows /\ EsGone(e) /\ Covers(e, i) => Covers(e, i)'
    BY <1>4 DEF Covers
  <1>7. \A f \in Editors : VecDone(f) \/ EsDone(f) => \A i \in call[f].ids : i \notin call[e].ids
    BY <1>2, <1>3 DEF LockInv, SavedRow
  <1>8. Disjoint'
    BY <1>1 DEF LockInv, Disjoint
  <1>9. Untouched'
    <2>1. ASSUME NEW f \in Editors, pc'[f] <= 1 \/ Open(f)' PROVE DOMAIN writes'[f] = {}
      BY <2>1, <1>1 DEF LockInv, Untouched
    <2>2. QED BY <2>1 DEF Untouched
  <1>10. GoneRows'
    BY <1>1 DEF LockInv, GoneRows, FlagsKept
  <1>11. DeletedRow'
    BY <1>1 DEF LockInv, DeletedRow, FlagsKept
  <1>12. SavedRow'
    BY <1>1, <1>2 DEF LockInv, SavedRow, FlagsKept
  <1>13. OtherRows'
    BY <1>1, <1>2 DEF LockInv, OtherRows, FlagsKept
  <1>14. FindVec'
    BY <1>1, <1>2, <1>5, <1>7 DEF StoreInv, FindVec, FlagsKept
  <1>15. FindEs'
    BY <1>1, <1>2, <1>6, <1>7 DEF StoreInv, FindEs, FlagsKept
  <1>16. SameVec' /\ SameEs'
    BY <1>1, <1>2 DEF StoreInv, SameVec, SameEs, FlagsKept
  <1>17. QED
    BY <1>8, <1>9, <1>10, <1>11, <1>12, <1>13, <1>14, <1>15, <1>16 DEF LockInv, StoreInv

(* A step that writes a store and no row keeps what the transactions say. *)
LEMMA StoreStep ==
    ASSUME TypeInv, LockInv, NEW e \in Editors, Others(e), UNCHANGED <<rows, writes>>,
           call'[e] = call[e], ~(pc'[e] <= 1), Saved(e)' <=> Saved(e), RowGone(e)' <=> RowGone(e),
           Open(e)' => Open(e)
    PROVE  /\ LockInv'
           /\ \A f \in Editors \ {e} :
                /\ call'[f] = call[f] /\ pc'[f] = pc[f] /\ writes'[f] = writes[f]
                /\ FlagsKept(f) /\ (Open(f)' <=> Open(f))
                /\ \A i : Covers(f, i)' <=> Covers(f, i)
  <1>1. \A f \in Editors \ {e} :
          /\ call'[f] = call[f] /\ pc'[f] = pc[f] /\ writes'[f] = writes[f]
          /\ FlagsKept(f) /\ (Open(f)' <=> Open(f))
          /\ \A i : Covers(f, i)' <=> Covers(f, i)
    BY OthersKept
  <1>2. Disjoint'
    BY DEF LockInv, Disjoint
  <1>3. Untouched'
    <2>1. ASSUME NEW f \in Editors, pc'[f] <= 1 \/ Open(f)' PROVE DOMAIN writes'[f] = {}
      BY <2>1, <1>1 DEF LockInv, Untouched
    <2>2. QED BY <2>1 DEF Untouched
  <1>4. GoneRows'
    BY <1>1 DEF LockInv, GoneRows, FlagsKept
  <1>5. DeletedRow'
    BY <1>1 DEF LockInv, DeletedRow, FlagsKept
  <1>6. SavedRow'
    BY <1>1 DEF LockInv, SavedRow, FlagsKept
  <1>7. OtherRows'
    BY <1>1 DEF LockInv, OtherRows, FlagsKept
  <1>8. QED BY <1>1, <1>2, <1>3, <1>4, <1>5, <1>6, <1>7 DEF LockInv

(* Two calls do not write one chunk: each has its row locked. *)
LEMMA OneWriter ==
    ASSUME LockInv, NEW e \in Editors, NEW f \in Editors, e # f, Saved(f),
           Saved(e) \/ (RowGone(e) /\ call[e].kind = "delete"), NEW i \in call[e].ids
    PROVE  i \notin call[f].ids
  BY DEF LockInv, SavedRow, DeletedRow, Disjoint

LEMMA PutVec ==
    ASSUME TypeInv, LockInv, StoreInv, NEW e \in Editors, Others(e),
           UNCHANGED <<rows, writes, es, stranded, torn>>,
           call'[e] = call[e], ~(pc'[e] <= 1), Saved(e), Saved(e)', VecDone(e)',
           EsDone(e)' <=> EsDone(e), ~RowGone(e)', ~VecGone(e)', ~EsGone(e)', ~Open(e)',
           DOMAIN vec' = DOMAIN vec \cup call[e].ids,
           \A i \in DOMAIN vec' : vec'[i] = IF i \in call[e].ids THEN call[e].row.text ELSE vec[i]
    PROVE  LockInv' /\ StoreInv'
  <1>1. ~RowGone(e) /\ ~VecGone(e) /\ ~EsGone(e) /\ ~Open(e)
    BY FlagOrder
  <1>2. /\ LockInv'
        /\ \A f \in Editors \ {e} :
             /\ call'[f] = call[f] /\ pc'[f] = pc[f] /\ writes'[f] = writes[f]
             /\ FlagsKept(f) /\ (Open(f)' <=> Open(f))
             /\ \A i : Covers(f, i)' <=> Covers(f, i)
    BY <1>1, StoreStep
  <1>3. \A f \in Editors \ {e} : VecDone(f) => \A i \in call[e].ids : i \notin call[f].ids
    BY FlagOrder, OneWriter
  <1>4. FindVec'
    BY <1>1, <1>2 DEF StoreInv, FindVec, FlagsKept
  <1>5. FindEs'
    BY <1>1, <1>2 DEF StoreInv, FindEs, FlagsKept
  <1>6. SameVec'
    BY <1>1, <1>2, <1>3 DEF StoreInv, SameVec, FlagsKept
  <1>7. SameEs'
    BY <1>1, <1>2 DEF StoreInv, SameEs, FlagsKept
  <1>8. QED BY <1>2, <1>4, <1>5, <1>6, <1>7 DEF StoreInv

LEMMA PutEs ==
    ASSUME TypeInv, LockInv, StoreInv, NEW e \in Editors, Others(e),
           UNCHANGED <<rows, writes, vec, stranded, torn>>,
           call'[e] = call[e], ~(pc'[e] <= 1), Saved(e), Saved(e)', EsDone(e)',
           VecDone(e)' <=> VecDone(e), ~RowGone(e)', ~VecGone(e)', ~EsGone(e)', ~Open(e)',
           DOMAIN es' = DOMAIN es \cup call[e].ids,
           \A i \in DOMAIN es' : es'[i] = IF i \in call[e].ids THEN call[e].row.text ELSE es[i]
    PROVE  LockInv' /\ StoreInv'
  <1>1. ~RowGone(e) /\ ~VecGone(e) /\ ~EsGone(e) /\ ~Open(e)
    BY FlagOrder
  <1>2. /\ LockInv'
        /\ \A f \in Editors \ {e} :
             /\ call'[f] = call[f] /\ pc'[f] = pc[f] /\ writes'[f] = writes[f]
             /\ FlagsKept(f) /\ (Open(f)' <=> Open(f))
             /\ \A i : Covers(f, i)' <=> Covers(f, i)
    BY <1>1, StoreStep
  <1>3. \A f \in Editors \ {e} : EsDone(f) => \A i \in call[e].ids : i \notin call[f].ids
    BY FlagOrder, OneWriter
  <1>4. FindVec'
    BY <1>1, <1>2 DEF StoreInv, FindVec, FlagsKept
  <1>5. FindEs'
    BY <1>1, <1>2 DEF StoreInv, FindEs, FlagsKept
  <1>6. SameVec'
    BY <1>1, <1>2 DEF StoreInv, SameVec, FlagsKept
  <1>7. SameEs'
    BY <1>1, <1>2, <1>3 DEF StoreInv, SameEs, FlagsKept
  <1>8. QED BY <1>2, <1>4, <1>5, <1>6, <1>7 DEF StoreInv

(* A chunk is removed from a store: its row is gone in the transaction, or  *)
(* the removal of the contexts has not come to the rows yet.                *)
LEMMA DropVec ==
    ASSUME TypeInv, LockInv, StoreInv, NEW e \in Editors, Others(e),
           UNCHANGED <<rows, writes, es, stranded, torn>>,
           call'[e] = call[e], ~(pc'[e] <= 1), ~Saved(e), ~Saved(e)', ~VecDone(e)', ~EsDone(e)',
           RowGone(e)' <=> RowGone(e), EsGone(e)' <=> EsGone(e), Open(e)' <=> Open(e),
           VecGone(e)', (RowGone(e) /\ call[e].kind = "delete") \/ Open(e),
           DOMAIN vec' = DOMAIN vec \ call[e].ids, \A i \in DOMAIN vec' : vec'[i] = vec[i]
    PROVE  LockInv' /\ StoreInv'
  <1>1. ~VecDone(e) /\ ~EsDone(e)
    BY FlagOrder
  <1>2. /\ LockInv'
        /\ \A f \in Editors \ {e} :
             /\ call'[f] = call[f] /\ pc'[f] = pc[f] /\ writes'[f] = writes[f]
             /\ FlagsKept(f) /\ (Open(f)' <=> Open(f))
             /\ \A i : Covers(f, i)' <=> Covers(f, i)
    BY StoreStep
  <1>3. \A f \in Editors \ {e} : VecDone(f) /\ ~Open(e) => \A i \in call[e].ids : i \notin call[f].ids
    BY FlagOrder, OneWriter
  <1>4. \A i : Covers(e, i)' <=> Covers(e, i)
    BY DEF Covers
  <1>5. \A i \in call[e].ids : Covers(e, i)
    BY DEF Covers, LockInv, DeletedRow
  <1>6. FindVec'
    BY <1>1, <1>2, <1>3, <1>4, <1>5 DEF StoreInv, FindVec, FlagsKept
  <1>7. FindEs'
    BY <1>1, <1>2, <1>4 DEF StoreInv, FindEs, FlagsKept
  <1>8. SameVec'
    BY <1>1, <1>2 DEF StoreInv, SameVec, FlagsKept
  <1>9. SameEs'
    BY <1>1, <1>2 DEF StoreInv, SameEs, FlagsKept
  <1>10. QED BY <1>2, <1>6, <1>7, <1>8, <1>9 DEF StoreInv

LEMMA DropEs ==
    ASSUME TypeInv, LockInv, StoreInv, NEW e \in Editors, Others(e),
           UNCHANGED <<rows, writes, vec, stranded, torn>>,
           call'[e] = call[e], ~(pc'[e] <= 1), ~Saved(e), ~Saved(e)', ~VecDone(e)', ~EsDone(e)',
           RowGone(e)' <=> RowGone(e), VecGone(e)' <=> VecGone(e), Open(e)' <=> Open(e),
           EsGone(e)', (RowGone(e) /\ call[e].kind = "delete") \/ Open(e),
           DOMAIN es' = DOMAIN es \ call[e].ids, \A i \in DOMAIN es' : es'[i] = es[i]
    PROVE  LockInv' /\ StoreInv'
  <1>1. ~VecDone(e) /\ ~EsDone(e)
    BY FlagOrder
  <1>2. /\ LockInv'
        /\ \A f \in Editors \ {e} :
             /\ call'[f] = call[f] /\ pc'[f] = pc[f] /\ writes'[f] = writes[f]
             /\ FlagsKept(f) /\ (Open(f)' <=> Open(f))
             /\ \A i : Covers(f, i)' <=> Covers(f, i)
    BY StoreStep
  <1>3. \A f \in Editors \ {e} : EsDone(f) /\ ~Open(e) => \A i \in call[e].ids : i \notin call[f].ids
    BY FlagOrder, OneWriter
  <1>4. \A i : Covers(e, i)' <=> Covers(e, i)
    BY DEF Covers
  <1>5. \A i \in call[e].ids : Covers(e, i)
    BY DEF Covers, LockInv, DeletedRow
  <1>6. FindVec'
    BY <1>1, <1>2, <1>4 DEF StoreInv, FindVec, FlagsKept
  <1>7. FindEs'
    BY <1>1, <1>2, <1>3, <1>4, <1>5 DEF StoreInv, FindEs, FlagsKept
  <1>8. SameVec'
    BY <1>1, <1>2 DEF StoreInv, SameVec, FlagsKept
  <1>9. SameEs'
    BY <1>1, <1>2 DEF StoreInv, SameEs, FlagsKept
  <1>10. QED BY <1>2, <1>6, <1>7, <1>8, <1>9 DEF StoreInv

(* A transaction commits: what it has written is now what the others see.   *)
LEMMA Committing ==
    ASSUME TypeInv, LockInv, StoreInv, NEW e \in Editors, Others(e),
           UNCHANGED <<vec, es, stranded, torn>>, rows' = View(e),
           call'[e] = NoCall, pc'[e] = 0, writes'[e] = <<>>,
           ~Open(e), Saved(e) => VecDone(e) /\ EsDone(e)
    PROVE  LockInv' /\ StoreInv'
  <1>1. /\ DOMAIN writes'[e] = {} /\ call'[e].kind = "none"
        /\ ~Saved(e)' /\ ~RowGone(e)' /\ ~VecGone(e)' /\ ~VecDone(e)'
        /\ ~EsDone(e)' /\ ~EsGone(e)' /\ ~Open(e)'
    BY DEF Saved, VecDone, EsDone, RowGone, VecGone, EsGone, Open, In, NoCall
  <1>2. \A f \in Editors \ {e} :
          /\ call'[f] = call[f] /\ pc'[f] = pc[f] /\ writes'[f] = writes[f]
          /\ FlagsKept(f) /\ (Open(f)' <=> Open(f))
          /\ \A i : Covers(f, i)' <=> Covers(f, i)
    BY OthersKept
  <1>3. \A i \in DOMAIN rows' :
          \/ i \in call[e].ids /\ Saved(e) /\ rows'[i].text = call[e].row.text
          \/ /\ i \in DOMAIN rows /\ rows'[i].text = rows[i].text
             /\ ~Covers(e, i) /\ ~(Saved(e) /\ i \in call[e].ids)
    <2>1. ASSUME NEW i \in DOMAIN rows', i \in DOMAIN writes[e]
          PROVE  writes[e][i] # Gone /\ rows'[i] = writes[e][i]
      BY <2>1, ViewRows
    <2>2. ASSUME NEW i \in DOMAIN rows', i \notin DOMAIN writes[e]
          PROVE  i \in DOMAIN rows /\ rows'[i] = rows[i]
      BY <2>2, ViewRows
    <2>3. QED BY <2>1, <2>2 DEF LockInv, SavedRow, OtherRows, Covers
  <1>4. \A f \in Editors \ {e} : \A i \in DOMAIN writes[f] \cap DOMAIN rows :
          i \in DOMAIN rows' /\ rows'[i] = rows[i]
    BY ViewRows DEF LockInv, Disjoint
  <1>5. Disjoint'
    BY <1>1, <1>2 DEF LockInv, Disjoint
  <1>6. Untouched'
    <2>1. ASSUME NEW f \in Editors, pc'[f] <= 1 \/ Open(f)' PROVE DOMAIN writes'[f] = {}
      BY <2>1, <1>1, <1>2 DEF LockInv, Untouched
    <2>2. QED BY <2>1 DEF Untouched
  <1>7. GoneRows'
    BY <1>1, <1>2 DEF LockInv, GoneRows, FlagsKept
  <1>8. DeletedRow'
    BY <1>1, <1>2 DEF LockInv, DeletedRow, FlagsKept
  <1>9. SavedRow'
    BY <1>1, <1>2 DEF LockInv, SavedRow, FlagsKept
  <1>10. OtherRows'
    BY <1>1, <1>2, <1>4 DEF LockInv, OtherRows, FlagsKept
  <1>11. \A f \in Editors : (VecDone(f) => Saved(f)) /\ (EsDone(f) => Saved(f))
    BY FlagOrder
  <1>12. FindVec'
    <2>1. ASSUME NEW i \in DOMAIN rows', i \notin stranded
          PROVE  i \in DOMAIN vec \/ \E f \in Editors : f # e /\ VecGone(f) /\ Covers(f, i)
      <3>1. CASE i \in call[e].ids /\ Saved(e)
        BY <2>1, <3>1 DEF StoreInv, FindVec, Covers
      <3>2. CASE i \in DOMAIN rows /\ ~Covers(e, i)
        BY <2>1, <3>2 DEF StoreInv, FindVec
      <3>3. QED BY <3>1, <3>2, <1>3
    <2>2. QED BY <2>1, <1>1, <1>2 DEF StoreInv, FindVec, FlagsKept
  <1>13. FindEs'
    <2>1. ASSUME NEW i \in DOMAIN rows', i \notin stranded
          PROVE  i \in DOMAIN es \/ \E f \in Editors : f # e /\ EsGone(f) /\ Covers(f, i)
      <3>1. CASE i \in call[e].ids /\ Saved(e)
        BY <2>1, <3>1 DEF StoreInv, FindEs, Covers
      <3>2. CASE i \in DOMAIN rows /\ ~Covers(e, i)
        BY <2>1, <3>2 DEF StoreInv, FindEs
      <3>3. QED BY <3>1, <3>2, <1>3
    <2>2. QED BY <2>1, <1>1, <1>2 DEF StoreInv, FindEs, FlagsKept
  <1>14. SameVec'
    BY <1>1, <1>2, <1>3, <1>11 DEF StoreInv, SameVec, FlagsKept
  <1>15. SameEs'
    BY <1>1, <1>2, <1>3, <1>11 DEF StoreInv, SameEs, FlagsKept
  <1>16. QED
    BY <1>5, <1>6, <1>7, <1>8, <1>9, <1>10, <1>12, <1>13, <1>14, <1>15 DEF LockInv, StoreInv

-----------------------------------------------------------------------------
(* The actions, as steps of these kinds. *)
LEMMA Bounds == MaxId \in Nat /\ MaxId >= 2 /\ 0 \in Ids /\ 1 \in Ids /\ 2 \in Ids /\ Ids \subseteq Nat
  <1>1. MaxId \in Nat /\ MaxId >= 2
    BY ChunkEditingAssumption
  <1>2. QED BY <1>1 DEF Ids

LEMMA Advancing ==
    ASSUME TypeInv, NEW e \in Editors, Advance(e),
           StepOf(e) \notin {"none", "maxId", "fetch", "fetchContexts", "commit"}
    PROVE  /\ CallTypes' /\ call' = call /\ pc'[e] = pc[e] + 1 /\ pc[e] >= 2
           /\ \A f \in Editors \ {e} : pc'[f] = pc[f]
  <1>1. pc[e] \in Nat /\ pc[e] >= 2 /\ pc[e] + 1 <= Last[call[e].kind]
    <2>1. \/ call[e].kind = "add" /\ pc[e] \in {2, 3, 4, 5}
          \/ call[e].kind = "update" /\ pc[e] \in {2, 3, 4, 5, 6}
          \/ call[e].kind = "delete" /\ pc[e] \in {2, 3, 4, 5, 6, 7}
          \/ call[e].kind = "context" /\ pc[e] \in {2, 3, 4, 5, 6}
          \/ call[e].kind = "clear" /\ pc[e] \in {2, 3, 4, 5}
      BY Places DEF Place, At
    <2>2. QED BY <2>1 DEF Last
  <1>2. Last[call[e].kind] \in Nat
    BY KindOf DEF Last
  <1>3. CallAt(call[e], pc[e])
    BY DEF TypeInv, CallTypes
  <1>4. CallAt(call[e], pc[e] + 1)
    BY <1>1, <1>2, <1>3 DEF CallAt
  <1>5. call' = call /\ pc' = [pc EXCEPT ![e] = pc[e] + 1]
    BY DEF Advance
  <1>6. call[e] \in Call /\ call' = [call EXCEPT ![e] = call[e]]
    BY <1>5 DEF TypeInv, CallTypes
  <1>7. CallTypes' /\ pc'[e] = pc[e] + 1 /\ \A f \in Editors \ {e} : pc'[f] = pc[f]
    <2>1. PICK k \in Call, n \in Nat : k = call[e] /\ n = pc[e] + 1 /\ CallAt(k, n)
      BY <1>1, <1>4, <1>6
    <2>2. call' = [call EXCEPT ![e] = k] /\ pc' = [pc EXCEPT ![e] = n] /\ CallTypes
      BY <1>5, <1>6, <2>1 DEF TypeInv
    <2>3. CallTypes' /\ pc'[e] = n /\ \A f \in Editors \ {e} : pc'[f] = pc[f]
      BY <2>2, CallStep, <2>1
    <2>4. QED BY <2>1, <2>3
  <1>8. QED BY <1>1, <1>5, <1>7

LEMMA Writing ==
    ASSUME TypeInv, NEW e \in Editors, NEW g, Write(e, g), DOMAIN g \subseteq Ids,
           \A i \in DOMAIN g : g[i] \in ChunkRow \cup {Gone}
    PROVE  /\ WriteTypes' /\ DOMAIN writes' = Editors
           /\ \A f \in Editors \ {e} : writes'[f] = writes[f]
           /\ DOMAIN writes'[e] = DOMAIN writes[e] \cup DOMAIN g
           /\ \A i \in DOMAIN g : writes'[e][i] = g[i]
           /\ \A i \in DOMAIN writes[e] \ DOMAIN g : writes'[e][i] = writes[e][i]
  <1> DEFINE w == With(writes[e], g)
  <1>1. /\ DOMAIN w = DOMAIN writes[e] \cup DOMAIN g
        /\ \A i \in DOMAIN w : w[i] = IF i \in DOMAIN g THEN g[i] ELSE writes[e][i]
    BY DEF With
  <1>2. DOMAIN writes = Editors /\ writes' = [writes EXCEPT ![e] = w]
    BY DEF Write, TypeInv, WriteTypes
  <1> HIDE DEF w
  <1>3. /\ DOMAIN writes' = Editors /\ writes'[e] = w
        /\ \A f \in Editors \ {e} : writes'[f] = writes[f]
    BY <1>2
  <1>4. WriteTypes'
    BY <1>1, <1>3 DEF TypeInv, WriteTypes
  <1>5. QED BY <1>1, <1>3, <1>4

LEMMA Ended ==
    ASSUME TypeInv, NEW e \in Editors, EndCall(e)
    PROVE  /\ CallTypes' /\ WriteTypes' /\ Others(e)
           /\ call'[e] = NoCall /\ pc'[e] = 0 /\ writes'[e] = <<>>
  <1>1. writes' = [writes EXCEPT ![e] = <<>>] /\ DOMAIN writes = Editors
    BY DEF EndCall, TypeInv, WriteTypes
  <1>2. /\ DOMAIN writes' = Editors /\ writes'[e] = <<>>
        /\ \A f \in Editors \ {e} : writes'[f] = writes[f]
    BY <1>1
  <1>3. WriteTypes'
    BY <1>2 DEF TypeInv, WriteTypes
  <1>4. /\ CallTypes' /\ call'[e] = NoCall /\ pc'[e] = 0
        /\ \A f \in Editors \ {e} : call'[f] = call[f] /\ pc'[f] = pc[f]
    BY CallStep, NoCallTypes DEF EndCall, TypeInv
  <1>5. QED BY <1>2, <1>3, <1>4 DEF Others

LEMMA TypeUnchanged ==
    ASSUME StoreTypes, UNCHANGED <<rows, vec, es, pks, stranded, torn>> PROVE StoreTypes'
  BY DEF StoreTypes

(* Statements that change other columns than the content. *)
LEMMA Rewriting ==
    ASSUME Inv, NEW e \in Editors, NEW g, Write(e, g), Advance(e),
           StepOf(e) \in {"shiftUp", "shiftDown", "mark", "unmark", "token"},
           DOMAIN g \subseteq DOMAIN View(e), ~Locked(e, DOMAIN g),
           \A i \in DOMAIN g : g[i] \in ChunkRow /\ g[i].text = View(e)[i].text,
           UNCHANGED <<rows, vec, es, pks, stranded, torn>>
    PROVE  Inv'
  <1>0. TypeInv /\ LockInv /\ StoreInv
    BY DEF Inv
  <1>1. /\ CallTypes' /\ call' = call /\ pc'[e] = pc[e] + 1 /\ pc[e] >= 2 /\ pc[e] \in Nat
        /\ \A f \in Editors \ {e} : pc'[f] = pc[f]
    BY <1>0, Advancing, KindOf
  <1>2. DOMAIN g \subseteq Ids
    BY <1>0, ViewRows
  <1>3. /\ WriteTypes' /\ DOMAIN writes' = Editors
        /\ \A f \in Editors \ {e} : writes'[f] = writes[f]
        /\ DOMAIN writes'[e] = DOMAIN writes[e] \cup DOMAIN g
        /\ \A i \in DOMAIN g : writes'[e][i] = g[i]
        /\ \A i \in DOMAIN writes[e] \ DOMAIN g : writes'[e][i] = writes[e][i]
    BY <1>0, <1>2, Writing
  <1>4. Others(e)
    BY <1>1, <1>3 DEF Others
  <1>5. Place(e)
    BY <1>0, Places
  <1>6. FlagsKept(e) /\ (Open(e)' <=> Open(e)) /\ ~Open(e)
    BY <1>1, <1>5 DEF Place, At, FlagsKept, Saved, VecDone, EsDone, RowGone, VecGone, EsGone, Open, In
  <1>7. \A f \in Editors \ {e} : DOMAIN g \cap DOMAIN writes[f] = {}
    BY DEF Locked
  <1>8. ASSUME NEW i \in DOMAIN writes[e]
        PROVE  IF writes[e][i] = Gone THEN writes'[e][i] = Gone
               ELSE writes'[e][i] # Gone /\ writes'[e][i].text = writes[e][i].text
    <2>1. CASE i \in DOMAIN g
      <3>1. writes[e][i] # Gone /\ View(e)[i] = writes[e][i]
        BY <1>0, <2>1, ViewRows
      <3>2. g[i] # Gone
        BY <2>1, RowNotGone
      <3>3. QED BY <1>3, <2>1, <3>1, <3>2
    <2>2. CASE i \notin DOMAIN g
      BY <1>3, <2>2
    <2>3. QED BY <2>1, <2>2
  <1>9. ASSUME NEW i \in DOMAIN g \ DOMAIN writes[e]
        PROVE  i \in DOMAIN rows /\ writes'[e][i] # Gone /\ writes'[e][i].text = rows[i].text
    BY <1>0, <1>3, ViewRows, RowNotGone
  <1>10. ~(pc'[e] <= 1)
    BY <1>1
  <1>11. LockInv' /\ StoreInv'
    BY <1>0, <1>1, <1>3, <1>4, <1>6, <1>7, <1>8, <1>9, <1>10, Touching
  <1>12. QED BY <1>0, <1>1, <1>3, <1>11, TypeUnchanged DEF Inv, TypeInv

(* Steps that only say where a call is, or what it is about. *)
LEMMA Moving ==
    ASSUME Inv, NEW e \in Editors, NEW k \in Call, NEW n \in Nat, CallAt(k, n),
           call' = [call EXCEPT ![e] = k], pc' = [pc EXCEPT ![e] = n],
           UNCHANGED <<rows, writes, vec, es, pks, stranded, torn>>,
           pc[e] <= 1, n <= 2, n <= 1 => pc[e] = 0
    PROVE  Inv'
  <1>0. TypeInv /\ LockInv /\ StoreInv
    BY DEF Inv
  <1>1. /\ CallTypes' /\ call'[e] = k /\ pc'[e] = n
        /\ \A f \in Editors \ {e} : call'[f] = call[f] /\ pc'[f] = pc[f]
    BY <1>0, CallStep DEF TypeInv
  <1>2. Others(e) /\ DOMAIN writes' = Editors
    BY <1>0, <1>1 DEF Others, TypeInv, WriteTypes
  <1>3. pc[e] \in Nat
    BY <1>0, KindOf
  <1>4. /\ ~Saved(e) /\ ~VecDone(e) /\ ~EsDone(e) /\ ~RowGone(e) /\ ~VecGone(e) /\ ~EsGone(e)
        /\ ~Saved(e)' /\ ~VecDone(e)' /\ ~EsDone(e)' /\ ~RowGone(e)' /\ ~VecGone(e)' /\ ~EsGone(e)'
    BY <1>1, <1>3 DEF Saved, VecDone, EsDone, RowGone, VecGone, EsGone, In
  <1>5. FlagsKept(e)
    BY <1>4 DEF FlagsKept
  <1>6. DOMAIN writes[e] = {}
    BY <1>0 DEF LockInv, Untouched
  <1>7. LockInv' /\ StoreInv'
    <2> DEFINE S == {}
    <2>1. DOMAIN writes'[e] = DOMAIN writes[e] \cup S
      OBVIOUS
    <2>2. QED BY <1>0, <1>2, <1>4, <1>5, <1>6, <2>1, Touching
  <1>8. QED BY <1>0, <1>1, <1>7, TypeUnchanged DEF Inv, TypeInv, WriteTypes

LEMMA MovingOn ==
    ASSUME Inv, NEW e \in Editors, NEW k \in Call, CallAt(k, 2), pc[e] = 1,
           call' = [call EXCEPT ![e] = k], pc' = [pc EXCEPT ![e] = 2],
           UNCHANGED <<rows, writes, vec, es, pks, stranded, torn>>
    PROVE  Inv'
  <1>1. PICK n \in Nat : n = 2
    OBVIOUS
  <1>2. CallAt(k, n) /\ pc' = [pc EXCEPT ![e] = n]
    BY <1>1
  <1>3. pc[e] <= 1 /\ n <= 2 /\ (n <= 1 => pc[e] = 0)
    BY <1>1
  <1>4. QED BY <1>2, <1>3, Moving

(* A call that ends without a trace, as one for a chunk that is not there.  *)
LEMMA Quitting ==
    ASSUME Inv, NEW e \in Editors, EndCall(e), UNCHANGED <<rows, vec, es, pks, stranded, torn>>,
           ~VecGone(e), ~VecDone(e), ~EsDone(e)
    PROVE  Inv'
  <1>0. TypeInv /\ LockInv /\ StoreInv
    BY DEF Inv
  <1>1. /\ CallTypes' /\ WriteTypes' /\ Others(e)
        /\ call'[e] = NoCall /\ pc'[e] = 0 /\ writes'[e] = <<>>
    BY <1>0, Ended
  <1>2. LockInv' /\ StoreInv'
    <2>1. {e} \in SUBSET Editors
      OBVIOUS
    <2>2. QED BY <1>0, <1>1, <2>1, Ending DEF Others
  <1>3. QED BY <1>0, <1>1, <1>2, TypeUnchanged DEF Inv, TypeInv

LEMMA Beginning ==
    ASSUME Inv, NEW e \in Editors, NEW k \in Kinds, NEW i \in 0..2, NEW t \in Texts \cup {NoText},
           NEW p \in 0..1, Begin(e, k, i, t, p)
    PROVE  Inv'
  <1> DEFINE c == [NoCall EXCEPT !.kind = k, !.ids = {i}, !.text = t, !.pos = p]
  <1>1. k \in {"add", "update", "delete", "context", "clear"}
    BY ChunkEditingAssumption
  <1>2. i \in Ids
    BY Bounds DEF Ids
  <1>3. p \in Int /\ {i} \in SUBSET Ids
    BY <1>2
  <1>4. c \in Call /\ c.kind = k /\ c.ids = {i} /\ c.text = t
    BY <1>1, <1>3, NoCallTypes DEF Call
  <1>5. k \in {"add", "context"} => t \in Texts
    BY DEF Begin
  <1>6. call' = [call EXCEPT ![e] = c] /\ pc' = [pc EXCEPT ![e] = 1]
        /\ UNCHANGED <<rows, writes, vec, es, pks, stranded, torn>> /\ pc[e] = 0
    BY DEF Begin, stores, Active
  <1> HIDE DEF c
  <1>7. CallAt(c, 1)
    BY <1>1, <1>2, <1>4, <1>5 DEF CallAt, Last
  <1>8. QED
    <2>1. PICK d \in Call, n \in Nat : d = c /\ n = 1
      BY <1>4
    <2>2. CallAt(d, n) /\ call' = [call EXCEPT ![e] = d] /\ pc' = [pc EXCEPT ![e] = n]
      BY <1>6, <1>7, <2>1
    <2>3. pc[e] <= 1 /\ n <= 2 /\ (n <= 1 => pc[e] = 0)
      BY <1>6, <2>1
    <2>4. QED BY <1>6, <2>2, <2>3, Moving

LEMMA Picking ==
    ASSUME Inv, NEW e \in Editors, PickId(e)
    PROVE  Inv'
  <1>0. TypeInv
    BY DEF Inv
  <1>1. PICK id \in Ids :
          call' = [call EXCEPT ![e].ids = {id},
                               ![e].row = Row(call[e].text, call[e].pos, <<>>, -911)]
    BY DEF PickId
  <1>2. Place(e) /\ call[e] \in Call /\ CallAt(call[e], pc[e])
    BY <1>0, Places DEF TypeInv, CallTypes
  <1>3. pc[e] = 1 /\ call[e].kind \in {"add", "context"}
    BY <1>2 DEF PickId, Place, At
  <1>4. call[e].text \in Texts /\ call[e].pos \in Int
    BY <1>2, <1>3 DEF CallAt, Call
  <1>5. PICK row \in ChunkRow : row = Row(call[e].text, call[e].pos, <<>>, -911)
    <2>0. <<>> \in Seq(Nat) /\ -911 \in Int
      OBVIOUS
    <2>1. PICK order \in Seq(Nat), token \in Int : order = <<>> /\ token = -911
      BY <2>0, Zenon
    <2>2. Row(call[e].text, call[e].pos, order, token) \in ChunkRow
      BY <1>4 DEF Row, ChunkRow
    <2>3. QED BY <2>1, <2>2
  <1>6. PICK c \in Call : c = [call[e] EXCEPT !.ids = {id}, !.row = row]
    BY <1>2 DEF Call
  <1>7. c.kind = call[e].kind /\ c.ids = {id} /\ c.row = row /\ c.text = call[e].text
    BY <1>2, <1>6 DEF Call
  <1>8. call' = [call EXCEPT ![e] = c] /\ pc' = [pc EXCEPT ![e] = 2]
    <2>1. call' = [call EXCEPT ![e].ids = {id}, ![e].row = row]
      BY <1>1, <1>5
    <2>2. call \in [Editors -> Call]
      BY <1>0 DEF TypeInv, CallTypes
    <2>3. [call EXCEPT ![e].ids = {id}, ![e].row = row] = [call EXCEPT ![e] = c]
      BY <1>6, <2>2
    <2>4. pc' = [pc EXCEPT ![e] = 2]
      BY <1>3 DEF PickId
    <2>5. QED BY <2>1, <2>3, <2>4
  <1>9. CallAt(c, 2)
    BY <1>3, <1>4, <1>7 DEF CallAt, Last
  <1>10. UNCHANGED <<rows, writes, vec, es, pks, stranded, torn>>
    BY DEF PickId, stores, history
  <1>11. QED BY <1>3, <1>8, <1>9, <1>10, MovingOn

LEMMA Fetching ==
    ASSUME Inv, NEW e \in Editors, Fetch(e)
    PROVE  Inv'
  <1>0. TypeInv
    BY DEF Inv
  <1>1. Place(e) /\ call[e] \in Call /\ CallAt(call[e], pc[e])
    BY <1>0, Places DEF TypeInv, CallTypes
  <1>2. pc[e] = 1 /\ call[e].kind \in {"update", "delete"}
    BY <1>1 DEF Fetch, Place, At
  <1>3. CASE EndCall(e) /\ UNCHANGED <<rows, vec, es, cache, loading, pks, history, faults>>
    <2>1. ~VecGone(e) /\ ~VecDone(e) /\ ~EsDone(e)
      BY <1>2 DEF VecGone, VecDone, EsDone, In
    <2>2. QED BY <1>3, <2>1, Quitting DEF history
  <1>4. CASE /\ ChunkOf(e) \in DOMAIN rows /\ call' = [call EXCEPT ![e].row = rows[ChunkOf(e)]]
             /\ pc' = [pc EXCEPT ![e] = @ + 1]
             /\ UNCHANGED <<stores, history, calls, faults>>
    <2>1. PICK row \in ChunkRow : row = rows[ChunkOf(e)]
      BY <1>0, <1>4 DEF TypeInv, StoreTypes
    <2>2. PICK c \in Call : c = [call[e] EXCEPT !.row = row]
      BY <1>1 DEF Call
    <2>3. c.kind = call[e].kind /\ c.ids = call[e].ids /\ c.row = row /\ c.text = call[e].text
      BY <1>1, <2>2 DEF Call
    <2>4. call' = [call EXCEPT ![e] = c] /\ pc' = [pc EXCEPT ![e] = 2]
      BY <1>0, <1>2, <1>4, <2>1, <2>2 DEF TypeInv, CallTypes
    <2>5. CallAt(c, 2)
      BY <1>1, <1>2, <2>3 DEF CallAt, Last
    <2>6. UNCHANGED <<rows, writes, vec, es, pks, stranded, torn>>
      BY <1>4 DEF stores, history
    <2>7. QED BY <1>2, <2>4, <2>5, <2>6, MovingOn
  <1>5. QED BY <1>3, <1>4 DEF Fetch

LEMMA FetchingContexts ==
    ASSUME Inv, NEW e \in Editors, FetchContexts(e)
    PROVE  Inv'
  <1>0. TypeInv
    BY DEF Inv
  <1>1. Place(e) /\ call[e] \in Call /\ CallAt(call[e], pc[e])
    BY <1>0, Places DEF TypeInv, CallTypes
  <1>2. pc[e] = 1 /\ call[e].kind = "clear"
    BY <1>1 DEF FetchContexts, Place, At
  <1>3. CASE EndCall(e) /\ UNCHANGED <<rows, vec, es, cache, loading, pks, history, faults>>
    <2>1. ~VecGone(e) /\ ~VecDone(e) /\ ~EsDone(e)
      BY <1>2 DEF VecGone, VecDone, EsDone, In
    <2>2. QED BY <1>3, <2>1, Quitting DEF history
  <1>4. CASE /\ call' = [call EXCEPT ![e].ids = {i \in DOMAIN rows : ~rows[i].ctx /\ rows[i].order = <<>>}]
             /\ pc' = [pc EXCEPT ![e] = @ + 1]
             /\ UNCHANGED <<stores, history, calls, faults>>
    <2>1. PICK ids \in SUBSET Ids : ids = {i \in DOMAIN rows : ~rows[i].ctx /\ rows[i].order = <<>>}
      BY <1>0 DEF TypeInv, StoreTypes
    <2>2. PICK c \in Call : c = [call[e] EXCEPT !.ids = ids]
      BY <1>1 DEF Call
    <2>3. c.kind = call[e].kind /\ c.row = call[e].row /\ c.text = call[e].text
      BY <1>1, <2>2 DEF Call
    <2>4. call' = [call EXCEPT ![e] = c] /\ pc' = [pc EXCEPT ![e] = 2]
      BY <1>0, <1>2, <1>4, <2>1, <2>2 DEF TypeInv, CallTypes
    <2>5. CallAt(c, 2)
      BY <1>1, <1>2, <2>3 DEF CallAt, Last
    <2>6. UNCHANGED <<rows, writes, vec, es, pks, stranded, torn>>
      BY <1>4 DEF stores, history
    <2>7. QED BY <1>2, <2>4, <2>5, <2>6, MovingOn
  <1>5. QED BY <1>3, <1>4 DEF FetchContexts

LEMMA SeenRows ==
    ASSUME TypeInv, NEW e \in Editors
    PROVE  /\ From(e, call[e].pos) \subseteq DOMAIN View(e)
           /\ From(e, Row0(e).pos) \subseteq DOMAIN View(e)
           /\ Ancestors(e, Row0(e).order) \subseteq DOMAIN View(e)
           /\ StepOf(e) \in {"shiftUp", "shiftDown", "token", "mark", "unmark"}
                => Target(e) \subseteq DOMAIN View(e)
  <1>1. /\ From(e, call[e].pos) \subseteq DOMAIN View(e)
        /\ From(e, Row0(e).pos) \subseteq DOMAIN View(e)
        /\ Ancestors(e, Row0(e).order) \subseteq DOMAIN View(e)
    BY DEF From, Ancestors
  <1>2. QED BY <1>1 DEF Target

LEMMA Shifting ==
    ASSUME Inv, NEW e \in Editors, ShiftPositions(e)
    PROVE  Inv'
  <1>0. TypeInv
    BY DEF Inv
  <1>1. PICK n \in {1, -1} : Write(e, [i \in Target(e) |-> [View(e)[i] EXCEPT !.pos = @ + n]])
    BY DEF ShiftPositions, Shift
  <1> DEFINE g == [i \in Target(e) |-> [View(e)[i] EXCEPT !.pos = @ + n]]
  <1>2. StepOf(e) \in {"shiftUp", "shiftDown"}
    BY DEF ShiftPositions
  <1>3. DOMAIN g \subseteq DOMAIN View(e) /\ ~Locked(e, DOMAIN g)
    BY <1>0, <1>2, SeenRows DEF ShiftPositions, Blocked
  <1>4. ASSUME NEW i \in DOMAIN g
        PROVE  g[i] \in ChunkRow /\ g[i].text = View(e)[i].text
    <2>1. View(e)[i] \in ChunkRow
      BY <1>0, <1>3, ViewRows
    <2>2. n \in Int
      OBVIOUS
    <2>3. QED BY <2>1, <2>2 DEF ChunkRow
  <1>5. Advance(e) /\ UNCHANGED <<rows, vec, es, pks, stranded, torn>>
    BY DEF ShiftPositions, history
  <1>6. Write(e, g)
    BY <1>1
  <1> HIDE DEF g
  <1>7. QED BY <1>2, <1>3, <1>4, <1>5, <1>6, Rewriting

LEMMA Marking ==
    ASSUME Inv, NEW e \in Editors, NEW b \in BOOLEAN,
           Write(e, [i \in Target(e) |-> [View(e)[i] EXCEPT !.ctx = b]]),
           StepOf(e) \in {"mark", "unmark"}, WriteRows(e)
    PROVE  Inv'
  <1>0. TypeInv
    BY DEF Inv
  <1> DEFINE g == [i \in Target(e) |-> [View(e)[i] EXCEPT !.ctx = b]]
  <1>1. DOMAIN g \subseteq DOMAIN View(e) /\ ~Locked(e, DOMAIN g)
    BY <1>0, SeenRows DEF WriteRows, Blocked
  <1>2. ASSUME NEW i \in DOMAIN g
        PROVE  g[i] \in ChunkRow /\ g[i].text = View(e)[i].text
    <2>1. View(e)[i] \in ChunkRow
      BY <1>0, <1>1, ViewRows
    <2>2. QED BY <2>1 DEF ChunkRow
  <1>3. Advance(e) /\ UNCHANGED <<rows, vec, es, pks, stranded, torn>>
    BY DEF WriteRows, history
  <1>4. Write(e, g)
    OBVIOUS
  <1> HIDE DEF g
  <1>5. QED BY <1>1, <1>2, <1>3, <1>4, Rewriting

LEMMA Counting ==
    ASSUME Inv, NEW e \in Editors, UpdateTokens(e)
    PROVE  Inv'
  <1>0. TypeInv
    BY DEF Inv
  <1>1. call[e] \in Call /\ CallAt(call[e], pc[e]) /\ Place(e)
    BY <1>0, Places DEF TypeInv, CallTypes
  <1>2. pc[e] >= 2 /\ call[e].kind # "clear"
    BY <1>1 DEF UpdateTokens, Place, At
  <1>3. Row0(e).text \in Texts
    BY <1>1, <1>2 DEF CallAt, ChunkRow, Row0
  <1>4. /\ \A t \in Texts : TokensOf[t] \in Int
        /\ call[e].text = NoText \/ call[e].text \in Texts
    BY <1>1, ChunkEditingAssumption DEF Call
  <1>5. PICK n \in Int : Write(e, [i \in Target(e) |-> [View(e)[i] EXCEPT !.token = @ + n]])
    <2> DEFINE given == IF call[e].text = NoText THEN 0 ELSE TokensOf[call[e].text]
               diff == IF call[e].kind = "delete" THEN -TokensOf[Row0(e).text]
                       ELSE given - TokensOf[Row0(e).text]
    <2>1. TokensOf[Row0(e).text] \in Int /\ given \in Int
      BY <1>3, <1>4
    <2>2. diff \in Int
      BY <2>1
    <2>3. Write(e, [i \in Target(e) |-> [View(e)[i] EXCEPT !.token = @ + diff]])
      BY DEF UpdateTokens
    <2> HIDE DEF diff
    <2>4. QED BY <2>2, <2>3
  <1> DEFINE g == [i \in Target(e) |-> [View(e)[i] EXCEPT !.token = @ + n]]
  <1>6. DOMAIN g \subseteq DOMAIN View(e) /\ ~Locked(e, DOMAIN g) /\ StepOf(e) = "token"
    BY <1>0, SeenRows DEF UpdateTokens, Blocked
  <1>7. ASSUME NEW i \in DOMAIN g
        PROVE  g[i] \in ChunkRow /\ g[i].text = View(e)[i].text
    <2>1. View(e)[i] \in ChunkRow
      BY <1>0, <1>6, ViewRows
    <2>2. QED BY <2>1 DEF ChunkRow
  <1>8. Advance(e) /\ UNCHANGED <<rows, vec, es, pks, stranded, torn>>
    BY DEF UpdateTokens, history
  <1>9. Write(e, g)
    BY <1>5
  <1> HIDE DEF g
  <1>10. QED BY <1>6, <1>7, <1>8, <1>9, Rewriting

LEMMA Uncaching ==
    ASSUME Inv, NEW e \in Editors, Uncache(e)
    PROVE  Inv'
  <1>0. TypeInv /\ LockInv /\ StoreInv
    BY DEF Inv
  <1>1. StepOf(e) = "uncache" /\ Advance(e) /\ UNCHANGED <<rows, writes, vec, es, pks, stranded, torn>>
    BY DEF Uncache, history
  <1>2. /\ CallTypes' /\ call' = call /\ pc'[e] = pc[e] + 1 /\ pc[e] >= 2 /\ pc[e] \in Nat
        /\ \A f \in Editors \ {e} : pc'[f] = pc[f]
    BY <1>0, <1>1, Advancing, KindOf
  <1>3. Others(e) /\ DOMAIN writes' = Editors
    BY <1>0, <1>1, <1>2 DEF Others, TypeInv, WriteTypes
  <1>4. FlagsKept(e) /\ (Open(e)' <=> Open(e)) /\ ~Open(e)
    BY <1>0, <1>1, <1>2, Places DEF Place, At, FlagsKept, Saved, VecDone, EsDone, RowGone,
       VecGone, EsGone, Open, In
  <1>5. ~(pc'[e] <= 1)
    BY <1>2
  <1>6. LockInv' /\ StoreInv'
    <2> DEFINE S == {}
    <2>1. DOMAIN writes'[e] = DOMAIN writes[e] \cup S
      BY <1>1
    <2>2. \A i \in DOMAIN writes[e] :
            IF writes[e][i] = Gone THEN writes'[e][i] = Gone
            ELSE writes'[e][i] # Gone /\ writes'[e][i].text = writes[e][i].text
      BY <1>1
    <2>3. /\ \A f \in Editors \ {e} : S \cap DOMAIN writes[f] = {}
          /\ \A i \in S \ DOMAIN writes[e] :
               i \in DOMAIN rows /\ writes'[e][i] # Gone /\ writes'[e][i].text = rows[i].text
      OBVIOUS
    <2>4. /\ call'[e].ids = call[e].ids /\ call'[e].kind = call[e].kind
          /\ call'[e].row = call[e].row
          /\ UNCHANGED <<rows, vec, es>> /\ stranded' = stranded /\ torn' = torn
      BY <1>1, <1>2
    <2>5. pc'[e] <= 1 \/ Open(e)' => DOMAIN writes'[e] = {}
      BY <1>4, <1>5
    <2> HIDE DEF S
    <2>6. QED BY <1>0, <1>3, <1>4, <2>1, <2>2, <2>3, <2>4, <2>5, Touching
  <1>7. QED BY <1>0, <1>1, <1>2, <1>6, TypeUnchanged DEF Inv, TypeInv, WriteTypes

LEMMA SavingRow ==
    ASSUME Inv, NEW e \in Editors, SaveRow(e)
    PROVE  Inv'
  <1>0. TypeInv /\ LockInv /\ StoreInv
    BY DEF Inv
  <1>1. call[e] \in Call /\ CallAt(call[e], pc[e]) /\ Place(e)
    BY <1>0, Places DEF TypeInv, CallTypes
  <1>2. /\ pc[e] = 3 /\ call[e].kind \in {"add", "context", "update"}
        /\ ~Saved(e) /\ ~RowGone(e) /\ ~VecGone(e)
    BY <1>1 DEF SaveRow, Place, At, Saved, RowGone, VecGone, In
  <1>3. PICK i \in Ids : call[e].ids = {i} /\ ChunkOf(e) = i
    BY <1>1, <1>2 DEF CallAt, ChunkOf
  <1>4. call[e].row \in ChunkRow
    BY <1>1, <1>2 DEF CallAt
  <1> DEFINE text == IF call[e].text = NoText THEN Row0(e).text ELSE call[e].text
             old == IF i \in DOMAIN View(e) THEN View(e)[i]
                    ELSE [Row(text, 0, <<>>, 0) EXCEPT !.pk = pks + 1]
             new == [old EXCEPT !.text = text, !.pos = Row0(e).pos, !.token = Row0(e).token]
  <1>5. text \in Texts
    BY <1>1, <1>4 DEF Call, ChunkRow, Row0
  <1>6. old \in ChunkRow
    <2>1. CASE i \in DOMAIN View(e)
      BY <2>1, <1>0, ViewRows
    <2>2. CASE i \notin DOMAIN View(e)
      <3>1. <<>> \in Seq(Nat)
        OBVIOUS
      <3>2. PICK order \in Seq(Nat) : order = <<>>
        BY <3>1, Zenon
      <3>3. PICK t \in Texts : t = text
        BY <1>5
      <3>4. PICK k \in Nat : k = pks + 1
        BY <1>0 DEF TypeInv, StoreTypes
      <3> HIDE DEF text
      <3>5. [Row(t, 0, order, 0) EXCEPT !.pk = k] \in ChunkRow
        <4>1. Row(t, 0, order, 0) \in ChunkRow
          BY DEF Row, ChunkRow
        <4>2. QED BY <4>1 DEF ChunkRow
      <3>6. old = [Row(t, 0, order, 0) EXCEPT !.pk = k]
        BY <2>2, <3>2, <3>3, <3>4, Zenon
      <3>7. QED BY <3>5, <3>6, Zenon
    <2>3. QED BY <2>1, <2>2
  <1>7. PICK t \in Texts, r \in ChunkRow : r = new /\ r.text = t /\ t = text
    <2> HIDE DEF text, old
    <2>1. new \in ChunkRow /\ new.text = text
      BY <1>4, <1>5, <1>6 DEF ChunkRow, Row0
    <2>2. QED BY <1>5, <2>1
  <1>8. /\ Write(e, [j \in {i} |-> r]) /\ call' = [call EXCEPT ![e].row.text = t]
        /\ pks' \in {pks, pks + 1}
    <2>1. /\ Write(e, [j \in {i} |-> new]) /\ call' = [call EXCEPT ![e].row.text = text]
          /\ pks' \in {pks, pks + 1}
      BY <1>3 DEF SaveRow
    <2> HIDE DEF text, new
    <2>2. QED BY <2>1, <1>7
  <1> HIDE DEF text, old, new
  <1>9. PICK c \in Call : c = [call[e] EXCEPT !.row.text = t]
    <2>1. [call[e].row EXCEPT !.text = t] \in ChunkRow
      BY <1>4 DEF ChunkRow
    <2>2. [call[e] EXCEPT !.row = [call[e].row EXCEPT !.text = t]] \in Call
      BY <1>1, <2>1 DEF Call
    <2>3. [call[e] EXCEPT !.row.text = t] = [call[e] EXCEPT !.row = [call[e].row EXCEPT !.text = t]]
      BY <1>1 DEF Call
    <2>4. QED BY <2>2, <2>3
  <1>10. /\ c.kind = call[e].kind /\ c.ids = call[e].ids /\ c.text = call[e].text
         /\ c.row \in ChunkRow /\ c.row.text = t
    <2>1. c.row = [call[e].row EXCEPT !.text = t]
      BY <1>1, <1>9 DEF Call
    <2>2. c.row \in ChunkRow /\ c.row.text = t
      BY <1>4, <2>1 DEF ChunkRow
    <2>3. QED BY <1>1, <1>9, <2>2 DEF Call
  <1>11. PICK n \in Nat : n = 4 /\ pc' = [pc EXCEPT ![e] = n]
    <2>1. pc' = [pc EXCEPT ![e] = pc[e] + 1]
      BY DEF SaveRow
    <2>2. PICK n \in Nat : n = pc[e] + 1 /\ n = 4
      BY <1>2
    <2>3. QED BY <2>1, <2>2
  <1>12. CallAt(c, n)
    BY <1>1, <1>2, <1>10, <1>11 DEF CallAt, Last
  <1>13. call' = [call EXCEPT ![e] = c]
    <2>1. call \in [Editors -> Call]
      BY <1>0 DEF TypeInv, CallTypes
    <2>2. [call EXCEPT ![e].row.text = t] = [call EXCEPT ![e] = c]
      BY <2>1, <1>9
    <2>3. QED BY <1>8, <2>2
  <1>14. /\ CallTypes' /\ call'[e] = c /\ pc'[e] = 4
         /\ \A f \in Editors \ {e} : call'[f] = call[f] /\ pc'[f] = pc[f]
    BY <1>0, <1>11, <1>12, <1>13, CallStep DEF TypeInv
  <1> DEFINE g == [j \in {i} |-> r]
  <1>15. Write(e, g) /\ DOMAIN g = {i} /\ g[i] = r
    BY <1>8
  <1> HIDE DEF g
  <1>16. /\ WriteTypes' /\ DOMAIN writes' = Editors
         /\ \A f \in Editors \ {e} : writes'[f] = writes[f]
         /\ DOMAIN writes'[e] = DOMAIN writes[e] \cup {i}
         /\ writes'[e][i] = r
         /\ \A j \in DOMAIN writes[e] \ {i} : writes'[e][j] = writes[e][j]
    BY <1>0, <1>15, Writing
  <1>17. Others(e)
    BY <1>14, <1>16 DEF Others
  <1>18. \A f \in Editors \ {e} : {i} \cap DOMAIN writes[f] = {}
    BY <1>3 DEF SaveRow, Blocked, Target, Locked
  <1>19. UNCHANGED <<rows, vec, es, stranded, torn>>
    BY DEF SaveRow, history
  <1>20. Saved(e)' /\ ~VecDone(e)' /\ ~EsDone(e)' /\ ~(pc'[e] <= 1)
    BY <1>2, <1>10, <1>14 DEF Saved, VecDone, EsDone, In
  <1>21. LockInv' /\ StoreInv'
    <2> DEFINE S == {i}
    <2>1. /\ DOMAIN writes'[e] = DOMAIN writes[e] \cup S /\ call[e].ids = S
          /\ \A f \in Editors \ {e} : S \cap DOMAIN writes[f] = {}
          /\ \A j \in S : writes'[e][j] # Gone /\ writes'[e][j].text = call'[e].row.text
          /\ \A j \in DOMAIN writes[e] \ S : writes'[e][j] = writes[e][j]
      BY <1>3, <1>7, <1>10, <1>14, <1>16, <1>18, RowNotGone
    <2>2. call'[e].kind \in {"add", "update", "context"} /\ call'[e].ids = call[e].ids
      BY <1>2, <1>10, <1>14
    <2> HIDE DEF S
    <2>3. QED BY <1>0, <1>2, <1>16, <1>17, <1>19, <1>20, <2>1, <2>2, Saving
  <1>22. StoreTypes'
    BY <1>0, <1>8, <1>19 DEF TypeInv, StoreTypes
  <1>23. QED BY <1>14, <1>16, <1>21, <1>22 DEF Inv, TypeInv

-----------------------------------------------------------------------------
(* Rows S of the chunks a call removes are marked as gone. *)
LEMMA Removing ==
    ASSUME Inv, NEW e \in Editors, NEW S, S \subseteq call[e].ids,
           Write(e, [i \in S |-> Gone]), Advance(e), StepOf(e) \in {"dropRow", "dropRows"},
           ~Locked(e, call[e].ids),
           StepOf(e) = "dropRow" => S = call[e].ids,
           StepOf(e) = "dropRows" => call[e].ids \cap DOMAIN rows \subseteq S,
           UNCHANGED <<rows, vec, es, pks, stranded, torn>>
    PROVE  Inv'
  <1>0. TypeInv /\ LockInv /\ StoreInv
    BY DEF Inv
  <1>1. call[e].ids \subseteq Ids
    BY <1>0 DEF TypeInv, CallTypes, Call
  <1>2. \/ At(e, "delete", 2) /\ StepOf(e) = "dropRow"
        \/ At(e, "clear", 4) /\ StepOf(e) = "dropRows"
    BY <1>0, Places DEF Place
  <1>3. /\ CallTypes' /\ call' = call /\ pc'[e] = pc[e] + 1
        /\ \A f \in Editors \ {e} : pc'[f] = pc[f]
    BY <1>0, Advancing
  <1> DEFINE g == [i \in S |-> Gone]
  <1>4. /\ Write(e, g) /\ DOMAIN g = S /\ \A i \in S : g[i] = Gone
    OBVIOUS
  <1> HIDE DEF g
  <1>5. /\ WriteTypes' /\ DOMAIN writes' = Editors
        /\ \A f \in Editors \ {e} : writes'[f] = writes[f]
        /\ DOMAIN writes'[e] = DOMAIN writes[e] \cup S
        /\ \A i \in S : writes'[e][i] = Gone
        /\ \A i \in DOMAIN writes[e] \ S : writes'[e][i] = writes[e][i]
    <2>1. DOMAIN g \subseteq Ids /\ \A i \in DOMAIN g : g[i] \in ChunkRow \cup {Gone}
      BY <1>1, <1>4
    <2>2. QED BY <1>0, <1>4, <2>1, Writing
  <1>6. Others(e)
    BY <1>3, <1>5 DEF Others
  <1>7. /\ call'[e] = call[e] /\ call[e].kind \in {"delete", "clear"} /\ ~(pc'[e] <= 1)
        /\ ~RowGone(e) /\ RowGone(e)' /\ (VecGone(e)' <=> VecGone(e))
        /\ (EsGone(e)' <=> EsGone(e)) /\ ~Open(e)'
    BY <1>2, <1>3 DEF At, RowGone, VecGone, EsGone, Open, In
  <1>8. /\ call[e].kind = "delete" => S = call[e].ids
        /\ Open(e) => call[e].ids \cap DOMAIN rows \subseteq S
    BY <1>2 DEF At, Open
  <1>9. \A f \in Editors \ {e} : call[e].ids \cap DOMAIN writes[f] = {}
    BY DEF Locked
  <1>10. LockInv' /\ StoreInv'
    <2>1. UNCHANGED <<rows, vec, es, stranded, torn>>
      OBVIOUS
    <2>2. QED BY <1>0, <1>5, <1>6, <1>7, <1>8, <1>9, <2>1, Erasure
  <1>11. StoreTypes'
    BY <1>0, TypeUnchanged DEF TypeInv
  <1>12. QED BY <1>3, <1>5, <1>10, <1>11 DEF Inv, TypeInv

LEMMA DroppingRow ==
    ASSUME Inv, NEW e \in Editors, DropRow(e)
    PROVE  Inv'
  <1>0. TypeInv /\ LockInv /\ StoreInv
    BY DEF Inv
  <1>1. At(e, "delete", 2) /\ StepOf(e) = "dropRow" /\ CallAt(call[e], pc[e])
    BY <1>0, Places DEF Place, DropRow, TypeInv, CallTypes
  <1>2. PICK i \in Ids : call[e].ids = {i} /\ ChunkOf(e) = i
    BY <1>1 DEF CallAt, ChunkOf, At
  <1>3. ~Locked(e, call[e].ids)
    BY <1>1 DEF DropRow, Blocked, Target
  <1>4. CASE i \in DOMAIN View(e) /\ View(e)[i].pk = Row0(e).pk
    <2>1. /\ Write(e, [j \in call[e].ids |-> Gone]) /\ Advance(e)
          /\ UNCHANGED <<rows, vec, es, pks, stranded, torn>>
      BY <1>2, <1>4 DEF DropRow, history
    <2>2. QED BY <1>1, <1>3, <2>1, Removing
  <1>5. CASE ~(i \in DOMAIN View(e) /\ View(e)[i].pk = Row0(e).pk)
    <2>1. EndCall(e) /\ UNCHANGED <<rows, vec, es, pks, stranded, torn>>
      BY <1>2, <1>5 DEF DropRow, history
    <2>2. ~VecGone(e) /\ ~VecDone(e) /\ ~EsDone(e)
      BY <1>1 DEF At, VecGone, VecDone, EsDone, In
    <2>3. QED BY <2>1, <2>2, Quitting
  <1>6. QED BY <1>4, <1>5

LEMMA WritingRows ==
    ASSUME Inv, NEW e \in Editors, WriteRows(e)
    PROVE  Inv'
  <1>0. TypeInv /\ LockInv /\ StoreInv
    BY DEF Inv
  <1>1. CASE StepOf(e) = "dropRows"
    <2> DEFINE S == Target(e) \cap DOMAIN View(e)
    <2>1. Target(e) = call[e].ids /\ S \subseteq call[e].ids
      BY <1>1 DEF Target
    <2>2. ~Locked(e, call[e].ids)
      BY <2>1 DEF WriteRows, Blocked
    <2>3. /\ Write(e, [i \in S |-> Gone]) /\ Advance(e)
          /\ UNCHANGED <<rows, vec, es, pks, stranded, torn>>
      BY <1>1 DEF WriteRows, history
    <2>4. DOMAIN writes[e] = {}
      BY <1>0, <1>1, Places DEF Place, At, Open, LockInv, Untouched
    <2>5. call[e].ids \cap DOMAIN rows \subseteq S
      BY <1>0, <2>1, <2>4, ViewRows
    <2> HIDE DEF S
    <2>6. QED BY <1>1, <2>1, <2>2, <2>3, <2>5, Removing
  <1>2. CASE StepOf(e) \in {"mark", "unmark"}
    <2>1. PICK b \in BOOLEAN : Write(e, [i \in Target(e) |-> [View(e)[i] EXCEPT !.ctx = b]])
      BY <1>2 DEF WriteRows
    <2>2. QED BY <1>2, <2>1, Marking
  <1>3. QED BY <1>1, <1>2 DEF WriteRows

-----------------------------------------------------------------------------
(* The stores are written: the step of a call, whichever store it writes. *)
LEMMA Storing ==
    ASSUME Inv, NEW e \in Editors, WriteStores(e)
    PROVE  /\ TypeInv /\ LockInv /\ StoreInv /\ CallTypes' /\ WriteTypes' /\ Others(e)
           /\ call[e].ids \subseteq Ids /\ call'[e] = call[e] /\ pc'[e] = pc[e] + 1
           /\ ~(pc'[e] <= 1) /\ UNCHANGED <<rows, writes, stranded, torn, pks>>
  <1>0. TypeInv /\ LockInv /\ StoreInv
    BY DEF Inv
  <1>1. call[e].ids \subseteq Ids /\ pc[e] \in Nat
    BY <1>0, KindOf DEF TypeInv, CallTypes, Call
  <1>2. /\ CallTypes' /\ call' = call /\ pc'[e] = pc[e] + 1 /\ pc[e] >= 2
        /\ \A f \in Editors \ {e} : pc'[f] = pc[f]
    <2>1. Advance(e) /\ StepOf(e) \in {"vec", "es", "dropVec", "dropEs"}
      BY DEF WriteStores
    <2>2. QED BY <1>0, <2>1, Advancing
  <1>3. UNCHANGED <<rows, writes, stranded, torn, pks>>
    BY DEF WriteStores, history
  <1>4. Others(e) /\ WriteTypes'
    BY <1>0, <1>2, <1>3 DEF Others, TypeInv, WriteTypes
  <1>5. QED BY <1>0, <1>1, <1>2, <1>3, <1>4

LEMMA Putting ==
    ASSUME Inv, NEW e \in Editors, WriteStores(e), StepOf(e) \in {"vec", "es"}
    PROVE  Inv'
  <1>0. TypeInv /\ LockInv /\ StoreInv
    BY DEF Inv
  <1>1. /\ CallTypes' /\ WriteTypes' /\ Others(e)
        /\ call[e].ids \subseteq Ids /\ call'[e] = call[e] /\ pc'[e] = pc[e] + 1
        /\ ~(pc'[e] <= 1)
    BY Storing
  <1>2. UNCHANGED <<rows, writes, stranded, torn>> /\ UNCHANGED pks
    BY Storing
  <1>3. Place(e) /\ CallAt(call[e], pc[e])
    BY <1>0, Places DEF TypeInv, CallTypes
  <1>4. call[e].row.text \in Texts
    BY <1>3 DEF CallAt, Place, At, ChunkRow
  <1> DEFINE f == [i \in call[e].ids |-> Row0(e).text]
  <1>5. DOMAIN f = call[e].ids /\ \A i \in call[e].ids : f[i] = call[e].row.text
    BY DEF Row0
  <1>6. Saved(e) /\ Saved(e)' /\ ~RowGone(e)' /\ ~VecGone(e)' /\ ~EsGone(e)' /\ ~Open(e)'
    BY <1>1, <1>3 DEF Place, At, Saved, RowGone, VecGone, EsGone, Open, In
  <1>7. CASE StepOf(e) = "vec"
    <2>1. vec' = With(vec, f) /\ UNCHANGED es
      BY <1>7 DEF WriteStores
    <2> HIDE DEF f
    <2>2. /\ DOMAIN vec' = DOMAIN vec \cup call[e].ids
          /\ \A i \in DOMAIN vec' : vec'[i] = IF i \in call[e].ids THEN call[e].row.text ELSE vec[i]
      BY <2>1, <1>5 DEF With
    <2>3. VecDone(e)' /\ (EsDone(e)' <=> EsDone(e))
      BY <1>1, <1>3, <1>7 DEF Place, At, VecDone, EsDone, In
    <2>4. UNCHANGED <<rows, writes, es, stranded, torn>>
      BY <1>2, <2>1
    <2>5. LockInv' /\ StoreInv'
      BY <1>0, <1>1, <1>6, <2>2, <2>3, <2>4, PutVec
    <2>6. StoreTypes'
      BY <1>0, <1>1, <1>2, <1>4, <2>1, <2>2 DEF TypeInv, StoreTypes
    <2>7. QED BY <1>1, <2>5, <2>6 DEF Inv, TypeInv
  <1>8. CASE StepOf(e) = "es"
    <2>1. es' = With(es, f) /\ UNCHANGED vec
      BY <1>8 DEF WriteStores
    <2> HIDE DEF f
    <2>2. /\ DOMAIN es' = DOMAIN es \cup call[e].ids
          /\ \A i \in DOMAIN es' : es'[i] = IF i \in call[e].ids THEN call[e].row.text ELSE es[i]
      BY <2>1, <1>5 DEF With
    <2>3. EsDone(e)' /\ (VecDone(e)' <=> VecDone(e))
      BY <1>1, <1>3, <1>8 DEF Place, At, VecDone, EsDone, In
    <2>4. UNCHANGED <<rows, writes, vec, stranded, torn>>
      BY <1>2, <2>1
    <2>5. LockInv' /\ StoreInv'
      BY <1>0, <1>1, <1>6, <2>2, <2>3, <2>4, PutEs
    <2>6. StoreTypes'
      BY <1>0, <1>1, <1>2, <1>4, <2>1, <2>2 DEF TypeInv, StoreTypes
    <2>7. QED BY <1>1, <2>5, <2>6 DEF Inv, TypeInv
  <1>9. QED BY <1>7, <1>8

LEMMA Dropping ==
    ASSUME Inv, NEW e \in Editors, WriteStores(e), StepOf(e) \in {"dropVec", "dropEs"}
    PROVE  Inv'
  <1>0. TypeInv /\ LockInv /\ StoreInv
    BY DEF Inv
  <1>1. /\ CallTypes' /\ WriteTypes' /\ Others(e)
        /\ call'[e] = call[e] /\ pc'[e] = pc[e] + 1 /\ ~(pc'[e] <= 1)
    BY Storing
  <1>2. UNCHANGED <<rows, writes, stranded, torn>> /\ UNCHANGED pks
    BY Storing
  <1>3. Place(e)
    BY <1>0, Places
  <1>4. /\ ~Saved(e) /\ ~Saved(e)' /\ ~VecDone(e)' /\ ~EsDone(e)'
        /\ (RowGone(e)' <=> RowGone(e)) /\ (Open(e)' <=> Open(e))
        /\ (RowGone(e) /\ call[e].kind = "delete") \/ Open(e)
    BY <1>1, <1>3 DEF Place, At, Saved, VecDone, EsDone, RowGone, Open, In
  <1>5. CASE StepOf(e) = "dropVec"
    <2>1. vec' = Without(vec, call[e].ids) /\ UNCHANGED es
      BY <1>5 DEF WriteStores
    <2>2. DOMAIN vec' = DOMAIN vec \ call[e].ids /\ \A i \in DOMAIN vec' : vec'[i] = vec[i]
      BY <2>1 DEF Without
    <2>3. VecGone(e)' /\ (EsGone(e)' <=> EsGone(e))
      BY <1>1, <1>3, <1>5 DEF Place, At, VecGone, EsGone, In
    <2>4. UNCHANGED <<rows, writes, es, stranded, torn>>
      BY <1>2, <2>1
    <2>5. LockInv' /\ StoreInv'
      BY <1>0, <1>1, <1>4, <2>2, <2>3, <2>4, DropVec
    <2>6. StoreTypes'
      BY <1>0, <1>2, <2>1, <2>2 DEF TypeInv, StoreTypes
    <2>7. QED BY <1>1, <2>5, <2>6 DEF Inv, TypeInv
  <1>6. CASE StepOf(e) = "dropEs"
    <2>1. es' = Without(es, call[e].ids) /\ UNCHANGED vec
      BY <1>6 DEF WriteStores
    <2>2. DOMAIN es' = DOMAIN es \ call[e].ids /\ \A i \in DOMAIN es' : es'[i] = es[i]
      BY <2>1 DEF Without
    <2>3. EsGone(e)' /\ (VecGone(e)' <=> VecGone(e))
      BY <1>1, <1>3, <1>6 DEF Place, At, VecGone, EsGone, In
    <2>4. UNCHANGED <<rows, writes, vec, stranded, torn>>
      BY <1>2, <2>1
    <2>5. LockInv' /\ StoreInv'
      BY <1>0, <1>1, <1>4, <2>2, <2>3, <2>4, DropEs
    <2>6. StoreTypes'
      BY <1>0, <1>2, <2>1, <2>2 DEF TypeInv, StoreTypes
    <2>7. QED BY <1>1, <2>5, <2>6 DEF Inv, TypeInv
  <1>7. QED BY <1>5, <1>6

LEMMA Committed ==
    ASSUME Inv, NEW e \in Editors, Commit(e)
    PROVE  Inv'
  <1>0. TypeInv /\ LockInv /\ StoreInv
    BY DEF Inv
  <1>1. Place(e) /\ StepOf(e) = "commit" /\ EndCall(e) /\ rows' = View(e)
    BY <1>0, Places DEF Commit
  <1>2. UNCHANGED <<vec, es, stranded, torn>> /\ UNCHANGED pks
    BY DEF Commit
  <1>3. /\ CallTypes' /\ WriteTypes' /\ Others(e)
        /\ call'[e] = NoCall /\ pc'[e] = 0 /\ writes'[e] = <<>>
    BY <1>0, <1>1, Ended
  <1>4. ~Open(e) /\ (Saved(e) => VecDone(e) /\ EsDone(e))
    BY <1>1 DEF Place, At, Open, Saved, VecDone, EsDone, In
  <1>5. LockInv' /\ StoreInv'
    BY <1>0, <1>1, <1>2, <1>3, <1>4, Committing
  <1>6. StoreTypes'
    BY <1>0, <1>1, <1>2, ViewRows DEF TypeInv, StoreTypes
  <1>7. QED BY <1>3, <1>5, <1>6 DEF Inv, TypeInv

-----------------------------------------------------------------------------
(* A call that fails leaves its chunks to the sets of those who failed. *)
LEMMA Aborting ==
    ASSUME Inv, NEW e \in Editors, Abort(e)
    PROVE  Inv'
  <1>0. TypeInv /\ LockInv /\ StoreInv
    BY DEF Inv
  <1>1. Place(e) /\ EndCall(e) /\ UNCHANGED <<rows, vec>> /\ UNCHANGED pks
    BY <1>0, Places DEF Abort
  <1>2. /\ CallTypes' /\ WriteTypes' /\ Others(e)
        /\ call'[e] = NoCall /\ pc'[e] = 0 /\ writes'[e] = <<>>
    BY <1>0, <1>1, Ended
  <1>3. call[e].ids \subseteq Ids
    BY <1>0 DEF TypeInv, CallTypes, Call
  <1>4. /\ stranded \subseteq stranded' /\ torn' = torn \cup call[e].ids
        /\ stranded' \subseteq stranded \cup call[e].ids
    BY DEF Abort
  <1>5. VecGone(e) => call[e].ids \subseteq stranded'
    <2>1. ASSUME VecGone(e)
          PROVE  /\ call[e].kind \in {"delete", "clear"}
                 /\ StepOf(e) \in {"dropEs", "uncache", "token", "dropRows", "unmark", "commit"}
      <3>1. CASE call[e].kind = "delete"
        <4>1. pc[e] \in {5, 6, 7, 8}
          BY <1>0, <2>1, <3>1 DEF VecGone, In, TypeInv, CallTypes, CallAt, Last
        <4>2. StepOf(e) = DeleteChunk[pc[e]]
          BY <3>1, <4>1 DEF StepOf, Active, Program
        <4>3. QED BY <3>1, <4>1, <4>2 DEF DeleteChunk
      <3>2. CASE call[e].kind = "clear"
        <4>1. pc[e] \in {3, 4, 5, 6}
          BY <1>0, <2>1, <3>2 DEF VecGone, In, TypeInv, CallTypes, CallAt, Last
        <4>2. StepOf(e) = ClearContexts[pc[e]]
          BY <3>2, <4>1 DEF StepOf, Active, Program
        <4>3. QED BY <3>2, <4>1, <4>2 DEF ClearContexts
      <3>3. QED BY <2>1, <3>1, <3>2 DEF VecGone, In
    <2>2. QED BY <2>1 DEF Abort
  <1> DEFINE f == [i \in call[e].ids |-> Blank]
  <1>6. es' = With(es, f) \/ es' = es
    BY DEF Abort
  <1>7. DOMAIN f = call[e].ids /\ \A i \in DOMAIN f : f[i] = Blank
    OBVIOUS
  <1> HIDE DEF f
  <1>8. /\ DOMAIN es \subseteq DOMAIN es' /\ DOMAIN es' \subseteq DOMAIN es \cup call[e].ids
        /\ \A i \in DOMAIN es' : es'[i] = Blank \/ (i \in DOMAIN es /\ es'[i] = es[i])
        /\ \A i \in DOMAIN es' \ call[e].ids : i \in DOMAIN es /\ es'[i] = es[i]
    BY <1>6, <1>7 DEF With
  <1>9. LockInv' /\ StoreInv'
    <2>1. PICK D \in SUBSET Editors : D = {e}
      OBVIOUS
    <2>2. /\ \A g \in Editors \ D : call'[g] = call[g] /\ pc'[g] = pc[g] /\ writes'[g] = writes[g]
          /\ \A g \in D : call'[g] = NoCall /\ pc'[g] = 0 /\ writes'[g] = <<>>
          /\ \A g \in D : VecGone(g) => call[g].ids \subseteq stranded'
          /\ \A g \in D : VecDone(g) \/ EsDone(g) => call[g].ids \subseteq torn'
      BY <1>2, <1>4, <1>5, <2>1 DEF Others
    <2>3. torn \subseteq torn' /\ \A i \in DOMAIN es' \ torn' : i \in DOMAIN es /\ es'[i] = es[i]
      BY <1>4, <1>8
    <2>4. QED BY <1>0, <1>1, <1>4, <1>8, <2>2, <2>3, Ending
  <1>10. StoreTypes'
    BY <1>0, <1>1, <1>3, <1>4, <1>8 DEF TypeInv, StoreTypes
  <1>11. QED BY <1>2, <1>9, <1>10 DEF Inv, TypeInv

(* A process dies with the calls it serves. *)
LEMMA Crashing ==
    ASSUME Inv, NEW p \in Procs, Crash(p)
    PROVE  Inv'
  <1>0. TypeInv /\ LockInv /\ StoreInv
    BY DEF Inv
  <1> DEFINE dead == {e \in Editors : ProcOf[e] = p /\ Active(e)}
  <1>1. /\ torn' = torn \cup UNION {call[e].ids : e \in dead}
        /\ stranded' = stranded \cup
             UNION {call[e].ids : e \in {f \in dead : call[f].kind \in {"delete", "clear"}}}
        /\ writes' = [e \in Editors |-> IF e \in dead THEN <<>> ELSE writes[e]]
        /\ pc' = [e \in Editors |-> IF e \in dead THEN 0 ELSE pc[e]]
        /\ call' = [e \in Editors |-> IF e \in dead THEN NoCall ELSE call[e]]
        /\ UNCHANGED <<rows, vec, es, pks>>
    BY DEF Crash
  <1>2. PICK D \in SUBSET Editors : D = dead
    OBVIOUS
  <1> HIDE DEF dead
  <1>3. /\ \A f \in Editors \ D : call'[f] = call[f] /\ pc'[f] = pc[f] /\ writes'[f] = writes[f]
        /\ \A e \in D : call'[e] = NoCall /\ pc'[e] = 0 /\ writes'[e] = <<>>
        /\ DOMAIN pc' = Editors /\ DOMAIN writes' = Editors
    BY <1>1, <1>2
  <1>4. \A e \in Editors : call[e].ids \subseteq Ids
    BY <1>0 DEF TypeInv, CallTypes, Call
  <1>5. CallTypes'
    <2>1. call' \in [Editors -> Call]
      BY <1>0, <1>1, NoCallTypes DEF TypeInv, CallTypes
    <2>2. ASSUME NEW f \in Editors PROVE CallAt(call'[f], pc'[f])
      BY <1>0, <1>3, NoCallTypes DEF TypeInv, CallTypes
    <2>3. QED BY <1>3, <2>1, <2>2 DEF CallTypes
  <1>6. WriteTypes'
    <2>1. ASSUME NEW f \in Editors, NEW i \in DOMAIN writes'[f]
          PROVE  i \in Ids /\ writes'[f][i] \in ChunkRow \cup {Gone}
      <3>1. f \notin D /\ writes'[f] = writes[f]
        BY <1>3, <2>1
      <3>2. QED BY <1>0, <2>1, <3>1 DEF TypeInv, WriteTypes
    <2>2. QED BY <1>3, <2>1 DEF WriteTypes
  <1>7. /\ stranded \subseteq stranded' /\ torn \subseteq torn'
        /\ \A e \in D : call[e].ids \subseteq torn'
        /\ \A e \in D : call[e].kind \in {"delete", "clear"} => call[e].ids \subseteq stranded'
        /\ stranded' \subseteq Ids /\ torn' \subseteq Ids
    BY <1>0, <1>1, <1>2, <1>4 DEF TypeInv, StoreTypes
  <1>8. \A e \in D : VecGone(e) => call[e].kind \in {"delete", "clear"}
    BY DEF VecGone, In
  <1>9. LockInv' /\ StoreInv'
    <2>1. /\ UNCHANGED <<rows, vec>> /\ DOMAIN es \subseteq DOMAIN es'
          /\ \A i \in DOMAIN es' \ torn' : i \in DOMAIN es /\ es'[i] = es[i]
          /\ \A e \in D : VecGone(e) => call[e].ids \subseteq stranded'
          /\ \A e \in D : VecDone(e) \/ EsDone(e) => call[e].ids \subseteq torn'
      BY <1>1, <1>7, <1>8
    <2>2. QED BY <1>0, <1>3, <1>7, <2>1, Ending
  <1>10. StoreTypes'
    BY <1>0, <1>1, <1>7 DEF TypeInv, StoreTypes
  <1>11. QED BY <1>5, <1>6, <1>9, <1>10 DEF Inv, TypeInv

LEMMA Standing ==
    ASSUME Inv, UNCHANGED <<rows, writes, vec, es, call, pc, pks, stranded, torn>>
    PROVE  Inv'
  <1>1. TypeInv'
    BY DEF Inv, TypeInv, StoreTypes, WriteTypes, CallTypes
  <1>2. \A e \in Editors : FlagsKept(e) /\ (Open(e)' <=> Open(e))
                           /\ \A i : Covers(e, i)' <=> Covers(e, i)
    BY DEF FlagsKept, Saved, VecDone, EsDone, RowGone, VecGone, EsGone, Open, In, Covers
  <1>3. LockInv'
    BY <1>2 DEF Inv, LockInv, Disjoint, Untouched, GoneRows, DeletedRow, SavedRow, OtherRows, FlagsKept
  <1>4. FindVec' /\ FindEs'
    BY <1>2 DEF Inv, StoreInv, FindVec, FindEs, FlagsKept
  <1>5. SameVec' /\ SameEs'
    BY <1>2 DEF Inv, StoreInv, SameVec, SameEs, FlagsKept
  <1>6. QED BY <1>1, <1>3, <1>4, <1>5 DEF Inv, StoreInv

-----------------------------------------------------------------------------
LEMMA StructuredRows ==
    ASSUME NEW t \in Texts, NEW b \in BOOLEAN
    PROVE  /\ DOMAIN Structured(t, b) = 0..1
           /\ \A i \in 0..1 : Structured(t, b)[i] \in ChunkRow /\ Structured(t, b)[i].text = t
  <1>1. DOMAIN Structured(t, b) = 0..1
    BY DEF Structured
  <1>2. ASSUME NEW i \in 0..1
        PROVE  Structured(t, b)[i] \in ChunkRow /\ Structured(t, b)[i].text = t
    <2> DEFINE order == IF i = 0 THEN <<1>> ELSE <<1, 1>>
               token == (2 - i) * TokensOf[t]
               pos == IF b THEN i + 1 ELSE i
    <2>1. <<1>> \in Seq(Nat) /\ <<1, 1>> \in Seq(Nat)
      OBVIOUS
    <2>2. PICK o \in Seq(Nat) : o = order
      BY <2>1, Zenon
    <2>3. TokensOf[t] \in Nat
      BY ChunkEditingAssumption
    <2>4. PICK n \in Int : n = token
      <3>1. CASE i = 0
        BY <2>3, <3>1
      <3>2. CASE i = 1
        BY <2>3, <3>2
      <3>3. QED BY <3>1, <3>2
    <2>5. PICK p \in Int : p = pos
      OBVIOUS
    <2>6. PICK k \in Nat : k = i + 1
      OBVIOUS
    <2>7. Structured(t, b)[i] = [Row(t, pos, order, token) EXCEPT !.ctx = b, !.pk = i + 1]
      BY DEF Structured
    <2> HIDE DEF order, token, pos
    <2>8. Structured(t, b)[i] = [Row(t, p, o, n) EXCEPT !.ctx = b, !.pk = k]
      BY <2>2, <2>4, <2>5, <2>6, <2>7
    <2>9. Row(t, p, o, n) \in ChunkRow /\ Row(t, p, o, n).text = t
      BY DEF Row, ChunkRow
    <2>10. QED BY <2>8, <2>9 DEF ChunkRow
  <1>3. QED BY <1>1, <1>2

LEMMA ContextRow ==
    ASSUME NEW t \in Texts
    PROVE  /\ [Row(t, 0, <<>>, -911) EXCEPT !.pk = 3] \in ChunkRow
           /\ [Row(t, 0, <<>>, -911) EXCEPT !.pk = 3].text = t
  <1>0. <<>> \in Seq(Nat) /\ -911 \in Int
    OBVIOUS
  <1>1. PICK order \in Seq(Nat), token \in Int : order = <<>> /\ token = -911
    BY <1>0, Zenon
  <1>2. Row(t, 0, order, token) \in ChunkRow /\ Row(t, 0, order, token).text = t
    BY DEF Row, ChunkRow
  <1>3. /\ [Row(t, 0, order, token) EXCEPT !.pk = 3] \in ChunkRow
        /\ [Row(t, 0, order, token) EXCEPT !.pk = 3].text = t
    BY <1>2 DEF ChunkRow
  <1>4. QED BY <1>1, <1>3, Zenon

LEMMA Starting == Init => Inv
  <1> SUFFICES ASSUME Init PROVE Inv
    OBVIOUS
  <1> DEFINE t == CHOOSE x \in Texts : TRUE
  <1>1. t \in Texts
    BY ChunkEditingAssumption
  <1> DEFINE ctx == [i \in {2} |-> [Row(t, 0, <<>>, -911) EXCEPT !.pk = 3]]
  <1>2. PICK b \in BOOLEAN :
          /\ rows = IF b THEN With(Structured(t, TRUE), ctx) ELSE Structured(t, FALSE)
          /\ vec = [i \in DOMAIN rows |-> t] /\ es = vec
          /\ writes = [e \in Editors |-> <<>>]
          /\ call = [e \in Editors |-> NoCall] /\ pc = [e \in Editors |-> 0]
          /\ pks = Cardinality(DOMAIN rows) /\ stranded = {} /\ torn = {}
    BY DEF Init
  <1>3. DOMAIN ctx = {2} /\ \A i \in {2} : ctx[i] \in ChunkRow /\ ctx[i].text = t
    <2> HIDE DEF t
    <2>1. PICK r \in ChunkRow : r = [Row(t, 0, <<>>, -911) EXCEPT !.pk = 3] /\ r.text = t
      BY ZenonT(60), <1>1, ContextRow
    <2>2. ctx = [i \in {2} |-> r]
      BY <2>1
    <2>3. QED BY <2>1, <2>2
  <1> HIDE DEF t, ctx
  <1>4. /\ (DOMAIN rows = 0..1 \/ DOMAIN rows = 0..2)
        /\ \A i \in DOMAIN rows : rows[i] \in ChunkRow /\ rows[i].text = t
    <2>1. CASE b
      <3>1. /\ DOMAIN rows = DOMAIN Structured(t, TRUE) \cup DOMAIN ctx
            /\ \A i \in DOMAIN rows :
                 rows[i] = IF i \in DOMAIN ctx THEN ctx[i] ELSE Structured(t, TRUE)[i]
        BY <1>2, <2>1 DEF With
      <3>2. /\ DOMAIN Structured(t, TRUE) = 0..1
            /\ \A i \in 0..1 : /\ Structured(t, TRUE)[i] \in ChunkRow
                               /\ Structured(t, TRUE)[i].text = t
        BY <1>1, StructuredRows
      <3>3. (0..1) \cup {2} = 0..2
        OBVIOUS
      <3>4. DOMAIN rows = 0..2
        BY <1>3, <3>1, <3>2, <3>3
      <3>5. ASSUME NEW i \in DOMAIN rows PROVE rows[i] \in ChunkRow /\ rows[i].text = t
        <4>1. CASE i \in DOMAIN ctx
          BY <1>3, <3>1, <4>1
        <4>2. CASE i \notin DOMAIN ctx
          BY <3>1, <3>2, <4>2
        <4>3. QED BY <4>1, <4>2
      <3>6. QED BY <3>4, <3>5
    <2>2. CASE ~b
      <3>1. rows = Structured(t, FALSE)
        BY <1>2, <2>2
      <3>2. QED BY <1>1, <3>1, StructuredRows
    <2>3. QED BY <2>1, <2>2
  <1>5. DOMAIN rows \subseteq Ids
    BY <1>4, Bounds
  <1>6. pks \in Nat
    <2>1. PICK zero \in Int, one \in Int, two \in Int : zero = 0 /\ one = 1 /\ two = 2
      OBVIOUS
    <2>2. IsFiniteSet(DOMAIN rows)
      <3>1. DOMAIN rows = zero..one \/ DOMAIN rows = zero..two
        BY <1>4, <2>1
      <3>2. IsFiniteSet(zero..one) /\ IsFiniteSet(zero..two)
        BY FS_Interval
      <3>3. QED BY <3>1, <3>2
    <2>3. QED BY <1>2, <2>2, FS_CardinalityType
  <1>7. DOMAIN vec = DOMAIN rows /\ DOMAIN es = DOMAIN rows
        /\ \A i \in DOMAIN rows : vec[i] = rows[i].text /\ es[i] = rows[i].text
    BY <1>2, <1>4
  <1>8. StoreTypes
    BY <1>1, <1>2, <1>4, <1>5, <1>6, <1>7 DEF StoreTypes
  <1>9. /\ DOMAIN writes = Editors /\ DOMAIN pc = Editors
        /\ \A e \in Editors : /\ DOMAIN writes[e] = {} /\ call[e] = NoCall /\ pc[e] = 0
                              /\ call[e].kind = "none"
    BY <1>2 DEF NoCall
  <1>10. WriteTypes
    BY <1>9 DEF WriteTypes
  <1>11. CallTypes
    BY <1>2, <1>9, NoCallTypes DEF CallTypes
  <1>12. \A e \in Editors : /\ ~Saved(e) /\ ~VecDone(e) /\ ~EsDone(e) /\ ~RowGone(e)
                            /\ ~VecGone(e) /\ ~EsGone(e) /\ ~Open(e)
    BY <1>9 DEF Saved, VecDone, EsDone, RowGone, VecGone, EsGone, Open, In
  <1>13. LockInv
    BY <1>9, <1>12 DEF LockInv, Disjoint, Untouched, GoneRows, DeletedRow, SavedRow, OtherRows
  <1>14. FindVec /\ FindEs
    BY <1>7, <1>12 DEF FindVec, FindEs
  <1>15. SameVec /\ SameEs
    BY <1>7, <1>12 DEF SameVec, SameEs
  <1>16. QED BY <1>8, <1>10, <1>11, <1>13, <1>14, <1>15 DEF Inv, TypeInv, StoreInv

LEMMA Step == Inv /\ [Next]_vars => Inv'
  <1> SUFFICES ASSUME Inv, [Next]_vars PROVE Inv'
    OBVIOUS
  <1>1. CASE UNCHANGED vars
    BY <1>1, Standing DEF vars
  <1>2. ASSUME NEW e \in Editors, NEW k \in Kinds, NEW i \in 0..2, NEW t \in Texts \cup {NoText},
               NEW p \in 0..1, Begin(e, k, i, t, p)
        PROVE  Inv'
    BY <1>2, Beginning
  <1>3. ASSUME NEW e \in Editors, Statement(e) PROVE Inv'
    <2>1. WriteStores(e) => StepOf(e) \in {"vec", "es"} \/ StepOf(e) \in {"dropVec", "dropEs"}
      BY DEF WriteStores
    <2>2. QED
      BY <1>3, <2>1, Picking, Fetching, FetchingContexts, Shifting, SavingRow, DroppingRow,
         WritingRows, Counting, Putting, Dropping, Uncaching, Committed DEF Statement
  <1>4. ASSUME NEW e \in Editors, Fail(e) \/ LockTimeout(e) PROVE Inv'
    BY <1>4, Aborting DEF Fail, LockTimeout
  <1>5. ASSUME NEW p \in Procs, Crash(p) PROVE Inv'
    BY <1>5, Crashing
  <1>6. ASSUME NEW r \in Readers, Search(r) PROVE Inv'
    <2>1. UNCHANGED <<rows, writes, vec, es, call, pc, pks, stranded, torn>>
      BY <1>6 DEF Search, LoadIds, LoadRows, PutCache, history
    <2>2. QED BY <2>1, Standing
  <1>7. QED BY <1>1, <1>2, <1>3, <1>4, <1>5, <1>6 DEF Next

LEMMA Always == Spec => []Inv
  <1>1. QED BY Starting, Step, PTL DEF Spec

-----------------------------------------------------------------------------
(* The variables keep their types: a call is at a step of its program, a    *)
(* transaction writes rows of the table, the stores hold contents.          *)
THEOREM Typing == Spec => []TypeOK
  <1>1. Inv => TypeOK
    <2> SUFFICES ASSUME Inv PROVE TypeOK
      OBVIOUS
    <2>1. TypeInv
      BY DEF Inv
    <2>2. ASSUME NEW e \in Editors, pc[e] # 0 PROVE pc[e] \in DOMAIN Program[call[e].kind]
      <3>1. /\ call[e].kind \in {"add", "update", "delete", "context", "clear"}
            /\ pc[e] \in 1..Last[call[e].kind]
        BY <2>1, <2>2, KindOf DEF TypeInv, CallTypes, CallAt
      <3>2. DOMAIN Program[call[e].kind] = 1..Last[call[e].kind]
        <4>1. /\ DOMAIN AddChunk = 1..6 /\ DOMAIN UpdateChunk = 1..7 /\ DOMAIN DeleteChunk = 1..8
              /\ DOMAIN SaveContext = 1..7 /\ DOMAIN ClearContexts = 1..6
          BY DEF AddChunk, UpdateChunk, DeleteChunk, SaveContext, ClearContexts
        <4>2. CASE call[e].kind = "add"
          BY <4>1, <4>2 DEF Program, Last
        <4>3. CASE call[e].kind = "update"
          BY <4>1, <4>3 DEF Program, Last
        <4>4. CASE call[e].kind = "delete"
          BY <4>1, <4>4 DEF Program, Last
        <4>5. CASE call[e].kind = "context"
          BY <4>1, <4>5 DEF Program, Last
        <4>6. CASE call[e].kind = "clear"
          BY <4>1, <4>6 DEF Program, Last
        <4>7. QED BY <3>1, <4>2, <4>3, <4>4, <4>5, <4>6
      <3>3. QED BY <3>1, <3>2
    <2>3. \A e \in Editors : pc[e] = 0 => call[e] = NoCall
      BY <2>1 DEF TypeInv, CallTypes, CallAt
    <2>4. QED BY <2>1, <2>2, <2>3 DEF TypeOK, TypeInv, StoreTypes, WriteTypes, CallTypes
  <1>2. QED BY <1>1, Always, PTL

(* Whatever calls overlap and whichever fail, a committed chunk has its     *)
(* vector and its index entry, unless a call that deletes it is being       *)
(* served or has failed half-way.                                           *)
THEOREM Findable == Spec => []RowIsFindable
  <1>1. Inv => RowIsFindable
    <2> SUFFICES ASSUME Inv, NEW i \in DOMAIN rows \ stranded,
                        \A e \in Editors : ~Erasing(e, i)
                 PROVE  i \in DOMAIN vec /\ i \in DOMAIN es
      BY DEF RowIsFindable
    <2>1. ASSUME NEW e \in Editors, VecGone(e) \/ EsGone(e), Covers(e, i) PROVE FALSE
      BY <2>1, KindOf DEF Inv, VecGone, EsGone, In, Covers, Erasing, Touches, Active
    <2>2. QED BY <2>1 DEF Inv, StoreInv, FindVec, FindEs
  <1>2. QED BY <1>1, Always, PTL

(* Row, vector store and search index hold the same content of a chunk that *)
(* no call is about, unless a call for it has failed.                       *)
THEOREM Agreement == Spec => []StoresAgree
  <1>1. Inv => StoresAgree
    <2> SUFFICES ASSUME Inv, NEW i \in DOMAIN rows \cap DOMAIN vec \cap DOMAIN es,
                        i \notin torn, \A e \in Editors : ~Touches(e, i)
                 PROVE  vec[i] = rows[i].text /\ es[i] = rows[i].text
      BY DEF StoresAgree
    <2>1. ASSUME NEW e \in Editors, VecDone(e) \/ EsDone(e), i \in call[e].ids PROVE FALSE
      BY <2>1, KindOf DEF Inv, VecDone, EsDone, In, Touches, Active
    <2>2. QED BY <2>1 DEF Inv, StoreInv, SameVec, SameEs
  <1>2. QED BY <1>1, Always, PTL
-----------------------------------------------------------------------------
(* What the node cache of a process holds, while nothing happened that the  *)
(* code does not guard against.  A search that fills the cache began while  *)
(* no call was served, and no call began since; the call that changes the   *)
(* file has emptied the cache, and no search has filled it again.           *)
Fresh(f) == \A i \in DOMAIN f : i \in DOMAIN rows /\ rows[i].text = f[i]
Emptied(e) == In(e, {"update"}, 3) \/ In(e, {"delete"}, 7)
CacheInv ==
    /\ DOMAIN cache = Procs /\ DOMAIN loading = Readers
    /\ \A r \in Readers : loading[r] # Idle /\ ProcOf[r] \notin excused =>
          /\ \A e \in Editors : ~Active(e)
          /\ "nodes" \in DOMAIN loading[r] => Fresh(loading[r].nodes)
    /\ \A e \in Editors : Emptied(e) /\ ProcOf[e] \notin excused => cache[ProcOf[e]] = {}
    /\ \A p \in Procs \ excused : \A f \in cache[p] : Fresh(f)

LEMMA CacheKept ==
    ASSUME CacheInv, UNCHANGED <<rows, cache, loading>>, excused \subseteq excused',
           \A f \in Editors : Emptied(f)' => Emptied(f),
           \A r \in Readers : loading[r] # Idle /\ ProcOf[r] \notin excused' =>
               \A f \in Editors : ~Active(f)'
    PROVE  CacheInv'
  <1>1. \A f : Fresh(f)' <=> Fresh(f)
    BY DEF Fresh
  <1>2. QED BY <1>1 DEF CacheInv

(* A statement ends the call or takes it to its next step. *)
LEMMA StatementKinds ==
    ASSUME TypeInv, NEW e \in Editors, Statement(e), ~Uncache(e), ~Commit(e)
    PROVE  /\ UNCHANGED <<rows, cache, loading, excused>> /\ StepOf(e) # "uncache"
           /\ \/ EndCall(e)
              \/ /\ pc' = [pc EXCEPT ![e] = pc[e] + 1]
                 /\ \A f \in Editors : call'[f].kind = call[f].kind
  <1>1. call \in [Editors -> Call]
    BY DEF TypeInv, CallTypes
  <1>2. CASE PickId(e)
    <2>1. PICK x, y : call' = [call EXCEPT ![e].ids = x, ![e].row = y]
      BY <1>2 DEF PickId
    <2>2. \A f \in Editors : call'[f].kind = call[f].kind
      BY <1>1, <2>1 DEF Call
    <2>3. QED BY <1>2, <2>2 DEF PickId, stores, history
  <1>3. CASE Fetch(e)
    <2>1. EndCall(e) \/ (pc' = [pc EXCEPT ![e] = pc[e] + 1] /\ \E x : call' = [call EXCEPT ![e].row = x])
      BY <1>3 DEF Fetch
    <2>2. (\E x : call' = [call EXCEPT ![e].row = x]) => \A f \in Editors : call'[f].kind = call[f].kind
      BY <1>1 DEF Call
    <2>3. UNCHANGED <<rows, cache, loading, excused>> /\ StepOf(e) # "uncache"
      BY <1>3 DEF Fetch, stores, history
    <2>4. QED BY <2>1, <2>2, <2>3
  <1>4. CASE FetchContexts(e)
    <2>1. EndCall(e) \/ (pc' = [pc EXCEPT ![e] = pc[e] + 1] /\ \E x : call' = [call EXCEPT ![e].ids = x])
      BY <1>4 DEF FetchContexts
    <2>2. (\E x : call' = [call EXCEPT ![e].ids = x]) => \A f \in Editors : call'[f].kind = call[f].kind
      BY <1>1 DEF Call
    <2>3. UNCHANGED <<rows, cache, loading, excused>> /\ StepOf(e) # "uncache"
      BY <1>4 DEF FetchContexts, stores, history
    <2>4. QED BY <2>1, <2>2, <2>3
  <1>5. CASE SaveRow(e)
    <2>1. \E x : call' = [call EXCEPT ![e].row.text = x]
      BY <1>5 DEF SaveRow
    <2>2. \A f \in Editors : call'[f].kind = call[f].kind
      BY <1>1, <2>1 DEF Call
    <2>3. QED BY <1>5, <2>2 DEF SaveRow, history
  <1>6. CASE DropRow(e)
    BY <1>6 DEF DropRow, Advance, history
  <1>7. CASE ShiftPositions(e)
    BY <1>7 DEF ShiftPositions, Advance, history
  <1>8. CASE WriteRows(e)
    BY <1>8 DEF WriteRows, Advance, history
  <1>9. CASE UpdateTokens(e)
    BY <1>9 DEF UpdateTokens, Advance, history
  <1>10. CASE WriteStores(e)
    BY <1>10 DEF WriteStores, Advance, history
  <1>11. QED
    BY <1>2, <1>3, <1>4, <1>5, <1>6, <1>7, <1>8, <1>9, <1>10 DEF Statement

LEMMA CacheEnds ==
    ASSUME Inv, CacheInv, NEW e \in Editors, EndCall(e), UNCHANGED <<rows, cache, loading, excused>>
    PROVE  CacheInv'
  <1>1. Others(e) /\ call'[e] = NoCall /\ pc'[e] = 0
    BY Ended DEF Inv
  <1>2. \A f \in Editors : (Emptied(f)' => Emptied(f)) /\ (Active(f)' => Active(f))
    BY <1>1 DEF Others, Emptied, In, NoCall, Active
  <1>3. QED BY <1>2, CacheKept DEF CacheInv

LEMMA StatementCache ==
    ASSUME Inv, CacheInv, NEW e \in Editors, Statement(e)
    PROVE  CacheInv'
  <1>0. TypeInv /\ DOMAIN pc = Editors /\ ProcOf[e] \in Procs
    BY ChunkEditingAssumption DEF Inv, TypeInv, CallTypes
  <1>1. Place(e)
    BY <1>0, Places
  <1>2. CASE ~Uncache(e) /\ ~Commit(e)
    <2>1. /\ UNCHANGED <<rows, cache, loading, excused>> /\ StepOf(e) # "uncache"
          /\ \/ EndCall(e)
             \/ /\ pc' = [pc EXCEPT ![e] = pc[e] + 1]
                /\ \A f \in Editors : call'[f].kind = call[f].kind
      BY <1>0, <1>2, StatementKinds
    <2>2. CASE EndCall(e)
      BY <2>1, <2>2, CacheEnds
    <2>3. CASE ~EndCall(e)
      <3>1. Active(e) /\ StepOf(e) = Program[call[e].kind][pc[e]]
        <4>1. StepOf(e) # "none"
          BY <1>2 DEF Statement, PickId, Fetch, FetchContexts, ShiftPositions, SaveRow, DropRow,
                      WriteRows, UpdateTokens, WriteStores
        <4>2. QED BY <4>1 DEF StepOf
      <3>2. ~(call[e].kind = "update" /\ pc[e] = 2) /\ ~(call[e].kind = "delete" /\ pc[e] = 6)
        BY <2>1, <3>1 DEF Program, UpdateChunk, DeleteChunk
      <3>3. pc[e] \in Nat
        BY <1>0, KindOf
      <3>4. Emptied(e)' => Emptied(e)
        BY <1>0, <2>1, <2>3, <3>2, <3>3 DEF Emptied, In
      <3>5. \A f \in Editors \ {e} : (Emptied(f)' <=> Emptied(f)) /\ (Active(f)' <=> Active(f))
        BY <1>0, <2>1, <2>3 DEF Emptied, In, Active
      <3>6. \A f \in Editors : Active(f)' => Active(f)
        BY <3>1, <3>5
      <3>7. QED BY <2>1, <3>4, <3>5, <3>6, CacheKept DEF CacheInv
    <2>4. QED BY <2>2, <2>3
  <1>3. CASE Uncache(e)
    <2>1. /\ cache' = [cache EXCEPT ![ProcOf[e]] = {}] /\ UNCHANGED <<rows, loading, excused>>
          /\ Advance(e) /\ StepOf(e) = "uncache"
      BY <1>3 DEF Uncache, history
    <2>2. \A f \in Editors \ {e} : Emptied(f)' <=> Emptied(f)
      BY <1>0, <2>1 DEF Advance, Emptied, In
    <2>3. Active(e)
      BY <2>1 DEF StepOf
    <2>4. \A f : Fresh(f)' <=> Fresh(f)
      BY <2>1 DEF Fresh
    <2>5. DOMAIN cache' = Procs /\ cache'[ProcOf[e]] = {} /\ \A p \in Procs \ {ProcOf[e]} : cache'[p] = cache[p]
      BY <1>0, <2>1 DEF CacheInv
    <2>6. ASSUME NEW f \in Editors, Emptied(f)', ProcOf[f] \notin excused'
          PROVE  cache'[ProcOf[f]] = {}
      <3>1. ProcOf[f] \in Procs
        BY ChunkEditingAssumption
      <3>2. CASE ProcOf[f] = ProcOf[e]
        BY <2>5, <3>2
      <3>3. CASE ProcOf[f] # ProcOf[e]
        BY <2>1, <2>2, <2>5, <2>6, <3>1, <3>3 DEF CacheInv
      <3>4. QED BY <3>2, <3>3
    <2>7. ASSUME NEW p \in Procs \ excused', NEW f \in cache'[p] PROVE Fresh(f)'
      BY <2>1, <2>4, <2>5 DEF CacheInv
    <2>8. QED BY <2>1, <2>3, <2>5, <2>6, <2>7 DEF CacheInv
  <1>4. CASE Commit(e)
    <2>1. /\ excused' = IF call[e].kind \in {"update", "delete"} THEN excused \cup (Procs \ {ProcOf[e]})
                        ELSE Procs
          /\ EndCall(e) /\ UNCHANGED <<cache, loading>> /\ StepOf(e) = "commit" /\ Active(e)
      BY <1>4 DEF Commit, StepOf
    <2>2. Others(e) /\ call'[e] = NoCall /\ pc'[e] = 0
      BY <1>0, <2>1, Ended
    <2>3. \A f \in Editors : Emptied(f)' => Emptied(f)
      BY <2>2 DEF Others, Emptied, In, NoCall
    <2>4. call[e].kind \in {"update", "delete"} => Emptied(e)
      BY <1>1, <2>1 DEF Place, At, Emptied, In
    <2>5. \A r \in Readers : ProcOf[r] \in Procs
      BY ChunkEditingAssumption
    <2>6. \A f \in Editors : ProcOf[f] \in Procs
      BY ChunkEditingAssumption
    <2>7. \A p \in Procs \ excused' : p = ProcOf[e] /\ p \notin excused /\ cache[p] = {}
      BY <2>1, <2>4 DEF CacheInv
    <2>8. \A r \in Readers : loading[r] # Idle => ProcOf[r] \in excused'
      BY <2>1, <2>5, <2>7 DEF CacheInv
    <2>9. QED BY <2>1, <2>3, <2>6, <2>7, <2>8 DEF CacheInv
  <1>5. QED BY <1>2, <1>3, <1>4

LEMMA CrashCache ==
    ASSUME Inv, CacheInv, NEW p \in Procs, Crash(p)
    PROVE  CacheInv'
  <1>1. /\ cache' = [cache EXCEPT ![p] = {}] /\ UNCHANGED rows /\ excused' = excused \ {p}
        /\ loading' = [r \in Readers |-> IF ProcOf[r] = p THEN Idle ELSE loading[r]]
    BY DEF Crash
  <1>2. \A f \in Editors : IF ProcOf[f] = p /\ Active(f)
                           THEN pc'[f] = 0 /\ call'[f] = NoCall
                           ELSE pc'[f] = pc[f] /\ call'[f] = call[f]
    BY DEF Crash
  <1>3. \A f \in Editors : /\ Emptied(f)' => Emptied(f) /\ ProcOf[f] # p
                           /\ Active(f)' => Active(f) /\ ProcOf[f] # p
    <2>1. ASSUME NEW f \in Editors PROVE Active(f) <=> call[f].kind # "none"
      BY KindOf DEF Inv, Active
    <2>2. QED BY <1>2, <2>1 DEF Emptied, In, NoCall, Active
  <1>4. \A f : Fresh(f)' <=> Fresh(f)
    BY <1>1 DEF Fresh
  <1>5. \A q \in Procs : cache'[q] = IF q = p THEN {} ELSE cache[q]
    BY <1>1 DEF CacheInv
  <1>6. DOMAIN cache' = Procs /\ DOMAIN loading' = Readers
    BY <1>1 DEF CacheInv
  <1>7. \A f \in Editors : ProcOf[f] \in Procs
    BY ChunkEditingAssumption
  <1>8. ASSUME NEW r \in Readers, loading'[r] # Idle, ProcOf[r] \notin excused'
        PROVE  /\ \A e \in Editors : ~Active(e)'
               /\ "nodes" \in DOMAIN loading'[r] => Fresh(loading[r].nodes)'
    <2>1. ProcOf[r] # p /\ loading'[r] = loading[r] /\ ProcOf[r] \notin excused
      BY <1>1, <1>8
    <2>2. /\ \A e \in Editors : ~Active(e)
          /\ "nodes" \in DOMAIN loading[r] => Fresh(loading[r].nodes)
      BY <1>8, <2>1 DEF CacheInv
    <2>3. "nodes" \in DOMAIN loading'[r] => Fresh(loading[r].nodes)'
      BY <1>1, <2>1, <2>2 DEF Fresh
    <2>4. QED BY <1>3, <2>2, <2>3
  <1>9. QED BY <1>1, <1>3, <1>4, <1>5, <1>6, <1>7, <1>8 DEF CacheInv

LEMMA SearchCache ==
    ASSUME CacheInv, NEW r \in Readers, Search(r)
    PROVE  CacheInv'
  <1>0. /\ DOMAIN cache = Procs /\ DOMAIN loading = Readers /\ ProcOf[r] \in Procs
        /\ UNCHANGED <<rows, call, pc>>
    BY ChunkEditingAssumption DEF CacheInv, Search, LoadIds, LoadRows, PutCache
  <1>1. \A f \in Editors : (Emptied(f)' <=> Emptied(f)) /\ (Active(f)' <=> Active(f))
    BY <1>0 DEF Emptied, In, Active
  <1>2. \A f : Fresh(f)' <=> Fresh(f)
    BY <1>0 DEF Fresh
  <1>3. CASE LoadIds(r)
    <2>0. PICK x : x = [ids |-> DOMAIN vec]
      OBVIOUS
    <2>1. /\ loading' = [loading EXCEPT ![r] = x] /\ "nodes" \notin DOMAIN x
          /\ UNCHANGED cache
          /\ excused' = excused \cup {p \in {ProcOf[r]} : \E e \in Editors : Active(e)}
      BY <1>3, <2>0 DEF LoadIds
    <2>2. DOMAIN loading' = Readers /\ loading'[r] = x /\ \A q \in Readers \ {r} : loading'[q] = loading[q]
      BY <1>0, <2>1
    <2>3. QED BY <1>0, <1>1, <1>2, <2>1, <2>2 DEF CacheInv
  <1>4. CASE LoadRows(r)
    <2> DEFINE g == [i \in loading[r].ids \cap DOMAIN rows |-> rows[i].text]
    <2>1. /\ loading' = [loading EXCEPT ![r] = [nodes |-> g]] /\ UNCHANGED <<cache, excused>>
          /\ loading[r] # Idle
      BY <1>4 DEF LoadRows, history
    <2>2. Fresh(g)
      BY DEF Fresh
    <2> HIDE DEF g
    <2>3. /\ DOMAIN loading' = Readers /\ loading'[r].nodes = g
          /\ \A q \in Readers \ {r} : loading'[q] = loading[q]
      BY <1>0, <2>1
    <2>4. QED BY <1>0, <1>1, <1>2, <2>1, <2>2, <2>3 DEF CacheInv
  <1>5. CASE PutCache(r)
    <2>1. /\ cache' = [cache EXCEPT ![ProcOf[r]] = {loading[r].nodes}]
          /\ loading' = [loading EXCEPT ![r] = Idle] /\ UNCHANGED excused
          /\ loading[r] # Idle /\ "nodes" \in DOMAIN loading[r]
      BY <1>5 DEF PutCache, history
    <2>2. /\ DOMAIN loading' = Readers /\ loading'[r] = Idle
          /\ \A q \in Readers \ {r} : loading'[q] = loading[q]
          /\ DOMAIN cache' = Procs /\ cache'[ProcOf[r]] = {loading[r].nodes}
          /\ \A p \in Procs \ {ProcOf[r]} : cache'[p] = cache[p]
      BY <1>0, <2>1
    <2>3. ProcOf[r] \notin excused => Fresh(loading[r].nodes) /\ \A e \in Editors : ~Active(e)
      BY <2>1 DEF CacheInv
    <2>4. ASSUME NEW e \in Editors, Emptied(e)', ProcOf[e] \notin excused'
          PROVE  cache'[ProcOf[e]] = {}
      <3>1. ProcOf[e] \in Procs
        BY ChunkEditingAssumption
      <3>2. ProcOf[e] = ProcOf[r] => ~Active(e)
        BY <2>1, <2>3, <2>4
      <3>3. Emptied(e) => Active(e)
        BY DEF Emptied, In, Active
      <3>4. QED BY <1>1, <2>1, <2>2, <2>4, <3>1, <3>2, <3>3 DEF CacheInv
    <2>5. QED BY <1>1, <1>2, <2>1, <2>2, <2>3, <2>4 DEF CacheInv
  <1>6. QED BY <1>3, <1>4, <1>5 DEF Search

LEMMA NextCache == Inv /\ CacheInv /\ [Next]_vars => CacheInv'
  <1> SUFFICES ASSUME Inv, CacheInv, [Next]_vars PROVE CacheInv'
    OBVIOUS
  <1>1. CASE UNCHANGED vars
    <2>1. UNCHANGED <<rows, cache, loading, excused, call, pc>>
      BY <1>1 DEF vars
    <2>2. \A f \in Editors : (Emptied(f)' <=> Emptied(f)) /\ (Active(f)' <=> Active(f))
      BY <2>1 DEF Emptied, In, Active
    <2>3. QED BY <2>1, <2>2, CacheKept DEF CacheInv
  <1>2. ASSUME NEW e \in Editors, NEW k \in Kinds, NEW i \in 0..2, NEW t \in Texts \cup {NoText},
               NEW p \in 0..1, Begin(e, k, i, t, p)
        PROVE  CacheInv'
    <2>1. /\ pc' = [pc EXCEPT ![e] = 1] /\ UNCHANGED <<rows, cache, loading>>
          /\ excused' = excused \cup {q \in Procs : \E r \in Readers : ProcOf[r] = q /\ loading[r] # Idle}
          /\ \A f \in Editors \ {e} : call'[f] = call[f] /\ pc'[f] = pc[f]
      <3>1. \E c : call' = [call EXCEPT ![e] = c]
        BY <1>2 DEF Begin
      <3>2. QED BY <1>2, <3>1 DEF Begin, stores, Inv, TypeInv, CallTypes
    <2>2. pc'[e] = 1
      BY <2>1 DEF Inv, TypeInv, CallTypes
    <2>3. \A f \in Editors : Emptied(f)' => Emptied(f)
      BY <2>1, <2>2 DEF Emptied, In
    <2>4. \A r \in Readers : ProcOf[r] \in Procs
      BY ChunkEditingAssumption
    <2>5. \A r \in Readers : loading[r] # Idle => ProcOf[r] \in excused'
      BY <2>1, <2>4
    <2>6. QED BY <2>1, <2>3, <2>5, CacheKept
  <1>3. ASSUME NEW e \in Editors, Statement(e) PROVE CacheInv'
    BY <1>3, StatementCache
  <1>4. ASSUME NEW e \in Editors, Fail(e) \/ LockTimeout(e) PROVE CacheInv'
    BY <1>4, CacheEnds DEF Fail, LockTimeout, Abort
  <1>5. ASSUME NEW p \in Procs, Crash(p) PROVE CacheInv'
    BY <1>5, CrashCache
  <1>6. ASSUME NEW r \in Readers, Search(r) PROVE CacheInv'
    BY <1>6, SearchCache
  <1>7. QED BY <1>1, <1>2, <1>3, <1>4, <1>5, <1>6 DEF Next

(* What a process has in its node cache is what MySQL holds, however        *)
(* searches, edits, failures and crashes interleave, as long as no other    *)
(* process edited the file, no call extended it and no search read it while *)
(* a call was served.                                                       *)
THEOREM CacheStaysFresh == Spec => []CacheIsFresh
  <1>1. Init => CacheInv
    BY DEF Init, CacheInv, Emptied, In, Idle, NoCall
  <1>2. CacheInv => CacheIsFresh
    BY DEF CacheInv, CacheIsFresh, Fresh
  <1>3. QED BY <1>1, <1>2, Starting, Step, NextCache, PTL DEF Spec

-----------------------------------------------------------------------------
(* The positions, while calls for the file do not overlap: what the one     *)
(* transaction sees has distinct positions, and between the shift and the   *)
(* write of the chunk the position of the chunk is free.                    *)
Distinct(f) == \A i, j \in DOMAIN f : i # j => f[i].pos # f[j].pos
NeedsPlace(e) ==
    \/ call[e].kind \in {"add", "context"} /\ pc[e] = 3
    \/ call[e].kind \in {"update", "delete"} /\ pc[e] \in {2, 3}
PosOf(e) ==
    /\ Distinct(View(e))
    /\ NeedsPlace(e) => \A i \in DOMAIN View(e) \ call[e].ids : View(e)[i].pos # call[e].row.pos
    /\ call[e].kind \in {"add", "context"} /\ pc[e] = 2 => call[e].row.pos = call[e].pos
PosInv ==
    ~overlap =>
        /\ \A e, f \in Editors : Active(e) /\ Active(f) => e = f
        /\ Distinct(rows)
        /\ \A e \in Editors : Active(e) => PosOf(e)

(* What a transaction sees after a write, and after a step without one. *)
LEMMA SeenAfter ==
    ASSUME TypeInv, NEW e \in Editors, NEW g, Write(e, g), UNCHANGED rows, DOMAIN g \subseteq Ids,
           \A i \in DOMAIN g : g[i] \in ChunkRow \cup {Gone}
    PROVE  /\ \A i : i \in DOMAIN View(e)' <=> IF i \in DOMAIN g THEN g[i] # Gone
                                               ELSE i \in DOMAIN View(e)
           /\ \A i \in DOMAIN View(e)' : View(e)'[i] = IF i \in DOMAIN g THEN g[i] ELSE View(e)[i]
  <1>1. /\ DOMAIN writes'[e] = DOMAIN writes[e] \cup DOMAIN g
        /\ \A i \in DOMAIN g : writes'[e][i] = g[i]
        /\ \A i \in DOMAIN writes[e] \ DOMAIN g : writes'[e][i] = writes[e][i]
        /\ WriteTypes'
    BY Writing
  <1>2. \A i \in DOMAIN rows : rows[i] # Gone
    BY RowNotGone DEF TypeInv, StoreTypes
  <1>3. ASSUME NEW w
        PROVE  LET f == With(rows, w) IN
               /\ DOMAIN f = DOMAIN rows \cup DOMAIN w
               /\ \A i \in DOMAIN f : f[i] = IF i \in DOMAIN w THEN w[i] ELSE rows[i]
    BY DEF With
  <1> DEFINE h == With(rows, writes'[e])
             f == With(rows, writes[e])
  <1>4. /\ DOMAIN h = DOMAIN rows \cup DOMAIN writes'[e]
        /\ \A i \in DOMAIN h : h[i] = IF i \in DOMAIN writes'[e] THEN writes'[e][i] ELSE rows[i]
    BY <1>3
  <1>5. /\ DOMAIN f = DOMAIN rows \cup DOMAIN writes[e]
        /\ \A i \in DOMAIN f : f[i] = IF i \in DOMAIN writes[e] THEN writes[e][i] ELSE rows[i]
    BY <1>3
  <1>6. /\ View(e) = [i \in {j \in DOMAIN f : f[j] # Gone} |-> f[i]]
        /\ View(e)' = [i \in {j \in DOMAIN h : h[j] # Gone} |-> h[i]]
    BY DEF View
  <1> HIDE DEF f, h
  <1>7. /\ DOMAIN View(e) = {j \in DOMAIN f : f[j] # Gone} /\ \A i \in DOMAIN View(e) : View(e)[i] = f[i]
        /\ DOMAIN View(e)' = {j \in DOMAIN h : h[j] # Gone} /\ \A i \in DOMAIN View(e)' : View(e)'[i] = h[i]
    BY <1>6
  <1>8. QED BY <1>1, <1>2, <1>4, <1>5, <1>7

LEMMA SeenStill ==
    ASSUME NEW e \in Editors, UNCHANGED rows, writes'[e] = writes[e]
    PROVE  View(e)' = View(e)
  BY DEF View

LEMMA SeenFresh ==
    ASSUME TypeInv, NEW e \in Editors, DOMAIN writes[e] = {}
    PROVE  /\ \A i : i \in DOMAIN View(e) <=> i \in DOMAIN rows
           /\ \A i \in DOMAIN View(e) : View(e)[i] = rows[i]
  BY ViewRows

(* While calls do not overlap, a step of the one that is served is all that *)
(* matters.                                                                 *)
LEMMA OneActs ==
    ASSUME PosInv, NEW e \in Editors, Active(e), UNCHANGED overlap,
           \A f \in Editors \ {e} : pc'[f] = pc[f],
           ~overlap => Distinct(rows)' /\ (Active(e)' => PosOf(e)')
    PROVE  PosInv'
  <1>1. ~overlap => \A f \in Editors : Active(f)' => f = e
    BY DEF PosInv, Active
  <1>2. QED BY <1>1 DEF PosInv

(* A write that keeps the positions apart. *)
LEMMA PosWrite ==
    ASSUME Inv, PosInv, NEW e \in Editors, ~overlap, Active(e), NEW g, Write(e, g), UNCHANGED rows,
           DOMAIN g \subseteq Ids, \A i \in DOMAIN g : g[i] \in ChunkRow \cup {Gone},
           \A i \in DOMAIN g : g[i] # Gone => i \in DOMAIN View(e) /\ g[i].pos = View(e)[i].pos
    PROVE  /\ Distinct(View(e))'
           /\ NeedsPlace(e) => \A i \in DOMAIN View(e)' \ call[e].ids : View(e)'[i].pos # call[e].row.pos
  <1>1. /\ \A i : i \in DOMAIN View(e)' <=> IF i \in DOMAIN g THEN g[i] # Gone
                                            ELSE i \in DOMAIN View(e)
        /\ \A i \in DOMAIN View(e)' : View(e)'[i] = IF i \in DOMAIN g THEN g[i] ELSE View(e)[i]
    BY SeenAfter DEF Inv
  <1>2. \A i \in DOMAIN View(e)' : i \in DOMAIN View(e) /\ View(e)'[i].pos = View(e)[i].pos
    BY <1>1
  <1>3. PosOf(e)
    BY DEF PosInv
  <1>4. QED BY <1>2, <1>3 DEF PosOf, Distinct

LEMMA ShiftPos ==
    ASSUME Inv, PosInv, NEW e \in Editors, ~overlap, ShiftPositions(e)
    PROVE  PosOf(e)'
  <1>0. TypeInv /\ Active(e) /\ LockInv
    BY DEF Inv, ShiftPositions, StepOf
  <1>1. PosOf(e) /\ Place(e)
    BY <1>0, Places DEF PosInv
  <1>2. /\ call' = call /\ pc'[e] = pc[e] + 1 /\ UNCHANGED rows
    BY <1>0, Advancing DEF ShiftPositions
  <1>3. PICK n \in {1, -1} :
          /\ Write(e, [i \in Target(e) |-> [View(e)[i] EXCEPT !.pos = @ + n]])
          /\ n = 1 <=> StepOf(e) = "shiftUp"
    BY DEF ShiftPositions, Shift
  <1> DEFINE g == [i \in Target(e) |-> [View(e)[i] EXCEPT !.pos = @ + n]]
  <1>4. StepOf(e) \in {"shiftUp", "shiftDown"} /\ n \in Int
    BY DEF ShiftPositions
  <1>5. DOMAIN g = Target(e) /\ Target(e) \subseteq DOMAIN View(e) /\ Target(e) \subseteq Ids
    BY <1>0, <1>4, SeenRows, ViewRows
  <1>6. ASSUME NEW i \in DOMAIN g
        PROVE  g[i] \in ChunkRow /\ g[i] # Gone /\ g[i].pos = View(e)[i].pos + n
    <2>1. View(e)[i] \in ChunkRow
      BY <1>0, <1>5, ViewRows
    <2>2. g[i] \in ChunkRow /\ g[i].pos = View(e)[i].pos + n
      BY <1>4, <2>1 DEF ChunkRow
    <2>3. QED BY <2>2, RowNotGone
  <1>7. Write(e, g)
    BY <1>3
  <1> HIDE DEF g
  <1>8. /\ \A i : i \in DOMAIN View(e)' <=> i \in DOMAIN View(e)
        /\ \A i \in DOMAIN View(e)' :
             View(e)'[i].pos = IF i \in Target(e) THEN View(e)[i].pos + n ELSE View(e)[i].pos
    BY <1>0, <1>2, <1>5, <1>6, <1>7, SeenAfter
  <1>9. \A i \in DOMAIN View(e) : View(e)[i].pos \in Int
    BY <1>0, ViewRows DEF ChunkRow
  <1>10. CASE StepOf(e) = "shiftUp"
    <2>1. /\ \A i \in DOMAIN View(e) : i \in Target(e) <=> View(e)[i].pos >= call[e].pos
          /\ call[e].row.pos = call[e].pos /\ call[e].kind \in {"add", "context"} /\ pc[e] = 2
          /\ call[e].pos \in Int
      BY <1>0, <1>1, <1>10 DEF Target, From, Place, At, PosOf, TypeInv, CallTypes, Call
    <2>1a. n = 1 /\ Distinct(View(e))
      BY <1>1, <1>3, <1>10 DEF PosOf
    <2>2. Distinct(View(e))'
      BY <1>8, <1>9, <2>1, <2>1a DEF Distinct
    <2>3. \A i \in DOMAIN View(e)' : View(e)'[i].pos # call[e].row.pos
      BY <1>3, <1>8, <1>9, <1>10, <2>1
    <2>4. QED BY <1>2, <2>1, <2>2, <2>3 DEF PosOf
  <1>11. CASE StepOf(e) = "shiftDown"
    <2>1. /\ \A i \in DOMAIN View(e) : i \in Target(e) <=> View(e)[i].pos >= call[e].row.pos
          /\ call[e].kind = "delete" /\ pc[e] = 3 /\ call[e].row \in ChunkRow
      BY <1>0, <1>1, <1>11 DEF Target, From, Row0, Place, At, TypeInv, CallTypes, CallAt
    <2>2. \A i \in DOMAIN View(e) : i \notin call[e].ids
      BY <1>0, <2>1, ViewRows DEF LockInv, DeletedRow, RowGone, In
    <2>3. call[e].row.pos \in Int /\ \A i \in DOMAIN View(e) : View(e)[i].pos # call[e].row.pos
      BY <1>1, <2>1, <2>2 DEF PosOf, NeedsPlace, ChunkRow
    <2>4. n = -1
      BY <1>3, <1>11
    <2>5. Distinct(View(e))'
      BY <1>1, <1>8, <1>9, <2>1, <2>3, <2>4 DEF PosOf, Distinct
    <2>6. QED BY <1>2, <2>1, <2>5 DEF PosOf, NeedsPlace
  <1>12. QED BY <1>4, <1>10, <1>11

LEMMA SavePos ==
    ASSUME Inv, PosInv, NEW e \in Editors, ~overlap, SaveRow(e)
    PROVE  PosOf(e)'
  <1>0. TypeInv /\ Active(e)
    BY DEF Inv, SaveRow, StepOf
  <1>1. PosOf(e) /\ Place(e) /\ call[e] \in Call /\ CallAt(call[e], pc[e])
    BY <1>0, Places DEF PosInv, TypeInv, CallTypes
  <1>2. /\ pc[e] = 3 /\ call[e].kind \in {"add", "context", "update"} /\ NeedsPlace(e)
    BY <1>1 DEF SaveRow, Place, At, NeedsPlace
  <1>3. PICK i \in Ids : call[e].ids = {i} /\ ChunkOf(e) = i
    BY <1>1, <1>2 DEF CallAt, ChunkOf
  <1>4. PICK r : /\ Write(e, [j \in {i} |-> r]) /\ r \in ChunkRow
                 /\ r.pos = call[e].row.pos
    <2> DEFINE text == IF call[e].text = NoText THEN Row0(e).text ELSE call[e].text
               old == IF i \in DOMAIN View(e) THEN View(e)[i]
                      ELSE [Row(text, 0, <<>>, 0) EXCEPT !.pk = pks + 1]
               new == [old EXCEPT !.text = text, !.pos = Row0(e).pos, !.token = Row0(e).token]
    <2>1. Write(e, [j \in {i} |-> new])
      BY <1>3 DEF SaveRow
    <2>2. new \in ChunkRow /\ new.pos = call[e].row.pos
      <3>1. text \in Texts /\ call[e].row \in ChunkRow
        BY <1>1, <1>2 DEF CallAt, Call, ChunkRow, Row0
      <3>2. old \in ChunkRow
        <4>1. CASE i \in DOMAIN View(e)
          BY <4>1, <1>0, ViewRows
        <4>2. CASE i \notin DOMAIN View(e)
          <5>1. PICK t \in Texts, k \in Nat : t = text /\ k = pks + 1
            BY <1>0, <3>1 DEF TypeInv, StoreTypes
          <5>2. <<>> \in Seq(Nat)
            OBVIOUS
          <5>3. PICK order \in Seq(Nat) : order = <<>>
            BY <5>2, Zenon
          <5> HIDE DEF text
          <5>4. Row(t, 0, order, 0) \in ChunkRow
            BY DEF Row, ChunkRow
          <5>5. [Row(t, 0, order, 0) EXCEPT !.pk = k] \in ChunkRow
            BY <5>4 DEF ChunkRow
          <5>6. old = [Row(t, 0, order, 0) EXCEPT !.pk = k]
            BY <4>2, <5>1, <5>3, Zenon
          <5>7. QED BY <5>5, <5>6, Zenon
        <4>3. QED BY <4>1, <4>2
      <3> HIDE DEF text, old
      <3>3. QED BY <3>1, <3>2 DEF ChunkRow, Row0
    <2> HIDE DEF new
    <2>3. QED BY <2>1, <2>2
  <1> DEFINE g == [j \in {i} |-> r]
  <1>5. Write(e, g) /\ DOMAIN g = {i} /\ g[i] = r /\ r # Gone
    BY <1>4, RowNotGone
  <1> HIDE DEF g
  <1>6. UNCHANGED rows
    BY DEF SaveRow
  <1>7. /\ \A j : j \in DOMAIN View(e)' => j = i \/ j \in DOMAIN View(e)
        /\ \A j \in DOMAIN View(e)' : View(e)'[j] = IF j = i THEN r ELSE View(e)[j]
    BY <1>0, <1>4, <1>5, <1>6, SeenAfter
  <1>8. Distinct(View(e))'
    BY <1>1, <1>2, <1>3, <1>4, <1>7 DEF PosOf, Distinct
  <1>9. pc'[e] = 4
    BY <1>0, <1>2 DEF SaveRow, TypeInv, CallTypes
  <1>10. QED BY <1>8, <1>9 DEF PosOf, NeedsPlace

LEMMA FetchPos ==
    ASSUME Inv, PosInv, NEW e \in Editors, ~overlap, Fetch(e), Active(e)'
    PROVE  PosOf(e)'
  <1>0. TypeInv /\ LockInv /\ Active(e)
    BY DEF Inv, Fetch, StepOf
  <1>1. Place(e) /\ CallAt(call[e], pc[e])
    BY <1>0, Places DEF TypeInv, CallTypes
  <1>2. pc[e] = 1 /\ call[e].kind \in {"update", "delete"}
    BY <1>1 DEF Fetch, Place, At
  <1>3. PICK i \in Ids : call[e].ids = {i} /\ ChunkOf(e) = i
    BY <1>1, <1>2 DEF CallAt, ChunkOf
  <1>4. ~EndCall(e)
    BY <1>0, Ended DEF Active
  <1>5. /\ i \in DOMAIN rows /\ call' = [call EXCEPT ![e].row = rows[i]]
        /\ pc' = [pc EXCEPT ![e] = pc[e] + 1] /\ UNCHANGED <<rows, writes>>
    BY <1>3, <1>4 DEF Fetch, stores
  <1>6. /\ call'[e].row = rows[i] /\ call'[e].kind = call[e].kind /\ call'[e].ids = {i}
        /\ pc'[e] = 2
    BY <1>0, <1>2, <1>3, <1>5 DEF TypeInv, CallTypes, Call
  <1>7. DOMAIN writes[e] = {}
    BY <1>0, <1>2 DEF LockInv, Untouched
  <1>8. /\ View(e)' = View(e)
        /\ \A j : j \in DOMAIN View(e) <=> j \in DOMAIN rows
        /\ \A j \in DOMAIN View(e) : View(e)[j] = rows[j]
    BY <1>0, <1>5, <1>7, SeenStill, SeenFresh
  <1>9. Distinct(rows)
    BY DEF PosInv
  <1>10. Distinct(View(e))'
    BY <1>8, <1>9 DEF Distinct
  <1>11. \A j \in DOMAIN View(e)' \ {i} : View(e)'[j].pos # rows[i].pos
    BY <1>5, <1>8, <1>9 DEF Distinct
  <1>12. QED BY <1>2, <1>6, <1>10, <1>11 DEF PosOf

(* The statements that write no positions. *)
LEMMA OtherPos ==
    ASSUME Inv, PosInv, NEW e \in Editors, ~overlap,
           PickId(e) \/ FetchContexts(e) \/ WriteStores(e) \/ Uncache(e), Active(e)'
    PROVE  PosOf(e)'
  <1>0. TypeInv /\ LockInv /\ Active(e)
    BY DEF Inv, PickId, FetchContexts, WriteStores, Uncache, StepOf
  <1>1. Place(e) /\ PosOf(e) /\ ~EndCall(e) /\ call \in [Editors -> Call] /\ DOMAIN pc = Editors
    BY <1>0, Places, Ended DEF PosInv, TypeInv, CallTypes, Active
  <1>2. UNCHANGED <<rows, writes>>
    BY <1>1 DEF PickId, FetchContexts, WriteStores, Uncache, stores
  <1>3. View(e)' = View(e)
    BY <1>2, SeenStill
  <1>4. Distinct(View(e))'
    BY <1>1, <1>3 DEF PosOf, Distinct
  <1>5. CASE PickId(e)
    <2>1. PICK x, y : /\ call' = [call EXCEPT ![e].ids = x, ![e].row = y]
                      /\ y = Row(call[e].text, call[e].pos, <<>>, -911)
      BY <1>5 DEF PickId
    <2>2. call'[e].row = y /\ call'[e].pos = call[e].pos /\ call'[e].kind = call[e].kind
      BY <1>1, <2>1 DEF Call
    <2>3. y.pos = call[e].pos
      BY <2>1 DEF Row
    <2>4. call[e].kind \in {"add", "context"} /\ pc[e] = 1
      BY <1>1, <1>5 DEF PickId, Place, At
    <2>4a. pc' = [pc EXCEPT ![e] = pc[e] + 1]
      BY <1>5 DEF PickId, Advance
    <2>4b. pc'[e] = pc[e] + 1
      BY <1>1, <2>4a
    <2>4c. pc'[e] = 2
      BY <2>4, <2>4b
    <2>5. QED BY <1>4, <2>2, <2>3, <2>4, <2>4c DEF PosOf, NeedsPlace
  <1>6. CASE FetchContexts(e)
    <2>1. PICK x : call' = [call EXCEPT ![e].ids = x]
      BY <1>1, <1>6 DEF FetchContexts
    <2>2. call'[e].kind = "clear"
      BY <1>1, <1>6, <2>1 DEF FetchContexts, Call, Place, At
    <2>3. QED BY <1>4, <2>2 DEF PosOf, NeedsPlace
  <1>7. CASE WriteStores(e)
    <2>1. call' = call /\ pc'[e] = pc[e] + 1
      BY <1>1, <1>7 DEF WriteStores, Advance
    <2>2. \/ call[e].kind \in {"add", "update", "context"} /\ pc[e] \in {4, 5, 6}
          \/ call[e].kind = "delete" /\ pc[e] \in {4, 5}
          \/ call[e].kind = "clear"
      BY <1>1, <1>7 DEF WriteStores, Place, At
    <2>3. QED BY <1>4, <2>1, <2>2 DEF PosOf, NeedsPlace
  <1>8. CASE Uncache(e)
    <2>1. call' = call /\ pc'[e] = pc[e] + 1
      BY <1>1, <1>8 DEF Uncache, Advance
    <2>2. (call[e].kind = "update" /\ pc[e] = 2) \/ (call[e].kind = "delete" /\ pc[e] = 6)
      BY <1>1, <1>8 DEF Uncache, Place, At
    <2>3. QED BY <1>1, <1>3, <1>4, <2>1, <2>2 DEF PosOf, NeedsPlace
  <1>9. QED BY <1>5, <1>6, <1>7, <1>8

LEMMA RowsPos ==
    ASSUME Inv, PosInv, NEW e \in Editors, ~overlap,
           DropRow(e) \/ WriteRows(e) \/ UpdateTokens(e), Active(e)'
    PROVE  PosOf(e)'
  <1>0. TypeInv /\ LockInv /\ Active(e)
    BY DEF Inv, DropRow, WriteRows, UpdateTokens, StepOf
  <1>1. Place(e) /\ PosOf(e) /\ ~EndCall(e) /\ call[e].ids \subseteq Ids /\ DOMAIN pc = Editors
    BY <1>0, Places, Ended DEF PosInv, TypeInv, CallTypes, Active, Call
  <1>2. call' = call /\ pc'[e] = pc[e] + 1 /\ UNCHANGED rows
    BY <1>1 DEF DropRow, WriteRows, UpdateTokens, Advance
  <1>3. \A i \in DOMAIN View(e) : i \in Ids /\ View(e)[i] \in ChunkRow
    BY <1>0, ViewRows
  <1>4. PICK g : /\ Write(e, g)
                 /\ \A i \in DOMAIN g : g[i] \in ChunkRow \cup {Gone} /\ i \in Ids
                 /\ \A i \in DOMAIN g : g[i] # Gone => i \in DOMAIN View(e) /\ g[i].pos = View(e)[i].pos
    <2>1. CASE DropRow(e) \/ StepOf(e) = "dropRows"
      <3>1. PICK S \in SUBSET Ids : Write(e, [j \in S |-> Gone])
        <4>1. CASE DropRow(e)
          <5>1. {ChunkOf(e)} \subseteq Ids
            BY <1>0, <1>1, <4>1 DEF DropRow, Place, At, TypeInv, CallTypes, CallAt, ChunkOf
          <5>2. Write(e, [j \in {ChunkOf(e)} |-> Gone])
            BY <1>1, <4>1 DEF DropRow
          <5>3. QED BY <5>1, <5>2
        <4>2. CASE StepOf(e) = "dropRows"
          <5>1. Write(e, [i \in Target(e) \cap DOMAIN View(e) |-> Gone])
            BY <4>2 DEF DropRow, WriteRows, UpdateTokens
          <5>2. Target(e) \cap DOMAIN View(e) \subseteq Ids
            BY <1>3
          <5>3. QED BY <5>1, <5>2
        <4>3. QED BY <2>1, <4>1, <4>2
      <3>2. QED BY <3>1
    <2>2. CASE StepOf(e) \in {"mark", "unmark"}
      <3>1. PICK b \in BOOLEAN : Write(e, [i \in Target(e) |-> [View(e)[i] EXCEPT !.ctx = b]])
        BY <2>2 DEF DropRow, UpdateTokens, WriteRows
      <3>2. Target(e) \subseteq DOMAIN View(e)
        BY <1>0, <2>2, SeenRows
      <3>3. \A i \in Target(e) : /\ [View(e)[i] EXCEPT !.ctx = b] \in ChunkRow
                                 /\ [View(e)[i] EXCEPT !.ctx = b].pos = View(e)[i].pos
        BY <1>3, <3>2 DEF ChunkRow
      <3> DEFINE h == [i \in Target(e) |-> [View(e)[i] EXCEPT !.ctx = b]]
      <3>4. Write(e, h) /\ DOMAIN h = Target(e)
            /\ \A i \in Target(e) : h[i] \in ChunkRow /\ h[i].pos = View(e)[i].pos
        BY <3>1, <3>3
      <3> HIDE DEF h
      <3>5. QED BY <1>3, <3>2, <3>4
    <2>3. CASE UpdateTokens(e)
      <3>1. /\ call[e] \in Call /\ CallAt(call[e], pc[e]) /\ pc[e] >= 2 /\ call[e].kind # "clear"
        BY <1>0, <1>1, <2>3 DEF TypeInv, CallTypes, UpdateTokens, Place, At
      <3>2. /\ Row0(e).text \in Texts /\ \A t \in Texts : TokensOf[t] \in Int
            /\ call[e].text = NoText \/ call[e].text \in Texts
        BY <3>1, ChunkEditingAssumption DEF CallAt, ChunkRow, Row0, Call
      <3>3. PICK n \in Int : Write(e, [i \in Target(e) |-> [View(e)[i] EXCEPT !.token = @ + n]])
        <4> DEFINE given == IF call[e].text = NoText THEN 0 ELSE TokensOf[call[e].text]
                   diff == IF call[e].kind = "delete" THEN -TokensOf[Row0(e).text]
                           ELSE given - TokensOf[Row0(e).text]
        <4>1. TokensOf[Row0(e).text] \in Int /\ given \in Int
          BY <3>2
        <4>2. diff \in Int
          BY <4>1
        <4>3. Write(e, [i \in Target(e) |-> [View(e)[i] EXCEPT !.token = @ + diff]])
          BY <2>3 DEF UpdateTokens
        <4> HIDE DEF diff
        <4>4. QED BY <4>2, <4>3
      <3>4. Target(e) \subseteq DOMAIN View(e)
        BY <1>0, <2>3, SeenRows DEF UpdateTokens
      <3> DEFINE h == [i \in Target(e) |-> [View(e)[i] EXCEPT !.token = @ + n]]
      <3>5. \A i \in Target(e) : h[i] \in ChunkRow /\ h[i].pos = View(e)[i].pos
        BY <1>3, <3>4 DEF ChunkRow
      <3>6. Write(e, h) /\ DOMAIN h = Target(e)
        BY <3>3
      <3> HIDE DEF h
      <3>7. QED BY <1>3, <3>4, <3>5, <3>6
    <2>4. QED BY <2>1, <2>2, <2>3 DEF WriteRows
  <1>5. /\ Distinct(View(e))'
        /\ NeedsPlace(e) => \A i \in DOMAIN View(e)' \ call[e].ids : View(e)'[i].pos # call[e].row.pos
    <2>1. DOMAIN g \subseteq Ids
      BY <1>4
    <2>2. QED BY <1>0, <1>2, <1>4, <2>1, PosWrite
  <1>6. \/ At(e, "delete", 2)
        \/ call[e].kind \in {"update", "delete", "context"} /\ pc[e] \in {4, 6, 7}
        \/ call[e].kind = "clear"
    BY <1>1 DEF DropRow, WriteRows, UpdateTokens, Place, At
  <1>7. QED BY <1>2, <1>5, <1>6 DEF PosOf, NeedsPlace, At

LEMMA StatementPos ==
    ASSUME Inv, PosInv, NEW e \in Editors, Statement(e)
    PROVE  PosInv'
  <1>0. TypeInv /\ Active(e)
    BY DEF Inv, Statement, PickId, Fetch, FetchContexts, ShiftPositions, SaveRow, DropRow, WriteRows,
           UpdateTokens, WriteStores, Uncache, Commit, StepOf
  <1>1. UNCHANGED overlap
    BY DEF Statement, PickId, Fetch, FetchContexts, ShiftPositions, SaveRow, DropRow, WriteRows,
           UpdateTokens, WriteStores, Uncache, Commit, history
  <1>2. EndCall(e) \/ \E n : pc' = [pc EXCEPT ![e] = n]
    BY DEF Statement, PickId, Fetch, FetchContexts, ShiftPositions, SaveRow, DropRow, WriteRows,
           UpdateTokens, WriteStores, Uncache, Commit, Advance
  <1>3. \A f \in Editors \ {e} : pc'[f] = pc[f]
    BY <1>0, <1>2, Ended DEF Others, TypeInv, CallTypes
  <1>4. CASE Commit(e)
    <2>1. rows' = View(e) /\ ~Active(e)'
      BY <1>0, <1>4, Ended DEF Commit, Active
    <2>2. ~overlap => Distinct(rows)'
      BY <1>0, <2>1 DEF PosInv, PosOf, Distinct
    <2>3. QED BY <1>0, <1>1, <1>3, <2>1, <2>2, OneActs
  <1>5. CASE ~Commit(e)
    <2>1. UNCHANGED rows
      BY <1>5 DEF Statement, PickId, Fetch, FetchContexts, ShiftPositions, SaveRow, DropRow,
             WriteRows, UpdateTokens, WriteStores, Uncache, stores
    <2>2. ~overlap => Distinct(rows)'
      BY <2>1 DEF PosInv, Distinct
    <2>3. ~overlap /\ Active(e)' => PosOf(e)'
      BY <1>5, ShiftPos, SavePos, FetchPos, OtherPos, RowsPos DEF Statement
    <2>4. QED BY <1>0, <1>1, <1>3, <2>2, <2>3, OneActs
  <1>6. QED BY <1>4, <1>5

(* A call that ends without a commit, alone or with its process. *)
LEMMA PosEnds ==
    ASSUME PosInv, UNCHANGED <<rows, overlap>>,
           \A f \in Editors : ~Active(f)' \/ (call'[f] = call[f] /\ pc'[f] = pc[f] /\ writes'[f] = writes[f])
    PROVE  PosInv'
  <1>1. \A f \in Editors : Active(f)' => Active(f)
    BY DEF Active
  <1>2. ASSUME NEW e \in Editors, Active(e)', ~overlap PROVE PosOf(e)'
    <2>1. call'[e] = call[e] /\ pc'[e] = pc[e] /\ writes'[e] = writes[e]
      BY <1>2
    <2>2. View(e)' = View(e) /\ PosOf(e)
      BY <1>1, <1>2, <2>1, SeenStill DEF PosInv
    <2>3. QED BY <2>1, <2>2 DEF PosOf, Distinct, NeedsPlace
  <1>3. ~overlap => Distinct(rows)'
    BY DEF PosInv, Distinct
  <1>4. QED BY <1>1, <1>2, <1>3 DEF PosInv

LEMMA NextPos == Inv /\ PosInv /\ [Next]_vars => PosInv'
  <1> SUFFICES ASSUME Inv, PosInv, [Next]_vars PROVE PosInv'
    OBVIOUS
  <1>0. TypeInv /\ LockInv
    BY DEF Inv
  <1>1. CASE UNCHANGED vars
    BY <1>1, PosEnds DEF vars
  <1>2. ASSUME NEW e \in Editors, NEW k \in Kinds, NEW i \in 0..2, NEW t \in Texts \cup {NoText},
               NEW p \in 0..1, Begin(e, k, i, t, p)
        PROVE  PosInv'
    <2>1. /\ pc' = [pc EXCEPT ![e] = 1] /\ UNCHANGED <<rows, writes>>
          /\ overlap' = (overlap \/ \E f \in Editors : Active(f)) /\ pc[e] = 0
      BY <1>2 DEF Begin, stores, Active
    <2>2. pc'[e] = 1 /\ \A f \in Editors \ {e} : pc'[f] = pc[f]
      BY <1>0, <2>1 DEF TypeInv, CallTypes
    <2>3. ASSUME ~overlap'
          PROVE  /\ ~overlap /\ Distinct(rows)' /\ PosOf(e)'
                 /\ \A f \in Editors : Active(f)' => f = e
      <3>1. ~overlap /\ \A f \in Editors : Active(f)' => f = e
        BY <2>1, <2>2, <2>3 DEF Active
      <3>2. DOMAIN writes[e] = {}
        BY <1>0, <2>1 DEF LockInv, Untouched
      <3>3. /\ View(e)' = View(e)
            /\ \A j : j \in DOMAIN View(e) <=> j \in DOMAIN rows
            /\ \A j \in DOMAIN View(e) : View(e)[j] = rows[j]
        BY <1>0, <2>1, <3>2, SeenStill, SeenFresh
      <3>4. Distinct(rows) /\ Distinct(rows)'
        BY <2>1, <3>1 DEF PosInv, Distinct
      <3>5. Distinct(View(e))'
        BY <3>3, <3>4 DEF Distinct
      <3>6. QED BY <2>2, <3>1, <3>4, <3>5 DEF PosOf, NeedsPlace
    <2>4. QED BY <2>3 DEF PosInv
  <1>3. ASSUME NEW e \in Editors, Statement(e) PROVE PosInv'
    BY <1>3, StatementPos
  <1>4. ASSUME NEW e \in Editors, Fail(e) \/ LockTimeout(e) PROVE PosInv'
    <2>1. EndCall(e) /\ UNCHANGED <<rows, overlap>>
      BY <1>4 DEF Fail, LockTimeout, Abort
    <2>2. QED BY <1>0, <2>1, Ended, PosEnds DEF Others, Active
  <1>5. ASSUME NEW p \in Procs, Crash(p) PROVE PosInv'
    <2>1. UNCHANGED <<rows, overlap>>
      BY <1>5 DEF Crash
    <2>2. \A f \in Editors : ~Active(f)' \/ (call'[f] = call[f] /\ pc'[f] = pc[f] /\ writes'[f] = writes[f])
      BY <1>5 DEF Crash, Active
    <2>3. QED BY <2>1, <2>2, PosEnds
  <1>6. ASSUME NEW r \in Readers, Search(r) PROVE PosInv'
    BY <1>6, PosEnds DEF Search, LoadIds, LoadRows, PutCache, history
  <1>7. QED BY <1>1, <1>2, <1>3, <1>4, <1>5, <1>6 DEF Next

LEMMA InitPos == Init => PosInv
  <1> SUFFICES ASSUME Init PROVE PosInv
    OBVIOUS
  <1> DEFINE t == CHOOSE x \in Texts : TRUE
             ctx == [i \in {2} |-> [Row(t, 0, <<>>, -911) EXCEPT !.pk = 3]]
  <1>1. PICK b \in BOOLEAN :
          /\ rows = IF b THEN With(Structured(t, TRUE), ctx) ELSE Structured(t, FALSE)
          /\ pc = [e \in Editors |-> 0]
    BY DEF Init
  <1>2. \A c \in BOOLEAN : /\ DOMAIN Structured(t, c) = 0..1
                           /\ \A i \in 0..1 : Structured(t, c)[i].pos = IF c THEN i + 1 ELSE i
    BY DEF Structured, Row
  <1>3. DOMAIN ctx = {2} /\ ctx[2].pos = 0
    BY DEF Row
  <1> HIDE DEF ctx, t
  <1>4. Distinct(rows)
    <2>1. CASE b
      <3>1. /\ DOMAIN rows = DOMAIN Structured(t, TRUE) \cup DOMAIN ctx
            /\ \A i \in DOMAIN rows :
                 rows[i] = IF i \in DOMAIN ctx THEN ctx[i] ELSE Structured(t, TRUE)[i]
        BY <1>1, <2>1 DEF With
      <3>2. ASSUME NEW i \in DOMAIN rows
            PROVE  i \in {0, 1, 2} /\ rows[i].pos = IF i = 2 THEN 0 ELSE i + 1
        <4>1. CASE i \in DOMAIN ctx
          BY <1>3, <3>1, <4>1
        <4>2. CASE i \notin DOMAIN ctx
          <5>1. i \in 0..1 /\ rows[i] = Structured(t, TRUE)[i]
            BY <1>2, <3>1, <4>2
          <5>2. rows[i].pos = i + 1
            BY <1>2, <5>1
          <5>3. i \in {0, 1, 2} /\ i # 2
            BY <5>1
          <5>4. QED BY <5>2, <5>3
        <4>3. QED BY <4>1, <4>2
      <3>3. QED BY <3>2 DEF Distinct
    <2>2. CASE ~b
      <3>1. rows = Structured(t, FALSE)
        BY <1>1, <2>2
      <3>2. \A i \in DOMAIN rows : rows[i].pos = i
        BY <1>2, <3>1
      <3>3. QED BY <3>2 DEF Distinct
    <2>3. QED BY <2>1, <2>2
  <1>5. QED BY <1>1, <1>4 DEF PosInv, Active

(* The positions of a file's chunks stay distinct, whatever calls are made  *)
(* and whichever of them fail or die, as long as no two overlap: the shift  *)
(* and the write of a position are one transaction of one call.             *)
THEOREM PositionsStayDistinct == Spec => []PositionsDistinct
  <1>1. PosInv => PositionsDistinct
    BY DEF PosInv, PositionsDistinct, Distinct
  <1>2. QED BY <1>1, InitPos, Starting, Step, NextPos, PTL DEF Spec

=============================================================================
