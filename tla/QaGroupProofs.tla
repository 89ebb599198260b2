---------------------------- MODULE QaGroupProofs ----------------------------
(***************************************************************************)
(* The live rows of a question-answer group come from one call, and its    *)
(* vectors and index entries are those of its live rows, for any number of *)
(* callers, groups, questions, calls and faults.                           *)
(*                                                                         *)
(* A call replaces the rows of its group between its soft delete and its   *)
(* commit; it is then said to hold the group.  Two calls can hold a group  *)
(* only if there was no row to be locked (bare), and a call that holds its *)
(* group has locked every committed row of it.                             *)
(***************************************************************************)
EXTENDS QaGroup, FiniteSetTheorems, SequenceTheorems, TLAPS

(* The steps of a program, and those at which it holds its group. *)
Steps == [none |-> {}, add |-> 1..4, delete |-> 1..5, cover |-> 1..8, index |-> 1..8]
Holds == [none |-> {}, add |-> 1..4, delete |-> 3..5, cover |-> 3..8, index |-> 2..4]
Holding(c) == pc[c] \in Holds[call[c].kind]

TypeInv ==
    /\ next \in Nat /\ calls \in Nat
    /\ \A i \in DOMAIN rows : i \in Nat /\ i < next /\ rows[i] \in Row
    /\ DOMAIN writes = Callers
    /\ \A c \in Callers : \A i \in DOMAIN writes[c] :
         i \in Nat /\ i < next /\ writes[c][i] \in Row
    /\ call \in [Callers -> Call]
    /\ DOMAIN pc = Callers
    /\ \A c \in Callers : \/ pc[c] = 0 /\ call[c].kind = "none"
                          \/ pc[c] \in Steps[call[c].kind]

(* A row is locked by one call, which keeps its group. *)
Disjoint ==
    \A c, d \in Callers : c # d => DOMAIN writes[c] \cap DOMAIN writes[d] = {}
SameGroup ==
    \A c \in Callers : \A i \in DOMAIN writes[c] \cap DOMAIN rows :
        writes[c][i].group = rows[i].group

(* What a call has written: in other groups it has only marked rows. *)
Idle == \A c \in Callers : ~Holding(c) => DOMAIN writes[c] = {}
Foreign ==
    \A c \in Callers : \A i \in DOMAIN writes[c] :
        writes[c][i].group # call[c].group => i \in DOMAIN rows /\ ~writes[c][i].live
Own ==
    \A c \in Callers : \A i \in DOMAIN writes[c] :
        writes[c][i].group = call[c].group /\ writes[c][i].live
            => writes[c][i].no = call[c].no

Held ==
    \A c \in Callers : Holding(c) /\ call[c].group \notin bare =>
        \A i \in DOMAIN rows : rows[i].group = call[c].group => i \in DOMAIN writes[c]
Apart ==
    \A c, d \in Callers :
        c # d /\ Holding(c) /\ Holding(d) /\ call[c].group = call[d].group
            => call[c].group \in bare

SafeInv == Disjoint /\ SameGroup /\ Idle /\ Foreign /\ Own /\ Held /\ Apart /\ OneVersion
Inv == TypeInv /\ SafeInv

-----------------------------------------------------------------------------
(* The programs, written out. *)
LEMMA JoinFour ==
    ASSUME NEW S, NEW s \in Seq(S), NEW t \in Seq(S), Len(s) = 4, NEW n \in 1..4 + Len(t)
    PROVE  (s \o t)[n] = IF n <= 4 THEN s[n] ELSE t[n - 4]
  <1>1. \A i \in 1 .. Len(s) + Len(t) : (s \o t)[i] =
                     IF i <= Len(s) THEN s[i] ELSE t[i - Len(s)]
    BY ConcatProperties, Zenon
  <1>2. n \in 1 .. Len(s) + Len(t)
    OBVIOUS
  <1>3. (s \o t)[n] = IF n <= Len(s) THEN s[n] ELSE t[n - Len(s)]
    BY <1>1, <1>2, Zenon
  <1>4. QED BY <1>3, Zenon

Names == {"list", "softDelete", "dropVec", "dropEs", "insert", "vec", "es", "commit"}

LEMMA Parts ==
    /\ DeleteProgram \in Seq(Names) /\ Len(DeleteProgram) = 4
    /\ AddProgram \in Seq(Names) /\ Len(AddProgram) = 4
    /\ <<"commit">> \in Seq(Names) /\ Len(<<"commit">>) = 1
  <1>1. DeleteProgram \in Seq(Names)
    BY DEF DeleteProgram, Names
  <1>2. Len(DeleteProgram) = 4
    BY DEF DeleteProgram
  <1>3. AddProgram \in Seq(Names)
    BY DEF AddProgram, Names
  <1>4. Len(AddProgram) = 4
    BY DEF AddProgram
  <1>5. <<"commit">> \in Seq(Names)
    BY DEF Names
  <1>6. Len(<<"commit">>) = 1
    OBVIOUS
  <1>7. QED BY <1>1, <1>2, <1>3, <1>4, <1>5, <1>6, Zenon

LEMMA CoverSteps ==
    ASSUME NEW n \in 1..8
    PROVE  Program["cover"][n] =
       <<"list", "softDelete", "dropVec", "dropEs", "insert", "vec", "es", "commit">>[n]
  <1>1. n \in {1, 2, 3, 4, 5, 6, 7, 8}
    OBVIOUS
  <1>2. n \in 1..4 + Len(AddProgram)
    BY Parts
  <1>3. (DeleteProgram \o AddProgram)[n] =
            IF n <= 4 THEN DeleteProgram[n] ELSE AddProgram[n - 4]
    BY <1>2, Parts, JoinFour, Zenon
  <1>4. Program["cover"] = DeleteProgram \o AddProgram
    BY DEF Program
  <1>5. QED BY <1>1, <1>3, <1>4 DEF DeleteProgram, AddProgram

LEMMA DeleteSteps ==
    ASSUME NEW n \in 1..5
    PROVE  Program["delete"][n] = <<"list", "softDelete", "dropVec", "dropEs", "commit">>[n]
  <1>1. n \in {1, 2, 3, 4, 5}
    OBVIOUS
  <1>2. n \in 1..4 + Len(<<"commit">>)
    BY Parts
  <1>3. (DeleteProgram \o <<"commit">>)[n] =
            IF n <= 4 THEN DeleteProgram[n] ELSE <<"commit">>[n - 4]
    BY <1>2, Parts, JoinFour, Zenon
  <1>4. Program["delete"] = DeleteProgram \o <<"commit">>
    BY DEF Program
  <1>5. QED BY <1>1, <1>3, <1>4 DEF DeleteProgram

LEMMA OtherSteps ==
    /\ Program["add"] = <<"insert", "vec", "es", "commit">>
    /\ Program["index"] =
         <<"softDelete", "insert", "readIds", "commit", "check", "vec", "es", "end">>
  <1>1. Program["add"] = <<"insert", "vec", "es", "commit">>
    BY DEF Program, AddProgram
  <1>2. Program["index"] =
         <<"softDelete", "insert", "readIds", "commit", "check", "vec", "es", "end">>
    BY DEF Program
  <1>3. QED BY <1>1, <1>2

(* The next step of a program is one of it, and a call holds its group from *)
(* the soft delete, or the first insert, to the commit.                     *)
LEMMA NextSteps ==
    ASSUME TypeInv, NEW c \in Callers
    PROVE  /\ StepOf(c) \notin {"none", "commit", "end"} => pc[c] + 1 \in Steps[call[c].kind]
           /\ StepOf(c) \notin {"none", "commit", "end", "softDelete"} =>
                (pc[c] + 1 \in Holds[call[c].kind] <=> Holding(c))
           /\ StepOf(c) = "softDelete" => ~Holding(c)
           /\ StepOf(c) \in {"insert", "commit"} => Holding(c)
           /\ StepOf(c) = "commit" /\ call[c].kind = "index" => pc[c] = 4
  <1>1. CASE pc[c] = 0
    BY <1>1 DEF StepOf, Active
  <1>2. CASE pc[c] # 0 /\ call[c].kind = "add"
    <2>1. pc[c] \in {1, 2, 3, 4}
      BY <1>2 DEF TypeInv, Steps
    <2>2. StepOf(c) = <<"insert", "vec", "es", "commit">>[pc[c]]
      BY <1>2, OtherSteps DEF StepOf, Active
    <2>3. QED BY <1>2, <2>1, <2>2 DEF Holding, Holds, Steps
  <1>3. CASE pc[c] # 0 /\ call[c].kind = "delete"
    <2>1. pc[c] \in {1, 2, 3, 4, 5}
      BY <1>3 DEF TypeInv, Steps
    <2>2. StepOf(c) = <<"list", "softDelete", "dropVec", "dropEs", "commit">>[pc[c]]
      BY <1>3, <2>1, DeleteSteps DEF StepOf, Active
    <2>3. QED BY <1>3, <2>1, <2>2 DEF Holding, Holds, Steps
  <1>4. CASE pc[c] # 0 /\ call[c].kind = "cover"
    <2>1. pc[c] \in {1, 2, 3, 4, 5, 6, 7, 8}
      BY <1>4 DEF TypeInv, Steps
    <2>2. StepOf(c) =
            <<"list", "softDelete", "dropVec", "dropEs", "insert", "vec", "es", "commit">>[pc[c]]
      BY <1>4, <2>1, CoverSteps DEF StepOf, Active
    <2>3. QED BY <1>4, <2>1, <2>2 DEF Holding, Holds, Steps
  <1>5. CASE pc[c] # 0 /\ call[c].kind = "index"
    <2>1. pc[c] \in {1, 2, 3, 4, 5, 6, 7, 8}
      BY <1>5 DEF TypeInv, Steps
    <2>2. StepOf(c) =
            <<"softDelete", "insert", "readIds", "commit", "check", "vec", "es", "end">>[pc[c]]
      BY <1>5, OtherSteps DEF StepOf, Active
    <2>3. QED BY <1>5, <2>1, <2>2 DEF Holding, Holds, Steps
  <1>6. QED BY <1>1, <1>2, <1>3, <1>4, <1>5 DEF TypeInv, Call, Steps

LEMMA SoftDeletePlace ==
    ASSUME TypeInv, NEW c \in Callers, StepOf(c) = "softDelete"
    PROVE  \/ call[c].kind = "index" /\ pc[c] = 1
           \/ call[c].kind \in {"delete", "cover"} /\ pc[c] = 2
  <1>1. pc[c] # 0
    BY DEF StepOf, Active
  <1>2. CASE call[c].kind = "add"
    <2>1. pc[c] \in {1, 2, 3, 4}
      BY <1>1, <1>2 DEF TypeInv, Steps
    <2>2. QED BY <1>1, <1>2, <2>1, OtherSteps DEF StepOf, Active
  <1>3. CASE call[c].kind = "delete"
    <2>1. pc[c] \in {1, 2, 3, 4, 5}
      BY <1>1, <1>3 DEF TypeInv, Steps
    <2>2. StepOf(c) = <<"list", "softDelete", "dropVec", "dropEs", "commit">>[pc[c]]
      BY <1>1, <1>3, <2>1, DeleteSteps DEF StepOf, Active
    <2>3. QED BY <1>3, <2>1, <2>2
  <1>4. CASE call[c].kind = "cover"
    <2>1. pc[c] \in {1, 2, 3, 4, 5, 6, 7, 8}
      BY <1>1, <1>4 DEF TypeInv, Steps
    <2>2. StepOf(c) =
            <<"list", "softDelete", "dropVec", "dropEs", "insert", "vec", "es", "commit">>[pc[c]]
      BY <1>1, <1>4, <2>1, CoverSteps DEF StepOf, Active
    <2>3. QED BY <1>4, <2>1, <2>2
  <1>5. CASE call[c].kind = "index"
    <2>1. pc[c] \in {1, 2, 3, 4, 5, 6, 7, 8}
      BY <1>1, <1>5 DEF TypeInv, Steps
    <2>2. QED BY <1>1, <1>5, <2>1, OtherSteps DEF StepOf, Active
  <1>6. QED BY <1>1, <1>2, <1>3, <1>4, <1>5 DEF TypeInv, Call, Steps

-----------------------------------------------------------------------------
(* The invariant holds initially. *)
LEMMA InitInv == Init => Inv
  <1> SUFFICES ASSUME Init PROVE Inv
    OBVIOUS
  <1>1. \A c \in Callers : pc[c] = 0 /\ call[c] = NoCall /\ DOMAIN writes[c] = {}
    BY DEF Init
  <1>2. \A i \in DOMAIN rows :
           i \in Nat /\ i < next /\ rows[i] \in Row /\ rows[i].no = 0
    <2>1. PICK stored \in SUBSET Groups :
            LET ids(g) == IF g = FileGroup THEN 1..Questions ELSE Questions + 1..2 * Questions IN
            rows = [i \in UNION {ids(g) : g \in stored} |->
                     [group |-> CHOOSE g \in stored : i \in ids(g), no |-> 0, live |-> TRUE]]
      BY DEF Init
    <2> DEFINE ids(g) == IF g = FileGroup THEN 1..Questions ELSE Questions + 1..2 * Questions
    <2>2. ASSUME NEW i \in DOMAIN rows
          PROVE  i \in Nat /\ i < next /\ rows[i] \in Row /\ rows[i].no = 0
      <3>1. PICK h \in stored : i \in ids(h)
        BY <2>1, <2>2
      <3>2. (CHOOSE g \in stored : i \in ids(g)) \in Groups
        BY <2>1, <3>1
      <3>3. i \in Nat /\ i < next
        BY <3>1, QaGroupAssumption DEF Init
      <3>4. QED BY <2>1, <2>2, <3>2, <3>3 DEF Row
    <2>3. QED BY <2>2
  <1>3. TypeInv
    <2>1. NoCall \in Call
      BY QaGroupAssumption DEF NoCall, Call
    <2>2. call \in [Callers -> Call] /\ DOMAIN pc = Callers /\ DOMAIN writes = Callers
      BY <2>1 DEF Init
    <2>3. next \in Nat /\ calls \in Nat
      BY QaGroupAssumption DEF Init
    <2>4. QED BY <1>1, <1>2, <2>2, <2>3 DEF TypeInv, NoCall
  <1>4. \A c \in Callers : ~Holding(c)
    BY <1>1 DEF Holding, Holds, NoCall
  <1>5. OneVersion
    BY <1>2 DEF OneVersion, Live
  <1>6. QED
    BY <1>1, <1>3, <1>4, <1>5
    DEF Inv, SafeInv, Disjoint, SameGroup, Idle, Foreign, Own, Held, Apart

-----------------------------------------------------------------------------
(* A step that adds no row and writes none keeps the invariant if every     *)
(* call goes on holding what it held or loses its writes.                   *)
LEMMA Relax ==
    ASSUME Inv,
           DOMAIN rows' \subseteq DOMAIN rows,
           \A i \in DOMAIN rows' : rows'[i] = rows[i],
           bare' = bare,
           \A c \in Callers :
              \/ DOMAIN (writes'[c]) = {} /\ ~(Holding(c)')
              \/ /\ writes'[c] = writes[c]
                 /\ Holding(c)' <=> Holding(c)
                 /\ Holding(c) =>
                      call'[c].group = call[c].group /\ call'[c].no = call[c].no
                 /\ DOMAIN writes[c] \cap DOMAIN rows \subseteq DOMAIN rows'
    PROVE  SafeInv'
  <1>1. Disjoint'
    BY DEF Inv, SafeInv, Disjoint
  <1>2. SameGroup'
    BY DEF Inv, SafeInv, SameGroup
  <1>3. Idle'
    BY DEF Inv, SafeInv, Idle
  <1>4. Foreign'
    BY DEF Inv, SafeInv, Foreign, Idle
  <1>5. Own'
    BY DEF Inv, SafeInv, Own, Idle
  <1>6. Held'
    BY DEF Inv, SafeInv, Held
  <1>7. Apart'
    BY DEF Inv, SafeInv, Apart
  <1>8. OneVersion'
    BY DEF Inv, SafeInv, OneVersion, Live
  <1>9. QED BY <1>1, <1>2, <1>3, <1>4, <1>5, <1>6, <1>7, <1>8 DEF SafeInv

(* A step of c that goes on with its program keeps it too.                  *)
LEMMA GoOn ==
    ASSUME Inv, NEW c \in Callers,
           StepOf(c) \notin {"none", "softDelete", "commit", "end"},
           UNCHANGED <<rows, writes, next, calls, bare>>,
           Advance(c),
           call' \in [Callers -> Call],
           \A d \in Callers : /\ call'[d].kind = call[d].kind
                              /\ call'[d].group = call[d].group
                              /\ call'[d].no = call[d].no
    PROVE  Inv'
  <1>1. /\ pc[c] + 1 \in Steps[call[c].kind]
        /\ pc[c] + 1 \in Holds[call[c].kind] <=> Holding(c)
    BY NextSteps DEF Inv
  <1>2. pc' = [pc EXCEPT ![c] = pc[c] + 1]
    BY DEF Advance
  <1>3. DOMAIN pc' = Callers /\ pc'[c] = pc[c] + 1 /\ \A d \in Callers \ {c} : pc'[d] = pc[d]
    BY <1>2 DEF Inv, TypeInv
  <1>4. TypeInv'
    BY <1>1, <1>3 DEF Inv, TypeInv
  <1>5. \A d \in Callers : Holding(d)' <=> Holding(d)
    BY <1>1, <1>3 DEF Holding
  <1>6. SafeInv'
    BY <1>5, Relax
  <1>7. QED BY <1>4, <1>6 DEF Inv

(* The end of a call, in whatever way, loses its writes.                    *)
LEMMA EndKeeps ==
    ASSUME Inv, NEW c \in Callers, EndCall(c), UNCHANGED <<rows, next, calls, bare>>
    PROVE  Inv'
  <1>1. NoCall \in Call
    BY QaGroupAssumption DEF NoCall, Call
  <1>2. /\ call' \in [Callers -> Call] /\ call'[c] = NoCall
        /\ \A d \in Callers \ {c} : call'[d] = call[d]
    BY <1>1 DEF EndCall, Inv, TypeInv
  <1>3. /\ DOMAIN pc' = Callers /\ pc'[c] = 0
        /\ \A d \in Callers \ {c} : pc'[d] = pc[d]
    BY DEF EndCall, Inv, TypeInv
  <1>4. /\ DOMAIN writes' = Callers /\ DOMAIN (writes'[c]) = {}
        /\ \A d \in Callers \ {c} : writes'[d] = writes[d]
    BY DEF EndCall, Inv, TypeInv
  <1>5. TypeInv'
    BY <1>2, <1>3, <1>4 DEF Inv, TypeInv, NoCall
  <1>6. ~(Holding(c)')
    BY <1>2, <1>3 DEF Holding, Holds, NoCall
  <1>7. \A d \in Callers \ {c} : Holding(d)' <=> Holding(d)
    BY <1>2, <1>3 DEF Holding
  <1>8. SafeInv'
    BY <1>2, <1>4, <1>6, <1>7, Relax
  <1>9. QED BY <1>5, <1>8 DEF Inv

-----------------------------------------------------------------------------
LEMMA ViewRows ==
    ASSUME Inv, NEW c \in Callers
    PROVE  /\ DOMAIN View(c) = DOMAIN rows \cup DOMAIN writes[c]
           /\ \A i \in DOMAIN View(c) :
                /\ i \in Nat /\ i < next /\ View(c)[i] \in Row
                /\ View(c)[i] = IF i \in DOMAIN writes[c] THEN writes[c][i] ELSE rows[i]
  BY DEF Inv, TypeInv, View, With

LEMMA OnlyActive == ASSUME Inv, NEW c \in Callers, Holding(c) PROVE pc[c] # 0
  <1>1. call[c].kind \in {"none", "add", "delete", "cover", "index"}
    BY DEF Inv, TypeInv, Call
  <1>2. QED BY <1>1 DEF Holding, Holds

LEMMA BeginKeeps ==
    ASSUME Inv, NEW c \in Callers, NEW k \in Kinds, NEW g \in Groups, Begin(c, k, g)
    PROVE  Inv'
  <1> DEFINE new == [NoCall EXCEPT !.kind = k, !.group = g, !.no = calls + 1]
  <1>0. k \in {"add", "delete", "cover", "index"} /\ calls + 1 \in Nat
    BY QaGroupAssumption DEF Inv, TypeInv
  <1>1. new \in Call /\ new.kind = k /\ new.group = g
    BY <1>0 DEF NoCall, Call
  <1>2. /\ call' = [call EXCEPT ![c] = new] /\ pc' = [pc EXCEPT ![c] = 1]
        /\ pc[c] = 0 /\ calls' = calls + 1
        /\ UNCHANGED <<rows, writes, next, bare>>
    BY DEF Begin, stores, Active
  <1> HIDE DEF new
  <1>3. /\ call' \in [Callers -> Call] /\ call'[c] = new
        /\ \A d \in Callers \ {c} : call'[d] = call[d]
    BY <1>1, <1>2 DEF Inv, TypeInv
  <1>4. /\ DOMAIN pc' = Callers /\ pc'[c] = 1
        /\ \A d \in Callers \ {c} : pc'[d] = pc[d]
    BY <1>2 DEF Inv, TypeInv
  <1>5. ~Holding(c)
    BY <1>2, OnlyActive
  <1>6. TypeInv'
    BY <1>0, <1>1, <1>2, <1>3, <1>4 DEF Inv, TypeInv, Steps
  <1>7. \A d \in Callers \ {c} : Holding(d)' <=> Holding(d)
    BY <1>3, <1>4 DEF Holding
  <1>8. DOMAIN writes[c] = {}
    BY <1>5 DEF Inv, SafeInv, Idle
  <1>9. CASE k # "add"
    <2>1. ~(Holding(c)')
      BY <1>0, <1>1, <1>3, <1>4, <1>9 DEF Holding, Holds
    <2>2. SafeInv'
      BY <1>2, <1>3, <1>7, <1>8, <2>1, Relax
    <2>3. QED BY <1>6, <2>2 DEF Inv
  <1>10. CASE k = "add"
    <2>1. /\ \A i \in DOMAIN rows : rows[i].group # g
          /\ \A d \in Callers : Active(d) => call[d].group # g
      BY <1>10 DEF Begin
    <2>2. \A d \in Callers \ {c} : Holding(d) => call[d].group # g
      BY <2>1, OnlyActive DEF Active
    <2>3. Disjoint' /\ SameGroup' /\ OneVersion'
      BY <1>2 DEF Inv, SafeInv, Disjoint, SameGroup, OneVersion, Live
    <2>4. Idle'
      BY <1>2, <1>7, <1>8 DEF Inv, SafeInv, Idle
    <2>5. Foreign' /\ Own'
      BY <1>2, <1>3, <1>8 DEF Inv, SafeInv, Foreign, Own
    <2>6. Held'
      BY <1>1, <1>2, <1>3, <1>7, <2>1 DEF Inv, SafeInv, Held
    <2>7. Apart'
      BY <1>1, <1>2, <1>3, <1>7, <2>2 DEF Inv, SafeInv, Apart
    <2>8. QED BY <1>6, <2>3, <2>4, <2>5, <2>6, <2>7 DEF Inv, SafeInv
  <1>11. QED BY <1>9, <1>10

LEMMA ListKeeps == ASSUME Inv, NEW c \in Callers, List(c) PROVE Inv'
  <1>1. PICK s \in SUBSET VectorsOf(call[c].group) :
          call' = [call EXCEPT ![c].sample = s \cap DOMAIN rows,
                               ![c].listed = Live(View(c), call[c].group)]
    BY DEF List
  <1>2. s \cap DOMAIN rows \in SUBSET Nat /\ Live(View(c), call[c].group) \in SUBSET Nat
    BY ViewRows DEF Inv, TypeInv, Live
  <1>3. /\ call' \in [Callers -> Call]
        /\ \A d \in Callers : /\ call'[d].kind = call[d].kind
                              /\ call'[d].group = call[d].group
                              /\ call'[d].no = call[d].no
    BY ZenonT(60), <1>1, <1>2 DEF Inv, TypeInv, Call
  <1>4. QED BY <1>3, GoOn DEF List, stores, history

LEMMA ReadIdsKeeps == ASSUME Inv, NEW c \in Callers, ReadIds(c) PROVE Inv'
  <1>1. call' = [call EXCEPT ![c].listed = DOMAIN View(c)]
    BY DEF ReadIds
  <1>2. DOMAIN View(c) \in SUBSET Nat
    BY ViewRows
  <1>3. /\ call' \in [Callers -> Call]
        /\ \A d \in Callers : /\ call'[d].kind = call[d].kind
                              /\ call'[d].group = call[d].group
                              /\ call'[d].no = call[d].no
    BY <1>1, <1>2 DEF Inv, TypeInv, Call
  <1>4. QED BY <1>3, GoOn DEF ReadIds, stores, history

LEMMA CheckIdsKeeps == ASSUME Inv, NEW c \in Callers, CheckIds(c) PROVE Inv'
  <1>1. CASE Advance(c) /\ UNCHANGED <<call, writes>>
    <2>1. call' \in [Callers -> Call]
      BY <1>1 DEF Inv, TypeInv
    <2>2. QED BY <1>1, <2>1, GoOn DEF CheckIds, stores
  <1>2. CASE EndCall(c)
    BY <1>2, EndKeeps DEF CheckIds, stores
  <1>3. QED BY <1>1, <1>2 DEF CheckIds

LEMMA WriteStoresKeeps == ASSUME Inv, NEW c \in Callers, WriteStores(c) PROVE Inv'
  <1>1. StepOf(c) \in {"vec", "es", "dropVec", "dropEs"}
    BY DEF WriteStores
  <1>2. call' \in [Callers -> Call] /\ call' = call
    BY DEF WriteStores, Inv, TypeInv
  <1>3. QED BY <1>1, <1>2, GoOn DEF WriteStores, history

(* The soft delete waits for those who have locked rows it matches.  If a   *)
(* call that holds the group has not locked any, there is none to be locked.*)
LEMMA SoftDeleteKeeps == ASSUME Inv, NEW c \in Callers, SoftDelete(c) PROVE Inv'
  <1> DEFINE marked == [i \in Match(c) |-> [View(c)[i] EXCEPT !.live = FALSE]]
  <1>1. /\ writes' = [writes EXCEPT ![c] = With(writes[c], marked)]
        /\ Advance(c) /\ UNCHANGED <<rows, next, calls, call>>
        /\ StepOf(c) = "softDelete" /\ ~Holding(c)
        /\ pc[c] + 1 \in Steps[call[c].kind]
    BY NextSteps DEF SoftDelete, stores, Inv
  <1>2. DOMAIN writes[c] = {}
    BY <1>1 DEF Inv, SafeInv, Idle
  <1>3. /\ DOMAIN View(c) = DOMAIN rows
        /\ \A i \in DOMAIN rows : View(c)[i] = rows[i]
    BY <1>2, ViewRows
  <1>4. Match(c) = {i \in DOMAIN rows : Affects(call[c], rows[i].group)}
    BY <1>3 DEF Match
  <1>5. /\ DOMAIN writes' = Callers
        /\ DOMAIN (writes'[c]) = Match(c)
        /\ \A i \in Match(c) : writes'[c][i] = [rows[i] EXCEPT !.live = FALSE]
        /\ \A d \in Callers \ {c} : writes'[d] = writes[d]
    BY <1>1, <1>2, <1>3, <1>4 DEF With, Inv, TypeInv
  <1>6. ASSUME NEW i \in Match(c)
        PROVE  /\ writes'[c][i] \in Row /\ ~(writes'[c][i].live)
               /\ writes'[c][i].group = rows[i].group
    <2>1. rows[i] \in Row
      BY <1>4 DEF Inv, TypeInv
    <2>2. writes'[c][i] = [rows[i] EXCEPT !.live = FALSE]
      BY <1>5
    <2>3. QED BY <2>1, <2>2 DEF Row
  <1>7. /\ DOMAIN pc' = Callers /\ pc'[c] = pc[c] + 1
        /\ \A d \in Callers \ {c} : pc'[d] = pc[d]
    BY <1>1 DEF Advance, Inv, TypeInv
  <1>8. TypeInv'
    BY <1>1, <1>4, <1>5, <1>6, <1>7 DEF Inv, TypeInv
  <1>9. \A d \in Callers \ {c} : Holding(d)' <=> Holding(d)
    BY <1>1, <1>7 DEF Holding
  <1>10. Holding(c)'
    <2>1. CASE call[c].kind = "index"
      <3>1. pc[c] = 1
        BY <1>1, <2>1, SoftDeletePlace DEF Inv
      <3>2. QED BY <1>1, <1>7, <2>1, <3>1 DEF Holding, Holds
    <2>2. CASE call[c].kind # "index"
      <3>1. pc[c] = 2 /\ call[c].kind \in {"delete", "cover"}
        BY <1>1, <2>2, SoftDeletePlace DEF Inv
      <3>2. QED BY <1>1, <1>7, <3>1 DEF Holding, Holds
    <2>3. QED BY <2>1, <2>2
  <1>11. ASSUME NEW d \in Callers \ {c}, NEW i \in DOMAIN writes[d]
         PROVE  i \notin Match(c)
    <2>1. ~Affects(call[c], writes[d][i].group)
      BY <1>11 DEF SoftDelete, Blocked
    <2>2. i \in DOMAIN rows => writes[d][i].group = rows[i].group
      BY <1>11 DEF Inv, SafeInv, SameGroup
    <2>3. QED BY <1>4, <2>1, <2>2
  <1>12. Disjoint'
    BY <1>5, <1>11 DEF Inv, SafeInv, Disjoint
  <1>13. SameGroup'
    BY <1>1, <1>5, <1>6 DEF Inv, SafeInv, SameGroup
  <1>14. Idle'
    BY <1>5, <1>9, <1>10 DEF Inv, SafeInv, Idle
  <1>15. Foreign'
    BY <1>1, <1>4, <1>5, <1>6 DEF Inv, SafeInv, Foreign
  <1>16. Own'
    BY <1>1, <1>5, <1>6 DEF Inv, SafeInv, Own
  <1>17. bare \subseteq bare'
    BY DEF SoftDelete
  <1>18. Held'
    <2>1. ASSUME NEW i \in DOMAIN rows, rows[i].group = call[c].group PROVE i \in Match(c)
      BY <1>4, <2>1 DEF Affects
    <2>2. QED BY <1>1, <1>5, <1>9, <1>17, <2>1 DEF Inv, SafeInv, Held
  <1>19. Apart'
    <2>1. ASSUME NEW d \in Callers \ {c}, Holding(d), call[d].group = call[c].group,
                 call[c].group \notin bare
          PROVE  call[c].group \in bare'
      <3>1. ASSUME NEW i \in DOMAIN rows, rows[i].group = call[c].group PROVE FALSE
        <4>1. i \in DOMAIN writes[d]
          BY <2>1, <3>1 DEF Inv, SafeInv, Held
        <4>2. i \in Match(c)
          BY <1>4, <3>1 DEF Affects
        <4>3. QED BY <1>11, <4>1, <4>2
      <3>2. Touches(d, call[c].group)
        BY <2>1, OnlyActive DEF Touches, Active, Affects
      <3>3. /\ call[c].group \in Groups /\ Affects(call[c], call[c].group)
            /\ \A i \in Match(c) : View(c)[i].group # call[c].group
        BY <1>3, <1>4, <3>1 DEF Affects, Inv, TypeInv, Call
      <3>4. QED BY <3>2, <3>3 DEF SoftDelete
    <2>2. QED BY <1>1, <1>9, <1>17, <2>1 DEF Inv, SafeInv, Apart
  <1>20. OneVersion'
    BY <1>1, <1>17 DEF Inv, SafeInv, OneVersion, Live
  <1>21. QED
    BY <1>8, <1>12, <1>13, <1>14, <1>15, <1>16, <1>18, <1>19, <1>20 DEF Inv, SafeInv

LEMMA InsertKeeps == ASSUME Inv, NEW c \in Callers, Insert(c) PROVE Inv'
  <1> DEFINE n == IF call[c].kind = "index" THEN Questions ELSE 1
             ids == next..next + n - 1
             row == [group |-> call[c].group, no |-> call[c].no, live |-> TRUE]
  <1>1. /\ writes' = [writes EXCEPT ![c] = With(writes[c], [i \in ids |-> row])]
        /\ next' = next + n
        /\ call' = [call EXCEPT ![c].new = @ \cup ids]
        /\ Advance(c) \/ UNCHANGED pc
        /\ UNCHANGED <<rows, calls, bare>> /\ StepOf(c) = "insert"
    BY DEF Insert, history
  <1>2. n \in Nat \ {0} /\ next \in Nat /\ row \in Row
    BY QaGroupAssumption DEF Inv, TypeInv, Call, Row
  <1> HIDE DEF n, row
  <1>3. ids \in SUBSET Nat /\ \A i \in ids : i >= next /\ i < next + n
    BY <1>2
  <1> HIDE DEF ids
  <1>4. /\ DOMAIN writes' = Callers
        /\ DOMAIN (writes'[c]) = DOMAIN writes[c] \cup ids
        /\ \A i \in DOMAIN (writes'[c]) :
             writes'[c][i] = IF i \in ids THEN row ELSE writes[c][i]
        /\ \A d \in Callers \ {c} : writes'[d] = writes[d]
    BY <1>1 DEF With, Inv, TypeInv
  <1>5. \A d \in Callers : \A i \in DOMAIN rows \cup DOMAIN writes[d] : i \notin ids
    BY <1>3 DEF Inv, TypeInv
  <1>6. /\ call' \in [Callers -> Call]
        /\ \A d \in Callers : /\ call'[d].kind = call[d].kind
                              /\ call'[d].group = call[d].group
                              /\ call'[d].no = call[d].no
    BY <1>1, <1>3 DEF Inv, TypeInv, Call
  <1>7. /\ Holding(c) /\ pc[c] + 1 \in Holds[call[c].kind]
        /\ pc[c] + 1 \in Steps[call[c].kind]
    BY <1>1, NextSteps DEF Inv
  <1>8. /\ DOMAIN pc' = Callers /\ pc'[c] \in {pc[c], pc[c] + 1}
        /\ \A d \in Callers \ {c} : pc'[d] = pc[d]
    BY <1>1 DEF Advance, Inv, TypeInv
  <1>9. next' \in Nat /\ next <= next'
    BY <1>1, <1>2
  <1>10. ASSUME NEW d \in Callers, NEW i \in DOMAIN (writes'[d])
         PROVE  i \in Nat /\ i < next' /\ writes'[d][i] \in Row
    <2>1. CASE i \in DOMAIN writes[d] /\ i \notin ids
      <3>1. i \in Nat /\ i < next /\ writes[d][i] \in Row
        BY <2>1 DEF Inv, TypeInv
      <3>2. writes'[d][i] = writes[d][i]
        BY <1>4, <2>1
      <3>3. QED BY <1>2, <1>9, <3>1, <3>2
    <2>2. CASE d = c /\ i \in ids
      BY <1>1, <1>2, <1>3, <1>4, <2>2
    <2>3. QED BY <1>4, <1>5, <1>10, <2>1, <2>2
  <1>11. TypeInv'
    <2>1. next' \in Nat /\ calls' \in Nat
      BY <1>1, <1>9 DEF Inv, TypeInv
    <2>2. \A i \in DOMAIN rows' : i \in Nat /\ i < next' /\ rows'[i] \in Row
      BY <1>1, <1>2, <1>9 DEF Inv, TypeInv
    <2>3. \A d \in Callers : \/ pc'[d] = 0 /\ call'[d].kind = "none"
                             \/ pc'[d] \in Steps[call'[d].kind]
      BY <1>6, <1>7, <1>8 DEF Inv, TypeInv
    <2>4. QED BY <1>4, <1>6, <1>8, <1>10, <2>1, <2>2, <2>3 DEF TypeInv
  <1>12. \A d \in Callers : Holding(d)' <=> Holding(d)
    BY <1>6, <1>7, <1>8 DEF Holding
  <1>13. row.group = call[c].group /\ row.no = call[c].no
    BY DEF row
  <1>14. Disjoint'
    BY <1>4, <1>5 DEF Inv, SafeInv, Disjoint
  <1>15. SameGroup'
    BY <1>1, <1>4, <1>5 DEF Inv, SafeInv, SameGroup
  <1>16. Idle'
    BY <1>4, <1>7, <1>12 DEF Inv, SafeInv, Idle
  <1>17. Foreign'
    BY <1>1, <1>4, <1>6, <1>13 DEF Inv, SafeInv, Foreign
  <1>18. Own'
    BY <1>4, <1>6, <1>13 DEF Inv, SafeInv, Own
  <1>19. Held'
    BY <1>1, <1>4, <1>6, <1>12 DEF Inv, SafeInv, Held
  <1>20. Apart'
    BY <1>1, <1>6, <1>12 DEF Inv, SafeInv, Apart
  <1>21. OneVersion'
    BY <1>1 DEF Inv, SafeInv, OneVersion, Live
  <1>22. QED
    BY <1>11, <1>14, <1>15, <1>16, <1>17, <1>18, <1>19, <1>20, <1>21 DEF Inv, SafeInv

(* A commit publishes the writes.  Nobody else holds the group, and rows of *)
(* other groups are only marked.                                            *)
LEMMA CommitKeeps == ASSUME Inv, NEW c \in Callers, Commit(c) PROVE Inv'
  <1>1. /\ rows' = View(c) /\ UNCHANGED <<next, calls, bare>>
        /\ StepOf(c) = "commit" /\ Holding(c)
    BY NextSteps DEF Commit, history, Inv
  <1>2. /\ DOMAIN rows' = DOMAIN rows \cup DOMAIN writes[c]
        /\ \A i \in DOMAIN rows' :
             /\ i \in Nat /\ i < next /\ rows'[i] \in Row
             /\ rows'[i] = IF i \in DOMAIN writes[c] THEN writes[c][i] ELSE rows[i]
    BY <1>1, ViewRows
  <1>3. /\ DOMAIN writes' = Callers /\ DOMAIN (writes'[c]) = {}
        /\ \A d \in Callers \ {c} : writes'[d] = writes[d]
    BY DEF Commit, EndCall, Inv, TypeInv
  <1>4. /\ call' \in [Callers -> Call] /\ \A d \in Callers \ {c} : call'[d] = call[d]
        /\ DOMAIN pc' = Callers /\ \A d \in Callers \ {c} : pc'[d] = pc[d]
        /\ \/ pc'[c] = 0 /\ call'[c].kind = "none"
           \/ pc'[c] = 5 /\ call'[c].kind = "index"
    <2>1. CASE call[c].kind = "index"
      <3>1. pc[c] = 4 /\ Advance(c) /\ call' = call
        BY <1>1, <2>1, NextSteps DEF Commit, Inv
      <3>2. QED BY <2>1, <3>1 DEF Advance, Inv, TypeInv
    <2>2. CASE call[c].kind # "index"
      <3>1. EndCall(c)
        BY <2>2 DEF Commit
      <3>2. NoCall \in Call /\ NoCall.kind = "none"
        BY QaGroupAssumption DEF NoCall, Call
      <3>3. QED BY <3>1, <3>2 DEF EndCall, Inv, TypeInv
    <2>3. QED BY <2>1, <2>2
  <1>5. ~(Holding(c)') /\ \A d \in Callers \ {c} : Holding(d)' <=> Holding(d)
    BY <1>4 DEF Holding, Holds
  <1>6. TypeInv'
    <2>1. \A d \in Callers : \/ pc'[d] = 0 /\ call'[d].kind = "none"
                             \/ pc'[d] \in Steps[call'[d].kind]
      BY <1>4 DEF Steps, Inv, TypeInv
    <2>2. \A d \in Callers : \A i \in DOMAIN (writes'[d]) :
            i \in Nat /\ i < next' /\ writes'[d][i] \in Row
      BY <1>1, <1>3 DEF Inv, TypeInv
    <2>3. next' \in Nat /\ calls' \in Nat
      BY <1>1 DEF Inv, TypeInv
    <2>4. QED BY <1>1, <1>2, <1>3, <1>4, <2>1, <2>2, <2>3 DEF TypeInv
  <1>7. ASSUME NEW d \in Callers \ {c}, NEW i \in DOMAIN writes[d] PROVE i \notin DOMAIN writes[c]
    BY <1>7 DEF Inv, SafeInv, Disjoint
  <1>8. Disjoint'
    BY <1>3 DEF Inv, SafeInv, Disjoint
  <1>9. SameGroup'
    BY <1>2, <1>3, <1>7 DEF Inv, SafeInv, SameGroup
  <1>10. Idle'
    BY <1>3, <1>5 DEF Inv, SafeInv, Idle
  <1>11. Foreign'
    BY <1>2, <1>3, <1>4 DEF Inv, SafeInv, Foreign
  <1>12. Own'
    BY <1>3, <1>4 DEF Inv, SafeInv, Own
  <1>13. ASSUME NEW i \in DOMAIN writes[c], writes[c][i].group # call[c].group
         PROVE  i \in DOMAIN rows /\ ~writes[c][i].live /\ rows[i].group = writes[c][i].group
    BY <1>13 DEF Inv, SafeInv, Foreign, SameGroup
  <1>14. Held'
    <2>1. ASSUME NEW d \in Callers \ {c}, Holding(d), call[d].group \notin bare,
                 NEW i \in DOMAIN rows', rows'[i].group = call[d].group
          PROVE  i \in DOMAIN writes[d]
      <3>1. call[c].group # call[d].group
        BY <1>1, <2>1 DEF Inv, SafeInv, Apart
      <3>2. i \in DOMAIN rows /\ rows[i].group = call[d].group
        BY <1>2, <1>13, <2>1, <3>1
      <3>3. QED BY <2>1, <3>2 DEF Inv, SafeInv, Held
    <2>2. QED BY <1>1, <1>3, <1>4, <1>5, <2>1 DEF Held
  <1>15. Apart'
    BY <1>1, <1>4, <1>5 DEF Inv, SafeInv, Apart
  <1>16. OneVersion'
    <2>1. ASSUME NEW g \in Groups \ bare, NEW i \in Live(rows', g), NEW j \in Live(rows', g)
          PROVE  rows'[i].no = rows'[j].no
      <3>1. /\ i \in DOMAIN rows' /\ rows'[i].group = g /\ rows'[i].live
            /\ j \in DOMAIN rows' /\ rows'[j].group = g /\ rows'[j].live
        BY <2>1 DEF Live
      <3>2. CASE call[c].group = g
        <4>1. ASSUME NEW k \in DOMAIN rows', rows'[k].group = g, rows'[k].live
              PROVE  rows'[k].no = call[c].no
          <5>1. k \in DOMAIN writes[c]
            BY <1>1, <1>2, <2>1, <3>2, <4>1 DEF Inv, SafeInv, Held
          <5>2. QED BY <1>2, <3>2, <4>1, <5>1 DEF Inv, SafeInv, Own
        <4>2. QED BY <3>1, <4>1
      <3>3. CASE call[c].group # g
        <4>1. ASSUME NEW k \in DOMAIN rows', rows'[k].group = g, rows'[k].live
              PROVE  k \in Live(rows, g) /\ rows'[k] = rows[k]
          BY <1>2, <1>13, <3>3, <4>1 DEF Live
        <4>2. QED BY <2>1, <3>1, <4>1 DEF Inv, SafeInv, OneVersion
      <3>4. QED BY <3>2, <3>3
    <2>2. QED BY <1>1, <2>1 DEF OneVersion
  <1>17. QED
    BY <1>6, <1>8, <1>9, <1>10, <1>11, <1>12, <1>14, <1>15, <1>16 DEF Inv, SafeInv

(* The purge leaves locked rows alone. *)
LEMMA PurgeKeeps == ASSUME Inv, Purge PROVE Inv'
  <1>1. CASE SelectBatch
    <2>1. UNCHANGED <<rows, writes, next, call, pc, calls, bare>>
      BY <1>1 DEF SelectBatch, history
    <2>2. QED
      BY <2>1 DEF Inv, TypeInv, SafeInv, Disjoint, SameGroup, Idle, Foreign, Own, Held, Apart,
                  OneVersion, Holding, Live
  <1>2. CASE DeleteBatch
    <2>1. /\ DOMAIN rows' = DOMAIN rows \ batch
          /\ \A i \in DOMAIN rows' : rows'[i] = rows[i]
          /\ \A c \in Callers : batch \cap DOMAIN writes[c] = {}
          /\ UNCHANGED <<writes, next, call, pc, calls, bare>>
      BY <1>2 DEF DeleteBatch, history
    <2>2. TypeInv'
      BY <2>1 DEF Inv, TypeInv
    <2>3. \A c \in Callers : Holding(c)' <=> Holding(c)
      BY <2>1 DEF Holding
    <2>4. SafeInv'
      BY <2>1, <2>3, Relax
    <2>5. QED BY <2>2, <2>4 DEF Inv
  <1>3. QED BY <1>1, <1>2 DEF Purge

LEMMA StutterKeeps == ASSUME Inv, UNCHANGED vars PROVE Inv'
  BY DEF vars, Inv, TypeInv, SafeInv, Disjoint, SameGroup, Idle, Foreign, Own, Held, Apart,
         OneVersion, Holding, Live

LEMMA NextInv == Inv /\ [Next]_vars => Inv'
  <1> SUFFICES ASSUME Inv, [Next]_vars PROVE Inv'
    OBVIOUS
  <1>1. ASSUME NEW c \in Callers, NEW k \in Kinds, NEW g \in Groups, Begin(c, k, g) PROVE Inv'
    BY <1>1, BeginKeeps
  <1>2. ASSUME NEW c \in Callers, Statement(c) PROVE Inv'
    <2>1. CASE EndIndex(c)
      BY <2>1, EndKeeps DEF EndIndex, stores, history
    <2>2. QED
      BY <1>2, <2>1, ListKeeps, SoftDeleteKeeps, InsertKeeps, ReadIdsKeeps, CheckIdsKeeps,
         WriteStoresKeeps, CommitKeeps DEF Statement
  <1>3. ASSUME NEW c \in Callers, Fail(c) \/ LockTimeout(c) \/ Crash(c) PROVE Inv'
    <2>1. EndCall(c) /\ UNCHANGED <<rows, next, calls, bare>>
      BY <1>3 DEF Fail, LockTimeout, Crash, Abort, stores
    <2>2. QED BY <2>1, EndKeeps
  <1>4. CASE Purge
    BY <1>4, PurgeKeeps
  <1>5. CASE UNCHANGED vars
    BY <1>5, StutterKeeps
  <1>6. QED BY <1>1, <1>2, <1>3, <1>4, <1>5 DEF Next

-----------------------------------------------------------------------------
(* The types of what the argument above does not look at. *)
TypeRest ==
    /\ faults \in Nat /\ pc \in [Callers -> Nat]
    /\ \A i \in DOMAIN vec : i \in Nat /\ vec[i] \in Groups
    /\ es \in SUBSET Nat /\ batch \in SUBSET Nat
    /\ stranded \in SUBSET Groups /\ overlap \in SUBSET Groups /\ bare \in SUBSET Groups

LEMMA InitRest == Init => TypeRest
  <1> SUFFICES ASSUME Init PROVE TypeRest
    OBVIOUS
  <1>1. \A i \in DOMAIN rows : i \in Nat /\ rows[i].group \in Groups
    BY InitInv DEF Inv, TypeInv, Row
  <1>2. vec = [i \in DOMAIN rows |-> rows[i].group] /\ es = DOMAIN rows
    BY DEF Init
  <1>3. batch = {} /\ pc = [c \in Callers |-> 0] /\ faults = 0
    BY DEF Init
  <1>4. stranded = {} /\ overlap = {} /\ bare = {}
    BY DEF Init
  <1>5. QED BY <1>1, <1>2, <1>3, <1>4 DEF TypeRest

LEMMA PcSteps ==
    ASSUME Inv, TypeRest, NEW c \in Callers, EndCall(c) \/ Advance(c) \/ UNCHANGED pc
    PROVE  pc' \in [Callers -> Nat]
  BY DEF EndCall, Advance, TypeRest

LEMMA CallTypes ==
    ASSUME Inv, NEW c \in Callers
    PROVE  /\ call[c].group \in Groups /\ call[c].listed \in SUBSET Nat
           /\ call[c].new \in SUBSET Nat /\ call[c].sample \in SUBSET Nat
  BY DEF Inv, TypeInv, Call

LEMMA NextRest == Inv /\ TypeRest /\ [Next]_vars => TypeRest'
  <1> SUFFICES ASSUME Inv, TypeRest, [Next]_vars PROVE TypeRest'
    OBVIOUS
  <1>1. ASSUME NEW c \in Callers, NEW k \in Kinds, NEW g \in Groups, Begin(c, k, g)
        PROVE  TypeRest'
    BY <1>1 DEF Begin, TypeRest, stores
  <1>2. ASSUME NEW c \in Callers, Statement(c) PROVE TypeRest'
    <2>1. CASE List(c)
      BY <2>1, PcSteps DEF List, TypeRest, stores, history
    <2>2. CASE SoftDelete(c)
      BY <2>2, PcSteps DEF SoftDelete, TypeRest, stores
    <2>3. CASE Insert(c)
      <3>1. UNCHANGED <<vec, es, batch, faults, history>> /\ (Advance(c) \/ UNCHANGED pc)
        BY <2>3 DEF Insert
      <3>2. QED BY <3>1, PcSteps DEF TypeRest, history
    <2>4. CASE ReadIds(c)
      BY <2>4, PcSteps DEF ReadIds, TypeRest, stores, history
    <2>5. CASE CheckIds(c)
      BY <2>5, PcSteps DEF CheckIds, TypeRest, stores
    <2>6. CASE WriteStores(c)
      <3>1. pc' \in [Callers -> Nat] /\ UNCHANGED <<batch, faults, history>>
        BY <2>6, PcSteps DEF WriteStores
      <3>2. /\ \A i \in DOMAIN vec' : i \in Nat /\ vec'[i] \in Groups
            /\ es' \in SUBSET Nat
        BY <2>6, CallTypes DEF WriteStores, With, TypeRest
      <3>3. QED BY <3>1, <3>2 DEF TypeRest, history
    <2>7. CASE Commit(c)
      BY <2>7, PcSteps DEF Commit, TypeRest, history
    <2>8. CASE EndIndex(c)
      BY <2>8, PcSteps DEF EndIndex, TypeRest, stores, history
    <2>9. QED
      BY <1>2, <2>1, <2>2, <2>3, <2>4, <2>5, <2>6, <2>7, <2>8 DEF Statement
  <1>3. ASSUME NEW c \in Callers, Fail(c) \/ LockTimeout(c) \/ Crash(c) PROVE TypeRest'
    <2>1. EndCall(c) /\ UNCHANGED <<vec, batch, overlap, bare>>
      BY <1>3 DEF Fail, LockTimeout, Crash, Abort, stores
    <2>2. faults' \in Nat /\ stranded' \in SUBSET Groups
      BY <1>3 DEF Fail, LockTimeout, Crash, Abort, TypeRest
    <2>3. es' \in SUBSET Nat
      <3>1. Undo(c) \in SUBSET Nat
        BY CallTypes DEF Undo
      <3>2. es' = es \cup Undo(c) \/ es' = es
        BY <1>3 DEF Fail, LockTimeout, Crash, Abort, stores
      <3>3. QED BY <3>1, <3>2 DEF TypeRest
    <2>4. QED BY <2>1, <2>2, <2>3, PcSteps DEF TypeRest
  <1>4. CASE SelectBatch
    BY <1>4 DEF SelectBatch, Purgeable, TypeRest, Inv, TypeInv, history
  <1>5. CASE DeleteBatch
    BY <1>5 DEF DeleteBatch, TypeRest, history
  <1>6. CASE UNCHANGED vars
    BY <1>6 DEF vars, TypeRest
  <1>7. QED BY <1>1, <1>2, <1>3, <1>4, <1>5, <1>6 DEF Next, Purge

(* TypeOK of QaGroup: rows have the ids that were assigned, a caller is     *)
(* either idle or within the program of its call.                           *)
THEOREM Typing == Spec => []TypeOK
  <1>1. Inv /\ TypeRest => TypeOK
    <2> SUFFICES ASSUME Inv, TypeRest PROVE TypeOK
      OBVIOUS
    <2>1. ASSUME NEW c \in Callers
          PROVE  pc[c] \in 0..8 /\ (pc[c] = 0 <=> call[c].kind = "none")
      <3>1. call[c].kind \in {"none", "add", "delete", "cover", "index"}
        BY DEF Inv, TypeInv, Call
      <3>2. QED BY <3>1 DEF Inv, TypeInv, Steps
    <2>2. pc \in [Callers -> 0..8]
      BY <2>1 DEF TypeRest
    <2>3. QED BY <2>1, <2>2 DEF TypeOK, Inv, TypeInv, TypeRest
  <1>2. QED BY InitInv, InitRest, NextInv, NextRest, <1>1, PTL DEF Spec

(* OneVersion of QaGroup: however many calls add, delete, cover and index   *)
(* at a time, with whatever failures and purges, the live rows of a group   *)
(* come from one call, because each waits for the row locks of the other    *)
(* and looks at the rows again afterwards (coverage_group, coverage_data).  *)
THEOREM OneVersionStands == Spec => []OneVersion
  <1>1. Inv => OneVersion
    BY DEF Inv, SafeInv
  <1>2. QED BY InitInv, NextInv, <1>1, PTL DEF Spec
-----------------------------------------------------------------------------
(* The vectors of a group are those of its live rows, and so are the        *)
(* entries of the search index, once nobody is at work on the group.        *)
(*                                                                          *)
(* A call is dirty from its first write to the vector store to its commit:  *)
(* in between the vectors are those of the call and not those of the rows.  *)
(* It keeps others away meanwhile, because it holds its group; an indexing  *)
(* commits first, and a second one that comes in between can only fail.     *)

(* The steps of a program at which the vectors are the call's, at which it  *)
(* has written some, and up to which it has inserted nothing.               *)
DirtyAt == [none |-> {}, add |-> 3..4, delete |-> 4..5, cover |-> 4..8, index |-> 5..6]
WroteAt == [none |-> {}, add |-> 3..4, delete |-> {}, cover |-> 7..8, index |-> {}]
EmptyAt == [none |-> {0}, add |-> {}, delete |-> 1..5, cover |-> 1..4, index |-> 1..2]
Dirty(c) == pc[c] \in DirtyAt[call[c].kind]

(* Those at which its entries in the search index are not those of the     *)
(* rows, and has those of the new rows.                                     *)
BusyAt == [none |-> {}, add |-> {}, delete |-> {5}, cover |-> 5..8, index |-> 5..7]
AddedAt == [none |-> {}, add |-> {4}, delete |-> {}, cover |-> {8}, index |-> {}]
Busy(c) == pc[c] \in BusyAt[call[c].kind]
Added(c) == pc[c] \in AddedAt[call[c].kind]

(* An id belongs to one group, whoever mentions it. *)
Mentions(i, g) ==
    \/ i \in DOMAIN rows /\ rows[i].group = g
    \/ i \in DOMAIN vec /\ vec[i] = g
    \/ \E c \in Callers :
         \/ i \in DOMAIN writes[c] /\ writes[c][i].group = g
         \/ /\ call[c].group = g
            /\ \/ i \in call[c].new
               \/ call[c].kind # "index" /\ i \in call[c].listed \cup call[c].sample
OneGroup ==
    /\ \A i \in Nat : \A g, h \in Groups : Mentions(i, g) /\ Mentions(i, h) => g = h
    /\ \A i \in Nat : \A g \in Groups : Mentions(i, g) => i < next

(* Rows are never revived, and a call marks only rows of its group unless   *)
(* it is an indexing.  What it inserts are its live rows.                   *)
Marked ==
    /\ \A c \in Callers : \A i \in DOMAIN writes[c] \cap DOMAIN rows : ~writes[c][i].live
    /\ \A c \in Callers : call[c].kind # "index" =>
         \A i \in DOMAIN writes[c] : writes[c][i].group = call[c].group
    /\ \A i \in batch : i \in DOMAIN rows /\ ~rows[i].live
Inserted ==
    \A c \in Callers : Holding(c) =>
        /\ call[c].new \subseteq DOMAIN writes[c]
        /\ call[c].kind = "add" => DOMAIN writes[c] \subseteq call[c].new
        /\ DOMAIN writes[c] \subseteq DOMAIN rows \cup call[c].new
        /\ \A i \in DOMAIN writes[c] :
             writes[c][i].group = call[c].group => (writes[c][i].live <=> i \in call[c].new)
NewIds ==
    \A c \in Callers :
        /\ pc[c] = 0 => call[c] = NoCall
        /\ call[c].kind = "index" <=> pc[c] # 0 /\ call[c].group = FileGroup
        /\ pc[c] \in EmptyAt[call[c].kind] => call[c].new = {}
        /\ \A d \in Callers : c # d => call[c].new \cap call[d].new = {}

(* An indexing has as many rows as questions, lists the rows it has written *)
(* and some of those it sees, and goes on only if these are the same.       *)
Indexing ==
    \A c \in Callers : call[c].kind = "index" =>
        /\ pc[c] > 2 => IsFiniteSet(call[c].new) /\ Cardinality(call[c].new) = Questions
        /\ pc[c] > 3 => call[c].new \subseteq call[c].listed /\ IsFiniteSet(call[c].listed)
        /\ pc[c] = 4 => DOMAIN writes[c] \subseteq call[c].listed
        /\ pc[c] > 5 => call[c].listed = call[c].new
Doomed == \E c \in Callers :
    call[c].kind = "index" /\ pc[c] = 5 /\ call[c].listed # call[c].new
Clean(g) == ~Doomed /\ g \notin stranded /\ g \notin bare

(* The vectors of a group: those of its live rows, or those of a call. *)
VecSame ==
    \A g \in Groups :
        Clean(g) /\ (\A c \in Callers : Dirty(c) => call[c].group # g)
            => VectorsOf(g) = Live(rows, g)
VecOwn ==
    \A c \in Callers : Dirty(c) /\ Clean(call[c].group) =>
        VectorsOf(call[c].group) =
            IF pc[c] \in WroteAt[call[c].kind] THEN call[c].new ELSE {}
RowsOwn ==
    \A c \in Callers : call[c].kind = "index" /\ pc[c] > 4 /\ Clean(FileGroup) =>
        Live(rows, FileGroup) = call[c].new

IdInv == OneGroup /\ Marked /\ Inserted /\ NewIds /\ Indexing
VecInv == VecSame /\ VecOwn /\ RowsOwn

(* The search index, of groups on which no calls overlap. *)
EntriesOf(g) == {i \in es : i \in DOMAIN rows /\ rows[i].group = g}
EsClean(g) == Clean(g) /\ g \notin overlap
Alone ==
    /\ \A c, d \in Callers : \A g \in Groups :
         c # d /\ Touches(c, g) /\ Touches(d, g) => g \in overlap
    /\ \A g \in Groups : g \in bare => g \in overlap
Listed ==
    \A c \in Callers : /\ call[c].kind \in {"delete", "cover"} /\ pc[c] > 1
                       /\ call[c].group \notin overlap
        => Live(rows, call[c].group) = call[c].listed
EsSame ==
    \A g \in Groups :
        EsClean(g) /\ (\A c \in Callers : Busy(c) => call[c].group # g)
            => EntriesOf(g) = Live(rows, g)
EsGone ==
    \A c \in Callers : Busy(c) /\ call[c].kind # "index" /\ EsClean(call[c].group)
        => EntriesOf(call[c].group) = {}
EsAdded ==
    \A c \in Callers : Added(c) /\ EsClean(call[c].group) => call[c].new \subseteq es
EsIndexed ==
    \A c \in Callers : Busy(c) /\ call[c].kind = "index" /\ EsClean(FileGroup)
        => EntriesOf(FileGroup) \subseteq Live(rows, FileGroup)
EsInv == Alone /\ Listed /\ EsSame /\ EsGone /\ EsAdded /\ EsIndexed
-----------------------------------------------------------------------------
(* Where a call is in its program when it takes a step. *)
LEMMA Places ==
    ASSUME TypeInv, NEW c \in Callers
    PROVE  /\ StepOf(c) = "list" => call[c].kind \in {"delete", "cover"} /\ pc[c] = 1
           /\ StepOf(c) = "softDelete" =>
                \/ call[c].kind = "index" /\ pc[c] = 1
                \/ call[c].kind \in {"delete", "cover"} /\ pc[c] = 2
           /\ StepOf(c) = "dropVec" => call[c].kind \in {"delete", "cover"} /\ pc[c] = 3
           /\ StepOf(c) = "dropEs" => call[c].kind \in {"delete", "cover"} /\ pc[c] = 4
           /\ StepOf(c) = "insert" =>
                \/ call[c].kind = "add" /\ pc[c] = 1
                \/ call[c].kind = "cover" /\ pc[c] = 5
                \/ call[c].kind = "index" /\ pc[c] = 2
           /\ StepOf(c) = "readIds" => call[c].kind = "index" /\ pc[c] = 3
           /\ StepOf(c) = "check" => call[c].kind = "index" /\ pc[c] = 5
           /\ StepOf(c) = "vec" =>
                \/ call[c].kind = "add" /\ pc[c] = 2
                \/ call[c].kind \in {"cover", "index"} /\ pc[c] = 6
           /\ StepOf(c) = "es" =>
                \/ call[c].kind = "add" /\ pc[c] = 3
                \/ call[c].kind \in {"cover", "index"} /\ pc[c] = 7
           /\ StepOf(c) = "commit" =>
                \/ call[c].kind \in {"add", "index"} /\ pc[c] = 4
                \/ call[c].kind = "delete" /\ pc[c] = 5
                \/ call[c].kind = "cover" /\ pc[c] = 8
           /\ StepOf(c) = "end" => call[c].kind = "index" /\ pc[c] = 8
  <1>1. CASE pc[c] = 0
    BY <1>1 DEF StepOf, Active
  <1>2. CASE pc[c] # 0 /\ call[c].kind = "add"
    <2>1. pc[c] \in {1, 2, 3, 4}
      BY <1>2 DEF TypeInv, Steps
    <2>2. StepOf(c) = <<"insert", "vec", "es", "commit">>[pc[c]]
      BY <1>2, OtherSteps DEF StepOf, Active
    <2>3. QED BY <1>2, <2>1, <2>2
  <1>3. CASE pc[c] # 0 /\ call[c].kind = "delete"
    <2>1. pc[c] \in {1, 2, 3, 4, 5}
      BY <1>3 DEF TypeInv, Steps
    <2>2. StepOf(c) = <<"list", "softDelete", "dropVec", "dropEs", "commit">>[pc[c]]
      BY <1>3, <2>1, DeleteSteps DEF StepOf, Active
    <2>3. QED BY <1>3, <2>1, <2>2
  <1>4. CASE pc[c] # 0 /\ call[c].kind = "cover"
    <2>1. pc[c] \in {1, 2, 3, 4, 5, 6, 7, 8}
      BY <1>4 DEF TypeInv, Steps
    <2>2. StepOf(c) =
            <<"list", "softDelete", "dropVec", "dropEs", "insert", "vec", "es", "commit">>[pc[c]]
      BY <1>4, <2>1, CoverSteps DEF StepOf, Active
    <2>3. QED BY <1>4, <2>1, <2>2
  <1>5. CASE pc[c] # 0 /\ call[c].kind = "index"
    <2>1. pc[c] \in {1, 2, 3, 4, 5, 6, 7, 8}
      BY <1>5 DEF TypeInv, Steps
    <2>2. StepOf(c) =
            <<"softDelete", "insert", "readIds", "commit", "check", "vec", "es", "end">>[pc[c]]
      BY <1>5, OtherSteps DEF StepOf, Active
    <2>3. QED BY <1>5, <2>1, <2>2
  <1>6. QED BY <1>1, <1>2, <1>3, <1>4, <1>5 DEF TypeInv, Call, Steps

(* A call that has touched the vectors, or committed its rows, is half-way. *)
LEMMA DirtyIsHalf ==
    ASSUME TypeInv, NEW c \in Callers,
           Dirty(c) \/ Busy(c)
    PROVE  Half(c)
  <1> DEFINE done == {Program[call[c].kind][n] : n \in 1..pc[c] - 1}
  <1>1. SUFFICES \/ done \cap {"vec", "dropVec"} # {}
                 \/ call[c].kind = "index" /\ "commit" \in done
    BY DEF Half
  <1>2. call[c].kind \in {"none", "add", "delete", "cover", "index"}
    BY DEF TypeInv, Call
  <1>3. CASE call[c].kind = "add"
    <2>1. pc[c] \in 3..4
      BY <1>3 DEF Dirty, DirtyAt, Busy, BusyAt
    <2>2. 2 \in 1..pc[c] - 1 /\ Program[call[c].kind][2] = "vec"
      BY <1>3, <2>1, OtherSteps
    <2>3. QED BY <2>2
  <1>4. CASE call[c].kind = "delete"
    <2>1. pc[c] \in 4..5
      BY <1>4 DEF Dirty, DirtyAt, Busy, BusyAt
    <2>2. 3 \in 1..pc[c] - 1 /\ 3 \in 1..5
      BY <2>1
    <2>3. Program[call[c].kind][3] = "dropVec"
      BY <1>4, <2>2, DeleteSteps
    <2>4. QED BY <2>2, <2>3
  <1>5. CASE call[c].kind = "cover"
    <2>1. pc[c] \in 4..8
      BY <1>5 DEF Dirty, DirtyAt, Busy, BusyAt
    <2>2. 3 \in 1..pc[c] - 1 /\ 3 \in 1..8
      BY <2>1
    <2>3. Program[call[c].kind][3] = "dropVec"
      BY <1>5, <2>2, CoverSteps
    <2>4. QED BY <2>2, <2>3
  <1>6. CASE call[c].kind = "index"
    <2>1. pc[c] \in 5..7
      BY <1>6 DEF Dirty, DirtyAt, Busy, BusyAt
    <2>2. 4 \in 1..pc[c] - 1 /\ Program[call[c].kind][4] = "commit"
      BY <1>6, <2>1, OtherSteps
    <2>3. QED BY <1>6, <2>2
  <1>7. CASE call[c].kind = "none"
    BY <1>7 DEF Dirty, DirtyAt, Busy, BusyAt
  <1>8. QED BY <1>2, <1>3, <1>4, <1>5, <1>6, <1>7

-----------------------------------------------------------------------------
LEMMA InitIds == Init => IdInv /\ VecInv
  <1> SUFFICES ASSUME Init PROVE IdInv /\ VecInv
    OBVIOUS
  <1>0. Inv
    BY InitInv
  <1>1. /\ \A c \in Callers : /\ pc[c] = 0 /\ call[c] = NoCall
                              /\ writes[c] = <<>> /\ DOMAIN writes[c] = {}
        /\ batch = {}
    BY DEF Init
  <1>2. \A c \in Callers : /\ call[c].kind = "none" /\ call[c].new = {}
                           /\ call[c].listed = {} /\ call[c].sample = {}
    BY <1>1 DEF NoCall
  <1>3. \A i \in DOMAIN rows : i \in Nat /\ i < next /\ rows[i] \in Row
    BY <1>0 DEF Inv, TypeInv
  <1>4. DOMAIN vec = DOMAIN rows /\ \A i \in DOMAIN vec : vec[i] = rows[i].group
    BY DEF Init
  <1>5. \A i \in DOMAIN rows : rows[i].live
    BY DEF Init
  <1>6. OneGroup
    BY <1>1, <1>2, <1>3, <1>4 DEF OneGroup, Mentions
  <1>7. \A c \in Callers : ~Holding(c) /\ ~Dirty(c)
    BY <1>1, <1>2 DEF Holding, Holds, Dirty, DirtyAt
  <1>8. Marked /\ Inserted /\ NewIds /\ Indexing
    BY <1>1, <1>2, <1>7 DEF Marked, Inserted, NewIds, Indexing
  <1>9. VecSame
    BY <1>4, <1>5 DEF VecSame, VectorsOf, Live
  <1>10. VecOwn /\ RowsOwn
    BY <1>1, <1>2, <1>7 DEF VecOwn, RowsOwn
  <1>11. QED BY <1>6, <1>8, <1>9, <1>10 DEF IdInv, VecInv

-----------------------------------------------------------------------------
(* The end of a call, in whatever way: if it was dirty, or its indexing was *)
(* doomed, the groups it was at work on are stranded.                       *)
LEMMA EndVec ==
    ASSUME Inv, IdInv, VecInv, NEW c \in Callers, EndCall(c),
           UNCHANGED <<rows, vec, next, batch, bare>>,
           \A g \in Groups : g \in stranded => g \in stranded',
           Dirty(c) => call[c].group \in stranded',
           call[c].kind = "index" /\ pc[c] = 5 => Groups \subseteq stranded'
    PROVE  IdInv' /\ VecInv'
  <1>1. /\ call'[c] = NoCall /\ \A d \in Callers \ {c} : call'[d] = call[d]
        /\ pc'[c] = 0 /\ \A d \in Callers \ {c} : pc'[d] = pc[d]
        /\ DOMAIN (writes'[c]) = {} /\ \A d \in Callers \ {c} : writes'[d] = writes[d]
    BY DEF EndCall, Inv, TypeInv
  <1>2. /\ NoCall.kind = "none" /\ NoCall.new = {} /\ NoCall.listed = {}
        /\ NoCall.sample = {} /\ NoCall.group = FileGroup
    BY DEF NoCall
  <1>3. /\ ~(Holding(c)') /\ \A d \in Callers \ {c} : Holding(d)' <=> Holding(d)
        /\ ~(Dirty(c)') /\ \A d \in Callers \ {c} : Dirty(d)' <=> Dirty(d)
    BY <1>1, <1>2 DEF Holding, Holds, Dirty, DirtyAt
  <1>4. OneGroup'
    <2>1. ASSUME NEW i, NEW g, Mentions(i, g)' PROVE Mentions(i, g)
      BY <1>1, <1>2, <2>1 DEF Mentions
    <2>2. QED BY <2>1 DEF IdInv, OneGroup
  <1>5. Marked'
    BY <1>1, <1>2 DEF IdInv, Marked
  <1>6. Inserted'
    BY <1>1, <1>3 DEF IdInv, Inserted
  <1>7. NewIds'
    BY <1>1, <1>2 DEF IdInv, NewIds
  <1>8. Indexing'
    BY <1>1, <1>2 DEF IdInv, Indexing
  <1>9. ASSUME NEW g \in Groups, Clean(g)' PROVE Clean(g) /\ (Dirty(c) => call[c].group # g)
    BY <1>1, <1>9 DEF Clean, Doomed
  <1>10. VecSame'
    BY <1>1, <1>3, <1>9 DEF VecInv, VecSame, VectorsOf, Live
  <1>11. \A d \in Callers : call[d].group \in Groups
    BY CallTypes
  <1>12. VecOwn'
    BY <1>1, <1>3, <1>9, <1>11 DEF VecInv, VecOwn, VectorsOf
  <1>13. RowsOwn'
    BY <1>1, <1>2, <1>9, QaGroupAssumption DEF VecInv, RowsOwn, Live
  <1>14. QED
    BY <1>4, <1>5, <1>6, <1>7, <1>8, <1>10, <1>12, <1>13 DEF IdInv, VecInv

LEMMA BeginVec ==
    ASSUME Inv, IdInv, VecInv, NEW c \in Callers, NEW k \in Kinds, NEW g \in Groups,
           Begin(c, k, g)
    PROVE  IdInv' /\ VecInv'
  <1> DEFINE new == [NoCall EXCEPT !.kind = k, !.group = g, !.no = calls + 1]
  <1>0. k \in {"add", "delete", "cover", "index"} /\ calls + 1 \in Nat
    BY QaGroupAssumption DEF Inv, TypeInv
  <1>1. /\ new.kind = k /\ new.group = g /\ new.new = {} /\ new.listed = {}
        /\ new.sample = {}
    BY <1>0 DEF NoCall
  <1>2. /\ call' = [call EXCEPT ![c] = new] /\ pc' = [pc EXCEPT ![c] = 1]
        /\ pc[c] = 0 /\ (k = "index" <=> g = FileGroup)
        /\ UNCHANGED <<rows, vec, writes, next, batch, bare, stranded>>
    BY DEF Begin, stores, Active
  <1> HIDE DEF new
  <1>3. /\ call'[c] = new /\ \A d \in Callers \ {c} : call'[d] = call[d]
        /\ pc'[c] = 1 /\ \A d \in Callers \ {c} : pc'[d] = pc[d]
    BY <1>2 DEF Inv, TypeInv
  <1>4. call[c] = NoCall /\ DOMAIN writes[c] = {}
    <2>1. call[c] = NoCall
      BY <1>2 DEF IdInv, NewIds
    <2>2. QED BY <1>2, <2>1, OnlyActive DEF Inv, SafeInv, Idle
  <1>5. ~Dirty(c) /\ \A d \in Callers : Dirty(d)' <=> Dirty(d)
    BY <1>0, <1>1, <1>2, <1>3, <1>4 DEF Dirty, DirtyAt, NoCall
  <1>6. OneGroup'
    <2>1. ASSUME NEW i, NEW h, Mentions(i, h)' PROVE Mentions(i, h)
      BY <1>1, <1>2, <1>3, <2>1 DEF Mentions
    <2>2. QED BY <1>2, <2>1 DEF IdInv, OneGroup
  <1>7. Marked'
    BY <1>2, <1>3, <1>4 DEF IdInv, Marked
  <1>8. Inserted'
    BY <1>1, <1>2, <1>3, <1>4 DEF IdInv, Inserted, Holding
  <1>9. NewIds'
    BY <1>1, <1>2, <1>3 DEF IdInv, NewIds
  <1>10. Indexing'
    BY <1>2, <1>3 DEF IdInv, Indexing
  <1>11. \A h : Clean(h)' <=> Clean(h)
    <2>1. call[c].kind # "index"
      BY <1>4 DEF NoCall
    <2>2. QED BY <1>2, <1>3, <2>1 DEF Clean, Doomed
  <1>12. VecSame'
    BY <1>2, <1>3, <1>5, <1>11 DEF VecInv, VecSame, VectorsOf, Live
  <1>13. VecOwn'
    BY <1>2, <1>3, <1>5, <1>11 DEF VecInv, VecOwn, VectorsOf
  <1>14. RowsOwn'
    BY <1>2, <1>3, <1>11 DEF VecInv, RowsOwn, Live
  <1>15. QED
    BY <1>6, <1>7, <1>8, <1>9, <1>10, <1>12, <1>13, <1>14 DEF IdInv, VecInv

(* A step that leaves rows, vectors and writes alone and goes on. *)
LEMMA GoOnVec ==
    ASSUME Inv, IdInv, VecInv, NEW c \in Callers, Advance(c),
           StepOf(c) \in {"list", "readIds", "check", "es", "dropEs"},
           UNCHANGED <<rows, vec, writes, next, batch, stranded, bare>>,
           \A d \in Callers \ {c} : call'[d] = call[d],
           call'[c].kind = call[c].kind, call'[c].group = call[c].group,
           call'[c].new = call[c].new,
           call[c].kind # "index" =>
             \A i \in call'[c].listed \cup call'[c].sample : Mentions(i, call[c].group),
           Indexing',
           StepOf(c) # "readIds" => call'[c].listed = call[c].listed \/ call[c].kind # "index",
           StepOf(c) = "check" => call[c].listed = call[c].new
    PROVE  IdInv' /\ VecInv'
  <1>1. /\ pc'[c] = pc[c] + 1 /\ \A d \in Callers \ {c} : pc'[d] = pc[d]
    BY DEF Advance, Inv, TypeInv
  <1>2. \/ call[c].kind \in {"delete", "cover"} /\ pc[c] \in {1, 4}
        \/ call[c].kind \in {"add", "index"} /\ pc[c] = 3
        \/ call[c].kind = "index" /\ pc[c] \in {5, 7}
        \/ call[c].kind = "cover" /\ pc[c] = 7
    BY Places DEF Inv
  <1>3. \A d \in Callers : Holding(d)' <=> Holding(d)
    BY <1>1, <1>2 DEF Holding, Holds
  <1>4. \A d \in Callers : Dirty(d)' <=> Dirty(d)
    BY <1>1, <1>2 DEF Dirty, DirtyAt
  <1>5. \A d \in Callers : Dirty(d) =>
          (pc'[d] \in WroteAt[call'[d].kind] <=> pc[d] \in WroteAt[call[d].kind])
    BY <1>1, <1>2 DEF Dirty, DirtyAt, WroteAt
  <1>6. OneGroup'
    <2>1. ASSUME NEW i \in Nat, NEW h \in Groups, Mentions(i, h)' PROVE Mentions(i, h)
      BY <2>1 DEF Mentions
    <2>2. QED BY <2>1 DEF IdInv, OneGroup
  <1>7. Marked'
    BY DEF IdInv, Marked
  <1>8. Inserted'
    BY <1>3 DEF IdInv, Inserted
  <1>9. NewIds'
    <2>1. pc'[c] \in EmptyAt[call'[c].kind] => pc[c] \in EmptyAt[call[c].kind]
      BY <1>1, <1>2 DEF EmptyAt
    <2>2. pc[c] # 0 /\ pc'[c] # 0
      BY <1>1, <1>2
    <2>3. QED BY <1>1, <2>1, <2>2 DEF IdInv, NewIds
  <1>10. Doomed' <=> Doomed
    <2>1. StepOf(c) = "check" => pc[c] = 5
      BY Places DEF Inv
    <2>2. StepOf(c) = "readIds" => pc[c] = 3
      BY Places DEF Inv
    <2>3. QED BY <1>1, <1>2, <2>1, <2>2, Places DEF Doomed, Inv
  <1>11. \A h : Clean(h)' <=> Clean(h)
    BY <1>10 DEF Clean
  <1>12. VecSame'
    BY <1>4, <1>11 DEF VecInv, VecSame, VectorsOf, Live
  <1>13. VecOwn'
    BY <1>4, <1>5, <1>11 DEF VecInv, VecOwn, VectorsOf
  <1>14. RowsOwn'
    BY <1>1, <1>2, <1>11 DEF VecInv, RowsOwn, Live
  <1>15. QED
    BY <1>6, <1>7, <1>8, <1>9, <1>12, <1>13, <1>14 DEF IdInv, VecInv

LEMMA ListVec ==
    ASSUME Inv, IdInv, VecInv, NEW c \in Callers, List(c) PROVE IdInv' /\ VecInv'
  <1>1. PICK s \in SUBSET VectorsOf(call[c].group) :
          call' = [call EXCEPT ![c].sample = s \cap DOMAIN rows,
                               ![c].listed = Live(View(c), call[c].group)]
    BY DEF List
  <1>2. /\ StepOf(c) = "list" /\ Advance(c)
        /\ UNCHANGED <<rows, vec, writes, next, batch, stranded, bare>>
    BY DEF List, stores, history
  <1>3. /\ \A d \in Callers \ {c} : call'[d] = call[d]
        /\ call'[c].kind = call[c].kind /\ call'[c].group = call[c].group
        /\ call'[c].new = call[c].new
        /\ call'[c].sample = s \cap DOMAIN rows
        /\ call'[c].listed = Live(View(c), call[c].group)
    BY <1>1 DEF Inv, TypeInv, Call
  <1>4. call[c].kind # "index" /\ pc[c] = 1
    BY <1>2, Places DEF Inv
  <1>5. ASSUME NEW i \in call'[c].listed \cup call'[c].sample
        PROVE  Mentions(i, call[c].group)
    <2>1. CASE i \in call'[c].sample
      BY <1>3, <2>1 DEF VectorsOf, Mentions
    <2>2. CASE i \in call'[c].listed
      <3>1. i \in DOMAIN View(c) /\ View(c)[i].group = call[c].group
        BY <1>3, <2>2 DEF Live
      <3>2. QED BY <3>1, ViewRows DEF Mentions
    <2>3. QED BY <1>5, <2>1, <2>2
  <1>6. Indexing'
    <2>1. pc'[c] = 2 /\ \A d \in Callers \ {c} : pc'[d] = pc[d]
      BY <1>2, <1>4 DEF Advance, Inv, TypeInv
    <2>2. QED BY <1>2, <1>3, <1>4, <2>1 DEF IdInv, Indexing
  <1>7. QED BY <1>2, <1>3, <1>4, <1>5, <1>6, GoOnVec

(* The ids an indexing reads are those of all rows it sees, its own first.  *)
LEMMA ReadIdsVec ==
    ASSUME Inv, IdInv, VecInv, NEW c \in Callers, ReadIds(c) PROVE IdInv' /\ VecInv'
  <1>1. /\ StepOf(c) = "readIds" /\ Advance(c)
        /\ call' = [call EXCEPT ![c].listed = DOMAIN View(c)]
        /\ UNCHANGED <<rows, vec, writes, next, batch, stranded, bare>>
    BY DEF ReadIds, stores, history
  <1>2. /\ \A d \in Callers \ {c} : call'[d] = call[d]
        /\ call'[c].kind = call[c].kind /\ call'[c].group = call[c].group
        /\ call'[c].new = call[c].new /\ call'[c].sample = call[c].sample
        /\ call'[c].listed = DOMAIN View(c)
    BY <1>1 DEF Inv, TypeInv, Call
  <1>3. call[c].kind = "index" /\ pc[c] = 3
    BY <1>1, Places DEF Inv
  <1>4. Indexing'
    <2>1. pc'[c] = 4 /\ \A d \in Callers \ {c} : pc'[d] = pc[d]
      BY <1>1, <1>3 DEF Advance, Inv, TypeInv
    <2>2. Holding(c)
      BY <1>3 DEF Holding, Holds
    <2>3. call[c].new \subseteq DOMAIN writes[c]
      BY <2>2 DEF IdInv, Inserted
    <2>4. DOMAIN writes[c] \subseteq DOMAIN View(c)
      BY ViewRows
    <2>5. IsFiniteSet(DOMAIN View(c))
      <3> DEFINE seen == DOMAIN View(c)
      <3>1. PICK zero \in Int, top \in Int : zero = 0 /\ top = next
        BY DEF Inv, TypeInv
      <3>2. \A i \in seen : i \in Nat /\ i < next
        BY ViewRows
      <3> HIDE DEF seen
      <3>3. seen \in SUBSET (zero..top)
        BY <3>1, <3>2
      <3>4. IsFiniteSet(seen)
        BY <3>3, FS_Interval, FS_Subset
      <3>5. QED BY <3>4 DEF seen
    <2>6. QED BY <1>1, <1>2, <1>3, <2>1, <2>3, <2>4, <2>5 DEF IdInv, Indexing
  <1>5. QED BY <1>1, <1>2, <1>3, <1>4, GoOnVec

(* The check passes if the listed ids are as many as the new ones; since    *)
(* they include those, they are the same.                                   *)
LEMMA CheckIdsVec ==
    ASSUME Inv, IdInv, VecInv, NEW c \in Callers, CheckIds(c) PROVE IdInv' /\ VecInv'
  <1>1. call[c].kind = "index" /\ pc[c] = 5 /\ StepOf(c) = "check"
    BY Places DEF CheckIds, Inv
  <1>2. /\ IsFiniteSet(call[c].new) /\ Cardinality(call[c].new) = Questions
        /\ call[c].new \subseteq call[c].listed
    BY <1>1 DEF IdInv, Indexing
  <1>3. CASE Cardinality(call[c].listed) = Questions
    <2>1. /\ Advance(c) /\ UNCHANGED <<call, writes, stranded>>
          /\ UNCHANGED <<rows, vec, next, batch, bare>>
      BY <1>3 DEF CheckIds, stores
    <2>2. IsFiniteSet(call[c].listed)
      BY <1>1 DEF IdInv, Indexing
    <2>3. call[c].listed = call[c].new
      BY <1>2, <1>3, <2>2, FS_Subset
    <2>4. Indexing'
      <3>1. pc'[c] = 6 /\ \A d \in Callers \ {c} : pc'[d] = pc[d]
        BY <1>1, <2>1 DEF Advance, Inv, TypeInv
      <3>2. QED BY <1>1, <2>1, <2>3, <3>1 DEF IdInv, Indexing
    <2>5. QED BY <1>1, <2>1, <2>3, <2>4, GoOnVec
  <1>4. CASE Cardinality(call[c].listed) # Questions
    <2>1. EndCall(c) /\ stranded' = Groups /\ UNCHANGED <<rows, vec, next, batch, bare>>
      BY <1>4 DEF CheckIds, stores
    <2>2. call[c].group \in Groups
      BY CallTypes
    <2>3. QED BY <2>1, <2>2, EndVec
  <1>5. QED BY <1>3, <1>4

-----------------------------------------------------------------------------
(* No two calls of a group are dirty at a time. *)
LEMMA DirtyHolds ==
    ASSUME Inv, IdInv, NEW c \in Callers, Dirty(c), call[c].kind # "index"
    PROVE  Holding(c) /\ call[c].group # FileGroup
  <1>1. call[c].kind \in {"none", "add", "delete", "cover", "index"}
    BY DEF Inv, TypeInv, Call
  <1>2. Holding(c)
    BY <1>1 DEF Dirty, DirtyAt, Holding, Holds
  <1>3. pc[c] # 0
    BY <1>2, OnlyActive
  <1>4. QED BY <1>2, <1>3 DEF IdInv, NewIds

LEMMA NewNotEmpty ==
    ASSUME IdInv, NEW c \in Callers, call[c].kind = "index", pc[c] > 2
    PROVE  call[c].new # {}
  <1>1. Cardinality(call[c].new) = Questions
    BY DEF IdInv, Indexing
  <1>2. Questions # 0
    BY QaGroupAssumption
  <1>3. QED BY <1>1, <1>2, FS_EmptySet

LEMMA IndexFacts ==
    ASSUME Inv, IdInv, NEW c \in Callers, call[c].kind = "index"
    PROVE  call[c].group = FileGroup /\ pc[c] \in 1..8 /\ (Dirty(c) <=> pc[c] \in 5..6)
           /\ pc[c] \notin WroteAt[call[c].kind]
  BY DEF IdInv, NewIds, Inv, TypeInv, Steps, Dirty, DirtyAt, WroteAt

LEMMA OneDirty ==
    ASSUME Inv, IdInv, NEW c \in Callers, NEW d \in Callers, c # d,
           Holding(c), call[c].kind # "index", Dirty(d), call[d].group = call[c].group
    PROVE  call[c].group \in bare
  <1>1. call[c].group # FileGroup
    BY OnlyActive DEF IdInv, NewIds
  <1>2. call[d].kind # "index"
    BY <1>1, IndexFacts
  <1>3. Holding(d)
    BY <1>2, DirtyHolds
  <1>4. QED BY <1>3 DEF Inv, SafeInv, Apart

LEMMA OneIndexing ==
    ASSUME Inv, IdInv, VecInv, Clean(FileGroup), NEW c \in Callers, NEW d \in Callers, c # d,
           call[c].kind = "index", call[d].kind = "index", pc[c] > 4, pc[d] > 4
    PROVE  FALSE
  <1>1. call[c].new = call[d].new
    BY DEF VecInv, RowsOwn
  <1>2. call[c].new # {}
    <2>1. pc[c] > 2
      BY IndexFacts
    <2>2. QED BY <2>1, NewNotEmpty
  <1>3. call[c].new \cap call[d].new = {}
    BY DEF IdInv, NewIds
  <1>4. QED BY <1>1, <1>2, <1>3

(* The vectors a call writes are those of its new rows. *)
LEMMA VecWritten ==
    ASSUME Inv, IdInv, VecInv, NEW c \in Callers, StepOf(c) = "vec", Advance(c),
           vec' = With(vec, [i \in IF call[c].kind = "index" THEN call[c].listed
                                   ELSE call[c].new |-> call[c].group]),
           UNCHANGED <<rows, writes, next, call, batch, stranded, bare>>
    PROVE  IdInv' /\ VecInv'
  <1> DEFINE g == call[c].group
  <1>1. \/ call[c].kind = "add" /\ pc[c] = 2
        \/ call[c].kind = "cover" /\ pc[c] = 6
        \/ call[c].kind = "index" /\ pc[c] = 6
    BY Places DEF Inv
  <1>2. call[c].kind = "index" => call[c].listed = call[c].new
    BY <1>1 DEF IdInv, Indexing
  <1>3. vec' = With(vec, [i \in call[c].new |-> g])
    BY <1>2
  <1>4. /\ DOMAIN vec' = DOMAIN vec \cup call[c].new
        /\ \A i \in DOMAIN vec' : vec'[i] = IF i \in call[c].new THEN g ELSE vec[i]
    BY <1>3 DEF With
  <1>5. pc'[c] = pc[c] + 1 /\ \A d \in Callers \ {c} : pc'[d] = pc[d]
    BY DEF Advance, Inv, TypeInv
  <1>6. g \in Groups /\ call[c].new \in SUBSET Nat
    BY CallTypes
  <1>7. OneGroup'
    <2>1. ASSUME NEW i, NEW h, Mentions(i, h)' PROVE Mentions(i, h)
      BY <1>4, <2>1 DEF Mentions
    <2>2. QED BY <2>1 DEF IdInv, OneGroup
  <1>8. \A d \in Callers : Holding(d)' <=> Holding(d)
    BY <1>1, <1>5 DEF Holding, Holds
  <1>9. Marked' /\ Inserted'
    BY <1>8 DEF IdInv, Marked, Inserted
  <1>10. NewIds'
    <2>1. pc'[c] \in EmptyAt[call[c].kind] => pc[c] \in EmptyAt[call[c].kind]
      BY <1>1, <1>5 DEF EmptyAt
    <2>2. pc[c] # 0 /\ pc'[c] # 0
      BY <1>1, <1>5
    <2>3. QED BY <1>5, <2>1, <2>2 DEF IdInv, NewIds
  <1>11. Indexing'
    BY <1>1, <1>5 DEF IdInv, Indexing
  <1>12. \A h : Clean(h)' <=> Clean(h)
    BY <1>1, <1>5 DEF Clean, Doomed
  <1>13. ASSUME NEW h \in Groups, h # g PROVE VectorsOf(h)' = VectorsOf(h)
    <2>1. ASSUME NEW i \in call[c].new, i \in DOMAIN vec, vec[i] = h PROVE FALSE
      <3>1. Mentions(i, h) /\ Mentions(i, g)
        BY <2>1 DEF Mentions
      <3>2. QED BY <1>6, <1>13, <3>1 DEF IdInv, OneGroup
    <2>2. QED BY <1>4, <1>13, <2>1 DEF VectorsOf
  <1>14. VectorsOf(g)' = VectorsOf(g) \cup call[c].new
    BY <1>4 DEF VectorsOf
  <1>15. ASSUME NEW d \in Callers \ {c}, Dirty(d), call[d].group = g, Clean(g) PROVE FALSE
    <2>1. CASE call[c].kind = "index"
      <3>1. g = FileGroup
        BY <2>1, IndexFacts
      <3>2. call[d].kind = "index"
        BY <1>15, <3>1, DirtyHolds
      <3>3. pc[d] > 4 /\ pc[c] > 4
        BY <1>1, <1>15, <2>1, <3>2, IndexFacts
      <3>4. QED BY <1>15, <2>1, <3>1, <3>2, <3>3, OneIndexing
    <2>2. CASE call[c].kind # "index"
      <3>1. Holding(c)
        BY <1>1, <2>2 DEF Holding, Holds
      <3>2. QED BY <1>15, <2>2, <3>1, OneDirty DEF Clean
    <2>3. QED BY <2>1, <2>2
  <1>16. Clean(g) => VectorsOf(g) = {}
    <2>1. CASE call[c].kind = "add"
      <3> SUFFICES ASSUME Clean(g) PROVE VectorsOf(g) = {}
        OBVIOUS
      <3>1. Holding(c) /\ ~Dirty(c)
        BY <1>1, <2>1 DEF Holding, Holds, Dirty, DirtyAt
      <3>2. VectorsOf(g) = Live(rows, g)
        BY <1>6, <1>15, <3>1 DEF VecInv, VecSame
      <3>3. ASSUME NEW i \in Live(rows, g) PROVE FALSE
        <4>1. i \in DOMAIN rows /\ i \in DOMAIN writes[c] /\ writes[c][i].group = g
          BY <3>1, <3>3 DEF Live, Clean, Inv, SafeInv, Held, SameGroup
        <4>2. i \in call[c].new /\ ~writes[c][i].live
          BY <2>1, <3>1, <4>1 DEF IdInv, Inserted, Marked
        <4>3. QED BY <3>1, <4>1, <4>2 DEF IdInv, Inserted
      <3>4. QED BY <3>2, <3>3
    <2>2. CASE call[c].kind \in {"cover", "index"}
      <3>1. Dirty(c) /\ pc[c] \notin WroteAt[call[c].kind]
        BY <1>1, <2>2 DEF Dirty, DirtyAt, WroteAt
      <3>2. QED BY <3>1 DEF VecInv, VecOwn
    <2>3. QED BY <1>1, <2>1, <2>2
  <1>17. \A d \in Callers \ {c} : Dirty(d)' <=> Dirty(d)
    BY <1>5 DEF Dirty
  <1>18. VecSame'
    <2>1. ASSUME NEW h \in Groups, Clean(h)', \A d \in Callers : Dirty(d)' => call'[d].group # h
          PROVE  VectorsOf(h)' = Live(rows', h)
      <3>1. CASE h # g
        <4>1. VectorsOf(h) = Live(rows, h)
          BY <1>12, <1>17, <2>1, <3>1 DEF VecInv, VecSame
        <4>2. QED BY <1>13, <3>1, <4>1
      <3>2. CASE h = g /\ call[c].kind = "index"
        <4>1. g = FileGroup
          BY <3>2, IndexFacts
        <4>2. Live(rows, g) = call[c].new
          BY <1>1, <1>12, <2>1, <3>2, <4>1 DEF VecInv, RowsOwn
        <4>3. QED BY <1>12, <1>14, <1>16, <2>1, <3>2, <4>2
      <3>3. CASE h = g /\ call[c].kind # "index"
        <4>1. Dirty(c)'
          BY <1>1, <1>5, <3>3 DEF Dirty, DirtyAt
        <4>2. QED BY <2>1, <3>3, <4>1
      <3>4. QED BY <3>1, <3>2, <3>3
    <2>2. QED BY <2>1 DEF VecSame, VectorsOf, Live
  <1>19. VecOwn'
    <2>1. ASSUME NEW d \in Callers \ {c}, Dirty(d), Clean(call[d].group)
          PROVE  VectorsOf(call[d].group)' =
                   IF pc[d] \in WroteAt[call[d].kind] THEN call[d].new ELSE {}
      <3>1. call[d].group # g /\ call[d].group \in Groups
        BY <1>15, <2>1, CallTypes
      <3>2. QED BY <1>13, <2>1, <3>1 DEF VecInv, VecOwn
    <2>2. ASSUME Dirty(c)', Clean(g)
          PROVE  VectorsOf(g)' = IF pc'[c] \in WroteAt[call[c].kind] THEN call[c].new ELSE {}
      <3>1. pc'[c] \in WroteAt[call[c].kind]
        BY <1>1, <1>5, <2>2 DEF Dirty, DirtyAt, WroteAt
      <3>2. QED BY <1>14, <1>16, <2>2, <3>1
    <2>3. QED BY <1>5, <1>12, <1>17, <2>1, <2>2 DEF VecOwn, VectorsOf
  <1>20. RowsOwn'
    BY <1>1, <1>5, <1>12 DEF VecInv, RowsOwn, Live
  <1>21. QED
    BY <1>7, <1>9, <1>10, <1>11, <1>18, <1>19, <1>20 DEF IdInv, VecInv

LEMMA VecDropped ==
    ASSUME Inv, IdInv, VecInv, NEW c \in Callers, StepOf(c) = "dropVec", Advance(c),
           vec' = [i \in DOMAIN vec \ VectorsOf(call[c].group) |-> vec[i]],
           UNCHANGED <<rows, writes, next, call, batch, stranded, bare>>
    PROVE  IdInv' /\ VecInv'
  <1> DEFINE g == call[c].group
  <1>1. call[c].kind \in {"delete", "cover"} /\ pc[c] = 3
    BY Places DEF Inv
  <1>2. /\ DOMAIN vec' = DOMAIN vec \ VectorsOf(g)
        /\ \A i \in DOMAIN vec' : vec'[i] = vec[i]
    OBVIOUS
  <1>3. pc'[c] = 4 /\ \A d \in Callers \ {c} : pc'[d] = pc[d]
    BY <1>1 DEF Advance, Inv, TypeInv
  <1>4. Holding(c) /\ ~Dirty(c) /\ Dirty(c)' /\ pc'[c] \notin WroteAt[call[c].kind]
    BY <1>1, <1>3 DEF Holding, Holds, Dirty, DirtyAt, WroteAt
  <1>5. OneGroup'
    <2>1. ASSUME NEW i, NEW h, Mentions(i, h)' PROVE Mentions(i, h)
      BY <1>2, <2>1 DEF Mentions
    <2>2. QED BY <2>1 DEF IdInv, OneGroup
  <1>6. \A d \in Callers : Holding(d)' <=> Holding(d)
    BY <1>1, <1>3 DEF Holding, Holds
  <1>7. Marked' /\ Inserted'
    BY <1>6 DEF IdInv, Marked, Inserted
  <1>8. NewIds'
    <2>1. pc[c] \in EmptyAt[call[c].kind]
      BY <1>1 DEF EmptyAt
    <2>2. QED BY <1>1, <1>3, <2>1 DEF IdInv, NewIds
  <1>9. Indexing'
    BY <1>1, <1>3 DEF IdInv, Indexing
  <1>10. \A h : Clean(h)' <=> Clean(h)
    BY <1>1, <1>3 DEF Clean, Doomed
  <1>11. VectorsOf(g)' = {} /\ \A h : h # g => VectorsOf(h)' = VectorsOf(h)
    BY <1>2 DEF VectorsOf
  <1>12. \A d \in Callers \ {c} : Dirty(d)' <=> Dirty(d)
    BY <1>3 DEF Dirty
  <1>13. VecSame'
    <2>1. ASSUME NEW h \in Groups, Clean(h)', \A d \in Callers : Dirty(d)' => call'[d].group # h
          PROVE  VectorsOf(h)' = Live(rows', h)
      <3>1. h # g
        BY <1>4, <2>1
      <3>2. VectorsOf(h) = Live(rows, h)
        BY <1>4, <1>10, <1>12, <2>1 DEF VecInv, VecSame
      <3>3. QED BY <1>11, <3>1, <3>2
    <2>2. QED BY <2>1 DEF VecSame, VectorsOf, Live
  <1>14. VecOwn'
    <2>1. ASSUME NEW d \in Callers \ {c}, Dirty(d), Clean(call[d].group)
          PROVE  VectorsOf(call[d].group)' =
                   IF pc[d] \in WroteAt[call[d].kind] THEN call[d].new ELSE {}
      <3>1. call[d].group # g
        BY <1>1, <1>4, <2>1, OneDirty DEF Clean
      <3>2. QED BY <1>11, <2>1, <3>1 DEF VecInv, VecOwn
    <2>2. QED BY <1>3, <1>4, <1>10, <1>11, <1>12, <2>1 DEF VecOwn, VectorsOf
  <1>15. RowsOwn'
    BY <1>1, <1>3, <1>10 DEF VecInv, RowsOwn, Live
  <1>16. QED
    BY <1>5, <1>7, <1>8, <1>9, <1>13, <1>14, <1>15 DEF IdInv, VecInv

LEMMA WriteStoresVec ==
    ASSUME Inv, IdInv, VecInv, NEW c \in Callers, WriteStores(c) PROVE IdInv' /\ VecInv'
  <1>1. Advance(c) /\ UNCHANGED <<rows, writes, next, call, batch, stranded, bare>>
    BY DEF WriteStores, history
  <1>2. CASE StepOf(c) = "vec"
    BY <1>1, <1>2, VecWritten DEF WriteStores
  <1>3. CASE StepOf(c) = "dropVec"
    BY <1>1, <1>3, VecDropped DEF WriteStores
  <1>4. CASE StepOf(c) \in {"es", "dropEs"}
    <2>1. UNCHANGED vec
      BY <1>4 DEF WriteStores
    <2>2. \/ call[c].kind \in {"delete", "cover"} /\ pc[c] = 4
          \/ call[c].kind = "add" /\ pc[c] = 3
          \/ call[c].kind \in {"cover", "index"} /\ pc[c] = 7
      BY <1>4, Places DEF Inv
    <2>3. pc'[c] = pc[c] + 1 /\ \A d \in Callers \ {c} : pc'[d] = pc[d]
      BY <1>1 DEF Advance, Inv, TypeInv
    <2>4. Indexing'
      BY <1>1, <2>2, <2>3 DEF IdInv, Indexing
    <2>5. \A i \in call'[c].listed \cup call'[c].sample :
             call[c].kind # "index" => Mentions(i, call[c].group)
      BY <1>1 DEF Mentions
    <2>6. QED BY <1>1, <1>4, <2>1, <2>4, <2>5, GoOnVec
  <1>5. QED BY <1>2, <1>3, <1>4 DEF WriteStores

(* The soft delete comes before anything is inserted, so that what the call *)
(* has written is all marked.                                               *)
LEMMA SoftDeleteVec ==
    ASSUME Inv, IdInv, VecInv, NEW c \in Callers, SoftDelete(c) PROVE IdInv' /\ VecInv'
  <1> DEFINE marked == [i \in Match(c) |-> [View(c)[i] EXCEPT !.live = FALSE]]
  <1>1. /\ writes' = [writes EXCEPT ![c] = With(writes[c], marked)]
        /\ Advance(c) /\ StepOf(c) = "softDelete" /\ ~Holding(c)
        /\ UNCHANGED <<rows, vec, next, batch, call, stranded>>
        /\ \A g \in Groups : g \in bare => g \in bare'
    BY NextSteps DEF SoftDelete, stores, Inv
  <1>2. DOMAIN writes[c] = {}
    BY <1>1 DEF Inv, SafeInv, Idle
  <1>3. /\ DOMAIN View(c) = DOMAIN rows
        /\ \A i \in DOMAIN rows : View(c)[i] = rows[i]
    BY <1>2, ViewRows
  <1>4. Match(c) = {i \in DOMAIN rows : Affects(call[c], rows[i].group)}
    BY <1>3 DEF Match
  <1>5. /\ DOMAIN (writes'[c]) = Match(c)
        /\ \A i \in Match(c) : writes'[c][i] = [rows[i] EXCEPT !.live = FALSE]
        /\ \A d \in Callers \ {c} : writes'[d] = writes[d]
    BY <1>1, <1>2, <1>3, <1>4 DEF With, Inv, TypeInv
  <1>6. ASSUME NEW i \in Match(c)
        PROVE  ~(writes'[c][i].live) /\ writes'[c][i].group = rows[i].group
    <2>1. rows[i] \in Row
      BY <1>4 DEF Inv, TypeInv
    <2>2. writes'[c][i] = [rows[i] EXCEPT !.live = FALSE]
      BY <1>5
    <2>3. QED BY <2>1, <2>2 DEF Row
  <1>7. \/ call[c].kind = "index" /\ pc[c] = 1
        \/ call[c].kind \in {"delete", "cover"} /\ pc[c] = 2
    BY <1>1, Places DEF Inv
  <1>8. pc'[c] = pc[c] + 1 /\ \A d \in Callers \ {c} : pc'[d] = pc[d]
    BY <1>1 DEF Advance, Inv, TypeInv
  <1>9. pc[c] \in EmptyAt[call[c].kind] /\ pc'[c] \in EmptyAt[call[c].kind]
    BY <1>7, <1>8 DEF EmptyAt
  <1>10. call[c].new = {}
    BY <1>9 DEF IdInv, NewIds
  <1>11. OneGroup'
    <2>1. ASSUME NEW i, NEW h, Mentions(i, h)' PROVE Mentions(i, h)
      BY <1>1, <1>4, <1>5, <1>6, <2>1 DEF Mentions
    <2>2. QED BY <1>1, <2>1 DEF IdInv, OneGroup
  <1>12. Marked'
    BY <1>1, <1>4, <1>5, <1>6 DEF IdInv, Marked, Affects
  <1>13. \A d \in Callers \ {c} : Holding(d)' <=> Holding(d)
    BY <1>1, <1>8 DEF Holding
  <1>14. Inserted'
    <2>1. \A i \in DOMAIN (writes'[c]) : ~(writes'[c][i].live)
      BY <1>5, <1>6
    <2>2. call'[c].new = {} /\ call'[c].kind # "add"
      BY <1>1, <1>7, <1>10
    <2>3. ASSUME NEW d \in Callers \ {c}
          PROVE  (Holding(d)' <=> Holding(d)) /\ writes'[d] = writes[d] /\ call'[d] = call[d]
      BY <1>1, <1>5, <1>13
    <2>4. DOMAIN (writes'[c]) \subseteq DOMAIN rows /\ rows' = rows
      BY <1>1, <1>4, <1>5
    <2>5. ASSUME NEW d \in Callers \ {c}, Holding(d)'
          PROVE  /\ call[d].new \subseteq DOMAIN writes[d]
                 /\ call[d].kind = "add" => DOMAIN writes[d] \subseteq call[d].new
                 /\ DOMAIN writes[d] \subseteq DOMAIN rows \cup call[d].new
                 /\ \A i \in DOMAIN writes[d] : writes[d][i].group = call[d].group
                      => (writes[d][i].live <=> i \in call[d].new)
      BY <2>3, <2>5 DEF IdInv, Inserted
    <2>6. QED BY <2>1, <2>2, <2>3, <2>4, <2>5 DEF Inserted
  <1>15. NewIds'
    BY <1>1, <1>7, <1>8, <1>10 DEF IdInv, NewIds
  <1>16. Indexing'
    BY <1>1, <1>5, <1>7, <1>8 DEF IdInv, Indexing
  <1>17. \A g \in Groups : Clean(g)' => Clean(g)
    BY <1>1, <1>7, <1>8 DEF Clean, Doomed
  <1>18. \A d \in Callers : Dirty(d)' <=> Dirty(d)
    BY <1>1, <1>7, <1>8 DEF Dirty, DirtyAt
  <1>19. VecSame'
    BY <1>1, <1>17, <1>18 DEF VecInv, VecSame, VectorsOf, Live
  <1>20. VecOwn'
    <2>1. ~Dirty(c)
      BY <1>7 DEF Dirty, DirtyAt
    <2>2. QED BY <1>1, <1>8, <1>17, <1>18, <2>1, CallTypes DEF VecInv, VecOwn, VectorsOf
  <1>21. RowsOwn'
    BY <1>1, <1>7, <1>8, <1>17, QaGroupAssumption DEF VecInv, RowsOwn, Live
  <1>22. QED
    BY <1>11, <1>12, <1>14, <1>15, <1>16, <1>19, <1>20, <1>21 DEF IdInv, VecInv

(* Inserted rows have ids that nobody mentions yet. *)
LEMMA InsertVec ==
    ASSUME Inv, IdInv, VecInv, NEW c \in Callers, Insert(c) PROVE IdInv' /\ VecInv'
  <1> DEFINE n == IF call[c].kind = "index" THEN Questions ELSE 1
             ids == next..next + n - 1
             row == [group |-> call[c].group, no |-> call[c].no, live |-> TRUE]
  <1>1. /\ writes' = [writes EXCEPT ![c] = With(writes[c], [i \in ids |-> row])]
        /\ next' = next + n /\ StepOf(c) = "insert"
        /\ call' = [call EXCEPT ![c].new = call[c].new \cup ids]
        /\ IF InsertedAll(call[c].new \cup ids) THEN Advance(c) ELSE UNCHANGED pc
        /\ UNCHANGED <<rows, vec, batch, stranded, bare>>
    BY DEF Insert, history
  <1>2. \/ call[c].kind = "add" /\ pc[c] = 1
        \/ call[c].kind = "cover" /\ pc[c] = 5
        \/ call[c].kind = "index" /\ pc[c] = 2
    BY <1>1, Places DEF Inv
  <1>3. call[c].kind = "index" =>
          /\ Advance(c) /\ IsFiniteSet(call[c].new \cup ids)
          /\ Cardinality(call[c].new \cup ids) = Questions
    <2> SUFFICES ASSUME call[c].kind = "index"
                 PROVE  /\ Advance(c) /\ IsFiniteSet(call[c].new \cup ids)
                        /\ Cardinality(call[c].new \cup ids) = Questions
      OBVIOUS
    <2>1. pc[c] \in EmptyAt[call[c].kind]
      BY <1>2 DEF EmptyAt
    <2>2. call[c].new \cup ids = ids
      BY <2>1 DEF IdInv, NewIds
    <2>3. Questions \in Nat \ {0} /\ n = Questions
      BY QaGroupAssumption
    <2>4. PICK low \in Int, high \in Int : low = next /\ high = next + n - 1
      BY <2>3 DEF Inv, TypeInv
    <2>5. ids = low..high
      BY <2>4
    <2>6. IsFiniteSet(low..high) /\ Cardinality(low..high) = IF low > high THEN 0 ELSE high - low + 1
      BY FS_Interval
    <2>7. Cardinality(low..high) = Questions
      BY <2>3, <2>4, <2>6 DEF Inv, TypeInv
    <2>8. Questions >= Questions
      BY <2>3
    <2>9. InsertedAll(call[c].new \cup ids)
      BY <2>2, <2>5, <2>7, <2>8 DEF InsertedAll
    <2>10. QED BY <1>1, <2>2, <2>5, <2>6, <2>7, <2>9
  <1>4. n \in Nat \ {0} /\ next \in Nat
    BY QaGroupAssumption DEF Inv, TypeInv
  <1>5. row.group = call[c].group /\ row.live
    OBVIOUS
  <1> HIDE DEF n, row
  <1>6. ids \in SUBSET Nat /\ \A i \in ids : i >= next /\ i < next + n
    BY <1>4
  <1> HIDE DEF ids
  <1>7. /\ DOMAIN (writes'[c]) = DOMAIN writes[c] \cup ids
        /\ \A i \in DOMAIN (writes'[c]) :
             writes'[c][i] = IF i \in ids THEN row ELSE writes[c][i]
        /\ \A d \in Callers \ {c} : writes'[d] = writes[d]
    BY <1>1 DEF With, Inv, TypeInv
  <1>8. /\ \A d \in Callers : /\ call'[d].kind = call[d].kind
                              /\ call'[d].group = call[d].group
                              /\ call'[d].listed = call[d].listed
                              /\ call'[d].sample = call[d].sample
        /\ call'[c].new = call[c].new \cup ids
        /\ \A d \in Callers \ {c} : call'[d] = call[d]
    BY <1>1 DEF Inv, TypeInv, Call
  <1>9. /\ pc'[c] \in {pc[c], pc[c] + 1} /\ \A d \in Callers \ {c} : pc'[d] = pc[d]
        /\ call[c].kind = "index" => pc'[c] = 3
    BY <1>1, <1>2, <1>3 DEF Advance, Inv, TypeInv
  <1>10. call[c].group \in Groups /\ \A d \in Callers : call[d].group \in Groups
    BY CallTypes
  <1>11. ASSUME NEW i \in ids, NEW h \in Groups, Mentions(i, h) PROVE FALSE
    <2>1. i < next /\ i >= next /\ i \in Nat
      BY <1>6, <1>11 DEF IdInv, OneGroup
    <2>2. QED BY <1>4, <2>1
  <1>12. ASSUME NEW i, NEW h, Mentions(i, h)'
         PROVE  Mentions(i, h) \/ (i \in ids /\ h = call[c].group)
    BY <1>1, <1>5, <1>7, <1>8, <1>12 DEF Mentions
  <1>13. OneGroup'
    <2>1. ASSUME NEW i \in Nat, NEW h \in Groups, NEW g \in Groups,
                 Mentions(i, g)', Mentions(i, h)'
          PROVE  g = h
      <3>1. CASE i \in ids
        BY <1>11, <1>12, <2>1, <3>1
      <3>2. CASE i \notin ids
        <4>1. Mentions(i, g) /\ Mentions(i, h)
          BY <1>12, <2>1, <3>2
        <4>2. QED BY <4>1 DEF IdInv, OneGroup
      <3>3. QED BY <3>1, <3>2
    <2>2. ASSUME NEW i \in Nat, NEW h \in Groups, Mentions(i, h)' PROVE i < next'
      <3>1. CASE i \in ids
        BY <1>1, <1>6, <3>1
      <3>2. CASE i \notin ids
        <4>1. i < next
          BY <1>12, <2>2, <3>2 DEF IdInv, OneGroup
        <4>2. QED BY <1>1, <1>4, <4>1
      <3>3. QED BY <3>1, <3>2
    <2>3. QED BY <2>1, <2>2 DEF OneGroup
  <1>14. \A i \in ids : i \notin DOMAIN rows
    BY <1>6 DEF Inv, TypeInv
  <1>15. Marked'
    BY <1>1, <1>5, <1>7, <1>8, <1>14 DEF IdInv, Marked
  <1>16. \A d \in Callers : Holding(d)' <=> Holding(d)
    BY <1>2, <1>8, <1>9 DEF Holding, Holds
  <1>17. Inserted'
    <2>1. Holding(c)
      BY <1>2 DEF Holding, Holds
    <2>2. \A i \in ids : i \notin DOMAIN writes[c]
      BY <1>6 DEF Inv, TypeInv
    <2>3. QED BY <1>1, <1>5, <1>7, <1>8, <1>16, <2>1, <2>2 DEF IdInv, Inserted
  <1>18. NewIds'
    <2>1. pc'[c] \notin EmptyAt[call'[c].kind]
      BY <1>2, <1>8, <1>9 DEF EmptyAt
    <2>2. ASSUME NEW d \in Callers \ {c} PROVE call'[c].new \cap call'[d].new = {}
      <3>1. \A i \in ids : i \notin call[d].new
        BY <1>10, <1>11 DEF Mentions
      <3>2. call[c].new \cap call[d].new = {}
        BY DEF IdInv, NewIds
      <3>3. QED BY <1>8, <3>1, <3>2
    <2>3. \A d \in Callers : pc'[d] = 0 => d # c
      BY <1>2, <1>9
    <2>4. pc[c] # 0 /\ pc'[c] # 0
      BY <1>2, <1>9
    <2>5. QED BY <1>8, <1>9, <2>1, <2>2, <2>3, <2>4 DEF IdInv, NewIds
  <1>19. Indexing'
    <2>1. ASSUME call[c].kind = "index"
          PROVE  /\ IsFiniteSet(call'[c].new) /\ Cardinality(call'[c].new) = Questions
                 /\ pc'[c] = 3
      BY <1>3, <1>8, <1>9, <2>1
    <2>2. ASSUME NEW d \in Callers \ {c}
          PROVE  writes'[d] = writes[d] /\ call'[d] = call[d] /\ pc'[d] = pc[d]
      BY <1>7, <1>8, <1>9
    <2>3. call'[c].kind = call[c].kind
      BY <1>8
    <2>4. QED BY <2>1, <2>2, <2>3 DEF IdInv, Indexing
  <1>20. \A h : Clean(h)' <=> Clean(h)
    <2>1. Doomed' <=> Doomed
      BY <1>2, <1>8, <1>9 DEF Doomed
    <2>2. QED BY <1>1, <2>1 DEF Clean
  <1>21. \A d \in Callers : Dirty(d)' <=> Dirty(d)
    BY <1>2, <1>8, <1>9 DEF Dirty, DirtyAt
  <1>22. VecSame'
    BY <1>1, <1>8, <1>20, <1>21 DEF VecInv, VecSame, VectorsOf, Live
  <1>23. VecOwn'
    <2>1. pc[c] \notin WroteAt[call[c].kind] /\ pc'[c] \notin WroteAt[call[c].kind]
      BY <1>2, <1>9 DEF WroteAt
    <2>2. QED BY <1>1, <1>8, <1>9, <1>20, <1>21, <2>1 DEF VecInv, VecOwn, VectorsOf
  <1>24. RowsOwn'
    BY <1>1, <1>2, <1>8, <1>9, <1>20 DEF VecInv, RowsOwn, Live
  <1>25. QED
    BY <1>13, <1>15, <1>17, <1>18, <1>19, <1>22, <1>23, <1>24 DEF IdInv, VecInv

-----------------------------------------------------------------------------
(* The commit of a call that is no indexing: all rows of its group are its  *)
(* writes, and the live ones among them are those it has inserted.          *)
LEMMA CommitGroupVec ==
    ASSUME Inv, IdInv, VecInv, NEW c \in Callers, Commit(c), call[c].kind # "index"
    PROVE  IdInv' /\ VecInv'
  <1> DEFINE g == call[c].group
  <1>1. /\ rows' = View(c) /\ StepOf(c) = "commit" /\ Holding(c) /\ EndCall(c)
        /\ UNCHANGED <<vec, next, batch, stranded, bare>>
    BY NextSteps DEF Commit, history, Inv
  <1>2. \/ call[c].kind = "add" /\ pc[c] = 4
        \/ call[c].kind = "delete" /\ pc[c] = 5
        \/ call[c].kind = "cover" /\ pc[c] = 8
    BY <1>1, Places DEF Inv
  <1>3. /\ DOMAIN rows' = DOMAIN rows \cup DOMAIN writes[c]
        /\ \A i \in DOMAIN rows' :
             rows'[i] = IF i \in DOMAIN writes[c] THEN writes[c][i] ELSE rows[i]
    BY <1>1, ViewRows
  <1>4. /\ call'[c] = NoCall /\ \A d \in Callers \ {c} : call'[d] = call[d]
        /\ pc'[c] = 0 /\ \A d \in Callers \ {c} : pc'[d] = pc[d]
        /\ DOMAIN (writes'[c]) = {} /\ \A d \in Callers \ {c} : writes'[d] = writes[d]
    BY <1>1 DEF EndCall, Inv, TypeInv
  <1>5. /\ NoCall.kind = "none" /\ NoCall.new = {} /\ NoCall.listed = {}
        /\ NoCall.sample = {} /\ NoCall.group = FileGroup
    BY DEF NoCall
  <1>6. /\ ~(Holding(c)') /\ \A d \in Callers \ {c} : Holding(d)' <=> Holding(d)
        /\ Dirty(c) /\ ~(Dirty(c)') /\ \A d \in Callers \ {c} : Dirty(d)' <=> Dirty(d)
    BY <1>2, <1>4, <1>5 DEF Holding, Holds, Dirty, DirtyAt
  <1>7. g \in Groups /\ g # FileGroup
    BY <1>6, CallTypes, DirtyHolds
  <1>8. \A i \in DOMAIN writes[c] : writes[c][i].group = g
    BY DEF IdInv, Marked
  <1>9. OneGroup'
    <2>1. ASSUME NEW i, NEW h, Mentions(i, h)' PROVE Mentions(i, h)
      BY <1>3, <1>4, <1>5, <1>1, <2>1 DEF Mentions
    <2>2. QED BY <1>1, <2>1 DEF IdInv, OneGroup
  <1>10. Marked'
    <2>1. ASSUME NEW d \in Callers \ {c}, NEW i \in DOMAIN writes[d], i \in DOMAIN rows'
          PROVE  ~writes[d][i].live
      <3>1. i \in DOMAIN rows
        BY <1>3, <2>1 DEF Inv, SafeInv, Disjoint
      <3>2. QED BY <2>1, <3>1 DEF IdInv, Marked
    <2>2. ASSUME NEW i \in batch PROVE i \in DOMAIN rows' /\ ~rows'[i].live
      BY <1>3, <2>2 DEF IdInv, Marked
    <2>3. QED BY <1>1, <1>4, <2>1, <2>2 DEF IdInv, Marked
  <1>11. Inserted'
    BY <1>3, <1>4, <1>6 DEF IdInv, Inserted
  <1>12. NewIds'
    BY <1>4, <1>5 DEF IdInv, NewIds
  <1>13. Indexing'
    BY <1>4, <1>5 DEF IdInv, Indexing
  <1>14. \A h : Clean(h)' <=> Clean(h)
    BY <1>1, <1>4, <1>5 DEF Clean, Doomed
  <1>15. ASSUME NEW h \in Groups, h # g PROVE Live(rows', h) = Live(rows, h)
    <2>1. \A i \in DOMAIN writes[c] \cap DOMAIN rows : rows[i].group = g
      BY <1>8 DEF Inv, SafeInv, SameGroup
    <2>2. QED BY <1>3, <1>8, <1>15, <2>1 DEF Live
  <1>16. Clean(g) => VectorsOf(g) = Live(rows', g)
    <2> SUFFICES ASSUME Clean(g) PROVE VectorsOf(g) = Live(rows', g)
      OBVIOUS
    <2>1. VectorsOf(g) = call[c].new
      <3>1. CASE call[c].kind = "delete"
        <4>1. pc[c] \in EmptyAt[call[c].kind] /\ pc[c] \notin WroteAt[call[c].kind]
          BY <1>2, <3>1 DEF EmptyAt, WroteAt
        <4>2. QED BY <1>6, <4>1 DEF VecInv, VecOwn, IdInv, NewIds
      <3>2. CASE call[c].kind # "delete"
        <4>1. pc[c] \in WroteAt[call[c].kind]
          BY <1>2, <3>2 DEF WroteAt
        <4>2. QED BY <1>6, <4>1 DEF VecInv, VecOwn
      <3>3. QED BY <3>1, <3>2
    <2>2. ASSUME NEW i \in DOMAIN rows', rows'[i].group = g
          PROVE  i \in DOMAIN writes[c] /\ rows'[i] = writes[c][i]
      BY <1>1, <1>3, <2>2 DEF Clean, Inv, SafeInv, Held
    <2>3. \A i \in DOMAIN writes[c] : writes[c][i].live <=> i \in call[c].new
      BY <1>1, <1>8 DEF IdInv, Inserted
    <2>4. call[c].new \subseteq DOMAIN writes[c]
      BY <1>1 DEF IdInv, Inserted
    <2>5. QED BY <1>3, <1>8, <2>1, <2>2, <2>3, <2>4 DEF Live
  <1>17. VecSame'
    <2>1. ASSUME NEW h \in Groups, Clean(h)', \A d \in Callers : Dirty(d)' => call'[d].group # h
          PROVE  VectorsOf(h) = Live(rows', h)
      <3>1. CASE h = g
        BY <1>14, <1>16, <2>1, <3>1
      <3>2. CASE h # g
        <4>1. VectorsOf(h) = Live(rows, h)
          BY <1>4, <1>6, <1>14, <2>1, <3>2 DEF VecInv, VecSame
        <4>2. QED BY <1>15, <3>2, <4>1
      <3>3. QED BY <3>1, <3>2
    <2>2. QED BY <1>1, <2>1 DEF VecSame, VectorsOf, Live
  <1>18. VecOwn'
    BY <1>1, <1>4, <1>6, <1>14 DEF VecInv, VecOwn, VectorsOf
  <1>19. RowsOwn'
    BY <1>4, <1>5, <1>7, <1>14, <1>15, QaGroupAssumption DEF VecInv, RowsOwn, Live
  <1>20. QED
    BY <1>9, <1>10, <1>11, <1>12, <1>13, <1>17, <1>18, <1>19 DEF IdInv, VecInv

(* The commit of an indexing: if it had marked a row, it has listed more    *)
(* rows than it inserted, and is doomed.  Otherwise the group was empty.    *)
LEMMA CommitIndexVec ==
    ASSUME Inv, IdInv, VecInv, NEW c \in Callers, Commit(c), call[c].kind = "index"
    PROVE  IdInv' /\ VecInv'
  <1>1. /\ rows' = View(c) /\ StepOf(c) = "commit" /\ Holding(c) /\ Advance(c)
        /\ UNCHANGED <<vec, next, call, batch, stranded, bare>>
        /\ writes' = [writes EXCEPT ![c] = <<>>]
    BY NextSteps DEF Commit, history, Inv
  <1>2. pc[c] = 4 /\ call[c].group = FileGroup
    BY <1>1, Places, IndexFacts DEF Inv
  <1>3. /\ DOMAIN rows' = DOMAIN rows \cup DOMAIN writes[c]
        /\ \A i \in DOMAIN rows' :
             rows'[i] = IF i \in DOMAIN writes[c] THEN writes[c][i] ELSE rows[i]
    BY <1>1, ViewRows
  <1>4. /\ pc'[c] = 5 /\ \A d \in Callers \ {c} : pc'[d] = pc[d]
        /\ DOMAIN (writes'[c]) = {} /\ \A d \in Callers \ {c} : writes'[d] = writes[d]
    BY <1>1, <1>2 DEF Advance, Inv, TypeInv
  <1>5. /\ ~(Holding(c)') /\ \A d \in Callers \ {c} : Holding(d)' <=> Holding(d)
        /\ ~Dirty(c) /\ \A d \in Callers \ {c} : Dirty(d)' <=> Dirty(d)
    BY <1>1, <1>2, <1>4 DEF Holding, Holds, Dirty, DirtyAt
  <1>6. OneGroup'
    <2>1. ASSUME NEW i, NEW h, Mentions(i, h)' PROVE Mentions(i, h)
      BY <1>3, <1>4, <1>1, <2>1 DEF Mentions
    <2>2. QED BY <1>1, <2>1 DEF IdInv, OneGroup
  <1>7. Marked'
    <2>1. ASSUME NEW d \in Callers \ {c}, NEW i \in DOMAIN writes[d], i \in DOMAIN rows'
          PROVE  ~writes[d][i].live
      <3>1. i \in DOMAIN rows
        BY <1>3, <2>1 DEF Inv, SafeInv, Disjoint
      <3>2. QED BY <2>1, <3>1 DEF IdInv, Marked
    <2>2. ASSUME NEW i \in batch PROVE i \in DOMAIN rows' /\ ~rows'[i].live
      BY <1>3, <2>2 DEF IdInv, Marked
    <2>3. QED BY <1>1, <1>4, <2>1, <2>2 DEF IdInv, Marked
  <1>8. Inserted'
    BY <1>1, <1>3, <1>4, <1>5 DEF IdInv, Inserted
  <1>9. NewIds'
    <2>1. pc'[c] \notin EmptyAt[call[c].kind] /\ pc[c] # 0 /\ pc'[c] # 0
      BY <1>2, <1>4 DEF EmptyAt
    <2>2. QED BY <1>1, <1>4, <2>1 DEF IdInv, NewIds
  <1>10. Indexing'
    BY <1>1, <1>2, <1>4 DEF IdInv, Indexing
  <1>11. CASE Doomed'
    <2>1. \A h : ~(Clean(h)')
      BY <1>11 DEF Clean
    <2>2. VecInv'
      BY <2>1 DEF VecInv, VecSame, VecOwn, RowsOwn
    <2>3. QED BY <1>6, <1>7, <1>8, <1>9, <1>10, <2>2 DEF IdInv
  <1>12. CASE ~Doomed'
    <2>1. ~Doomed /\ call[c].listed = call[c].new
      BY <1>1, <1>2, <1>4, <1>12 DEF Doomed
    <2>2. \A h : Clean(h)' <=> Clean(h)
      BY <1>1, <1>12, <2>1 DEF Clean
    <2>3. DOMAIN writes[c] = call[c].new
      BY <1>1, <1>2, <2>1 DEF IdInv, Inserted, Indexing
    <2>4. ASSUME NEW i \in DOMAIN writes[c]
          PROVE  writes[c][i].group = FileGroup /\ writes[c][i].live /\ i \notin DOMAIN rows
      <3>1. i \in Nat /\ writes[c][i].group \in Groups
        BY <2>4 DEF Inv, TypeInv, Row
      <3>2. Mentions(i, writes[c][i].group) /\ Mentions(i, FileGroup)
        BY <1>2, <2>3, <2>4 DEF Mentions
      <3>3. writes[c][i].group = FileGroup
        BY <3>1, <3>2, QaGroupAssumption DEF IdInv, OneGroup
      <3>4. writes[c][i].live
        BY <1>1, <1>2, <2>3, <2>4, <3>3 DEF IdInv, Inserted
      <3>5. QED BY <2>4, <3>3, <3>4 DEF IdInv, Marked
    <2>5. \A h : h # FileGroup => Live(rows', h) = Live(rows, h)
      BY <1>3, <2>4 DEF Live
    <2>6. FileGroup \notin bare => Live(rows, FileGroup) = {}
      BY <1>1, <1>2, <2>4 DEF Live, Inv, SafeInv, Held
    <2>7. FileGroup \notin bare => Live(rows', FileGroup) = call[c].new
      BY <1>3, <2>3, <2>4, <2>6 DEF Live
    <2>8. ASSUME Clean(FileGroup), NEW d \in Callers, call[d].kind = "index", pc[d] > 4
          PROVE  FALSE
      <3>1. Live(rows, FileGroup) = call[d].new
        BY <2>8 DEF VecInv, RowsOwn
      <3>2. pc[d] > 2
        BY <2>8, IndexFacts
      <3>3. call[d].new # {}
        BY <2>8, <3>2, NewNotEmpty
      <3>4. QED BY <2>6, <2>8, <3>1, <3>3 DEF Clean
    <2>9. ASSUME Clean(FileGroup), NEW d \in Callers, Dirty(d), call[d].group = FileGroup
          PROVE  FALSE
      <3>1. call[d].kind = "index"
        BY <2>9, DirtyHolds
      <3>2. pc[d] > 4
        BY <2>9, <3>1, IndexFacts
      <3>3. QED BY <2>8, <2>9, <3>1, <3>2
    <2>10. Clean(FileGroup) => VectorsOf(FileGroup) = {}
      BY <2>6, <2>9, QaGroupAssumption DEF VecInv, VecSame, Clean
    <2>11. Dirty(c)'
      BY <1>1, <1>4 DEF Dirty, DirtyAt
    <2>12. VecSame'
      <3>1. ASSUME NEW h \in Groups, Clean(h)',
                   \A d \in Callers : Dirty(d)' => call'[d].group # h
            PROVE  VectorsOf(h) = Live(rows', h)
        <4>1. h # FileGroup
          BY <1>1, <1>2, <2>11, <3>1
        <4>2. VectorsOf(h) = Live(rows, h)
          BY <1>1, <1>5, <2>2, <3>1 DEF VecInv, VecSame
        <4>3. QED BY <2>5, <4>1, <4>2
      <3>2. QED BY <1>1, <3>1 DEF VecSame, VectorsOf, Live
    <2>13. VecOwn'
      <3>1. pc'[c] \notin WroteAt[call[c].kind]
        BY <1>4 DEF WroteAt
      <3>2. QED
        BY <1>1, <1>2, <1>4, <1>5, <2>2, <2>10, <3>1 DEF VecInv, VecOwn, VectorsOf
    <2>14. RowsOwn'
      BY <1>1, <1>4, <2>2, <2>7, <2>8 DEF RowsOwn, Live, Clean
    <2>15. QED
      BY <1>6, <1>7, <1>8, <1>9, <1>10, <2>12, <2>13, <2>14 DEF IdInv, VecInv
  <1>13. QED BY <1>11, <1>12

LEMMA PurgeVec == ASSUME Inv, IdInv, VecInv, Purge PROVE IdInv' /\ VecInv'
  <1>1. /\ UNCHANGED <<writes, vec, next, call, pc, stranded, bare>>
        /\ DOMAIN rows' \subseteq DOMAIN rows
        /\ \A i \in DOMAIN rows' : rows'[i] = rows[i]
        /\ \A i \in DOMAIN rows \ DOMAIN rows' : ~rows[i].live
        /\ \A i \in batch' : i \in DOMAIN rows' /\ ~rows'[i].live
        /\ \A c \in Callers : DOMAIN writes[c] \cap DOMAIN rows \subseteq DOMAIN rows'
    <2>1. CASE SelectBatch
      BY <2>1 DEF SelectBatch, Purgeable, history
    <2>2. CASE DeleteBatch
      BY <2>2 DEF DeleteBatch, history, IdInv, Marked
    <2>3. QED BY <2>1, <2>2 DEF Purge
  <1>2. OneGroup'
    <2>1. ASSUME NEW i, NEW h, Mentions(i, h)' PROVE Mentions(i, h)
      BY <1>1, <2>1 DEF Mentions
    <2>2. QED BY <1>1, <2>1 DEF IdInv, OneGroup
  <1>3. Marked'
    BY <1>1 DEF IdInv, Marked
  <1>4. Inserted' /\ NewIds' /\ Indexing'
    BY <1>1 DEF IdInv, Inserted, NewIds, Indexing, Holding
  <1>5. \A h : Live(rows', h) = Live(rows, h)
    BY <1>1 DEF Live
  <1>6. VecSame' /\ VecOwn' /\ RowsOwn'
    BY <1>1, <1>5 DEF VecInv, VecSame, VecOwn, RowsOwn, VectorsOf, Clean, Doomed, Dirty
  <1>7. QED BY <1>2, <1>3, <1>4, <1>6 DEF IdInv, VecInv

LEMMA NextVec == Inv /\ IdInv /\ VecInv /\ [Next]_vars => IdInv' /\ VecInv'
  <1> SUFFICES ASSUME Inv, IdInv, VecInv, [Next]_vars PROVE IdInv' /\ VecInv'
    OBVIOUS
  <1>1. ASSUME NEW c \in Callers, NEW k \in Kinds, NEW g \in Groups, Begin(c, k, g)
        PROVE  IdInv' /\ VecInv'
    BY <1>1, BeginVec
  <1>2. ASSUME NEW c \in Callers, Statement(c) PROVE IdInv' /\ VecInv'
    <2>1. CASE EndIndex(c)
      <3>1. call[c].kind = "index" /\ pc[c] = 8
        BY <2>1, Places DEF EndIndex, Inv
      <3>2. ~Dirty(c)
        BY <3>1, IndexFacts
      <3>3. EndCall(c) /\ UNCHANGED <<rows, vec, next, batch, bare, stranded>>
        BY <2>1 DEF EndIndex, stores, history
      <3>4. QED BY <3>1, <3>2, <3>3, EndVec
    <2>2. CASE Commit(c)
      BY <2>2, CommitGroupVec, CommitIndexVec
    <2>3. QED
      BY <1>2, <2>1, <2>2, ListVec, SoftDeleteVec, InsertVec, ReadIdsVec, CheckIdsVec,
         WriteStoresVec DEF Statement
  <1>3. ASSUME NEW c \in Callers, Fail(c) \/ LockTimeout(c) \/ Crash(c)
        PROVE  IdInv' /\ VecInv'
    <2>1. EndCall(c) /\ UNCHANGED <<rows, vec, next, batch, bare>>
      BY <1>3 DEF Fail, LockTimeout, Crash, Abort, stores
    <2>2. stranded \subseteq stranded'
      BY <1>3 DEF Fail, LockTimeout, Crash, Abort
    <2>3. Half(c) => \A g \in Groups : Affects(call[c], g) => g \in stranded'
      BY <1>3 DEF Fail, LockTimeout, Crash, Abort
    <2>4. call[c].group \in Groups /\ Affects(call[c], call[c].group)
      BY CallTypes DEF Affects
    <2>5. call[c].kind = "index" => \A g \in Groups : Affects(call[c], g)
      BY DEF Affects
    <2>6. call[c].kind = "index" /\ pc[c] = 5 => Busy(c)
      BY DEF Busy, BusyAt
    <2>7. QED BY <2>1, <2>2, <2>3, <2>4, <2>5, <2>6, DirtyIsHalf, EndVec DEF Inv
  <1>4. CASE Purge
    BY <1>4, PurgeVec
  <1>5. CASE UNCHANGED vars
    BY <1>5
    DEF vars, IdInv, OneGroup, Mentions, Marked, Inserted, NewIds, Indexing, Holding,
        VecInv, VecSame, VecOwn, RowsOwn, VectorsOf, Live, Clean, Doomed, Dirty
  <1>6. QED BY <1>1, <1>2, <1>3, <1>4, <1>5 DEF Next

(* VectorsMatchRows of QaGroup: when no call is at work on a group, none    *)
(* has failed half-way and there was a row to be locked, the vectors of the *)
(* group are those of its live rows, however many calls have overlapped:    *)
(* between its first write to the vector store and its commit a call keeps  *)
(* the others out by its row locks (coverage_group, delete_group).          *)
THEOREM VectorsMatchRowsStands == Spec => []VectorsMatchRows
  <1>1. IdInv /\ VecInv /\ Inv => VectorsMatchRows
    <2> SUFFICES ASSUME IdInv, VecInv, Inv, NEW g \in Groups \ bare, Quiet(g)
                 PROVE  VectorsOf(g) = Live(rows, g)
      BY DEF VectorsMatchRows
    <2>1. \A c \in Callers : pc[c] # 0 => ~Affects(call[c], g)
      BY DEF Quiet, Touches, Active
    <2>2. ~Doomed
      BY <2>1 DEF Doomed, Affects
    <2>3. ASSUME NEW c \in Callers, Dirty(c) PROVE call[c].group # g
      <3>1. pc[c] # 0
        BY <2>3, DirtyHolds, OnlyActive, IndexFacts
      <3>2. QED BY <2>1, <3>1 DEF Affects
    <2>4. QED BY <2>2, <2>3 DEF Clean, Quiet, VecInv, VecSame
  <1>2. QED BY InitInv, InitIds, NextInv, NextVec, <1>1, PTL DEF Spec

-----------------------------------------------------------------------------
(* The search index.  A call of a group nobody else is at work on finds the *)
(* entries of the live rows, drops those it has listed and adds its own.    *)
LEMMA InitEs == Init => EsInv
  <1> SUFFICES ASSUME Init PROVE EsInv
    OBVIOUS
  <1>1. \A c \in Callers : pc[c] = 0 /\ call[c].kind = "none"
    BY DEF Init, NoCall
  <1>2. bare = {} /\ es = DOMAIN rows /\ \A i \in DOMAIN rows : rows[i].live
    BY DEF Init
  <1>3. \A c \in Callers : ~Busy(c) /\ ~Added(c)
    BY <1>1 DEF Busy, BusyAt, Added, AddedAt
  <1>4. EsSame
    BY <1>2 DEF EsSame, EntriesOf, Live
  <1>5. QED
    BY <1>1, <1>2, <1>3, <1>4 DEF EsInv, Alone, Listed, EsGone, EsAdded, EsIndexed,
                                  Touches, Active

(* A step of c leaves the calls of the others as they are. *)
Step(c) == \/ \E k \in Kinds, g \in Groups : Begin(c, k, g)
           \/ Statement(c) \/ Fail(c) \/ LockTimeout(c) \/ Crash(c)

LEMMA OthersKeep ==
    ASSUME Inv, NEW c \in Callers, Step(c), NEW d \in Callers \ {c}
    PROVE  call'[d] = call[d] /\ pc'[d] = pc[d] /\ writes'[d] = writes[d]
  <1>1. CASE \E k \in Kinds, g \in Groups : Begin(c, k, g)
    BY <1>1 DEF Begin, Inv, TypeInv
  <1>2. CASE Statement(c)
    <2>1. CASE List(c)
      BY <2>1 DEF List, Advance, Inv, TypeInv
    <2>2. CASE SoftDelete(c)
      BY <2>2 DEF SoftDelete, Advance, Inv, TypeInv
    <2>3. CASE Insert(c)
      BY <2>3 DEF Insert, Advance, Inv, TypeInv
    <2>4. CASE ReadIds(c)
      BY <2>4 DEF ReadIds, Advance, Inv, TypeInv
    <2>5. CASE CheckIds(c)
      BY <2>5 DEF CheckIds, Advance, EndCall, Inv, TypeInv
    <2>6. CASE WriteStores(c)
      BY <2>6 DEF WriteStores, Advance, Inv, TypeInv
    <2>7. CASE Commit(c)
      BY <2>7 DEF Commit, Advance, EndCall, Inv, TypeInv
    <2>8. CASE EndIndex(c)
      BY <2>8 DEF EndIndex, EndCall, Inv, TypeInv
    <2>9. QED
      BY <1>2, <2>1, <2>2, <2>3, <2>4, <2>5, <2>6, <2>7, <2>8 DEF Statement
  <1>3. CASE Fail(c) \/ LockTimeout(c) \/ Crash(c)
    BY <1>3 DEF Fail, LockTimeout, Crash, Abort, EndCall, Inv, TypeInv
  <1>4. QED BY <1>1, <1>2, <1>3 DEF Step

(* What is stranded, bare or doomed stays so. *)
LEMMA CleanBefore ==
    ASSUME Inv, IdInv, NEW c \in Callers, Step(c), NEW g \in Groups, EsClean(g)'
    PROVE  EsClean(g)
  <1>1. g \notin bare /\ g \notin overlap /\ g \notin stranded
    <2>1. g \notin bare' /\ g \notin overlap' /\ g \notin stranded'
      BY DEF EsClean, Clean
    <2>2. CASE \E k \in Kinds, h \in Groups : Begin(c, k, h)
      BY <2>1, <2>2 DEF Begin
    <2>3. CASE Statement(c)
      BY <2>1, <2>3
      DEF Statement, List, SoftDelete, Insert, ReadIds, CheckIds, WriteStores, Commit,
          EndIndex, history
    <2>4. CASE Fail(c) \/ LockTimeout(c) \/ Crash(c)
      BY <2>1, <2>4 DEF Fail, LockTimeout, Crash, Abort
    <2>5. QED BY <2>2, <2>3, <2>4 DEF Step
  <1>2. ASSUME NEW d \in Callers, call[d].kind = "index", pc[d] = 5,
               call[d].listed # call[d].new
        PROVE  FALSE
    <2>1. CASE d # c
      <3>1. call'[d] = call[d] /\ pc'[d] = pc[d]
        BY <2>1, OthersKeep
      <3>2. QED BY <1>2, <3>1 DEF EsClean, Clean, Doomed
    <2>2. CASE d = c
      <3>1. ~(\E k \in Kinds, h \in Groups : Begin(c, k, h))
        <4>1. \A k \in Kinds, h \in Groups : Begin(c, k, h) => pc[c] = 0
          BY DEF Begin, Active
        <4>2. QED BY <1>2, <2>2, <4>1
      <3>2. ASSUME Statement(c) PROVE FALSE
        <4>1. StepOf(c) = "check"
          BY <1>2, <2>2, OtherSteps DEF StepOf, Active
        <4>2. CheckIds(c)
          BY <3>2, <4>1 DEF Statement, List, SoftDelete, Insert, ReadIds, WriteStores, Commit,
                            EndIndex
        <4>3. Cardinality(call[c].listed) # Questions
          <5>1. /\ Cardinality(call[c].new) = Questions /\ IsFiniteSet(call[c].listed)
                /\ call[c].new \subseteq call[c].listed
            BY <1>2, <2>2 DEF IdInv, Indexing
          <5>2. QED BY <1>2, <2>2, <5>1, FS_Subset
        <4>4. stranded' = Groups
          BY <4>2, <4>3 DEF CheckIds
        <4>5. QED BY <4>4 DEF EsClean, Clean
      <3>3. ASSUME Fail(c) \/ LockTimeout(c) \/ Crash(c) PROVE FALSE
        <4>1. Half(c)
          BY <1>2, <2>2, DirtyIsHalf DEF Busy, BusyAt, Inv
        <4>2. g \in stranded'
          BY <1>2, <2>2, <3>3, <4>1 DEF Fail, LockTimeout, Crash, Abort, Affects
        <4>3. QED BY <4>2 DEF EsClean, Clean
      <3>4. QED BY <3>1, <3>2, <3>3 DEF Step
    <2>3. QED BY <2>1, <2>2
  <1>3. QED BY <1>1, <1>2 DEF EsClean, Clean, Doomed

(* Who overlaps with whom is recorded when a call begins. *)
LEMMA AloneKept ==
    ASSUME Inv, Alone, NEW c \in Callers, Step(c) PROVE Alone'
  <1>1. CASE \E k \in Kinds, g \in Groups : Begin(c, k, g)
    <2>1. /\ overlap' = overlap \cup {h \in Groups : /\ Affects(call'[c], h)
                                                    /\ \E d \in Callers : Touches(d, h)}
          /\ bare' = bare
      BY <1>1 DEF Begin
    <2>2. ASSUME NEW d \in Callers \ {c}, NEW g \in Groups, Touches(d, g)' PROVE Touches(d, g)
      BY <2>2, OthersKeep DEF Touches, Active
    <2>3. \A g : Touches(c, g)' => Affects(call'[c], g)
      BY DEF Touches
    <2>4. ASSUME NEW d \in Callers, NEW e \in Callers, NEW g \in Groups, d # e,
                 Touches(d, g)', Touches(e, g)'
          PROVE  g \in overlap'
      <3>1. CASE d # c /\ e # c
        BY <2>1, <2>2, <2>4, <3>1 DEF Alone
      <3>2. CASE d = c
        BY <2>1, <2>2, <2>3, <2>4, <3>2
      <3>3. CASE e = c
        BY <2>1, <2>2, <2>3, <2>4, <3>3
      <3>4. QED BY <3>1, <3>2, <3>3
    <2>5. QED BY <2>1, <2>4 DEF Alone
  <1>2. ASSUME \A g \in Groups : Touches(c, g)' => Touches(c, g), overlap' = overlap,
               \A g \in Groups : g \in bare' => g \in overlap
        PROVE  Alone'
    <2>1. ASSUME NEW d \in Callers, NEW g \in Groups, Touches(d, g)' PROVE Touches(d, g)
      BY <1>2, <2>1, OthersKeep DEF Touches, Active
    <2>2. QED BY <1>2, <2>1 DEF Alone
  <1>3. CASE EndCall(c) /\ overlap' = overlap /\ bare' = bare
    <2>1. pc'[c] = 0
      BY <1>3 DEF EndCall, Inv, TypeInv
    <2>2. \A g \in Groups : g \in bare' => g \in overlap
      BY <1>3 DEF Alone
    <2>3. QED BY <1>2, <1>3, <2>1, <2>2 DEF Touches, Active
  <1>4. CASE Statement(c) /\ ~EndCall(c)
    <2>1. StepOf(c) # "none" /\ overlap' = overlap /\ (SoftDelete(c) \/ bare' = bare)
      BY <1>4
      DEF Statement, List, SoftDelete, Insert, ReadIds, CheckIds, WriteStores, Commit,
          EndIndex, history
    <2>2. call'[c].kind = call[c].kind /\ call'[c].group = call[c].group
      <3>1. CASE List(c)
        BY <3>1 DEF List, Inv, TypeInv, Call
      <3>2. CASE Insert(c) \/ ReadIds(c)
        BY <3>2 DEF Insert, ReadIds, Inv, TypeInv, Call
      <3>3. CASE SoftDelete(c) \/ CheckIds(c) \/ WriteStores(c) \/ Commit(c)
        BY <1>4, <3>3 DEF SoftDelete, CheckIds, WriteStores, Commit
      <3>4. QED BY <1>4, <3>1, <3>2, <3>3 DEF Statement, EndIndex
    <2>3. Active(c)
      BY <2>1 DEF StepOf
    <2>4. \A g \in Groups : Touches(c, g)' => Touches(c, g)
      BY <2>2, <2>3 DEF Touches, Affects
    <2>5. ASSUME SoftDelete(c), NEW g \in Groups, g \in bare' PROVE g \in overlap
      <3>1. \/ g \in bare
            \/ Affects(call[c], g) /\ \E d \in Callers \ {c} : Touches(d, g)
        BY <2>5 DEF SoftDelete
      <3>2. Affects(call[c], g) => Touches(c, g)
        BY <2>3 DEF Touches
      <3>3. QED BY <3>1, <3>2 DEF Alone
    <2>6. \A g \in Groups : g \in bare' => g \in overlap
      BY <2>1, <2>5 DEF Alone
    <2>7. QED BY <1>2, <2>1, <2>4, <2>6
  <1>5. Statement(c) => overlap' = overlap /\ (EndCall(c) => bare' = bare)
    <2>1. ASSUME SoftDelete(c), EndCall(c) PROVE FALSE
      <3>1. Active(c)
        BY <2>1 DEF SoftDelete, StepOf
      <3>2. pc'[c] = pc[c] + 1 /\ pc'[c] = 0
        BY <2>1 DEF SoftDelete, Advance, EndCall, Inv, TypeInv
      <3>3. StepOf(c) = "softDelete"
        BY <2>1 DEF SoftDelete
      <3>4. pc[c] \in {1, 2}
        BY <3>3, Places DEF Inv
      <3>5. QED BY <3>2, <3>4
    <2>2. QED
      BY <2>1
      DEF Statement, List, SoftDelete, Insert, ReadIds, CheckIds, WriteStores, Commit,
          EndIndex, history
  <1>6. Fail(c) \/ LockTimeout(c) \/ Crash(c) => EndCall(c) /\ overlap' = overlap /\ bare' = bare
    BY DEF Fail, LockTimeout, Crash, Abort
  <1>7. QED BY <1>1, <1>3, <1>4, <1>5, <1>6 DEF Step

LEMMA NotOverlapped ==
    ASSUME Alone, NEW c \in Callers, NEW d \in Callers, c # d, pc[c] # 0, pc[d] # 0,
           NEW g \in Groups, Affects(call[c], g), Affects(call[d], g)
    PROVE  ~EsClean(g) /\ g \in overlap
  BY DEF Alone, Touches, Active, EsClean

LEMMA BusyPlaces ==
    ASSUME Inv, IdInv, NEW c \in Callers, Busy(c) \/ Added(c)
    PROVE  /\ pc[c] # 0 /\ call[c].group \in Groups /\ Affects(call[c], call[c].group)
           /\ call[c].kind = "index" => call[c].group = FileGroup
           /\ call[c].kind # "index" => Holding(c)
  <1>1. call[c].kind \in {"none", "add", "delete", "cover", "index"}
    BY DEF Inv, TypeInv, Call
  <1>2. pc[c] # 0
    BY <1>1 DEF Busy, BusyAt, Added, AddedAt
  <1>3. call[c].kind # "index" => Holding(c)
    BY <1>1 DEF Busy, BusyAt, Added, AddedAt, Holding, Holds
  <1>4. call[c].kind = "index" => call[c].group = FileGroup
    BY IndexFacts
  <1>5. QED BY <1>2, <1>3, <1>4, CallTypes DEF Affects

(* A step that leaves rows and index alone. *)
LEMMA EsStay ==
    ASSUME Inv, IdInv, EsInv, NEW c \in Callers, Step(c), Listed', rows' = rows, es' = es,
           Busy(c)' <=> Busy(c), ~(Added(c)'),
           Busy(c) => call'[c].kind = call[c].kind /\ call'[c].group = call[c].group
    PROVE  EsInv'
  <1>1. Alone'
    BY AloneKept DEF EsInv
  <1>2. \A d \in Callers \ {c} : call'[d] = call[d] /\ pc'[d] = pc[d]
    BY OthersKeep
  <1>3. \A d \in Callers \ {c} : (Busy(d)' <=> Busy(d)) /\ (Added(d)' <=> Added(d))
    BY <1>2 DEF Busy, Added
  <1>4. \A g \in Groups : EsClean(g)' => EsClean(g)
    BY CleanBefore
  <1>5. FileGroup \in Groups /\ \A d \in Callers : call[d].group \in Groups
    BY QaGroupAssumption, CallTypes
  <1>6. EsSame'
    BY <1>2, <1>3, <1>4 DEF EsInv, EsSame, EntriesOf, Live
  <1>7. EsGone'
    BY <1>2, <1>3, <1>4, <1>5 DEF EsInv, EsGone, EntriesOf
  <1>8. EsAdded'
    BY <1>2, <1>3, <1>4, <1>5 DEF EsInv, EsAdded
  <1>9. EsIndexed'
    BY <1>2, <1>3, <1>4, <1>5 DEF EsInv, EsIndexed, EntriesOf, Live
  <1>10. QED BY <1>1, <1>6, <1>7, <1>8, <1>9 DEF EsInv

LEMMA BeginEs ==
    ASSUME Inv, IdInv, EsInv, NEW c \in Callers, NEW k \in Kinds, NEW g \in Groups,
           Begin(c, k, g)
    PROVE  EsInv'
  <1>1. /\ pc[c] = 0 /\ pc' = [pc EXCEPT ![c] = 1] /\ UNCHANGED <<rows, es>>
        /\ call' = [call EXCEPT ![c] = [NoCall EXCEPT !.kind = k, !.group = g, !.no = calls + 1]]
    BY DEF Begin, stores, Active
  <1>2. pc'[c] = 1 /\ call'[c].kind = k
    BY <1>1 DEF Inv, TypeInv, NoCall
  <1>3. Step(c)
    BY DEF Step
  <1>4. k \in {"add", "delete", "cover", "index"}
    BY QaGroupAssumption
  <1>5. ~(Busy(c)') /\ ~(Added(c)')
    BY <1>2, <1>4 DEF Busy, BusyAt, Added, AddedAt
  <1>6. ~Busy(c)
    BY <1>1, BusyPlaces
  <1>7. overlap \subseteq overlap'
    BY DEF Begin
  <1>8. Listed'
    BY <1>1, <1>2, <1>3, <1>7, OthersKeep DEF EsInv, Listed, Live
  <1>9. QED BY <1>1, <1>3, <1>5, <1>6, <1>8, EsStay

(* The live rows of a group change only by the commit of a call that        *)
(* touches it.                                                              *)
LEMMA ListEs == ASSUME Inv, IdInv, EsInv, NEW c \in Callers, List(c) PROVE EsInv'
  <1>1. PICK s \in SUBSET VectorsOf(call[c].group) :
          call' = [call EXCEPT ![c].sample = s \cap DOMAIN rows,
                               ![c].listed = Live(View(c), call[c].group)]
    BY DEF List
  <1>2. StepOf(c) = "list" /\ Advance(c) /\ UNCHANGED <<rows, es, writes, overlap>>
    BY DEF List, stores, history
  <1>3. /\ call'[c].kind = call[c].kind /\ call'[c].group = call[c].group
        /\ call'[c].listed = Live(View(c), call[c].group)
    BY <1>1 DEF Inv, TypeInv, Call
  <1>4. call[c].kind \in {"delete", "cover"} /\ pc[c] = 1 /\ pc'[c] = 2
    BY <1>2, Places DEF Inv, TypeInv, Advance
  <1>5. Step(c)
    BY DEF Step, Statement
  <1>6. ~Holding(c) /\ ~Busy(c) /\ ~(Busy(c)') /\ ~(Added(c)')
    BY <1>3, <1>4 DEF Holding, Holds, Busy, BusyAt, Added, AddedAt
  <1>7. DOMAIN writes[c] = {}
    BY <1>6 DEF Inv, SafeInv, Idle
  <1>8. Live(View(c), call[c].group) = Live(rows, call[c].group)
    BY <1>7, ViewRows DEF Live
  <1>9. Listed'
    BY <1>2, <1>3, <1>5, <1>8, OthersKeep DEF EsInv, Listed, Live
  <1>10. QED BY <1>2, <1>5, <1>6, <1>9, EsStay

(* The steps between the stores. *)
LEMMA ProgramEs ==
    ASSUME Inv, IdInv, EsInv, NEW c \in Callers,
           \/ SoftDelete(c) \/ Insert(c) \/ ReadIds(c) \/ (CheckIds(c) /\ Advance(c))
           \/ (WriteStores(c) /\ StepOf(c) \in {"vec", "dropVec"})
    PROVE  EsInv'
  <1>1. Step(c)
    BY DEF Step, Statement
  <1>2. UNCHANGED <<rows, es, overlap>> /\ (Advance(c) \/ UNCHANGED pc)
    BY DEF SoftDelete, Insert, ReadIds, CheckIds, WriteStores, stores, history
  <1>3. StepOf(c) \in {"softDelete", "insert", "readIds", "check", "vec", "dropVec"}
    BY DEF SoftDelete, Insert, ReadIds, CheckIds
  <1>4. /\ call'[c].kind = call[c].kind /\ call'[c].group = call[c].group
        /\ call[c].kind # "index" => call'[c].listed = call[c].listed
    <2>1. CASE SoftDelete(c) \/ WriteStores(c)
      BY <2>1 DEF SoftDelete, WriteStores
    <2>2. CASE Insert(c)
      BY <2>2 DEF Insert, Inv, TypeInv, Call
    <2>3. CASE ReadIds(c)
      <3>1. call[c].kind = "index"
        BY <2>3, Places DEF ReadIds, Inv
      <3>2. QED BY <2>3, <3>1 DEF ReadIds, Inv, TypeInv, Call
    <2>4. CASE CheckIds(c) /\ Advance(c)
      <3>1. pc'[c] # 0
        BY <2>4, Places DEF CheckIds, Advance, Inv, TypeInv
      <3>2. ~EndCall(c)
        BY <3>1 DEF EndCall, Inv, TypeInv
      <3>3. QED BY <2>4, <3>2 DEF CheckIds
    <2>5. QED BY <2>1, <2>2, <2>3, <2>4
  <1>5. pc'[c] \in {pc[c], pc[c] + 1}
    BY <1>2 DEF Advance, Inv, TypeInv
  <1>6. \/ call[c].kind = "index" /\ pc[c] \in {1, 2, 3}
        \/ call[c].kind \in {"delete", "cover"} /\ pc[c] \in {2, 3}
        \/ call[c].kind = "add" /\ pc[c] \in {1, 2}
        \/ call[c].kind \in {"cover", "index"} /\ pc[c] \in {5, 6}
    BY <1>3, Places DEF Inv
  <1>7. (Busy(c)' <=> Busy(c)) /\ ~(Added(c)')
    BY <1>4, <1>5, <1>6 DEF Busy, BusyAt, Added, AddedAt
  <1>8. Listed'
    BY <1>1, <1>2, <1>4, <1>5, <1>6, OthersKeep DEF EsInv, Listed, Live
  <1>9. QED BY <1>1, <1>2, <1>4, <1>7, <1>8, EsStay

(* The entries a call adds are those of its new rows, none of which are     *)
(* there yet unless it is an indexing.                                      *)
LEMMA EsWritten ==
    ASSUME Inv, IdInv, VecInv, EsInv, NEW c \in Callers, WriteStores(c), StepOf(c) = "es"
    PROVE  EsInv'
  <1> DEFINE g == call[c].group
  <1>1. /\ Advance(c) /\ UNCHANGED <<rows, writes, call, overlap>> /\ Step(c)
        /\ es' = es \cup (IF call[c].kind = "index" THEN call[c].listed ELSE call[c].new)
    BY DEF WriteStores, history, Step, Statement
  <1>2. \/ call[c].kind = "add" /\ pc[c] = 3
        \/ call[c].kind \in {"cover", "index"} /\ pc[c] = 7
    BY <1>1, Places DEF Inv
  <1>3. call[c].kind = "index" => call[c].listed = call[c].new
    BY <1>2 DEF IdInv, Indexing
  <1>4. es' = es \cup call[c].new
    BY <1>1, <1>3
  <1>5. pc'[c] = pc[c] + 1 /\ \A d \in Callers \ {c} : pc'[d] = pc[d]
    BY <1>1 DEF Advance, Inv, TypeInv
  <1>6. /\ Alone' /\ \A h \in Groups : EsClean(h)' => EsClean(h)
        /\ FileGroup \in Groups /\ g \in Groups /\ call[c].new \in SUBSET Nat
        /\ \A d \in Callers : call[d].group \in Groups
    BY <1>1, AloneKept, CleanBefore, CallTypes, QaGroupAssumption DEF EsInv
  <1>7. ASSUME NEW i \in call[c].new, i \in DOMAIN rows
        PROVE  rows[i].group = g /\ call[c].kind = "index"
    <2>1. rows[i].group \in Groups
      BY <1>7 DEF Inv, TypeInv, Row
    <2>2. Mentions(i, rows[i].group) /\ Mentions(i, g)
      BY <1>7 DEF Mentions
    <2>3. rows[i].group = g
      BY <1>6, <2>1, <2>2 DEF IdInv, OneGroup
    <2>4. ASSUME call[c].kind # "index" PROVE FALSE
      <3>1. Holding(c)
        BY <1>2, <2>4 DEF Holding, Holds
      <3>2. i \in DOMAIN writes[c] /\ writes[c][i].group = g
        BY <1>7, <2>4, <3>1 DEF IdInv, Inserted, Marked
      <3>3. QED BY <1>7, <3>1, <3>2 DEF IdInv, Inserted, Marked
    <2>5. QED BY <2>3, <2>4
  <1>8. ASSUME NEW h, h # g \/ call[c].kind # "index" PROVE EntriesOf(h)' = EntriesOf(h)
    BY <1>1, <1>4, <1>7, <1>8 DEF EntriesOf
  <1>9. Listed'
    BY <1>1, <1>2, <1>5 DEF EsInv, Listed, Live
  <1>10. \A d \in Callers \ {c} : (Busy(d)' <=> Busy(d)) /\ (Added(d)' <=> Added(d))
    BY <1>1, <1>5 DEF Busy, Added
  <1>11. Busy(c) => call[c].kind \in {"cover", "index"}
    BY <1>2 DEF Busy, BusyAt
  <1>12. CASE call[c].kind # "index"
    <2>1. Busy(c)' <=> Busy(c)
      BY <1>1, <1>2, <1>5, <1>12 DEF Busy, BusyAt
    <2>2. \A h : EntriesOf(h)' = EntriesOf(h) /\ Live(rows, h)' = Live(rows, h)
      BY <1>1, <1>8, <1>12 DEF Live
    <2>3. EsSame'
      BY <1>1, <1>6, <1>10, <2>1, <2>2 DEF EsInv, EsSame
    <2>4. EsGone'
      BY <1>1, <1>6, <1>10, <2>1, <2>2 DEF EsInv, EsGone
    <2>5. EsIndexed'
      BY <1>1, <1>6, <1>10, <2>1, <2>2 DEF EsInv, EsIndexed
    <2>6. EsAdded'
      BY <1>1, <1>4, <1>6, <1>10 DEF EsInv, EsAdded
    <2>7. QED BY <1>6, <1>9, <2>3, <2>4, <2>5, <2>6 DEF EsInv
  <1>13. CASE call[c].kind = "index"
    <2>1. g = FileGroup /\ Busy(c) /\ ~(Busy(c)')
      BY <1>1, <1>2, <1>5, <1>13, IndexFacts DEF Busy, BusyAt
    <2>2. EsClean(FileGroup) => /\ Live(rows, FileGroup) = call[c].new
                                /\ EntriesOf(FileGroup) \subseteq Live(rows, FileGroup)
      BY <1>2, <1>13, <2>1 DEF EsInv, EsIndexed, VecInv, RowsOwn, EsClean
    <2>3. EsClean(FileGroup) => EntriesOf(FileGroup)' = Live(rows, FileGroup)
      BY <1>1, <1>4, <2>2 DEF EntriesOf, Live
    <2>4. EsSame'
      <3>1. ASSUME NEW h \in Groups, EsClean(h)',
                   \A d \in Callers : Busy(d)' => call'[d].group # h
            PROVE  EntriesOf(h)' = Live(rows, h)
        <4>1. CASE h = FileGroup
          BY <1>6, <2>3, <3>1, <4>1
        <4>2. CASE h # FileGroup
          <5>1. EntriesOf(h) = Live(rows, h)
            BY <1>1, <1>6, <1>10, <2>1, <3>1, <4>2 DEF EsInv, EsSame
          <5>2. QED BY <1>8, <2>1, <4>2, <5>1
        <4>3. QED BY <4>1, <4>2
      <3>2. QED BY <1>1, <3>1 DEF EsSame, Live
    <2>5. ASSUME NEW d \in Callers, Busy(d)', EsClean(call[d].group) PROVE FALSE
      <3>1. d # c /\ Busy(d)
        BY <1>10, <2>1, <2>5
      <3>2. /\ pc[d] # 0 /\ call[d].group \in Groups /\ Affects(call[d], call[d].group)
            /\ pc[c] # 0 /\ Affects(call[c], call[d].group)
        BY <1>2, <1>13, <3>1, BusyPlaces DEF Affects
      <3>3. QED BY <2>5, <3>1, <3>2, NotOverlapped DEF EsInv
    <2>6. EsGone'
      BY <1>1, <1>6, <2>5 DEF EsGone
    <2>7. EsIndexed'
      BY <1>1, <1>6, <2>5, IndexFacts DEF EsIndexed
    <2>8. EsAdded'
      BY <1>1, <1>4, <1>6, <1>10 DEF EsInv, EsAdded
    <2>9. QED BY <1>6, <1>9, <2>4, <2>6, <2>7, <2>8 DEF EsInv
  <1>14. QED BY <1>12, <1>13

(* A deletion drops the entries of the rows it has listed, which are all.   *)
LEMMA EsDropped ==
    ASSUME Inv, IdInv, EsInv, NEW c \in Callers, WriteStores(c), StepOf(c) = "dropEs"
    PROVE  EsInv'
  <1> DEFINE g == call[c].group
  <1>1. /\ Advance(c) /\ UNCHANGED <<rows, writes, call, overlap>> /\ Step(c)
        /\ es' = es \ call[c].listed
    BY DEF WriteStores, history, Step, Statement
  <1>2. call[c].kind \in {"delete", "cover"} /\ pc[c] = 4
    BY Places DEF Inv
  <1>3. pc'[c] = 5 /\ \A d \in Callers \ {c} : pc'[d] = pc[d]
    BY <1>1, <1>2 DEF Advance, Inv, TypeInv
  <1>4. /\ Alone' /\ \A h \in Groups : EsClean(h)' => EsClean(h)
        /\ FileGroup \in Groups /\ g \in Groups /\ call[c].listed \in SUBSET Nat
        /\ \A d \in Callers : call[d].group \in Groups
    BY <1>1, AloneKept, CleanBefore, CallTypes, QaGroupAssumption DEF EsInv
  <1>5. ASSUME NEW i \in call[c].listed, NEW h \in Groups, Mentions(i, h) PROVE h = g
    <2>1. Mentions(i, g)
      BY <1>2, <1>5 DEF Mentions
    <2>2. QED BY <1>4, <1>5, <2>1 DEF IdInv, OneGroup
  <1>6. ASSUME NEW h \in Groups, h # g PROVE EntriesOf(h)' = EntriesOf(h)
    <2>1. ASSUME NEW i \in call[c].listed, i \in DOMAIN rows PROVE rows[i].group # h
      BY <1>5, <1>6, <2>1 DEF Mentions
    <2>2. QED BY <1>1, <2>1 DEF EntriesOf
  <1>7. \A d \in Callers \ {c} : (Busy(d)' <=> Busy(d)) /\ (Added(d)' <=> Added(d))
    BY <1>1, <1>3 DEF Busy, Added
  <1>8. ~Busy(c) /\ Busy(c)' /\ ~(Added(c)') /\ Affects(call[c], g) /\ pc[c] # 0
    BY <1>1, <1>2, <1>3 DEF Busy, BusyAt, Added, AddedAt, Affects
  <1>9. ASSUME NEW d \in Callers \ {c}, Busy(d) \/ Added(d), call[d].group = g, EsClean(g)
        PROVE  FALSE
    BY <1>8, <1>9, BusyPlaces, NotOverlapped DEF EsInv
  <1>10. EsClean(g) => EntriesOf(g)' = {}
    <2> SUFFICES ASSUME EsClean(g) PROVE EntriesOf(g)' = {}
      OBVIOUS
    <2>1. EntriesOf(g) = Live(rows, g)
      BY <1>4, <1>8, <1>9 DEF EsInv, EsSame
    <2>2. Live(rows, g) = call[c].listed
      BY <1>2 DEF EsInv, Listed, EsClean
    <2>3. QED BY <1>1, <2>1, <2>2 DEF EntriesOf
  <1>11. EsSame'
    BY <1>1, <1>4, <1>6, <1>7, <1>8 DEF EsInv, EsSame, Live, EntriesOf
  <1>12. EsGone'
    <2>1. ASSUME NEW d \in Callers \ {c}, Busy(d), call[d].kind # "index", EsClean(call[d].group)
          PROVE  EntriesOf(call[d].group)' = {}
      <3>1. call[d].group # g
        BY <1>9, <2>1
      <3>2. QED BY <1>1, <1>4, <1>6, <2>1, <3>1 DEF EsInv, EsGone
    <2>2. QED BY <1>1, <1>4, <1>7, <1>10, <2>1 DEF EsGone, EntriesOf
  <1>13. EsAdded'
    <2>1. ASSUME NEW d \in Callers \ {c}, Added(d), EsClean(call[d].group)
          PROVE  call[d].new \subseteq es'
      <3>1. call[d].group # g
        BY <1>9, <2>1
      <3>2. \A i \in call[d].new : Mentions(i, call[d].group)
        BY DEF Mentions
      <3>3. call[d].new \cap call[c].listed = {}
        BY <1>4, <1>5, <3>1, <3>2
      <3>4. call[d].new \subseteq es
        BY <2>1 DEF EsInv, EsAdded
      <3>5. QED BY <1>1, <3>3, <3>4
    <2>2. QED BY <1>1, <1>4, <1>7, <1>8, <2>1 DEF EsAdded
  <1>14. EsIndexed'
    <2>1. ASSUME NEW d \in Callers, Busy(d)', call[d].kind = "index", EsClean(FileGroup)
          PROVE  EntriesOf(FileGroup)' \subseteq Live(rows, FileGroup)
      <3>1. d # c /\ Busy(d) /\ call[d].group = FileGroup
        BY <1>2, <1>7, <2>1, IndexFacts
      <3>2. FileGroup # g
        BY <1>9, <2>1, <3>1
      <3>3. QED BY <1>4, <1>6, <2>1, <3>1, <3>2 DEF EsInv, EsIndexed
    <2>2. QED BY <1>1, <1>4, <2>1 DEF EsIndexed, Live, EntriesOf
  <1>15. Listed'
    BY <1>1, <1>2, <1>3 DEF EsInv, Listed, Live
  <1>16. QED BY <1>4, <1>11, <1>12, <1>13, <1>14, <1>15 DEF EsInv

(* The end of a call: what the undo puts back belongs to a stranded group.  *)
LEMMA EndEs ==
    ASSUME Inv, IdInv, EsInv, NEW c \in Callers, Step(c), EndCall(c), UNCHANGED rows,
           es \subseteq es',
           \A i \in es' \ es : call[c].kind # "index" /\ i \in call[c].sample,
           Busy(c) \/ es' # es => call[c].group \in stranded'
    PROVE  EsInv'
  <1> DEFINE g == call[c].group
  <1>1. /\ Alone' /\ \A h \in Groups : EsClean(h)' => EsClean(h)
        /\ FileGroup \in Groups /\ g \in Groups /\ call[c].sample \in SUBSET Nat
        /\ \A d \in Callers : call[d].group \in Groups
    BY AloneKept, CleanBefore, CallTypes, QaGroupAssumption DEF EsInv
  <1>2. /\ call'[c] = NoCall /\ pc'[c] = 0
        /\ \A d \in Callers \ {c} : call'[d] = call[d] /\ pc'[d] = pc[d]
    BY DEF EndCall, Inv, TypeInv
  <1>3. ~(Busy(c)') /\ ~(Added(c)') /\ call'[c].kind = "none"
    BY <1>2 DEF Busy, BusyAt, Added, AddedAt, NoCall
  <1>4. \A d \in Callers \ {c} : (Busy(d)' <=> Busy(d)) /\ (Added(d)' <=> Added(d))
    BY <1>2 DEF Busy, Added
  <1>5. ASSUME NEW h \in Groups, EsClean(h)' PROVE EntriesOf(h)' = EntriesOf(h)
    <2>1. ASSUME NEW i \in es' \ es, i \in DOMAIN rows, rows[i].group = h PROVE FALSE
      <3>1. h # g
        BY <1>5, <2>1 DEF EsClean, Clean
      <3>2. Mentions(i, h) /\ Mentions(i, g) /\ i \in Nat
        BY <1>1, <2>1 DEF Mentions
      <3>3. QED BY <1>1, <3>1, <3>2 DEF IdInv, OneGroup
    <2>2. QED BY <2>1 DEF EntriesOf
  <1>6. \A h : Live(rows, h)' = Live(rows, h)
    BY DEF Live
  <1>7. EsSame'
    <2>1. ASSUME NEW h \in Groups, EsClean(h)', \A d \in Callers : Busy(d)' => call'[d].group # h
          PROVE  EntriesOf(h)' = Live(rows, h)'
      <3>1. Busy(c) => g # h
        BY <2>1 DEF EsClean, Clean
      <3>2. EntriesOf(h) = Live(rows, h)
        BY <1>1, <1>2, <1>4, <2>1, <3>1 DEF EsInv, EsSame
      <3>3. QED BY <1>5, <1>6, <2>1, <3>2
    <2>2. QED BY <2>1 DEF EsSame
  <1>8. EsGone'
    BY <1>1, <1>2, <1>3, <1>4, <1>5 DEF EsInv, EsGone
  <1>9. EsAdded'
    BY <1>1, <1>2, <1>3, <1>4 DEF EsInv, EsAdded
  <1>10. EsIndexed'
    BY <1>1, <1>2, <1>3, <1>4, <1>5, <1>6 DEF EsInv, EsIndexed
  <1>11. Listed'
    <2>1. overlap \subseteq overlap'
      BY DEF Step, Begin, Statement, List, SoftDelete, Insert, ReadIds, CheckIds, WriteStores,
             Commit, EndIndex, history, Fail, LockTimeout, Crash, Abort
    <2>2. QED BY <1>2, <1>3, <1>6, <2>1 DEF EsInv, Listed
  <1>12. QED BY <1>1, <1>7, <1>8, <1>9, <1>10, <1>11 DEF EsInv

(* A call that is no indexing commits its new rows and leaves none of the   *)
(* old ones alive; the index has the entries of the new rows alone.         *)
LEMMA CommitGroupEs ==
    ASSUME Inv, IdInv, EsInv, NEW c \in Callers, Commit(c), call[c].kind # "index"
    PROVE  EsInv'
  <1> DEFINE g == call[c].group
  <1>1. /\ rows' = View(c) /\ StepOf(c) = "commit" /\ Holding(c) /\ EndCall(c) /\ Step(c)
        /\ UNCHANGED <<es, overlap>>
    BY NextSteps DEF Commit, history, Inv, Step, Statement
  <1>2. \/ call[c].kind = "add" /\ pc[c] = 4
        \/ call[c].kind = "delete" /\ pc[c] = 5
        \/ call[c].kind = "cover" /\ pc[c] = 8
    BY <1>1, Places DEF Inv
  <1>3. /\ DOMAIN rows' = DOMAIN rows \cup DOMAIN writes[c]
        /\ \A i \in DOMAIN rows' :
             rows'[i] = IF i \in DOMAIN writes[c] THEN writes[c][i] ELSE rows[i]
    BY <1>1, ViewRows
  <1>4. /\ call'[c] = NoCall /\ \A d \in Callers \ {c} : call'[d] = call[d]
        /\ pc'[c] = 0 /\ \A d \in Callers \ {c} : pc'[d] = pc[d]
    BY <1>1 DEF EndCall, Inv, TypeInv
  <1>5. /\ Alone' /\ \A h \in Groups : EsClean(h)' => EsClean(h)
        /\ FileGroup \in Groups /\ g \in Groups /\ call[c].new \in SUBSET Nat
        /\ \A d \in Callers : call[d].group \in Groups
    BY <1>1, AloneKept, CleanBefore, CallTypes, QaGroupAssumption DEF EsInv
  <1>6. ~(Busy(c)') /\ ~(Added(c)') /\ call'[c].kind = "none"
    BY <1>4 DEF Busy, BusyAt, Added, AddedAt, NoCall
  <1>7. \A d \in Callers \ {c} : (Busy(d)' <=> Busy(d)) /\ (Added(d)' <=> Added(d))
    BY <1>4 DEF Busy, Added
  <1>8. \A i \in DOMAIN writes[c] : writes[c][i].group = g
    BY DEF IdInv, Marked
  <1>9. ASSUME NEW h \in Groups, h # g
        PROVE  EntriesOf(h)' = EntriesOf(h) /\ Live(rows, h)' = Live(rows, h)
    <2>1. \A i \in DOMAIN writes[c] \cap DOMAIN rows : rows[i].group = g
      BY <1>8 DEF Inv, SafeInv, SameGroup
    <2>2. QED BY <1>1, <1>3, <1>8, <1>9, <2>1 DEF Live, EntriesOf
  <1>10. pc[c] # 0 /\ Affects(call[c], g)
    BY <1>2 DEF Affects
  <1>11. ASSUME NEW d \in Callers \ {c}, Busy(d) \/ Added(d), EsClean(call[d].group)
         PROVE  call[d].group # g
    BY <1>10, <1>11, BusyPlaces, NotOverlapped DEF EsInv
  <1>12. EsClean(g) => {i \in es : i \in DOMAIN rows' /\ rows'[i].group = g} = Live(rows', g)
    <2> SUFFICES ASSUME EsClean(g), NEW i \in DOMAIN rows', rows'[i].group = g
                 PROVE  i \in es <=> rows'[i].live
      BY <1>3, <1>5 DEF Live, Inv, TypeInv
    <2>1. i \in DOMAIN writes[c] /\ rows'[i] = writes[c][i]
      BY <1>1, <1>3 DEF EsClean, Clean, Inv, SafeInv, Held
    <2>2. writes[c][i].live <=> i \in call[c].new
      BY <1>1, <1>8, <2>1 DEF IdInv, Inserted
    <2>3. i \in call[c].new => i \in es
      <3>1. CASE call[c].kind = "delete"
        <4>1. pc[c] \in EmptyAt[call[c].kind]
          BY <1>2, <3>1 DEF EmptyAt
        <4>2. QED BY <4>1 DEF IdInv, NewIds
      <3>2. CASE call[c].kind # "delete"
        <4>1. Added(c)
          BY <1>2, <3>2 DEF Added, AddedAt
        <4>2. QED BY <4>1 DEF EsInv, EsAdded
      <3>3. QED BY <3>1, <3>2
    <2>4. ASSUME i \in es, i \notin call[c].new PROVE FALSE
      <3>1. call[c].kind # "add" /\ i \in DOMAIN rows
        BY <1>1, <2>1, <2>4 DEF IdInv, Inserted
      <3>2. rows[i].group = g
        BY <1>8, <2>1, <3>1 DEF Inv, SafeInv, SameGroup
      <3>3. Busy(c)
        BY <1>2, <3>1 DEF Busy, BusyAt
      <3>4. EntriesOf(g) = {}
        BY <3>3 DEF EsInv, EsGone
      <3>5. QED BY <2>4, <3>1, <3>2, <3>4 DEF EntriesOf
    <2>5. QED BY <2>1, <2>2, <2>3, <2>4
  <1>13. EsSame'
    <2>1. ASSUME NEW h \in Groups, EsClean(h)', \A d \in Callers : Busy(d)' => call'[d].group # h
          PROVE  EntriesOf(h)' = Live(rows, h)'
      <3>1. CASE h = g
        <4>1. {i \in es : i \in DOMAIN rows' /\ rows'[i].group = h} = Live(rows', h)
          BY <1>5, <1>12, <2>1, <3>1
        <4>2. QED BY <1>1, <4>1 DEF EntriesOf, Live
      <3>2. CASE h # g
        <4>1. EntriesOf(h) = Live(rows, h)
          BY <1>4, <1>5, <1>7, <2>1, <3>2 DEF EsInv, EsSame
        <4>2. QED BY <1>9, <3>2, <4>1
      <3>3. QED BY <3>1, <3>2
    <2>2. QED BY <2>1 DEF EsSame
  <1>14. EsGone'
    <2>1. ASSUME NEW d \in Callers \ {c}, Busy(d), call[d].kind # "index", EsClean(call[d].group)
          PROVE  EntriesOf(call[d].group)' = {}
      BY <1>4, <1>5, <1>9, <1>11, <2>1 DEF EsInv, EsGone
    <2>2. QED BY <1>4, <1>5, <1>6, <1>7, <2>1 DEF EsGone, EntriesOf
  <1>15. EsAdded'
    BY <1>1, <1>4, <1>5, <1>6, <1>7 DEF EsInv, EsAdded
  <1>16. EsIndexed'
    <2>1. ASSUME NEW d \in Callers \ {c}, Busy(d), call[d].kind = "index", EsClean(FileGroup)
          PROVE  EntriesOf(FileGroup)' \subseteq Live(rows, FileGroup)'
      <3>1. FileGroup # g
        BY <1>11, <2>1, IndexFacts
      <3>2. EntriesOf(FileGroup) \subseteq Live(rows, FileGroup)
        BY <2>1 DEF EsInv, EsIndexed
      <3>3. QED BY <1>5, <1>9, <3>1, <3>2
    <2>2. QED BY <1>4, <1>5, <1>6, <1>7, <2>1 DEF EsIndexed
  <1>17. Listed'
    <2>1. ASSUME NEW d \in Callers \ {c}, call[d].kind \in {"delete", "cover"}, pc[d] > 1,
                 call[d].group \notin overlap
          PROVE  Live(rows', call[d].group) = call[d].listed
      <3>1. pc[d] # 0 /\ Affects(call[d], call[d].group) /\ call[d].group \in Groups
        BY <1>5, <2>1 DEF Affects
      <3>2. call[d].group # g
        BY <1>10, <2>1, <3>1, NotOverlapped DEF EsInv
      <3>3. \A h \in Groups \ {g} : Live(rows', h) = Live(rows, h)
        BY <1>9 DEF Live
      <3>4. QED BY <2>1, <3>1, <3>2, <3>3 DEF EsInv, Listed
    <2>2. QED BY <1>1, <1>4, <1>6, <2>1 DEF Listed, Live
  <1>18. QED BY <1>5, <1>13, <1>14, <1>15, <1>16, <1>17 DEF EsInv

(* An indexing that is not doomed commits into a group without rows.        *)
LEMMA CommitIndexEs ==
    ASSUME Inv, IdInv, VecInv, VecInv', EsInv, NEW c \in Callers, Commit(c),
           call[c].kind = "index"
    PROVE  EsInv'
  <1>1. /\ rows' = View(c) /\ StepOf(c) = "commit" /\ Holding(c) /\ Advance(c) /\ Step(c)
        /\ UNCHANGED <<es, call, overlap, stranded, bare>>
    BY NextSteps DEF Commit, history, Inv, Step, Statement
  <1>2. pc[c] = 4 /\ call[c].group = FileGroup
    BY <1>1, Places, IndexFacts DEF Inv
  <1>3. /\ DOMAIN rows' = DOMAIN rows \cup DOMAIN writes[c]
        /\ \A i \in DOMAIN rows' :
             rows'[i] = IF i \in DOMAIN writes[c] THEN writes[c][i] ELSE rows[i]
    BY <1>1, ViewRows
  <1>4. pc'[c] = 5 /\ \A d \in Callers \ {c} : pc'[d] = pc[d]
    BY <1>1, <1>2 DEF Advance, Inv, TypeInv
  <1>5. /\ Alone' /\ \A h \in Groups : EsClean(h)' => EsClean(h)
        /\ FileGroup \in Groups /\ \A d \in Callers : call[d].group \in Groups
    BY <1>1, AloneKept, CleanBefore, CallTypes, QaGroupAssumption DEF EsInv
  <1>6. Busy(c)' /\ ~(Added(c)') /\ pc[c] # 0 /\ \A h : Affects(call[c], h)
    BY <1>1, <1>2, <1>4 DEF Busy, BusyAt, Added, AddedAt, Affects
  <1>7. \A d \in Callers \ {c} : (Busy(d)' <=> Busy(d)) /\ (Added(d)' <=> Added(d))
    BY <1>1, <1>4 DEF Busy, Added
  <1>8. ASSUME NEW d \in Callers \ {c}, pc[d] # 0, call[d].group \notin overlap PROVE FALSE
    BY <1>5, <1>6, <1>8, NotOverlapped DEF EsInv, Affects
  <1>9. ASSUME NEW d \in Callers \ {c}, Busy(d) \/ Added(d), EsClean(call[d].group) PROVE FALSE
    BY <1>8, <1>9, BusyPlaces DEF EsClean
  <1>10. Listed'
    <2>1. ASSUME NEW d \in Callers, call[d].kind \in {"delete", "cover"}, pc'[d] > 1
          PROVE  d # c /\ pc[d] # 0
      BY <1>4, <2>1
    <2>2. QED BY <1>1, <1>8, <2>1 DEF Listed
  <1>11. EsGone'
    BY <1>1, <1>5, <1>7, <1>9 DEF EsGone
  <1>12. EsAdded'
    BY <1>1, <1>5, <1>6, <1>7, <1>9 DEF EsAdded
  <1>13. ASSUME \E h \in Groups : EsClean(h)' PROVE call[c].listed = call[c].new
    BY <1>1, <1>4, <1>13 DEF EsClean, Clean, Doomed
  <1>14. ASSUME NEW i \in DOMAIN writes[c], call[c].listed = call[c].new
         PROVE  writes[c][i].group = FileGroup /\ i \notin DOMAIN rows /\ i \in call[c].new
    <2>1. i \in call[c].new
      BY <1>2, <1>14 DEF IdInv, Indexing
    <2>2. i \in Nat /\ writes[c][i].group \in Groups
      BY <1>14 DEF Inv, TypeInv, Row
    <2>3. Mentions(i, writes[c][i].group) /\ Mentions(i, FileGroup)
      BY <1>2, <1>14, <2>1 DEF Mentions
    <2>4. writes[c][i].group = FileGroup
      BY <1>5, <2>2, <2>3 DEF IdInv, OneGroup
    <2>5. writes[c][i].live
      BY <1>1, <1>2, <1>14, <2>1, <2>4 DEF IdInv, Inserted
    <2>6. QED BY <1>14, <2>1, <2>4, <2>5 DEF IdInv, Marked
  <1>15. EsSame'
    <2>1. ASSUME NEW h \in Groups, EsClean(h)', \A d \in Callers : Busy(d)' => call'[d].group # h
          PROVE  EntriesOf(h)' = Live(rows, h)'
      <3>1. h # FileGroup
        BY <1>1, <1>2, <1>6, <2>1
      <3>2. call[c].listed = call[c].new
        BY <1>13, <2>1
      <3>3. EntriesOf(h)' = EntriesOf(h) /\ Live(rows, h)' = Live(rows, h)
        BY <1>1, <1>3, <1>14, <3>1, <3>2 DEF EntriesOf, Live
      <3>4. ~Busy(c)
        BY <1>2 DEF Busy, BusyAt
      <3>5. EntriesOf(h) = Live(rows, h)
        BY <1>1, <1>5, <1>7, <2>1, <3>4 DEF EsInv, EsSame
      <3>6. QED BY <3>3, <3>5
    <2>2. QED BY <2>1 DEF EsSame
  <1>16. EsIndexed'
    <2>1. ASSUME NEW d \in Callers, Busy(d)', call'[d].kind = "index", EsClean(FileGroup)'
          PROVE  EntriesOf(FileGroup)' \subseteq Live(rows, FileGroup)'
      <3>1. call[c].listed = call[c].new /\ EsClean(FileGroup)
        BY <1>5, <1>13, <2>1
      <3>2. Live(rows, FileGroup)' = call[c].new
        <4>1. Clean(FileGroup)' /\ call'[c].kind = "index" /\ pc'[c] > 4
          BY <1>1, <1>4, <2>1 DEF EsClean
        <4>2. QED BY <1>1, <4>1 DEF VecInv, RowsOwn
      <3>3. ASSUME NEW i \in DOMAIN rows', rows'[i].group = FileGroup
            PROVE  i \in call[c].new
        <4>1. i \in DOMAIN writes[c]
          BY <1>1, <1>2, <1>3, <3>1, <3>3 DEF EsClean, Clean, Inv, SafeInv, Held
        <4>2. QED BY <1>14, <3>1, <4>1
      <3>4. EntriesOf(FileGroup)' \subseteq call[c].new
        BY <3>3 DEF EntriesOf
      <3>5. QED BY <3>2, <3>4
    <2>2. QED BY <2>1 DEF EsIndexed
  <1>17. QED BY <1>5, <1>10, <1>11, <1>12, <1>15, <1>16 DEF EsInv

LEMMA PurgeEs == ASSUME Inv, IdInv, EsInv, Purge PROVE EsInv'
  <1>1. /\ UNCHANGED <<es, call, pc, stranded, bare, overlap>>
        /\ DOMAIN rows' \subseteq DOMAIN rows
        /\ \A i \in DOMAIN rows' : rows'[i] = rows[i]
        /\ \A i \in DOMAIN rows \ DOMAIN rows' : ~rows[i].live
    <2>1. CASE SelectBatch
      BY <2>1 DEF SelectBatch, history
    <2>2. CASE DeleteBatch
      BY <2>2 DEF DeleteBatch, history, IdInv, Marked
    <2>3. QED BY <2>1, <2>2 DEF Purge
  <1>2. \A h : Live(rows, h)' = Live(rows, h) /\ Live(rows', h) = Live(rows, h)
    BY <1>1 DEF Live
  <1>3. \A h : EntriesOf(h)' \subseteq EntriesOf(h)
    BY <1>1 DEF EntriesOf
  <1>4. \A h : (Clean(h)' <=> Clean(h)) /\ (EsClean(h)' <=> EsClean(h))
    BY <1>1 DEF EsClean, Clean, Doomed
  <1>5. \A c \in Callers : (Busy(c)' <=> Busy(c)) /\ (Added(c)' <=> Added(c))
    BY <1>1 DEF Busy, Added
  <1>6. EsSame'
    <2>1. ASSUME NEW h, EntriesOf(h) = Live(rows, h) PROVE EntriesOf(h)' = Live(rows, h)'
      <3>1. Live(rows, h) \subseteq DOMAIN rows'
        BY <1>1 DEF Live
      <3>2. \A i \in EntriesOf(h) : i \in EntriesOf(h)'
        BY <1>1, <2>1, <3>1 DEF EntriesOf
      <3>3. QED BY <1>2, <1>3, <2>1, <3>2
    <2>2. QED BY <1>1, <1>4, <1>5, <2>1 DEF EsInv, EsSame
  <1>7. EsGone'
    BY <1>1, <1>3, <1>4, <1>5 DEF EsInv, EsGone
  <1>8. EsAdded'
    BY <1>1, <1>4, <1>5 DEF EsInv, EsAdded
  <1>9. EsIndexed'
    BY <1>1, <1>2, <1>3, <1>4, <1>5 DEF EsInv, EsIndexed
  <1>10. Alone'
    BY <1>1 DEF EsInv, Alone, Touches, Active
  <1>11. Listed'
    BY <1>1, <1>2 DEF EsInv, Listed
  <1>12. QED BY <1>6, <1>7, <1>8, <1>9, <1>10, <1>11 DEF EsInv

LEMMA NextEs ==
    Inv /\ IdInv /\ VecInv /\ VecInv' /\ EsInv /\ [Next]_vars => EsInv'
  <1> SUFFICES ASSUME Inv, IdInv, VecInv, VecInv', EsInv, [Next]_vars PROVE EsInv'
    OBVIOUS
  <1>1. ASSUME NEW c \in Callers, NEW k \in Kinds, NEW g \in Groups, Begin(c, k, g)
        PROVE  EsInv'
    BY <1>1, BeginEs
  <1>2. ASSUME NEW c \in Callers, Statement(c) PROVE EsInv'
    <2>1. Step(c)
      BY <1>2 DEF Step
    <2>2. CASE EndIndex(c)
      <3>1. call[c].kind = "index" /\ pc[c] = 8
        BY <2>2, Places DEF EndIndex, Inv
      <3>2. ~Busy(c) /\ EndCall(c) /\ UNCHANGED <<rows, es>>
        BY <2>2, <3>1 DEF Busy, BusyAt, EndIndex, stores
      <3>3. QED BY <2>1, <3>2, EndEs
    <2>3. CASE CheckIds(c)
      <3>1. UNCHANGED <<rows, es>>
        BY <2>3 DEF CheckIds, stores
      <3>2. CASE EndCall(c) /\ stranded' = Groups
        BY <2>1, <3>1, <3>2, CallTypes, EndEs
      <3>3. CASE Advance(c)
        BY <2>3, <3>3, ProgramEs
      <3>4. QED BY <2>3, <3>2, <3>3 DEF CheckIds
    <2>4. CASE WriteStores(c)
      BY <2>4, ProgramEs, EsWritten, EsDropped DEF WriteStores
    <2>5. CASE Commit(c)
      BY <2>5, CommitGroupEs, CommitIndexEs
    <2>6. QED BY <1>2, <2>2, <2>3, <2>4, <2>5, ListEs, ProgramEs DEF Statement
  <1>3. ASSUME NEW c \in Callers, Fail(c) \/ LockTimeout(c) \/ Crash(c) PROVE EsInv'
    <2>1. EndCall(c) /\ UNCHANGED rows /\ Step(c)
      BY <1>3 DEF Fail, LockTimeout, Crash, Abort, stores, Step
    <2>2. call[c].group \in Groups /\ Affects(call[c], call[c].group)
      BY CallTypes DEF Affects
    <2>3. Busy(c) => call[c].group \in stranded'
      BY <1>3, <2>2, DirtyIsHalf DEF Fail, LockTimeout, Crash, Abort, Inv
    <2>4. CASE es' = es
      BY <2>1, <2>3, <2>4, EndEs
    <2>5. CASE es' # es
      <3>1. es' = es \cup Undo(c) /\ Undo(c) # {}
        BY <1>3, <2>5 DEF Fail, LockTimeout, Crash, Abort, stores
      <3>2. call[c].group \in stranded'
        BY <1>3, <2>2, <2>5, <3>1 DEF Fail, LockTimeout, Crash, Abort, stores
      <3>3. StepOf(c) \in {"dropVec", "dropEs"} /\ Undo(c) = call[c].sample
        BY <3>1 DEF Undo
      <3>4. call[c].kind # "index"
        BY <3>3, Places DEF Inv
      <3>5. QED BY <2>1, <3>1, <3>2, <3>3, <3>4, EndEs
    <2>6. QED BY <2>4, <2>5
  <1>4. CASE Purge
    BY <1>4, PurgeEs
  <1>5. CASE UNCHANGED vars
    BY <1>5
    DEF vars, EsInv, Alone, Touches, Active, Listed, EsSame, EsGone, EsAdded, EsIndexed,
        EntriesOf, Live, EsClean, Clean, Doomed, Busy, Added
  <1>6. QED BY <1>1, <1>2, <1>3, <1>4, <1>5 DEF Next

(* EsMatchesRows of QaGroup: of a group on which no calls ever overlapped,  *)
(* and none failed half-way, the search index has the entries of its live   *)
(* rows once no call is at work on it: what a call lists before it has      *)
(* locked anything is still what it finds when it drops the entries.        *)
THEOREM EsMatchesRowsStands == Spec => []EsMatchesRows
  <1>1. IdInv /\ EsInv /\ Inv => EsMatchesRows
    <2> SUFFICES ASSUME IdInv, EsInv, Inv, NEW g \in Groups \ overlap, Quiet(g)
                 PROVE  Live(rows, g) = EntriesOf(g)
      BY DEF EsMatchesRows, EntriesOf
    <2>1. \A c \in Callers : pc[c] # 0 => ~Affects(call[c], g)
      BY DEF Quiet, Touches, Active
    <2>2. ~Doomed
      BY <2>1 DEF Doomed, Affects
    <2>3. ASSUME NEW c \in Callers, Busy(c) PROVE call[c].group # g
      BY <2>1, <2>3, BusyPlaces DEF Affects
    <2>4. g \notin bare
      BY DEF EsInv, Alone
    <2>5. QED BY <2>2, <2>3, <2>4 DEF EsClean, Clean, Quiet, EsInv, EsSame
  <1>2. QED BY InitInv, InitIds, InitEs, NextInv, NextVec, NextEs, <1>1, PTL DEF Spec

==============================================================================
