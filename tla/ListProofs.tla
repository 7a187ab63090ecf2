------------------------------ MODULE ListProofs ------------------------------
(***************************************************************************)
(* Proofs that the linked lists of List.tla are the sequences of           *)
(* ListSpec.tla, for any number of lists and nodes and any indices.        *)
(*                                                                         *)
(* The invariant says that there are sequences, one for each list, of      *)
(* which the pointers and the lengths are a picture (Represents).  What    *)
(* each helper of the code does to such a picture is proved in             *)
(* ListRingProofs.tla; here are the steps of the operations, which may be  *)
(* calls that free one node after the other, or move or copy some of a     *)
(* list at each turn of their loop.                                        *)
(***************************************************************************)
EXTENDS ListRingProofs

-----------------------------------------------------------------------------
(* The inductive invariant *)

\* A call that frees the nodes of its list, and the lists that are cut open so.
Cuts(c) == c.op = "clear" /\ c.begun
Open(cs) == {cs[k].list : k \in {j \in 1..Len(cs) : Cuts(cs[j])}}

Holds(s) == \A l \in Heads : \A n \in ToSet(s[l]) : MayHold(l, n)

\* Calls within calls clear lists, those of the removed nodes and of the value of
\* the node that the call below is at.
Stack(cs, s) ==
  /\ \A k \in 2..Len(cs) : cs[k].op = "clear"
  /\ \A k \in 1..Len(cs) : Cuts(cs[k]) => cs[k].idx.node = At(s, cs[k].list, 1)
  /\ \A j \in 1..Len(cs), k \in 1..Len(cs) : j < k /\ Cuts(cs[j]) =>
       /\ cs[j].idx.node \in Nodes \ MapNodes /\ ~Plain(cs[j].idx.node)
       /\ cs[k].list \in {Stale, OwnedList[cs[j].idx.node]}

\* A call that copies or moves is at place p of a list, and has the nodes from there
\* on before it.
Ahead(c, s, p) ==
  /\ p \in 0..Len(s[c.idx.host]) /\ c.idx.node = At(s, c.idx.host, p)
  /\ c.plan = c.taken \o Later(s[c.idx.host], p, c.idx.stride)

CopyOK(c, s) ==
  /\ c.idx.host # c.list /\ c.idx.stride # 0
  /\ \E p \in 0..Len(s[c.idx.host]) : Ahead(c, s, p)

\* The nodes of a call that moves: those before it, or none when it has moved the
\* one node of an index that does not go on; within a list it is never in place.
Awaited(c, s) ==
  \/ c.idx.stride = 0 /\ c.taken # <<>> /\ c.plan = c.taken
  \/ /\ c.idx.stride # 0 \/ c.taken = <<>>
     /\ \E p \in 0..Len(s[c.idx.host]) :
          /\ Ahead(c, s, p)
          /\ p # 0 /\ c.idx.host = c.self.host =>
               c.idx.stride = 0 /\ c.self.node \notin {c.idx.node, At(s, c.idx.host, p + 1)}

\* The nodes that were popped are the last ones of the removed ones.
Behind(c, s) ==
  /\ c.self = [host |-> Stale, node |-> Stale, stride |-> 0]
  /\ Len(c.taken) <= Len(s[Stale])
  /\ c.taken = SubSeq(s[Stale], Len(s[Stale]) - Len(c.taken) + 1, Len(s[Stale]))

MoveOK(c, s) ==
  /\ \E q \in 0..Len(s[c.self.host]) : c.self.node = At(s, c.self.host, q)
  /\ \A n \in ToSet(c.plan) : MayHold(c.self.host, n)
  /\ Awaited(c, s)
  /\ c.op = "assign" => c.self.host = Temp
  /\ c.op = "pop" => Behind(c, s)

\* The call of the program itself.
Bottom(cs, s) ==
  cs # <<>> =>
   /\ cs[1].op \in {"insert", "pop", "assign"} => Len(cs) = 1 /\ MoveOK(cs[1], s)
   /\ cs[1].op = "copy" => /\ CopyOK(cs[1], s)
                           /\ Len(cs) = 1 \/ (Len(cs) = 2 /\ cs[2].list = cs[1].list)
                           /\ \A n \in ToSet(s[cs[1].list]) : Plain(n)
   /\ cs[1].op \in {"assign", "append"} => cs[1].list \in Lists

Lengths(len, gs, s, open) ==
  \A l \in Heads \ (gs \cup open) : len[l] = -1 \/ len[l] = Len(s[l])

\* s is what the lists hold.
Represents(s) ==
  /\ TypeOK
  /\ Shape(mem, s, Open(calls))
  /\ Holds(s)
  /\ Stack(calls, s)
  /\ Bottom(calls, s)
  /\ Lengths(length, guessed, s, Open(calls))

IInv == \E s : Represents(s)

\* A first node that is in the list, and what the values of nodes own.
LEMMA FirstNode ==
  ASSUME NEW s, Apart(s), NEW l \in Heads, NEW n \in Nodes, n = At(s, l, 1)
  PROVE  n \in ToSet(s[l]) /\ s[l] # <<>> /\ 1 \in 1..Len(s[l])
<1>1. n # l
  BY HeadsAssumption
<1>2. 1 \in 1..Len(s[l]) /\ n = s[l][1] /\ s[l] \in Seq(Nodes)
  BY <1>1 DEF At, Apart
<1>3. s[l] # <<>>
  BY <1>2
<1>4. n \in ToSet(s[l])
  BY <1>2, Members
<1>5. QED
  BY <1>2, <1>3, <1>4

\* Above a call that frees the nodes of a list no call is about to free them too, and
\* none is in a list whose nodes have lists to be deleted.
LEMMA UpperCalls ==
  ASSUME RemoveNested = FALSE, NEW s, Apart(s), Holds(s), NEW cs \in Seq(Call), Stack(cs, s),
         NEW j \in 1..Len(cs), NEW k \in 1..Len(cs), j < k, Cuts(cs[j])
  PROVE  /\ cs[j].list # cs[k].list
         /\ \A n \in ToSet(s[cs[k].list]) : Plain(n) \/ n \in MapNodes
<1> DEFINE n == cs[j].idx.node
           l == cs[j].list
           h == cs[k].list
<1>1. cs[j] \in Call /\ cs[k] \in Call
  BY LenProperties
<1>2. l \in Heads /\ h \in Heads
  BY <1>1 DEF Call
<1>3. n \in Nodes \ MapNodes /\ ~Plain(n) /\ h \in {Stale, OwnedList[n]} /\ n = At(s, l, 1)
  BY DEF Stack
<1> HIDE DEF n, l, h
<1>4. n \in ToSet(s[l])
  BY <1>2, <1>3, FirstNode
<1>5. MayHold(l, n)
  BY <1>2, <1>4 DEF Holds
<1>6. l \in Lists /\ ~Owned(l)
  BY <1>3, <1>5 DEF MayHold
<1>7. l # h
  BY <1>3, <1>6, HeadsAssumption DEF Owned
<1>8. ASSUME NEW x \in ToSet(s[h]) PROVE Plain(x) \/ x \in MapNodes
  <2>1. MayHold(h, x)
    BY <1>2 DEF Holds
  <2>2. QED
    BY <1>3, <2>1, HeadsAssumption DEF MayHold, Owned
<1>9. QED
  BY <1>7, <1>8 DEF l, h

\* The nodes of a list are read from its first node on, or from the one that is to be
\* freed next.
NodesOf(m, cs, l) ==
  LET at == {k \in 1..Len(cs) : cs[k].op = "clear" /\ cs[k].list = l /\ cs[k].begun}
  IN  Walk(m, IF at = {} THEN m.next[l] ELSE cs[Max(at)].idx.node)

LEMMA WholePart ==
  ASSUME NEW S, NEW e \in Seq(S)
  PROVE  SubSeq(e, 1, Len(e)) = e
<1>1. Len(e) \in Nat
  BY LenProperties
<1>2. QED
  BY <1>1

LEMMA NodesListed ==
  ASSUME RemoveNested = FALSE, NEW m, NEW s, NEW cs \in Seq(Call), Shape(m, s, Open(cs)),
         Holds(s), Stack(cs, s), NEW l \in Heads
  PROVE  NodesOf(m, cs, l) = s[l]
<1> DEFINE at == {k \in 1..Len(cs) : cs[k].op = "clear" /\ cs[k].list = l /\ cs[k].begun}
<1>1. Apart(s) /\ s[l] \in Seq(Nodes) /\ Len(s[l]) \in Nat /\ Len(cs) \in Nat
  BY Places, LenProperties DEF Shape
<1>2. Walk(m, At(s, l, 1)) = s[l]
  <2>1. 1 \in 1..(Len(s[l]) + 1)
    BY <1>1
  <2>2. QED
    BY <1>1, <2>1, WalkPlace, WholePart
<1>3. CASE at = {}
  <2>1. l \notin Open(cs)
    BY <1>3 DEF Open, Cuts
  <2>2. m.next[l] = At(s, l, 1)
    BY <2>1, OpenShape
  <2>3. QED
    BY <1>2, <1>3, <2>2 DEF NodesOf
<1>4. CASE at # {}
  <2>1. PICK k \in at : TRUE
    BY <1>4
  <2>2. ASSUME NEW j \in at PROVE j = k
    <3>1. j \in 1..Len(cs) /\ k \in 1..Len(cs) /\ Cuts(cs[j]) /\ Cuts(cs[k]) /\ cs[j].list = cs[k].list
      BY <2>1 DEF Cuts
    <3>2. ~(j < k) /\ ~(k < j)
      BY <1>1, <3>1, UpperCalls
    <3>3. QED
      BY <3>1, <3>2
  <2>3. at = {k} /\ k \in 1..Len(cs)
    BY <2>1, <2>2
  <2>4. Max(at) = k
    BY <2>3 DEF Max
  <2>5. cs[k].idx.node = At(s, l, 1)
    BY <2>1 DEF Stack, Cuts
  <2>6. QED
    BY <1>2, <1>4, <2>4, <2>5 DEF NodesOf
<1>5. QED
  BY <1>3, <1>4

LEMMA ElementsListed ==
  ASSUME RemoveNested = FALSE, NEW s, Represents(s), NEW l \in Heads
  PROVE  Elements(l) = s[l]
<1>1. Elements(l) = NodesOf(mem, calls, l)
  BY DEF Elements, NodesOf
<1>2. QED
  BY <1>1, NodesListed DEF Represents, TypeOK

\* The nodes that an index at place p stands for.
LEMMA SelectedPlace ==
  ASSUME RemoveNested = FALSE, NEW s, Represents(s), NEW idx \in Index,
         NEW p \in 0..Len(s[idx.host]), idx.node = At(s, idx.host, p)
  PROVE  Selected(idx) = Later(s[idx.host], p, idx.stride)
<1> DEFINE l == idx.host
<1>1. l \in Heads /\ Elements(l) = s[l] /\ Apart(s)
  BY ElementsListed DEF Index, Represents, Shape
<1>2. CASE p \notin 1..Len(s[l])
  <2>1. ~IsValid(idx)
    BY <1>2 DEF At, IsValid
  <2>2. QED
    BY <1>2, <2>1 DEF Selected, Later
<1>3. CASE p \in 1..Len(s[l])
  <2>1. idx.node = s[l][p] /\ idx.node \in Nodes
    BY <1>1, <1>3, Places
  <2>2. IsValid(idx)
    BY <1>1, <2>1, HeadsAssumption DEF IsValid
  <2>3. \A k \in 1..Len(s[l]) : s[l][k] = idx.node <=> k = p
    BY <1>1, <1>3, <2>1, Once
  <2> DEFINE q == CHOOSE k \in 1..Len(s[l]) : s[l][k] = idx.node
  <2>4. q = p
    BY <1>3, <2>3
  <2>5. Selected(idx) = Stepped(s[l], q, idx.stride)
    BY <1>1, <2>2 DEF Selected
  <2> HIDE DEF q
  <2>6. QED
    BY <1>3, <2>4, <2>5 DEF Later
<1>4. QED
  BY <1>2, <1>3

\* Any position is that of a place before which nodes may be put, and of one of a node or
\* of the list itself.
LEMMA AnyPlace ==
  ASSUME NEW s, Apart(s), NEW l \in Heads, NEW q \in Int
  PROVE  /\ \E p \in 1..(Len(s[l]) + 1) : At(s, l, p) = At(s, l, q)
         /\ \E p \in 0..Len(s[l]) : At(s, l, p) = At(s, l, q)
<1>1. Len(s[l]) \in Nat
  BY Places
<1>2. CASE q \in 1..Len(s[l])
  BY <1>1, <1>2
<1>3. CASE q \notin 1..Len(s[l])
  <2>1. At(s, l, q) = l /\ At(s, l, Len(s[l]) + 1) = l /\ At(s, l, 0) = l
    BY <1>1, <1>3 DEF At
  <2>2. Len(s[l]) + 1 \in 1..(Len(s[l]) + 1) /\ 0 \in 0..Len(s[l])
    BY <1>1
  <2>3. QED
    BY <2>1, <2>2
<1>4. QED
  BY <1>2, <1>3

\* The node a position stands for.
LEMMA IndexNode ==
  ASSUME NEW m, NEW s, Shape(m, s, {}), NEW l \in Heads, NEW pos \in Int, NEW st
  PROVE  /\ \E p \in 1..(Len(s[l]) + 1) : IndexAt(m, l, pos, st).node = At(s, l, p)
         /\ \E p \in 0..Len(s[l]) : IndexAt(m, l, pos, st).node = At(s, l, p)
         /\ IndexAt(m, l, pos, st).host = l /\ IndexAt(m, l, pos, st).stride = st
         /\ IndexAt(m, l, pos, st) = [host |-> l, node |-> IndexAt(m, l, pos, st).node, stride |-> st]
         /\ IndexAt(m, l, pos, st).node \in Links
<1> DEFINE q == IF pos < 0 THEN Len(s[l]) + 1 + pos ELSE pos
<1>1. Apart(s) /\ Len(s[l]) \in Nat /\ l \notin {}
  BY Places DEF Shape
<1>2. IndexAt(m, l, pos, st) = [host |-> l, node |-> At(s, l, q), stride |-> st]
  BY <1>1, IndexPlace
<1>3. q \in Int
  BY <1>1
<1> HIDE DEF q
<1>4. At(s, l, q) \in Links
  BY <1>1, Places
<1>5. /\ \E p \in 1..(Len(s[l]) + 1) : At(s, l, p) = At(s, l, q)
      /\ \E p \in 0..Len(s[l]) : At(s, l, p) = At(s, l, q)
  BY <1>1, <1>3, AnyPlace
<1>6. QED
  BY <1>2, <1>4, <1>5

\* An index of the program, when no call is on its way.
LEMMA IndicesPlaces ==
  ASSUME NEW s, Shape(mem, s, {}), NEW idx \in Indices
  PROVE  /\ idx \in Index /\ idx.host \in Lists \cup {Stale}
         /\ \E p \in 0..Len(s[idx.host]) : idx.node = At(s, idx.host, p)
<1>1. PICK l \in Lists \cup {Stale}, pos \in Positions, st \in Strides : idx = IndexAt(mem, l, pos, st)
  BY DEF Indices
<1>2. l \in Heads /\ pos \in Int /\ st \in Int
  BY NumbersAssumption DEF Heads
<1>3. /\ idx.host = l /\ idx.node \in Links /\ idx = [host |-> l, node |-> idx.node, stride |-> st]
      /\ \E p \in 0..Len(s[l]) : idx.node = At(s, l, p)
  BY <1>1, <1>2, IndexNode
<1>4. QED
  BY <1>2, <1>3 DEF Index

-----------------------------------------------------------------------------
(* The stack of calls *)

\* The call on top is replaced, or returns; calls are made.
LEMMA Replacing ==
  ASSUME NEW cs \in Seq(Call), cs # <<>>, NEW c \in Call
  PROVE  /\ [cs EXCEPT ![Len(cs)] = c] \in Seq(Call)
         /\ Len([cs EXCEPT ![Len(cs)] = c]) = Len(cs)
         /\ [cs EXCEPT ![Len(cs)] = c][Len(cs)] = c
         /\ \A k \in 1..Len(cs) : k # Len(cs) => [cs EXCEPT ![Len(cs)] = c][k] = cs[k]
         /\ Len(cs) \in Nat \ {0}
<1>1. Len(cs) \in Nat \ {0}
  BY LenProperties, EmptySeq
<1>2. Len(cs) \in 1..Len(cs)
  BY <1>1
<1>3. QED
  BY <1>1, <1>2, ExceptSeq

LEMMA Returning ==
  ASSUME NEW cs \in Seq(Call), cs # <<>>
  PROVE  /\ SubSeq(cs, 1, Len(cs) - 1) \in Seq(Call)
         /\ Len(SubSeq(cs, 1, Len(cs) - 1)) = Len(cs) - 1
         /\ \A k \in 1..(Len(cs) - 1) : SubSeq(cs, 1, Len(cs) - 1)[k] = cs[k]
         /\ Len(cs) \in Nat \ {0}
<1> DEFINE r == SubSeq(cs, 1, Len(cs) - 1)
<1>1. Len(cs) \in Nat \ {0}
  BY LenProperties, EmptySeq
<1>2. 1 \in 1..(Len(cs) + 1) /\ Len(cs) - 1 \in (1 - 1)..Len(cs)
  BY <1>1
<1>3. r \in Seq(Call) /\ Len(r) = (Len(cs) - 1) - 1 + 1 /\ \A k \in 1..((Len(cs) - 1) - 1 + 1) : r[k] = cs[1 + k - 1]
  BY <1>2, PartPlaces
<1> HIDE DEF r
<1>4. QED
  BY <1>1, <1>3 DEF r

LEMMA Pushing ==
  ASSUME NEW cs \in Seq(Call), NEW ds \in Seq(Call)
  PROVE  /\ cs \o ds \in Seq(Call)
         /\ Len(cs \o ds) = Len(cs) + Len(ds) /\ Len(cs) \in Nat /\ Len(ds) \in Nat
         /\ \A k \in 1..Len(cs) : (cs \o ds)[k] = cs[k]
         /\ \A k \in 1..Len(ds) : (cs \o ds)[Len(cs) + k] = ds[k]
<1> DEFINE r == cs \o ds
<1>1. Len(cs) \in Nat /\ Len(ds) \in Nat
  BY LenProperties
<1>2. /\ r \in Seq(Call) /\ Len(r) = Len(cs) + Len(ds)
      /\ \A k \in 1..(Len(cs) + Len(ds)) : r[k] = IF k <= Len(cs) THEN cs[k] ELSE ds[k - Len(cs)]
  BY ConcatProperties
<1> HIDE DEF r
<1>3. ASSUME NEW k \in 1..Len(ds) PROVE r[Len(cs) + k] = ds[k]
  <2>1. Len(cs) + k \in 1..(Len(cs) + Len(ds)) /\ ~(Len(cs) + k <= Len(cs)) /\ (Len(cs) + k) - Len(cs) = k
    BY <1>1
  <2>2. QED
    BY <1>2, <2>1
<1>4. QED
  BY <1>1, <1>2, <1>3 DEF r

\* The lists that are open after that.
LEMMA NoneOpen ==
  ASSUME NEW cs, \A k \in 1..Len(cs) : ~Cuts(cs[k])
  PROVE  Open(cs) = {}
BY DEF Open

LEMMA OpenReplaced ==
  ASSUME NEW cs \in Seq(Call), cs # <<>>, NEW c \in Call, Cuts(c), c.list = cs[Len(cs)].list
  PROVE  /\ Open([cs EXCEPT ![Len(cs)] = c]) = Open(cs) \cup {c.list}
         /\ Cuts(cs[Len(cs)]) => c.list \in Open(cs)
<1> DEFINE r == [cs EXCEPT ![Len(cs)] = c]
           n == Len(cs)
<1>1. Len(r) = n /\ r[n] = c /\ (\A k \in 1..n : k # n => r[k] = cs[k]) /\ n \in Nat \ {0}
  BY Replacing
<1> HIDE DEF r, n
<1>2. ASSUME NEW x PROVE x \in Open(r) <=> x \in Open(cs) \cup {c.list}
  BY <1>1 DEF Open, n
<1>3. Cuts(cs[n]) => c.list \in Open(cs)
  BY <1>1 DEF Open, n
<1>4. QED
  BY <1>2, <1>3 DEF r, n

LEMMA OpenPushed ==
  ASSUME NEW cs \in Seq(Call), NEW ds \in Seq(Call), \A k \in 1..Len(ds) : ~Cuts(ds[k])
  PROVE  Open(cs \o ds) = Open(cs)
<1> DEFINE r == cs \o ds
<1>1. /\ Len(r) = Len(cs) + Len(ds) /\ Len(cs) \in Nat /\ Len(ds) \in Nat
      /\ \A k \in 1..Len(cs) : r[k] = cs[k]
      /\ \A k \in 1..Len(ds) : r[Len(cs) + k] = ds[k]
  BY Pushing
<1> HIDE DEF r
<1>2. ASSUME NEW k \in 1..Len(r) PROVE k \in 1..Len(cs) \/ ~Cuts(r[k])
  <2>1. CASE ~(k \in 1..Len(cs))
    <3>1. k - Len(cs) \in 1..Len(ds) /\ Len(cs) + (k - Len(cs)) = k
      BY <1>1, <2>1
    <3>2. QED
      BY <1>1, <3>1
  <2>2. QED
    BY <2>1
<1>3. \A k \in 1..Len(cs) : k \in 1..Len(r)
  BY <1>1
<1>4. QED
  BY <1>1, <1>2, <1>3 DEF Open, r

LEMMA OpenReturned ==
  ASSUME NEW cs \in Seq(Call), cs # <<>>,
         Cuts(cs[Len(cs)]),
         \A k \in 1..(Len(cs) - 1) : Cuts(cs[k]) => cs[k].list # cs[Len(cs)].list
  PROVE  Open(SubSeq(cs, 1, Len(cs) - 1)) = Open(cs) \ {cs[Len(cs)].list}
<1> DEFINE r == SubSeq(cs, 1, Len(cs) - 1)
           n == Len(cs)
<1>1. Len(r) = n - 1 /\ (\A k \in 1..(n - 1) : r[k] = cs[k]) /\ n \in Nat \ {0}
  BY Returning
<1> HIDE DEF r, n
<1>2. ASSUME NEW k \in 1..n PROVE k = n \/ k \in 1..(n - 1)
  BY <1>1
<1>3. \A k \in 1..(n - 1) : k \in 1..n
  BY <1>1
<1>4. ASSUME NEW x PROVE x \in Open(r) <=> x \in Open(cs) \ {cs[n].list}
  BY <1>1, <1>2, <1>3 DEF Open, n
<1>5. QED
  BY <1>4 DEF r, n

\* What is known of the calls after that.
LEMMA StackReplaced ==
  ASSUME NEW cs \in Seq(Call), cs # <<>>, NEW s, Stack(cs, s), NEW t,
         NEW c \in Call, c.op = "clear", c.list = cs[Len(cs)].list,
         Cuts(c) => c.idx.node = At(t, c.list, 1),
         \A k \in 1..(Len(cs) - 1) : Cuts(cs[k]) => At(t, cs[k].list, 1) = At(s, cs[k].list, 1)
  PROVE  Stack([cs EXCEPT ![Len(cs)] = c], t)
<1> DEFINE r == [cs EXCEPT ![Len(cs)] = c]
           n == Len(cs)
<1>1. Len(r) = n /\ r[n] = c /\ (\A k \in 1..n : k # n => r[k] = cs[k]) /\ n \in Nat \ {0}
  BY Replacing
<1> HIDE DEF r, n
<1>2. \A k \in 2..n : r[k].op = "clear"
  BY <1>1 DEF Stack, n
<1>3. ASSUME NEW k \in 1..n, Cuts(r[k]) PROVE r[k].idx.node = At(t, r[k].list, 1)
  <2>1. CASE k = n
    BY <1>1, <1>3, <2>1
  <2>2. CASE k # n
    <3>1. k \in 1..(n - 1) /\ r[k] = cs[k]
      BY <1>1, <2>2
    <3>2. cs[k].idx.node = At(s, cs[k].list, 1)
      BY <1>3, <3>1 DEF Stack, n
    <3>3. QED
      BY <1>3, <3>1, <3>2 DEF n
  <2>3. QED
    BY <2>1, <2>2
<1>4. ASSUME NEW j \in 1..n, NEW k \in 1..n, j < k, Cuts(r[j])
      PROVE  /\ r[j].idx.node \in Nodes \ MapNodes /\ ~Plain(r[j].idx.node)
             /\ r[k].list \in {Stale, OwnedList[r[j].idx.node]}
  <2>1. j # n /\ r[j] = cs[j]
    BY <1>1, <1>4
  <2>2. r[k].list = cs[k].list
    BY <1>1 DEF n
  <2>3. QED
    BY <1>4, <2>1, <2>2 DEF Stack, n
<1>5. QED
  BY <1>1, <1>2, <1>3, <1>4 DEF Stack, r

LEMMA StackReturned ==
  ASSUME NEW cs \in Seq(Call), cs # <<>>, NEW s, Stack(cs, s)
  PROVE  Stack(SubSeq(cs, 1, Len(cs) - 1), s)
<1> DEFINE r == SubSeq(cs, 1, Len(cs) - 1)
           n == Len(cs)
<1>1. Len(r) = n - 1 /\ (\A k \in 1..(n - 1) : r[k] = cs[k]) /\ n \in Nat \ {0}
  BY Returning
<1> HIDE DEF r, n
<1>2. (\A k \in 1..(n - 1) : k \in 1..n) /\ (\A k \in 2..(n - 1) : k \in 2..n /\ k \in 1..(n - 1))
  BY <1>1
<1>3. QED
  BY <1>1, <1>2 DEF Stack, r, n

\* The calls that the value of a node makes, at a node that no value owned.
LEMMA StackPushed ==
  ASSUME NEW cs \in Seq(Call), cs # <<>>, NEW s, Stack(cs, s),
         NEW c \in Call, NEW d \in Call, c.op = "clear", d.op = "clear", ~Cuts(c), ~Cuts(d),
         cs[Len(cs)].idx.node \in Nodes \ MapNodes, ~Plain(cs[Len(cs)].idx.node),
         \A k \in 1..(Len(cs) - 1) : ~Cuts(cs[k]),
         c.list \in {Stale, OwnedList[cs[Len(cs)].idx.node]},
         d.list \in {Stale, OwnedList[cs[Len(cs)].idx.node]}
  PROVE  Stack(cs \o <<c, d>>, s)
<1> DEFINE ds == <<c, d>>
           r == cs \o ds
           n == Len(cs)
<1>1. ds \in Seq(Call) /\ Len(ds) = 2 /\ ds[1] = c /\ ds[2] = d
  OBVIOUS
<1>2. n \in Nat \ {0}
  BY LenProperties, EmptySeq
<1> HIDE DEF ds
<1>3. /\ Len(r) = n + 2 /\ (\A k \in 1..n : r[k] = cs[k])
      /\ \A k \in 1..2 : r[n + k] = ds[k]
  <2>1. /\ Len(r) = n + Len(ds) /\ (\A k \in 1..n : r[k] = cs[k])
        /\ \A k \in 1..Len(ds) : r[n + k] = ds[k]
    BY <1>1, Pushing
  <2> HIDE DEF r, n
  <2>2. QED
    BY <1>1, <2>1
<1> HIDE DEF r, n
<1>4. r[n + 1] = c /\ r[n + 2] = d
  BY <1>1, <1>3
<1>5. ASSUME NEW k \in 1..(n + 2) PROVE k \in 1..n \/ k = n + 1 \/ k = n + 2
  BY <1>2
<1>6. ASSUME NEW k \in 1..n PROVE k = n \/ k \in 1..(n - 1)
  BY <1>2
<1>7. ASSUME NEW k \in 2..(n + 2) PROVE r[k].op = "clear"
  <2>1. k \in 2..n \/ k = n + 1 \/ k = n + 2
    BY <1>2
  <2>2. \A x \in 2..n : x \in 1..n
    BY <1>2
  <2>3. QED
    BY <1>3, <1>4, <2>1, <2>2 DEF Stack, n
<1>8. ASSUME NEW k \in 1..(n + 2), Cuts(r[k]) PROVE k \in 1..n /\ r[k].idx.node = At(s, r[k].list, 1)
  BY <1>3, <1>4, <1>5, <1>8 DEF Stack, n
<1>9. ASSUME NEW j \in 1..(n + 2), NEW k \in 1..(n + 2), j < k, Cuts(r[j])
      PROVE  /\ r[j].idx.node \in Nodes \ MapNodes /\ ~Plain(r[j].idx.node)
             /\ r[k].list \in {Stale, OwnedList[r[j].idx.node]}
  <2>1. j \in 1..n /\ r[j] = cs[j]
    BY <1>3, <1>8, <1>9
  <2>2. j = n
    BY <1>6, <1>9, <2>1 DEF n
  <2>3. k = n + 1 \/ k = n + 2
    BY <1>2, <1>5, <1>9, <2>2
  <2>4. QED
    BY <1>4, <2>1, <2>2, <2>3 DEF n
<1>10. QED
  BY <1>3, <1>7, <1>8, <1>9 DEF Stack, r, ds

LEMMA BottomAbove ==
  ASSUME NEW cs \in Seq(Call), cs # <<>>, NEW s, Bottom(cs, s), cs[Len(cs)].op = "clear", NEW ds, NEW t,
         ds # <<>> => ds[1] = cs[1] \/ ds[1].op = "clear",
         cs[1].op = "copy" => /\ CopyOK(cs[1], t) /\ \A n \in ToSet(t[cs[1].list]) : Plain(n)
                              /\ ds = <<>> \/ Len(ds) = 1 \/ (Len(ds) = 2 /\ ds[2].list = cs[1].list)
  PROVE  Bottom(ds, t)
BY DEF Bottom

-----------------------------------------------------------------------------
(* Steps *)

\* What is known of the lengths.
Counted(len, gs, s, open) ==
  /\ len \in [Heads -> Int] /\ gs \subseteq Heads
  /\ \A l \in Heads \ gs : len[l] >= -1
  /\ Lengths(len, gs, s, open)

\* The sequences before and after a step.
Follows(s, t) == t = s \/ Seqs!Change(s, t)

LEMMA Parts ==
  ASSUME NEW s, Represents(s)
  PROVE  /\ Shape(mem, s, Open(calls)) /\ mem \in Memory /\ Apart(s) /\ Holds(s)
         /\ Counted(length, guessed, s, Open(calls))
         /\ calls \in Seq(Call) /\ Stack(calls, s) /\ Bottom(calls, s)
         /\ \A l \in Heads : s[l] \in Seq(Nodes) /\ Len(s[l]) \in Nat
<1>1. /\ Shape(mem, s, Open(calls)) /\ mem \in Memory /\ Apart(s) /\ Holds(s)
      /\ calls \in Seq(Call) /\ Stack(calls, s) /\ Bottom(calls, s)
  BY DEF Represents, TypeOK, Shape
<1>2. Counted(length, guessed, s, Open(calls))
  BY DEF Represents, TypeOK, Counted
<1>3. \A l \in Heads : s[l] \in Seq(Nodes) /\ Len(s[l]) \in Nat
  BY <1>1, Places
<1>4. QED
  BY <1>1, <1>2, <1>3

LEMMA Whole ==
  ASSUME NEW t, Shape(mem', t, Open(calls')), Holds(t), Counted(length', guessed', t, Open(calls')),
         calls' \in Seq(Call), Stack(calls', t), Bottom(calls', t)
  PROVE  Represents(t)'
<1>1. mem' \in Memory
  BY DEF Shape
<1>2. TypeOK'
  BY <1>1 DEF TypeOK, Counted
<1>3. QED
  BY <1>2 DEF Represents, Counted

\* No call on its way, or one that does not clear a list.
LEMMA NoCalls ==
  ASSUME NEW s
  PROVE  Open(<<>>) = {} /\ Stack(<<>>, s) /\ Bottom(<<>>, s) /\ <<>> \in Seq(Call) /\ Len(<<>>) = 0
<1>1. Len(<<>>) = 0 /\ <<>> \in Seq(Call) /\ 1..0 = {} /\ 2..0 = {}
  OBVIOUS
<1>2. QED
  BY <1>1 DEF Open, Stack, Bottom

LEMMA OneCall ==
  ASSUME NEW s, NEW cs \in Seq(Call), Len(cs) = 1, ~Cuts(cs[1])
  PROVE  Open(cs) = {} /\ Stack(cs, s) /\ cs # <<>> /\ cs[1] \in Call
<1>1. 2..1 = {} /\ (\A k \in 1..1 : k = 1) /\ 1 \in 1..Len(cs)
  OBVIOUS
<1>2. cs # <<>>
  OBVIOUS
<1>3. cs[1] \in Call
  BY <1>1, LenProperties
<1>4. QED
  BY <1>1, <1>2, <1>3 DEF Open, Stack

\* A call that moves or copies is the only one.
LEMMA OnlyCall ==
  ASSUME NEW cs \in Seq(Call), cs # <<>>, NEW s, Stack(cs, s), cs[Len(cs)].op # "clear"
  PROVE  Len(cs) = 1 /\ ~Cuts(cs[1]) /\ Open(cs) = {} /\ cs[1] \in Call
<1>1. Len(cs) \in Nat \ {0}
  BY LenProperties, EmptySeq
<1>2. Len(cs) = 1
  <2> DEFINE n == Len(cs)
  <2>1. n \notin 2..n
    BY DEF Stack
  <2>2. n \in Nat \ {0}
    BY <1>1
  <2> HIDE DEF n
  <2>3. n = 1
    BY <2>1, <2>2
  <2>4. QED
    BY <2>3 DEF n
<1>3. ~Cuts(cs[1])
  BY <1>2 DEF Cuts
<1>4. QED
  BY <1>2, <1>3, OneCall

\* A new node in a list.
LEMMA LinkStep ==
  ASSUME NEW s, Represents(s), Open(calls) = {}, NEW l \in Heads, NEW p \in 1..(Len(s[l]) + 1),
         NEW n \in Nodes, Link(l, n, At(s, l, p))
  PROVE  /\ Shape(mem', Put(s, l, p, <<n>>), {}) /\ Holds(Put(s, l, p, <<n>>))
         /\ Counted(length', guessed', Put(s, l, p, <<n>>), {})
         /\ Seqs!Change(s, Put(s, l, p, <<n>>))
         /\ \A k \in Heads \ {l} : Put(s, l, p, <<n>>)[k] = s[k]
         /\ ToSet(Put(s, l, p, <<n>>)[l]) = ToSet(s[l]) \cup {n}
<1> DEFINE t == Put(s, l, p, <<n>>)
<1>1. /\ Shape(mem, s, {}) /\ Apart(s) /\ Holds(s) /\ Counted(length, guessed, s, {})
      /\ s[l] \in Seq(Nodes) /\ Len(s[l]) \in Nat
  BY Parts
<1>2. n \notin Listed(s)
  BY <1>1 DEF Link, Allocated, Shape
<1>3. Shape(mem', t, {})
  BY <1>1, <1>2, LinkShape DEF Link
<1>4. Seqs!Change(s, t)
  BY <1>1, <1>2, InsertChange
<1>5. /\ t[l] = PutAt(s[l], p, <<n>>) /\ \A k \in Heads \ {l} : t[k] = s[k]
  BY <1>1 DEF Put, Apart
<1>6. Len(t[l]) = Len(s[l]) + 1 /\ ToSet(t[l]) = ToSet(s[l]) \cup {n}
  <2>1. <<n>> \in Seq(Nodes) /\ Len(<<n>>) = 1 /\ ToSet(<<n>>) = {n}
    BY DEF ToSet
  <2>2. Len(PutAt(s[l], p, <<n>>)) = Len(s[l]) + 1
    BY <1>1, <2>1, PutPlaces, ZenonT(30)
  <2>3. ToSet(PutAt(s[l], p, <<n>>)) = ToSet(s[l]) \cup {n}
    <3> DEFINE e == s[l]
               d == <<n>>
    <3>1. e \in Seq(Nodes) /\ d \in Seq(Nodes) /\ p \in 1..(Len(e) + 1) /\ ToSet(d) = {n}
      BY <1>1, <2>1
    <3> HIDE DEF e, d
    <3>2. ToSet(PutAt(e, p, d)) = ToSet(e) \cup ToSet(d)
      BY <3>1, PutMembers
    <3>3. QED
      BY <3>1, <3>2 DEF e, d
  <2>4. QED
    BY <1>5, <2>2, <2>3
<1> HIDE DEF t
<1>7. Holds(t)
  BY <1>1, <1>5, <1>6 DEF Holds, Link
<1>8. Counted(length', guessed', t, {})
  <2>1. /\ length' = [length EXCEPT ![l] = length[l] + 1]
        /\ guessed' = guessed \cup {k \in {l} : length[k] < 0}
    BY DEF Link, Unknown
  <2>2. /\ length \in [Heads -> Int] /\ guessed \subseteq Heads
        /\ \A k \in Heads \ guessed : length[k] >= -1 /\ (length[k] = -1 \/ length[k] = Len(s[k]))
    BY <1>1 DEF Counted, Lengths
  <2>3. length' \in [Heads -> Int] /\ guessed' \subseteq Heads
    BY <2>1, <2>2
  <2>4. ASSUME NEW k \in Heads \ guessed'
        PROVE  length'[k] >= -1 /\ (length'[k] = -1 \/ length'[k] = Len(t[k]))
    <3>1. k \in Heads \ guessed
      BY <2>1
    <3>2. CASE k = l
      <4>1. length'[k] = length[k] + 1 /\ ~(length[k] < 0)
        BY <2>1, <2>2, <3>2
      <4>2. length[k] = Len(s[l])
        BY <2>2, <3>1, <3>2, <4>1
      <4>3. QED
        BY <1>1, <1>6, <3>2, <4>1, <4>2
    <3>3. CASE k # l
      BY <1>5, <2>1, <2>2, <3>1, <3>3
    <3>4. QED
      BY <3>2, <3>3
  <2>5. QED
    BY <2>3, <2>4 DEF Counted, Lengths
<1>9. QED
  BY <1>3, <1>4, <1>5, <1>6, <1>7, <1>8 DEF t

LEMMA AppendNodeStep ==
  ASSUME NEW s, Represents(s), NEW l \in Lists, NEW n \in Nodes, AppendNode(l, n)
  PROVE  \E t : Represents(t)' /\ Follows(s, t)
<1>1. l \in Heads /\ calls = <<>> /\ calls' = <<>> /\ Link(l, n, l)
  BY DEF AppendNode, Idle, Heads
<1>2. /\ Open(calls) = {} /\ Open(calls') = {} /\ Len(s[l]) \in Nat /\ calls' \in Seq(Call)
  BY <1>1, NoCalls, Parts
<1>3. Len(s[l]) + 1 \in 1..(Len(s[l]) + 1) /\ At(s, l, Len(s[l]) + 1) = l
  BY <1>2 DEF At
<1> DEFINE t == Put(s, l, Len(s[l]) + 1, <<n>>)
<1>4. /\ Shape(mem', t, {}) /\ Holds(t) /\ Counted(length', guessed', t, {}) /\ Seqs!Change(s, t)
  BY <1>1, <1>2, <1>3, LinkStep
<1> HIDE DEF t
<1>5. Stack(calls', t) /\ Bottom(calls', t)
  BY <1>1, NoCalls
<1>6. QED
  BY <1>2, <1>4, <1>5, Whole DEF Follows

LEMMA InsertNodeStep ==
  ASSUME NEW s, Represents(s), NEW l \in Lists, NEW at \in Positions, NEW n \in Nodes, InsertNode(l, at, n)
  PROVE  \E t : Represents(t)' /\ Follows(s, t)
<1>1. /\ l \in Heads /\ calls = <<>> /\ calls' = <<>> /\ at \in Int
      /\ Link(l, n, IndexAt(mem, l, at, 1).node)
  BY NumbersAssumption DEF InsertNode, Idle, Heads
<1>2. /\ Open(calls) = {} /\ Open(calls') = {} /\ Shape(mem, s, {}) /\ calls' \in Seq(Call)
  BY <1>1, NoCalls, Parts
<1>3. PICK p \in 1..(Len(s[l]) + 1) : IndexAt(mem, l, at, 1).node = At(s, l, p)
  BY <1>1, <1>2, IndexNode
<1> DEFINE t == Put(s, l, p, <<n>>)
<1>4. /\ Shape(mem', t, {}) /\ Holds(t) /\ Counted(length', guessed', t, {}) /\ Seqs!Change(s, t)
  BY <1>1, <1>2, <1>3, LinkStep
<1> HIDE DEF t
<1>5. Stack(calls', t) /\ Bottom(calls', t)
  BY <1>1, NoCalls
<1>6. QED
  BY <1>2, <1>4, <1>5, Whole DEF Follows

\* What is before the place where t is put stays where it is.
LEMMA PutBefore ==
  ASSUME NEW S, NEW e \in Seq(S), NEW t \in Seq(S), NEW p \in 1..(Len(e) + 1), NEW k \in 1..(p - 1)
  PROVE  PutAt(e, p, t)[k] = e[k] /\ k \in 1..Len(PutAt(e, p, t)) /\ k \in 1..Len(e)
<1>1. Len(e) \in Nat /\ Len(t) \in Nat
  BY LenProperties
<1>2. k \in 1..(Len(e) + Len(t)) /\ k < p /\ k \in 1..Len(e)
  BY <1>1
<1>3. PutAt(e, p, t)[k] = e[k]
  BY <1>2, PutPlaces
<1>4. Len(PutAt(e, p, t)) = Len(e) + Len(t)
  BY PutPlaces
<1>5. QED
  BY <1>2, <1>3, <1>4

\* The nodes from the i-th to the j-th one of h went to another list, before its p-th node.
Away(m2, s, t, open, h, i, j, l, p) ==
  /\ Shape(m2, t, open)
  /\ Holds(t) /\ Seqs!Change(s, t)
  /\ Len(t[h]) = Len(s[h]) - (j - i + 1) /\ Len(t[l]) = Len(s[l]) + (j - i + 1)
  /\ t[h] = CutOut(s[h], i, j) /\ t[l] = PutAt(s[l], p, SubSeq(s[h], i, j))
  /\ \A k \in Heads \ {h, l} : t[k] = s[k]
  /\ \A k \in 0..(p - 1) : At(t, l, k) = At(s, l, k)

LEMMA AwayStep ==
  ASSUME NEW m, NEW s, NEW open, Shape(m, s, open), Holds(s),
         NEW h \in Heads, h \notin open, NEW i \in 1..Len(s[h]), NEW j \in i..Len(s[h]),
         NEW l \in Heads, l # h, NEW p \in 1..(Len(s[l]) + 1), l \in open => p > 1,
         \A k \in i..j : MayHold(l, s[h][k]),
         NEW t, t = Moved(s, h, i, j, l, p),
         NEW m2, m2 = Inserted(m, At(s, l, p), At(s, h, i - 1), At(s, h, j + 1))
  PROVE  Away(m2, s, t, open, h, i, j, l, p)
<1> DEFINE u == Cut(s, h, i, j)
           d == SubSeq(s[h], i, j)
<1>1. Apart(s) /\ s[h] \in Seq(Nodes) /\ s[l] \in Seq(Nodes) /\ Len(s[h]) \in Nat /\ Len(s[l]) \in Nat
  BY Places DEF Shape
<1>2. /\ u[l] = s[l] /\ t[h] = CutOut(s[h], i, j) /\ t[l] = PutAt(s[l], p, d)
      /\ (\A k \in Heads \ {h, l} : t[k] = s[k])
      /\ Len(t[h]) = Len(s[h]) - (j - i + 1) /\ Len(t[l]) = Len(s[l]) + (j - i + 1)
  BY <1>1, MovedAway, SMTT(30)
<1>3. /\ d \in Seq(Nodes) /\ Len(d) = j - i + 1 /\ \A k \in 1..(j - i + 1) : d[k] = s[h][i + k - 1]
  <2>1. i \in 1..(Len(s[h]) + 1) /\ j \in (i - 1)..Len(s[h])
    BY <1>1
  <2>2. QED
    BY <1>1, <2>1, PartPlaces
<1>4. At(u, l, p) = At(s, l, p)
  BY <1>2 DEF At
<1>5. At(s, l, p) # At(s, h, j + 1)
  <2>1. j + 1 \in 1..(Len(s[h]) + 1)
    BY <1>1
  <2>2. QED
    BY <1>1, <2>1, PlaceOnceBehind
<1>6. p \in 1..(Len(u[l]) + 1)
  BY <1>2
<1>7. Shape(MovedIn(m, s, h, i, j, l, p), t, open)
  <2>1. At(u, l, p) # At(s, h, j + 1)
    BY <1>4, <1>5
  <2>2. QED
    BY <1>6, <2>1, MoveShape
<1>8. Shape(m2, t, open)
  BY <1>4, <1>7 DEF MovedIn
<1>9. Seqs!Change(s, t)
  BY <1>1, MoveChange
<1> HIDE DEF u, d
<1>10. Holds(t)
  <2>1. ToSet(t[h]) \subseteq ToSet(s[h])
    <3>1. ToSet(s[h]) = ToSet(CutOut(s[h], i, j)) \cup ToSet(SubSeq(s[h], i, j))
      BY <1>1, CutMembers
    <3>2. QED
      BY <1>2, <3>1
  <2>2. ToSet(t[l]) = ToSet(s[l]) \cup ToSet(d)
    BY <1>1, <1>2, <1>3, PutMembers, SMTT(30)
  <2>3. ASSUME NEW n \in ToSet(d) PROVE MayHold(l, n)
    <3>1. PICK k \in 1..(j - i + 1) : n = d[k]
      BY <1>3, Members
    <3>2. i + k - 1 \in i..j /\ n = s[h][i + k - 1]
      BY <1>1, <1>3, <3>1
    <3>3. QED
      BY <3>2
  <2>4. QED
    BY <1>2, <2>1, <2>2, <2>3 DEF Holds
<1>11. ASSUME NEW k \in 0..(p - 1) PROVE At(t, l, k) = At(s, l, k)
  <2>1. CASE k = 0
    <3>1. At(t, l, k) = l /\ At(s, l, k) = l
      BY <2>1 DEF At
    <3>2. QED
      BY <3>1
  <2>2. CASE k # 0
    <3>1. k \in 1..(p - 1)
      BY <1>1, <2>2
    <3>2. s[l] \in Seq(Nodes) /\ d \in Seq(Nodes)
      BY <1>1, <1>3
    <3>3. PutAt(s[l], p, d)[k] = s[l][k] /\ k \in 1..Len(PutAt(s[l], p, d)) /\ k \in 1..Len(s[l])
      BY <3>1, <3>2, PutBefore
    <3>4. QED
      BY <1>2, <3>3 DEF At
  <2>3. QED
    BY <2>1, <2>2
<1>12. QED
  BY <1>2, <1>8, <1>9, <1>10, <1>11 DEF d, Away

\* Nothing happens when a list without nodes is inserted.
LEMMA EmptyJoin ==
  ASSUME NEW m, NEW s, NEW open, Shape(m, s, open), NEW k \in Heads, k \notin open, s[k] = <<>>,
         NEW l \in Heads, l # k, NEW p \in 1..(Len(s[l]) + 1), l \in open => p > 1
  PROVE  Inserted(m, At(s, l, p), k, k) = m
<1> DEFINE x == At(s, l, p)
           y == At(s, l, p - 1)
<1>1. m \in Memory /\ Apart(s) /\ Rings(m.next, m.prev, s, open) /\ Len(s[l]) \in Nat /\ Len(s[k]) = 0
  BY Places DEF Shape
<1>2. m.next[k] = k /\ m.prev[k] = k
  <2>1. 0 \in 0..Len(s[k]) /\ At(s, k, 0) = k /\ At(s, k, 0 + 1) = k
    BY <1>1 DEF At
  <2>2. QED
    BY <1>1, <2>1, NextPlace
<1>3. m.next[y] = x /\ m.prev[x] = y
  <2>1. p - 1 \in 0..Len(s[l]) /\ (p - 1 > 0 \/ l \notin open) /\ (p - 1) + 1 = p
    BY <1>1
  <2>2. QED
    BY <1>1, <2>1, NextPlace
<1>4. x # k /\ y # k /\ x \in Links /\ y \in Links /\ k \in Links
  <2>1. x \in Nodes \cup {l} /\ y \in Nodes \cup {l} /\ x \in Links /\ y \in Links
    BY <1>1, Places
  <2>2. QED
    BY <2>1, HeadsAssumption DEF Links
<1> HIDE DEF x, y
<1> DEFINE nx == m.next
           pv == m.prev
<1>5. m = [next |-> nx, prev |-> pv] /\ nx \in [Links -> Links \cup {Nil}] /\ pv \in [Links -> Links \cup {Nil}]
  BY <1>1 DEF Memory
<1>6. [nx EXCEPT ![y] = k] \in [Links -> Links \cup {Nil}]
  BY <1>4, <1>5
<1> DEFINE a == [m EXCEPT !.next[m.prev[x]] = m.next[k]]
           b == [a EXCEPT !.prev[a.next[k]] = a.prev[x]]
           c == [b EXCEPT !.prev[x] = b.prev[k]]
           d == [c EXCEPT !.next[c.prev[k]] = x]
<1>7. a = [next |-> [nx EXCEPT ![y] = k], prev |-> pv]
  BY <1>2, <1>3, <1>5
<1>8. a.next[k] = k /\ a.prev[x] = y
  BY <1>2, <1>3, <1>4, <1>5, <1>7
<1> HIDE DEF a
<1>9. b = [next |-> [nx EXCEPT ![y] = k], prev |-> [pv EXCEPT ![k] = y]]
  BY <1>7, <1>8
<1>10. b.prev[k] = y
  BY <1>4, <1>5, <1>9
<1> HIDE DEF b
<1>11. c = [next |-> [nx EXCEPT ![y] = k], prev |-> [[pv EXCEPT ![k] = y] EXCEPT ![x] = y]]
  BY <1>9, <1>10
<1>12. c.prev[k] = y
  BY <1>4, <1>5, <1>11
<1> HIDE DEF c
<1>13. d = [next |-> [[nx EXCEPT ![y] = k] EXCEPT ![y] = x], prev |-> [[pv EXCEPT ![k] = y] EXCEPT ![x] = y]]
  BY <1>11, <1>12
<1> HIDE DEF d
<1>14. Unlinked(d, k, k)
         = [next |-> [[[nx EXCEPT ![y] = k] EXCEPT ![y] = x] EXCEPT ![k] = k],
            prev |-> [[[pv EXCEPT ![k] = y] EXCEPT ![x] = y] EXCEPT ![k] = k]]
  BY <1>13 DEF Unlinked
<1>15. [[[nx EXCEPT ![y] = k] EXCEPT ![y] = x] EXCEPT ![k] = k] = nx
  BY <1>2, <1>3, <1>4, <1>5
<1>16. [[[pv EXCEPT ![k] = y] EXCEPT ![x] = y] EXCEPT ![k] = k] = pv
  BY <1>2, <1>3, <1>4, <1>5
<1>17. Inserted(m, x, k, k) = Unlinked(d, k, k)
  BY DEF Inserted, a, b, c, d
<1>18. QED
  BY <1>5, <1>14, <1>15, <1>16, <1>17 DEF x

\* All nodes of k go to another list.
JoinedTo(s, l, p, k) == IF s[k] = <<>> THEN s ELSE Moved(s, k, 1, Len(s[k]), l, p)

LEMMA JoinStep ==
  ASSUME NEW s, NEW open, Shape(mem, s, open), Holds(s), Counted(length, guessed, s, open),
         NEW l \in Heads, NEW k \in Heads, k \notin open,
         NEW p \in 1..(Len(s[l]) + 1), l \in open => p > 1,
         \A n \in ToSet(s[k]) : MayHold(l, n),
         Join(l, At(s, l, p), k),
         NEW t, t = JoinedTo(s, l, p, k)
  PROVE  /\ Shape(mem', t, open) /\ Holds(t) /\ Counted(length', guessed', t, open) /\ Follows(s, t)
         /\ \A h \in Heads \ {k, l} : t[h] = s[h]
         /\ t[k] = <<>>
         /\ l \in open => At(t, l, 1) = At(s, l, 1)
<1>1. /\ l # k /\ mem' = Inserted(mem, At(s, l, p), k, k)
      /\ length' = [length EXCEPT ![l] = length[l] + length[k], ![k] = 0]
      /\ guessed' = (guessed \ {k}) \cup (IF {l, k} \cap (guessed \cup {x \in Heads : length[x] < 0}) = {}
                                          THEN {} ELSE {l})
  BY DEF Join, Unknown
<1>2. Apart(s) /\ s[k] \in Seq(Nodes) /\ Len(s[k]) \in Nat /\ Len(s[l]) \in Nat
  BY Places DEF Shape
<1>3. /\ Shape(mem', t, open) /\ Holds(t) /\ Follows(s, t)
      /\ \A h \in Heads \ {k, l} : t[h] = s[h]
      /\ t[k] = <<>> /\ Len(t[l]) = Len(s[l]) + Len(s[k])
      /\ l \in open => At(t, l, 1) = At(s, l, 1)
  <2>1. CASE s[k] = <<>>
    <3>1. mem' = mem /\ t = s
      BY <1>1, <2>1, EmptyJoin DEF JoinedTo
    <3>2. Len(s[k]) = 0
      BY <2>1
    <3>3. QED
      BY <1>2, <2>1, <3>1, <3>2 DEF Follows
  <2>2. CASE s[k] # <<>>
    <3> DEFINE N == Len(s[k])
    <3>1. N \in Nat \ {0}
      BY <1>2, <2>2, EmptySeq
    <3>2. 1 \in 1..N /\ N \in 1..N /\ N - 1 + 1 = N
      BY <3>1
    <3>3. \A x \in 1..N : MayHold(l, s[k][x])
      BY <1>2, Members
    <3>4. t = Moved(s, k, 1, N, l, p)
      BY <2>2 DEF JoinedTo
    <3>5. At(s, k, 1 - 1) = k /\ At(s, k, N + 1) = k
      BY <3>1 DEF At
    <3>6. mem' = Inserted(mem, At(s, l, p), At(s, k, 1 - 1), At(s, k, N + 1)) /\ l # k
      BY <1>1, <3>5
    <3>7. Away(mem', s, t, open, k, 1, N, l, p)
      BY <3>2, <3>3, <3>4, <3>6, AwayStep
    <3> HIDE DEF N
    <3>8. /\ Shape(mem', t, open) /\ Holds(t) /\ Seqs!Change(s, t)
          /\ Len(t[k]) = Len(s[k]) - (N - 1 + 1) /\ Len(t[l]) = Len(s[l]) + (N - 1 + 1)
      BY <3>7 DEF Away
    <3>9. /\ \A h \in Heads \ {k, l} : t[h] = s[h]
          /\ \A h \in 0..(p - 1) : At(t, l, h) = At(s, l, h)
      BY <3>7 DEF Away
    <3>11. t[k] = <<>> /\ Len(t[l]) = Len(s[l]) + Len(s[k])
      <4>1. Len(t[k]) = Len(s[k]) - N /\ Len(t[l]) = Len(s[l]) + N
        BY <3>2, <3>8
      <4>2. t[k] \in Seq(Nodes)
        BY <3>8 DEF Shape, Apart
      <4>3. Len(t[k]) = 0 /\ Len(t[l]) = Len(s[l]) + Len(s[k])
        BY <1>2, <4>1 DEF N
      <4>4. QED
        BY <4>2, <4>3, EmptySeq
    <3>12. l \in open => At(t, l, 1) = At(s, l, 1)
      BY <3>9
    <3>13. QED
      BY <3>8, <3>9, <3>11, <3>12 DEF Follows
  <2>3. QED
    BY <2>1, <2>2
<1>4. Counted(length', guessed', t, open)
  <2>1. /\ length \in [Heads -> Int] /\ guessed \subseteq Heads
        /\ \A x \in Heads \ guessed : length[x] >= -1
        /\ \A x \in Heads \ (guessed \cup open) : length[x] = -1 \/ length[x] = Len(s[x])
    BY DEF Counted, Lengths
  <2>2. length' \in [Heads -> Int] /\ guessed' \subseteq Heads
    BY <1>1, <2>1
  <2>3. length'[k] = 0 /\ length'[l] = length[l] + length[k] /\ \A x \in Heads \ {k, l} : length'[x] = length[x]
    BY <1>1, <2>1
  <2>4. Len(t[k]) = 0
    BY <1>3
  <2>5. ASSUME NEW x \in Heads \ guessed'
        PROVE  length'[x] >= -1 /\ (x \notin open => length'[x] = -1 \/ length'[x] = Len(t[x]))
    <3>1. CASE x = k
      BY <2>3, <2>4, <3>1
    <3>2. CASE x = l
      <4>1. l \notin guessed /\ k \notin guessed /\ ~(length[l] < 0) /\ ~(length[k] < 0)
        BY <1>1, <3>2
      <4>2. length[k] = Len(s[k]) /\ (l \notin open => length[l] = Len(s[l]))
        BY <2>1, <4>1
      <4>3. length[l] \in Int /\ length[k] \in Int
        BY <2>1
      <4>4. length'[l] = length[l] + Len(s[k]) /\ length'[l] >= -1
        BY <1>2, <2>3, <4>1, <4>2, <4>3
      <4>5. l \notin open => length'[l] = Len(t[l])
        BY <1>3, <4>2, <4>4
      <4>6. QED
        BY <3>2, <4>4, <4>5
    <3>3. CASE x # k /\ x # l
      BY <1>1, <1>3, <2>1, <2>3, <3>3
    <3>4. QED
      BY <3>1, <3>2, <3>3
  <2>6. QED
    BY <2>2, <2>5 DEF Counted, Lengths
<1>5. QED
  BY <1>3, <1>4

LEMMA AppendListStep ==
  ASSUME RemoveNested = FALSE, NEW s, Represents(s), NEW l \in Lists, NEW k \in Lists, AppendList(l, k)
  PROVE  \E t : Represents(t)' /\ Follows(s, t)
<1>1. /\ l \in Heads /\ k \in Heads /\ calls = <<>> /\ calls' = <<>>
      /\ Join(l, l, k) /\ \A n \in ToSet(s[k]) : MayHold(l, n)
  BY ElementsListed DEF AppendList, Idle, Heads
<1>2. /\ Shape(mem, s, {}) /\ Holds(s) /\ Counted(length, guessed, s, {}) /\ Len(s[l]) \in Nat
      /\ Open(calls') = {} /\ calls' \in Seq(Call)
  BY <1>1, NoCalls, Parts
<1>3. Len(s[l]) + 1 \in 1..(Len(s[l]) + 1) /\ At(s, l, Len(s[l]) + 1) = l
  BY <1>2 DEF At
<1> DEFINE t == JoinedTo(s, l, Len(s[l]) + 1, k)
<1>4. /\ Shape(mem', t, {}) /\ Holds(t) /\ Counted(length', guessed', t, {}) /\ Follows(s, t)
  BY <1>1, <1>2, <1>3, JoinStep
<1> HIDE DEF t
<1>5. Stack(calls', t) /\ Bottom(calls', t)
  BY <1>1, NoCalls
<1>6. QED
  BY <1>2, <1>4, <1>5, Whole

LEMMA InsertListStep ==
  ASSUME RemoveNested = FALSE, NEW s, Represents(s), NEW l \in Lists, NEW at \in Positions, NEW k \in Lists,
         InsertList(l, at, k)
  PROVE  \E t : Represents(t)' /\ Follows(s, t)
<1>1. /\ l \in Heads /\ k \in Heads /\ calls = <<>> /\ calls' = <<>> /\ at \in Int
      /\ Join(l, IndexAt(mem, l, at, 1).node, k) /\ \A n \in ToSet(s[k]) : MayHold(l, n)
  BY ElementsListed, NumbersAssumption DEF InsertList, Idle, Heads
<1>2. /\ Shape(mem, s, {}) /\ Holds(s) /\ Counted(length, guessed, s, {})
      /\ Open(calls') = {} /\ calls' \in Seq(Call)
  BY <1>1, NoCalls, Parts
<1>3. PICK p \in 1..(Len(s[l]) + 1) : IndexAt(mem, l, at, 1).node = At(s, l, p)
  BY <1>1, <1>2, IndexNode
<1> DEFINE t == JoinedTo(s, l, p, k)
<1>4. Join(l, At(s, l, p), k)
  BY <1>1, <1>3
<1>5. /\ Shape(mem', t, {}) /\ Holds(t) /\ Counted(length', guessed', t, {}) /\ Follows(s, t)
  BY <1>1, <1>2, <1>4, JoinStep
<1> HIDE DEF t
<1>6. Stack(calls', t) /\ Bottom(calls', t)
  BY <1>1, NoCalls
<1>7. QED
  BY <1>2, <1>5, <1>6, Whole

LEMMA InsertRangeStep ==
  ASSUME RemoveNested = FALSE, NEW s, Represents(s), NEW l \in Lists, NEW at \in Positions, NEW k \in Lists,
         NEW i \in Positions, NEW j \in Positions, InsertRange(l, at, k, i, j)
  PROVE  \E t : Represents(t)' /\ Follows(s, t)
<1> DEFINE x == IndexAt(mem, k, i, 1).node
           y == IndexAt(mem, k, j, 1).node
           z == IndexAt(mem, l, at, 1).node
<1>1. /\ l \in Heads /\ k \in Heads /\ l # k /\ calls = <<>> /\ calls' = <<>>
      /\ at \in Int /\ i \in Int /\ j \in Int
      /\ IsValid(IndexAt(mem, k, i, 1)) /\ y \in ToSet(Walk(mem, x))
      /\ \A n \in ToSet(s[k]) : MayHold(l, n)
      /\ mem' = Inserted(mem, z, mem.prev[x], mem.next[y])
      /\ length' = [length EXCEPT ![l] = -1, ![k] = -1] /\ guessed' = guessed \ {l, k}
  BY ElementsListed, NumbersAssumption DEF InsertRange, Idle, Heads
<1>2. /\ Shape(mem, s, {}) /\ Holds(s) /\ Counted(length, guessed, s, {}) /\ Apart(s)
      /\ Open(calls') = {} /\ calls' \in Seq(Call) /\ s[k] \in Seq(Nodes) /\ Len(s[k]) \in Nat
      /\ Rings(mem.next, mem.prev, s, {})
  BY <1>1, NoCalls, Parts DEF Shape
<1>3. PICK p \in 1..(Len(s[l]) + 1) : z = At(s, l, p)
  BY <1>1, <1>2, IndexNode
<1>4. PICK a \in 0..Len(s[k]) : x = At(s, k, a)
  BY <1>1, <1>2, IndexNode
<1>5. IndexAt(mem, k, i, 1).host = k
  BY <1>1, <1>2, IndexNode
<1> HIDE DEF x, y, z
<1>6. a \in 1..Len(s[k]) /\ a \in 1..(Len(s[k]) + 1)
  <2>1. x # k
    BY <1>1, <1>5 DEF IsValid, x
  <2>2. a # 0
    BY <1>4, <2>1 DEF At
  <2>3. QED
    BY <1>2, <2>2
<1>7. Walk(mem, x) = SubSeq(s[k], a, Len(s[k]))
  BY <1>1, <1>2, <1>4, <1>6, WalkPlace
<1>8. PICK b \in a..Len(s[k]) : y = At(s, k, b) /\ b \in 1..Len(s[k])
  <2> DEFINE d == SubSeq(s[k], a, Len(s[k]))
             N == Len(s[k])
  <2>1. N \in (a - 1)..N
    BY <1>2, <1>6
  <2>2. d \in Seq(Nodes) /\ Len(d) = N - a + 1 /\ \A c \in 1..(N - a + 1) : d[c] = s[k][a + c - 1]
    BY <1>2, <1>6, <2>1, PartPlaces
  <2> HIDE DEF d
  <2>3. PICK c \in 1..(N - a + 1) : y = d[c]
    <3>1. y \in ToSet(d)
      BY <1>1, <1>7 DEF d
    <3>2. ToSet(d) = {d[c] : c \in 1..Len(d)}
      BY <2>2, Members
    <3>3. QED
      BY <2>2, <3>1, <3>2
  <2>4. a + c - 1 \in a..N /\ a + c - 1 \in 1..N
    BY <1>2, <1>6, <2>3
  <2>5. y = s[k][a + c - 1]
    BY <2>2, <2>3
  <2>6. QED
    BY <2>4, <2>5 DEF At
<1>9. mem.prev[x] = At(s, k, a - 1)
  <2>1. a - 1 \in 0..Len(s[k]) /\ (a - 1 > 0 \/ k \notin {}) /\ (a - 1) + 1 = a
    BY <1>2, <1>6
  <2>2. mem.prev[At(s, k, (a - 1) + 1)] = At(s, k, a - 1)
    BY <1>1, <1>2, <2>1, NextPlace, SMTT(30)
  <2>3. QED
    BY <1>4, <2>1, <2>2
<1>10. mem.next[y] = At(s, k, b + 1)
  <2>1. b \in 0..Len(s[k]) /\ (b > 0 \/ k \notin {})
    BY <1>2, <1>8
  <2>2. QED
    BY <1>1, <1>2, <1>8, <2>1, NextPlace
<1> DEFINE t == Moved(s, k, a, b, l, p)
<1>11. Away(mem', s, t, {}, k, a, b, l, p)
  <2>1. mem' = Inserted(mem, At(s, l, p), At(s, k, a - 1), At(s, k, b + 1))
    BY <1>1, <1>3, <1>9, <1>10
  <2>2. \A c \in a..b : MayHold(l, s[k][c])
    <3>1. \A c \in a..b : c \in 1..Len(s[k])
      BY <1>2, <1>6, <1>8
    <3>2. QED
      BY <1>1, <1>2, <3>1, Members
  <2>3. l \in {} => p > 1
    OBVIOUS
  <2>4. QED
    BY <1>1, <1>2, <1>6, <1>8, <2>1, <2>2, <2>3, AwayStep
<1> HIDE DEF t
<1>12. Shape(mem', t, {}) /\ Holds(t) /\ Follows(s, t) /\ \A h \in Heads \ {k, l} : t[h] = s[h]
  BY <1>11 DEF Away, Follows
<1>13. Counted(length', guessed', t, {})
  BY <1>1, <1>2, <1>12, SMTT(30) DEF Counted, Lengths
<1>14. Stack(calls', t) /\ Bottom(calls', t)
  BY <1>1, NoCalls
<1>15. QED
  BY <1>2, <1>12, <1>13, <1>14, Whole

LEMMA LenOfStep ==
  ASSUME RemoveNested = FALSE, NEW s, Represents(s), NEW l \in Lists, LenOf(l)
  PROVE  \E t : Represents(t)' /\ Follows(s, t)
<1>1. /\ l \in Heads /\ calls = <<>> /\ calls' = <<>> /\ mem' = mem
      /\ length' = [length EXCEPT ![l] = Len(s[l])] /\ guessed' = guessed \ {l}
  BY ElementsListed DEF LenOf, Idle, Heads
<1>2. /\ Shape(mem, s, {}) /\ Holds(s) /\ Counted(length, guessed, s, {}) /\ Len(s[l]) \in Nat
      /\ Open(calls') = {} /\ calls' \in Seq(Call)
  BY <1>1, NoCalls, Parts
<1>3. Counted(length', guessed', s, {})
  BY <1>1, <1>2 DEF Counted, Lengths
<1>4. Stack(calls', s) /\ Bottom(calls', s)
  BY <1>1, NoCalls
<1>5. QED
  BY <1>1, <1>2, <1>3, <1>4, Whole DEF Follows

\* What is left of the way is a sequence of nodes.
LEMMA LaterType ==
  ASSUME NEW S, NEW e \in Seq(S), NEW p, NEW d \in Int
  PROVE  Later(e, p, d) \in Seq(S)
<1>1. CASE p \in 1..Len(e)
  BY <1>1, SteppedPlaces DEF Later
<1>2. CASE p \notin 1..Len(e)
  BY <1>2 DEF Later
<1>3. QED
  BY <1>1, <1>2

\* A call that clears a list, before it begins.
LEMMA ClearingCall ==
  ASSUME NEW l \in Heads
  PROVE  Clearing(l) \in Call /\ Clearing(l).op = "clear" /\ Clearing(l).list = l /\ ~Cuts(Clearing(l))
<1>1. IndexAt(mem, l, 0, 1) = [host |-> l, node |-> l, stride |-> 1]
  BY IndexZero
<1>2. [host |-> l, node |-> l, stride |-> 1] \in Index
  BY DEF Index, Links
<1>3. <<>> \in Seq(Nodes)
  OBVIOUS
<1>4. QED
  BY <1>1, <1>2, <1>3 DEF Clearing, NewCall, Call, Cuts

\* A call that begins to move the nodes of an index.
LEMMA MovingStep ==
  ASSUME RemoveNested = FALSE, NEW s, Represents(s), Idle, NEW op \in {"insert", "pop", "assign"},
         NEW l \in Heads, NEW self \in Index, NEW q \in 0..Len(s[self.host]), self.node = At(s, self.host, q),
         NEW idx \in Indices, Moving(op, l, self, idx),
         op = "assign" => self.host = Temp /\ l \in Lists,
         op = "pop" => self = [host |-> Stale, node |-> Stale, stride |-> 0]
  PROVE  \E t : Represents(t)' /\ Follows(s, t)
<1> DEFINE h == idx.host
           c == NewCall(op, l, self, idx, Selected(idx))
<1>1. /\ Shape(mem, s, {}) /\ Holds(s) /\ Counted(length, guessed, s, {}) /\ Apart(s) /\ calls = <<>>
      /\ Rings(mem.next, mem.prev, s, {})
  BY NoCalls, Parts DEF Idle, Shape
<1>2. idx \in Index /\ h \in Heads /\ idx.stride \in Int
  BY <1>1, IndicesPlaces DEF Index
<1>3. PICK p \in 0..Len(s[h]) : idx.node = At(s, h, p)
  BY <1>1, IndicesPlaces
<1>4. Selected(idx) = Later(s[h], p, idx.stride) /\ Selected(idx) \in Seq(Nodes)
  <2>1. Selected(idx) = Later(s[h], p, idx.stride)
    BY <1>2, <1>3, SelectedPlace
  <2>2. s[h] \in Seq(Nodes)
    BY <1>1, <1>2 DEF Apart
  <2>3. QED
    BY <1>2, <2>1, <2>2, LaterType
<1>5. /\ idx.node # h /\ h = self.host => idx.stride = 0 /\ self.node \notin {idx.node, mem.next[idx.node]}
      /\ \A n \in ToSet(Selected(idx)) : MayHold(self.host, n)
      /\ calls' = Append(calls, c) /\ mem' = mem /\ length' = length /\ guessed' = guessed
  BY DEF Moving, IsValid
<1>6. /\ c \in Call /\ c.op = op /\ c.list = l /\ c.self = self /\ c.idx = idx /\ c.taken = <<>>
      /\ c.plan = Selected(idx) /\ ~Cuts(c)
  <2>1. <<>> \in Seq(Nodes)
    OBVIOUS
  <2>2. QED
    BY <1>2, <1>4, <2>1 DEF NewCall, Call, Cuts
<1> HIDE DEF c
<1>7. calls' = <<c>> /\ calls' \in Seq(Call) /\ Len(calls') = 1 /\ calls'[1] = c
  BY <1>1, <1>5, <1>6
<1>8. Open(calls') = {} /\ Stack(calls', s)
  BY <1>6, <1>7, OneCall
<1>9. Ahead(c, s, p)
  <2>1. <<>> \o Selected(idx) = Selected(idx)
    BY <1>4
  <2>2. QED
    BY <1>3, <1>4, <1>6, <2>1 DEF Ahead
<1>10. Awaited(c, s)
  <2>1. ASSUME p # 0, h = self.host
        PROVE  idx.stride = 0 /\ self.node \notin {idx.node, At(s, h, p + 1)}
    <3>1. idx.node # h
      <4>1. p \in 1..Len(s[h])
        BY <2>1
      <4>2. QED
        BY <1>1, <1>2, <1>3, <4>1, Places
    <3>2. mem.next[idx.node] = At(s, h, p + 1)
      BY <1>1, <1>2, <1>3, <2>1, NextPlace
    <3>3. QED
      BY <1>5, <2>1, <3>1, <3>2
  <2>2. QED
    BY <1>6, <1>9, <2>1 DEF Awaited
<1>11. MoveOK(c, s)
  <2>1. op = "pop" => Behind(c, s)
    <3>1. Stale \in Heads
      BY DEF Heads
    <3>2. s[Stale] \in Seq(Nodes) /\ Len(s[Stale]) \in Nat /\ Len(<<>>) = 0
      BY <1>1, <3>1, Places
    <3>3. SubSeq(s[Stale], Len(s[Stale]) - 0 + 1, Len(s[Stale])) = <<>>
      BY <3>2
    <3>4. c.taken = SubSeq(s[Stale], Len(s[Stale]) - Len(c.taken) + 1, Len(s[Stale]))
      BY <1>6, <3>2, <3>3
    <3>5. Len(c.taken) <= Len(s[Stale])
      BY <1>6, <3>2
    <3>6. QED
      BY <1>6, <3>4, <3>5, Zenon DEF Behind
  <2>2. QED
    BY <1>5, <1>6, <1>10, <2>1 DEF MoveOK
<1>12. Bottom(calls', s)
  BY <1>6, <1>7, <1>11 DEF Bottom
<1>13. QED
  BY <1>1, <1>5, <1>7, <1>8, <1>12, Whole DEF Follows

LEMMA InsertIndexStep ==
  ASSUME RemoveNested = FALSE, NEW s, Represents(s), NEW self \in Indices, NEW idx \in Indices,
         self.host \in Lists, InsertIndex(self, idx)
  PROVE  \E t : Represents(t)' /\ Follows(s, t)
<1>1. Idle /\ Moving("insert", self.host, self, idx)
  BY DEF InsertIndex
<1>2. Shape(mem, s, {})
  BY <1>1, NoCalls, Parts DEF Idle
<1>3. self \in Index /\ self.host \in Heads /\ \E q \in 0..Len(s[self.host]) : self.node = At(s, self.host, q)
  BY <1>2, IndicesPlaces DEF Heads
<1>4. QED
  BY <1>1, <1>3, MovingStep

\* The index of the removed nodes where the removed ones are added.
LEMMA StaleIndex ==
  ASSUME NEW s, NEW l \in Heads
  PROVE  /\ IndexAt(mem, l, 0, 0) = [host |-> l, node |-> l, stride |-> 0]
         /\ IndexAt(mem, l, 0, 0) \in Index /\ IndexAt(mem, l, 0, 0).host = l
         /\ IndexAt(mem, l, 0, 0).node = At(s, l, 0)
<1>1. IndexAt(mem, l, 0, 0) = [host |-> l, node |-> l, stride |-> 0]
  BY IndexZero
<1>2. [host |-> l, node |-> l, stride |-> 0] \in Index
  BY DEF Index, Links
<1>3. QED
  BY <1>1, <1>2 DEF At

LEMMA RemoveIndexStep ==
  ASSUME RemoveNested = FALSE, NEW s, Represents(s), NEW idx \in Indices,
         RemoveIndex(idx) \/ PopIndex(idx)
  PROVE  \E t : Represents(t)' /\ Follows(s, t)
<1> DEFINE self == IndexAt(mem, Stale, 0, 0)
<1>1. PICK op \in {"insert", "pop"} : Idle /\ Moving(op, Stale, self, idx)
  BY DEF RemoveIndex, PopIndex
<1>2. Stale \in Heads
  BY DEF Heads
<1>3. /\ self = [host |-> Stale, node |-> Stale, stride |-> 0]
      /\ self \in Index /\ self.host = Stale /\ self.node = At(s, Stale, 0)
  BY <1>2, StaleIndex
<1> HIDE DEF self
<1>4. 0 \in 0..Len(s[Stale])
  BY <1>2, Parts
<1>5. QED
  BY <1>1, <1>2, <1>3, <1>4, MovingStep

LEMMA AssignOwnStep ==
  ASSUME RemoveNested = FALSE, NEW s, Represents(s), NEW l \in Lists, NEW idx \in Indices, AssignOwn(l, idx)
  PROVE  \E t : Represents(t)' /\ Follows(s, t)
<1> DEFINE self == IndexAt(mem, Temp, 0, 0)
<1>1. Idle /\ Moving("assign", l, self, idx)
  BY DEF AssignOwn
<1>2. Temp \in Heads /\ l \in Heads
  BY DEF Heads
<1>3. self \in Index /\ self.host = Temp /\ self.node = At(s, Temp, 0)
  BY <1>2, StaleIndex
<1> HIDE DEF self
<1>4. 0 \in 0..Len(s[Temp])
  BY <1>2, Parts
<1>5. QED
  BY <1>1, <1>2, <1>3, <1>4, MovingStep

LEMMA ClearStep ==
  ASSUME NEW s, Represents(s), NEW l \in Lists, Clear(l)
  PROVE  \E t : Represents(t)' /\ Follows(s, t)
<1>1. /\ l \in Heads /\ calls = <<>> /\ calls' = <<Clearing(l)>> /\ mem' = mem /\ length' = length
      /\ guessed' = guessed
  BY DEF Clear, Idle, Heads
<1>2. Shape(mem, s, {}) /\ Holds(s) /\ Counted(length, guessed, s, {})
  BY <1>1, NoCalls, Parts
<1>3. Clearing(l) \in Call /\ Clearing(l).op = "clear" /\ ~Cuts(Clearing(l))
  BY <1>1, ClearingCall
<1>4. calls' \in Seq(Call) /\ Len(calls') = 1 /\ calls'[1] = Clearing(l)
  BY <1>1, <1>3
<1>5. Open(calls') = {} /\ Stack(calls', s)
  BY <1>3, <1>4, OneCall
<1>6. Bottom(calls', s)
  BY <1>3, <1>4 DEF Bottom
<1>7. QED
  BY <1>1, <1>2, <1>4, <1>5, <1>6, Whole DEF Follows

LEMMA TwoCalls ==
  ASSUME NEW s, NEW c \in Call, NEW d \in Call, d.op = "clear", ~Cuts(c), ~Cuts(d),
         NEW cs, cs = <<c, d>>
  PROVE  /\ cs \in Seq(Call) /\ Len(cs) = 2 /\ cs[1] = c /\ cs[2] = d
         /\ Open(cs) = {} /\ Stack(cs, s)
<1>1. cs \in Seq(Call) /\ Len(cs) = 2 /\ cs[1] = c /\ cs[2] = d
  OBVIOUS
<1>2. (\A k \in 2..2 : k = 2) /\ \A k \in 1..2 : k = 1 \/ k = 2
  OBVIOUS
<1>3. \A k \in 1..2 : ~Cuts(cs[k])
  BY <1>1, <1>2
<1>4. QED
  BY <1>1, <1>2, <1>3 DEF Open, Stack

LEMMA DeleteStep ==
  ASSUME NEW s, Represents(s), NEW l \in Lists, Delete(l)
  PROVE  \E t : Represents(t)' /\ Follows(s, t)
<1>1. /\ l \in Heads /\ Stale \in Heads /\ calls = <<>> /\ calls' = <<Clearing(Stale), Clearing(l)>>
      /\ mem' = mem /\ length' = length /\ guessed' = guessed
  BY DEF Delete, Idle, Heads
<1>2. Shape(mem, s, {}) /\ Holds(s) /\ Counted(length, guessed, s, {})
  BY <1>1, NoCalls, Parts
<1>3. /\ Clearing(l) \in Call /\ Clearing(l).op = "clear" /\ ~Cuts(Clearing(l))
      /\ Clearing(Stale) \in Call /\ Clearing(Stale).op = "clear" /\ ~Cuts(Clearing(Stale))
  BY <1>1, ClearingCall
<1>4. /\ calls' \in Seq(Call) /\ calls'[1] = Clearing(Stale)
      /\ Open(calls') = {} /\ Stack(calls', s)
  BY <1>1, <1>3, TwoCalls
<1>5. Bottom(calls', s)
  BY <1>3, <1>4 DEF Bottom
<1>6. QED
  BY <1>1, <1>2, <1>4, <1>5, Whole DEF Follows

LEMMA AssignStep ==
  ASSUME RemoveNested = FALSE, NEW s, Represents(s), NEW l \in Lists, NEW idx \in Indices, Assign(l, idx)
  PROVE  \E t : Represents(t)' /\ Follows(s, t)
<1> DEFINE h == idx.host
           self == IndexAt(mem, l, 0, 1)
           c == NewCall("copy", l, self, idx, Selected(idx))
<1>1. /\ l \in Heads /\ calls = <<>> /\ calls' = <<c, Clearing(l)>> /\ h # l /\ idx.stride # 0
      /\ mem' = mem /\ length' = length /\ guessed' = guessed /\ Room(l, idx)
  BY DEF Assign, Idle, Heads
<1>2. Shape(mem, s, {}) /\ Holds(s) /\ Counted(length, guessed, s, {}) /\ Apart(s)
  BY <1>1, NoCalls, Parts
<1>3. idx \in Index /\ h \in Heads /\ idx.stride \in Int
  BY <1>2, IndicesPlaces DEF Index
<1>4. PICK p \in 0..Len(s[h]) : idx.node = At(s, h, p)
  BY <1>2, IndicesPlaces
<1>5. Selected(idx) = Later(s[h], p, idx.stride) /\ Selected(idx) \in Seq(Nodes)
  <2>1. Selected(idx) = Later(s[h], p, idx.stride)
    BY <1>3, <1>4, SelectedPlace
  <2>2. s[h] \in Seq(Nodes)
    BY <1>2, <1>3 DEF Apart
  <2>3. QED
    BY <1>3, <2>1, <2>2, LaterType
<1>6. self \in Index
  <2>1. self = [host |-> l, node |-> l, stride |-> 1]
    BY IndexZero
  <2>2. QED
    BY <1>1, <2>1 DEF Index, Links
<1>7. /\ c \in Call /\ c.op = "copy" /\ c.list = l /\ c.idx = idx /\ c.taken = <<>>
      /\ c.plan = Selected(idx) /\ ~Cuts(c)
  <2>1. <<>> \in Seq(Nodes)
    OBVIOUS
  <2> HIDE DEF self
  <2>2. QED
    BY <1>1, <1>3, <1>5, <1>6, <2>1 DEF NewCall, Call, Cuts
<1> HIDE DEF c
<1>8. /\ Clearing(l) \in Call /\ Clearing(l).op = "clear" /\ Clearing(l).list = l /\ ~Cuts(Clearing(l))
  BY <1>1, ClearingCall
<1>9. /\ calls' \in Seq(Call) /\ Len(calls') = 2 /\ calls'[1] = c /\ calls'[2] = Clearing(l)
      /\ Open(calls') = {} /\ Stack(calls', s)
  BY <1>1, <1>7, <1>8, TwoCalls
<1>10. CopyOK(c, s)
  <2>1. <<>> \o Selected(idx) = Selected(idx)
    BY <1>5
  <2>2. Ahead(c, s, p)
    BY <1>4, <1>5, <1>7, <2>1 DEF Ahead
  <2>3. QED
    BY <1>1, <1>7, <2>2 DEF CopyOK
<1>11. \A n \in ToSet(s[l]) : Plain(n)
  BY <1>1, ElementsListed DEF Room
<1>12. Bottom(calls', s)
  BY <1>7, <1>8, <1>9, <1>10, <1>11 DEF Bottom
<1>13. QED
  BY <1>1, <1>2, <1>9, <1>12, Whole DEF Follows

-----------------------------------------------------------------------------
(* Steps of calls that clear *)

LEMMA TopClear ==
  ASSUME NEW s, Represents(s), Calling("clear")
  PROVE  /\ calls \in Seq(Call) /\ calls # <<>> /\ Top = calls[Len(calls)] /\ Top \in Call /\ Top.op = "clear"
         /\ Len(calls) \in Nat \ {0} /\ Len(calls) \in 1..Len(calls)
         /\ (\A k \in 1..(Len(calls) - 1) : k \in 1..Len(calls) /\ k < Len(calls))
         /\ \A k \in 1..Len(calls) : k # Len(calls) => k \in 1..(Len(calls) - 1)
         /\ \A k \in 1..Len(calls) : calls[k] \in Call /\ calls[k].list \in Heads
         /\ Top.list \in Heads /\ Top.idx \in Index
         /\ Replaced(Top) = [calls EXCEPT ![Len(calls)] = Top]
<1>1. calls \in Seq(Call) /\ calls # <<>> /\ Top = calls[Len(calls)] /\ Top.op = "clear"
  BY Parts DEF Calling, Top
<1>2. Len(calls) \in Nat \ {0}
  BY <1>1, LenProperties, EmptySeq
<1>3. /\ Len(calls) \in 1..Len(calls)
      /\ (\A k \in 1..(Len(calls) - 1) : k \in 1..Len(calls) /\ k < Len(calls))
      /\ \A k \in 1..Len(calls) : k # Len(calls) => k \in 1..(Len(calls) - 1)
  BY <1>2
<1>4. \A k \in 1..Len(calls) : calls[k] \in Call
  BY <1>1, LenProperties
<1>5. \A k \in 1..Len(calls) : calls[k].list \in Heads
  BY <1>4 DEF Call
<1>6. Top \in Call /\ Top.list \in Heads /\ Top.idx \in Index
  BY <1>1, <1>3, <1>4 DEF Call
<1>7. QED
  BY <1>1, <1>2, <1>3, <1>4, <1>5, <1>6 DEF Replaced

\* The lists that the calls below the top one clear are others; if there are any, no
\* value of a node of the top one has a list to be deleted.
LEMMA Below ==
  ASSUME RemoveNested = FALSE, NEW s, Represents(s), Calling("clear"),
         NEW k \in 1..(Len(calls) - 1), Cuts(calls[k])
  PROVE  /\ calls[k].list # Top.list
         /\ \A n \in ToSet(s[Top.list]) : Plain(n) \/ n \in MapNodes
<1>1. k \in 1..Len(calls) /\ k < Len(calls) /\ Len(calls) \in 1..Len(calls) /\ Top = calls[Len(calls)]
  BY TopClear
<1>2. Apart(s) /\ Holds(s) /\ calls \in Seq(Call) /\ Stack(calls, s)
  BY Parts
<1> DEFINE N == Len(calls)
<1>3. /\ calls[k].list # calls[N].list
      /\ \A n \in ToSet(s[calls[N].list]) : Plain(n) \/ n \in MapNodes
  BY <1>1, <1>2, UpperCalls
<1>4. QED
  BY <1>1, <1>3

\* The nodes that calls are at when the top one is at a node.
LEMMA Held ==
  ASSUME NEW s, Represents(s), AtNode
  PROVE  /\ Calling("clear") /\ Cuts(Top) /\ Top.list \in Open(calls)
         /\ Top.idx.node = At(s, Top.list, 1) /\ Top.idx.node \in Nodes
         /\ Top.idx.node \in ToSet(s[Top.list]) /\ s[Top.list] # <<>>
         /\ \A k \in 1..Len(calls) : Cuts(calls[k]) =>
              /\ s[calls[k].list] # <<>> /\ calls[k].idx.node \in ToSet(s[calls[k].list])
              /\ k # Len(calls) => ~Plain(calls[k].idx.node)
<1>1. Calling("clear") /\ Cuts(Top) /\ Top.idx.node # Top.list
  BY DEF AtNode, Calling, Cuts
<1>2. /\ Top = calls[Len(calls)] /\ Len(calls) \in 1..Len(calls) /\ Top.list \in Heads
      /\ \A k \in 1..Len(calls) : k # Len(calls) => k \in 1..(Len(calls) - 1)
      /\ (\A k \in 1..(Len(calls) - 1) : k \in 1..Len(calls) /\ k < Len(calls))
      /\ \A k \in 1..Len(calls) : calls[k].list \in Heads
  BY <1>1, TopClear
<1>3. Apart(s) /\ Stack(calls, s)
  BY Parts
<1>4. Top.idx.node = At(s, Top.list, 1)
  BY <1>1, <1>2, <1>3 DEF Stack
<1>5. Top.idx.node \in Nodes
  BY <1>1, <1>2, <1>3, <1>4, Places
<1>6. Top.list \in Open(calls)
  BY <1>1, <1>2 DEF Open
<1>7. Top.idx.node \in ToSet(s[Top.list]) /\ s[Top.list] # <<>>
  BY <1>2, <1>3, <1>4, <1>5, FirstNode
<1>8. ASSUME NEW k \in 1..Len(calls), Cuts(calls[k])
      PROVE  /\ s[calls[k].list] # <<>> /\ calls[k].idx.node \in ToSet(s[calls[k].list])
             /\ k # Len(calls) => ~Plain(calls[k].idx.node)
  <2>1. CASE k = Len(calls)
    BY <1>2, <1>7, <2>1
  <2>2. CASE k # Len(calls)
    <3>1. k < Len(calls)
      BY <1>2, <2>2
    <3>2. calls[k].idx.node = At(s, calls[k].list, 1)
      BY <1>3, <1>8 DEF Stack
    <3>3. calls[k].idx.node \in Nodes \ MapNodes /\ ~Plain(calls[k].idx.node)
      <4> DEFINE N == Len(calls)
      <4>1. N \in 1..Len(calls) /\ k < N
        BY <1>2, <3>1
      <4> HIDE DEF N
      <4>2. QED
        BY <1>3, <1>8, <4>1 DEF Stack
    <3>4. QED
      BY <1>2, <1>3, <3>2, <3>3, FirstNode
  <2>3. QED
    BY <2>1, <2>2
<1>9. QED
  BY <1>1, <1>4, <1>5, <1>6, <1>7, <1>8

\* What is copied has plain nodes, and so has the list that makes room.
LEMMA NothingCopied ==
  ASSUME NEW s, Represents(s), AtNode, ~Plain(Top.idx.node)
  PROVE  calls[1].op # "copy"
<1>1. /\ Top.idx.node \in ToSet(s[Top.list]) /\ Calling("clear")
  BY Held
<1>2. Top = calls[Len(calls)] /\ Top.op = "clear" /\ calls # <<>>
  BY <1>1, TopClear
<1>3. Bottom(calls, s)
  BY Parts
<1>4. SUFFICES ASSUME calls[1].op = "copy" PROVE FALSE
  OBVIOUS
<1>5. /\ Len(calls) = 1 \/ (Len(calls) = 2 /\ calls[2].list = calls[1].list)
      /\ \A n \in ToSet(s[calls[1].list]) : Plain(n)
  BY <1>2, <1>3, <1>4 DEF Bottom
<1>6. Len(calls) = 2
  BY <1>2, <1>4, <1>5
<1>7. QED
  BY <1>1, <1>2, <1>5, <1>6

LEMMA BottomReplaced ==
  ASSUME NEW cs \in Seq(Call), cs # <<>>, NEW s, Bottom(cs, s), cs[Len(cs)].op = "clear",
         NEW c \in Call, c.op = "clear", c.list = cs[Len(cs)].list, NEW t,
         cs[1].op = "copy" => CopyOK(cs[1], t) /\ \A n \in ToSet(t[cs[1].list]) : Plain(n)
  PROVE  /\ Bottom([cs EXCEPT ![Len(cs)] = c], t)
         /\ [cs EXCEPT ![Len(cs)] = c][1] = cs[1] \/ [cs EXCEPT ![Len(cs)] = c][1].op = "clear"
<1> DEFINE r == [cs EXCEPT ![Len(cs)] = c]
           n == Len(cs)
<1>1. Len(r) = n /\ r[n] = c /\ (\A k \in 1..n : k # n => r[k] = cs[k]) /\ n \in Nat \ {0}
  BY Replacing
<1>2. cs[n].op = "clear" /\ c.list = cs[n].list
  OBVIOUS
<1>3. cs[1].op = "copy" => n = 1 \/ (n = 2 /\ cs[2].list = cs[1].list)
  BY DEF Bottom
<1> HIDE DEF r, n
<1>4. r[1] = cs[1] \/ r[1].op = "clear"
  <2>1. 1 \in 1..n
    BY <1>1
  <2>2. QED
    BY <1>1, <2>1
<1>5. cs[1].op = "copy" => Len(r) = 1 \/ (Len(r) = 2 /\ r[2].list = cs[1].list)
  BY <1>1, <1>2, <1>3
<1>6. Bottom(r, t)
  BY <1>4, <1>5, BottomAbove
<1>7. QED
  BY <1>4, <1>6 DEF r

LEMMA ClearBeginStep ==
  ASSUME RemoveNested = FALSE, NEW s, Represents(s), ClearBegin
  PROVE  \E t : Represents(t)' /\ Follows(s, t)
<1> DEFINE l == Top.list
           c == [Top EXCEPT !.begun = TRUE, !.idx.node = mem.next[l]]
           N == Len(calls)
<1>1. /\ Calling("clear") /\ ~Top.begun /\ calls' = [calls EXCEPT ![N] = c]
      /\ mem' = mem /\ length' = length /\ guessed' = guessed
  BY DEF ClearBegin, Replaced
<1>2. /\ calls \in Seq(Call) /\ calls # <<>> /\ Top = calls[N] /\ Top \in Call /\ Top.op = "clear"
      /\ l \in Heads /\ Top.idx \in Index
      /\ \A k \in 1..N : k # N => k \in 1..(N - 1)
  BY <1>1, TopClear
<1>3. /\ Shape(mem, s, Open(calls)) /\ Apart(s) /\ Holds(s) /\ Counted(length, guessed, s, Open(calls))
      /\ Stack(calls, s) /\ Bottom(calls, s)
  BY Parts
<1>4. l \notin Open(calls)
  <2>1. ~Cuts(Top)
    BY <1>1 DEF Cuts
  <2>2. ASSUME NEW k \in 1..N, Cuts(calls[k]) PROVE calls[k].list # l
    <3>1. k \in 1..(N - 1)
      BY <1>2, <2>1, <2>2
    <3>2. QED
      BY <1>1, <2>2, <3>1, Below
  <2>3. QED
    BY <2>2 DEF Open
<1>5. Shape(mem, s, Open(calls) \cup {l}) /\ mem.next[l] = At(s, l, 1) /\ mem.next[l] \in Links
  <2>1. At(s, l, 1) \in Links
    BY <1>2, <1>3, Places
  <2>2. QED
    BY <1>2, <1>3, <1>4, <2>1, OpenShape
<1>6. c \in Call /\ c.op = "clear" /\ c.list = l /\ c.begun /\ c.idx.node = At(s, l, 1) /\ Cuts(c)
  <2>1. DOMAIN Top = {"op", "list", "self", "idx", "begun", "deleted", "taken", "plan"} /\ DOMAIN Top.idx = {"host", "node", "stride"}
    BY <1>2 DEF Call, Index
  <2>2. c.op = "clear" /\ c.list = l /\ c.begun = TRUE /\ c.idx.node = At(s, l, 1)
    BY <1>2, <1>5, <2>1
  <2>3. c \in Call
    BY <1>2, <1>5 DEF Call, Index
  <2>4. QED
    BY <2>2, <2>3 DEF Cuts
<1> HIDE DEF c
<1>7. /\ calls' \in Seq(Call)
  BY <1>1, <1>2, <1>6, Replacing
<1>8. Open(calls') = Open(calls) \cup {l}
  BY <1>1, <1>2, <1>6, OpenReplaced
<1>9. Stack(calls', s)
  BY <1>1, <1>2, <1>3, <1>6, StackReplaced
<1>10. Bottom(calls', s)
  <2>1. calls[1].op = "copy" => CopyOK(calls[1], s) /\ \A n \in ToSet(s[calls[1].list]) : Plain(n)
    BY <1>2, <1>3 DEF Bottom
  <2>2. QED
    BY <1>1, <1>2, <1>3, <1>6, <2>1, BottomReplaced
<1>11. Counted(length', guessed', s, Open(calls'))
  BY <1>1, <1>3, <1>8 DEF Counted, Lengths
<1>12. QED
  BY <1>1, <1>3, <1>5, <1>7, <1>8, <1>9, <1>10, <1>11, Whole DEF Follows

LEMMA DeleteListStep ==
  ASSUME RemoveNested = FALSE, NEW s, Represents(s), DeleteList
  PROVE  \E t : Represents(t)' /\ Follows(s, t)
<1> DEFINE l == Top.list
           n == Top.idx.node
           c == [Top EXCEPT !.deleted = TRUE]
           N == Len(calls)
           r == [calls EXCEPT ![N] = c]
           a == Clearing(Stale)
           b == Clearing(OwnedList[n])
<1>1. /\ AtNode /\ ~Plain(n) /\ n \notin MapNodes /\ calls' = r \o <<a, b>>
      /\ mem' = mem /\ length' = length /\ guessed' = guessed
  BY DEF DeleteList, Replaced
<1>2. /\ Calling("clear") /\ Cuts(Top) /\ n = At(s, l, 1) /\ n \in Nodes /\ n \in ToSet(s[l])
      /\ l \in Open(calls)
  BY <1>1, Held
<1>3. /\ calls \in Seq(Call) /\ calls # <<>> /\ Top = calls[N] /\ Top \in Call /\ Top.op = "clear"
      /\ N \in Nat \ {0} /\ l \in Heads
      /\ \A k \in 1..(N - 1) : k \in 1..N /\ k < N
  BY <1>2, TopClear
<1>4. /\ Shape(mem, s, Open(calls)) /\ Holds(s) /\ Counted(length, guessed, s, Open(calls))
      /\ Stack(calls, s) /\ Bottom(calls, s)
  BY Parts
<1>5. c \in Call /\ c.op = "clear" /\ c.list = l /\ c.idx = Top.idx /\ Cuts(c)
  BY <1>2, <1>3 DEF Call, Cuts
<1>6. OwnedList[n] \in Lists /\ OwnedList[n] \in Heads /\ Stale \in Heads
  BY <1>1, <1>2, ValuesAssumption DEF Plain, Heads
<1>7. /\ a \in Call /\ a.op = "clear" /\ a.list = Stale /\ ~Cuts(a)
      /\ b \in Call /\ b.op = "clear" /\ b.list = OwnedList[n] /\ ~Cuts(b)
  BY <1>6, ClearingCall
<1> HIDE DEF a, b, c
<1>8. /\ r \in Seq(Call) /\ Len(r) = N /\ r[N] = c /\ \A k \in 1..N : k # N => r[k] = calls[k]
  BY <1>3, <1>5, Replacing
<1>9. Open(r) = Open(calls)
  <2>1. Open(r) = Open(calls) \cup {c.list}
    BY <1>2, <1>3, <1>5, OpenReplaced
  <2>2. QED
    BY <1>2, <1>5, <2>1
<1>10. Stack(r, s)
  BY <1>2, <1>3, <1>4, <1>5, StackReplaced
<1>11. ASSUME NEW k \in 1..(N - 1) PROVE ~Cuts(r[k])
  <2>1. ~Cuts(calls[k])
    BY <1>1, <1>2, Below
  <2>2. r[k] = calls[k]
    <3> HIDE DEF r, N
    <3>1. k \in 1..N /\ k # N
      BY <1>3
    <3>2. QED
      BY <1>8, <3>1
  <2>3. QED
    BY <2>1, <2>2
<1>12. r # <<>> /\ (r[1] = calls[1] \/ r[1].op = "clear")
  <2>1. 1 \in 1..N
    BY <1>3
  <2>2. r[1] = calls[1] \/ r[1].op = "clear"
    BY <1>5, <1>8, <2>1
  <2> HIDE DEF r
  <2>3. QED
    BY <1>3, <1>8, <2>2
<1> HIDE DEF r
<1>13. r[N].idx.node = n /\ N = Len(r)
  BY <1>5, <1>8
<1> HIDE DEF N, n, l
<1>14. Stack(calls', s)
  <2>1. r[Len(r)].idx.node = n /\ \A k \in 1..(Len(r) - 1) : ~Cuts(r[k])
    BY <1>11, <1>13
  <2>2. Stack(r \o <<a, b>>, s)
    BY <1>1, <1>2, <1>7, <1>8, <1>10, <1>12, <2>1, StackPushed
  <2>3. QED
    BY <1>1, <2>2
<1> DEFINE ds == <<a, b>>
<1>15. ds \in Seq(Call) /\ Len(ds) = 2 /\ ds[1] = a /\ ds[2] = b /\ \A k \in 1..Len(ds) : ~Cuts(ds[k])
  BY <1>7
<1> HIDE DEF ds
<1>16. calls' = r \o ds
  BY <1>1 DEF ds
<1>17. calls' \in Seq(Call) /\ Open(calls') = Open(calls) /\ calls'[1] = r[1]
  <2>1. r \o ds \in Seq(Call) /\ \A k \in 1..Len(r) : (r \o ds)[k] = r[k]
    BY <1>8, <1>15, Pushing
  <2>2. Open(r \o ds) = Open(r)
    BY <1>8, <1>15, OpenPushed
  <2>3. 1 \in 1..Len(r)
    BY <1>3, <1>13
  <2>4. QED
    BY <1>9, <1>16, <2>1, <2>2, <2>3
<1>18. Bottom(calls', s)
  <2>1. calls[1].op # "copy"
    BY <1>1, NothingCopied DEF n
  <2>2. calls[Len(calls)].op = "clear"
    BY <1>3 DEF N
  <2>3. QED
    BY <1>3, <1>4, <1>12, <1>17, <2>1, <2>2, BottomAbove
<1>19. QED
  BY <1>1, <1>4, <1>14, <1>17, <1>18, Whole DEF Follows

\* The bucket of a map whose node is freed is in no call.
LEMMA BucketClosed ==
  ASSUME NEW s, Represents(s), AtNode, Top.idx.node \in MapNodes
  PROVE  /\ ~Plain(Top.idx.node) /\ OwnedList[Top.idx.node] \in Lists
         /\ OwnedList[Top.idx.node] \notin Open(calls)
<1> DEFINE n == Top.idx.node
           b == OwnedList[n]
<1>1. /\ Calling("clear") /\ n \in Nodes /\ n \in ToSet(s[Top.list])
      /\ \A k \in 1..Len(calls) : Cuts(calls[k]) =>
           /\ calls[k].idx.node \in ToSet(s[calls[k].list])
           /\ k # Len(calls) => ~Plain(calls[k].idx.node)
  BY Held
<1>2. ~Plain(n) /\ b \in Lists /\ Owned(b) /\ b \in Heads
  BY <1>1, ValuesAssumption DEF Plain, Owned, Heads
<1>3. Holds(s) /\ Top = calls[Len(calls)]
  BY <1>1, Parts, TopClear
<1> HIDE DEF n, b
<1>4. \A x \in ToSet(s[b]) : Plain(x)
  BY <1>2, <1>3, HeadsAssumption DEF Holds, MayHold
<1>5. ASSUME NEW k \in 1..Len(calls), Cuts(calls[k]) PROVE calls[k].list # b
  <2>1. CASE k = Len(calls)
    <3>1. calls[k].list = Top.list
      BY <1>3, <2>1
    <3>2. QED
      BY <1>1, <1>2, <1>4, <3>1
  <2>2. CASE k # Len(calls)
    BY <1>1, <1>4, <1>5, <2>2
  <2>3. QED
    BY <2>1, <2>2
<1>6. QED
  BY <1>2, <1>5 DEF Open, n, b

LEMMA DeleteMapStep ==
  ASSUME NEW s, Represents(s), DeleteMap
  PROVE  \E t : Represents(t)' /\ Follows(s, t)
<1> DEFINE l == Top.list
           n == Top.idx.node
           b == OwnedList[n]
           c == [Top EXCEPT !.deleted = TRUE]
           N == Len(calls)
           p == Len(s[Cache]) + 1
           t == JoinedTo(s, Cache, p, b)
<1>1. /\ AtNode /\ n \in MapNodes /\ Join(Cache, Cache, b) /\ calls' = [calls EXCEPT ![N] = c]
  BY DEF DeleteMap, Replaced
<1>2. /\ Calling("clear") /\ Cuts(Top) /\ n = At(s, l, 1) /\ n \in Nodes /\ l \in Open(calls)
      /\ \A k \in 1..N : Cuts(calls[k]) => s[calls[k].list] # <<>>
  BY <1>1, Held
<1>3. /\ calls \in Seq(Call) /\ calls # <<>> /\ Top = calls[N] /\ Top \in Call /\ Top.op = "clear"
      /\ l \in Heads /\ \A k \in 1..(N - 1) : k \in 1..N
  BY <1>2, TopClear
<1>4. /\ Shape(mem, s, Open(calls)) /\ Holds(s) /\ Counted(length, guessed, s, Open(calls)) /\ Apart(s)
      /\ Stack(calls, s) /\ Bottom(calls, s)
  BY Parts
<1>5. ~Plain(n) /\ b \in Lists /\ b \notin Open(calls) /\ b \in Heads /\ Cache \in Heads
  <2>1. ~Plain(n) /\ b \in Lists /\ b \notin Open(calls)
    BY <1>1, BucketClosed
  <2>2. QED
    BY <2>1, HeadsAssumption DEF Heads
<1>6. c \in Call /\ c.op = "clear" /\ c.list = l /\ c.idx = Top.idx /\ Cuts(c)
  BY <1>2, <1>3 DEF Call, Cuts
<1>7. Len(s[Cache]) \in Nat /\ p \in 1..(Len(s[Cache]) + 1) /\ At(s, Cache, p) = Cache
  <2>1. Len(s[Cache]) \in Nat
    BY <1>4, <1>5, Places
  <2>2. QED
    BY <2>1 DEF At
<1>8. Cache \in Open(calls) => p > 1
  <2>1. ASSUME Cache \in Open(calls) PROVE s[Cache] # <<>>
    BY <1>2, <2>1 DEF Open
  <2>2. s[Cache] # <<>> => Len(s[Cache]) # 0
    BY <1>4, <1>5, EmptySeq DEF Apart
  <2>3. QED
    BY <1>7, <2>1, <2>2
<1>9. \A x \in ToSet(s[b]) : MayHold(Cache, x)
  <2>1. Owned(b)
    BY <1>2 DEF Owned
  <2>2. QED
    BY <1>4, <1>5, <2>1, HeadsAssumption DEF Holds, MayHold
<1> HIDE DEF b, p, l, n
<1>10. Join(Cache, At(s, Cache, p), b)
  BY <1>1, <1>7
<1>11. /\ Shape(mem', t, Open(calls)) /\ Holds(t) /\ Counted(length', guessed', t, Open(calls)) /\ Follows(s, t)
       /\ \A h \in Heads \ {b, Cache} : t[h] = s[h]
       /\ Cache \in Open(calls) => At(t, Cache, 1) = At(s, Cache, 1)
  BY <1>4, <1>5, <1>7, <1>8, <1>9, <1>10, JoinStep
<1> HIDE DEF t, c
<1>12. ASSUME NEW h \in Open(calls) PROVE At(t, h, 1) = At(s, h, 1)
  <2>1. h # b /\ h \in Heads
    BY <1>4, <1>5 DEF Shape
  <2>2. CASE h = Cache
    BY <1>11, <2>2
  <2>3. CASE h # Cache
    BY <1>11, <2>1, <2>3 DEF At
  <2>4. QED
    BY <2>2, <2>3
<1>13. calls' \in Seq(Call)
  BY <1>1, <1>3, <1>6, Replacing
<1>14. Open(calls') = Open(calls)
  <2>1. Open(calls') = Open(calls) \cup {c.list}
    BY <1>1, <1>3, <1>6, OpenReplaced DEF l
  <2>2. QED
    BY <1>2, <1>6, <2>1
<1>15. Stack(calls', t)
  <2>1. c.idx.node = At(t, c.list, 1)
    BY <1>2, <1>6, <1>12 DEF n
  <2>2. \A k \in 1..(N - 1) : Cuts(calls[k]) => At(t, calls[k].list, 1) = At(s, calls[k].list, 1)
    BY <1>3, <1>12 DEF Open
  <2>3. c.list = calls[N].list
    BY <1>3, <1>6 DEF l
  <2>4. QED
    BY <1>1, <1>3, <1>4, <1>6, <2>1, <2>2, <2>3, StackReplaced
<1>16. Bottom(calls', t)
  <2>1. calls[1].op # "copy"
    BY <1>1, <1>5, NothingCopied DEF n
  <2>2. c.list = calls[N].list /\ calls[N].op = "clear"
    BY <1>3, <1>6 DEF l
  <2>3. QED
    BY <1>1, <1>3, <1>4, <1>6, <2>1, <2>2, BottomReplaced
<1>17. QED
  BY <1>11, <1>13, <1>14, <1>15, <1>16, Whole

LEMMA FreeNodeStep ==
  ASSUME RemoveNested = FALSE, NEW s, Represents(s), FreeNode
  PROVE  \E t : Represents(t)' /\ Follows(s, t)
<1> DEFINE l == Top.list
           n == Top.idx.node
           c == [Top EXCEPT !.deleted = FALSE, !.idx.node = mem.next[n]]
           N == Len(calls)
           t == [s EXCEPT ![l] = Tail(@)]
<1>1. /\ AtNode /\ calls' = [calls EXCEPT ![N] = c] /\ length' = length /\ guessed' = guessed
      /\ mem' = [next |-> [mem.next EXCEPT ![n] = Nil], prev |-> [mem.prev EXCEPT ![n] = Nil]]
  BY DEF FreeNode, NextLeft, Replaced
<1>2. /\ Calling("clear") /\ Cuts(Top) /\ n = At(s, l, 1) /\ n \in Nodes /\ l \in Open(calls) /\ s[l] # <<>>
  BY <1>1, Held
<1>3. /\ calls \in Seq(Call) /\ calls # <<>> /\ Top = calls[N] /\ Top \in Call /\ Top.op = "clear"
      /\ l \in Heads /\ Top.idx \in Index
      /\ \A k \in 1..(N - 1) : k \in 1..N
      /\ \A k \in 1..N : calls[k].list \in Heads
  BY <1>2, TopClear
<1>4. /\ Shape(mem, s, Open(calls)) /\ Holds(s) /\ Counted(length, guessed, s, Open(calls)) /\ Apart(s)
      /\ Stack(calls, s) /\ Bottom(calls, s) /\ s[l] \in Seq(Nodes) /\ DOMAIN s = Heads
  BY <1>3, Parts DEF Apart
<1>5. Shape(mem', t, Open(calls)) /\ mem.next[n] = At(t, l, 1)
  <2> DEFINE m2 == [next |-> [mem.next EXCEPT ![n] = Nil], prev |-> [mem.prev EXCEPT ![n] = Nil]]
             open == Open(calls)
  <2>1. Shape(mem, s, open) /\ l \in open /\ s[l] # <<>> /\ n = At(s, l, 1)
    BY <1>2, <1>4
  <2> HIDE DEF l, n, open, c, N
  <2>2. Shape(m2, t, open) /\ mem.next[n] = At(t, l, 1) /\ n \in Nodes
    BY <2>1, FreeShape
  <2>3. mem.next[n] = At(t, l, 1)
    BY <2>2
  <2>4. mem' = m2
    BY <1>1
  <2> HIDE DEF m2, t
  <2>5. QED
    BY <2>2, <2>3, <2>4 DEF open
<1>6. /\ t[l] = Tail(s[l]) /\ \A h \in Heads \ {l} : t[h] = s[h]
  BY <1>3, <1>4
<1>7. Seqs!Change(s, t)
  BY <1>2, <1>3, <1>4, DropChange
<1>8. Apart(t) /\ mem.next[n] \in Links
  <2>1. Apart(t)
    BY <1>5 DEF Shape
  <2> HIDE DEF t
  <2>2. QED
    BY <1>3, <1>5, <2>1, Places
<1>9. ToSet(t[l]) \subseteq ToSet(s[l])
  <2>0. 1 \in 1..1
    OBVIOUS
  <2>1. Tail(s[l]) = CutOut(s[l], 1, 1) /\ 1 \in 1..Len(s[l])
    <3> DEFINE e == s[l]
    <3>1. e \in Seq(Nodes) /\ e # <<>>
      BY <1>2, <1>4
    <3> HIDE DEF e
    <3>2. Tail(e) = CutOut(e, 1, 1) /\ 1 \in 1..Len(e)
      BY <3>1, TailIsCut
    <3>3. QED
      BY <3>2 DEF e
  <2>2. ToSet(s[l]) = ToSet(CutOut(s[l], 1, 1)) \cup ToSet(SubSeq(s[l], 1, 1))
    BY <1>4, <2>0, <2>1, CutMembers
  <2>3. QED
    BY <1>6, <2>1, <2>2
<1>10. c \in Call /\ c.op = "clear" /\ c.list = l /\ c.idx.node = mem.next[n] /\ Cuts(c)
  <2>1. DOMAIN Top.idx = {"host", "node", "stride"}
        /\ DOMAIN Top = {"op", "list", "self", "idx", "begun", "deleted", "taken", "plan"}
    BY <1>3 DEF Call, Index
  <2>2. c.op = "clear" /\ c.list = l /\ c.begun = Top.begun /\ c.idx.node = mem.next[n]
    BY <1>3, <2>1
  <2>3. c \in Call
    BY <1>3, <1>8 DEF Call, Index
  <2>4. QED
    BY <1>2, <2>2, <2>3 DEF Cuts
<1> HIDE DEF c, t, n
<1>11. Holds(t)
  BY <1>3, <1>4, <1>6, <1>9 DEF Holds
<1>12. calls' \in Seq(Call)
  BY <1>1, <1>3, <1>10, Replacing
<1>13. Open(calls') = Open(calls)
  <2>1. Open(calls') = Open(calls) \cup {c.list}
    BY <1>1, <1>3, <1>10, OpenReplaced
  <2>2. QED
    BY <1>2, <1>10, <2>1
<1>14. Counted(length', guessed', t, Open(calls'))
  <2>1. \A h \in Heads \ (guessed \cup Open(calls)) : t[h] = s[h]
    BY <1>2, <1>6
  <2>2. QED
    BY <1>1, <1>4, <1>13, <2>1 DEF Counted, Lengths
<1>15. Stack(calls', t)
  <2>1. ASSUME NEW k \in 1..(N - 1), Cuts(calls[k]) PROVE At(t, calls[k].list, 1) = At(s, calls[k].list, 1)
    <3>1. calls[k].list # l /\ calls[k].list \in Heads
      BY <1>2, <1>3, <2>1, Below
    <3>2. t[calls[k].list] = s[calls[k].list]
      BY <1>6, <3>1
    <3>3. QED
      BY <3>2 DEF At
  <2>2. c.list = calls[N].list /\ c.idx.node = At(t, c.list, 1)
    BY <1>3, <1>5, <1>10
  <2>3. QED
    BY <1>1, <1>3, <1>4, <1>10, <2>1, <2>2, StackReplaced
<1>16. Bottom(calls', t)
  <2>1. ASSUME calls[1].op = "copy"
        PROVE  CopyOK(calls[1], t) /\ \A x \in ToSet(t[calls[1].list]) : Plain(x)
    <3>1. /\ CopyOK(calls[1], s)
          /\ N = 1 \/ (N = 2 /\ calls[2].list = calls[1].list)
          /\ \A x \in ToSet(s[calls[1].list]) : Plain(x)
      BY <1>3, <1>4, <2>1 DEF Bottom
    <3>2. calls[1].list = l /\ CopyOK(calls[1], s)
      BY <1>3, <1>4, <2>1, <3>1 DEF Bottom
    <3>3. calls[1].idx.host # l /\ calls[1].idx.host \in Heads
      <4>1. calls[1] \in Call
        <5>1. 1 \in 1..N
          BY <3>1
        <5>2. QED
          BY <1>3, <5>1, LenProperties
      <4>2. QED
        BY <3>2, <4>1 DEF CopyOK, Call, Index
    <3>4. t[calls[1].idx.host] = s[calls[1].idx.host]
      BY <1>6, <3>3
    <3>5. CopyOK(calls[1], t)
      BY <3>2, <3>4 DEF CopyOK, Ahead, At
    <3>6. QED
      BY <1>9, <3>1, <3>2, <3>5
  <2>2. c.list = calls[N].list /\ calls[N].op = "clear"
    BY <1>3, <1>10
  <2>3. QED
    BY <1>1, <1>3, <1>4, <1>10, <2>1, <2>2, BottomReplaced
<1>17. QED
  BY <1>5, <1>7, <1>11, <1>12, <1>13, <1>14, <1>15, <1>16, Whole DEF Follows

LEMMA ClearDoneStep ==
  ASSUME RemoveNested = FALSE, NEW s, Represents(s), ClearDone
  PROVE  \E t : Represents(t)' /\ Follows(s, t)
<1> DEFINE l == Top.list
           N == Len(calls)
           r == SubSeq(calls, 1, N - 1)
<1>1. /\ Calling("clear") /\ Cuts(Top) /\ Top.idx.node = l
      /\ mem' = Alone(mem, l) /\ length' = [length EXCEPT ![l] = 0] /\ guessed' = guessed \ {l}
      /\ calls' = r
  BY DEF ClearDone, Calling, Cuts, Returned
<1>2. /\ calls \in Seq(Call) /\ calls # <<>> /\ Top = calls[N] /\ Top.op = "clear" /\ N \in 1..N
      /\ l \in Heads /\ N \in Nat \ {0}
  BY <1>1, TopClear
<1>3. /\ Shape(mem, s, Open(calls)) /\ Holds(s) /\ Counted(length, guessed, s, Open(calls)) /\ Apart(s)
      /\ Stack(calls, s) /\ Bottom(calls, s) /\ s[l] \in Seq(Nodes)
  BY <1>2, Parts
<1>4. s[l] = <<>> /\ Len(s[l]) = 0
  <2>1. At(s, l, 1) = l
    BY <1>1, <1>2, <1>3 DEF Stack
  <2>2. 1 \notin 1..Len(s[l])
    BY <1>2, <1>3, <2>1, Places
  <2>3. Len(s[l]) \in Nat
    BY <1>3, LenProperties
  <2>4. Len(s[l]) = 0
    BY <2>2, <2>3
  <2>5. QED
    BY <1>3, <2>4, EmptySeq
<1>5. l \in Open(calls)
  BY <1>1, <1>2 DEF Open
<1>6. Shape(mem', s, Open(calls) \ {l})
  BY <1>1, <1>3, <1>4, <1>5, CloseShape
<1>7. /\ r \in Seq(Call) /\ Len(r) = N - 1 /\ \A k \in 1..(N - 1) : r[k] = calls[k]
  BY <1>2, Returning
<1>8. Open(calls') = Open(calls) \ {l}
  <2>1. \A k \in 1..(N - 1) : Cuts(calls[k]) => calls[k].list # l
    BY <1>1, Below
  <2>2. Cuts(calls[N]) /\ l = calls[N].list
    BY <1>1, <1>2
  <2> HIDE DEF l
  <2>3. Open(SubSeq(calls, 1, Len(calls) - 1)) = Open(calls) \ {calls[Len(calls)].list}
    BY <1>2, <2>1, <2>2, OpenReturned
  <2>4. QED
    BY <1>1, <2>2, <2>3
<1>9. Stack(calls', s)
  BY <1>1, <1>2, <1>3, StackReturned
<1> HIDE DEF r, l
<1>10. Bottom(calls', s)
  <2>1. r # <<>> => r[1] = calls[1]
    <3>1. ASSUME r # <<>> PROVE 1 \in 1..(N - 1)
      <4>1. N - 1 # 0
        BY <1>7, <3>1, EmptySeq
      <4>2. N \in Nat \ {0}
        BY <1>2
      <4> HIDE DEF N
      <4>3. QED
        BY <4>1, <4>2
    <3>2. QED
      BY <1>7, <3>1
  <2>2. ASSUME calls[1].op = "copy"
        PROVE  /\ CopyOK(calls[1], s) /\ \A n \in ToSet(s[calls[1].list]) : Plain(n)
               /\ r = <<>> \/ Len(r) = 1 \/ (Len(r) = 2 /\ r[2].list = calls[1].list)
    <3>1. /\ CopyOK(calls[1], s) /\ \A n \in ToSet(s[calls[1].list]) : Plain(n)
          /\ N = 1 \/ N = 2
      BY <1>2, <1>3, <2>2 DEF Bottom
    <3>2. Len(r) = 0 \/ Len(r) = 1
      BY <1>7, <3>1
    <3>3. QED
      BY <1>7, <3>1, <3>2, EmptySeq
  <2>3. calls[Len(calls)].op = "clear"
    BY <1>2
  <2>4. QED
    BY <1>1, <1>2, <1>3, <2>1, <2>2, <2>3, BottomAbove
<1>11. Counted(length', guessed', s, Open(calls'))
  BY <1>1, <1>2, <1>3, <1>4, <1>8 DEF Counted, Lengths
<1>12. QED
  BY <1>1, <1>3, <1>6, <1>7, <1>8, <1>9, <1>10, <1>11, Whole DEF Follows

-----------------------------------------------------------------------------
(* Steps of calls that copy and move *)

LEMMA SomeCall ==
  ASSUME NEW cs \in Seq(Call), Len(cs) = 1
  PROVE  cs # <<>>
OBVIOUS

LEMMA Pair ==
  ASSUME NEW a \in Call, NEW b \in Call
  PROVE  <<a>> \o <<b>> = <<a, b>>
<1> DEFINE e == <<a>>
           d == <<b>>
           r == <<a, b>>
<1>1. /\ e \in Seq(Call) /\ Len(e) = 1 /\ e[1] = a /\ d \in Seq(Call) /\ Len(d) = 1 /\ d[1] = b
      /\ r \in Seq(Call) /\ Len(r) = 2 /\ r[1] = a /\ r[2] = b
  OBVIOUS
<1> HIDE DEF e, d, r
<1>2. e \o d \in Seq(Call) /\ Len(e \o d) = 2 /\ (e \o d)[1] = a /\ (e \o d)[2] = b
  <2>1. /\ e \o d \in Seq(Call) /\ Len(e \o d) = Len(e) + Len(d)
        /\ (\A k \in 1..Len(e) : (e \o d)[k] = e[k]) /\ \A k \in 1..Len(d) : (e \o d)[Len(e) + k] = d[k]
    BY <1>1, Pushing
  <2>2. 1 \in 1..1 /\ 1 + 1 = 2
    OBVIOUS
  <2>3. QED
    BY <1>1, <2>1, <2>2
<1> DEFINE f == e \o d
<1>3. f \in Seq(Call) /\ Len(f) = 2 /\ f[1] = a /\ f[2] = b
  BY <1>2
<1> HIDE DEF f
<1>4. f = r
  BY <1>1, <1>3, SeqEqual
<1>5. QED
  BY <1>4 DEF f, e, d, r

\* A new node is in its list.
LEMMA LinkMembers ==
  ASSUME NEW s, Apart(s), NEW l \in Heads, NEW p \in 1..(Len(s[l]) + 1), NEW n \in Nodes
  PROVE  \A y \in ToSet(Put(s, l, p, <<n>>)[l]) : y \in ToSet(s[l]) \/ y = n
<1> DEFINE e == s[l]
           d == <<n>>
<1>1. /\ e \in Seq(Nodes) /\ p \in 1..(Len(e) + 1) /\ Put(s, l, p, d)[l] = PutAt(e, p, d)
  BY DEF Apart, Put
<1>2. d \in Seq(Nodes) /\ ToSet(d) = {n}
  BY DEF ToSet
<1> HIDE DEF e, d
<1>3. ToSet(PutAt(e, p, d)) = ToSet(e) \cup ToSet(d)
  BY <1>1, <1>2, PutMembers
<1>4. QED
  BY <1>1, <1>2, <1>3 DEF e, d

LEMMA Single ==
  ASSUME NEW cs \in Seq(Call), Len(cs) = 1, NEW c \in Call
  PROVE  SubSeq(cs, 1, Len(cs) - 1) = <<>> /\ [cs EXCEPT ![Len(cs)] = c] = <<c>>
<1>1. cs # <<>>
  BY SomeCall
<1>2. SubSeq(cs, 1, Len(cs) - 1) = <<>>
  BY <1>1, Returning, EmptySeq
<1>3. [cs EXCEPT ![Len(cs)] = c] = <<c>>
  <2> DEFINE r == [cs EXCEPT ![Len(cs)] = c]
  <2>1. r \in Seq(Call) /\ Len(r) = 1 /\ r[1] = c
    BY <1>1, Replacing
  <2>2. <<c>> \in Seq(Call) /\ Len(<<c>>) = 1 /\ <<c>>[1] = c
    OBVIOUS
  <2> HIDE DEF r
  <2>3. r = <<c>>
    BY <2>1, <2>2, SeqEqual
  <2>4. QED
    BY <2>3 DEF r
<1>4. QED
  BY <1>2, <1>3

LEMMA TopOther ==
  ASSUME NEW s, Represents(s), calls # <<>>, Top.op # "clear"
  PROVE  /\ calls \in Seq(Call) /\ Len(calls) = 1 /\ Top = calls[1] /\ Top \in Call
         /\ Open(calls) = {} /\ Returned = <<>> /\ \A c \in Call : Replaced(c) = <<c>>
         /\ Top.list \in Heads /\ Top.idx \in Index /\ Top.self \in Index
         /\ Top.taken \in Seq(Nodes) /\ Top.plan \in Seq(Nodes)
<1>1. calls \in Seq(Call) /\ Stack(calls, s) /\ Top = calls[Len(calls)]
  BY Parts DEF Top
<1>2. Len(calls) = 1 /\ Open(calls) = {} /\ calls[1] \in Call
  BY <1>1, OnlyCall
<1>3. Returned = <<>>
  BY <1>1, <1>2, Single DEF Returned
<1>4. \A c \in Call : Replaced(c) = <<c>>
  BY <1>1, <1>2, Single DEF Replaced
<1>5. QED
  BY <1>1, <1>2, <1>3, <1>4 DEF Call

\* Calls that return to the program.
LEMMA Returned1 ==
  ASSUME NEW t, calls' = <<>>, Shape(mem', t, {}), Holds(t), Counted(length', guessed', t, {})
  PROVE  Represents(t)'
BY NoCalls, Whole

LEMMA CopyDoneStep ==
  ASSUME NEW s, Represents(s), CopyDone
  PROVE  \E t : Represents(t)' /\ Follows(s, t)
<1>1. /\ calls # <<>> /\ Top.op # "clear" /\ calls' = Returned /\ mem' = mem /\ length' = length
      /\ guessed' = guessed
  BY DEF CopyDone, Calling
<1>2. Returned = <<>> /\ Open(calls) = {}
  BY <1>1, TopOther
<1>3. Shape(mem, s, {}) /\ Holds(s) /\ Counted(length, guessed, s, {})
  BY <1>2, Parts
<1>4. QED
  BY <1>1, <1>2, <1>3, Returned1 DEF Follows

LEMMA AssignDoneStep ==
  ASSUME NEW s, Represents(s), AssignDone
  PROVE  \E t : Represents(t)' /\ Follows(s, t)
<1> DEFINE l == Top.list
           t == JoinedTo(s, l, Len(s[l]) + 1, Temp)
<1>1. /\ calls # <<>> /\ Top.op = "append" /\ calls' = Returned /\ Join(l, l, Temp)
  BY DEF AssignDone, Calling
<1>2. /\ Returned = <<>> /\ Open(calls) = {} /\ Top = calls[1] /\ l \in Heads /\ Temp \in Heads
  BY <1>1, TopOther DEF Heads
<1>3. /\ Shape(mem, s, {}) /\ Holds(s) /\ Counted(length, guessed, s, {}) /\ Bottom(calls, s)
      /\ Len(s[l]) \in Nat
  BY <1>2, Parts
<1>4. l \in Lists
  BY <1>1, <1>2, <1>3 DEF Bottom
<1>5. \A n \in ToSet(s[Temp]) : MayHold(l, n)
  BY <1>2, <1>3, HeadsAssumption DEF Holds, MayHold
<1>6. Len(s[l]) + 1 \in 1..(Len(s[l]) + 1) /\ At(s, l, Len(s[l]) + 1) = l
  BY <1>3 DEF At
<1> HIDE DEF l
<1>7. /\ Shape(mem', t, {}) /\ Holds(t) /\ Counted(length', guessed', t, {}) /\ Follows(s, t)
  BY <1>1, <1>2, <1>3, <1>5, <1>6, JoinStep
<1> HIDE DEF t
<1>8. QED
  BY <1>1, <1>2, <1>7, Returned1

LEMMA MoveDoneStep ==
  ASSUME NEW s, Represents(s), MoveDone
  PROVE  \E t : Represents(t)' /\ Follows(s, t)
<1> DEFINE l == Top.list
           c == [Top EXCEPT !.op = "append"]
<1>1. /\ calls # <<>> /\ Top.op \in {"insert", "pop", "assign"} /\ mem' = mem /\ length' = length
      /\ guessed' = guessed
      /\ calls' = IF Top.op = "assign" THEN Replaced(c) \o <<Clearing(l)>> ELSE Returned
  BY DEF MoveDone, Moves
<1>2. /\ Returned = <<>> /\ Open(calls) = {} /\ Top = calls[1] /\ l \in Heads /\ Top \in Call
      /\ \A x \in Call : Replaced(x) = <<x>>
  BY <1>1, TopOther
<1>3. /\ Shape(mem, s, {}) /\ Holds(s) /\ Counted(length, guessed, s, {}) /\ Bottom(calls, s)
  BY <1>2, Parts
<1>4. CASE Top.op # "assign"
  BY <1>1, <1>2, <1>3, <1>4, Returned1 DEF Follows
<1>5. CASE Top.op = "assign"
  <2>1. c \in Call /\ c.op = "append" /\ c.list = l /\ ~Cuts(c)
    BY <1>2 DEF Call, Cuts
  <2>2. l \in Lists
    BY <1>1, <1>2, <1>3, <1>5 DEF Bottom
  <2>3. /\ Clearing(l) \in Call /\ Clearing(l).op = "clear" /\ ~Cuts(Clearing(l))
    BY <1>2, ClearingCall
  <2> HIDE DEF c, l
  <2>4. calls' = <<c, Clearing(l)>>
    <3>1. calls' = <<c>> \o <<Clearing(l)>>
      BY <1>1, <1>2, <1>5, <2>1 DEF c, l
    <3> DEFINE y == Clearing(l)
    <3>2. y \in Call
      BY <2>3
    <3> HIDE DEF y
    <3>3. <<c>> \o <<y>> = <<c, y>>
      BY <2>1, <3>2, Pair
    <3>4. QED
      BY <3>1, <3>3 DEF y
  <2>5. /\ calls' \in Seq(Call) /\ calls'[1] = c /\ Open(calls') = {} /\ Stack(calls', s)
    BY <2>1, <2>3, <2>4, TwoCalls
  <2>6. Bottom(calls', s)
    BY <2>1, <2>2, <2>5 DEF Bottom
  <2>7. QED
    BY <1>1, <1>3, <2>5, <2>6, Whole DEF Follows
<1>6. QED
  BY <1>4, <1>5

\* A step of a call: what was planned is what was done, the node of the step, and the rest.
LEMMA PlanNext ==
  ASSUME NEW S, NEW e \in Seq(S), NEW p \in 1..Len(e), NEW d \in Int \ {0}, NEW taken \in Seq(S)
  PROVE  taken \o Later(e, p, d) = Append(taken, e[p]) \o Later(e, p + d, d)
<1> DEFINE r == Later(e, p + d, d)
<1>1. Later(e, p, d) = <<e[p]>> \o r /\ r \in Seq(S) /\ e[p] \in S
  BY SteppedFirst, LenProperties DEF Later
<1> HIDE DEF r
<1>2. <<e[p]>> \in Seq(S) /\ Append(taken, e[p]) = taken \o <<e[p]>>
  BY <1>1
<1>3. taken \o (<<e[p]>> \o r) = (taken \o <<e[p]>>) \o r
  BY <1>1, <1>2, SMTT(30)
<1>4. QED
  BY <1>1, <1>2, <1>3 DEF r

\* A place for any position, with the same node and the same nodes from there on.
LEMMA LaterPlace ==
  ASSUME NEW s, Apart(s), NEW h \in Heads, NEW q \in Int, NEW d
  PROVE  \E p \in 0..Len(s[h]) : At(s, h, p) = At(s, h, q) /\ Later(s[h], p, d) = Later(s[h], q, d)
<1>1. Len(s[h]) \in Nat
  BY Places
<1>2. CASE q \in 1..Len(s[h])
  BY <1>1, <1>2
<1>3. CASE q \notin 1..Len(s[h])
  <2>1. 0 \notin 1..Len(s[h]) /\ 0 \in 0..Len(s[h])
    BY <1>1
  <2>2. At(s, h, 0) = At(s, h, q) /\ Later(s[h], 0, d) = Later(s[h], q, d)
    BY <1>3, <2>1 DEF At, Later
  <2>3. QED
    BY <2>1, <2>2
<1>4. QED
  BY <1>2, <1>3

LEMMA CopyNodeStep ==
  ASSUME NEW s, Represents(s), NEW n \in Nodes, CopyNode(n)
  PROVE  \E t : Represents(t)' /\ Follows(s, t)
<1> DEFINE l == Top.list
           h == Top.idx.host
           d == Top.idx.stride
           x == Top.idx.node
           e == s[h]
           t == Put(s, l, Len(s[l]) + 1, <<n>>)
           i == Advanced(mem', Top.idx)
           c == [Top EXCEPT !.idx = i, !.taken = Append(@, x)]
<1>1. /\ calls # <<>> /\ Top.op = "copy" /\ Plain(n) /\ Link(l, n, l) /\ x # h
      /\ calls' = Replaced(c)
  BY DEF CopyNode, Calling, IsValid
<1>2. /\ Open(calls) = {} /\ Top = calls[1] /\ l \in Heads /\ Top \in Call /\ Top.idx \in Index
      /\ h \in Heads /\ d \in Int /\ Top.taken \in Seq(Nodes)
      /\ \A y \in Call : Replaced(y) = <<y>>
  BY <1>1, TopOther DEF Index
<1>3. /\ Apart(s) /\ Bottom(calls, s) /\ Len(s[l]) \in Nat /\ e \in Seq(Nodes) /\ Len(e) \in Nat
  BY <1>2, Parts
<1>4. /\ h # l /\ d # 0 /\ \A y \in ToSet(s[l]) : Plain(y)
      /\ \E p \in 0..Len(e) : Ahead(Top, s, p)
  BY <1>1, <1>2, <1>3 DEF Bottom, CopyOK
<1>5. PICK p \in 0..Len(e) : x = At(s, h, p) /\ Top.plan = Top.taken \o Later(e, p, d)
  BY <1>4 DEF Ahead
<1>6. p \in 1..Len(e) /\ x = e[p] /\ x \in Nodes
  <2>1. p # 0
    BY <1>1, <1>5, SMTT(30) DEF At
  <2>2. p \in 1..Len(e)
    BY <1>3, <2>1
  <2>3. QED
    BY <1>2, <1>3, <1>5, <2>2, Places
<1>7. Len(s[l]) + 1 \in 1..(Len(s[l]) + 1) /\ At(s, l, Len(s[l]) + 1) = l
  BY <1>3 DEF At
<1>8. Link(l, n, At(s, l, Len(s[l]) + 1))
  BY <1>1, <1>7
<1> HIDE DEF l
<1>9. /\ Shape(mem', t, {}) /\ Holds(t) /\ Counted(length', guessed', t, {}) /\ Seqs!Change(s, t)
      /\ (\A k \in Heads \ {l} : t[k] = s[k])
      /\ \A y \in ToSet(t[l]) : y \in ToSet(s[l]) \/ y = n
  <2>1. /\ Shape(mem', t, {}) /\ Holds(t) /\ Counted(length', guessed', t, {}) /\ Seqs!Change(s, t)
    BY <1>2, <1>7, <1>8, LinkStep
  <2>2. \A k \in Heads \ {l} : t[k] = s[k]
    BY <1>2, <1>7, <1>8, LinkStep
  <2>3. \A y \in ToSet(t[l]) : y \in ToSet(s[l]) \/ y = n
    <3> DEFINE k == Len(s[l]) + 1
    <3>1. k \in 1..(Len(s[l]) + 1)
      BY <1>7
    <3> HIDE DEF k
    <3>2. \A y \in ToSet(Put(s, l, k, <<n>>)[l]) : y \in ToSet(s[l]) \/ y = n
      BY <1>2, <1>3, <3>1, LinkMembers
    <3>3. QED
      BY <3>2 DEF k
  <2>4. QED
    BY <2>1, <2>2, <2>3
<1>10. Apart(t) /\ t[h] = e
  BY <1>2, <1>4, <1>9 DEF Shape
<1> HIDE DEF t
<1>11. i = [Top.idx EXCEPT !.node = At(t, h, p + d)]
  <2>1. x = At(t, h, p) /\ p \in 0..Len(t[h]) /\ p # 0 /\ h \notin {}
    BY <1>5, <1>6, <1>10 DEF At
  <2>2. i = [Top.idx EXCEPT !.node = IF p = 0 THEN h ELSE At(t, h, p + d)]
    BY <1>2, <1>9, <2>1, AdvancedPlace
  <2>3. QED
    BY <2>1, <2>2
<1> HIDE DEF i, e
<1>12. PICK q \in 0..Len(e) : At(t, h, q) = At(t, h, p + d) /\ Later(e, q, d) = Later(e, p + d, d)
  <2>1. p + d \in Int
    BY <1>2
  <2>2. \E q \in 0..Len(t[h]) : At(t, h, q) = At(t, h, p + d) /\ Later(t[h], q, d) = Later(t[h], p + d, d)
    <3> DEFINE y == p + d
    <3>1. y \in Int /\ Apart(t) /\ h \in Heads
      BY <1>2, <1>10, <2>1
    <3> HIDE DEF h, d, x, c, y
    <3>2. \E q \in 0..Len(t[h]) : At(t, h, q) = At(t, h, y) /\ Later(t[h], q, d) = Later(t[h], y, d)
      BY <3>1, LaterPlace
    <3>3. QED
      BY <3>2 DEF y
  <2>3. QED
    BY <1>10, <2>2
<1>13. /\ c \in Call /\ c.op = "copy" /\ c.list = l /\ c.plan = Top.plan /\ c.taken = Append(Top.taken, x)
       /\ c.idx = i /\ i.host = h /\ i.stride = d /\ i.node = At(t, h, p + d) /\ ~Cuts(c)
  <2>1. At(t, h, p + d) \in Links
    BY <1>2, <1>10, Places
  <2>2. i \in Index /\ i.host = h /\ i.stride = d /\ i.node = At(t, h, p + d)
    BY <1>2, <1>11, <2>1 DEF Index
  <2>3. Append(Top.taken, x) \in Seq(Nodes)
    BY <1>2, <1>6
  <2> HIDE DEF x, d, h
  <2>4. QED
    BY <1>1, <1>2, <2>2, <2>3 DEF Call, Cuts, l
<1> HIDE DEF c, d, h, x
<1>14. Ahead(c, t, q)
  <2>1. Top.plan = Append(Top.taken, x) \o Later(e, p + d, d)
    <3>1. d \in Int \ {0}
      BY <1>2, <1>4
    <3>2. Top.taken \o Later(e, p, d) = Append(Top.taken, e[p]) \o Later(e, p + d, d)
      <4> DEFINE w == Top.taken
      <4>1. w \in Seq(Nodes) /\ e \in Seq(Nodes) /\ p \in 1..Len(e)
        BY <1>2, <1>3, <1>6
      <4> HIDE DEF w
      <4>2. w \o Later(e, p, d) = Append(w, e[p]) \o Later(e, p + d, d)
        BY <3>1, <4>1, PlanNext
      <4>3. QED
        BY <4>2 DEF w
    <3>3. QED
      BY <1>5, <1>6, <3>2
  <2>2. QED
    BY <1>10, <1>12, <1>13, <2>1 DEF Ahead
<1>15. CopyOK(c, t)
  BY <1>4, <1>10, <1>13, <1>14 DEF CopyOK
<1>16. calls' = <<c>> /\ calls' \in Seq(Call) /\ Len(calls') = 1 /\ calls'[1] = c
  <2>1. calls' = <<c>>
    BY <1>1, <1>2, <1>13
  <2>2. <<c>> \in Seq(Call) /\ Len(<<c>>) = 1 /\ <<c>>[1] = c
    BY <1>13
  <2>3. QED
    BY <2>1, <2>2
<1>17. Open(calls') = {} /\ Stack(calls', t)
  BY <1>13, <1>16, OneCall
<1>18. Bottom(calls', t)
  <2>1. \A y \in ToSet(t[l]) : Plain(y)
    BY <1>1, <1>4, <1>9
  <2>2. QED
    BY <1>13, <1>15, <1>16, <2>1 DEF Bottom
<1>19. QED
  BY <1>9, <1>16, <1>17, <1>18, Whole DEF Follows

-----------------------------------------------------------------------------
(* Steps of calls that move *)

\* The last place of a list.
LEMMA PutEnd ==
  ASSUME NEW S, NEW e \in Seq(S), NEW n \in S
  PROVE  PutAt(e, Len(e) + 1, <<n>>) = Append(e, n)
<1> DEFINE d == <<n>>
           f == PutAt(e, Len(e) + 1, d)
           g == Append(e, n)
<1>1. d \in Seq(S) /\ Len(d) = 1 /\ d[1] = n /\ Len(e) \in Nat
  BY LenProperties
<1>2. /\ g \in Seq(S) /\ Len(g) = Len(e) + 1 /\ g[Len(e) + 1] = n
      /\ \A k \in 1..Len(e) : g[k] = e[k]
  BY <1>1, AppendProperties
<1> HIDE DEF d, g
<1>3. Len(e) + 1 \in 1..(Len(e) + 1)
  BY <1>1
<1>4. /\ f \in Seq(S) /\ Len(f) = Len(e) + Len(d)
      /\ \A k \in 1..(Len(e) + Len(d)) :
           f[k] = IF k < Len(e) + 1 THEN e[k]
                  ELSE IF k < Len(e) + 1 + Len(d) THEN d[k - (Len(e) + 1) + 1] ELSE e[k - Len(d)]
  <2> DEFINE p == Len(e) + 1
  <2>1. p \in 1..(Len(e) + 1)
    BY <1>3
  <2> HIDE DEF p
  <2>2. PutAt(e, p, d) \in Seq(S) /\ Len(PutAt(e, p, d)) = Len(e) + Len(d)
    BY <1>1, <2>1, PutPlaces
  <2>3. \A k \in 1..(Len(e) + Len(d)) :
           PutAt(e, p, d)[k] = IF k < p THEN e[k]
                  ELSE IF k < p + Len(d) THEN d[k - p + 1] ELSE e[k - Len(d)]
    BY <1>1, <2>1, PutPlaces
  <2>4. QED
    BY <2>2, <2>3 DEF p
<1> HIDE DEF f
<1> DEFINE N == Len(e)
<1>5. N \in Nat /\ Len(f) = N + 1 /\ Len(g) = N + 1 /\ N = Len(e)
  BY <1>1, <1>2, <1>4
<1>6. ASSUME NEW k \in 1..(N + 1) PROVE f[k] = g[k]
  <2>1. f[k] = IF k < N + 1 THEN e[k]
               ELSE IF k < N + 1 + 1 THEN d[k - (N + 1) + 1] ELSE e[k - 1]
    BY <1>1, <1>4
  <2>2. \A j \in 1..N : g[j] = e[j]
    BY <1>2
  <2>3. g[N + 1] = n
    BY <1>2
  <2> HIDE DEF N
  <2>4. CASE k \in 1..N
    BY <1>5, <2>1, <2>2, <2>4
  <2>5. CASE k = N + 1
    <3>1. k - (N + 1) + 1 = 1 /\ ~(k < N + 1) /\ k < N + 1 + 1
      BY <1>5, <2>5
    <3>2. f[k] = d[1]
      BY <2>1, <3>1
    <3>3. QED
      BY <1>1, <2>3, <2>5, <3>2
  <2>6. QED
    BY <1>5, <2>4, <2>5
<1>7. f = g
  BY <1>2, <1>4, <1>5, <1>6, SeqEqual
<1>8. QED
  BY <1>7 DEF f, g, d

\* The node before which another one is put, once that has been taken out.
LEMMA CutPlace ==
  ASSUME NEW s, Apart(s), NEW h \in Heads, NEW p \in 1..Len(s[h]), NEW l \in Heads,
         NEW q \in 0..Len(s[l]), l = h => q # p
  PROVE  \E r \in 1..(Len(Cut(s, h, p, p)[l]) + 1) : At(Cut(s, h, p, p), l, r) = At(s, l, q)
<1> DEFINE u == Cut(s, h, p, p)
           N == Len(s[h])
<1>1. N \in Nat /\ p \in p..N /\ Len(s[l]) \in Nat /\ p \in 1..N
  BY Places
<1>2. /\ Apart(u) /\ Len(u[h]) = N - (p - p + 1) /\ \A k \in Heads \ {h} : u[k] = s[k]
  BY <1>1, CutApart
<1>3. \A k \in 0..(N - (p - p + 1) + 1) : At(u, h, k) = At(s, h, IF k < p THEN k ELSE k + (p - p + 1))
  BY <1>1, CutApart
<1>4. Len(u[h]) + 1 = N
  BY <1>1, <1>2
<1>5. ASSUME NEW k \in 0..N PROVE At(u, h, k) = At(s, h, IF k < p THEN k ELSE k + 1)
  <2>1. p - p + 1 = 1 /\ k \in 0..(N - (p - p + 1) + 1)
    BY <1>1
  <2>2. QED
    BY <1>3, <2>1
<1> HIDE DEF u
<1>6. CASE l # h
  <2>1. \E r \in 1..(Len(s[l]) + 1) : At(s, l, r) = At(s, l, q)
    BY <1>1, AnyPlace, SMTT(30)
  <2>2. u[l] = s[l]
    BY <1>2, <1>6
  <2>3. QED
    BY <2>1, <2>2 DEF At, u
<1>7. CASE l = h
  <2>1. q \in 0..N /\ q # p
    BY <1>7
  <2>2. \E r \in 1..N : At(u, h, r) = At(s, h, q)
    <3>1. CASE q = 0
      <4>1. N \in 1..N /\ N \in 0..N /\ ~(N < p) /\ 0 \notin 1..N /\ N + 1 \notin 1..N
        BY <1>1
      <4>2. At(u, h, N) = At(s, h, N + 1)
        BY <1>5, <4>1
      <4>3. At(s, h, N + 1) = At(s, h, q)
        BY <3>1, <4>1 DEF At
      <4>4. QED
        BY <4>1, <4>2, <4>3
    <3>2. CASE q # 0 /\ q < p
      BY <1>1, <1>5, <2>1, <3>2
    <3>3. CASE q > p
      <4> DEFINE r == q - 1
      <4>1. r \in 1..N /\ r \in 0..N /\ ~(r < p) /\ r + 1 = q
        BY <1>1, <2>1, <3>3
      <4> HIDE DEF r
      <4>2. QED
        BY <1>5, <4>1
    <3>4. QED
      BY <1>1, <2>1, <3>1, <3>2, <3>3
  <2>3. QED
    BY <1>4, <1>7, <2>2 DEF u
<1>8. QED
  BY <1>6, <1>7

\* A list without one node.
LEMMA CutLen ==
  ASSUME NEW s, Apart(s), NEW h \in Heads, NEW p \in 1..Len(s[h])
  PROVE  Len(Cut(s, h, p, p)[h]) = Len(s[h]) - (p - p + 1)
<1>1. p \in p..Len(s[h])
  BY Places
<1>2. QED
  BY <1>1, CutApart

\* The p-th node of h went to list l, before x.
Gone(m2, s, t, h, p, l, x) ==
  /\ Shape(m2, t, {}) /\ Holds(t) /\ Follows(s, t)
  /\ \A k \in Heads \ {h, l} : t[k] = s[k]
  /\ h # l => t[h] = CutOut(s[h], p, p) /\ Len(t[h]) = Len(s[h]) - 1 /\ Len(t[l]) = Len(s[l]) + 1
  /\ h = l => Len(t[h]) = Len(s[h])
  /\ \E q \in 0..Len(t[l]) : At(t, l, q) = x
  /\ x = l => \E v \in Seq(Nodes) : t[l] = Append(v, s[h][p]) /\ (h # l => v = s[l])

LEMMA MoveOne ==
  ASSUME NEW m, NEW s, Shape(m, s, {}), Holds(s), NEW h \in Heads, NEW p \in 1..Len(s[h]),
         NEW l \in Heads, NEW q \in 0..Len(s[l]), NEW x, x = At(s, l, q),
         h = l => x \notin {At(s, h, p), At(s, h, p + 1)},
         MayHold(l, s[h][p]),
         NEW m2, m2 = Inserted(m, x, At(s, h, p - 1), At(s, h, p + 1))
  PROVE  \E t : Gone(m2, s, t, h, p, l, x)
<1> DEFINE u == Cut(s, h, p, p)
           d == SubSeq(s[h], p, p)
           n == s[h][p]
<1>1. /\ Apart(s) /\ Len(s[h]) \in Nat /\ Len(s[l]) \in Nat /\ p \in p..Len(s[h]) /\ h \notin {} /\ l \notin {}
      /\ s[h] \in Seq(Nodes) /\ s[l] \in Seq(Nodes) /\ n \in Nodes /\ l \notin Nodes
  BY Places DEF Shape
<1>2. h = l => q # p
  BY <1>1
<1>3. PICK r \in 1..(Len(u[l]) + 1) : At(u, l, r) = x
  BY <1>1, <1>2, CutPlace
<1>4. x # At(s, h, p + 1)
  <2>1. CASE h = l
    BY <2>1
  <2>2. CASE h # l
    <3>1. PICK j \in 1..(Len(s[l]) + 1) : At(s, l, j) = x
      BY <1>1, AnyPlace
    <3>2. p + 1 \in 1..(Len(s[h]) + 1)
      BY <1>1
    <3> DEFINE i == p + 1
    <3> HIDE DEF i
    <3>3. At(s, l, j) # At(s, h, i)
      BY <1>1, <2>2, <3>2, PlaceOnceBehind DEF i
    <3>4. QED
      BY <3>1, <3>3 DEF i
  <2>3. QED
    BY <2>1, <2>2
<1> DEFINE t == Moved(s, h, p, p, l, r)
<1>5. /\ Apart(u) /\ Loose(u, d) /\ Len(d) = p - p + 1 /\ Len(u[h]) = Len(s[h]) - (p - p + 1)
      /\ (\A k \in Heads \ {h} : u[k] = s[k])
  <2>1. Apart(u) /\ Loose(u, d)
    BY <1>1, CutApart
  <2>2. Len(u[h]) = Len(s[h]) - (p - p + 1)
    BY <1>1, CutLen
  <2>3. Len(d) = p - p + 1
    BY <1>1, CutApart
  <2>4. \A k \in Heads \ {h} : u[k] = s[k]
    BY <1>1, CutApart
  <2>5. QED
    BY <2>1, <2>2, <2>3, <2>4
<1>6. /\ d \in Seq(Nodes) /\ Len(d) = 1 /\ d = <<n>> /\ ToSet(d) = {n} /\ Len(u[h]) = Len(s[h]) - 1
  <2>1. p - p + 1 = 1
    BY <1>1
  <2>2. d \in Seq(Nodes) /\ Len(d) = 1 /\ Len(u[h]) = Len(s[h]) - 1
    BY <1>5, <2>1 DEF Loose
  <2>3. d[1] = n
    <3>1. \A k \in 1..(p - p + 1) : d[k] = s[h][p + k - 1]
      BY <1>1, PartPlaces
    <3>2. d[1] = s[h][p + 1 - 1] /\ p + 1 - 1 = p
      BY <1>1, <2>1, <3>1
    <3>3. QED
      BY <3>2
  <2> HIDE DEF d
  <2>4. <<n>> \in Seq(Nodes) /\ Len(<<n>>) = 1 /\ <<n>>[1] = n /\ ToSet(<<n>>) = {n}
    BY <1>1 DEF ToSet
  <2>5. d = <<n>>
    <3> DEFINE e == <<n>>
    <3>1. e \in Seq(Nodes) /\ Len(e) = 1 /\ e[1] = n
      BY <2>4
    <3> HIDE DEF e, n
    <3>2. d = e
      BY <2>2, <2>3, <3>1, SeqEqual
    <3>3. QED
      BY <3>2 DEF e
  <2>6. QED
    BY <2>2, <2>4, <2>5
<1>7. Shape(m2, t, {})
  <2>1. At(Cut(s, h, p, p), l, r) # At(s, h, p + 1) /\ r \in 1..(Len(Cut(s, h, p, p)[l]) + 1) /\ (l \in {} => r > 1)
    BY <1>1, <1>3, <1>4
  <2>2. MovedIn(m, s, h, p, p, l, r) = m2
    BY <1>3 DEF MovedIn
  <2>3. Shape(MovedIn(m, s, h, p, p, l, r), Moved(s, h, p, p, l, r), {})
    BY <1>1, <2>1, MoveShape
  <2>4. QED
    BY <2>2, <2>3
<1> HIDE DEF u
<1>8. /\ t[l] = PutAt(u[l], r, d) /\ u[l] \in Seq(Nodes) /\ Len(u[l]) \in Nat
      /\ \A k \in Heads \ {l} : t[k] = u[k]
  BY <1>5, Places DEF Moved, Put, Apart, u
<1> HIDE DEF t, d
<1>9. Len(t[l]) = Len(u[l]) + 1 /\ ToSet(t[l]) = ToSet(u[l]) \cup {n}
  <2> DEFINE e == u[l]
  <2>1. e \in Seq(Nodes) /\ r \in 1..(Len(e) + 1) /\ t[l] = PutAt(e, r, d) /\ d \in Seq(Nodes)
    BY <1>3, <1>6, <1>8
  <2> HIDE DEF e
  <2>2. Len(PutAt(e, r, d)) = Len(e) + Len(d)
    BY <2>1, PutPlaces
  <2>3. ToSet(PutAt(e, r, d)) = ToSet(e) \cup ToSet(d)
    BY <2>1, PutMembers
  <2>4. QED
    BY <1>6, <2>1, <2>2, <2>3 DEF e
<1>10. \E j \in 0..Len(t[l]) : At(t, l, j) = x
  <2>1. \A k \in 0..(Len(u[l]) + Len(d) + 1) :
          At(Put(u, l, r, d), l, k) = IF k < r THEN At(u, l, k)
                                      ELSE IF k < r + Len(d) THEN d[k - r + 1] ELSE At(u, l, k - Len(d))
    <3>1. Apart(u) /\ Loose(u, d)
      BY <1>5
    <3>2. QED
      BY <1>3, <3>1, PutApart
  <2>2. Put(u, l, r, d) = t
    BY DEF Moved, t, u, d
  <2> DEFINE k == r + 1
  <2>3. k \in 0..(Len(u[l]) + Len(d) + 1) /\ ~(k < r) /\ ~(k < r + Len(d)) /\ k - Len(d) = r /\ k \in Int
    BY <1>3, <1>6, <1>8
  <2> HIDE DEF k
  <2>4. At(t, l, k) = x
    BY <1>3, <2>1, <2>2, <2>3
  <2>5. \E j \in 0..Len(t[l]) : At(t, l, j) = At(t, l, k)
    BY <1>7, <2>3, AnyPlace DEF Shape
  <2>6. QED
    BY <2>4, <2>5
<1>11. ToSet(u[h]) \subseteq ToSet(s[h])
  <2> DEFINE e == s[h]
  <2>1. e \in Seq(Nodes) /\ p \in 1..Len(e) /\ p \in p..Len(e)
    BY <1>1
  <2> HIDE DEF e
  <2>2. ToSet(e) = ToSet(CutOut(e, p, p)) \cup ToSet(SubSeq(e, p, p))
    BY <2>1, CutMembers
  <2>3. u[h] = CutOut(e, p, p)
    BY <1>1 DEF u, e, Cut, Apart
  <2>4. QED
    BY <2>2, <2>3 DEF e
<1>12. Holds(t)
  <2>1. ASSUME NEW k \in Heads, NEW y \in ToSet(t[k]) PROVE MayHold(k, y)
    <3>1. k = l => y \in ToSet(u[l]) \/ y = n
      BY <1>9
    <3>2. k # l => y \in ToSet(u[k])
      BY <1>8
    <3>3. ToSet(u[k]) \subseteq ToSet(s[k])
      <4>1. CASE k = h
        BY <1>11, <4>1
      <4>2. CASE k # h
        BY <1>5, <4>2
      <4>3. QED
        BY <4>1, <4>2
    <3>4. y \in ToSet(s[k]) \/ (k = l /\ y = n)
      BY <3>1, <3>2, <3>3
    <3>5. QED
      BY <3>4 DEF Holds
  <2>2. QED
    BY <2>1 DEF Holds
<1>13. Follows(s, t)
  <2>1. CASE h # l
    <3>1. r \in 1..(Len(s[l]) + 1)
      BY <1>3, <1>5, <2>1
    <3>2. Seqs!Change(s, Moved(s, h, p, p, l, r))
      BY <1>1, <2>1, <3>1, MoveChange
    <3>3. QED
      BY <3>2 DEF Follows, t
  <2>2. CASE h = l
    <3>1. r \in 1..Len(s[h])
      BY <1>1, <1>3, <1>6, <2>2
    <3>2. Moved(s, h, p, p, h, r) = s \/ Seqs!Change(s, Moved(s, h, p, p, h, r))
      BY <1>1, <3>1, ShiftChange
    <3>3. QED
      BY <2>2, <3>2 DEF Follows, t
  <2>3. QED
    BY <2>1, <2>2
<1>14. \A k \in Heads \ {h, l} : t[k] = s[k]
  BY <1>5, <1>8
<1>15. h # l => t[h] = CutOut(s[h], p, p) /\ Len(t[h]) = Len(s[h]) - 1 /\ Len(t[l]) = Len(s[l]) + 1
  <2>1. u[h] = CutOut(s[h], p, p)
    BY <1>1 DEF u, Cut, Apart
  <2>2. QED
    BY <1>5, <1>6, <1>8, <1>9, <2>1
<1>16. h = l => Len(t[h]) = Len(s[h])
  BY <1>1, <1>6, <1>9
<1>17. x = l => \E v \in Seq(Nodes) : t[l] = Append(v, n) /\ (h # l => v = s[l])
  <2>1. SUFFICES ASSUME x = l PROVE t[l] = Append(u[l], n)
    BY <1>5, <1>8
  <2>2. r \notin 1..Len(u[l])
    BY <1>1, <1>3, <1>5, <2>1, Places, SMTT(30)
  <2>3. r = Len(u[l]) + 1
    BY <1>3, <1>8, <2>2
  <2> DEFINE e == u[l]
  <2>4. e \in Seq(Nodes) /\ r = Len(e) + 1 /\ t[l] = PutAt(e, r, d)
    BY <1>8, <2>3
  <2> HIDE DEF e, n
  <2>5. PutAt(e, Len(e) + 1, <<n>>) = Append(e, n)
    BY <1>1, <2>4, PutEnd
  <2>6. QED
    BY <1>6, <2>4, <2>5 DEF e
<1>18. Gone(m2, s, t, h, p, l, x)
  BY <1>7, <1>10, <1>12, <1>13, <1>14, <1>15, <1>16, <1>17 DEF Gone
<1>19. QED
  BY <1>18

\* Both lists count the node that went from one to the other.
LEMMA RecountedLengths ==
  ASSUME NEW len, NEW gs, NEW s, Counted(len, gs, s, {}), NEW h \in Heads, NEW l \in Heads, NEW t,
         Len(s[h]) \in Nat, Len(s[l]) \in Nat,
         \A k \in Heads \ {h, l} : t[k] = s[k],
         h # l => Len(t[h]) = Len(s[h]) - 1 /\ Len(t[l]) = Len(s[l]) + 1,
         h = l => Len(t[h]) = Len(s[h]),
         NEW len2, len2 = [len EXCEPT ![l] = @ + 1, ![h] = @ - 1],
         NEW gs2, gs2 = gs \cup {k \in {l, h} : len[k] < 0}
  PROVE  Counted(len2, gs2, t, {})
<1>1. /\ len \in [Heads -> Int] /\ gs \subseteq Heads
      /\ \A k \in Heads \ gs : len[k] >= -1 /\ (len[k] = -1 \/ len[k] = Len(s[k]))
  BY DEF Counted, Lengths
<1>2. len2 \in [Heads -> Int] /\ gs2 \subseteq Heads
  BY <1>1
<1>3. ASSUME NEW k \in Heads \ gs2 PROVE len2[k] >= -1 /\ (len2[k] = -1 \/ len2[k] = Len(t[k]))
  <2>1. k \in Heads \ gs /\ len[k] \in Int
    BY <1>1
  <2>2. CASE k \notin {h, l}
    BY <1>1, <2>1, <2>2
  <2>3. CASE k \in {h, l}
    <3>1. len[k] = Len(s[k])
      BY <1>1, <2>1, <2>3
    <3>2. CASE h = l
      <4>1. len2[k] = len[k] + 1 - 1
        BY <1>1, <2>3, <3>2
      <4>2. QED
        BY <2>1, <2>3, <3>1, <3>2, <4>1
    <3>3. CASE h # l
      <4>1. len2[h] = len[h] - 1 /\ len2[l] = len[l] + 1
        BY <1>1, <3>3
      <4>2. CASE k = h
        <5>1. len2[k] = len[k] - 1 /\ Len(t[k]) = Len(s[k]) - 1 /\ Len(s[k]) \in Nat
          BY <3>3, <4>1, <4>2
        <5>2. QED
          BY <3>1, <5>1
      <4>3. CASE k = l
        <5>1. len2[k] = len[k] + 1 /\ Len(t[k]) = Len(s[k]) + 1 /\ Len(s[k]) \in Nat
          BY <3>3, <4>1, <4>3
        <5>2. QED
          BY <3>1, <5>1
      <4>4. QED
        BY <2>3, <4>2, <4>3
    <3>4. QED
      BY <3>2, <3>3
  <2>4. QED
    BY <2>2, <2>3
<1>4. QED
  BY <1>2, <1>3 DEF Counted, Lengths

\* The node of a step is one of those that were to be moved.
LEMMA PlanHas ==
  ASSUME NEW S, NEW e \in Seq(S), NEW p \in 1..Len(e), NEW d \in Int, NEW w \in Seq(S)
  PROVE  e[p] \in ToSet(w \o Later(e, p, d))
<1> DEFINE r == Later(e, p, d)
<1>1. r = Stepped(e, p, d) /\ r \in Seq(S)
  BY LaterType DEF Later
<1>2. Len(r) \in Nat \ {0} /\ r[1] = e[p]
  <2>1. Len(r) = Count(Len(e), p, d) /\ Count(Len(e), p, d) \in Nat \ {0}
    BY <1>1, SteppedPlaces
  <2>2. 1 \in 1..Count(Len(e), p, d)
    BY <2>1
  <2>3. Stepped(e, p, d)[1] = e[p + (1 - 1) * d]
    BY <2>2, SteppedAt
  <2>4. p + (1 - 1) * d = p
    OBVIOUS
  <2>5. QED
    BY <1>1, <2>1, <2>3, <2>4
<1> HIDE DEF r
<1> DEFINE f == w \o r
<1>3. f \in Seq(S) /\ Len(f) = Len(w) + Len(r) /\ f[Len(w) + 1] = r[1] /\ Len(w) \in Nat
  BY <1>1, <1>2, ConcatProperties, LenProperties
<1> HIDE DEF f
<1>4. Len(w) + 1 \in 1..Len(f)
  BY <1>2, <1>3
<1>5. r[1] \in ToSet(f)
  BY <1>3, <1>4, SMTT(30) DEF ToSet
<1>6. QED
  BY <1>2, <1>5 DEF f, r

\* The plan, and the way on in f, which is e without its p-th node.
GoesOn(w, e, p, d, f, r) ==
  /\ w \o Later(e, p, d) = Append(w, e[p]) \o Later(f, r, d)
  /\ p + d \in 1..Len(e) => r \in 1..Len(f) /\ f[r] = e[p + d]
  /\ p + d \notin 1..Len(e) => r = 0

LEMMA Onward ==
  ASSUME NEW S, NEW e \in Seq(S), NEW p \in 1..Len(e), NEW d \in Int \ {0}, NEW w \in Seq(S),
         NEW f, f = CutOut(e, p, p)
  PROVE  \E r \in 0..Len(f) : GoesOn(w, e, p, d, f, r)
<1> DEFINE N == Len(e)
           y == p + d
           b == IF d > 0 THEN y - 1 ELSE y
<1>0. w \o Later(e, p, d) = Append(w, e[p]) \o Later(e, p + d, d)
  BY PlanNext
<1>1. N \in Nat /\ p \in p..N /\ y \in Int /\ y # p
  BY LenProperties
<1>2. f \in Seq(S) /\ Len(f) = N - (p - p + 1)
  BY <1>1, CutPlaces
<1>3. \A k \in 1..(N - (p - p + 1)) : f[k] = IF k < p THEN e[k] ELSE e[k + (p - p + 1)]
  BY <1>1, CutPlaces
<1>4. Len(f) = N - 1 /\ \A k \in 1..(N - 1) : f[k] = IF k < p THEN e[k] ELSE e[k + 1]
  <2>1. p - p + 1 = 1
    BY <1>1
  <2>2. QED
    BY <1>2, <1>3, <2>1
<1>5. CASE y \in 1..N
  <2>1. b \in 1..Len(f)
    BY <1>1, <1>4, <1>5
  <2>2. Later(e, y, d) = Stepped(f, b, d)
    BY <1>5, LaterCut
  <2>3. f[b] = e[y]
    <3>1. CASE d > 0
      <4>1. b = y - 1 /\ ~(b < p) /\ b + 1 = y
        BY <1>1, <3>1
      <4> HIDE DEF b, y
      <4>2. QED
        BY <1>4, <2>1, <4>1
    <3>2. CASE d < 0
      <4>1. b = y /\ b < p
        BY <1>1, <3>2
      <4> HIDE DEF b, y
      <4>2. QED
        BY <1>4, <2>1, <4>1
    <3>3. QED
      BY <3>1, <3>2
  <2>4. Later(f, b, d) = Stepped(f, b, d) /\ b \in 0..Len(f)
    BY <1>4, <2>1 DEF Later
  <2> HIDE DEF b
  <2>5. QED
    BY <1>0, <1>5, <2>1, <2>2, <2>3, <2>4 DEF GoesOn
<1>6. CASE y \notin 1..N
  <2>1. 0 \notin 1..Len(f) /\ 0 \in 0..Len(f)
    BY <1>1, <1>4
  <2>2. Later(e, y, d) = <<>> /\ Later(f, 0, d) = <<>>
    BY <1>6, <2>1 DEF Later
  <2>3. QED
    BY <1>0, <1>6, <2>1, <2>2 DEF GoesOn
<1>7. QED
  BY <1>5, <1>6

\* b is the last part of w; this holds too when an element is added to both.
AtEnd(b, w) == Len(b) <= Len(w) /\ b = SubSeq(w, Len(w) - Len(b) + 1, Len(w))

LEMMA LastOnes ==
  ASSUME NEW S, NEW v \in Seq(S), NEW a \in Seq(S), NEW n \in S,
         AtEnd(a, v), NEW w, w = Append(v, n), NEW b, b = Append(a, n)
  PROVE  AtEnd(b, w)
<1> DEFINE N == Len(v)
           M == Len(a)
<1>1. N \in Nat /\ M \in Nat /\ M <= N /\ a = SubSeq(v, N - M + 1, N)
  BY LenProperties DEF AtEnd
<1>2. /\ w \in Seq(S) /\ Len(w) = N + 1 /\ w[N + 1] = n /\ (\A k \in 1..N : w[k] = v[k])
      /\ b \in Seq(S) /\ Len(b) = M + 1 /\ b[M + 1] = n /\ (\A k \in 1..M : b[k] = a[k])
  BY AppendProperties
<1>3. \A k \in 1..M : a[k] = v[N - M + k]
  <2>1. N - M + 1 \in 1..(Len(v) + 1) /\ N \in (N - M + 1 - 1)..Len(v) /\ N - (N - M + 1) + 1 = M
    BY <1>1
  <2> DEFINE i == N - M + 1
  <2>2. /\ i \in 1..(Len(v) + 1) /\ N \in (i - 1)..Len(v) /\ N - i + 1 = M /\ a = SubSeq(v, i, N)
        /\ i = N - M + 1
    BY <1>1, <2>1
  <2> HIDE DEF i, N, M
  <2>3. \A k \in 1..(N - i + 1) : SubSeq(v, i, N)[k] = v[i + k - 1]
    BY <2>2, PartPlaces
  <2>4. ASSUME NEW k \in 1..M PROVE a[k] = v[N - M + k]
    <3>1. i + k - 1 = N - M + k
      BY <1>1, <2>2
    <3>2. QED
      BY <2>2, <2>3, <3>1
  <2>5. QED
    BY <2>4
<1>4. Len(w) - Len(b) + 1 = N - M + 1 /\ Len(b) <= Len(w)
  BY <1>1, <1>2
<1> DEFINE i == N - M + 1
           j == N + 1
           f == SubSeq(w, i, j)
<1>5. /\ i \in 1..(Len(w) + 1) /\ j \in (i - 1)..Len(w) /\ j - i + 1 = M + 1 /\ w \in Seq(S)
      /\ i = N - M + 1 /\ j = N + 1 /\ j = Len(w)
  BY <1>1, <1>2
<1> HIDE DEF i, j, N, M
<1>6. f \in Seq(S) /\ Len(f) = j - i + 1
  BY <1>5, PartPlaces
<1>7. \A k \in 1..(j - i + 1) : f[k] = w[i + k - 1]
  BY <1>5, PartPlaces, ZenonT(30)
<1> HIDE DEF f
<1>8. ASSUME NEW k \in 1..(M + 1) PROVE b[k] = f[k]
  <2>1. f[k] = w[N - M + k]
    <3>1. i + k - 1 = N - M + k
      BY <1>1, <1>5
    <3>2. QED
      BY <1>5, <1>7, <3>1
  <2>2. CASE k \in 1..M
    <3>1. N - M + k \in 1..N
      BY <1>1, <2>2
    <3>2. QED
      BY <1>2, <1>3, <2>1, <2>2, <3>1
  <2>3. CASE k = M + 1
    <3>1. N - M + k = N + 1
      BY <1>1, <2>3
    <3>2. QED
      BY <1>2, <2>1, <2>3, <3>1
  <2>4. k \in 1..M \/ k = M + 1
    BY <1>1
  <2>5. QED
    BY <2>2, <2>3, <2>4
<1>9. b = f
  BY <1>2, <1>5, <1>6, <1>8, SeqEqual
<1>10. QED
  BY <1>2, <1>4, <1>5, <1>9 DEF f, AtEnd

\* What a call that moves nodes awaits after one of them went.
LEMMA AwaitedNext ==
  ASSUME NEW s, Apart(s), NEW t, NEW a \in Call, NEW c \in Call, NEW h, h = a.idx.host, NEW l, l = a.self.host,
         NEW d, d = a.idx.stride, NEW p \in 1..Len(s[h]), Ahead(a, s, p),
         h = l => d = 0, d = 0 => a.taken = <<>>, h # l => t[h] = CutOut(s[h], p, p),
         c.plan = a.plan, c.taken = Append(a.taken, s[h][p]), c.self.host = l,
         c.idx = [a.idx EXCEPT !.node = At(s, h, p + d)]
  PROVE  Awaited(c, t)
<1> DEFINE e == s[h]
           w == a.taken
           y == p + d
<1>1. /\ h \in Heads /\ d \in Int /\ a.idx \in Index /\ w \in Seq(Nodes) /\ a.plan \in Seq(Nodes)
      /\ e \in Seq(Nodes) /\ Len(e) \in Nat /\ p \in 1..Len(e) /\ e[p] \in Nodes /\ h \notin Nodes
  BY Places DEF Call, Index
<1>2. a.plan = w \o Later(e, p, d)
  BY DEF Ahead
<1>3. c.idx.host = h /\ c.idx.stride = d /\ c.idx.node = At(s, h, y)
  BY <1>1 DEF Index
<1>4. CASE d = 0
  <2>1. w = <<>>
    BY <1>4
  <2>2. Later(e, p, d) = <<e[p]>>
    <3>1. Later(e, p, d) = [k \in 1..1 |-> e[p + (k - 1) * 0]]
      BY <1>1, <1>4 DEF Later, Stepped
    <3>2. \A k \in 1..1 : p + (k - 1) * 0 = p
      BY <1>1
    <3>3. [k \in 1..1 |-> e[p + (k - 1) * 0]] = [k \in 1..1 |-> e[p]]
      BY <3>2
    <3> DEFINE n == e[p]
    <3> HIDE DEF n
    <3>4. [k \in 1..1 |-> n] = <<n>>
      OBVIOUS
    <3>5. QED
      BY <3>1, <3>3, <3>4 DEF n
  <2> DEFINE n == e[p]
  <2>3. n \in Nodes /\ <<n>> \in Seq(Nodes)
    BY <1>1
  <2>4. c.taken = Append(<<>>, n)
    BY <2>1
  <2>5. a.plan = <<>> \o <<n>>
    BY <1>2, <2>1, <2>2
  <2> HIDE DEF n
  <2>6. <<>> \o <<n>> = <<n>> /\ Append(<<>>, n) = <<n>> /\ <<n>> # <<>>
    BY <2>3
  <2>7. QED
    BY <1>3, <1>4, <2>4, <2>5, <2>6 DEF Awaited
<1>5. CASE d # 0
  <2> DEFINE f == CutOut(e, p, p)
  <2>1. h # l /\ t[h] = f /\ d \in Int \ {0} /\ y \in Int
    BY <1>1, <1>5
  <2>2. \E r \in 0..Len(f) : GoesOn(w, e, p, d, f, r)
    <3>1. /\ e \in Seq(Nodes) /\ p \in 1..Len(e) /\ d \in Int \ {0} /\ w \in Seq(Nodes)
          /\ f = CutOut(e, p, p)
      BY <1>1, <2>1
    <3> HIDE DEF e, f, y, w
    <3>2. QED
      BY <3>1, Onward
  <2>3. PICK r \in 0..Len(f) : GoesOn(w, e, p, d, f, r)
    BY <2>2
  <2>4. /\ y \in 1..Len(e) => r \in 1..Len(f) /\ f[r] = e[y]
        /\ y \notin 1..Len(e) => r = 0
    BY <2>3 DEF GoesOn
  <2>5. c.plan = c.taken \o Later(f, r, d)
    BY <1>2, <2>3 DEF GoesOn
  <2>6. At(t, h, r) = At(s, h, y)
    <3>1. y \in 1..Len(e) => At(t, h, r) = f[r] /\ At(s, h, y) = e[y]
      BY <2>1, <2>4 DEF At
    <3>2. y \notin 1..Len(e) => At(t, h, r) = h /\ At(s, h, y) = h
      <4>1. 0 \notin 1..Len(t[h])
        <5>1. \A i \in Int : 0 \notin 1..i
          OBVIOUS
        <5>2. f \in Seq(Nodes)
          <6>1. p \in p..Len(e)
            BY <1>1
          <6> HIDE DEF e
          <6>2. QED
            BY <1>1, <6>1, CutPlaces
        <5>3. QED
          BY <2>1, <5>1, <5>2, LenProperties
      <4>2. QED
        BY <2>4, <4>1 DEF At
    <3>3. QED
      BY <2>4, <3>1, <3>2
  <2> HIDE DEF f, w, y, e
  <2>7. Ahead(c, t, r)
    BY <1>3, <2>1, <2>3, <2>5, <2>6 DEF Ahead
  <2>8. QED
    BY <1>3, <1>5, <2>1, <2>3, <2>7 DEF Awaited
<1>6. QED
  BY <1>4, <1>5

\* The nodes that were popped, after one more of them.
LEMMA BehindNext ==
  ASSUME NEW s, Apart(s), NEW a \in Call, Behind(a, s), NEW n \in Nodes,
         NEW t, NEW v \in Seq(Nodes), t[Stale] = Append(v, n), a.taken = <<>> \/ v = s[Stale],
         NEW c \in Call, c.taken = Append(a.taken, n), c.self = [host |-> Stale, node |-> Stale, stride |-> 0]
  PROVE  Behind(c, t)
<1> DEFINE w == a.taken
           f == t[Stale]
           b == c.taken
<1>1. w \in Seq(Nodes) /\ f = Append(v, n) /\ b = Append(w, n)
  BY DEF Call
<1>2. AtEnd(w, v)
  <2>1. CASE v = s[Stale]
    BY <2>1 DEF Behind, AtEnd
  <2>2. CASE w = <<>>
    <3>1. Len(v) \in Nat /\ Len(<<>>) = 0
      BY LenProperties
    <3>2. Len(v) - 0 + 1 > Len(v) /\ Len(v) - 0 + 1 \in Int
      BY <3>1
    <3> DEFINE i == Len(v) - 0 + 1
    <3>3. i \in 1..(Len(v) + 1) /\ Len(v) \in (i - 1)..Len(v) /\ Len(v) - i + 1 = 0
      BY <3>1
    <3> HIDE DEF i
    <3>4. SubSeq(v, i, Len(v)) \in Seq(Nodes) /\ Len(SubSeq(v, i, Len(v))) = 0
      BY <3>3, PartPlaces
    <3>5. SubSeq(v, i, Len(v)) = <<>>
      BY <3>4, EmptySeq
    <3>6. QED
      BY <2>2, <3>1, <3>5 DEF i, AtEnd
  <2>3. QED
    BY <2>1, <2>2
<1> HIDE DEF w, f, b
<1>3. AtEnd(b, f)
  BY <1>1, <1>2, LastOnes
<1>4. QED
  BY <1>3 DEF Behind, AtEnd, b, f

\* The node that a call is to move, and where it goes.
LEMMA MoveBegins ==
  ASSUME NEW s, Represents(s), Moves, ~Done
  PROVE  /\ Top.idx.host \in Heads /\ Top.self.host \in Heads /\ Top.idx.stride \in Int /\ MoveOK(Top, s)
         /\ Top.idx.stride = 0 => Top.taken = <<>>
         /\ \E q \in 0..Len(s[Top.self.host]) : Top.self.node = At(s, Top.self.host, q)
         /\ \E p \in 1..Len(s[Top.idx.host]) :
              /\ Ahead(Top, s, p) /\ Top.idx.node = s[Top.idx.host][p]
              /\ Top.idx.host = Top.self.host =>
                   Top.idx.stride = 0 /\ Top.self.node \notin {Top.idx.node, At(s, Top.idx.host, p + 1)}
              /\ mem.prev[Top.idx.node] = At(s, Top.idx.host, p - 1)
              /\ mem.next[Top.idx.node] = At(s, Top.idx.host, p + 1)
              /\ MayHold(Top.self.host, Top.idx.node)
<1> DEFINE h == Top.idx.host
           l == Top.self.host
           n == Top.idx.node
<1>1. /\ calls # <<>> /\ Top.op \in {"insert", "pop", "assign"} /\ n # h
      /\ Top.idx.stride = 0 => Top.taken = <<>>
  BY DEF Moves, Done, IsValid
<1>2. /\ Top = calls[1] /\ h \in Heads /\ l \in Heads /\ Top.idx.stride \in Int /\ Open(calls) = {}
      /\ Top.taken \in Seq(Nodes)
  BY <1>1, TopOther DEF Index
<1>3. Shape(mem, s, {}) /\ Apart(s) /\ Bottom(calls, s) /\ s[h] \in Seq(Nodes) /\ Len(s[h]) \in Nat
  BY <1>2, Parts
<1>4. MoveOK(Top, s)
  BY <1>1, <1>2, <1>3 DEF Bottom
<1>5. PICK p \in 0..Len(s[h]) :
        /\ Ahead(Top, s, p)
        /\ p # 0 /\ h = l => Top.idx.stride = 0 /\ Top.self.node \notin {n, At(s, h, p + 1)}
  BY <1>1, <1>4 DEF MoveOK, Awaited
<1>6. n = At(s, h, p)
  BY <1>5 DEF Ahead
<1>7. p # 0
  BY <1>1, <1>6 DEF At
<1>8. p \in 1..Len(s[h]) /\ n = s[h][p] /\ h \notin {} /\ p - 1 \in 0..Len(s[h]) /\ (p - 1) + 1 = p
  BY <1>3, <1>6, <1>7 DEF At
<1>9. mem.next[n] = At(s, h, p + 1)
  <2>1. \A i \in 0..Len(s[h]) : mem.next[At(s, h, i)] = At(s, h, i + 1)
    BY <1>2, <1>3, NextPlace DEF Shape
  <2>2. QED
    BY <1>6, <2>1
<1>10. mem.prev[n] = At(s, h, p - 1)
  <2> DEFINE j == p - 1
  <2>1. j \in 0..Len(s[h]) /\ At(s, h, j + 1) = n /\ h \in Heads /\ Rings(mem.next, mem.prev, s, {})
    BY <1>2, <1>3, <1>6, <1>8 DEF Shape
  <2> HIDE DEF j, h, n
  <2>2. mem.prev[At(s, h, j + 1)] = At(s, h, j)
    BY <1>3, <2>1, NextPlace
  <2>3. QED
    BY <2>1, <2>2 DEF j
<1>11. MayHold(l, n)
  <2> DEFINE e == s[h]
             w == Top.taken
             d == Top.idx.stride
  <2>1. e \in Seq(Nodes) /\ p \in 1..Len(e) /\ d \in Int /\ w \in Seq(Nodes) /\ n = e[p]
    BY <1>2, <1>3, <1>8
  <2>2. Top.plan = w \o Later(e, p, d)
    BY <1>5 DEF Ahead
  <2> HIDE DEF e, w, d
  <2>3. e[p] \in ToSet(w \o Later(e, p, d))
    BY <2>1, PlanHas
  <2>4. QED
    BY <1>4, <2>1, <2>2, <2>3 DEF MoveOK
<1>12. \E q \in 0..Len(s[l]) : Top.self.node = At(s, l, q)
  BY <1>4 DEF MoveOK
<1> HIDE DEF h, l, n
<1>13. /\ p \in 1..Len(s[h]) /\ Ahead(Top, s, p) /\ n = s[h][p]
       /\ h = l => Top.idx.stride = 0 /\ Top.self.node \notin {n, At(s, h, p + 1)}
       /\ mem.prev[n] = At(s, h, p - 1) /\ mem.next[n] = At(s, h, p + 1) /\ MayHold(l, n)
  BY <1>5, <1>7, <1>8, <1>9, <1>10, <1>11
<1>14. QED
  BY <1>1, <1>2, <1>4, <1>12, <1>13 DEF h, l, n

LEMMA MoveNodeStep ==
  ASSUME NEW s, Represents(s), MoveNode
  PROVE  \E t : Represents(t)' /\ Follows(s, t)
<1> DEFINE a == Top
           h == a.idx.host
           l == a.self.host
           d == a.idx.stride
           n == a.idx.node
           x == a.self.node
           i == Advanced(mem, a.idx)
           j == Advanced(mem', a.self)
           c == [a EXCEPT !.idx = i, !.self = j, !.taken = Append(a.taken, n)]
<1>1. /\ Moves /\ ~Done /\ calls # <<>> /\ a.op \in {"insert", "pop", "assign"}
      /\ mem' = Inserted(mem, x, mem.prev[n], mem.next[n])
      /\ length' = [length EXCEPT ![l] = @ + 1, ![h] = @ - 1]
      /\ guessed' = guessed \cup {k \in {l, h} : length[k] < 0}
      /\ calls' = Replaced(c)
  BY DEF MoveNode, Moves, Recounted, Source, Unknown
<1>2. /\ a = calls[1] /\ h \in Heads /\ l \in Heads /\ d \in Int /\ Open(calls) = {} /\ a \in Call
      /\ a.taken \in Seq(Nodes) /\ a.idx \in Index /\ a.self \in Index
      /\ \A y \in Call : Replaced(y) = <<y>>
  <2>1. calls # <<>> /\ Top.op # "clear"
    BY <1>1
  <2>2. QED
    BY <2>1, TopOther DEF Index, Call
<1>3. /\ Shape(mem, s, {}) /\ Apart(s) /\ Holds(s) /\ Counted(length, guessed, s, {}) /\ Bottom(calls, s)
      /\ Len(s[h]) \in Nat /\ Len(s[l]) \in Nat /\ s[h] \in Seq(Nodes)
  BY <1>2, Parts
<1>4. MoveOK(a, s) /\ (d = 0 => a.taken = <<>>)
  BY <1>1, MoveBegins
<1>5. PICK q \in 0..Len(s[l]) : x = At(s, l, q)
  BY <1>1, MoveBegins
<1>6. PICK p \in 1..Len(s[h]) :
        /\ Ahead(a, s, p) /\ n = s[h][p]
        /\ h = l => d = 0 /\ x \notin {n, At(s, h, p + 1)}
        /\ mem.prev[n] = At(s, h, p - 1) /\ mem.next[n] = At(s, h, p + 1) /\ MayHold(l, n)
  BY <1>1, MoveBegins
<1>7. n = At(s, h, p) /\ n \in Nodes /\ p \in 0..Len(s[h]) /\ p # 0 /\ h \notin {} /\ l \notin {}
  <2>1. At(s, h, p) = s[h][p] /\ s[h][p] \in Nodes
    <3> HIDE DEF a, h, n
    <3>1. QED
      BY <1>2, <1>3, <1>6, Places
  <2>2. n = s[h][p] /\ p \in 0..Len(s[h]) /\ p # 0
    BY <1>3, <1>6
  <2>3. QED
    BY <2>1, <2>2
<1> HIDE DEF a, h, l, d, n, x
<1>8. PICK t : Gone(mem', s, t, h, p, l, x)
  <2>1. mem' = Inserted(mem, x, At(s, h, p - 1), At(s, h, p + 1))
    BY <1>1, <1>6
  <2>2. h = l => x \notin {At(s, h, p), At(s, h, p + 1)}
    BY <1>6, <1>7
  <2>3. MayHold(l, s[h][p])
    BY <1>6
  <2>4. QED
    BY <1>2, <1>3, <1>5, <2>1, <2>2, <2>3, MoveOne
<1>9. Shape(mem', t, {}) /\ Holds(t) /\ Follows(s, t) /\ Apart(t)
  BY <1>8 DEF Gone, Shape
<1>10. Counted(length', guessed', t, {})
  <2>1. \A k \in Heads \ {h, l} : t[k] = s[k]
    BY <1>8 DEF Gone
  <2>2. h # l => Len(t[h]) = Len(s[h]) - 1 /\ Len(t[l]) = Len(s[l]) + 1
    BY <1>8 DEF Gone
  <2>3. h = l => Len(t[h]) = Len(s[h])
    BY <1>8 DEF Gone
  <2>4. QED
    BY <1>1, <1>2, <1>3, <2>1, <2>2, <2>3, RecountedLengths
<1>11. i = [a.idx EXCEPT !.node = At(s, h, p + d)] /\ i \in Index /\ i.host = h /\ i.stride = d
  <2>1. i = [a.idx EXCEPT !.node = IF p = 0 THEN h ELSE At(s, h, p + a.idx.stride)]
    BY <1>2, <1>3, <1>7, AdvancedPlace DEF h, n
  <2>2. At(s, h, p + d) \in Links
    BY <1>2, <1>3, Places
  <2> HIDE DEF i
  <2>3. i = [a.idx EXCEPT !.node = At(s, h, p + d)]
    BY <1>7, <2>1 DEF d
  <2>4. QED
    BY <1>2, <2>2, <2>3 DEF Index, h, d
<1>12. PICK r \in 0..Len(t[l]) : At(t, l, r) = x
  BY <1>8 DEF Gone
<1>13. j = [a.self EXCEPT !.node = IF r = 0 THEN l ELSE At(t, l, r + a.self.stride)]
  BY <1>2, <1>7, <1>9, <1>12, AdvancedPlace DEF l, x
<1> HIDE DEF i, j
<1> DEFINE y == IF r = 0 THEN l ELSE At(t, l, r + a.self.stride)
<1>14. \E k \in 0..Len(t[l]) : y = At(t, l, k)
  <2>1. CASE r = 0
    BY <1>12, <2>1 DEF At
  <2>2. CASE r # 0
    <3> DEFINE z == r + a.self.stride
    <3>1. z \in Int
      BY <1>2 DEF Index
    <3> HIDE DEF z
    <3>2. \E k \in 0..Len(t[l]) : At(t, l, k) = At(t, l, z)
      BY <1>2, <1>9, <3>1, AnyPlace
    <3>3. QED
      BY <2>2, <3>2 DEF z
  <2>3. QED
    BY <2>1, <2>2
<1>15. y \in Links
  BY <1>2, <1>9, <1>14, Places
<1>16. j \in Index /\ j.host = l /\ j.node = y
  <2> HIDE DEF y
  <2>1. j = [a.self EXCEPT !.node = y]
    BY <1>13 DEF y
  <2>2. QED
    BY <1>2, <1>15, <2>1 DEF Index, l
<1> HIDE DEF y
<1>17. /\ c \in Call /\ c.op = a.op /\ c.list = a.list /\ c.idx = i /\ c.self = j /\ c.plan = a.plan
       /\ c.taken = Append(a.taken, n)
  <2>1. Append(a.taken, n) \in Seq(Nodes)
    BY <1>2, <1>7
  <2>2. QED
    BY <1>2, <1>11, <1>16, <2>1 DEF Call
<1>18. c.op # "clear" /\ ~Cuts(c)
  BY <1>1, <1>17 DEF Cuts
<1> HIDE DEF c
<1>19. Awaited(c, t)
  <2>1. h # l => t[h] = CutOut(s[h], p, p)
    BY <1>8 DEF Gone
  <2>2. c.taken = Append(a.taken, s[h][p]) /\ c.self.host = l /\ c.idx = [a.idx EXCEPT !.node = At(s, h, p + d)]
    BY <1>6, <1>11, <1>16, <1>17
  <2>3. h = a.idx.host /\ l = a.self.host /\ d = a.idx.stride /\ Ahead(a, s, p) /\ (h = l => d = 0)
    BY <1>6 DEF h, l, d
  <2>4. a \in Call /\ c \in Call /\ Apart(s) /\ (d = 0 => a.taken = <<>>) /\ c.plan = a.plan
    BY <1>2, <1>3, <1>4, <1>17
  <2>5. QED
    BY <2>1, <2>2, <2>3, <2>4, AwaitedNext, SMTT(30)
<1>20. c.op = "pop" => Behind(c, t)
  <2>1. SUFFICES ASSUME a.op = "pop" PROVE Behind(c, t)
    BY <1>17
  <2>2. Behind(a, s) /\ a.self = [host |-> Stale, node |-> Stale, stride |-> 0]
    BY <1>4, <2>1 DEF MoveOK, Behind
  <2>3. l = Stale /\ x = Stale /\ a.self.stride = 0
    BY <2>2 DEF l, x
  <2>4. j = [host |-> Stale, node |-> Stale, stride |-> 0]
    <3>1. y = Stale
      <4>1. r # 0 => r + a.self.stride = r
        BY <2>3
      <4>2. QED
        BY <1>12, <2>3, <4>1 DEF y
    <3>2. QED
      BY <1>13, <2>2, <3>1 DEF y
  <2>5. PICK v \in Seq(Nodes) : t[l] = Append(v, s[h][p]) /\ (h # l => v = s[l])
    BY <1>8, <2>3 DEF Gone
  <2>6. a.taken = <<>> \/ v = s[Stale]
    BY <1>4, <1>6, <2>3, <2>5
  <2>7. t[Stale] = Append(v, n) /\ c.taken = Append(a.taken, n)
        /\ c.self = [host |-> Stale, node |-> Stale, stride |-> 0]
    BY <1>6, <1>17, <2>3, <2>4, <2>5
  <2>8. QED
    BY <1>2, <1>3, <1>7, <1>17, <2>2, <2>6, <2>7, BehindNext
<1>21. MoveOK(c, t)
  <2>1. \E k \in 0..Len(t[c.self.host]) : c.self.node = At(t, c.self.host, k)
    BY <1>14, <1>16, <1>17
  <2>2. \A k \in ToSet(c.plan) : MayHold(c.self.host, k)
    BY <1>4, <1>16, <1>17 DEF MoveOK, l
  <2>3. c.op = "assign" => c.self.host = Temp
    BY <1>4, <1>16, <1>17 DEF MoveOK, l
  <2>4. QED
    BY <1>19, <1>20, <2>1, <2>2, <2>3 DEF MoveOK
<1>22. calls' = <<c>> /\ calls' \in Seq(Call) /\ Len(calls') = 1 /\ calls'[1] = c
  <2>1. calls' = <<c>>
    <3>1. calls' = Replaced(c)
      BY <1>1 DEF c
    <3>2. QED
      BY <1>2, <1>17, <3>1
  <2>2. <<c>> \in Seq(Call) /\ Len(<<c>>) = 1 /\ <<c>>[1] = c
    BY <1>17
  <2>3. QED
    BY <2>1, <2>2
<1>23. Open(calls') = {} /\ Stack(calls', t)
  BY <1>18, <1>22, OneCall
<1>24. Bottom(calls', t)
  <2>1. c.op = "assign" => c.list \in Lists
    BY <1>1, <1>2, <1>3, <1>17 DEF Bottom
  <2>2. c.op # "copy" /\ c.op # "append"
    BY <1>1, <1>17
  <2>3. QED
    BY <1>21, <1>22, <2>1, <2>2 DEF Bottom
<1>25. QED
  BY <1>9, <1>10, <1>22, <1>23, <1>24, Whole

-----------------------------------------------------------------------------
(* The invariant *)

LEMMA InitOK ==
  ASSUME Init
  PROVE  Represents([l \in Heads |-> <<>>])
<1> DEFINE s == [l \in Heads |-> <<>>]
<1>1. calls = <<>> /\ length = [l \in Heads |-> 0] /\ guessed = {} /\ Shape(mem, s, {})
  BY FirstShape DEF Init
<1>2. \A l \in Heads : s[l] = <<>> /\ Len(s[l]) = 0 /\ ToSet(s[l]) = {}
  BY DEF ToSet
<1> HIDE DEF s
<1>3. Holds(s)
  BY <1>2 DEF Holds
<1>4. Open(calls) = {} /\ Stack(calls, s) /\ Bottom(calls, s) /\ calls \in Seq(Call)
  BY <1>1, NoCalls
<1>5. Lengths(length, guessed, s, {})
  BY <1>1, <1>2 DEF Lengths
<1>6. TypeOK
  BY <1>1, <1>4 DEF TypeOK, Shape
<1>7. Represents(s)
  BY <1>1, <1>3, <1>4, <1>5, <1>6 DEF Represents
<1>8. QED
  BY <1>7 DEF s

\* Every step leaves lists that are sequences, and changes them as ListSpec says.
LEMMA StepOK ==
  ASSUME RemoveNested = FALSE, NEW s, Represents(s), [Next]_vars
  PROVE  \E t : Represents(t)' /\ Follows(s, t)
<1>1. CASE UNCHANGED vars
  <2>1. mem' = mem /\ length' = length /\ guessed' = guessed /\ calls' = calls
    BY <1>1 DEF vars
  <2>2. /\ Shape(mem', s, Open(calls')) /\ Holds(s) /\ Counted(length', guessed', s, Open(calls'))
        /\ calls' \in Seq(Call) /\ Stack(calls', s) /\ Bottom(calls', s)
    BY <2>1, Parts
  <2>3. QED
    BY <2>2, Whole DEF Follows
<1>2. ASSUME NEW l \in Lists, NEW n \in Nodes, AppendNode(l, n)
      PROVE  \E t : Represents(t)' /\ Follows(s, t)
  BY <1>2, AppendNodeStep
<1>3. ASSUME NEW l \in Lists, NEW at \in Positions, NEW n \in Nodes, InsertNode(l, at, n)
      PROVE  \E t : Represents(t)' /\ Follows(s, t)
  BY <1>3, InsertNodeStep
<1>4. ASSUME NEW l \in Lists, NEW k \in Lists, AppendList(l, k)
      PROVE  \E t : Represents(t)' /\ Follows(s, t)
  BY <1>4, AppendListStep
<1>5. ASSUME NEW l \in Lists, NEW k \in Lists, NEW at \in Positions, InsertList(l, at, k)
      PROVE  \E t : Represents(t)' /\ Follows(s, t)
  BY <1>5, InsertListStep
<1>6. ASSUME NEW l \in Lists, NEW k \in Lists, NEW at \in Positions, NEW i \in Positions,
             NEW j \in Positions, InsertRange(l, at, k, i, j)
      PROVE  \E t : Represents(t)' /\ Follows(s, t)
  BY <1>6, InsertRangeStep
<1>7. ASSUME NEW l \in Lists, LenOf(l)
      PROVE  \E t : Represents(t)' /\ Follows(s, t)
  BY <1>7, LenOfStep
<1>8. ASSUME NEW self \in Indices, NEW idx \in Indices, self.host \in Lists, InsertIndex(self, idx)
      PROVE  \E t : Represents(t)' /\ Follows(s, t)
  BY <1>8, InsertIndexStep
<1>9. ASSUME NEW idx \in Indices, RemoveIndex(idx) \/ PopIndex(idx)
      PROVE  \E t : Represents(t)' /\ Follows(s, t)
  BY <1>9, RemoveIndexStep
<1>10. ASSUME NEW l \in Lists, NEW idx \in Indices, AssignOwn(l, idx)
       PROVE  \E t : Represents(t)' /\ Follows(s, t)
  BY <1>10, AssignOwnStep
<1>11. CASE MoveNode
  BY <1>11, MoveNodeStep
<1>12. CASE MoveDone
  BY <1>12, MoveDoneStep
<1>13. CASE AssignDone
  BY <1>13, AssignDoneStep
<1>14. ASSUME NEW l \in Lists, Clear(l)
       PROVE  \E t : Represents(t)' /\ Follows(s, t)
  BY <1>14, ClearStep
<1>15. ASSUME NEW l \in Lists, Delete(l)
       PROVE  \E t : Represents(t)' /\ Follows(s, t)
  BY <1>15, DeleteStep
<1>16. CASE ClearBegin
  BY <1>16, ClearBeginStep
<1>17. CASE DeleteList
  BY <1>17, DeleteListStep
<1>18. CASE DeleteMap
  BY <1>18, DeleteMapStep
<1>19. CASE FreeNode
  BY <1>19, FreeNodeStep
<1>20. CASE ClearDone
  BY <1>20, ClearDoneStep
<1>21. ASSUME NEW l \in Lists, NEW idx \in Indices, Assign(l, idx)
       PROVE  \E t : Represents(t)' /\ Follows(s, t)
  BY <1>21, AssignStep
<1>22. ASSUME NEW n \in Nodes, CopyNode(n)
       PROVE  \E t : Represents(t)' /\ Follows(s, t)
  BY <1>22, CopyNodeStep
<1>23. CASE CopyDone
  BY <1>23, CopyDoneStep
<1>24. QED
  BY <1>1, <1>2, <1>3, <1>4, <1>5, <1>6, <1>7, <1>8, <1>9, <1>10, <1>11, <1>12, <1>13, <1>14, <1>15,
     <1>16, <1>17, <1>18, <1>19, <1>20, <1>21, <1>22, <1>23 DEF Next

LEMMA Invariance ==
  ASSUME RemoveNested = FALSE
  PROVE  Spec => []IInv
<1>1. Init => IInv
  BY InitOK DEF IInv
<1>2. IInv /\ [Next]_vars => IInv'
  <2> SUFFICES ASSUME IInv, [Next]_vars PROVE IInv'
    OBVIOUS
  <2>1. PICK s : Represents(s)
    BY DEF IInv
  <2>2. PICK t : Represents(t)'
    BY <2>1, StepOK
  <2>3. QED
    BY <2>2 DEF IInv
<1>3. QED
  BY <1>1, <1>2, PTL DEF Spec

-----------------------------------------------------------------------------
(* What the invariant says *)

LEMMA RingsOK ==
  ASSUME NEW s, Represents(s)
  PROVE  RingsConsistent
<1> DEFINE open == Open(calls)
<1>1. TypeOK /\ Shape(mem, s, open) /\ Apart(s)
  BY DEF Represents, Shape
<1> HIDE DEF open
<1>2. \A l \in Heads : \A i \in 0..Len(s[l]) :
        i > 0 \/ l \notin open => mem.prev[mem.next[At(s, l, i)]] = At(s, l, i)
  BY <1>1 DEF Shape, Rings, Neighbours
<1>3. ASSUME NEW n \in Links, mem.next[n] \in Links, Allocated(mem.next[n])
      PROVE  mem.prev[mem.next[n]] = n
  <2>1. CASE n \in Nodes
    <3>1. n \in Listed(s)
      BY <1>1, <1>3, <2>1, HeadsAssumption DEF Shape
    <3>2. PICK l \in Heads : \E i \in 1..Len(s[l]) : n = At(s, l, i)
      BY <1>1, <3>1, ListedPlace
    <3>3. PICK i \in 1..Len(s[l]) : n = At(s, l, i)
      BY <3>2
    <3>4. i \in 0..Len(s[l]) /\ i > 0
      OBVIOUS
    <3>5. QED
      BY <1>2, <3>3, <3>4
  <2>2. CASE n \in Heads
    <3>1. At(s, n, 0) = n /\ 0 \in 0..Len(s[n])
      BY <1>1, <2>2, Places DEF At
    <3>2. CASE n \notin open
      BY <1>2, <2>2, <3>1, <3>2
    <3>3. CASE n \in open
      <4>1. Neighbours(mem.next, mem.prev, n, At(s, n, 1)) \/ mem.next[n] \in Nodes \ Listed(s)
        BY <1>1, <3>3 DEF Shape, Entered
      <4>2. mem.next[n] \notin Nodes \ Listed(s)
        BY <1>1, <1>3 DEF Shape, Allocated
      <4>3. QED
        BY <4>1, <4>2 DEF Neighbours
    <3>4. QED
      BY <3>2, <3>3
  <2>3. QED
    BY <2>1, <2>2 DEF Links
<1>4. QED
  BY <1>1, <1>3 DEF RingsConsistent

LEMMA ClearsOK ==
  ASSUME RemoveNested = FALSE, NEW s, Represents(s)
  PROVE  ClearsLiveNodes
<1>1. /\ Shape(mem, s, Open(calls)) /\ Apart(s) /\ Holds(s) /\ calls \in Seq(Call) /\ Stack(calls, s)
  BY Parts
<1>2. ASSUME NEW k \in 1..Len(calls), Cuts(calls[k])
      PROVE  /\ calls[k].list \in Heads /\ calls[k].list \in Open(calls)
             /\ calls[k].idx.node = At(s, calls[k].list, 1)
  <2>1. calls[k] \in Call
    BY <1>1, LenProperties
  <2>2. QED
    BY <1>1, <1>2, <2>1 DEF Call, Stack, Open
<1>3. ASSUME NEW k \in 1..Len(calls), Cuts(calls[k]) PROVE Allocated(calls[k].idx.node)
  <2> DEFINE l == calls[k].list
  <2>1. l \in Heads /\ l \in Open(calls) /\ calls[k].idx.node = At(s, l, 1)
    BY <1>2, <1>3
  <2> HIDE DEF l
  <2>2. CASE At(s, l, 1) = l
    <3>1. Neighbours(mem.next, mem.prev, l, At(s, l, 1)) \/ mem.next[l] \in Nodes \ Listed(s)
      BY <1>1, <2>1 DEF Shape, Entered
    <3>2. mem.next[l] \in Links
      BY <2>1, <2>2, <3>1 DEF Neighbours, Links
    <3>3. QED
      BY <2>1, <2>2, <3>2, HeadsAssumption DEF Allocated
  <2>3. CASE At(s, l, 1) # l
    <3>1. At(s, l, 1) \in Listed(s)
      BY <1>1, <2>1, <2>3, PlaceListed
    <3>2. Listed(s) \subseteq Nodes
      BY <1>1, ListedPlace
    <3>3. mem.next[At(s, l, 1)] # Nil
      BY <1>1, <3>1, <3>2 DEF Shape
    <3>4. QED
      BY <2>1, <3>3 DEF Allocated
  <2>4. QED
    BY <2>2, <2>3
<1>4. ASSUME NEW k \in 1..Len(calls), NEW j \in 1..(k - 1), Cuts(calls[k]), Cuts(calls[j])
      PROVE  calls[j].idx.node # calls[k].idx.node
  <2>1. j \in 1..Len(calls) /\ j < k
    BY <1>1, LenProperties
  <2> DEFINE a == calls[j].list
             b == calls[k].list
  <2>2. a # b
    BY <1>1, <1>4, <2>1, UpperCalls
  <2>3. a \in Heads /\ b \in Heads /\ calls[j].idx.node = At(s, a, 1) /\ calls[k].idx.node = At(s, b, 1)
    BY <1>2, <1>4, <2>1
  <2> HIDE DEF a, b
  <2>4. 1 \in 1..(Len(s[a]) + 1) /\ 1 \in 1..(Len(s[b]) + 1)
    BY <1>1, <2>3, Places
  <2>5. At(s, a, 1) # At(s, b, 1)
    BY <1>1, <2>2, <2>3, <2>4, PlaceOnceBehind
  <2>6. QED
    BY <2>3, <2>5
<1>5. QED
  BY <1>3, <1>4 DEF ClearsLiveNodes, Cuts

LEMMA LengthsOK ==
  ASSUME RemoveNested = FALSE, NEW s, Represents(s)
  PROVE  LengthsRight
<1>1. ASSUME NEW l \in Heads \ guessed, length[l] >= 0,
             \A k \in 1..Len(calls) : calls[k].op = "clear" => calls[k].list # l
      PROVE  length[l] = Len(Elements(l))
  <2>1. l \notin Open(calls)
    BY <1>1 DEF Open, Cuts
  <2>2. length[l] = -1 \/ length[l] = Len(s[l])
    BY <2>1 DEF Represents, Lengths
  <2>3. length[l] = Len(s[l])
    BY <1>1, <2>2
  <2>4. Elements(l) = s[l]
    BY ElementsListed
  <2>5. QED
    BY <2>3, <2>4
<1>2. QED
  BY <1>1 DEF LengthsRight

\* What was done is a part of what is planned, all of it when nothing is left.
LEMMA DonePart ==
  ASSUME NEW S, NEW w \in Seq(S), NEW r \in Seq(S), NEW p, p = w \o r
  PROVE  IsPrefix(w, p) /\ (r = <<>> => p = w)
<1>1. p \in Seq(S) /\ Len(p) = Len(w) + Len(r) /\ Len(w) \in Nat /\ Len(r) \in Nat
  BY ConcatProperties, LenProperties
<1>2. \A k \in 1..Len(w) : p[k] = w[k]
  BY <1>1, ConcatProperties
<1>3. Len(w) <= Len(p)
  BY <1>1
<1>4. SubSeq(w, 1, Len(w)) = w
  BY WholePart
<1>5. SubSeq(p, 1, Len(w)) = w
  <2> DEFINE f == SubSeq(p, 1, Len(w))
             N == Len(w)
  <2>1. N \in Nat /\ 1 \in 1..(Len(p) + 1) /\ N \in (1 - 1)..Len(p) /\ N - 1 + 1 = N
    BY <1>1, <1>3
  <2> HIDE DEF N
  <2>2. SubSeq(p, 1, N) \in Seq(S) /\ Len(SubSeq(p, 1, N)) = N - 1 + 1
    BY <1>1, <2>1, PartPlaces
  <2>3. \A k \in 1..(N - 1 + 1) : SubSeq(p, 1, N)[k] = p[1 + k - 1]
    BY <1>1, <2>1, PartPlaces
  <2>4. \A k \in 1..N : 1 + k - 1 = k
    BY <2>1
  <2>5. f \in Seq(S) /\ Len(f) = Len(w) /\ \A k \in 1..Len(w) : f[k] = w[k]
    BY <1>2, <2>1, <2>2, <2>3, <2>4 DEF N
  <2> HIDE DEF f
  <2>6. f = w
    BY <2>5, SeqEqual
  <2>7. QED
    BY <2>6 DEF f
<1>6. r = <<>> => p = w
  <2> SUFFICES ASSUME r = <<>> PROVE p = w
    OBVIOUS
  <2>1. w \o <<>> = w
    BY ConcatProperties
  <2>2. QED
    BY <2>1
<1>7. QED
  BY <1>3, <1>4, <1>5, <1>6 DEF IsPrefix

LEMMA StridesOK ==
  ASSUME NEW s, Represents(s)
  PROVE  StridesMoved
<1>1. /\ Shape(mem, s, Open(calls)) /\ Apart(s) /\ Bottom(calls, s)
  BY Parts
<1>2. ASSUME Moves \/ Calling("copy")
      PROVE  IsPrefix(Top.taken, Top.plan) /\ (Done => Top.taken = Top.plan)
  <2> DEFINE w == Top.taken
             h == Top.idx.host
             d == Top.idx.stride
  <2>1. calls # <<>> /\ Top.op # "clear" /\ (Moves => Top.op \in {"insert", "pop", "assign"})
        /\ (Calling("copy") => Top.op = "copy")
    BY <1>2 DEF Moves, Calling
  <2>2. Top = calls[1] /\ h \in Heads /\ d \in Int /\ w \in Seq(Nodes) /\ Top.plan \in Seq(Nodes)
    BY <2>1, TopOther DEF Index
  <2>3. CASE d = 0 /\ w # <<>> /\ Top.plan = w
    <3>1. Len(w) \in Nat /\ SubSeq(w, 1, Len(w)) = w
      BY <2>2, WholePart, LenProperties
    <3>2. Top.plan = w /\ Len(w) <= Len(w)
      BY <2>3, <3>1
    <3> HIDE DEF w
    <3>3. IsPrefix(w, Top.plan)
      BY <3>1, <3>2 DEF IsPrefix
    <3>4. QED
      BY <3>2, <3>3 DEF w
  <2>4. CASE (d # 0 \/ w = <<>>) /\ \E p \in 0..Len(s[h]) : Ahead(Top, s, p)
    <3>1. PICK p \in 0..Len(s[h]) : Ahead(Top, s, p)
      BY <2>4
    <3> DEFINE r == Later(s[h], p, d)
    <3>2. Top.plan = w \o r /\ Top.idx.node = At(s, h, p)
      BY <3>1 DEF Ahead
    <3>3. r \in Seq(Nodes)
      BY <1>1, <2>2, Places, LaterType
    <3>4. Done => r = <<>>
      <4>1. Done => Top.idx.node = h
        BY <2>4 DEF Done, IsValid
      <4>2. Top.idx.node = h => p \notin 1..Len(s[h])
        <5> DEFINE n == Top.idx.node
        <5>1. n = At(s, h, p) /\ h \in Heads
          BY <2>2, <3>2
        <5> HIDE DEF n, h
        <5>2. p \in 1..Len(s[h]) => n \in Nodes /\ h \notin Nodes
          BY <1>1, <5>1, Places
        <5>3. QED
          BY <5>2 DEF n
      <4>3. QED
        BY <4>1, <4>2 DEF Later
    <3> HIDE DEF r, w
    <3>5. IsPrefix(w, Top.plan) /\ (r = <<>> => Top.plan = w)
      BY <2>2, <3>2, <3>3, DonePart
    <3>6. QED
      BY <3>4, <3>5 DEF w
  <2>5. CASE Moves
    <3>1. Awaited(Top, s)
      BY <1>1, <2>1, <2>2, <2>5 DEF Bottom, MoveOK
    <3> HIDE DEF w, h, d
    <3>2. \/ d = 0 /\ w # <<>> /\ Top.plan = w
          \/ (d # 0 \/ w = <<>>) /\ \E p \in 0..Len(s[h]) : Ahead(Top, s, p)
      BY <3>1 DEF Awaited, w, h, d
    <3>3. QED
      BY <2>3, <2>4, <3>2
  <2>6. CASE Calling("copy")
    <3>1. d # 0 /\ \E p \in 0..Len(s[h]) : Ahead(Top, s, p)
      BY <1>1, <2>1, <2>2, <2>6 DEF Bottom, CopyOK
    <3>2. QED
      BY <2>4, <3>1
  <2>7. QED
    BY <1>2, <2>5, <2>6
<1>3. ASSUME Calling("pop"), Done PROVE Top.taken = Walk(mem, Popped.node)
  <2>1. calls # <<>> /\ Top.op = "pop"
    BY <1>3 DEF Calling
  <2>2. Top = calls[1] /\ Top.taken \in Seq(Nodes) /\ Open(calls) = {}
    BY <2>1, TopOther
  <2>3. Behind(Top, s)
    BY <1>1, <2>1, <2>2 DEF Bottom, MoveOK
  <2> DEFINE M == Len(Top.taken)
             N == Len(s[Stale])
             p == N - M + 1
             q == IF -M < 0 THEN N + 1 + (-M) ELSE -M
  <2>4. M \in Nat /\ N \in Nat /\ M <= N /\ Stale \in Heads
    BY <1>1, <2>2, <2>3, Places, LenProperties DEF Behind, Heads
  <2>5. Top.taken = SubSeq(s[Stale], p, N)
    BY <2>3 DEF Behind
  <2>6. Popped.node = At(s, Stale, q)
    <3>1. -M \in Int /\ Stale \notin {} /\ Shape(mem, s, {})
      BY <1>1, <2>2, <2>4
    <3> DEFINE z == -M
    <3>2. z \in Int /\ Popped = IndexAt(mem, Stale, z, 1)
      BY <3>1 DEF Popped
    <3> HIDE DEF z
    <3>3. IndexAt(mem, Stale, z, 1)
            = [host |-> Stale, node |-> At(s, Stale, IF z < 0 THEN Len(s[Stale]) + 1 + z ELSE z), stride |-> 1]
      BY <2>4, <3>1, <3>2, IndexPlace
    <3>4. Popped.node = At(s, Stale, IF z < 0 THEN Len(s[Stale]) + 1 + z ELSE z)
      BY <3>2, <3>3
    <3>5. QED
      BY <3>4 DEF z
  <2>7. At(s, Stale, q) = At(s, Stale, p)
    <3>1. CASE M = 0
      <4>1. q = 0 /\ p = N + 1 /\ 0 \notin 1..N /\ N + 1 \notin 1..N
        <5> HIDE DEF M, N
        <5>1. q = 0
          <6>1. \A k \in Nat : -k = 0 - k
            OBVIOUS
          <6>2. q = IF 0 - M < 0 THEN N + 1 + (0 - M) ELSE 0 - M
            BY <2>4, <6>1
          <6> HIDE DEF q
          <6>3. QED
            BY <3>1, <6>2
        <5>2. p = N + 1
          BY <2>4, <3>1
        <5>3. 0 \notin 1..N /\ N + 1 \notin 1..N
          BY <2>4
        <5>4. QED
          BY <5>1, <5>2, <5>3
      <4> HIDE DEF p, q
      <4>2. QED
        BY <4>1 DEF At
    <3>2. CASE M # 0
      <4>1. q = p
        <5> HIDE DEF M, N
        <5>1. QED
          BY <2>4, <3>2
      <4> HIDE DEF p, q
      <4>2. QED
        BY <4>1
    <3>3. QED
      BY <3>1, <3>2
  <2>8. p \in 1..(Len(s[Stale]) + 1)
    <3>1. p \in 1..(N + 1)
      <4> HIDE DEF M, N
      <4>1. QED
        BY <2>4
    <3>2. QED
      BY <3>1
  <2> HIDE DEF p, q
  <2>9. Walk(mem, At(s, Stale, p)) = SubSeq(s[Stale], p, Len(s[Stale]))
    BY <1>1, <2>4, <2>8, WalkPlace
  <2>10. QED
    BY <2>5, <2>6, <2>7, <2>9
<1>4. QED
  BY <1>2, <1>3 DEF StridesMoved

LEMMA ElementsNext ==
  ASSUME RemoveNested = FALSE, NEW t, Represents(t)', NEW l \in Heads
  PROVE  Elements(l)' = t[l]
<1>1. /\ Shape(mem', t, Open(calls')) /\ Holds(t) /\ calls' \in Seq(Call) /\ Stack(calls', t)
  BY DEF Represents, TypeOK
<1>2. Elements(l)' = NodesOf(mem', calls', l)
  BY DEF Elements, NodesOf
<1>3. QED
  BY <1>1, <1>2, NodesListed

-----------------------------------------------------------------------------
(* The theorems *)

\* The pointers of neighbours agree after any calls, of which some may be on their way
\* (list_link_node_, list_unlink_node_ and list_insert_nodes_ on neighbours, on the same
\* node twice and on lists without nodes), where nodes with a list are not removed.
THEOREM RingsKept ==
  ASSUME RemoveNested = FALSE
  PROVE  Spec => []RingsConsistent
<1>1. IInv => RingsConsistent
  BY RingsOK DEF IInv
<1>2. QED
  BY <1>1, Invariance, PTL

\* And list_clear_c is never on a node that was freed, or that another call of it is about
\* to free, although the values it deletes clear lists themselves and add to others.
THEOREM ClearsSafe ==
  ASSUME RemoveNested = FALSE
  PROVE  Spec => []ClearsLiveNodes
<1>1. IInv => ClearsLiveNodes
  BY ClearsOK DEF IInv
<1>2. QED
  BY <1>1, Invariance, PTL

\* And a length that was not computed from an unknown one is unknown or right.
THEOREM LengthsKept ==
  ASSUME RemoveNested = FALSE
  PROVE  Spec => []LengthsRight
<1>1. IInv => LengthsRight
  BY LengthsOK DEF IInv
<1>2. QED
  BY <1>1, Invariance, PTL

\* And an index moves and copies the nodes that it stood for when it was passed, in their
\* order and for any stride (listindex_insert_idx_cnt_ goes on before a node is moved),
\* and listindex_pop_idx returns an index of those that it removed.
THEOREM StridesKept ==
  ASSUME RemoveNested = FALSE
  PROVE  Spec => []StridesMoved
<1>1. IInv => StridesMoved
  BY StridesOK DEF IInv
<1>2. QED
  BY <1>1, Invariance, PTL

\* And each list is a sequence of nodes to its callers, which changes as ListSpec says.
THEOREM SequencesImplemented ==
  ASSUME RemoveNested = FALSE
  PROVE  Spec => ImplementsSequences
<1> DEFINE q == [l \in Heads |-> Elements(l)]
<1>1. ASSUME NEW s, Represents(s) PROVE q = s
  <2>1. s \in [Heads -> Seq(Nodes)]
    BY <1>1, Parts DEF Apart
  <2>2. \A l \in Heads : Elements(l) = s[l]
    BY <1>1, ElementsListed
  <2>3. QED
    BY <2>1, <2>2
<1>2. Init => Seqs!Init
  <2> SUFFICES ASSUME Init PROVE Seqs!Init
    OBVIOUS
  <2> DEFINE s == [l \in Heads |-> <<>>]
  <2>1. Represents(s)
    BY InitOK
  <2> HIDE DEF s
  <2>2. q = s
    BY <1>1, <2>1
  <2>3. QED
    BY <2>2 DEF Seqs!Init, s
<1>3. IInv /\ [Next]_vars => [Seqs!Next]_q
  <2> SUFFICES ASSUME IInv, [Next]_vars PROVE [Seqs!Next]_q
    OBVIOUS
  <2>1. PICK s : Represents(s)
    BY DEF IInv
  <2>2. PICK t : Represents(t)' /\ Follows(s, t)
    BY <2>1, StepOK
  <2>3. q = s
    BY <1>1, <2>1
  <2>4. q' = t
    <3>1. t \in [Heads -> Seq(Nodes)]
      BY <2>2 DEF Represents, Shape, Apart
    <3>2. \A l \in Heads : Elements(l)' = t[l]
      BY <2>2, ElementsNext
    <3>3. q' = [l \in Heads |-> t[l]]
      BY <3>2
    <3> HIDE DEF q
    <3>4. QED
      BY <3>1, <3>3
  <2>5. CASE t = s
    BY <2>3, <2>4, <2>5
  <2>6. CASE Seqs!Change(s, t)
    BY <2>3, <2>4, <2>6 DEF Seqs!Next
  <2>7. QED
    BY <2>2, <2>5, <2>6 DEF Follows
<1>4. QED
  BY <1>2, <1>3, Invariance, PTL DEF Spec, ImplementsSequences, Seqs!Spec
=============================================================================
