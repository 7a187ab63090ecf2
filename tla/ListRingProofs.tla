---------------------------- MODULE ListRingProofs ----------------------------
(***************************************************************************)
(* What the helpers of List.tla do to the pointers, as changes of the      *)
(* sequences that the pointers stand for: the lemmas the proofs in         *)
(* ListProofs.tla rest on.                                                 *)
(***************************************************************************)
EXTENDS List, FiniteSetTheorems, SequenceTheorems, WellFoundedInduction, TLAPS

-----------------------------------------------------------------------------
(* Induction over numbers, for sets of them *)

\* A set with zero and the successors of its members has all natural numbers: a
\* least number it does not have would have a predecessor.
LEMMA SetInduction ==
  ASSUME NEW S, S \subseteq Nat, 0 \in S, \A n \in S : n + 1 \in S
  PROVE  S = Nat
<1> DEFINE less == {ss \in Nat \X Nat : ss[1] < ss[2]}
<1>1. IsWellFoundedOn(less, Nat)
  BY NatLessThanWellFounded DEF OpToRel
<1>2. less = {ss \in Nat \X Nat : ss[1] < ss[2]}
  OBVIOUS
<1> HIDE DEF less
<1>3. SUFFICES ASSUME Nat \ S # {} PROVE FALSE
  OBVIOUS
<1>4. PICK x \in Nat \ S : \A y \in Nat \ S : <<y, x>> \notin less
  BY <1>1, <1>3, WFMin
<1>5. x # 0 /\ x - 1 \in Nat
  BY <1>4
<1>6. <<x - 1, x>> \in less
  BY <1>2, <1>5
<1>7. x - 1 \in S
  BY <1>4, <1>5, <1>6
<1>8. QED
  BY <1>4, <1>5, <1>7

-----------------------------------------------------------------------------
(* Lists as sequences *)

\* The ring of list l, which is itself before its first node and behind its last.
At(s, l, i) == IF i \in 1..Len(s[l]) THEN s[l][i] ELSE l

Listed(s) == UNION {ToSet(s[l]) : l \in Heads}

\* The sequences of the lists: no node is in two places.
Apart(s) ==
  /\ s \in [Heads -> Seq(Nodes)]
  /\ \A l, k \in Heads : \A i \in 1..Len(s[l]), j \in 1..Len(s[k]) :
       s[l][i] = s[k][j] => l = k /\ i = j

\* A sequence without repetition, of nodes that are in no list.
Loose(s, t) ==
  /\ t \in Seq(Nodes) /\ t # <<>>
  /\ \A i, j \in 1..Len(t) : t[i] = t[j] => i = j
  /\ \A i \in 1..Len(t), l \in Heads : \A j \in 1..Len(s[l]) : t[i] # s[l][j]

\* What a list has in its places.
LEMMA Places ==
  ASSUME NEW s, Apart(s), NEW l \in Heads
  PROVE  /\ s[l] \in Seq(Nodes) /\ Len(s[l]) \in Nat
         /\ l \in Links /\ l \notin Nodes
         /\ \A i \in 1..Len(s[l]) : At(s, l, i) = s[l][i] /\ s[l][i] \in Nodes
         /\ \A i : i \notin 1..Len(s[l]) => At(s, l, i) = l
         /\ \A i : At(s, l, i) \in Nodes \cup {l} /\ At(s, l, i) \in Links
<1>1. s[l] \in Seq(Nodes)
  BY DEF Apart
<1>2. Len(s[l]) \in Nat /\ \A i \in 1..Len(s[l]) : s[l][i] \in Nodes
  BY <1>1, LenProperties
<1>3. l \in Links /\ l \notin Nodes
  BY HeadsAssumption DEF Links, Heads
<1>4. QED
  BY <1>1, <1>2, <1>3 DEF At, Links

\* No node is in two places.
LEMMA Once ==
  ASSUME NEW s, Apart(s), NEW l \in Heads, NEW k \in Heads,
         NEW i \in 1..Len(s[l]), NEW j \in 1..Len(s[k]), s[l][i] = s[k][j]
  PROVE  l = k /\ i = j
BY Zenon DEF Apart

\* A place of a list, its own one before the nodes included, is in no list again.
LEMMA PlaceOnce ==
  ASSUME NEW s, Apart(s), NEW l \in Heads, NEW k \in Heads,
         NEW i \in 0..Len(s[l]), NEW j \in 0..Len(s[k]), At(s, l, i) = At(s, k, j)
  PROVE  l = k /\ i = j
<1>1. /\ Len(s[l]) \in Nat /\ l \notin Nodes
      /\ \A a \in 1..Len(s[l]) : At(s, l, a) = s[l][a] /\ s[l][a] \in Nodes
      /\ At(s, l, 0) = l
  BY Places
<1>2. /\ Len(s[k]) \in Nat /\ k \notin Nodes
      /\ \A a \in 1..Len(s[k]) : At(s, k, a) = s[k][a] /\ s[k][a] \in Nodes
      /\ At(s, k, 0) = k
  BY Places
<1>3. CASE i = 0 /\ j = 0
  BY <1>1, <1>2, <1>3
<1>4. CASE i = 0 /\ j # 0
  <2>1. j \in 1..Len(s[k])
    BY <1>2, <1>4
  <2>2. QED
    BY <1>1, <1>2, <1>4, <2>1
<1>5. CASE i # 0 /\ j = 0
  <2>1. i \in 1..Len(s[l])
    BY <1>1, <1>5
  <2>2. QED
    BY <1>1, <1>2, <1>5, <2>1
<1>6. CASE i # 0 /\ j # 0
  <2>1. i \in 1..Len(s[l]) /\ j \in 1..Len(s[k])
    BY <1>1, <1>2, <1>6
  <2>2. s[l][i] = s[k][j]
    BY <1>1, <1>2, <2>1
  <2>3. QED
    BY <2>1, <2>2 DEF Apart
<1>7. QED
  BY <1>3, <1>4, <1>5, <1>6

\* The same for its place behind the nodes.
LEMMA PlaceOnceBehind ==
  ASSUME NEW s, Apart(s), NEW l \in Heads, NEW k \in Heads,
         NEW i \in 1..(Len(s[l]) + 1), NEW j \in 1..(Len(s[k]) + 1), At(s, l, i) = At(s, k, j)
  PROVE  l = k /\ i = j
<1>1. /\ Len(s[l]) \in Nat /\ l \notin Nodes
      /\ \A a \in 1..Len(s[l]) : At(s, l, a) = s[l][a] /\ s[l][a] \in Nodes
      /\ At(s, l, Len(s[l]) + 1) = l
  BY Places
<1>2. /\ Len(s[k]) \in Nat /\ k \notin Nodes
      /\ \A a \in 1..Len(s[k]) : At(s, k, a) = s[k][a] /\ s[k][a] \in Nodes
      /\ At(s, k, Len(s[k]) + 1) = k
  BY Places
<1>3. CASE i = Len(s[l]) + 1 /\ j = Len(s[k]) + 1
  BY <1>1, <1>2, <1>3
<1>4. CASE i = Len(s[l]) + 1 /\ j # Len(s[k]) + 1
  <2>1. j \in 1..Len(s[k])
    BY <1>2, <1>4
  <2>2. QED
    BY <1>1, <1>2, <1>4, <2>1
<1>5. CASE i # Len(s[l]) + 1 /\ j = Len(s[k]) + 1
  <2>1. i \in 1..Len(s[l])
    BY <1>1, <1>5
  <2>2. QED
    BY <1>1, <1>2, <1>5, <2>1
<1>6. CASE i # Len(s[l]) + 1 /\ j # Len(s[k]) + 1
  <2>1. i \in 1..Len(s[l]) /\ j \in 1..Len(s[k])
    BY <1>1, <1>2, <1>6
  <2>2. s[l][i] = s[k][j]
    BY <1>1, <1>2, <2>1
  <2>3. QED
    BY <2>1, <2>2 DEF Apart
<1>7. QED
  BY <1>3, <1>4, <1>5, <1>6

-----------------------------------------------------------------------------
(* Sequences that parts are taken from and put into *)

\* e without its places from i to j.
CutOut(e, i, j) == SubSeq(e, 1, i - 1) \o SubSeq(e, j + 1, Len(e))

\* t before the p-th place of e (ListSpec!Spliced).
PutAt(e, p, t) == SubSeq(e, 1, p - 1) \o t \o SubSeq(e, p, Len(e))

\* A part of a sequence.
LEMMA PartPlaces ==
  ASSUME NEW S, NEW e \in Seq(S), NEW i \in 1..(Len(e) + 1), NEW j \in (i - 1)..Len(e)
  PROVE  /\ SubSeq(e, i, j) \in Seq(S) /\ Len(SubSeq(e, i, j)) = j - i + 1
         /\ \A k \in 1..(j - i + 1) : SubSeq(e, i, j)[k] = e[i + k - 1]
<1>1. Len(e) \in Nat /\ \A k \in 1..Len(e) : e[k] \in S
  BY LenProperties
<1>2. i \in Int /\ j \in Int /\ \A k \in i..j : e[k] \in S
  BY <1>1
<1>3. /\ SubSeq(e, i, j) \in Seq(S)
      /\ Len(SubSeq(e, i, j)) = IF i <= j THEN j - i + 1 ELSE 0
      /\ \A k \in 1..(j - i + 1) : SubSeq(e, i, j)[k] = e[i + k - 1]
  BY <1>2, SubSeqProperties
<1>4. QED
  BY <1>1, <1>3

\* What is left of a sequence, and where.
LEMMA CutPlaces ==
  ASSUME NEW S, NEW e \in Seq(S), NEW i \in 1..Len(e), NEW j \in i..Len(e)
  PROVE  /\ CutOut(e, i, j) \in Seq(S) /\ Len(CutOut(e, i, j)) = Len(e) - (j - i + 1)
         /\ \A k \in 1..(Len(e) - (j - i + 1)) :
              CutOut(e, i, j)[k] = IF k < i THEN e[k] ELSE e[k + (j - i + 1)]
<1> DEFINE a == SubSeq(e, 1, i - 1)
           b == SubSeq(e, j + 1, Len(e))
<1>1. Len(e) \in Nat
  BY LenProperties
<1>2. /\ a \in Seq(S) /\ Len(a) = i - 1 /\ \A k \in 1..(i - 1) : a[k] = e[k]
  <2>1. 1 \in 1..(Len(e) + 1) /\ i - 1 \in (1 - 1)..Len(e)
    BY <1>1
  <2>2. /\ a \in Seq(S) /\ Len(a) = (i - 1) - 1 + 1
        /\ \A k \in 1..((i - 1) - 1 + 1) : a[k] = e[1 + k - 1]
    BY <2>1, PartPlaces
  <2> HIDE DEF a
  <2>3. QED
    BY <2>2
<1>3. /\ b \in Seq(S) /\ Len(b) = Len(e) - j /\ \A k \in 1..(Len(e) - j) : b[k] = e[j + k]
  <2>1. j + 1 \in 1..(Len(e) + 1) /\ Len(e) \in ((j + 1) - 1)..Len(e)
    BY <1>1
  <2>2. /\ b \in Seq(S) /\ Len(b) = Len(e) - (j + 1) + 1
        /\ \A k \in 1..(Len(e) - (j + 1) + 1) : b[k] = e[(j + 1) + k - 1]
    BY <2>1, PartPlaces
  <2> HIDE DEF b
  <2>3. QED
    BY <1>1, <2>2
<1> HIDE DEF a, b
<1>4. /\ a \o b \in Seq(S) /\ Len(a \o b) = Len(a) + Len(b)
      /\ \A k \in 1..(Len(a) + Len(b)) : (a \o b)[k] = IF k <= Len(a) THEN a[k] ELSE b[k - Len(a)]
  BY <1>2, <1>3, ConcatProperties
<1>5. ASSUME NEW k \in 1..(Len(e) - (j - i + 1))
      PROVE  (a \o b)[k] = IF k < i THEN e[k] ELSE e[k + (j - i + 1)]
  <2>1. CASE k < i
    BY <1>1, <1>2, <1>3, <1>4, <2>1
  <2>2. CASE ~(k < i)
    <3>1. /\ k \in 1..(Len(a) + Len(b)) /\ ~(k <= Len(a)) /\ k - Len(a) \in 1..(Len(e) - j)
          /\ j + (k - Len(a)) = k + (j - i + 1)
      BY <1>1, <1>2, <1>3, <2>2
    <3>2. (a \o b)[k] = b[k - Len(a)]
      BY <1>4, <3>1
    <3>3. b[k - Len(a)] = e[j + (k - Len(a))]
      BY <1>3, <3>1
    <3>4. QED
      BY <2>2, <3>1, <3>2, <3>3
  <2>3. QED
    BY <2>1, <2>2
<1>6. CutOut(e, i, j) = a \o b
  BY DEF CutOut, a, b
<1>7. a \o b \in Seq(S) /\ Len(a \o b) = Len(e) - (j - i + 1)
  BY <1>1, <1>2, <1>3, <1>4
<1> DEFINE c == a \o b
<1>8. /\ CutOut(e, i, j) = c /\ c \in Seq(S) /\ Len(c) = Len(e) - (j - i + 1)
      /\ \A k \in 1..(Len(e) - (j - i + 1)) : c[k] = IF k < i THEN e[k] ELSE e[k + (j - i + 1)]
  BY <1>5, <1>6, <1>7
<1> HIDE DEF c
<1>9. QED
  BY <1>8

\* Where the elements of a sequence are when t was put into it.
LEMMA PutPlaces ==
  ASSUME NEW S, NEW e \in Seq(S), NEW t \in Seq(S), NEW p \in 1..(Len(e) + 1)
  PROVE  /\ PutAt(e, p, t) \in Seq(S) /\ Len(PutAt(e, p, t)) = Len(e) + Len(t)
         /\ \A k \in 1..(Len(e) + Len(t)) :
              PutAt(e, p, t)[k] = IF k < p THEN e[k]
                                  ELSE IF k < p + Len(t) THEN t[k - p + 1] ELSE e[k - Len(t)]
<1> DEFINE a == SubSeq(e, 1, p - 1)
           b == SubSeq(e, p, Len(e))
<1>1. Len(e) \in Nat /\ Len(t) \in Nat
  BY LenProperties
<1>2. /\ a \in Seq(S) /\ Len(a) = p - 1 /\ \A k \in 1..(p - 1) : a[k] = e[k]
  <2>1. 1 \in 1..(Len(e) + 1) /\ p - 1 \in (1 - 1)..Len(e)
    BY <1>1
  <2>2. /\ a \in Seq(S) /\ Len(a) = (p - 1) - 1 + 1
        /\ \A k \in 1..((p - 1) - 1 + 1) : a[k] = e[1 + k - 1]
    BY <2>1, PartPlaces
  <2> HIDE DEF a
  <2>3. QED
    BY <2>2
<1>3. /\ b \in Seq(S) /\ Len(b) = Len(e) - p + 1 /\ \A k \in 1..(Len(e) - p + 1) : b[k] = e[p + k - 1]
  <2>1. Len(e) \in (p - 1)..Len(e)
    BY <1>1
  <2>2. QED
    BY <2>1, PartPlaces
<1> HIDE DEF a, b
<1>4. /\ a \o t \in Seq(S) /\ Len(a \o t) = Len(a) + Len(t)
      /\ \A k \in 1..(Len(a) + Len(t)) : (a \o t)[k] = IF k <= Len(a) THEN a[k] ELSE t[k - Len(a)]
  BY <1>2, ConcatProperties
<1> DEFINE c == a \o t
<1> HIDE DEF c
<1>5. /\ c \in Seq(S) /\ Len(c) = p - 1 + Len(t)
      /\ \A k \in 1..(p - 1 + Len(t)) : c[k] = IF k < p THEN e[k] ELSE t[k - p + 1]
  <2>1. c \in Seq(S) /\ Len(c) = p - 1 + Len(t)
    BY <1>1, <1>2, <1>4 DEF c
  <2>2. ASSUME NEW k \in 1..(p - 1 + Len(t)) PROVE c[k] = IF k < p THEN e[k] ELSE t[k - p + 1]
    <3>1. k \in 1..(Len(a) + Len(t)) /\ k - Len(a) = k - p + 1 /\ (k <= Len(a) <=> k < p)
      BY <1>1, <1>2
    <3>2. c[k] = IF k <= Len(a) THEN a[k] ELSE t[k - Len(a)]
      BY <1>4, <3>1 DEF c
    <3>3. k < p => k \in 1..(p - 1)
      OBVIOUS
    <3>4. QED
      BY <1>2, <3>1, <3>2, <3>3
  <2>3. QED
    BY <2>1, <2>2
<1>6. /\ c \o b \in Seq(S) /\ Len(c \o b) = Len(c) + Len(b)
      /\ \A k \in 1..(Len(c) + Len(b)) : (c \o b)[k] = IF k <= Len(c) THEN c[k] ELSE b[k - Len(c)]
  <2>1. b \in Seq(S) /\ c \in Seq(S)
    BY <1>3, <1>5
  <2>2. QED
    BY <2>1, ConcatProperties
<1>7. ASSUME NEW k \in 1..(Len(e) + Len(t))
      PROVE  (c \o b)[k] = IF k < p THEN e[k]
                           ELSE IF k < p + Len(t) THEN t[k - p + 1] ELSE e[k - Len(t)]
  <2>1. k \in 1..(Len(c) + Len(b))
    BY <1>1, <1>3, <1>5
  <2>2. CASE k < p + Len(t)
    <3>1. k <= Len(c) /\ k \in 1..(p - 1 + Len(t))
      BY <1>1, <1>5, <2>2
    <3>2. QED
      BY <1>1, <1>5, <1>6, <2>1, <2>2, <3>1
  <2>3. CASE ~(k < p + Len(t))
    <3>1. ~(k <= Len(c)) /\ ~(k < p) /\ k - Len(c) \in 1..(Len(e) - p + 1)
          /\ p + (k - Len(c)) - 1 = k - Len(t)
      BY <1>1, <1>5, <2>3
    <3>2. QED
      BY <1>3, <1>6, <2>1, <2>3, <3>1
  <2>4. QED
    BY <2>2, <2>3
<1>8. PutAt(e, p, t) = c \o b
  BY DEF PutAt, a, b, c
<1>9. Len(c) + Len(b) = Len(e) + Len(t)
  BY <1>1, <1>3, <1>5
<1>10. QED
  BY <1>6, <1>7, <1>8, <1>9

-----------------------------------------------------------------------------
(* Pointers *)

Neighbours(nx, pv, x, y) == nx[x] = y /\ pv[y] = x

\* The pointers follow the places of the lists, but for those that are open: the one
\* to their first node may have been freed.
Rings(nx, pv, s, open) ==
  \A l \in Heads : \A i \in 0..Len(s[l]) :
    i > 0 \/ l \notin open => Neighbours(nx, pv, At(s, l, i), At(s, l, i + 1))

\* The nodes of t follow each other.
Chained(nx, pv, t) == \A k \in 1..(Len(t) - 1) : Neighbours(nx, pv, t[k], t[k + 1])

Pointers == [Links -> Links \cup {Nil}]

Cut(s, m, i, j) == [s EXCEPT ![m] = CutOut(s[m], i, j)]
Put(s, l, p, t) == [s EXCEPT ![l] = PutAt(s[l], p, t)]

\* What is left when nodes are taken from a list, and the part that was taken.
LEMMA CutApart ==
  ASSUME NEW s, Apart(s), NEW m \in Heads, NEW i \in 1..Len(s[m]), NEW j \in i..Len(s[m])
  PROVE  /\ Apart(Cut(s, m, i, j)) /\ Loose(Cut(s, m, i, j), SubSeq(s[m], i, j))
         /\ Len(Cut(s, m, i, j)[m]) = Len(s[m]) - (j - i + 1)
         /\ \A l \in Heads \ {m} : Cut(s, m, i, j)[l] = s[l]
         /\ \A k \in 0..(Len(s[m]) - (j - i + 1) + 1) :
              At(Cut(s, m, i, j), m, k) = At(s, m, IF k < i THEN k ELSE k + (j - i + 1))
         /\ Len(SubSeq(s[m], i, j)) = j - i + 1
         /\ \A k \in 1..(j - i + 1) : SubSeq(s[m], i, j)[k] = At(s, m, i + k - 1)
<1> DEFINE u == Cut(s, m, i, j)
           t == SubSeq(s[m], i, j)
           d == j - i + 1
           e == s[m]
<1>1. e \in Seq(Nodes) /\ Len(e) \in Nat /\ \A k \in 1..Len(e) : At(s, m, k) = e[k] /\ e[k] \in Nodes
  BY Places
<1>2. d \in 1..Len(e) /\ i \in Nat /\ j \in Nat /\ d = j - i + 1 /\ 1 <= i /\ i <= j /\ j <= Len(e)
  BY <1>1
<1>3. /\ t \in Seq(Nodes) /\ Len(t) = d /\ \A k \in 1..d : t[k] = e[i + k - 1]
  <2>1. i \in 1..(Len(e) + 1) /\ j \in (i - 1)..Len(e)
    BY <1>1
  <2>2. QED
    BY <1>1, <2>1, PartPlaces
<1> DEFINE c == CutOut(e, i, j)
<1>14. /\ c \in Seq(Nodes) /\ Len(c) = Len(e) - d
       /\ \A k \in 1..(Len(e) - d) : c[k] = IF k < i THEN e[k] ELSE e[k + d]
  BY <1>1, CutPlaces
<1> HIDE DEF c
<1>4. /\ u \in [Heads -> Seq(Nodes)] /\ u[m] = c
      /\ \A l \in Heads \ {m} : u[l] = s[l]
  BY <1>14 DEF Apart, Cut, c
<1> HIDE DEF u, t, d, e
<1>5. /\ Len(u[m]) = Len(e) - d
      /\ \A k \in 1..(Len(e) - d) : u[m][k] = IF k < i THEN e[k] ELSE e[k + d]
  BY <1>4, <1>14
<1>6. ASSUME NEW k \in 1..Len(u[m])
      PROVE  \E a \in 1..Len(e) : u[m][k] = e[a] /\ a = (IF k < i THEN k ELSE k + d) /\ (a < i \/ a > j)
  <2>1. CASE k < i
    BY <1>1, <1>2, <1>5, <2>1
  <2>2. CASE ~(k < i)
    <3>1. k + d \in 1..Len(e) /\ k + d > j
      BY <1>1, <1>2, <1>5, <2>2
    <3>2. u[m][k] = e[k + d]
      BY <1>5, <2>2
    <3>3. QED
      BY <2>2, <3>1, <3>2
  <2>3. QED
    BY <2>1, <2>2
<1>8. ASSUME NEW l \in Heads, NEW a \in 1..Len(u[l])
      PROVE  \E b \in 1..Len(s[l]) :
               /\ u[l][a] = s[l][b]
               /\ b = IF l # m \/ a < i THEN a ELSE a + d
               /\ l = m => b < i \/ b > j
  <2>1. CASE l = m
    BY <1>6, <2>1 DEF e
  <2>2. CASE l # m
    BY <1>4, <2>2
  <2>3. QED
    BY <2>1, <2>2
<1>9. Apart(u)
  <2>1. ASSUME NEW l \in Heads, NEW k \in Heads, NEW a \in 1..Len(u[l]), NEW b \in 1..Len(u[k]),
               u[l][a] = u[k][b]
        PROVE  l = k /\ a = b
    <3>1. PICK a2 \in 1..Len(s[l]) :
               /\ u[l][a] = s[l][a2]
               /\ a2 = IF l # m \/ a < i THEN a ELSE a + d
               /\ l = m => a2 < i \/ a2 > j
      BY <1>8, SMTT(30)
    <3>2. PICK b2 \in 1..Len(s[k]) :
               /\ u[k][b] = s[k][b2]
               /\ b2 = IF k # m \/ b < i THEN b ELSE b + d
               /\ k = m => b2 < i \/ b2 > j
      BY <1>8, ZenonT(30)
    <3>3. s[l][a2] = s[k][b2]
      BY <2>1, <3>1, <3>2
    <3>6. l = k /\ a2 = b2
      BY <3>3, Once
    <3>4. a \in Nat /\ b \in Nat
      BY <1>4, LenProperties
    <3>5. QED
      BY <1>2, <3>1, <3>2, <3>4, <3>6
  <2>2. QED
    BY <1>4, <2>1 DEF Apart
<1>10. Loose(u, t)
  <2>1. t # <<>>
    BY <1>2, <1>3
  <2>2. ASSUME NEW a \in 1..Len(t), NEW b \in 1..Len(t), t[a] = t[b] PROVE a = b
    <3>1. i + a - 1 \in 1..Len(e) /\ i + b - 1 \in 1..Len(e) /\ t[a] = e[i + a - 1] /\ t[b] = e[i + b - 1]
      BY <1>1, <1>2, <1>3
    <3>2. /\ \E x \in 1..Len(s[m]) : t[a] = s[m][x] /\ x = i + a - 1
          /\ \E y \in 1..Len(s[m]) : t[b] = s[m][y] /\ y = i + b - 1
      BY <3>1 DEF e
    <3>3. i + a - 1 = i + b - 1
      BY <2>2, <3>2, Once
    <3>4. QED
      BY <1>2, <1>3, <3>3
  <2>3. ASSUME NEW a \in 1..Len(t), NEW l \in Heads, NEW b \in 1..Len(u[l]) PROVE t[a] # u[l][b]
    <3>1. i + a - 1 \in 1..Len(e) /\ t[a] = e[i + a - 1] /\ i + a - 1 >= i /\ i + a - 1 <= j
      BY <1>1, <1>2, <1>3
    <3>2. PICK b2 \in 1..Len(s[l]) : u[l][b] = s[l][b2] /\ (l = m => b2 < i \/ b2 > j)
      BY <1>8
    <3>5. \E x \in 1..Len(s[m]) : t[a] = s[m][x] /\ x = i + a - 1
      BY <3>1 DEF e
    <3>3. t[a] = u[l][b] => l = m /\ b2 = i + a - 1
      BY <3>2, <3>5, Once
    <3>4. QED
      BY <1>1, <1>2, <3>1, <3>2, <3>3
  <2>4. QED
    BY <1>3, <2>1, <2>2, <2>3 DEF Loose
<1>11. ASSUME NEW k \in 0..(Len(e) - d + 1)
       PROVE  At(u, m, k) = At(s, m, IF k < i THEN k ELSE k + d)
  <2>1. CASE k \in 1..Len(u[m])
    <3>1. PICK a \in 1..Len(e) : u[m][k] = e[a] /\ a = (IF k < i THEN k ELSE k + d)
      BY <1>6, <2>1
    <3>2. QED
      BY <1>1, <2>1, <3>1 DEF At
  <2>2. CASE k \notin 1..Len(u[m])
    <3>1. (IF k < i THEN k ELSE k + d) \notin 1..Len(s[m])
      BY <1>1, <1>2, <1>5, <2>2 DEF e
    <3>2. QED
      BY <2>2, <3>1 DEF At
  <2>3. QED
    BY <2>1, <2>2
<1>12. \A k \in 1..d : t[k] = At(s, m, i + k - 1)
  <2>1. \A k \in 1..d : i + k - 1 \in 1..Len(e)
    BY <1>1, <1>2
  <2>2. QED
    BY <1>1, <1>3, <2>1
<1>13. QED
  BY <1>3, <1>4, <1>5, <1>9, <1>10, <1>11, <1>12 DEF u, t, d, e

\* The places of a list into which loose nodes were put.
LEMMA PutApart ==
  ASSUME NEW s, Apart(s), NEW t, Loose(s, t), NEW l \in Heads, NEW p \in 1..(Len(s[l]) + 1)
  PROVE  /\ Apart(Put(s, l, p, t))
         /\ Len(Put(s, l, p, t)[l]) = Len(s[l]) + Len(t)
         /\ \A k \in Heads \ {l} : Put(s, l, p, t)[k] = s[k]
         /\ \A k \in 0..(Len(s[l]) + Len(t) + 1) :
              At(Put(s, l, p, t), l, k) = IF k < p THEN At(s, l, k)
                                          ELSE IF k < p + Len(t) THEN t[k - p + 1]
                                          ELSE At(s, l, k - Len(t))
<1> DEFINE u == Put(s, l, p, t)
           e == s[l]
           c == PutAt(e, p, t)
           n == Len(t)
<1>1. e \in Seq(Nodes) /\ Len(e) \in Nat /\ \A k \in 1..Len(e) : At(s, l, k) = e[k] /\ e[k] \in Nodes
  BY Places
<1>2. t \in Seq(Nodes) /\ n \in Nat /\ n # 0
  <2>1. t \in Seq(Nodes) /\ t # <<>>
    BY DEF Loose
  <2>2. QED
    BY <2>1, EmptySeq, LenProperties
<1>3. /\ c \in Seq(Nodes) /\ Len(c) = Len(e) + n
      /\ \A k \in 1..(Len(e) + n) :
           c[k] = IF k < p THEN e[k] ELSE IF k < p + n THEN t[k - p + 1] ELSE e[k - n]
  BY <1>1, <1>2, PutPlaces
<1>4. 1 <= p /\ p <= Len(e) + 1 /\ p \in Nat
  BY <1>1
<1> HIDE DEF c
<1>5. /\ u \in [Heads -> Seq(Nodes)] /\ u[l] = c
      /\ \A k \in Heads \ {l} : u[k] = s[k]
  BY <1>3 DEF Apart, Put, c
<1> HIDE DEF u, e, n
<1>6. ASSUME NEW k \in 1..Len(u[l])
      PROVE  \/ \E a \in 1..Len(e) : u[l][k] = e[a] /\ a = IF k < p THEN k ELSE k - n
             \/ \E a \in 1..n : u[l][k] = t[a] /\ a = k - p + 1
  <2>1. CASE k < p
    <3>1. k \in 1..(Len(e) + n) /\ k \in 1..Len(e)
      BY <1>1, <1>2, <1>3, <1>4, <1>5, <2>1
    <3>2. u[l][k] = e[k]
      BY <1>3, <1>5, <2>1, <3>1
    <3>3. QED
      BY <2>1, <3>1, <3>2
  <2>2. CASE ~(k < p) /\ k < p + n
    <3>1. k \in 1..(Len(e) + n) /\ k - p + 1 \in 1..n
      BY <1>1, <1>2, <1>3, <1>4, <1>5, <2>2
    <3>2. u[l][k] = t[k - p + 1]
      BY <1>3, <1>5, <2>2, <3>1
    <3>3. QED
      BY <3>1, <3>2
  <2>3. CASE ~(k < p) /\ ~(k < p + n)
    <3>1. k \in 1..(Len(e) + n) /\ k - n \in 1..Len(e)
      BY <1>1, <1>2, <1>3, <1>4, <1>5, <2>3
    <3>2. u[l][k] = e[k - n]
      BY <1>3, <1>5, <2>3, <3>1
    <3>3. QED
      BY <2>3, <3>1, <3>2
  <2>4. QED
    BY <2>1, <2>2, <2>3
<1>7. ASSUME NEW k \in Heads, NEW a \in 1..Len(u[k])
      PROVE  \/ \E b \in 1..Len(s[k]) : /\ u[k][a] = s[k][b]
                                        /\ b = IF k # l THEN a ELSE IF a < p THEN a ELSE a - n
                                        /\ k = l => a < p \/ a >= p + n
             \/ k = l /\ \E b \in 1..n : u[k][a] = t[b] /\ b = a - p + 1
  <2>1. CASE k = l
    <3>1. CASE \E b \in 1..Len(e) : u[l][a] = e[b] /\ b = IF a < p THEN a ELSE a - n
      <4>1. PICK b \in 1..Len(e) : u[l][a] = e[b] /\ b = IF a < p THEN a ELSE a - n
        BY <3>1
      <4>2. CASE a < p
        BY <2>1, <4>1, <4>2 DEF e
      <4>3. CASE a >= p + n
        BY <2>1, <4>1, <4>3 DEF e
      <4>4. CASE ~(a < p) /\ ~(a >= p + n)
        <5>1. u[l][a] = t[a - p + 1] /\ a - p + 1 \in 1..n
          <6>1. a \in 1..(Len(e) + n) /\ a < p + n /\ a - p + 1 \in 1..n
            BY <1>1, <1>2, <1>3, <1>4, <1>5, <2>1, <4>4
          <6>2. QED
            BY <1>3, <1>5, <4>4, <6>1
        <5>2. QED
          BY <2>1, <5>1
      <4>5. QED
        BY <4>2, <4>3, <4>4
    <3>2. CASE \E b \in 1..n : u[l][a] = t[b] /\ b = a - p + 1
      BY <2>1, <3>2
    <3>3. QED
      BY <1>6, <2>1, <3>1, <3>2
  <2>2. CASE k # l
    BY <1>5, <2>2
  <2>3. QED
    BY <2>1, <2>2
<1>8. /\ \A a, b \in 1..n : t[a] = t[b] => a = b
      /\ \A a \in 1..n, k \in Heads : \A b \in 1..Len(s[k]) : t[a] # s[k][b]
  BY DEF Loose, n
<1>9. Apart(u)
  <2>1. ASSUME NEW k \in Heads, NEW h \in Heads, NEW a \in 1..Len(u[k]), NEW b \in 1..Len(u[h]),
               u[k][a] = u[h][b]
        PROVE  k = h /\ a = b
    <3> DEFINE Old(g, x, y) == /\ y \in 1..Len(s[g]) /\ u[g][x] = s[g][y]
                               /\ y = IF g # l THEN x ELSE IF x < p THEN x ELSE x - n
                               /\ g = l => x < p \/ x >= p + n
               New(g, x, y) == g = l /\ y \in 1..n /\ u[g][x] = t[y] /\ y = x - p + 1
    <3>1. \/ \E y : Old(k, a, y)
          \/ \E y : New(k, a, y)
      BY <1>7
    <3>2. \/ \E y : Old(h, b, y)
          \/ \E y : New(h, b, y)
      BY <1>7
    <3>3. a \in Nat /\ b \in Nat
      BY <1>5, LenProperties
    <3>4. ASSUME NEW y, NEW z, Old(k, a, y), Old(h, b, z) PROVE k = h /\ a = b
      <4>1. k = h /\ y = z
        <5>1. s[k][y] = s[h][z]
          BY <2>1, <3>4
        <5>2. y \in 1..Len(s[k]) /\ z \in 1..Len(s[h])
          BY <3>4
        <5>3. QED
          BY <5>1, <5>2, Once
      <4>2. QED
        BY <1>2, <1>4, <3>3, <3>4, <4>1
    <3>5. ASSUME NEW y, NEW z, New(k, a, y), New(h, b, z) PROVE k = h /\ a = b
      <4>1. y = z /\ k = h
        BY <1>8, <2>1, <3>5
      <4>2. QED
        BY <1>4, <3>3, <3>5, <4>1
    <3>6. ASSUME NEW y, NEW z, Old(k, a, y), New(h, b, z) PROVE FALSE
      <4>1. t[z] = s[k][y] /\ z \in 1..n /\ y \in 1..Len(s[k])
        BY <2>1, <3>6
      <4>2. QED
        BY <1>8, <4>1
    <3>7. ASSUME NEW y, NEW z, New(k, a, y), Old(h, b, z) PROVE FALSE
      <4>1. t[y] = s[h][z] /\ y \in 1..n /\ z \in 1..Len(s[h])
        BY <2>1, <3>7
      <4>2. QED
        BY <1>8, <4>1
    <3> HIDE DEF Old, New
    <3>8. QED
      BY <3>1, <3>2, <3>4, <3>5, <3>6, <3>7
  <2>2. QED
    BY <1>5, <2>1 DEF Apart
<1>10. Len(u[l]) = Len(e) + n
  BY <1>3, <1>5
<1>11. ASSUME NEW k \in 0..(Len(e) + n + 1)
       PROVE  At(u, l, k) = IF k < p THEN At(s, l, k)
                            ELSE IF k < p + n THEN t[k - p + 1] ELSE At(s, l, k - n)
  <2>1. CASE k \in 1..(Len(e) + n)
    <3>1. At(u, l, k) = IF k < p THEN e[k] ELSE IF k < p + n THEN t[k - p + 1] ELSE e[k - n]
      BY <1>3, <1>5, <1>10, <2>1 DEF At
    <3>2. CASE k < p
      <4>1. k \in 1..Len(e)
        BY <1>1, <1>4, <2>1, <3>2
      <4>2. QED
        BY <1>1, <3>1, <3>2, <4>1
    <3>3. CASE ~(k < p) /\ ~(k < p + n)
      <4>1. k - n \in 1..Len(e)
        BY <1>1, <1>2, <1>4, <2>1, <3>3
      <4>2. QED
        BY <1>1, <3>1, <3>3, <4>1
    <3>4. QED
      BY <3>1, <3>2, <3>3
  <2>2. CASE k = 0
    BY <1>1, <1>4, <1>10, <2>2 DEF At
  <2>3. CASE k = Len(e) + n + 1
    <3>1. ~(k < p) /\ ~(k < p + n) /\ k - n \notin 1..Len(e) /\ k \notin 1..Len(u[l])
      BY <1>1, <1>2, <1>4, <1>10, <2>3
    <3>2. QED
      BY <3>1 DEF At, e
  <2>4. QED
    BY <1>1, <1>2, <2>1, <2>2, <2>3
<1>12. QED
  BY <1>5, <1>9, <1>10, <1>11 DEF u, e, n

\* The pointer in a link and that in its neighbour are changed.
Joined(nx, pv, x, y, nx2, pv2) == nx2 = [nx EXCEPT ![x] = y] /\ pv2 = [pv EXCEPT ![y] = x]

\* A part of a list is taken out by making those before and after it neighbours.
LEMMA TakenOut ==
  ASSUME NEW s, Apart(s), NEW m \in Heads, NEW i \in 1..Len(s[m]), NEW j \in i..Len(s[m]),
         NEW nx \in Pointers, NEW pv \in Pointers, NEW open, m \notin open, Rings(nx, pv, s, open),
         NEW nx2, NEW pv2, Joined(nx, pv, At(s, m, i - 1), At(s, m, j + 1), nx2, pv2)
  PROVE  /\ nx2 \in Pointers /\ pv2 \in Pointers
         /\ Rings(nx2, pv2, Cut(s, m, i, j), open)
         /\ Chained(nx2, pv2, SubSeq(s[m], i, j))
<1> DEFINE u == Cut(s, m, i, j)
           t == SubSeq(s[m], i, j)
           d == j - i + 1
           x == At(s, m, i - 1)
           y == At(s, m, j + 1)
           N == Len(s[m])
<1>1. N \in Nat /\ i \in Nat /\ j \in Nat /\ 1 <= i /\ i <= j /\ j <= N
  BY Places
<1>2. x \in Links /\ y \in Links
  BY Places
<1>3. /\ nx2 \in Pointers /\ pv2 \in Pointers /\ nx2[x] = y /\ pv2[y] = x
      /\ \A z \in Links \ {x} : nx2[z] = nx[z]
      /\ \A z \in Links \ {y} : pv2[z] = pv[z]
  BY <1>2 DEF Joined, Pointers
<1>4. /\ Len(u[m]) = N - d
      /\ \A l \in Heads \ {m} : u[l] = s[l]
      /\ \A k \in 0..(N - d + 1) : At(u, m, k) = At(s, m, IF k < i THEN k ELSE k + d)
      /\ Len(t) = d /\ \A k \in 1..d : t[k] = At(s, m, i + k - 1)
  <2>1. Len(u[m]) = N - d /\ \A l \in Heads \ {m} : u[l] = s[l]
    BY CutApart
  <2>2. \A k \in 0..(N - d + 1) : At(u, m, k) = At(s, m, IF k < i THEN k ELSE k + d)
    BY CutApart
  <2>3. Len(t) = d /\ \A k \in 1..d : t[k] = At(s, m, i + k - 1)
    BY CutApart
  <2>4. QED
    BY <2>1, <2>2, <2>3
<1>5. d \in Nat /\ d = j - i + 1
  BY <1>1
<1> HIDE DEF u, t, d, x, y, N
<1>6. ASSUME NEW l \in Heads, NEW k \in 0..Len(s[l]), k > 0 \/ l \notin open,
             l # m \/ (k # i - 1 /\ k # j)
      PROVE  Neighbours(nx2, pv2, At(s, l, k), At(s, l, k + 1))
  <2>1. Neighbours(nx, pv, At(s, l, k), At(s, l, k + 1))
    BY <1>6 DEF Rings
  <2>2. At(s, l, k) # x
    <3>1. i - 1 \in 0..N
      BY <1>1
    <3>2. QED
      BY <1>6, <3>1, PlaceOnce DEF x, N
  <2>3. At(s, l, k + 1) # y
    <3>1. j + 1 \in 1..(N + 1) /\ k + 1 \in 1..(Len(s[l]) + 1) /\ (k + 1 = j + 1 => k = j)
      BY <1>1, Places
    <3>2. QED
      BY <1>6, <3>1, PlaceOnceBehind DEF y, N
  <2>4. At(s, l, k) \in Links /\ At(s, l, k + 1) \in Links
    BY Places
  <2>5. QED
    BY <1>3, <2>1, <2>2, <2>3, <2>4 DEF Neighbours
<1>7. ASSUME NEW l \in Heads, NEW k \in 0..Len(u[l]), k > 0 \/ l \notin open
      PROVE  Neighbours(nx2, pv2, At(u, l, k), At(u, l, k + 1))
  <2>1. CASE l # m
    <3>1. u[l] = s[l]
      BY <1>4, <2>1
    <3>2. QED
      BY <1>6, <1>7, <2>1, <3>1 DEF At
  <2>2. CASE l = m
    <3>1. k \in 0..(N - d + 1) /\ k + 1 \in 0..(N - d + 1) /\ k \in 0..(N - d)
      BY <1>1, <1>4, <1>5, <2>2
    <3>2. /\ At(u, m, k) = At(s, m, IF k < i THEN k ELSE k + d)
          /\ At(u, m, k + 1) = At(s, m, IF k + 1 < i THEN k + 1 ELSE k + 1 + d)
      BY <1>4, <3>1
    <3>3. CASE k < i - 1
      <4>1. At(u, m, k) = At(s, m, k) /\ At(u, m, k + 1) = At(s, m, k + 1)
        BY <1>1, <3>2, <3>3
      <4>2. k \in 0..N /\ k # i - 1 /\ k # j
        BY <1>1, <3>1, <3>3
      <4>3. QED
        BY <1>6, <1>7, <2>2, <4>1, <4>2 DEF N
    <3>4. CASE k = i - 1
      <4>1. k < i /\ ~(k + 1 < i) /\ k + 1 + d = j + 1
        BY <1>1, <1>5, <3>4
      <4>2. QED
        BY <1>3, <2>2, <3>2, <3>4, <4>1 DEF Neighbours, x, y
    <3>5. CASE k > i - 1
      <4>1. ~(k < i) /\ ~(k + 1 < i) /\ k + 1 + d = (k + d) + 1
        BY <1>1, <1>5, <3>1, <3>5
      <4>2. k + d \in 0..N /\ k + d # i - 1 /\ k + d # j /\ k + d > 0
        BY <1>1, <1>5, <3>1, <3>5
      <4>3. QED
        BY <1>6, <2>2, <3>2, <4>1, <4>2 DEF N
    <3>6. QED
      BY <1>1, <3>1, <3>3, <3>4, <3>5
  <2>3. QED
    BY <2>1, <2>2
<1>8. ASSUME NEW k \in 1..(Len(t) - 1) PROVE Neighbours(nx2, pv2, t[k], t[k + 1])
  <2>1. /\ k \in 1..d /\ k + 1 \in 1..d /\ i + (k + 1) - 1 = (i + k - 1) + 1
        /\ i + k - 1 \in 0..N /\ i + k - 1 > 0 /\ i + k - 1 # i - 1 /\ i + k - 1 # j
    BY <1>1, <1>4, <1>5
  <2>2. t[k] = At(s, m, i + k - 1) /\ t[k + 1] = At(s, m, (i + k - 1) + 1)
    BY <1>4, <2>1
  <2>3. QED
    BY <1>6, <2>1, <2>2 DEF N
<1>9. QED
  BY <1>3, <1>7, <1>8 DEF Rings, Chained, u, t

\* A chain of loose nodes is put into a list, which does not change the pointer of an
\* open list to its first node.
LEMMA PutIn ==
  ASSUME NEW s, Apart(s), NEW t, Loose(s, t), NEW l \in Heads, NEW p \in 1..(Len(s[l]) + 1),
         NEW nx \in Pointers, NEW pv \in Pointers, NEW open, l \in open => p > 1,
         Rings(nx, pv, s, open), Chained(nx, pv, t),
         NEW nx1, NEW pv1, Joined(nx, pv, At(s, l, p - 1), t[1], nx1, pv1),
         NEW nx2, NEW pv2, Joined(nx1, pv1, t[Len(t)], At(s, l, p), nx2, pv2)
  PROVE  /\ nx2 \in Pointers /\ pv2 \in Pointers
         /\ Rings(nx2, pv2, Put(s, l, p, t), open)
<1> DEFINE u == Put(s, l, p, t)
           N == Len(s[l])
           n == Len(t)
           x == At(s, l, p - 1)
           y == At(s, l, p)
           a == t[1]
           z == t[n]
<1>1. N \in Nat /\ p \in Nat /\ 1 <= p /\ p <= N + 1 /\ s[l] \in Seq(Nodes)
  BY Places
<1>2. n \in Nat /\ n >= 1 /\ \A k \in 1..n : t[k] \in Nodes /\ t[k] \in Links
  <2>1. t \in Seq(Nodes) /\ t # <<>>
    BY DEF Loose
  <2>2. n \in Nat \ {0}
    BY <2>1, EmptySeq
  <2>3. \A k \in 1..n : t[k] \in Nodes
    BY <2>1, LenProperties
  <2>4. QED
    BY <2>2, <2>3 DEF Links
<1>3. x \in Links /\ y \in Links /\ a \in Links /\ z \in Links
  <2>1. 1 \in 1..n /\ n \in 1..n
    BY <1>2
  <2>2. QED
    BY <1>2, <2>1, Places
<1>4. ASSUME NEW k \in 1..n, NEW h \in Heads, NEW i PROVE t[k] # At(s, h, i)
  <2>1. CASE i \in 1..Len(s[h])
    BY <1>4, <2>1 DEF Loose, At
  <2>2. CASE i \notin 1..Len(s[h])
    BY <1>2, <1>4, <2>2, Places
  <2>3. QED
    BY <2>1, <2>2
<1>5. \A k \in 1..n : (t[k] = a => k = 1) /\ (t[k] = z => k = n)
  <2>1. 1 \in 1..n /\ n \in 1..n
    BY <1>2
  <2>2. QED
    BY <2>1 DEF Loose
<1>6. x # z /\ a # y
  <2>1. 1 \in 1..n /\ n \in 1..n
    BY <1>2
  <2>2. QED
    BY <1>4, <2>1
<1> HIDE DEF x, y, a, z
<1>7. /\ nx2 \in Pointers /\ pv2 \in Pointers
      /\ nx2[x] = a /\ pv2[a] = x /\ nx2[z] = y /\ pv2[y] = z
      /\ \A w \in Links \ {x, z} : nx2[w] = nx[w]
      /\ \A w \in Links \ {a, y} : pv2[w] = pv[w]
  <2>1. /\ nx1 \in Pointers /\ pv1 \in Pointers /\ nx1[x] = a /\ pv1[a] = x
        /\ \A w \in Links \ {x} : nx1[w] = nx[w]
        /\ \A w \in Links \ {a} : pv1[w] = pv[w]
    BY <1>3 DEF Joined, Pointers, x, a
  <2>2. /\ nx2 \in Pointers /\ pv2 \in Pointers /\ nx2[z] = y /\ pv2[y] = z
        /\ \A w \in Links \ {z} : nx2[w] = nx1[w]
        /\ \A w \in Links \ {y} : pv2[w] = pv1[w]
    BY <1>3, <2>1 DEF Joined, Pointers, y, z
  <2>3. QED
    BY <1>3, <1>6, <2>1, <2>2
<1>8. /\ Len(u[l]) = N + n
      /\ \A k \in Heads \ {l} : u[k] = s[k]
      /\ \A k \in 0..(N + n + 1) :
           At(u, l, k) = IF k < p THEN At(s, l, k)
                         ELSE IF k < p + n THEN t[k - p + 1] ELSE At(s, l, k - n)
  BY PutApart
<1> HIDE DEF u, n, N
<1>9. ASSUME NEW h \in Heads, NEW k \in 0..Len(s[h]), k > 0 \/ h \notin open, h # l \/ k # p - 1
      PROVE  Neighbours(nx2, pv2, At(s, h, k), At(s, h, k + 1))
  <2>1. Neighbours(nx, pv, At(s, h, k), At(s, h, k + 1))
    BY <1>9 DEF Rings
  <2>2. At(s, h, k) # x
    <3>1. p - 1 \in 0..N
      BY <1>1
    <3>2. QED
      BY <1>9, <3>1, PlaceOnce DEF x, N
  <2>3. At(s, h, k + 1) # y
    <3>1. p \in 1..(N + 1) /\ k + 1 \in 1..(Len(s[h]) + 1) /\ (k + 1 = p => k = p - 1)
      BY <1>1, Places
    <3>2. QED
      BY <1>9, <3>1, PlaceOnceBehind DEF y, N
  <2>4. At(s, h, k) # z /\ At(s, h, k + 1) # a
    <3>1. 1 \in 1..n /\ n \in 1..n
      BY <1>2
    <3>2. QED
      BY <1>4, <3>1 DEF a, z, n
  <2>5. At(s, h, k) \in Links /\ At(s, h, k + 1) \in Links
    BY Places
  <2>6. QED
    BY <1>7, <2>1, <2>2, <2>3, <2>4, <2>5 DEF Neighbours
<1>10. ASSUME NEW h \in Heads, NEW k \in 0..Len(u[h]), k > 0 \/ h \notin open
       PROVE  Neighbours(nx2, pv2, At(u, h, k), At(u, h, k + 1))
  <2>1. CASE h # l
    <3>1. u[h] = s[h]
      BY <1>8, <2>1
    <3>2. QED
      BY <1>9, <1>10, <2>1, <3>1 DEF At
  <2>2. CASE h = l
    <3>1. k \in 0..(N + n) /\ k \in 0..(N + n + 1) /\ k + 1 \in 0..(N + n + 1)
      BY <1>1, <1>2, <1>8, <2>2
    <3>2. /\ At(u, l, k) = IF k < p THEN At(s, l, k)
                           ELSE IF k < p + n THEN t[k - p + 1] ELSE At(s, l, k - n)
          /\ At(u, l, k + 1) = IF k + 1 < p THEN At(s, l, k + 1)
                               ELSE IF k + 1 < p + n THEN t[(k + 1) - p + 1] ELSE At(s, l, (k + 1) - n)
      BY <1>8, <3>1
    <3>3. CASE k < p - 1
      <4>1. At(u, l, k) = At(s, l, k) /\ At(u, l, k + 1) = At(s, l, k + 1)
        BY <1>1, <3>2, <3>3
      <4>2. k \in 0..N /\ k # p - 1
        BY <1>1, <3>1, <3>3
      <4>3. QED
        BY <1>9, <1>10, <2>2, <4>1, <4>2 DEF N
    <3>4. CASE k = p - 1
      <4>1. k < p /\ ~(k + 1 < p) /\ k + 1 < p + n /\ (k + 1) - p + 1 = 1
        BY <1>1, <1>2, <3>4
      <4>2. At(u, l, k) = x /\ At(u, l, k + 1) = a
        BY <3>2, <3>4, <4>1 DEF x, a
      <4>3. QED
        BY <1>7, <2>2, <4>2 DEF Neighbours
    <3>5. CASE p <= k /\ k < p + n - 1
      <4>1. /\ ~(k < p) /\ k < p + n /\ ~(k + 1 < p) /\ k + 1 < p + n
            /\ k - p + 1 \in 1..n /\ k - p + 1 \in 1..(n - 1) /\ k - p + 1 # n /\ (k - p + 1) + 1 # 1
            /\ (k - p + 1) + 1 \in 1..n /\ (k + 1) - p + 1 = (k - p + 1) + 1
        BY <1>1, <1>2, <3>1, <3>5
      <4>2. At(u, l, k) = t[k - p + 1] /\ At(u, l, k + 1) = t[(k - p + 1) + 1]
        BY <3>2, <4>1
      <4>3. Neighbours(nx, pv, t[k - p + 1], t[(k - p + 1) + 1])
        BY <4>1 DEF Chained, n
      <4>4. /\ t[k - p + 1] # z /\ t[(k - p + 1) + 1] # a
            /\ t[k - p + 1] # x /\ t[(k - p + 1) + 1] # y
        BY <1>4, <1>5, <4>1 DEF x, y
      <4>5. t[k - p + 1] \in Links /\ t[(k - p + 1) + 1] \in Links
        BY <1>2, <4>1
      <4>6. QED
        BY <1>7, <2>2, <4>2, <4>3, <4>4, <4>5 DEF Neighbours
    <3>6. CASE k = p + n - 1
      <4>1. /\ ~(k < p) /\ k < p + n /\ ~(k + 1 < p) /\ ~(k + 1 < p + n)
            /\ k - p + 1 = n /\ (k + 1) - n = p
        BY <1>1, <1>2, <3>1, <3>6
      <4>2. At(u, l, k) = z /\ At(u, l, k + 1) = y
        BY <3>2, <4>1 DEF y, z, n
      <4>3. QED
        BY <1>7, <2>2, <4>2 DEF Neighbours
    <3>7. CASE k > p + n - 1
      <4>1. /\ ~(k < p) /\ ~(k < p + n) /\ ~(k + 1 < p) /\ ~(k + 1 < p + n)
            /\ (k + 1) - n = (k - n) + 1 /\ k - n \in 0..N /\ k - n # p - 1 /\ k - n > 0
        BY <1>1, <1>2, <3>1, <3>7
      <4>2. At(u, l, k) = At(s, l, k - n) /\ At(u, l, k + 1) = At(s, l, (k - n) + 1)
        BY <3>2, <4>1
      <4>3. QED
        BY <1>9, <2>2, <4>1, <4>2 DEF N
    <3>8. QED
      BY <1>1, <1>2, <3>1, <3>3, <3>4, <3>5, <3>6, <3>7
  <2>3. QED
    BY <2>1, <2>2
<1>11. QED
  BY <1>7, <1>10 DEF Rings, u

\* What is in a list.
LEMMA Members ==
  ASSUME NEW S, NEW e \in Seq(S)
  PROVE  ToSet(e) = {e[i] : i \in 1..Len(e)} /\ ToSet(e) \subseteq S
<1>1. DOMAIN e = 1..Len(e) /\ \A i \in 1..Len(e) : e[i] \in S
  BY LenProperties
<1>2. QED
  BY <1>1 DEF ToSet

\* A list has what is left of it and the part that was taken.
LEMMA CutMembers ==
  ASSUME NEW S, NEW e \in Seq(S), NEW i \in 1..Len(e), NEW j \in i..Len(e)
  PROVE  ToSet(e) = ToSet(CutOut(e, i, j)) \cup ToSet(SubSeq(e, i, j))
<1> DEFINE c == CutOut(e, i, j)
           t == SubSeq(e, i, j)
           d == j - i + 1
<1>1. Len(e) \in Nat /\ i \in Nat /\ j \in Nat /\ 1 <= i /\ i <= j /\ j <= Len(e)
  BY LenProperties
<1>2. /\ c \in Seq(S) /\ Len(c) = Len(e) - d
      /\ \A k \in 1..(Len(e) - d) : c[k] = IF k < i THEN e[k] ELSE e[k + d]
  BY CutPlaces
<1>3. t \in Seq(S) /\ Len(t) = d /\ \A k \in 1..d : t[k] = e[i + k - 1]
  <2>1. i \in 1..(Len(e) + 1) /\ j \in (i - 1)..Len(e)
    BY <1>1
  <2>2. QED
    BY <2>1, PartPlaces
<1>4. d \in Nat /\ d = j - i + 1
  BY <1>1
<1> HIDE DEF c, t, d
<1>5. ASSUME NEW k \in 1..Len(e) PROVE e[k] \in ToSet(c) \cup ToSet(t)
  <2>1. CASE k < i
    <3>1. k \in 1..Len(c) /\ c[k] = e[k]
      BY <1>1, <1>2, <1>4, <2>1
    <3>2. QED
      BY <1>2, <3>1, Members
  <2>2. CASE k > j
    <3>1. k - d \in 1..Len(c) /\ ~(k - d < i) /\ (k - d) + d = k
      BY <1>1, <1>2, <1>4, <2>2
    <3>2. c[k - d] = e[k]
      BY <1>2, <3>1
    <3>3. QED
      BY <1>2, <3>1, <3>2, Members
  <2>3. CASE i <= k /\ k <= j
    <3>1. k - i + 1 \in 1..Len(t) /\ i + (k - i + 1) - 1 = k
      BY <1>1, <1>3, <1>4, <2>3
    <3>2. t[k - i + 1] = e[k]
      BY <1>3, <3>1
    <3>3. QED
      BY <1>3, <3>1, <3>2, Members
  <2>4. QED
    BY <1>1, <2>1, <2>2, <2>3
<1>6. ASSUME NEW k \in 1..Len(c) PROVE c[k] \in ToSet(e)
  <2>1. PICK a \in 1..Len(e) : c[k] = e[a]
    <3>1. CASE k < i
      <4>1. k \in 1..Len(e) /\ c[k] = e[k]
        BY <1>1, <1>2, <1>4, <3>1
      <4>2. QED
        BY <4>1
    <3>2. CASE ~(k < i)
      <4>1. k + d \in 1..Len(e) /\ c[k] = e[k + d]
        BY <1>1, <1>2, <1>4, <3>2
      <4>2. QED
        BY <4>1
    <3>3. QED
      BY <3>1, <3>2
  <2>2. QED
    BY <2>1, Members
<1>7. ASSUME NEW k \in 1..Len(t) PROVE t[k] \in ToSet(e)
  <2>1. i + k - 1 \in 1..Len(e) /\ t[k] = e[i + k - 1]
    BY <1>1, <1>3, <1>4
  <2>2. QED
    BY <2>1, Members
<1>8. /\ ToSet(e) = {e[k] : k \in 1..Len(e)} /\ ToSet(c) = {c[k] : k \in 1..Len(c)}
      /\ ToSet(t) = {t[k] : k \in 1..Len(t)}
  BY <1>2, <1>3, Members
<1>9. ToSet(e) = ToSet(c) \cup ToSet(t)
  BY <1>5, <1>6, <1>7, <1>8
<1>10. QED
  BY <1>9 DEF c, t

\* A list into which t was put has what it had and t.
LEMMA PutMembers ==
  ASSUME NEW S, NEW e \in Seq(S), NEW t \in Seq(S), NEW p \in 1..(Len(e) + 1)
  PROVE  ToSet(PutAt(e, p, t)) = ToSet(e) \cup ToSet(t)
<1> DEFINE c == PutAt(e, p, t)
           n == Len(t)
<1>1. Len(e) \in Nat /\ n \in Nat /\ p \in Nat /\ 1 <= p /\ p <= Len(e) + 1
  BY LenProperties
<1>2. /\ c \in Seq(S) /\ Len(c) = Len(e) + n
      /\ \A k \in 1..(Len(e) + n) :
           c[k] = IF k < p THEN e[k] ELSE IF k < p + n THEN t[k - p + 1] ELSE e[k - n]
  BY PutPlaces
<1> HIDE DEF c, n
<1>3. ASSUME NEW k \in 1..Len(e) PROVE e[k] \in ToSet(c)
  <2>1. CASE k < p
    <3>1. k \in 1..Len(c) /\ c[k] = e[k]
      BY <1>1, <1>2, <2>1
    <3>2. QED
      BY <1>2, <3>1, Members
  <2>2. CASE ~(k < p)
    <3>1. k + n \in 1..Len(c) /\ ~(k + n < p) /\ ~(k + n < p + n) /\ (k + n) - n = k
      BY <1>1, <1>2, <2>2
    <3>2. c[k + n] = e[k]
      BY <1>2, <3>1
    <3>3. QED
      BY <1>2, <3>1, <3>2, Members
  <2>3. QED
    BY <2>1, <2>2
<1>4. ASSUME NEW k \in 1..n PROVE t[k] \in ToSet(c)
  <2>1. /\ k + p - 1 \in 1..Len(c) /\ ~(k + p - 1 < p) /\ k + p - 1 < p + n
        /\ (k + p - 1) - p + 1 = k
    BY <1>1, <1>2
  <2>2. c[k + p - 1] = t[k]
    BY <1>2, <2>1
  <2>3. QED
    BY <1>2, <2>1, <2>2, Members
<1>5. ASSUME NEW k \in 1..Len(c) PROVE c[k] \in ToSet(e) \cup ToSet(t)
  <2>1. CASE k < p
    <3>1. k \in 1..Len(e) /\ c[k] = e[k]
      BY <1>1, <1>2, <2>1
    <3>2. QED
      BY <3>1, Members
  <2>2. CASE ~(k < p) /\ k < p + n
    <3>1. k - p + 1 \in 1..n /\ c[k] = t[k - p + 1]
      BY <1>1, <1>2, <2>2
    <3>2. QED
      BY <3>1, Members DEF n
  <2>3. CASE ~(k < p) /\ ~(k < p + n)
    <3>1. k - n \in 1..Len(e) /\ k \in 1..(Len(e) + n)
      BY <1>1, <1>2, <2>3
    <3>2. c[k] = e[k - n]
      BY <1>2, <2>3, <3>1
    <3>3. QED
      BY <3>1, <3>2, Members
  <2>4. QED
    BY <2>1, <2>2, <2>3
<1>6. /\ ToSet(e) = {e[k] : k \in 1..Len(e)} /\ ToSet(c) = {c[k] : k \in 1..Len(c)}
      /\ ToSet(t) = {t[k] : k \in 1..n}
  BY <1>2, Members DEF n
<1>7. ToSet(c) = ToSet(e) \cup ToSet(t)
  BY <1>3, <1>4, <1>5, <1>6
<1>8. QED
  BY <1>7 DEF c

\* The i-th to the j-th node of h are taken out and put into l, before what is its p-th
\* place then: the sequences, and the pointers.
Moved(s, h, i, j, l, p) == Put(Cut(s, h, i, j), l, p, SubSeq(s[h], i, j))
MovedIn(m, s, h, i, j, l, p) ==
  Inserted(m, At(Cut(s, h, i, j), l, p), At(s, h, i - 1), At(s, h, j + 1))

\* Links that are in no list keep their pointer to the next one, except those in but.
Untouched(m, m2, s, but) == \A w \in Links : w \notin Listed(s) \cup but => m2.next[w] = m.next[w]

\* No node is lost or found when it is moved.
LEMMA MovedListed ==
  ASSUME NEW s, Apart(s), NEW h \in Heads, NEW i \in 1..Len(s[h]), NEW j \in i..Len(s[h]),
         NEW l \in Heads, NEW p \in 1..(Len(Cut(s, h, i, j)[l]) + 1)
  PROVE  Listed(Moved(s, h, i, j, l, p)) = Listed(s)
<1> DEFINE u == Cut(s, h, i, j)
           t == SubSeq(s[h], i, j)
           v == Put(u, l, p, t)
<1>1. Apart(u) /\ Loose(u, t) /\ \A k \in Heads \ {h} : u[k] = s[k]
  BY CutApart
<1>2. /\ ToSet(s[h]) = ToSet(u[h]) \cup ToSet(t)
  <2>1. s[h] \in Seq(Nodes) /\ u[h] = CutOut(s[h], i, j)
    BY DEF Apart, Cut
  <2>2. QED
    BY <2>1, CutMembers
<1> HIDE DEF u, t
<1>3. ToSet(v[l]) = ToSet(u[l]) \cup ToSet(t) /\ \A k \in Heads \ {l} : v[k] = u[k]
  <2>1. v[l] = PutAt(u[l], p, t) /\ u[l] \in Seq(Nodes) /\ t \in Seq(Nodes)
    BY <1>1 DEF Put, Apart, Loose
  <2>2. p \in 1..(Len(u[l]) + 1)
    BY DEF u
  <2>3. \A k \in Heads \ {l} : v[k] = u[k]
    BY <1>1 DEF Put, Apart
  <2> HIDE DEF v
  <2>4. QED
    BY <2>1, <2>2, <2>3, PutMembers
<1> HIDE DEF v
<1>4. ASSUME NEW n PROVE n \in Listed(v) <=> n \in Listed(u) \cup ToSet(t)
  BY <1>3 DEF Listed
<1>5. ASSUME NEW n PROVE n \in Listed(s) <=> n \in Listed(u) \cup ToSet(t)
  BY <1>1, <1>2 DEF Listed
<1>6. QED
  BY <1>4, <1>5 DEF u, t, v, Moved

\* Where a listed node is.
LEMMA ListedPlace ==
  ASSUME NEW s, Apart(s)
  PROVE  /\ \A n \in Listed(s) : \E l \in Heads : \E i \in 1..Len(s[l]) : n = s[l][i] /\ n = At(s, l, i)
         /\ \A l \in Heads : \A i \in 1..Len(s[l]) : s[l][i] \in Listed(s) /\ s[l][i] \in ToSet(s[l])
         /\ Listed(s) \subseteq Nodes
<1>1. \A l \in Heads : /\ ToSet(s[l]) = {s[l][i] : i \in 1..Len(s[l])}
                       /\ ToSet(s[l]) \subseteq Nodes
  <2>1. \A l \in Heads : s[l] \in Seq(Nodes)
    BY DEF Apart
  <2>2. QED
    BY <2>1, Members
<1>2. \A l \in Heads : \A i \in 1..Len(s[l]) : At(s, l, i) = s[l][i]
  BY DEF At
<1>3. ASSUME NEW n \in Listed(s)
      PROVE  \E l \in Heads : \E i \in 1..Len(s[l]) : n = s[l][i] /\ n = At(s, l, i)
  <2>1. PICK l \in Heads : n \in ToSet(s[l])
    BY DEF Listed
  <2>2. PICK i \in 1..Len(s[l]) : n = s[l][i]
    BY <1>1, <2>1
  <2>3. QED
    BY <1>2, <2>2
<1>4. ASSUME NEW l \in Heads, NEW i \in 1..Len(s[l])
      PROVE  s[l][i] \in Listed(s) /\ s[l][i] \in ToSet(s[l])
  <2>1. s[l][i] \in ToSet(s[l])
    BY <1>1
  <2>2. QED
    BY <2>1 DEF Listed
<1>5. Listed(s) \subseteq Nodes
  BY <1>1 DEF Listed
<1>6. QED
  BY <1>3, <1>4, <1>5

\* What an open list has as its first node: that of its sequence, or one that was freed.
Entered(m, s, l) == Neighbours(m.next, m.prev, l, At(s, l, 1)) \/ m.next[l] \in Nodes \ Listed(s)

\* The pointers m have the sequences s, but for the heads in open.
Shape(m, s, open) ==
  /\ m \in Memory /\ Apart(s) /\ open \subseteq Heads
  /\ Rings(m.next, m.prev, s, open)
  /\ \A n \in Nodes : m.next[n] = Nil <=> n \notin Listed(s)
  /\ \A l \in open : Entered(m, s, l)

\* Changes of a function at different places may be made in any order.
LEMMA ThreeChanges ==
  ASSUME NEW S, NEW T, NEW f \in [S -> T], NEW a \in S, NEW b \in S, NEW c \in S,
         a # b, b # c, a # c, NEW x \in T, NEW y \in T, NEW z \in T
  PROVE  [[[f EXCEPT ![a] = x] EXCEPT ![b] = y] EXCEPT ![c] = z]
           = [[[f EXCEPT ![c] = z] EXCEPT ![a] = x] EXCEPT ![b] = y]
<1> DEFINE g == [[[f EXCEPT ![a] = x] EXCEPT ![b] = y] EXCEPT ![c] = z]
           h == [[[f EXCEPT ![c] = z] EXCEPT ![a] = x] EXCEPT ![b] = y]
<1>1. g \in [S -> T] /\ h \in [S -> T]
  OBVIOUS
<1>2. \A w \in S : g[w] = IF w = a THEN x ELSE IF w = b THEN y ELSE IF w = c THEN z ELSE f[w]
  OBVIOUS
<1>3. \A w \in S : h[w] = IF w = a THEN x ELSE IF w = b THEN y ELSE IF w = c THEN z ELSE f[w]
  OBVIOUS
<1> HIDE DEF g, h
<1>4. g = h
  BY <1>1, <1>2, <1>3
<1>5. QED
  BY <1>4 DEF g, h

\* list_insert_nodes_ for a part that is not empty and a place that is neither in it nor
\* behind it: three pairs of links become neighbours.
LEMMA InsertedJoins ==
  ASSUME NEW m \in Memory, NEW pos \in Links, NEW before \in Links, NEW after \in Links,
         m.prev[pos] \in Links, m.next[before] \in Links, m.prev[after] \in Links,
         m.prev[pos] # before, m.next[before] # pos, m.next[before] # after, pos # after,
         m.prev[pos] # m.prev[after], m.prev[after] # before
  PROVE  LET a == [next |-> [m.next EXCEPT ![before] = after], prev |-> [m.prev EXCEPT ![after] = before]]
             b == [next |-> [a.next EXCEPT ![m.prev[pos]] = m.next[before]],
                   prev |-> [a.prev EXCEPT ![m.next[before]] = m.prev[pos]]]
             c == [next |-> [b.next EXCEPT ![m.prev[after]] = pos],
                   prev |-> [b.prev EXCEPT ![pos] = m.prev[after]]]
         IN  Inserted(m, pos, before, after) = c
<1> DEFINE nx == m.next
           pv == m.prev
           x == pv[pos]
           f == nx[before]
           g == pv[after]
<1>1. m = [next |-> nx, prev |-> pv] /\ nx \in Pointers /\ pv \in Pointers
  BY DEF Memory, Pointers
<1>2. /\ x \in Links /\ f \in Links /\ g \in Links
      /\ x # before /\ f # pos /\ f # after /\ pos # after /\ x # g /\ g # before
  OBVIOUS
<1>6. nx[before] = f /\ pv[pos] = x /\ pv[after] = g
  OBVIOUS
<1> HIDE DEF x, f, g
<1> DEFINE a1 == [m EXCEPT !.next[m.prev[pos]] = m.next[before]]
           b1 == [a1 EXCEPT !.prev[a1.next[before]] = a1.prev[pos]]
           c1 == [b1 EXCEPT !.prev[pos] = b1.prev[after]]
           d1 == [c1 EXCEPT !.next[c1.prev[after]] = pos]
           nx1 == [nx EXCEPT ![x] = f]
           nx2 == [nx1 EXCEPT ![g] = pos]
           nx3 == [nx2 EXCEPT ![before] = after]
           pv1 == [pv EXCEPT ![f] = x]
           pv2 == [pv1 EXCEPT ![pos] = g]
           pv3 == [pv2 EXCEPT ![after] = before]
<1>3. Inserted(m, pos, before, after) = Unlinked(d1, before, after)
  BY DEF Inserted
<1>4. a1 = [next |-> nx1, prev |-> pv]
  <2>1. a1 = [m EXCEPT !.next[x] = f]
    BY <1>6
  <2> HIDE DEF a1, nx, pv
  <2>2. QED
    BY <1>1, <2>1
<1>5. nx1[before] = f /\ nx1 \in Pointers
  BY <1>1, <1>2, <1>6 DEF Pointers
<1> HIDE DEF a1, nx1, nx, pv
<1>7. b1 = [next |-> nx1, prev |-> pv1]
  <2>1. a1.next = nx1 /\ a1.prev = pv
    BY <1>4
  <2>2. b1 = [a1 EXCEPT !.prev[f] = x]
    BY <1>5, <1>6, <2>1
  <2> HIDE DEF b1
  <2>3. QED
    BY <1>4, <2>2
<1>8. pv1[after] = g /\ pv1 \in Pointers
  BY <1>1, <1>2, <1>6 DEF Pointers
<1> HIDE DEF b1, pv1
<1>9. c1 = [next |-> nx1, prev |-> pv2]
  <2>1. b1.prev = pv1
    BY <1>7
  <2>2. c1 = [b1 EXCEPT !.prev[pos] = g]
    BY <1>8, <2>1
  <2> HIDE DEF c1
  <2>3. QED
    BY <1>7, <2>2
<1>10. pv2[after] = g /\ pv2 \in Pointers
  BY <1>2, <1>8 DEF Pointers
<1> HIDE DEF c1, pv2
<1>11. d1 = [next |-> nx2, prev |-> pv2]
  <2>1. c1.prev = pv2
    BY <1>9
  <2>2. d1 = [c1 EXCEPT !.next[g] = pos]
    BY <1>10, <2>1
  <2> HIDE DEF d1
  <2>3. QED
    BY <1>9, <2>2
<1>12. Unlinked(d1, before, after) = [next |-> nx3, prev |-> pv3]
  <2>1. d1.next = nx2 /\ d1.prev = pv2
    BY <1>11
  <2>2. QED
    BY <2>1 DEF Unlinked
<1> HIDE DEF d1
<1> DEFINE ny1 == [nx EXCEPT ![before] = after]
           ny2 == [ny1 EXCEPT ![x] = f]
           ny3 == [ny2 EXCEPT ![g] = pos]
           pw1 == [pv EXCEPT ![after] = before]
           pw2 == [pw1 EXCEPT ![f] = x]
           pw3 == [pw2 EXCEPT ![pos] = g]
<1>13. nx3 = ny3
  <2>1. /\ nx \in [Links -> Links \cup {Nil}] /\ x \in Links /\ g \in Links /\ before \in Links
        /\ x # g /\ g # before /\ x # before
        /\ f \in Links \cup {Nil} /\ pos \in Links \cup {Nil} /\ after \in Links \cup {Nil}
    BY <1>1, <1>2 DEF Pointers
  <2>2. QED
    BY <2>1, ThreeChanges, ZenonT(60) DEF nx1
<1>14. pv3 = pw3
  <2>1. /\ pv \in [Links -> Links \cup {Nil}] /\ f \in Links /\ pos \in Links /\ after \in Links
        /\ f # pos /\ pos # after /\ f # after
        /\ x \in Links \cup {Nil} /\ g \in Links \cup {Nil} /\ before \in Links \cup {Nil}
    BY <1>1, <1>2 DEF Pointers
  <2>2. QED
    BY <2>1, ThreeChanges, ZenonT(60) DEF pv1, pv2
<1>15. [next |-> nx3, prev |-> pv3] = [next |-> ny3, prev |-> pw3]
  BY <1>13, <1>14
<1>16. QED
  BY <1>3, <1>12, <1>15 DEF nx, pv, x, f, g

\* A node that is in no list is not in a place of one.
LEMMA LooseElsewhere ==
  ASSUME NEW s, Apart(s), NEW t, Loose(s, t)
  PROVE  /\ t \in Seq(Nodes) /\ Len(t) \in Nat /\ Len(t) >= 1
         /\ 1 \in 1..Len(t) /\ Len(t) \in 1..Len(t)
         /\ \A k \in 1..Len(t) : t[k] \in Nodes /\ t[k] \in Links
         /\ \A k \in 1..Len(t) : \A h \in Heads : \A i : t[k] # At(s, h, i)
<1>1. t \in Seq(Nodes) /\ t # <<>>
  BY DEF Loose
<1>2. Len(t) \in Nat \ {0}
  BY <1>1, EmptySeq
<1>3. \A k \in 1..Len(t) : t[k] \in Nodes
  BY <1>1, LenProperties
<1>4. ASSUME NEW k \in 1..Len(t), NEW h \in Heads, NEW i PROVE t[k] # At(s, h, i)
  <2>1. CASE i \in 1..Len(s[h])
    BY <2>1 DEF Loose, At
  <2>2. CASE i \notin 1..Len(s[h])
    BY <1>3, <2>2, Places
  <2>3. QED
    BY <2>1, <2>2
<1>5. QED
  BY <1>1, <1>2, <1>3, <1>4 DEF Links

\* The neighbour of a place.
LEMMA NextPlace ==
  ASSUME NEW s, Apart(s), NEW nx, NEW pv, NEW open, Rings(nx, pv, s, open),
         NEW l \in Heads, NEW i \in 0..Len(s[l]), i > 0 \/ l \notin open
  PROVE  nx[At(s, l, i)] = At(s, l, i + 1) /\ pv[At(s, l, i + 1)] = At(s, l, i)
BY DEF Rings, Neighbours

\* A listed node has a next one.
LEMMA ListedNext ==
  ASSUME NEW s, Apart(s), NEW nx, NEW pv, NEW open, Rings(nx, pv, s, open), NEW n \in Listed(s)
  PROVE  nx[n] \in Links /\ nx[n] # Nil
<1>1. PICK l \in Heads : \E i \in 1..Len(s[l]) : n = s[l][i] /\ n = At(s, l, i)
  BY ListedPlace
<1>2. PICK i \in 1..Len(s[l]) : n = At(s, l, i)
  BY <1>1
<1>3. i \in 0..Len(s[l]) /\ i > 0
  BY <1>2, Places
<1>4. nx[n] = At(s, l, i + 1)
  BY <1>2, <1>3, NextPlace
<1>5. At(s, l, i + 1) \in Links
  BY Places
<1>6. QED
  BY <1>4, <1>5, HeadsAssumption

\* A place is that of a listed node, or a head.
LEMMA PlaceListed ==
  ASSUME NEW s, Apart(s), NEW l \in Heads, NEW i
  PROVE  At(s, l, i) \in Listed(s) \cup {l}
<1>1. CASE i \in 1..Len(s[l])
  BY <1>1, ListedPlace DEF At
<1>2. CASE i \notin 1..Len(s[l])
  BY <1>2 DEF At
<1>3. QED
  BY <1>1, <1>2

\* Nodes from one list enter another one, or another place of theirs.
LEMMA MoveRings ==
  ASSUME NEW m \in Memory, NEW s, Apart(s), NEW open, Rings(m.next, m.prev, s, open),
         NEW h \in Heads, h \notin open, NEW i \in 1..Len(s[h]), NEW j \in i..Len(s[h]),
         NEW l \in Heads, NEW p \in 1..(Len(Cut(s, h, i, j)[l]) + 1), l \in open => p > 1,
         At(Cut(s, h, i, j), l, p) # At(s, h, j + 1)
  PROVE  /\ MovedIn(m, s, h, i, j, l, p) \in Memory /\ Apart(Moved(s, h, i, j, l, p))
         /\ Rings(MovedIn(m, s, h, i, j, l, p).next, MovedIn(m, s, h, i, j, l, p).prev,
                  Moved(s, h, i, j, l, p), open)
         /\ Untouched(m, MovedIn(m, s, h, i, j, l, p), s, {h} \cup IF p > 1 THEN {} ELSE {l})
<1> DEFINE m2 == MovedIn(m, s, h, i, j, l, p)
           v == Moved(s, h, i, j, l, p)
<1> DEFINE u == Cut(s, h, i, j)
           t == SubSeq(s[h], i, j)
           before == At(s, h, i - 1)
           after == At(s, h, j + 1)
           pos == At(u, l, p)
           x == At(u, l, p - 1)
           N == Len(s[h])
           d == j - i + 1
<1>1. N \in Nat /\ i \in Nat /\ j \in Nat /\ 1 <= i /\ i <= j /\ j <= N /\ d \in Nat /\ d = j - i + 1
  BY Places
<1>2. /\ Apart(u) /\ Loose(u, t) /\ Len(u[h]) = N - d
      /\ Len(t) = d
  BY CutApart
<1>3. t[1] = At(s, h, i) /\ t[Len(t)] = At(s, h, j)
  <2>1. \A k \in 1..d : t[k] = At(s, h, i + k - 1)
    BY CutApart
  <2>2. 1 \in 1..d /\ d \in 1..d /\ i + 1 - 1 = i /\ i + d - 1 = j
    BY <1>1
  <2>3. QED
    BY <1>2, <2>1, <2>2
<1>4. before = At(u, h, i - 1) /\ after = At(u, h, i)
  <2>1. \A k \in 0..(N - d + 1) : At(u, h, k) = At(s, h, IF k < i THEN k ELSE k + d)
    BY CutApart
  <2>2. i - 1 \in 0..(N - d + 1) /\ i \in 0..(N - d + 1) /\ i - 1 < i /\ ~(i < i) /\ i + d = j + 1
    BY <1>1
  <2>3. QED
    BY <2>1, <2>2
<1>5. m.next[before] = t[1] /\ m.prev[after] = t[Len(t)]
  <2>1. i - 1 \in 0..N /\ j \in 0..N /\ (i - 1) + 1 = i
    BY <1>1
  <2>2. QED
    BY <1>3, <2>1, NextPlace, SMTT(30)
<1>6. /\ Len(t) \in Nat /\ Len(t) >= 1
      /\ \A k \in {t[1], t[Len(t)]} : k \in Nodes /\ k \in Links /\ \A g \in Heads : \A o : k # At(u, g, o)
  BY <1>2, LooseElsewhere
<1>7. before \in Links /\ after \in Links /\ pos \in Links /\ x \in Links
  BY <1>2, Places
<1>8. m.next \in Pointers /\ m.prev \in Pointers
  BY DEF Memory, Pointers
<1> DEFINE nx1 == [m.next EXCEPT ![before] = after]
           pv1 == [m.prev EXCEPT ![after] = before]
<1>9. /\ nx1 \in Pointers /\ pv1 \in Pointers
      /\ Rings(nx1, pv1, u, open) /\ Chained(nx1, pv1, t)
  <2>1. Joined(m.next, m.prev, before, after, nx1, pv1)
    BY DEF Joined
  <2> HIDE DEF nx1, pv1
  <2>2. QED
    BY <1>8, <2>1, TakenOut
<1>10. p \in Nat /\ p >= 1 /\ p - 1 \in 0..Len(u[l]) /\ (p - 1) + 1 = p /\ Len(u[l]) \in Nat
  BY <1>2, Places
<1>11. m.prev[pos] = x
  <2>1. pv1[pos] = x
    <3> HIDE DEF nx1, pv1, u
    <3>1. p - 1 > 0 \/ l \notin open
      BY <1>10
    <3>2. QED
      BY <1>2, <1>9, <1>10, <3>1, NextPlace
  <2>2. pos # after
    OBVIOUS
  <2>3. QED
    BY <1>7, <1>8, <2>1, <2>2 DEF Pointers
<1>12. x # before
  <2>1. SUFFICES ASSUME x = before PROVE FALSE
    OBVIOUS
  <2>2. i - 1 \in 0..Len(u[h])
    BY <1>1, <1>2
  <2>3. l = h /\ p - 1 = i - 1
    <3> DEFINE y == p - 1
               z == i - 1
    <3>1. /\ Apart(u) /\ l \in Heads /\ h \in Heads /\ y \in 0..Len(u[l]) /\ z \in 0..Len(u[h])
          /\ At(u, l, y) = At(u, h, z)
      BY <1>2, <1>4, <1>10, <2>1, <2>2
    <3> HIDE DEF u, y, z
    <3>2. l = h /\ y = z
      BY <3>1, PlaceOnce
    <3>3. QED
      BY <3>2 DEF y, z
  <2>4. pos = after
    BY <1>1, <1>4, <1>10, <2>3
  <2>5. QED
    BY <2>4
<1> HIDE DEF u, t, before, after, pos, x, m2, v
<1>13. /\ t[1] # pos /\ t[1] # after /\ t[1] # before /\ t[Len(t)] # x /\ t[Len(t)] # before
  BY <1>4, <1>6 DEF pos, x
<1>14. pos # after
  BY DEF pos, after, u
<1> DEFINE nx2 == [nx1 EXCEPT ![x] = t[1]]
           pv2 == [pv1 EXCEPT ![t[1]] = x]
           nx3 == [nx2 EXCEPT ![t[Len(t)]] = pos]
           pv3 == [pv2 EXCEPT ![pos] = t[Len(t)]]
<1>15. m2 = [next |-> nx3, prev |-> pv3]
  <2>1. m2 = Inserted(m, pos, before, after)
    BY DEF pos, before, after, u, m2, MovedIn
  <2>2. t[1] \in Links /\ t[Len(t)] \in Links
    BY <1>6
  <2>3. LET a == [next |-> [m.next EXCEPT ![before] = after], prev |-> [m.prev EXCEPT ![after] = before]]
            b == [next |-> [a.next EXCEPT ![m.prev[pos]] = m.next[before]],
                  prev |-> [a.prev EXCEPT ![m.next[before]] = m.prev[pos]]]
            c == [next |-> [b.next EXCEPT ![m.prev[after]] = pos],
                  prev |-> [b.prev EXCEPT ![pos] = m.prev[after]]]
        IN  Inserted(m, pos, before, after) = c
    BY <1>5, <1>7, <1>11, <1>12, <1>13, <1>14, <2>2, InsertedJoins
  <2>4. QED
    BY <1>5, <1>11, <2>1, <2>3, Zenon
<1>16. nx3 \in Pointers /\ pv3 \in Pointers /\ Rings(nx3, pv3, v, open)
  <2>1. Joined(nx1, pv1, x, t[1], nx2, pv2) /\ Joined(nx2, pv2, t[Len(t)], pos, nx3, pv3)
    BY DEF Joined
  <2>2. v = Put(u, l, p, t)
    BY DEF u, t, v, Moved
  <2>3. p \in 1..(Len(u[l]) + 1)
    BY DEF u
  <2> HIDE DEF nx1, pv1, nx2, pv2, nx3, pv3
  <2>4. QED
    BY <1>2, <1>9, <2>1, <2>2, <2>3, PutIn DEF pos, x
<1>17. Apart(v)
  <2>1. v = Put(u, l, p, t) /\ p \in 1..(Len(u[l]) + 1)
    BY DEF u, t, v, Moved
  <2>2. QED
    BY <1>2, <2>1, PutApart
<1>18. ASSUME NEW w \in Links, w \notin Listed(s), w # h, w = l => p > 1 PROVE nx3[w] = m.next[w]
  <2>1. w # before
    BY <1>18, PlaceListed DEF before
  <2>2. w # t[Len(t)]
    <3>1. j \in 1..Len(s[h])
      BY <1>1
    <3>2. s[h][j] \in Listed(s)
      BY <3>1, ListedPlace
    <3>3. At(s, h, j) = s[h][j]
      BY <3>1, Places
    <3>4. QED
      BY <1>3, <1>18, <3>2, <3>3
  <2>3. w # x
    <3>1. SUFFICES ASSUME w = x PROVE FALSE
      OBVIOUS
    <3>2. x \in Listed(u) \cup {l}
      BY <1>2, PlaceListed DEF x
    <3>3. Listed(u) \subseteq Listed(s)
      <4>1. \A k \in Heads : ToSet(u[k]) \subseteq ToSet(s[k])
        <5>1. \A k \in Heads \ {h} : u[k] = s[k]
          BY CutApart DEF u
        <5>2. ToSet(u[h]) \subseteq ToSet(s[h])
          <6>1. s[h] \in Seq(Nodes) /\ u[h] = CutOut(s[h], i, j)
            BY DEF Apart, Cut, u
          <6>2. QED
            BY <6>1, CutMembers
        <5>3. QED
          BY <5>1, <5>2
      <4>2. QED
        BY <4>1 DEF Listed
    <3>4. w = l /\ p - 1 > 0
      BY <1>10, <1>18, <3>1, <3>2, <3>3
    <3>5. At(u, l, 0) = l /\ l \in Heads
      BY <1>2, Places
    <3>6. p - 1 = 0
      <4>1. 0 \in 0..Len(u[l]) /\ At(u, l, p - 1) = At(u, l, 0)
        BY <1>10, <3>1, <3>4, <3>5 DEF x
      <4>2. QED
        BY <1>2, <1>10, <4>1, PlaceOnce
    <3>7. QED
      BY <3>4, <3>6
  <2>4. QED
    BY <1>7, <1>8, <2>1, <2>2, <2>3 DEF Pointers
<1>19. m2 \in Memory /\ m2.next = nx3 /\ m2.prev = pv3
  BY <1>15, <1>16 DEF Memory, Pointers
<1> HIDE DEF nx3, pv3
<1>20. Untouched(m, m2, s, {h} \cup IF p > 1 THEN {} ELSE {l})
  BY <1>18, <1>19 DEF Untouched
<1>21. QED
  BY <1>16, <1>17, <1>19, <1>20 DEF m2, v

\* What a move leaves of the pointers.
LEMMA MoveShape ==
  ASSUME NEW m, NEW s, NEW open, Shape(m, s, open),
         NEW h \in Heads, h \notin open, NEW i \in 1..Len(s[h]), NEW j \in i..Len(s[h]),
         NEW l \in Heads, NEW p \in 1..(Len(Cut(s, h, i, j)[l]) + 1), l \in open => p > 1,
         At(Cut(s, h, i, j), l, p) # At(s, h, j + 1)
  PROVE  Shape(MovedIn(m, s, h, i, j, l, p), Moved(s, h, i, j, l, p), open)
<1> DEFINE m2 == MovedIn(m, s, h, i, j, l, p)
           v == Moved(s, h, i, j, l, p)
           left == {k \in open : ~Neighbours(m.next, m.prev, k, At(s, k, 1))}
<1>1. /\ m \in Memory /\ Apart(s) /\ open \subseteq Heads
      /\ \A n \in Nodes : m.next[n] = Nil <=> n \notin Listed(s)
      /\ \A k \in open : Entered(m, s, k)
  BY DEF Shape
<1>2. Rings(m.next, m.prev, s, left)
  <2>1. Rings(m.next, m.prev, s, open)
    BY DEF Shape
  <2>2. ASSUME NEW k \in Heads, NEW o \in 0..Len(s[k]), o > 0 \/ k \notin left
        PROVE  Neighbours(m.next, m.prev, At(s, k, o), At(s, k, o + 1))
    <3>1. CASE o > 0 \/ k \notin open
      BY <2>1, <3>1 DEF Rings
    <3>2. CASE o = 0 /\ k \in open
      <4>1. At(s, k, 0) = k
        BY <1>1, Places
      <4>2. QED
        BY <2>2, <3>2, <4>1
    <3>3. QED
      BY <1>1, <3>1, <3>2, Places
  <2>3. QED
    BY <2>2 DEF Rings
<1>3. h \notin left /\ (l \in left => p > 1)
  OBVIOUS
<1>4. /\ m2 \in Memory /\ Apart(v) /\ Rings(m2.next, m2.prev, v, left)
      /\ Untouched(m, m2, s, {h} \cup IF p > 1 THEN {} ELSE {l})
  <2> HIDE DEF left
  <2>1. m \in Memory /\ Apart(s)
    BY <1>1
  <2> HIDE DEF m2, v
  <2>2. ASSUME NEW op, h \notin op, l \in op => p > 1, Rings(m.next, m.prev, s, op)
        PROVE  /\ m2 \in Memory /\ Apart(v)
               /\ Rings(m2.next, m2.prev, v, op)
               /\ Untouched(m, m2, s, {h} \cup IF p > 1 THEN {} ELSE {l})
    BY <2>1, <2>2, MoveRings DEF m2, v
  <2>3. QED
    BY <1>2, <1>3, <2>2
<1>5. Listed(v) = Listed(s)
  BY <1>1, MovedListed
<1> HIDE DEF m2, v
<1>6. ASSUME NEW n \in Nodes PROVE m2.next[n] = Nil <=> n \notin Listed(v)
  <2>1. CASE n \in Listed(v)
    BY <1>4, <2>1, ListedNext
  <2>2. CASE n \notin Listed(v)
    <3>1. n \in Links \ Listed(s) /\ n # h /\ n # l
      BY <1>5, <2>2, HeadsAssumption DEF Links
    <3>2. QED
      BY <1>1, <1>4, <1>5, <2>2, <3>1 DEF Untouched
  <2>3. QED
    BY <2>1, <2>2
<1>7. ASSUME NEW k \in open PROVE Entered(m2, v, k)
  <2>1. k \in Heads /\ k # h /\ k \in Links /\ k \notin Nodes
    BY <1>1, HeadsAssumption DEF Links
  <2>2. CASE k \in left
    <3>1. m.next[k] \in Nodes \ Listed(s)
      BY <1>1, <2>2 DEF Entered
    <3>2. k \notin Listed(s)
      BY <1>1, <2>1, ListedPlace
    <3>3. m2.next[k] = m.next[k]
      BY <1>3, <1>4, <2>1, <2>2, <3>2 DEF Untouched
    <3>4. QED
      BY <1>5, <3>1, <3>3 DEF Entered
  <2>3. CASE k \notin left
    <3>1. 0 \in 0..Len(v[k]) /\ At(v, k, 0) = k
      BY <1>4, <2>1, Places
    <3>2. Neighbours(m2.next, m2.prev, At(v, k, 0), At(v, k, 0 + 1))
      BY <1>4, <2>1, <2>3, <3>1 DEF Rings
    <3>3. QED
      BY <3>1, <3>2 DEF Entered
  <2>4. QED
    BY <2>2, <2>3
<1>8. Rings(m2.next, m2.prev, v, open)
  <2>1. \A k \in Heads : k \notin open => k \notin left
    OBVIOUS
  <2> HIDE DEF left
  <2>2. QED
    BY <1>4, <2>1 DEF Rings
<1>9. Shape(m2, v, open)
  BY <1>1, <1>4, <1>6, <1>7, <1>8 DEF Shape
<1>10. QED
  BY <1>9 DEF m2, v

\* A new node enters a list.
LEMMA LinkShape ==
  ASSUME NEW m, NEW s, Shape(m, s, {}), NEW l \in Heads, NEW p \in 1..(Len(s[l]) + 1),
         NEW n \in Nodes, n \notin Listed(s)
  PROVE  Shape(Linked(m, n, m.prev[At(s, l, p)], At(s, l, p)), Put(s, l, p, <<n>>), {})
<1> DEFINE t == <<n>>
           x == At(s, l, p - 1)
           y == At(s, l, p)
           m2 == Linked(m, n, m.prev[y], y)
           v == Put(s, l, p, t)
<1>1. /\ m \in Memory /\ Apart(s)
      /\ \A k \in Nodes : m.next[k] = Nil <=> k \notin Listed(s)
      /\ Rings(m.next, m.prev, s, {})
      /\ m.next \in Pointers /\ m.prev \in Pointers
  BY DEF Shape, Memory, Pointers
<1>2. x \in Links /\ y \in Links /\ n \in Links /\ n # x /\ n # y
  <2>1. n \notin Heads
    BY HeadsAssumption
  <2>2. n # x /\ n # y
    BY <1>1, <2>1, PlaceListed
  <2>3. QED
    BY <1>1, <2>2, Places DEF Links
<1>3. m.prev[y] = x
  <2>1. p - 1 \in 0..Len(s[l]) /\ (p - 1) + 1 = p
    BY <1>1, Places
  <2>2. QED
    BY <1>1, <2>1, NextPlace
<1>4. Loose(s, t) /\ Len(t) = 1 /\ t[1] = n /\ t[Len(t)] = n
  <2>1. t \in Seq(Nodes) /\ t # <<>> /\ Len(t) = 1 /\ t[1] = n
    OBVIOUS
  <2>2. \A a \in Heads : \A b \in 1..Len(s[a]) : n # s[a][b]
    BY <1>1, ListedPlace
  <2>3. \A a \in 1..Len(t) : a = 1
    BY <2>1
  <2> HIDE DEF t
  <2>4. QED
    BY <2>1, <2>2, <2>3 DEF Loose
<1> HIDE DEF x, y, t
<1> DEFINE nx1 == [m.next EXCEPT ![x] = n]
           pv1 == [m.prev EXCEPT ![n] = x]
           nx2 == [nx1 EXCEPT ![n] = y]
           pv2 == [pv1 EXCEPT ![y] = n]
<1>5. m2.next = nx2 /\ m2.prev = pv2
  <2>1. m2 = [next |-> [m.next EXCEPT ![n] = y, ![x] = n], prev |-> [m.prev EXCEPT ![y] = n, ![n] = x]]
    BY <1>3 DEF Linked
  <2>2. \A k \in Links :
          /\ [m.next EXCEPT ![n] = y, ![x] = n][k] = IF k = n THEN y ELSE IF k = x THEN n ELSE m.next[k]
          /\ nx2[k] = IF k = n THEN y ELSE IF k = x THEN n ELSE m.next[k]
          /\ [m.prev EXCEPT ![y] = n, ![n] = x][k] = IF k = n THEN x ELSE IF k = y THEN n ELSE m.prev[k]
          /\ pv2[k] = IF k = n THEN x ELSE IF k = y THEN n ELSE m.prev[k]
    BY <1>1, <1>2 DEF Pointers
  <2>3. /\ [m.next EXCEPT ![n] = y, ![x] = n] \in Pointers /\ nx2 \in Pointers
        /\ [m.prev EXCEPT ![y] = n, ![n] = x] \in Pointers /\ pv2 \in Pointers
    BY <1>1, <1>2 DEF Pointers
  <2>4. [m.next EXCEPT ![n] = y, ![x] = n] = nx2
    BY <2>2, <2>3 DEF Pointers
  <2>5. [m.prev EXCEPT ![y] = n, ![n] = x] = pv2
    BY <2>2, <2>3 DEF Pointers
  <2>6. QED
    BY <2>1, <2>4, <2>5
<1>6. nx2 \in Pointers /\ pv2 \in Pointers /\ Rings(nx2, pv2, v, {})
  <2>1. Joined(m.next, m.prev, x, t[1], nx1, pv1) /\ Joined(nx1, pv1, t[Len(t)], y, nx2, pv2)
    BY <1>4 DEF Joined
  <2>2. Chained(m.next, m.prev, t)
    BY <1>4 DEF Chained
  <2> HIDE DEF nx1, pv1, nx2, pv2
  <2>3. QED
    BY <1>1, <1>4, <2>1, <2>2, PutIn DEF x, y
<1>7. Apart(v)
  BY <1>1, <1>4, PutApart
<1>8. Listed(v) = Listed(s) \cup {n}
  <2>1. ToSet(v[l]) = ToSet(s[l]) \cup {n}
    <3>1. v[l] = PutAt(s[l], p, t) /\ s[l] \in Seq(Nodes) /\ t \in Seq(Nodes)
      BY <1>1 DEF Put, Apart, t
    <3>2. ToSet(t) = {n}
      BY DEF ToSet, t
    <3> HIDE DEF v
    <3>3. QED
      BY <3>1, <3>2, PutMembers
  <2>2. \A k \in Heads \ {l} : v[k] = s[k]
    BY <1>1 DEF Put, Apart
  <2> HIDE DEF v
  <2>3. \A k : k \in Listed(v) <=> k \in Listed(s) \cup {n}
    BY <2>1, <2>2 DEF Listed
  <2>4. QED
    BY <2>3
<1> HIDE DEF v
<1>9. ASSUME NEW k \in Nodes PROVE nx2[k] = Nil <=> k \notin Listed(v)
  <2>1. CASE k \in Listed(v)
    BY <1>6, <1>7, <2>1, ListedNext
  <2>2. CASE k \notin Listed(v)
    <3>1. k # n /\ k \notin Listed(s) /\ k # x /\ k \in Links
      <4>1. x \in Listed(s) \cup {l} /\ l \notin Nodes
        BY <1>1, PlaceListed, HeadsAssumption DEF x
      <4>2. QED
        BY <1>8, <2>2, <4>1 DEF Links
    <3>2. QED
      BY <1>1, <1>2, <2>2, <3>1 DEF Pointers
  <2>3. QED
    BY <2>1, <2>2
<1>10. m2 \in Memory
  <2>1. m2 = [next |-> m2.next, prev |-> m2.prev]
    BY DEF Linked
  <2>2. QED
    BY <1>5, <1>6, <2>1 DEF Memory, Pointers
<1>11. Shape(m2, v, {})
  BY <1>5, <1>6, <1>7, <1>9, <1>10 DEF Shape
<1>12. QED
  BY <1>11 DEF v, t, y

\* A list without its first node.
LEMMA TailIsCut ==
  ASSUME NEW S, NEW e \in Seq(S), e # <<>>
  PROVE  Tail(e) = CutOut(e, 1, 1) /\ Len(e) \in Nat \ {0} /\ 1 \in 1..Len(e)
<1>1. Len(e) \in Nat \ {0}
  BY EmptySeq
<1>2. Tail(e) = SubSeq(e, 2, Len(e))
  BY TailIsSubSeq
<1>3. SubSeq(e, 1, 1 - 1) = <<>>
  BY SubSeqEmpty
<1>4. SubSeq(e, 2, Len(e)) \in Seq(S)
  <2>1. 2 \in 1..(Len(e) + 1) /\ Len(e) \in (2 - 1)..Len(e)
    BY <1>1
  <2>2. QED
    BY <2>1, PartPlaces
<1>5. CutOut(e, 1, 1) = <<>> \o SubSeq(e, 2, Len(e))
  <2>1. 1 + 1 = 2
    OBVIOUS
  <2>2. QED
    BY <1>3, <2>1 DEF CutOut
<1>6. <<>> \o SubSeq(e, 2, Len(e)) = SubSeq(e, 2, Len(e))
  BY <1>4, ConcatEmptySeq
<1>7. 1 \in 1..Len(e)
  BY <1>1
<1>8. QED
  BY <1>1, <1>2, <1>5, <1>6, <1>7

\* The first node of an open list is freed.
LEMMA FreeShape ==
  ASSUME NEW m, NEW s, NEW open, Shape(m, s, open), NEW l \in open, s[l] # <<>>,
         NEW n, n = At(s, l, 1)
  PROVE  /\ Shape([next |-> [m.next EXCEPT ![n] = Nil], prev |-> [m.prev EXCEPT ![n] = Nil]],
                  [s EXCEPT ![l] = Tail(@)], open)
         /\ m.next[n] = At([s EXCEPT ![l] = Tail(@)], l, 1) /\ n \in Nodes
<1> DEFINE nx == [m.next EXCEPT ![n] = Nil]
           pv == [m.prev EXCEPT ![n] = Nil]
           m2 == [next |-> nx, prev |-> pv]
           t == [s EXCEPT ![l] = Tail(@)]
           N == Len(s[l])
<1>1. /\ m \in Memory /\ Apart(s) /\ open \subseteq Heads /\ l \in Heads
      /\ m.next \in Pointers /\ m.prev \in Pointers
      /\ \A k \in Nodes : m.next[k] = Nil <=> k \notin Listed(s)
      /\ \A k \in open : Entered(m, s, k)
      /\ Rings(m.next, m.prev, s, open)
  BY DEF Shape, Memory, Pointers
<1>2. /\ s[l] \in Seq(Nodes) /\ Tail(s[l]) = CutOut(s[l], 1, 1) /\ N \in Nat \ {0} /\ 1 \in 1..N
  <2>1. s[l] \in Seq(Nodes)
    BY <1>1 DEF Apart
  <2>2. QED
    BY <2>1, TailIsCut
<1>3. t = Cut(s, l, 1, 1)
  BY <1>2 DEF Cut
<1>4. 1 \in 1..N /\ 1 - 1 + 1 = 1
  BY <1>2
<1>5. /\ Apart(t) /\ Len(t[l]) = N - 1 /\ \A k \in Heads \ {l} : t[k] = s[k]
      /\ \A k \in 1..N : At(t, l, k) = At(s, l, k + 1)
  <2> DEFINE u == Cut(s, l, 1, 1)
  <2>1. /\ Apart(u) /\ Len(u[l]) = N - (1 - 1 + 1)
        /\ \A k \in Heads \ {l} : u[k] = s[k]
        /\ \A k \in 0..(N - (1 - 1 + 1) + 1) : At(u, l, k) = At(s, l, IF k < 1 THEN k ELSE k + (1 - 1 + 1))
    <3>1. Apart(s) /\ l \in Heads /\ 1 \in 1..Len(s[l]) /\ 1 \in 1..Len(s[l])
      BY <1>1, <1>4
    <3>2. Apart(u) /\ Len(u[l]) = N - (1 - 1 + 1)
      BY <3>1, CutApart
    <3>3. \A k \in Heads \ {l} : u[k] = s[k]
      BY <3>1, CutApart
    <3>4. \A k \in 0..(N - (1 - 1 + 1) + 1) : At(u, l, k) = At(s, l, IF k < 1 THEN k ELSE k + (1 - 1 + 1))
      BY <3>1, CutApart
    <3> HIDE DEF u, N
    <3>5. QED
      BY <3>2, <3>3, <3>4
  <2> HIDE DEF u
  <2>2. \A k \in 1..N : k \in 0..(N - (1 - 1 + 1) + 1) /\ ~(k < 1) /\ k + (1 - 1 + 1) = k + 1
    BY <1>2
  <2>3. t = u
    BY <1>3 DEF u
  <2>4. \A k \in 1..N : At(u, l, k) = At(s, l, k + 1)
    <3> HIDE DEF N
    <3>1. QED
      BY <2>1, <2>2
  <2>5. Len(u[l]) = N - 1
    <3> HIDE DEF N
    <3>1. QED
      BY <1>2, <2>1
  <2> HIDE DEF t, N
  <2>6. QED
    BY <2>1, <2>3, <2>4, <2>5
<1>6. n = s[l][1] /\ n \in Nodes /\ n \in Links /\ n \notin Heads
  BY <1>1, <1>2, Places, HeadsAssumption DEF Links
<1>7. /\ ToSet(s[l]) = ToSet(t[l]) \cup {n}
      /\ Listed(s) = Listed(t) \cup {n}
  <2>1. ToSet(s[l]) = ToSet(CutOut(s[l], 1, 1)) \cup ToSet(SubSeq(s[l], 1, 1))
    BY <1>2, CutMembers
  <2>2. ToSet(SubSeq(s[l], 1, 1)) = {n}
    <3>1. 1 \in 1..(N + 1) /\ 1 \in (1 - 1)..N /\ 1 - 1 + 1 = 1 /\ 1 + 1 - 1 = 1
      BY <1>2
    <3>2. /\ SubSeq(s[l], 1, 1) \in Seq(Nodes) /\ Len(SubSeq(s[l], 1, 1)) = 1
          /\ SubSeq(s[l], 1, 1)[1] = s[l][1]
      BY <1>2, <3>1, PartPlaces
    <3> DEFINE g == SubSeq(s[l], 1, 1)
    <3>4. g \in Seq(Nodes) /\ Len(g) = 1 /\ g[1] = n
      BY <1>6, <3>2
    <3> HIDE DEF g
    <3>3. ToSet(g) = {g[k] : k \in 1..Len(g)}
      BY <3>4, Members
    <3>5. ToSet(g) = {n}
      BY <3>3, <3>4
    <3>6. QED
      BY <3>5 DEF g
  <2>3. t[l] = CutOut(s[l], 1, 1)
    BY <1>1, <1>3 DEF Cut, Apart
  <2> HIDE DEF t
  <2>4. ToSet(s[l]) = ToSet(t[l]) \cup {n}
    BY <2>1, <2>2, <2>3
  <2>5. \A k : k \in Listed(s) <=> k \in Listed(t) \cup {n}
    BY <1>1, <1>5, <2>4 DEF Listed
  <2>6. QED
    BY <2>4, <2>5
<1> HIDE DEF t, N
<1>8. n \notin Listed(t)
  <2>1. SUFFICES ASSUME NEW k \in Heads, NEW i \in 1..Len(t[k]), n = t[k][i] PROVE FALSE
    BY <1>5, ListedPlace
  <2>2. CASE k = l
    <3>1. i \in 1..N /\ i + 1 # 1 /\ i + 1 \in 1..(N + 1) /\ 1 \in 1..(N + 1)
      BY <1>2, <1>5, <2>2
    <3>2. At(s, l, i + 1) = At(s, l, 1)
      BY <1>5, <2>1, <2>2, <3>1 DEF At
    <3>3. QED
      BY <1>1, <3>1, <3>2, PlaceOnceBehind DEF N
  <2>3. CASE k # l
    <3>1. i \in 1..Len(s[k]) /\ s[k][i] = s[l][1]
      BY <1>5, <1>6, <2>1, <2>3
    <3>2. QED
      BY <1>1, <1>2, <2>3, <3>1, Once DEF N
  <2>4. QED
    BY <2>2, <2>3
<1>9. /\ nx \in Pointers /\ pv \in Pointers /\ nx[n] = Nil
      /\ \A w \in Links \ {n} : nx[w] = m.next[w] /\ pv[w] = m.prev[w]
  BY <1>1, <1>6 DEF Pointers
<1>10. m2 \in Memory /\ m2.next = nx /\ m2.prev = pv
  BY <1>9 DEF Memory, Pointers
<1> HIDE DEF nx, pv, m2
<1>11. ASSUME NEW k \in Heads, NEW i PROVE At(t, k, i) \in Links \ {n}
  BY <1>5, <1>6, <1>8, PlaceListed, Places
<1>12. ASSUME NEW k \in Heads, NEW i \in 0..Len(t[k]), i > 0 \/ k \notin open
       PROVE  Neighbours(nx, pv, At(t, k, i), At(t, k, i + 1))
  <2>1. m.next[At(t, k, i)] = At(t, k, i + 1) /\ m.prev[At(t, k, i + 1)] = At(t, k, i)
    <3>1. CASE k = l
      <4>1. i \in 1..N /\ i + 1 \in 1..N /\ i + 1 \in 0..N /\ i + 1 > 0
        BY <1>2, <1>5, <1>12, <3>1
      <4>2. At(t, k, i) = At(s, l, i + 1) /\ At(t, k, i + 1) = At(s, l, i + 1 + 1)
        BY <1>5, <3>1, <4>1
      <4>3. QED
        BY <1>1, <4>1, <4>2, NextPlace DEF N
    <3>2. CASE k # l
      <4>1. t[k] = s[k]
        BY <1>5, <3>2
      <4>2. At(t, k, i) = At(s, k, i) /\ At(t, k, i + 1) = At(s, k, i + 1) /\ i \in 0..Len(s[k])
        BY <4>1 DEF At
      <4>3. QED
        BY <1>1, <1>12, <4>2, NextPlace
    <3>3. QED
      BY <3>1, <3>2
  <2>2. QED
    BY <1>9, <1>11, <2>1 DEF Neighbours
<1>13. \A k \in Nodes : nx[k] = Nil <=> k \notin Listed(t)
  BY <1>1, <1>7, <1>8, <1>9 DEF Links
<1>14. ASSUME NEW k \in open PROVE Entered(m2, t, k)
  <2>1. k \in Heads /\ k \in Links \ {n}
    BY <1>1, <1>6 DEF Links
  <2>2. CASE k # l
    <3>1. At(t, k, 1) = At(s, k, 1)
      BY <1>5, <2>1, <2>2 DEF At
    <3>2. QED
      BY <1>1, <1>7, <1>9, <1>10, <1>11, <2>1, <3>1 DEF Entered, Neighbours
  <2>3. CASE k = l
    <3>1. CASE m.next[l] = n
      BY <1>6, <1>8, <1>9, <1>10, <2>1, <2>3, <3>1 DEF Entered
    <3>2. CASE m.next[l] # n
      <4>1. m.next[l] \in Nodes \ Listed(s)
        BY <1>1, <3>2 DEF Entered, Neighbours
      <4>2. QED
        BY <1>7, <1>9, <1>10, <2>1, <2>3, <4>1 DEF Entered
    <3>3. QED
      BY <3>1, <3>2
  <2>4. QED
    BY <2>2, <2>3
<1>15. Shape(m2, t, open)
  BY <1>1, <1>5, <1>10, <1>12, <1>13, <1>14 DEF Shape, Rings
<1>16. m.next[n] = At(t, l, 1)
  <2>1. 1 \in 0..N /\ 1 > 0 /\ 1 \in 1..N
    BY <1>2
  <2>2. m.next[n] = At(s, l, 1 + 1)
    BY <1>1, <2>1, NextPlace DEF N
  <2>3. QED
    BY <1>5, <2>1, <2>2
<1>17. QED
  BY <1>6, <1>15, <1>16 DEF m2, nx, pv, t

\* A list is opened.
LEMMA OpenShape ==
  ASSUME NEW m, NEW s, NEW open, Shape(m, s, open), NEW l \in Heads, l \notin open
  PROVE  Shape(m, s, open \cup {l}) /\ m.next[l] = At(s, l, 1)
<1>1. Apart(s) /\ Rings(m.next, m.prev, s, open)
  BY DEF Shape
<1>2. 0 \in 0..Len(s[l]) /\ At(s, l, 0) = l
  BY <1>1, Places
<1>3. Neighbours(m.next, m.prev, At(s, l, 0), At(s, l, 0 + 1))
  BY <1>1, <1>2 DEF Rings
<1>4. Neighbours(m.next, m.prev, l, At(s, l, 1))
  BY <1>2, <1>3
<1>5. QED
  BY <1>4 DEF Shape, Rings, Entered, Neighbours

\* An open list without nodes is closed.
LEMMA CloseShape ==
  ASSUME NEW m, NEW s, NEW open, Shape(m, s, open), NEW l \in open, s[l] = <<>>
  PROVE  Shape(Alone(m, l), s, open \ {l})
<1> DEFINE nx == [m.next EXCEPT ![l] = l]
           pv == [m.prev EXCEPT ![l] = l]
<1>1. /\ m \in Memory /\ Apart(s) /\ open \subseteq Heads /\ l \in Heads
      /\ m.next \in Pointers /\ m.prev \in Pointers
      /\ \A k \in Nodes : m.next[k] = Nil <=> k \notin Listed(s)
      /\ \A k \in open : Entered(m, s, k)
      /\ Rings(m.next, m.prev, s, open)
  BY DEF Shape, Memory, Pointers
<1>2. l \in Links /\ l \notin Nodes /\ Len(s[l]) = 0
  BY <1>1, HeadsAssumption DEF Links
<1>3. /\ nx \in Pointers /\ pv \in Pointers /\ nx[l] = l /\ pv[l] = l
      /\ \A w \in Links \ {l} : nx[w] = m.next[w] /\ pv[w] = m.prev[w]
  BY <1>1, <1>2 DEF Pointers
<1>4. Alone(m, l) \in Memory /\ Alone(m, l).next = nx /\ Alone(m, l).prev = pv
  BY <1>3 DEF Alone, Memory, Pointers
<1> HIDE DEF nx, pv
<1>5. ASSUME NEW k \in Heads, k # l, NEW i PROVE At(s, k, i) \in Links \ {l}
  BY <1>1, <1>2, <1>5, Places
<1>6. ASSUME NEW k \in Heads, NEW i \in 0..Len(s[k]), i > 0 \/ k \notin open \ {l}
      PROVE  Neighbours(nx, pv, At(s, k, i), At(s, k, i + 1))
  <2>1. CASE k = l
    <3>1. i = 0
      BY <1>2, <2>1
    <3>2. At(s, l, 0) = l /\ At(s, l, 0 + 1) = l
      BY <1>2 DEF At
    <3>3. QED
      BY <1>3, <2>1, <3>1, <3>2 DEF Neighbours
  <2>2. CASE k # l
    <3>1. m.next[At(s, k, i)] = At(s, k, i + 1) /\ m.prev[At(s, k, i + 1)] = At(s, k, i)
      BY <1>1, <1>6, <2>2, NextPlace
    <3>2. QED
      BY <1>3, <1>5, <2>2, <3>1 DEF Neighbours
  <2>3. QED
    BY <2>1, <2>2
<1>7. \A k \in open \ {l} : Entered(Alone(m, l), s, k)
  <2>1. \A k \in open \ {l} : k \in Links \ {l} /\ k \in Heads
    BY <1>1 DEF Links
  <2>2. QED
    BY <1>1, <1>3, <1>4, <1>5, <2>1 DEF Entered, Neighbours
<1>8. \A k \in Nodes : nx[k] = Nil <=> k \notin Listed(s)
  BY <1>1, <1>2, <1>3 DEF Links
<1>9. QED
  BY <1>1, <1>4, <1>6, <1>7, <1>8 DEF Shape, Rings

\* All lists are empty at first.
LEMMA FirstShape ==
  ASSUME Init
  PROVE  Shape(mem, [l \in Heads |-> <<>>], {})
<1> DEFINE s == [l \in Heads |-> <<>>]
           all == [n \in Links |-> IF n \in Heads THEN n ELSE Nil]
<1>1. mem = [next |-> all, prev |-> all]
  BY DEF Init
<1>2. all \in Pointers /\ mem \in Memory /\ mem.next = all /\ mem.prev = all
  BY <1>1 DEF Pointers, Memory, Links
<1>3. Apart(s)
  BY DEF Apart
<1>4. Listed(s) = {}
  BY DEF Listed, ToSet
<1>5. \A n \in Nodes : all[n] = Nil
  BY HeadsAssumption DEF Links
<1>6. \A l \in Heads : \A i \in 0..Len(s[l]) : i = 0 /\ At(s, l, i) = l /\ At(s, l, i + 1) = l
  BY DEF At
<1>7. \A l \in Heads : all[l] = l
  BY DEF Links
<1> HIDE DEF s, all
<1>8. Rings(mem.next, mem.prev, s, {})
  BY <1>2, <1>6, <1>7 DEF Rings, Neighbours
<1>9. Shape(mem, s, {})
  BY <1>2, <1>3, <1>4, <1>5, <1>8 DEF Shape
<1>10. QED
  BY <1>9 DEF s

-----------------------------------------------------------------------------
(* Looking for a place *)

\* Two functions that go on alike agree.
LEMMA OnlyOne ==
  ASSUME NEW N \in Nat, NEW f, NEW g,
         f[0] = g[0], \A k \in 0..(N - 1) : f[k] = g[k] => f[k + 1] = g[k + 1]
  PROVE  \A k \in 0..N : f[k] = g[k]
<1> DEFINE Same == {n \in Nat : n <= N => f[n] = g[n]}
<1>1. 0 \in Same
  OBVIOUS
<1>2. ASSUME NEW n \in Same PROVE n + 1 \in Same
  <2>1. SUFFICES ASSUME n + 1 <= N PROVE f[n + 1] = g[n + 1]
    OBVIOUS
  <2>2. n \in 0..(N - 1) /\ f[n] = g[n]
    BY <2>1
  <2>3. QED
    BY <2>2
<1>3. Same = Nat
  <2>1. Same \subseteq Nat
    OBVIOUS
  <2> HIDE DEF Same
  <2>2. QED
    BY <1>1, <1>2, <2>1, SetInduction
<1>4. QED
  BY <1>3

\* The node of a list is where an index without a position starts.
LEMMA IndexZero ==
  ASSUME NEW m, NEW l, NEW st
  PROVE  IndexAt(m, l, 0, st) = [host |-> l, node |-> l, stride |-> st]
<1> DEFINE Step(g) == [k \in 0..Abs(0) |->
                         IF k = 0 THEN l ELSE IF k > 1 /\ g[k - 1] = l THEN l ELSE Toward(m, 0)[g[k - 1]]]
           at == CHOOSE g : g = Step(g)
<1>1. IndexAt(m, l, 0, st) = [host |-> l, node |-> at[Abs(0)], stride |-> st]
  BY DEF IndexAt
<1>2. Abs(0) = 0
  BY DEF Abs
<1> DEFINE c == [k \in 0..Abs(0) |-> l]
<1>3. \A k \in 0..Abs(0) : k = 0
  BY <1>2
<1>4. c = Step(c)
  BY <1>3
<1>5. at = Step(at)
  BY <1>4
<1>6. at[Abs(0)] = l
  <2> HIDE DEF at
  <2>1. QED
    BY <1>2, <1>5
<1>7. QED
  BY <1>1, <1>6

\* Positions count from the first node on, or from the last one if they are negative.
LEMMA IndexPlace ==
  ASSUME NEW m, NEW s, NEW open, Shape(m, s, open), NEW l \in Heads, l \notin open,
         NEW pos \in Int, NEW st
  PROVE  IndexAt(m, l, pos, st) =
           [host |-> l, node |-> At(s, l, IF pos < 0 THEN Len(s[l]) + 1 + pos ELSE pos), stride |-> st]
<1> DEFINE A == Abs(pos)
           N == Len(s[l])
           Step(g) == [k \in 0..A |->
                         IF k = 0 THEN l ELSE IF k > 1 /\ g[k - 1] = l THEN l ELSE Toward(m, pos)[g[k - 1]]]
           at == CHOOSE g : g = Step(g)
           place(k) == IF pos < 0 THEN N + 1 - k ELSE k
           c == [k \in 0..A |-> At(s, l, place(k))]
<1>1. IndexAt(m, l, pos, st) = [host |-> l, node |-> at[A], stride |-> st]
  BY DEF IndexAt
<1>2. A \in Nat /\ A = IF pos < 0 THEN -pos ELSE pos
  BY DEF Abs
<1>3. Apart(s) /\ Rings(m.next, m.prev, s, open) /\ N \in Nat /\ l \in Heads
  BY Places DEF Shape
<1>4. \A i : i \notin 1..N => At(s, l, i) = l
  BY <1>3, Places
<1>5. \A i \in 1..N : At(s, l, i) # l
  BY <1>3, Places
<1> HIDE DEF A, N
<1>6. ASSUME NEW k \in 1..A
      PROVE  At(s, l, place(k)) = IF k > 1 /\ At(s, l, place(k - 1)) = l THEN l
                                  ELSE Toward(m, pos)[At(s, l, place(k - 1))]
  <2>1. CASE pos < 0
    <3>1. place(k) = N + 1 - k /\ place(k - 1) = N + 2 - k /\ Toward(m, pos) = m.prev
      BY <1>2, <1>3, <2>1 DEF Toward
    <3>2. CASE k = 1
      <4>1. N \in 0..N /\ N + 2 - k = N + 1 /\ N + 1 - k = N
        BY <1>3, <3>2
      <4>2. m.prev[At(s, l, N + 1)] = At(s, l, N)
        BY <1>3, <4>1, NextPlace DEF N
      <4>3. QED
        BY <3>1, <3>2, <4>1, <4>2
    <3>3. CASE k # 1 /\ N + 2 - k \in 1..N
      <4>1. N + 1 - k \in 0..N /\ (N + 1 - k) + 1 = N + 2 - k
        BY <1>2, <1>3, <3>3
      <4>4. m.prev[At(s, l, (N + 1 - k) + 1)] = At(s, l, N + 1 - k)
        <5> DEFINE y == N + 1 - k
        <5>1. y \in 0..Len(s[l])
          BY <4>1 DEF N
        <5> HIDE DEF at, c, place, y
        <5>2. m.prev[At(s, l, y + 1)] = At(s, l, y)
          BY <1>3, <5>1, NextPlace
        <5>3. QED
          BY <5>2 DEF y
      <4>2. m.prev[At(s, l, N + 2 - k)] = At(s, l, N + 1 - k)
        BY <4>1, <4>4
      <4>3. QED
        BY <1>5, <3>1, <3>3, <4>2
    <3>4. CASE k # 1 /\ N + 2 - k \notin 1..N
      <4>1. N + 1 - k \notin 1..N /\ k > 1
        BY <1>2, <1>3, <3>4
      <4>2. QED
        BY <1>4, <3>1, <3>4, <4>1
    <3>5. QED
      BY <3>2, <3>3, <3>4
  <2>2. CASE ~(pos < 0)
    <3>1. place(k) = k /\ place(k - 1) = k - 1 /\ pos > 0 /\ Toward(m, pos) = m.next
      BY <1>2, <2>2 DEF Toward
    <3>2. CASE k - 1 \in 0..N /\ (k = 1 \/ k - 1 \in 1..N)
      <4>1. (k - 1) + 1 = k
        OBVIOUS
      <4>2. m.next[At(s, l, k - 1)] = At(s, l, k)
        BY <1>3, <3>2, <4>1, NextPlace DEF N
      <4>3. QED
        BY <1>5, <3>1, <3>2, <4>2
    <3>3. CASE ~(k - 1 \in 0..N /\ (k = 1 \/ k - 1 \in 1..N))
      <4>1. k \notin 1..N /\ k - 1 \notin 1..N /\ k > 1
        BY <1>2, <1>3, <3>3
      <4>2. QED
        BY <1>4, <3>1, <4>1
    <3>4. QED
      BY <3>2, <3>3
  <2>3. QED
    BY <2>1, <2>2
<1>7. At(s, l, place(0)) = l
  <2>1. place(0) \notin 1..N
    BY <1>3
  <2>2. QED
    BY <1>4, <2>1
<1> HIDE DEF place
<1>8. \A k \in 0..A : k # 0 => k \in 1..A /\ k - 1 \in 0..A
  BY <1>2
<1>9. c = Step(c)
  BY <1>2, <1>6, <1>7, <1>8
<1>10. at = Step(at)
  BY <1>9
<1> HIDE DEF at
<1>11. at = c
  <2>1. at = [k \in 0..A |-> at[k]] /\ c = [k \in 0..A |-> c[k]]
    BY <1>10
  <2>2. \A k \in 0..A : /\ at[k] = IF k = 0 THEN l ELSE IF k > 1 /\ at[k - 1] = l THEN l
                                   ELSE Toward(m, pos)[at[k - 1]]
                        /\ c[k] = IF k = 0 THEN l ELSE IF k > 1 /\ c[k - 1] = l THEN l
                                  ELSE Toward(m, pos)[c[k - 1]]
    BY <1>9, <1>10
  <2>3. 0 \in 0..A /\ \A k \in 0..(A - 1) : k + 1 \in 0..A /\ k + 1 # 0 /\ (k + 1) - 1 = k
    BY <1>2
  <2>4. at[0] = c[0]
    BY <2>2, <2>3
  <2> HIDE DEF c
  <2>5. \A k \in 0..(A - 1) : at[k] = c[k] => at[k + 1] = c[k + 1]
    BY <2>2, <2>3
  <2>6. A \in Nat
    BY <1>2
  <2>7. \A k \in 0..A : at[k] = c[k]
    BY <2>4, <2>5, <2>6, OnlyOne, ZenonT(60)
  <2>8. QED
    BY <2>1, <2>7
<1>12. at[A] = At(s, l, IF pos < 0 THEN N + 1 + pos ELSE pos)
  <2>1. A \in 0..A /\ place(A) = IF pos < 0 THEN N + 1 + pos ELSE pos
    BY <1>2, <1>3 DEF place
  <2>2. at[A] = At(s, l, place(A))
    BY <1>11, <2>1
  <2>3. QED
    BY <2>1, <2>2
<1>13. QED
  BY <1>1, <1>12 DEF N

\* An index goes on by its stride, but not beyond the node of its list.
LEMMA AdvancedPlace ==
  ASSUME NEW m, NEW s, NEW open, Shape(m, s, open), NEW l \in Heads, l \notin open,
         NEW i \in Index, i.host = l, NEW p \in 0..Len(s[l]), i.node = At(s, l, p)
  PROVE  Advanced(m, i) = [i EXCEPT !.node = IF p = 0 THEN l ELSE At(s, l, p + i.stride)]
<1> DEFINE d == i.stride
           A == Abs(d)
           N == Len(s[l])
           Step(g) == [k \in 0..A |->
                         IF k = 0 THEN i.node
                         ELSE IF g[k - 1] = i.host THEN i.host ELSE Toward(m, d)[g[k - 1]]]
           at == CHOOSE g : g = Step(g)
           place(k) == IF p = 0 THEN 0 ELSE IF d > 0 THEN p + k ELSE p - k
           c == [k \in 0..A |-> At(s, l, place(k))]
<1>1. Advanced(m, i) = [i EXCEPT !.node = at[A]]
  BY DEF Advanced
<1>2. d \in Int /\ A \in Nat /\ A = IF d < 0 THEN -d ELSE d
  BY DEF Abs, Index
<1>3. Apart(s) /\ Rings(m.next, m.prev, s, open) /\ N \in Nat /\ l \in Heads /\ p \in Nat /\ p <= N
  BY Places DEF Shape
<1>4. \A o : o \notin 1..N => At(s, l, o) = l
  BY <1>3, Places
<1>5. \A o \in 1..N : At(s, l, o) # l
  BY <1>3, Places
<1> HIDE DEF d, A, N
<1>6. ASSUME NEW k \in 1..A
      PROVE  At(s, l, place(k)) = IF At(s, l, place(k - 1)) = l THEN l
                                  ELSE Toward(m, d)[At(s, l, place(k - 1))]
  <2>1. CASE p = 0
    <3>1. place(k) \notin 1..N /\ place(k - 1) \notin 1..N
      BY <2>1
    <3> HIDE DEF place
    <3>2. QED
      BY <1>4, <3>1
  <2>2. CASE p # 0 /\ d > 0
    <3>1. place(k) = p + k /\ place(k - 1) = p + k - 1 /\ Toward(m, d) = m.next
      BY <1>2, <1>3, <2>2 DEF Toward
    <3>2. CASE p + k - 1 \in 1..N
      <4>1. p + k - 1 \in 0..N /\ p + k - 1 > 0 /\ (p + k - 1) + 1 = p + k
        BY <1>3, <3>2
      <4>2. m.next[At(s, l, p + k - 1)] = At(s, l, p + k)
        BY <1>3, <4>1, NextPlace DEF N
      <4>3. QED
        BY <1>5, <3>1, <3>2, <4>2
    <3>3. CASE p + k - 1 \notin 1..N
      <4>1. p + k \notin 1..N
        BY <1>2, <1>3, <2>2, <3>3
      <4>2. QED
        BY <1>4, <3>1, <3>3, <4>1
    <3>4. QED
      BY <3>2, <3>3
  <2>3. CASE p # 0 /\ ~(d > 0)
    <3>1. place(k) = p - k /\ place(k - 1) = p - k + 1 /\ Toward(m, d) = m.prev
      BY <1>2, <1>3, <2>3 DEF Toward
    <3>2. CASE p - k + 1 \in 1..N
      <4>1. p - k \in 0..N /\ (p - k) + 1 = p - k + 1
        BY <1>3, <3>2
      <4>2. m.prev[At(s, l, p - k + 1)] = At(s, l, p - k)
        BY <1>3, <4>1, NextPlace DEF N
      <4>3. QED
        BY <1>5, <3>1, <3>2, <4>2
    <3>3. CASE p - k + 1 \notin 1..N
      <4>1. p - k \notin 1..N
        BY <1>2, <1>3, <2>3, <3>3
      <4>2. QED
        BY <1>4, <3>1, <3>3, <4>1
    <3>4. QED
      BY <3>2, <3>3
  <2>4. QED
    BY <2>1, <2>2, <2>3
<1>7. i.node = At(s, l, place(0))
  <2>1. place(0) = p
    BY <1>3
  <2> HIDE DEF place
  <2>2. QED
    BY <2>1
<1> HIDE DEF place
<1>8. \A k \in 0..A : k # 0 => k \in 1..A /\ k - 1 \in 0..A
  BY <1>2
<1>9. c = Step(c)
  BY <1>2, <1>6, <1>7, <1>8
<1>10. at = Step(at)
  BY <1>9
<1> HIDE DEF at
<1>11. at = c
  <2>1. at = [k \in 0..A |-> at[k]] /\ c = [k \in 0..A |-> c[k]]
    BY <1>10
  <2>2. \A k \in 0..A : /\ at[k] = IF k = 0 THEN i.node ELSE IF at[k - 1] = l THEN l
                                   ELSE Toward(m, d)[at[k - 1]]
                        /\ c[k] = IF k = 0 THEN i.node ELSE IF c[k - 1] = l THEN l
                                  ELSE Toward(m, d)[c[k - 1]]
    BY <1>9, <1>10
  <2>3. 0 \in 0..A /\ \A k \in 0..(A - 1) : k + 1 \in 0..A /\ k + 1 # 0 /\ (k + 1) - 1 = k
    BY <1>2
  <2>4. at[0] = c[0]
    BY <2>2, <2>3
  <2> HIDE DEF c
  <2>5. \A k \in 0..(A - 1) : at[k] = c[k] => at[k + 1] = c[k + 1]
    BY <2>2, <2>3
  <2>6. A \in Nat
    BY <1>2
  <2>7. \A k \in 0..A : at[k] = c[k]
    BY <2>4, <2>5, <2>6, OnlyOne, ZenonT(60)
  <2>8. QED
    BY <2>1, <2>7
<1>12. at[A] = IF p = 0 THEN l ELSE At(s, l, p + d)
  <2>1. A \in 0..A /\ place(A) = IF p = 0 THEN 0 ELSE p + d
    BY <1>2, <1>3 DEF place
  <2>2. at[A] = At(s, l, place(A))
    BY <1>11, <2>1
  <2>3. At(s, l, 0) = l
    BY <1>3, Places
  <2>4. QED
    BY <2>1, <2>2, <2>3
<1>13. QED
  BY <1>1, <1>12 DEF d

\* A list has no more nodes than there are.
LEMMA FewerThanNodes ==
  ASSUME NEW s, Apart(s), NEW l \in Heads
  PROVE  Cardinality(Nodes) \in Nat /\ Len(s[l]) \in Nat /\ Len(s[l]) <= Cardinality(Nodes)
<1> DEFINE N == Len(s[l])
<1>1. N \in Nat /\ s[l] \in [1..N -> Nodes]
  <2>1. s[l] \in Seq(Nodes)
    BY DEF Apart
  <2>2. QED
    BY <2>1, LenProperties
<1>2. \A i, j \in 1..N : s[l][i] = s[l][j] => i = j
  BY Once
<1>3. s[l] \in Injection(1..N, Nodes)
  BY <1>1, <1>2 DEF Injection, IsInjective
<1>4. IsFiniteSet(Nodes)
  BY NumbersAssumption
<1>5. Cardinality(1..N) <= Cardinality(Nodes)
  BY <1>3, <1>4, FS_Injection
<1>6. Cardinality(1..N) = N
  <2>1. 1 \in Int /\ N \in Int
    BY <1>1
  <2>2. Cardinality(1..N) = IF 1 > N THEN 0 ELSE N - 1 + 1
    BY <2>1, FS_Interval
  <2>3. QED
    BY <1>1, <2>2
<1>7. Cardinality(Nodes) \in Nat
  BY <1>4, FS_CardinalityType
<1>8. QED
  BY <1>1, <1>5, <1>6, <1>7

\* Walking from a place finds the nodes from there on.
LEMMA WalkPlace ==
  ASSUME NEW m, NEW s, NEW open, Shape(m, s, open), NEW l \in Heads, NEW p \in 1..(Len(s[l]) + 1)
  PROVE  Walk(m, At(s, l, p)) = SubSeq(s[l], p, Len(s[l]))
<1> DEFINE C == Cardinality(Nodes)
           N == Len(s[l])
           x == At(s, l, p)
           Step(g) == [k \in 0..C |-> IF k = 0 THEN x ELSE IF g[k - 1] \in Nodes THEN m.next[g[k - 1]] ELSE g[k - 1]]
           at == CHOOSE g : g = Step(g)
           c == [k \in 0..C |-> At(s, l, p + k)]
           n == Cardinality({k \in 0..C : at[k] \in Nodes})
<1>1. Walk(m, x) = [k \in 1..n |-> at[k - 1]]
  BY DEF Walk
<1>2. Apart(s) /\ Rings(m.next, m.prev, s, open) /\ N \in Nat /\ C \in Nat /\ N <= C
  BY FewerThanNodes DEF Shape
<1>3. p \in Nat /\ p >= 1 /\ p <= N + 1
  BY <1>2
<1>4. \A o : o \notin 1..N => At(s, l, o) = l /\ l \notin Nodes
  BY <1>2, Places
<1>5. \A o \in 1..N : At(s, l, o) = s[l][o] /\ s[l][o] \in Nodes
  BY <1>2, Places
<1> HIDE DEF C, N
<1>6. ASSUME NEW k \in 1..C
      PROVE  At(s, l, p + k) = IF At(s, l, p + (k - 1)) \in Nodes THEN m.next[At(s, l, p + (k - 1))]
                               ELSE At(s, l, p + (k - 1))
  <2>1. CASE p + (k - 1) \in 1..N
    <3>1. p + (k - 1) \in 0..N /\ p + (k - 1) > 0 /\ (p + (k - 1)) + 1 = p + k
      BY <1>3, <2>1
    <3>2. m.next[At(s, l, p + (k - 1))] = At(s, l, (p + (k - 1)) + 1)
      <4> HIDE DEF at, c, x
      <4>1. QED
        BY <1>2, <3>1, NextPlace DEF N
    <3>3. QED
      BY <1>5, <2>1, <3>1, <3>2
  <2>2. CASE p + (k - 1) \notin 1..N
    <3>1. p + k \notin 1..N
      BY <1>2, <1>3, <2>2
    <3>2. QED
      BY <1>4, <2>2, <3>1
  <2>3. QED
    BY <2>1, <2>2
<1>7. x = At(s, l, p + 0)
  BY <1>3
<1>8. \A k \in 0..C : k # 0 => k \in 1..C /\ k - 1 \in 0..C
  BY <1>2
<1> HIDE DEF x
<1>9. c = Step(c)
  BY <1>2, <1>6, <1>7, <1>8
<1>10. at = Step(at)
  BY <1>9
<1> HIDE DEF at
<1>11. \A k \in 0..C : at[k] = At(s, l, p + k)
  <2>2. \A k \in 0..C : /\ at[k] = IF k = 0 THEN x ELSE IF at[k - 1] \in Nodes THEN m.next[at[k - 1]]
                                   ELSE at[k - 1]
                        /\ c[k] = IF k = 0 THEN x ELSE IF c[k - 1] \in Nodes THEN m.next[c[k - 1]]
                                  ELSE c[k - 1]
    BY <1>9, <1>10
  <2>3. 0 \in 0..C /\ C \in Nat /\ \A k \in 0..(C - 1) : k + 1 \in 0..C /\ k + 1 # 0 /\ (k + 1) - 1 = k
    BY <1>2
  <2>4. at[0] = c[0]
    BY <2>2, <2>3
  <2>1. \A k \in 0..C : c[k] = At(s, l, p + k)
    OBVIOUS
  <2> HIDE DEF c
  <2>5. \A k \in 0..(C - 1) : at[k] = c[k] => at[k + 1] = c[k + 1]
    BY <2>2, <2>3
  <2>6. C \in Nat
    BY <2>3
  <2>7. \A k \in 0..C : at[k] = c[k]
    BY <2>4, <2>5, <2>6, OnlyOne
  <2>8. QED
    BY <2>1, <2>7
<1>12. n = N - p + 1
  <2>1. \A k \in 0..C : at[k] \in Nodes <=> p + k \in 1..N
    BY <1>4, <1>5, <1>11
  <2>2. \A k : k \in 0..C /\ p + k \in 1..N <=> k \in 0..(N - p)
    BY <1>2, <1>3
  <2>3. {k \in 0..C : at[k] \in Nodes} = 0..(N - p)
    BY <2>1, <2>2
  <2>4. 0 \in Int /\ N - p \in Int
    BY <1>2, <1>3
  <2>5. Cardinality(0..(N - p)) = IF 0 > N - p THEN 0 ELSE N - p - 0 + 1
    BY <2>4, FS_Interval
  <2>6. n = Cardinality(0..(N - p))
    BY <2>3
  <2> HIDE DEF n
  <2>7. QED
    BY <1>2, <1>3, <2>5, <2>6
<1> HIDE DEF n
<1> DEFINE w == SubSeq(s[l], p, N)
<1>13. w \in Seq(Nodes) /\ Len(w) = N - p + 1 /\ \A k \in 1..(N - p + 1) : w[k] = s[l][p + k - 1]
  <2>1. s[l] \in Seq(Nodes) /\ N \in (p - 1)..N /\ p \in 1..(N + 1)
    BY <1>2, <1>3, Places
  <2>2. QED
    BY <2>1, PartPlaces DEF N
<1>14. w = [k \in 1..(N - p + 1) |-> w[k]]
  BY <1>13, LenProperties
<1>15. ASSUME NEW k \in 1..(N - p + 1) PROVE at[k - 1] = w[k]
  <2>1. k - 1 \in 0..C /\ p + (k - 1) = p + k - 1 /\ p + k - 1 \in 1..N
    BY <1>2, <1>3
  <2>2. QED
    BY <1>5, <1>11, <1>13, <2>1
<1> HIDE DEF w
<1>16. [k \in 1..n |-> at[k - 1]] = w
  BY <1>12, <1>14, <1>15
<1>17. QED
  BY <1>1, <1>16 DEF w, N, x
\* How many nodes there are from the p-th of N on in steps of d.
Count(N, p, d) == IF d > 0 THEN (N - p) \div d + 1 ELSE IF d < 0 THEN (p - 1) \div (-d) + 1 ELSE 1

\* A part of the way is not longer than the way.
LEMMA StepsFit ==
  ASSUME NEW x \in Nat, NEW d \in Nat \ {0}, NEW k \in Nat, k <= x \div d
  PROVE  k * d <= x /\ k * d >= 0
<1> DEFINE q == x \div d
<1>1. q \in Nat /\ q * d <= x
  OBVIOUS
<1> HIDE DEF q
<1>2. k * d <= q * d /\ k * d \in Nat /\ q * d \in Nat
  <2>1. k <= q
    BY DEF q
  <2>2. (q - k) \in Nat /\ d \in Nat
    BY <1>1, <2>1
  <2>3. (q - k) * d \in Nat /\ (q - k) * d = q * d - k * d
    BY <1>1, <2>2
  <2>4. k * d \in Nat /\ q * d \in Nat
    BY <1>1
  <2>5. QED
    BY <2>3, <2>4
<1>3. QED
  BY <1>1, <1>2

\* The steps stay in the list.
LEMMA CountFits ==
  ASSUME NEW N \in Nat, NEW p \in 1..N, NEW d \in Int
  PROVE  /\ Count(N, p, d) \in Nat \ {0}
         /\ \A k \in 1..Count(N, p, d) : p + (k - 1) * d \in 1..N
<1>1. CASE d = 0
  <2>1. Count(N, p, d) = 1
    BY <1>1 DEF Count
  <2>2. \A k \in 1..1 : p + (k - 1) * d = p
    BY <1>1
  <2>3. QED
    BY <2>1, <2>2
<1>2. CASE d > 0
  <2>1. N - p \in Nat /\ d \in Nat \ {0} /\ Count(N, p, d) = (N - p) \div d + 1 /\ (N - p) \div d \in Nat
    BY <1>2 DEF Count
  <2>2. ASSUME NEW k \in 1..((N - p) \div d + 1) PROVE p + (k - 1) * d \in 1..N
    <3>1. k - 1 \in Nat /\ k - 1 <= (N - p) \div d
      BY <2>1
    <3>2. (k - 1) * d <= N - p /\ (k - 1) * d >= 0
      BY <2>1, <3>1, StepsFit
    <3>3. (k - 1) * d \in Int
      BY <3>1
    <3>4. QED
      BY <3>2, <3>3
  <2>3. QED
    BY <2>1, <2>2
<1>3. CASE d < 0
  <2>1. p - 1 \in Nat /\ -d \in Nat \ {0} /\ Count(N, p, d) = (p - 1) \div (-d) + 1 /\ (p - 1) \div (-d) \in Nat
    BY <1>3 DEF Count
  <2>2. ASSUME NEW k \in 1..((p - 1) \div (-d) + 1) PROVE p + (k - 1) * d \in 1..N
    <3>1. k - 1 \in Nat /\ k - 1 <= (p - 1) \div (-d)
      BY <2>1
    <3>2. (k - 1) * (-d) <= p - 1 /\ (k - 1) * (-d) >= 0
      BY <2>1, <3>1, StepsFit
    <3>3. (k - 1) * d \in Int /\ (k - 1) * (-d) = -((k - 1) * d)
      BY <3>1
    <3>4. QED
      BY <3>2, <3>3
  <2>3. QED
    BY <2>1, <2>2
<1>4. QED
  BY <1>1, <1>2, <1>3

\* The nodes from the p-th one on in steps of d.
LEMMA SteppedPlaces ==
  ASSUME NEW S, NEW e \in Seq(S), NEW p \in 1..Len(e), NEW d \in Int
  PROVE  /\ Stepped(e, p, d) \in Seq(S) /\ Len(Stepped(e, p, d)) = Count(Len(e), p, d)
         /\ Count(Len(e), p, d) \in Nat \ {0}
         /\ \A k \in 1..Count(Len(e), p, d) : Stepped(e, p, d)[k] = e[p + (k - 1) * d]
         /\ \A k \in 1..Count(Len(e), p, d) : p + (k - 1) * d \in 1..Len(e)
<1> DEFINE n == Count(Len(e), p, d)
           w == [k \in 1..n |-> e[p + (k - 1) * d]]
<1>1. Stepped(e, p, d) = w
  BY DEF Stepped, Count
<1>2. Len(e) \in Nat /\ \A k \in 1..Len(e) : e[k] \in S
  BY LenProperties
<1>3. n \in Nat \ {0} /\ \A k \in 1..n : p + (k - 1) * d \in 1..Len(e)
  BY <1>2, CountFits
<1> HIDE DEF n
<1>4. w \in [1..n -> S] /\ \A k \in 1..n : w[k] = e[p + (k - 1) * d]
  BY <1>2, <1>3
<1> HIDE DEF w
<1>5. w \in Seq(S) /\ Len(w) = n
  BY <1>3, <1>4
<1>6. QED
  BY <1>1, <1>3, <1>4, <1>5 DEF n

\* The k-th of them.
LEMMA SteppedAt ==
  ASSUME NEW S, NEW e \in Seq(S), NEW p \in 1..Len(e), NEW d \in Int,
         NEW k \in 1..Count(Len(e), p, d)
  PROVE  Stepped(e, p, d)[k] = e[p + (k - 1) * d]
BY SteppedPlaces

\* What is left to be done after the first step.
Later(e, p, d) == IF p \in 1..Len(e) THEN Stepped(e, p, d) ELSE <<>>

LEMMA CountNext ==
  ASSUME NEW N \in Nat, NEW p \in 1..N, NEW d \in Int \ {0}
  PROVE  Count(N, p, d) = 1 + IF p + d \in 1..N THEN Count(N, p + d, d) ELSE 0
<1>1. CASE d > 0
  <2> DEFINE x == N - p
  <2>1. x \in Nat /\ d \in Nat \ {0} /\ N - (p + d) = x - d /\ (p + d \in 1..N <=> d <= x)
    BY <1>1
  <2> HIDE DEF x
  <2>2. d <= x => (x - d) \div d = x \div d - 1
    BY <2>1
  <2>3. ~(d <= x) => x \div d = 0
    BY <2>1
  <2>4. Count(N, p, d) = x \div d + 1 /\ Count(N, p + d, d) = (x - d) \div d + 1
    BY <1>1, <2>1 DEF Count, x
  <2>5. x \div d \in Int
    BY <2>1
  <2>6. QED
    BY <2>1, <2>2, <2>3, <2>4, <2>5
<1>2. CASE d < 0
  <2> DEFINE x == p - 1
             c == -d
  <2>1. x \in Nat /\ c \in Nat \ {0} /\ (p + d) - 1 = x - c /\ (p + d \in 1..N <=> c <= x)
    BY <1>2
  <2>4. Count(N, p, d) = x \div c + 1 /\ Count(N, p + d, d) = ((p + d) - 1) \div c + 1
    BY <1>2 DEF Count
  <2> HIDE DEF x, c
  <2>2. c <= x => (x - c) \div c = x \div c - 1
    BY <2>1
  <2>3. ~(c <= x) => x \div c = 0
    BY <2>1
  <2>5. x \div c \in Int
    BY <2>1
  <2>6. QED
    BY <2>1, <2>2, <2>3, <2>4, <2>5
<1>3. QED
  BY <1>1, <1>2

\* The first step, and the rest of the way.
LEMMA SteppedFirst ==
  ASSUME NEW S, NEW e \in Seq(S), NEW p \in 1..Len(e), NEW d \in Int \ {0}
  PROVE  Stepped(e, p, d) = <<e[p]>> \o Later(e, p + d, d) /\ Later(e, p + d, d) \in Seq(S)
<1> DEFINE n == Count(Len(e), p, d)
           w == Stepped(e, p, d)
           r == Later(e, p + d, d)
           c == <<e[p]>> \o r
<1>1. Len(e) \in Nat /\ e[p] \in S
  BY LenProperties
<1>2. w \in Seq(S) /\ Len(w) = n /\ n \in Nat \ {0} /\ \A k \in 1..n : w[k] = e[p + (k - 1) * d]
  <2>1. w \in Seq(S) /\ Len(w) = n /\ n \in Nat \ {0}
    BY SteppedPlaces
  <2>2. \A k \in 1..n : w[k] = e[p + (k - 1) * d]
    BY SteppedPlaces
  <2>3. QED
    BY <2>1, <2>2
<1>3. n = 1 + IF p + d \in 1..Len(e) THEN Count(Len(e), p + d, d) ELSE 0
  BY <1>1, CountNext
<1>4. /\ r \in Seq(S) /\ Len(r) = n - 1
      /\ \A k \in 1..(n - 1) : r[k] = e[(p + d) + (k - 1) * d]
  <2>1. CASE p + d \in 1..Len(e)
    <3> DEFINE g == Stepped(e, p + d, d)
               o == Count(Len(e), p + d, d)
    <3>1. g \in Seq(S) /\ Len(g) = o /\ o \in Nat \ {0} /\ \A k \in 1..o : g[k] = e[(p + d) + (k - 1) * d]
      <4>1. g \in Seq(S) /\ Len(g) = o /\ o \in Nat \ {0}
        BY <2>1, SteppedPlaces
      <4>2. \A k \in 1..o : g[k] = e[(p + d) + (k - 1) * d]
        BY <2>1, SteppedPlaces
      <4>3. QED
        BY <4>1, <4>2
    <3>2. r = g
      BY <2>1 DEF Later
    <3>3. n - 1 = o
      <4> HIDE DEF n, o
      <4>1. QED
        BY <1>3, <2>1, <3>1 DEF o
    <3> HIDE DEF n, r, g, o
    <3>4. QED
      BY <3>1, <3>2, <3>3
  <2>2. CASE p + d \notin 1..Len(e)
    <3>1. r = <<>> /\ n = 1
      BY <1>3, <2>2 DEF Later
    <3> HIDE DEF n, r
    <3>2. \A k \in 1..(n - 1) : FALSE
      BY <3>1
    <3>3. <<>> \in Seq(S) /\ Len(<<>>) = n - 1
      BY <3>1
    <3>4. QED
      BY <3>1, <3>2, <3>3
  <2>3. QED
    BY <2>1, <2>2
<1> HIDE DEF n, w, r
<1>5. <<e[p]>> \in Seq(S) /\ Len(<<e[p]>>) = 1 /\ <<e[p]>>[1] = e[p]
  BY <1>1
<1>6. /\ c \in Seq(S) /\ Len(c) = 1 + Len(r)
      /\ \A k \in 1..(1 + Len(r)) : c[k] = IF k <= 1 THEN <<e[p]>>[k] ELSE r[k - 1]
  BY <1>4, <1>5, ConcatProperties
<1> HIDE DEF c
<1>7. ASSUME NEW k \in 1..Len(w) PROVE w[k] = c[k]
  <2>1. CASE k = 1
    <3>1. p + (k - 1) * d = p
      BY <2>1
    <3>2. QED
      BY <1>2, <1>4, <1>5, <1>6, <2>1, <3>1
  <2>2. CASE k # 1
    <3>1. k - 1 \in 1..(n - 1) /\ ~(k <= 1) /\ k \in 1..(1 + Len(r))
      BY <1>2, <1>4, <2>2
    <3>2. (p + d) + ((k - 1) - 1) * d = p + (k - 1) * d
      OBVIOUS
    <3>3. QED
      BY <1>2, <1>4, <1>6, <3>1, <3>2, ZenonT(30)
  <2>3. QED
    BY <2>1, <2>2
<1>8. Len(w) = Len(c)
  BY <1>2, <1>4, <1>6
<1>9. w = c
  BY <1>2, <1>6, <1>7, <1>8, SeqEqual
<1>10. QED
  BY <1>4, <1>9 DEF w, c, r

\* The rest of the way does not change when the first node is taken out.
LEMMA LaterCut ==
  ASSUME NEW S, NEW e \in Seq(S), NEW p \in 1..Len(e), NEW d \in Int \ {0}
  PROVE  /\ p + d \in 1..Len(e) => (IF d > 0 THEN p + d - 1 ELSE p + d) \in 1..Len(CutOut(e, p, p))
         /\ Later(e, p + d, d) =
              IF p + d \in 1..Len(e) THEN Stepped(CutOut(e, p, p), IF d > 0 THEN p + d - 1 ELSE p + d, d)
              ELSE <<>>
<1> DEFINE u == CutOut(e, p, p)
           N == Len(e)
           q == IF d > 0 THEN p + d - 1 ELSE p + d
           g == Stepped(e, p + d, d)
           h == Stepped(u, q, d)
<1>1. N \in Nat /\ p \in 1..N /\ p \in p..N
  BY LenProperties
<1>2. /\ u \in Seq(S) /\ Len(u) = N - 1
      /\ \A k \in 1..(N - 1) : u[k] = IF k < p THEN e[k] ELSE e[k + 1]
  <2>1. /\ u \in Seq(S) /\ Len(u) = N - (p - p + 1)
        /\ \A k \in 1..(N - (p - p + 1)) : u[k] = IF k < p THEN e[k] ELSE e[k + (p - p + 1)]
    BY <1>1, CutPlaces
  <2>2. p - p + 1 = 1
    BY <1>1
  <2> HIDE DEF u
  <2>3. QED
    BY <2>1, <2>2
<1>3. SUFFICES ASSUME p + d \in 1..N PROVE q \in 1..Len(u) /\ g = h
  BY DEF Later
<1> HIDE DEF u, N
<1>4. q \in 1..(N - 1) /\ q \in 1..Len(u)
  BY <1>1, <1>2, <1>3
<1>5. Count(N, p + d, d) = Count(N - 1, q, d)
  <2>1. d > 0 => N - (p + d) = (N - 1) - q
    BY <1>1
  <2>2. ~(d > 0) => q = p + d
    OBVIOUS
  <2> HIDE DEF q
  <2>3. QED
    BY <2>1, <2>2 DEF Count
<1> DEFINE n == Count(N, p + d, d)
<1>6. /\ g \in Seq(S) /\ Len(g) = n /\ n \in Nat
      /\ \A k \in 1..n : g[k] = e[(p + d) + (k - 1) * d]
      /\ \A k \in 1..n : (p + d) + (k - 1) * d \in 1..N
  <2>1. g \in Seq(S) /\ Len(g) = n /\ n \in Nat
    BY <1>3, SteppedPlaces DEF N
  <2>2. \A k \in 1..n : g[k] = e[(p + d) + (k - 1) * d]
    BY <1>3, SteppedPlaces DEF N
  <2>3. \A k \in 1..n : (p + d) + (k - 1) * d \in 1..N
    BY <1>3, SteppedPlaces DEF N
  <2>4. QED
    BY <2>1, <2>2, <2>3
<1> HIDE DEF q
<1>7. /\ h \in Seq(S) /\ Len(h) = n
      /\ \A k \in 1..n : h[k] = u[q + (k - 1) * d]
      /\ \A k \in 1..n : q + (k - 1) * d \in 1..(N - 1)
  <2>1. u \in Seq(S) /\ q \in 1..Len(u) /\ Len(u) = N - 1 /\ Count(N - 1, q, d) = n
    BY <1>2, <1>4, <1>5
  <2> HIDE DEF g, n
  <2>2. h \in Seq(S) /\ Len(h) = Count(Len(u), q, d)
    BY <2>1, SteppedPlaces
  <2>3. ASSUME NEW k \in 1..Count(Len(u), q, d) PROVE Stepped(u, q, d)[k] = u[q + (k - 1) * d]
    BY <2>1, SteppedAt, SMTT(30)
  <2>4. \A k \in 1..Count(Len(u), q, d) : q + (k - 1) * d \in 1..Len(u)
    BY <2>1, SteppedPlaces
  <2>5. Count(Len(u), q, d) = n
    BY <2>1
  <2>6. \A k \in 1..n : Stepped(u, q, d)[k] = u[q + (k - 1) * d]
    BY <2>3, <2>5, Zenon
  <2>7. \A k \in 1..n : h[k] = u[q + (k - 1) * d]
    BY <2>6
  <2>8. \A k \in 1..n : q + (k - 1) * d \in 1..(N - 1)
    BY <2>1, <2>4, <2>5, Zenon
  <2> HIDE DEF h
  <2>9. QED
    BY <2>1, <2>2, <2>7, <2>8
<1> HIDE DEF g, h, n
<1>8. ASSUME NEW k \in 1..n PROVE g[k] = h[k]
  <2> DEFINE y == (k - 1) * d
  <2>1. y \in Int /\ (d > 0 => y >= 0) /\ (d < 0 => y <= 0)
    BY <1>6
  <2>2. /\ g[k] = e[(p + d) + y] /\ (p + d) + y \in 1..N
        /\ h[k] = u[q + y] /\ q + y \in 1..(N - 1)
    BY <1>6, <1>7
  <2> HIDE DEF y
  <2>3. CASE d > 0
    <3>1. ~(q + y < p) /\ (q + y) + 1 = (p + d) + y
      BY <1>1, <2>1, <2>3 DEF q
    <3>2. QED
      BY <1>2, <2>2, <3>1
  <2>4. CASE d < 0
    <3>1. q + y < p /\ q + y = (p + d) + y
      BY <1>1, <2>1, <2>4 DEF q
    <3>2. QED
      BY <1>2, <2>2, <3>1
  <2>5. QED
    BY <2>3, <2>4
<1>9. g = h
  BY <1>6, <1>7, <1>8, SeqEqual
<1>10. QED
  BY <1>4, <1>9

-----------------------------------------------------------------------------
(* Changes of sequences *)

\* What moves from one list to another leaves the first one and enters the second one.
LEMMA MovedAway ==
  ASSUME NEW s, Apart(s), NEW h \in Heads, NEW i \in 1..Len(s[h]), NEW j \in i..Len(s[h]),
         NEW l \in Heads, l # h, NEW p \in 1..(Len(s[l]) + 1)
  PROVE  /\ Cut(s, h, i, j)[l] = s[l]
         /\ Moved(s, h, i, j, l, p)[h] = CutOut(s[h], i, j)
         /\ Moved(s, h, i, j, l, p)[l] = PutAt(s[l], p, SubSeq(s[h], i, j))
         /\ \A k \in Heads \ {h, l} : Moved(s, h, i, j, l, p)[k] = s[k]
         /\ Moved(s, h, i, j, l, p)
              = [s EXCEPT ![l] = PutAt(s[l], p, SubSeq(s[h], i, j)), ![h] = CutOut(s[h], i, j)]
         /\ Len(Moved(s, h, i, j, l, p)[h]) = Len(s[h]) - (j - i + 1)
         /\ Len(Moved(s, h, i, j, l, p)[l]) = Len(s[l]) + (j - i + 1)
<1> DEFINE a == CutOut(s[h], i, j)
           d == SubSeq(s[h], i, j)
           b == PutAt(s[l], p, d)
           u == [s EXCEPT ![h] = a]
           v == [u EXCEPT ![l] = b]
<1>1. DOMAIN s = Heads /\ s[h] \in Seq(Nodes) /\ s[l] \in Seq(Nodes)
  BY DEF Apart
<1>2. Len(a) = Len(s[h]) - (j - i + 1)
  BY <1>1, CutPlaces
<1>3. d \in Seq(Nodes) /\ Len(d) = j - i + 1
  <2>1. i \in 1..(Len(s[h]) + 1) /\ j \in (i - 1)..Len(s[h])
    BY <1>1
  <2>2. QED
    BY <1>1, <2>1, PartPlaces
<1>4. Len(b) = Len(s[l]) + (j - i + 1)
  <2>1. Len(b) = Len(s[l]) + Len(d)
    BY <1>1, <1>3, PutPlaces
  <2>2. QED
    BY <1>3, <2>1
<1>5. u = Cut(s, h, i, j) /\ Cut(s, h, i, j)[l] = s[l]
  BY <1>1 DEF Cut
<1>6. v = Moved(s, h, i, j, l, p)
  BY <1>5 DEF Moved, Put
<1> HIDE DEF a, b, d
<1>7. v[h] = a /\ v[l] = b /\ (\A k \in Heads \ {h, l} : v[k] = s[k])
  BY <1>1
<1>8. v = [s EXCEPT ![l] = b, ![h] = a]
  <2> DEFINE x == [s EXCEPT ![l] = b, ![h] = a]
  <2>1. DOMAIN x = Heads /\ DOMAIN v = Heads /\ v = [k \in Heads |-> v[k]] /\ x = [k \in Heads |-> x[k]]
    BY <1>1
  <2>2. \A k \in Heads : v[k] = x[k]
    BY <1>1
  <2> HIDE DEF x, v
  <2>3. QED
    BY <2>1, <2>2 DEF x
<1> HIDE DEF u, v
<1>9. QED
  BY <1>2, <1>4, <1>5, <1>6, <1>7, <1>8 DEF a, b, d

\* Moving nodes from list to list is what ListSpec calls a move.
LEMMA MoveChange ==
  ASSUME NEW s, Apart(s), NEW h \in Heads, NEW i \in 1..Len(s[h]), NEW j \in i..Len(s[h]),
         NEW l \in Heads, l # h, NEW p \in 1..(Len(s[l]) + 1)
  PROVE  Seqs!Change(s, Moved(s, h, i, j, l, p))
<1> DEFINE t == Moved(s, h, i, j, l, p)
<1>1. /\ Len(t[h]) = Len(s[h]) - (j - i + 1) /\ Len(t[l]) = Len(s[l]) + (j - i + 1)
      /\ t = [s EXCEPT ![l] = PutAt(s[l], p, SubSeq(s[h], i, j)), ![h] = CutOut(s[h], i, j)]
  BY MovedAway
<1> HIDE DEF t
<1>2. Len(s[h]) \in Nat /\ Len(s[l]) \in Nat
  BY Places
<1>3. s[h] # t[h] /\ s[l] # t[l]
  BY <1>1, <1>2, SMTT(30)
<1>4. j \in 1..Len(s[h]) /\ i <= j
  BY <1>2
<1>5. Seqs!Move(s, t, l, p, h, i, j)
  BY <1>1 DEF Seqs!Move, Seqs!Spliced, PutAt, CutOut, Apart
<1>6. QED
  BY <1>3, <1>4, <1>5 DEF Seqs!Change, t

\* Moving a node within a list is a shift, unless it stays where it is.
LEMMA ShiftChange ==
  ASSUME NEW s, Apart(s), NEW l \in Heads, NEW i \in 1..Len(s[l]), NEW p \in 1..Len(s[l])
  PROVE  Moved(s, l, i, i, l, p) = s \/ Seqs!Change(s, Moved(s, l, i, i, l, p))
<1> DEFINE t == Moved(s, l, i, i, l, p)
<1>1. s[l] \in Seq(Nodes) /\ Len(s[l]) \in Nat /\ DOMAIN s = Heads
  BY Places DEF Apart
<1>2. SubSeq(s[l], i, i) = <<s[l][i]>>
  <2> DEFINE a == SubSeq(s[l], i, i)
             b == <<s[l][i]>>
  <2>1. i \in 1..(Len(s[l]) + 1) /\ i \in (i - 1)..Len(s[l]) /\ s[l][i] \in Nodes
    BY <1>1, LenProperties
  <2>2. a \in Seq(Nodes) /\ Len(a) = i - i + 1 /\ \A k \in 1..(i - i + 1) : a[k] = s[l][i + k - 1]
    BY <1>1, <2>1, PartPlaces
  <2>3. b \in Seq(Nodes) /\ Len(b) = 1 /\ b[1] = s[l][i]
    BY <2>1
  <2> HIDE DEF a, b
  <2>4. Len(a) = 1 /\ i + 1 - 1 = i
    BY <2>2
  <2>5. a[1] = s[l][i]
    BY <2>2, <2>4
  <2>6. a = b
    BY <2>2, <2>3, <2>4, <2>5, SeqEqual
  <2>7. QED
    BY <2>6 DEF a, b
<1>3. t = [s EXCEPT ![l] = PutAt(CutOut(s[l], i, i), p, <<s[l][i]>>)]
  BY <1>1, <1>2 DEF Moved, Put, Cut
<1> HIDE DEF t
<1>4. Seqs!Shift(s, t, l, p, i)
  BY <1>1, <1>3 DEF Seqs!Shift, Seqs!Spliced, PutAt, CutOut, Seqs!RemoveAt, RemoveAt
<1>5. p \in 1..(Len(s[l]) + 1) /\ p <= Len(s[l])
  BY <1>1
<1>6. CASE s[l] # t[l]
  <2>1. Seqs!Change(s, t)
    BY <1>4, <1>5, <1>6 DEF Seqs!Change
  <2>2. QED
    BY <2>1 DEF t
<1>7. CASE s[l] = t[l]
  <2> DEFINE b == PutAt(CutOut(s[l], i, i), p, <<s[l][i]>>)
  <2>1. t = s
    <3>1. t = [s EXCEPT ![l] = b] /\ s = [k \in Heads |-> s[k]]
      BY <1>1, <1>3 DEF Apart
    <3> HIDE DEF b
    <3>2. b = s[l]
      BY <1>1, <1>7, <3>1
    <3>3. QED
      BY <3>1, <3>2
  <2>2. QED
    BY <2>1 DEF t
<1>8. QED
  BY <1>6, <1>7

\* A new node is an insertion.
LEMMA InsertChange ==
  ASSUME NEW s, Apart(s), NEW l \in Heads, NEW p \in 1..(Len(s[l]) + 1),
         NEW n \in Nodes, n \notin Listed(s)
  PROVE  Seqs!Change(s, Put(s, l, p, <<n>>))
<1> DEFINE t == Put(s, l, p, <<n>>)
<1>1. s[l] \in Seq(Nodes) /\ <<n>> \in Seq(Nodes) /\ DOMAIN s = Heads /\ 1 \in 1..Len(<<n>>)
  BY DEF Apart
<1>2. t = [s EXCEPT ![l] = PutAt(s[l], p, <<n>>)] /\ t[l] = PutAt(s[l], p, <<n>>)
  BY <1>1 DEF Put
<1> HIDE DEF t
<1>3. ToSet(t[l]) = ToSet(s[l]) \cup ToSet(<<n>>)
  BY <1>1, <1>2, PutMembers, ZenonT(30)
<1>4. n \in ToSet(<<n>>)
  BY DEF ToSet
<1>5. \A k \in Heads : n \notin ToSet(s[k])
  BY DEF Listed
<1>6. n \in ToSet(t[l]) \ ToSet(s[l]) /\ s[l] # t[l]
  BY <1>3, <1>4, <1>5
<1>7. Seqs!Insert(s, t, l, p, n)
  BY <1>2, <1>5 DEF Seqs!Insert, Seqs!Spliced, PutAt, Seqs!ToSet, ToSet
<1>8. QED
  BY <1>6, <1>7 DEF Seqs!Change, t, Seqs!ToSet, ToSet

\* The first node of a list is dropped.
LEMMA DropChange ==
  ASSUME NEW s, Apart(s), NEW l \in Heads, s[l] # <<>>
  PROVE  Seqs!Change(s, [s EXCEPT ![l] = Tail(@)])
<1> DEFINE t == [s EXCEPT ![l] = Tail(@)]
<1>1. s[l] \in Seq(Nodes) /\ DOMAIN s = Heads
  BY DEF Apart
<1>2. Len(Tail(s[l])) = Len(s[l]) - 1 /\ Len(s[l]) \in Nat
  BY <1>1
<1>3. s[l] # t[l]
  <2>1. t[l] = Tail(s[l])
    BY <1>1
  <2> HIDE DEF t
  <2>2. Len(t[l]) # Len(s[l])
    BY <1>2, <2>1
  <2>3. QED
    BY <2>2
<1>4. Seqs!Drop(s, t, l)
  BY DEF Seqs!Drop
<1>5. QED
  BY <1>3, <1>4 DEF Seqs!Change

=============================================================================
