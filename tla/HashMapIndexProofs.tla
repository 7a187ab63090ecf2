-------------------------- MODULE HashMapIndexProofs --------------------------
(***************************************************************************)
(* Proofs about iteration over the hash maps: that the lists of            *)
(* HashMapIndex.tla hold the nodes HashMap.tla has in the buckets, and     *)
(* that an iteration nobody disturbed visits every key, and none twice,    *)
(* for any number of maps, keys and nodes and any hash function.           *)
(*                                                                         *)
(* That none is missed is not inductive: what is still to be visited has   *)
(* to be ahead of the index, behind its node in the list or in a later     *)
(* bucket, and what was visited behind it.  A call keeps that because it   *)
(* keeps the order of the nodes it leaves in a list.                       *)
(***************************************************************************)
EXTENDS HashMapIndex, HashMapProofs, WellFoundedInduction

-----------------------------------------------------------------------------
(* Numbers *)

\* A set of natural numbers has a least one.
LEMMA Least ==
  ASSUME NEW S, S \subseteq Nat, S # {}
  PROVE  \E x \in S : \A y \in S : x <= y
<1> DEFINE less == {ss \in Nat \X Nat : ss[1] < ss[2]}
<1>1. IsWellFoundedOn(less, Nat)
  BY NatLessThanWellFounded DEF OpToRel
<1>2. less = {ss \in Nat \X Nat : ss[1] < ss[2]}
  OBVIOUS
<1> HIDE DEF less
<1>3. PICK x \in S : \A y \in S : <<y, x>> \notin less
  BY <1>1, WFMin
<1>4. \A y \in S : y \in Nat /\ x \in Nat /\ ~(y < x)
  BY <1>2, <1>3
<1>5. QED
  BY <1>4

\* A set with zero and the successors of its members has all natural numbers.
LEMMA AllNumbers ==
  ASSUME NEW S, S \subseteq Nat, 0 \in S, \A n \in S : n + 1 \in S
  PROVE  S = Nat
<1>1. SUFFICES ASSUME Nat \ S # {} PROVE FALSE
  OBVIOUS
<1>2. PICK x \in Nat \ S : \A y \in Nat \ S : x <= y
  BY <1>1, Least
<1>3. x - 1 \in Nat /\ ~(x <= x - 1)
  BY <1>2
<1>4. QED
  BY <1>2, <1>3

\* The place behind p in a ring of n + 1.
LEMMA Around ==
  ASSUME NEW n \in Nat, NEW p \in 1..n
  PROVE  /\ p < n => (p + 1) % (n + 1) = p + 1
         /\ p = n => (p + 1) % (n + 1) = 0
<1>1. CASE p < n
  <2>1. p + 1 \in 0..n
    BY <1>1
  <2>2. QED
    BY <1>1, <2>1
<1>2. CASE p = n
  BY <1>2
<1>3. QED
  BY <1>1, <1>2

\* f[i] is the state of S after i of the N turns of a loop that starts with a and goes on
\* with F.
Turns(f, S, a, N, F) ==
  f \in [0..N -> S] /\ f[0] = a /\ \A i \in 1..N : f[i] = F[<<f[i - 1], i>>]

LEMMA Loop ==
  ASSUME NEW S, NEW a, a \in S, NEW N, N \in Nat, NEW F, F \in [S \X (1..N) -> S]
  PROVE  \E f : Turns(f, S, a, N, F)
<1> DEFINE Upto(n, f) == /\ f \in [0..n -> S] /\ f[0] = a
                         /\ \A i \in 1..n : f[i] = F[<<f[i - 1], i>>]
           Some(n) == \E f : Upto(n, f)
<1>1. Some(0)
  <2> DEFINE f == [k \in 0..0 |-> a]
  <2>1. Upto(0, f)
    OBVIOUS
  <2>2. QED
    BY <2>1
<1>2. ASSUME NEW n \in Nat, n + 1 <= N, Some(n) PROVE Some(n + 1)
  <2>1. n + 1 <= N
    BY <1>2
  <2>2. PICK f : Upto(n, f)
    BY <1>2
  <2> DEFINE x == F[<<f[n], n + 1>>]
             g == [k \in 0..(n + 1) |-> IF k = n + 1 THEN x ELSE f[k]]
  <2>3. f[n] \in S /\ n + 1 \in 1..N
    BY <2>1, <2>2
  <2>4. <<f[n], n + 1>> \in S \X (1..N)
    BY <2>3
  <2>5. x \in S
    BY <2>4
  <2> HIDE DEF x
  <2>6. g \in [0..(n + 1) -> S] /\ g[0] = a
    BY <2>2, <2>5
  <2>7. ASSUME NEW i \in 1..(n + 1) PROVE g[i] = F[<<g[i - 1], i>>]
    <3>1. CASE i = n + 1
      <4>1. g[i] = x /\ i - 1 = n /\ g[i - 1] = f[n]
        BY <3>1
      <4>2. QED
        BY <3>1, <4>1 DEF x
    <3>2. CASE i # n + 1
      <4>1. i \in 1..n /\ g[i] = f[i] /\ g[i - 1] = f[i - 1]
        BY <3>2
      <4>2. QED
        BY <2>2, <4>1
    <3>3. QED
      BY <3>1, <3>2
  <2>8. QED
    BY <2>6, <2>7
<1>3. Some(N)
  <2> HIDE DEF Some
  <2> DEFINE Good == {n \in Nat : n <= N => Some(n)}
  <2>1. 0 \in Good /\ Good \subseteq Nat
    BY <1>1
  <2>2. \A n \in Good : n + 1 \in Good
    BY <1>2
  <2>3. Good = Nat
    <3> HIDE DEF Good
    <3>1. QED
      BY <2>1, <2>2, AllNumbers
  <2>4. QED
    BY <2>3
<1>4. QED
  BY <1>3 DEF Turns

-----------------------------------------------------------------------------
(* Chains *)

\* n chains c hold the nodes of the buckets b.
ChainOK(n, c, b) ==
  /\ c \in [0..(n - 1) -> Seq(Nodes)]
  /\ \A i \in 0..(n - 1) : IsInjective(c[i]) /\ Range(c[i]) = b[i]

\* A flush and a re-indexing take the nodes of all buckets, each once.
LEMMA AllInOrder ==
  ASSUME NEW n \in Nat, NEW c, NEW b, ChainOK(n, c, b),
         \A i, j \in 0..(n - 1) : i # j => b[i] \cap b[j] = {}
  PROVE  /\ InOrder(c, n) \in Seq(Nodes) /\ IsInjective(InOrder(c, n))
         /\ Range(InOrder(c, n)) = NodesIn(b, n)
<1> DEFINE Both(s, t) == s \o t
           F == [x \in Seq(Nodes) \X (1..n) |-> Both(x[1], c[x[2] - 1])]
           Step(g) == [i \in 0..n |-> IF i = 0 THEN <<>> ELSE Both(g[i - 1], c[i - 1])]
           u == CHOOSE g : g = Step(g)
<1>1. \A i \in 1..n : i - 1 \in 0..(n - 1) /\ c[i - 1] \in Seq(Nodes)
  BY DEF ChainOK
<1>2. <<>> \in Seq(Nodes)
  OBVIOUS
<1>3. \A s, t \in Seq(Nodes) : Both(s, t) \in Seq(Nodes)
  BY ConcatProperties
<1>4. InOrder(c, n) = u[n]
  BY DEF InOrder
<1> HIDE DEF Both
<1>5. F \in [Seq(Nodes) \X (1..n) -> Seq(Nodes)]
  BY <1>1, <1>3
<1>6. \A s \in Seq(Nodes), i \in 1..n : F[<<s, i>>] = Both(s, c[i - 1])
  OBVIOUS
<1>7. \E g : g = Step(g)
  <2>1. PICK g : Turns(g, Seq(Nodes), <<>>, n, F)
    <3> HIDE DEF F
    <3>1. QED
      BY <1>2, <1>5, Loop
  <2> HIDE DEF F
  <2>2. ASSUME NEW i \in 1..n PROVE g[i] = Both(g[i - 1], c[i - 1])
    <3>1. i - 1 \in 0..n
      OBVIOUS
    <3>2. g[i - 1] \in Seq(Nodes) /\ g[i] = F[<<g[i - 1], i>>]
      BY <2>1, <3>1 DEF Turns
    <3>3. QED
      BY <1>6, <3>2
  <2>3. \A i \in 0..n : g[i] = IF i = 0 THEN <<>> ELSE Both(g[i - 1], c[i - 1])
    BY <2>1, <2>2 DEF Turns
  <2>4. g = Step(g)
    BY <2>1, <2>3 DEF Turns
  <2>5. QED
    BY <2>4
<1>8. u = Step(u)
  BY <1>7
<1> HIDE DEF u, F
<1>9. \A i \in 0..n : u[i] = IF i = 0 THEN <<>> ELSE Both(u[i - 1], c[i - 1])
  BY <1>8
<1>10. u[0] = <<>> /\ \A i \in 1..n : u[i] = u[i - 1] \o c[i - 1]
  <2>1. u[0] = <<>> /\ \A i \in 1..n : u[i] = Both(u[i - 1], c[i - 1])
    BY <1>9
  <2>2. QED
    BY <2>1, Zenon DEF Both
<1> DEFINE Right(k) == /\ u[k] \in Seq(Nodes) /\ IsInjective(u[k])
                       /\ Range(u[k]) = NodesIn(b, k)
<1>11. Right(0)
  BY <1>2, <1>10 DEF Range, IsInjective, NodesIn
<1>12. ASSUME NEW k \in Nat, k + 1 <= n, Right(k) PROVE Right(k + 1)
  <2>1. k + 1 \in 1..n /\ (k + 1) - 1 = k /\ k \in 0..(n - 1)
    BY <1>12
  <2>2. /\ u[k + 1] = u[k] \o c[k] /\ c[k] \in Seq(Nodes)
        /\ IsInjective(c[k]) /\ Range(c[k]) = b[k]
    BY <1>10, <2>1 DEF ChainOK
  <2>3. NodesIn(b, k) \cap b[k] = {}
    <3>1. \A i \in 0..(k - 1) : i \in 0..(n - 1) /\ i # k
      BY <2>1
    <3>2. QED
      BY <2>1, <3>1 DEF NodesIn
  <2>4. NodesIn(b, k + 1) = NodesIn(b, k) \cup b[k]
    <3>1. 0..((k + 1) - 1) = (0..(k - 1)) \cup {k}
      OBVIOUS
    <3>2. QED
      BY <3>1 DEF NodesIn
  <2>5. QED
    BY <1>12, <2>2, <2>3, <2>4, ConcatRange
<1>13. Right(n)
  <2> HIDE DEF Right
  <2> DEFINE Good == {k \in Nat : k <= n => Right(k)}
  <2>1. 0 \in Good /\ Good \subseteq Nat
    BY <1>11
  <2>2. \A k \in Good : k + 1 \in Good
    BY <1>12
  <2>3. Good = Nat
    <3> HIDE DEF Good
    <3>1. QED
      BY <2>1, <2>2, AllNumbers
  <2>4. QED
    BY <2>3
<1>14. QED
  BY <1>4, <1>13

\* A list with a new first node.
LEMMA PutFirst ==
  ASSUME NEW s \in Seq(Nodes), IsInjective(s), NEW x \in Nodes, x \notin Range(s)
  PROVE  /\ <<x>> \o s \in Seq(Nodes) /\ IsInjective(<<x>> \o s)
         /\ Range(<<x>> \o s) = {x} \cup Range(s)
<1> DEFINE one == <<x>>
<1>1. one \in Seq(Nodes) /\ IsInjective(one) /\ Range(one) = {x}
  BY DEF IsInjective, Range
<1>2. Range(one) \cap Range(s) = {}
  BY <1>1
<1> HIDE DEF one
<1>3. /\ one \o s \in Seq(Nodes) /\ IsInjective(one \o s)
      /\ Range(one \o s) = Range(one) \cup Range(s)
  BY <1>1, <1>2, ConcatRange
<1>4. QED
  BY <1>1, <1>3 DEF one

\* hashmap_reindex_ puts each node into the list of the bucket its key hashes to.
LEMMA AllRedistributed ==
  ASSUME NEW nodes \in Seq(Nodes), IsInjective(nodes), NEW n \in Nat \ {0}, NEW ky,
         \A x \in Range(nodes) : ky[x] \in Keys
  PROVE  ChainOK(n, Redistributed(nodes, ky, n), Rehashed(Range(nodes), ky, n))
<1> DEFINE N == Len(nodes)
           at == [i \in 1..N |-> Slot(Hash[ky[nodes[i]]], n)]
           S == [0..(n - 1) -> Seq(Nodes)]
           First(x, s) == <<x>> \o s
           Put(b, i) == [b EXCEPT ![at[i]] = First(nodes[i], b[at[i]])]
           F == [x \in S \X (1..N) |-> Put(x[1], x[2])]
           Step(g) == [i \in 0..N |-> IF i = 0 THEN EmptyChains(n) ELSE Put(g[i - 1], i)]
           u == CHOOSE g : g = Step(g)
<1>1. /\ N \in Nat /\ DOMAIN nodes = 1..N /\ \A i \in 1..N : nodes[i] \in Nodes
      /\ \A i \in 1..N : nodes[i] \in Range(nodes)
      /\ \A i, j \in 1..N : nodes[i] = nodes[j] => i = j
  BY LenProperties DEF Range, IsInjective
<1>2. \A i \in 1..N : at[i] = Slot(Hash[ky[nodes[i]]], n) /\ at[i] \in 0..(n - 1)
  <2>1. \A i \in 1..N : Hash[ky[nodes[i]]] \in Int
    BY <1>1, HashAssumption
  <2>2. QED
    BY <2>1, SlotInRange
<1>3. Redistributed(nodes, ky, n) = u[N]
  <2> DEFINE Step2(g) ==
               [i \in 0..N |-> IF i = 0 THEN EmptyChains(n)
                               ELSE [g[i - 1] EXCEPT ![Slot(Hash[ky[nodes[i]]], n)] =
                                       <<nodes[i]>> \o @]]
  <2>1. Redistributed(nodes, ky, n) = (CHOOSE g : g = Step2(g))[N]
    BY DEF Redistributed
  <2>2. ASSUME NEW g PROVE Step(g) = Step2(g)
    <3>1. \A i \in 1..N : at[i] = Slot(Hash[ky[nodes[i]]], n)
      BY <1>2
    <3>2. \A i \in 0..N : i = 0 \/ i \in 1..N
      BY <1>1
    <3> HIDE DEF at, N
    <3>3. QED
      BY <3>1, <3>2, Zenon
  <2> HIDE DEF Step, Step2
  <2>3. (CHOOSE g : g = Step(g)) = (CHOOSE g : g = Step2(g))
    BY <2>2
  <2>4. QED
    BY <2>1, <2>3
<1>4. EmptyChains(n) \in S /\ \A i \in 0..(n - 1) : EmptyChains(n)[i] = <<>>
  BY DEF EmptyChains
<1>5. \A x \in Nodes, s \in Seq(Nodes) : First(x, s) \in Seq(Nodes)
  BY ConcatProperties
<1> HIDE DEF First, at, N
<1>6. \A b \in S, i \in 1..N : Put(b, i) \in S
  BY <1>1, <1>2, <1>5
<1>7. \A b \in S, i \in 1..N : \A j \in 0..(n - 1) :
        Put(b, i)[j] = IF j = at[i] THEN First(nodes[i], b[j]) ELSE b[j]
  BY <1>2
<1> HIDE DEF Put, S
<1>8. F \in [S \X (1..N) -> S] /\ \A b \in S, i \in 1..N : F[<<b, i>>] = Put(b, i)
  BY <1>6
<1>9. \E g : g = Step(g)
  <2>1. PICK g : Turns(g, S, EmptyChains(n), N, F)
    <3> HIDE DEF F
    <3>1. QED
      BY <1>1, <1>4, <1>8, Loop
  <2> HIDE DEF F
  <2>2. ASSUME NEW i \in 1..N PROVE g[i] = Put(g[i - 1], i)
    <3>1. i - 1 \in 0..N
      BY <1>1
    <3>2. g[i - 1] \in S /\ g[i] = F[<<g[i - 1], i>>]
      BY <2>1, <3>1 DEF Turns
    <3>3. QED
      BY <1>8, <3>2
  <2>3. \A i \in 0..N : g[i] = IF i = 0 THEN EmptyChains(n) ELSE Put(g[i - 1], i)
    BY <1>1, <2>1, <2>2 DEF Turns
  <2>4. g = Step(g)
    BY <2>1, <2>3 DEF Turns
  <2>5. QED
    BY <2>4
<1>10. u = Step(u)
  BY <1>9
<1> HIDE DEF u, F
<1>11. u[0] = EmptyChains(n) /\ \A i \in 1..N : u[i] = Put(u[i - 1], i)
  <2>1. \A i \in 0..N : u[i] = IF i = 0 THEN EmptyChains(n) ELSE Put(u[i - 1], i)
    BY <1>10
  <2>2. QED
    BY <1>1, <2>1
<1> DEFINE Of(j, k) == {nodes[i] : i \in {h \in 1..k : at[h] = j}}
           Right(k) == /\ u[k] \in S
                       /\ \A j \in 0..(n - 1) : /\ u[k][j] \in Seq(Nodes)
                                                /\ IsInjective(u[k][j])
                                                /\ Range(u[k][j]) = Of(j, k)
<1>12. Right(0)
  <2>1. IsInjective(<<>>) /\ Range(<<>>) = {} /\ <<>> \in Seq(Nodes)
    BY DEF IsInjective, Range
  <2>2. \A j : Of(j, 0) = {}
    OBVIOUS
  <2>3. QED
    BY <1>4, <1>11, <2>1, <2>2
<1>13. ASSUME NEW k \in Nat, k + 1 <= N, Right(k) PROVE Right(k + 1)
  <2>1. k + 1 \in 1..N /\ (k + 1) - 1 = k
    BY <1>1, <1>13
  <2>2. u[k + 1] = Put(u[k], k + 1) /\ u[k] \in S
    BY <1>11, <1>13, <2>1
  <2>3. u[k + 1] \in S
    BY <1>6, <2>1, <2>2
  <2>4. \A h \in 1..k : h \in 1..N /\ h # k + 1
    BY <1>1, <2>1
  <2>5. \A j : Of(j, k + 1) = IF j = at[k + 1] THEN {nodes[k + 1]} \cup Of(j, k) ELSE Of(j, k)
    <3>1. 1..(k + 1) = (1..k) \cup {k + 1}
      OBVIOUS
    <3>2. QED
      BY <3>1
  <2>6. \A j : nodes[k + 1] \notin Of(j, k)
    BY <1>1, <2>1, <2>4
  <2> HIDE DEF Of
  <2>7. ASSUME NEW j \in 0..(n - 1)
        PROVE  /\ u[k + 1][j] \in Seq(Nodes) /\ IsInjective(u[k + 1][j])
               /\ Range(u[k + 1][j]) = Of(j, k + 1)
    <3>1. /\ u[k][j] \in Seq(Nodes) /\ IsInjective(u[k][j]) /\ Range(u[k][j]) = Of(j, k)
      BY <1>13
    <3>2. u[k + 1][j] = IF j = at[k + 1] THEN First(nodes[k + 1], u[k][j]) ELSE u[k][j]
      BY <1>7, <2>1, <2>2
    <3>3. CASE j = at[k + 1]
      <4>1. nodes[k + 1] \in Nodes /\ nodes[k + 1] \notin Range(u[k][j])
        BY <1>1, <2>1, <2>6, <3>1
      <4>2. /\ First(nodes[k + 1], u[k][j]) \in Seq(Nodes)
            /\ IsInjective(First(nodes[k + 1], u[k][j]))
            /\ Range(First(nodes[k + 1], u[k][j])) = {nodes[k + 1]} \cup Of(j, k)
        BY <3>1, <4>1, PutFirst DEF First
      <4>3. QED
        BY <2>5, <3>2, <3>3, <4>2
    <3>4. CASE j # at[k + 1]
      BY <2>5, <3>1, <3>2, <3>4
    <3>5. QED
      BY <3>3, <3>4
  <2>8. QED
    BY <2>3, <2>7
<1>14. Right(N)
  <2> HIDE DEF Right
  <2> DEFINE Good == {k \in Nat : k <= N => Right(k)}
  <2>1. 0 \in Good /\ Good \subseteq Nat
    BY <1>12
  <2>2. \A k \in Good : k + 1 \in Good
    BY <1>1, <1>13
  <2>3. Good = Nat
    <3> HIDE DEF Good
    <3>1. QED
      BY <2>1, <2>2, AllNumbers
  <2>4. QED
    BY <1>1, <2>3
<1>15. \A j \in 0..(n - 1) : Of(j, N) = Rehashed(Range(nodes), ky, n)[j]
  <2>1. Range(nodes) = {nodes[i] : i \in 1..N}
    BY <1>1 DEF Range
  <2>2. \A j \in 0..(n - 1) :
          Rehashed(Range(nodes), ky, n)[j] = {x \in Range(nodes) : Slot(Hash[ky[x]], n) = j}
    BY DEF Rehashed
  <2>3. QED
    BY <1>2, <2>1, <2>2, SMTT(30)
<1>16. QED
  BY <1>3, <1>14, <1>15 DEF ChainOK, S

-----------------------------------------------------------------------------
(* The order of the nodes in a list *)

\* The nodes of list c, but for those lost, are in list d, in the same order.
OrderKept(c, d, lost) ==
  /\ \A x \in Range(c) \ lost : x \in Range(d)
  /\ \A x, y : Before(c, x, y) /\ {x, y} \cap lost = {} => Before(d, x, y)

\* The node of a new key is the last of its list.
LEMMA PutLast ==
  ASSUME NEW s \in Seq(Nodes), IsInjective(s), NEW x \in Nodes, x \notin Range(s)
  PROVE  /\ Append(s, x) \in Seq(Nodes) /\ IsInjective(Append(s, x))
         /\ Range(Append(s, x)) = Range(s) \cup {x}
         /\ OrderKept(s, Append(s, x), {})
<1>1. /\ Append(s, x) \in Seq(Nodes) /\ IsInjective(Append(s, x))
      /\ Range(Append(s, x)) = Range(s) \cup {x}
  BY AppendRange
<1>2. \A i \in 1..Len(s) : Append(s, x)[i] = s[i]
  BY AppendProperties
<1>3. /\ Len(s) \in Nat /\ DOMAIN s = 1..Len(s)
      /\ DOMAIN Append(s, x) = 1..(Len(s) + 1)
  BY <1>1, AppendProperties, LenProperties
<1>4. \A p \in DOMAIN s : p \in DOMAIN Append(s, x) /\ Append(s, x)[p] = s[p]
  BY <1>2, <1>3
<1>5. \A y, z : Before(s, y, z) => Before(Append(s, x), y, z)
  BY <1>4 DEF Before
<1>6. QED
  BY <1>1, <1>5 DEF OrderKept

\* list_unlink_node_ takes one node out of its list and leaves the others in order.
LEMMA Unlinked ==
  ASSUME NEW s \in Seq(Nodes), IsInjective(s), NEW x \in Range(s)
  PROVE  /\ TakenOut(s, x) \in Seq(Nodes) /\ IsInjective(TakenOut(s, x))
         /\ Range(TakenOut(s, x)) = Range(s) \ {x}
         /\ OrderKept(s, TakenOut(s, x), {x})
<1> DEFINE p == CHOOSE q \in DOMAIN s : s[q] = x
           t == SubSeq(s, 1, p - 1)
           u == SubSeq(s, p + 1, Len(s))
           r == TakenOut(s, x)
<1>1. /\ Len(s) \in Nat /\ DOMAIN s = 1..Len(s) /\ \A i \in 1..Len(s) : s[i] \in Nodes
      /\ \A i, j \in 1..Len(s) : s[i] = s[j] => i = j
  BY LenProperties DEF IsInjective
<1>2. p \in 1..Len(s) /\ s[p] = x
  <2>1. \E q \in DOMAIN s : s[q] = x
    BY DEF Range
  <2>2. p \in DOMAIN s /\ s[p] = x
    BY <2>1
  <2>3. QED
    BY <1>1, <2>2
<1>3. r = t \o u
  BY DEF TakenOut, RemoveAt
<1> HIDE DEF p
<1>4. t \in Seq(Nodes) /\ Len(t) = p - 1 /\ \A i \in 1..(p - 1) : t[i] = s[i]
  <2>1. \A i \in 1..(p - 1) : s[i] \in Nodes
    BY <1>1, <1>2
  <2>2. /\ t \in Seq(Nodes)
        /\ Len(t) = IF 1 <= p - 1 THEN (p - 1) - 1 + 1 ELSE 0
        /\ \A i \in 1..((p - 1) - 1 + 1) : t[i] = s[1 + i - 1]
    BY <1>1, <1>2, <2>1, SubSeqProperties
  <2> HIDE DEF t
  <2>3. QED
    BY <1>1, <1>2, <2>2
<1>5. /\ u \in Seq(Nodes) /\ Len(u) = Len(s) - p
      /\ \A i \in 1..(Len(s) - p) : u[i] = s[p + i]
  <2>1. \A i \in (p + 1)..Len(s) : s[i] \in Nodes
    BY <1>1, <1>2
  <2>2. /\ u \in Seq(Nodes)
        /\ Len(u) = IF p + 1 <= Len(s) THEN Len(s) - (p + 1) + 1 ELSE 0
        /\ \A i \in 1..(Len(s) - (p + 1) + 1) : u[i] = s[(p + 1) + i - 1]
    BY <1>1, <1>2, <2>1, SubSeqProperties
  <2> HIDE DEF u
  <2>3. Len(u) = Len(s) - p
    <3>1. Len(u) = IF p + 1 <= Len(s) THEN Len(s) - (p + 1) + 1 ELSE 0
      BY <2>2
    <3>2. p \in Int /\ Len(s) \in Int /\ p <= Len(s)
      BY <1>1, <1>2
    <3>3. QED
      BY <3>1, <3>2
  <2>4. \A i \in 1..(Len(s) - p) :
          i \in 1..(Len(s) - (p + 1) + 1) /\ (p + 1) + i - 1 = p + i
    BY <1>1, <1>2
  <2>5. \A i \in 1..(Len(s) - p) : u[i] = s[p + i]
    BY <2>2, <2>4
  <2>6. QED
    BY <2>2, <2>3, <2>5
<1> HIDE DEF t, u, r
<1>6. /\ r \in Seq(Nodes) /\ Len(r) = Len(s) - 1 /\ DOMAIN r = 1..(Len(s) - 1)
      /\ \A i \in 1..(Len(s) - 1) : r[i] = IF i < p THEN s[i] ELSE s[i + 1]
  <2>1. /\ t \o u \in Seq(Nodes) /\ Len(t \o u) = Len(t) + Len(u)
        /\ \A i \in 1..(Len(t) + Len(u)) :
             (t \o u)[i] = IF i <= Len(t) THEN t[i] ELSE u[i - Len(t)]
    BY <1>4, <1>5, ConcatProperties
  <2>2. /\ r \in Seq(Nodes) /\ Len(r) = Len(s) - 1
        /\ \A i \in 1..(Len(s) - 1) : r[i] = IF i <= p - 1 THEN t[i] ELSE u[i - (p - 1)]
    BY <1>1, <1>2, <1>3, <1>4, <1>5, <2>1
  <2>3. \A i \in 1..(Len(s) - 1) : r[i] = IF i < p THEN s[i] ELSE s[i + 1]
    <3>1. ASSUME NEW i \in 1..(Len(s) - 1), i < p PROVE r[i] = s[i]
      <4>1. i <= p - 1 /\ i \in 1..(p - 1)
        BY <1>1, <1>2, <3>1
      <4>2. QED
        BY <1>4, <2>2, <4>1
    <3>2. ASSUME NEW i \in 1..(Len(s) - 1), ~(i < p) PROVE r[i] = s[i + 1]
      <4>1. ~(i <= p - 1) /\ i - (p - 1) \in 1..(Len(s) - p) /\ p + (i - (p - 1)) = i + 1
        BY <1>1, <1>2, <3>2
      <4>2. QED
        BY <1>5, <2>2, <4>1
    <3>3. QED
      BY <3>1, <3>2
  <2>4. QED
    BY <1>1, <2>2, <2>3, LenProperties
\* Where the nodes that stay are after the removal.
<1> DEFINE to(q) == IF q < p THEN q ELSE q - 1
<1>7. \A q \in 1..Len(s) : q # p => to(q) \in 1..(Len(s) - 1) /\ r[to(q)] = s[q]
  <2>1. ASSUME NEW q \in 1..Len(s), q # p
        PROVE  to(q) \in 1..(Len(s) - 1) /\ r[to(q)] = s[q]
    <3>1. CASE q < p
      BY <1>1, <1>2, <1>6, <3>1
    <3>2. CASE ~(q < p)
      <4>1. to(q) = q - 1 /\ q - 1 \in 1..(Len(s) - 1) /\ ~(q - 1 < p) /\ (q - 1) + 1 = q
        BY <1>1, <1>2, <2>1, <3>2
      <4>2. QED
        BY <1>6, <4>1
    <3>3. QED
      BY <3>1, <3>2
  <2>2. QED
    BY <2>1
<1>8. \A i \in 1..(Len(s) - 1) : \E q \in 1..Len(s) : q # p /\ i = to(q)
  <2>1. ASSUME NEW i \in 1..(Len(s) - 1), i < p PROVE i \in 1..Len(s) /\ i # p /\ i = to(i)
    BY <1>1, <1>2, <2>1
  <2>2. ASSUME NEW i \in 1..(Len(s) - 1), ~(i < p)
        PROVE  i + 1 \in 1..Len(s) /\ i + 1 # p /\ i = to(i + 1)
    BY <1>1, <1>2, <2>2
  <2>3. QED
    BY <2>1, <2>2
<1>9. \A q, h \in 1..Len(s) : q < h /\ q # p /\ h # p => to(q) < to(h)
  BY <1>1, <1>2
<1> HIDE DEF to
<1>10. IsInjective(r)
  <2>1. ASSUME NEW i \in 1..(Len(s) - 1), NEW j \in 1..(Len(s) - 1), r[i] = r[j] PROVE i = j
    <3>1. PICK q \in 1..Len(s) : q # p /\ i = to(q)
      BY <1>8
    <3>2. PICK h \in 1..Len(s) : h # p /\ j = to(h)
      BY <1>8
    <3>3. s[q] = s[h]
      BY <1>7, <2>1, <3>1, <3>2
    <3>4. QED
      BY <1>1, <3>1, <3>2, <3>3
  <2>2. QED
    BY <1>6, <2>1 DEF IsInjective
<1>11. Range(r) = Range(s) \ {x}
  <2>1. ASSUME NEW y \in Range(r) PROVE y \in Range(s) \ {x}
    <3>1. PICK i \in 1..(Len(s) - 1) : y = r[i]
      BY <1>6 DEF Range
    <3>2. PICK q \in 1..Len(s) : q # p /\ i = to(q)
      BY <1>8
    <3>3. y = s[q] /\ s[q] # s[p]
      BY <1>1, <1>2, <1>7, <3>1, <3>2
    <3>4. QED
      BY <1>1, <1>2, <3>3 DEF Range
  <2>2. ASSUME NEW y \in Range(s) \ {x} PROVE y \in Range(r)
    <3>1. PICK q \in 1..Len(s) : y = s[q]
      BY <1>1 DEF Range
    <3>2. q # p
      BY <1>2, <3>1
    <3>3. QED
      BY <1>6, <1>7, <3>1, <3>2 DEF Range
  <2>3. QED
    BY <2>1, <2>2
<1>12. ASSUME NEW y, NEW z, Before(s, y, z), {y, z} \cap {x} = {} PROVE Before(r, y, z)
  <2>1. PICK q \in 1..Len(s), h \in 1..Len(s) : q < h /\ s[q] = y /\ s[h] = z
    BY <1>1, <1>12 DEF Before
  <2>2. q # p /\ h # p
    BY <1>2, <1>12, <2>1
  <2>3. QED
    BY <1>6, <1>7, <1>9, <2>1, <2>2 DEF Before
<1>13. OrderKept(s, r, {x})
  BY <1>11, <1>12 DEF OrderKept
<1>14. QED
  BY <1>6, <1>10, <1>11, <1>13 DEF r
-----------------------------------------------------------------------------
(* The inductive invariant *)

\* The nodes an iteration still comes to, ...
Ahead(n) ==
  \/ \E i \in (idx + 1)..(size[host] - 1) : n \in bucket[host][i]
  \/ Before(chain[host][idx], pos, n)

\* ... and those it has come to or passed.
Behind(n) ==
  \/ \E i \in 0..(idx - 1) : n \in bucket[host][i]
  \/ Before(chain[host][idx], n, pos)
  \/ n = pos

\* A valid index that nobody disturbed is on a node of its bucket; the keys to be
\* visited are ahead of it, those that were visited behind it.
OnCourse ==
  undisturbed /\ IndexValid =>
    /\ root = Root(host, idx) /\ pos \in bucket[host][idx]
    /\ \A k \in pending : \E n \in Nodes : key[n] = k /\ Ahead(n)
    /\ \A k \in visited : \E n \in Nodes : key[n] = k /\ Behind(n)

ChainsOK ==
  /\ chain = [m \in Maps |-> chain[m]]
  /\ \A m \in Maps : ChainOK(size[m], chain[m], bucket[m])

XInv ==
  /\ IInv
  /\ ChainsOK
  /\ host \in Maps \cup {NoMap} /\ idx \in Int /\ (host # NoMap => idx >= 0)
  /\ OnCourse
  /\ NothingMissed

\* A node is in one place only.
LEMMA OnePlace ==
  ASSUME XInv, NEW m \in Maps, NEW i \in 0..(size[m] - 1), NEW n \in bucket[m][i]
  PROVE  /\ n \in Nodes /\ n \in Stored(m) /\ n \notin Range(cache)
         /\ key[n] \in Keys /\ Slot(Hash[key[n]], size[m]) = i
         /\ \A r \in Maps : \A j \in 0..(size[r] - 1) : n \in bucket[r][j] => r = m /\ j = i
<1>1. \A r \in Maps : \A j \in 0..(size[r] - 1) : bucket[r][j] \subseteq Stored(r)
  BY DEF Stored, NodesIn
<1>2. \A r \in Maps : Stored(r) \subseteq Nodes /\ Stored(r) \cap Range(cache) = {}
  BY EachMapOK DEF XInv, IInv, TypeOK
<1>3. \A r, q \in Maps : r # q => Stored(r) \cap Stored(q) = {}
  BY DEF XInv, IInv, NodesPartitioned
<1>4. \A j \in 0..(size[m] - 1) : \A x \in bucket[m][j] :
        key[x] \in Keys /\ Slot(Hash[key[x]], size[m]) = j
  BY DEF XInv, IInv, KeysFindable
<1>5. n \in Stored(m)
  BY <1>1
<1>6. \A r \in Maps : \A j \in 0..(size[r] - 1) : n \in bucket[r][j] => r = m
  BY <1>1, <1>3, <1>5
<1>7. QED
  BY <1>2, <1>4, <1>5, <1>6

\* The list of a bucket has its nodes.
LEMMA ListOfBucket ==
  ASSUME XInv, NEW m \in Maps, NEW i \in 0..(size[m] - 1)
  PROVE  /\ chain[m][i] \in Seq(Nodes) /\ Len(chain[m][i]) \in Nat
         /\ DOMAIN chain[m][i] = 1..Len(chain[m][i])
         /\ \A p \in 1..Len(chain[m][i]) : chain[m][i][p] \in bucket[m][i]
         /\ \A n \in bucket[m][i] : \E p \in 1..Len(chain[m][i]) : n = chain[m][i][p]
         /\ \A p, q \in 1..Len(chain[m][i]) : chain[m][i][p] = chain[m][i][q] => p = q
<1>1. /\ chain[m][i] \in Seq(Nodes) /\ IsInjective(chain[m][i])
      /\ Range(chain[m][i]) = bucket[m][i]
  BY DEF XInv, ChainsOK, ChainOK
<1> DEFINE c == chain[m][i]
<1> HIDE DEF c
<1>2. c \in Seq(Nodes) /\ IsInjective(c) /\ Range(c) = bucket[m][i]
  BY <1>1 DEF c
<1>3. /\ Len(c) \in Nat /\ DOMAIN c = 1..Len(c)
      /\ \A p, q \in 1..Len(c) : c[p] = c[q] => p = q
  BY <1>2, LenProperties DEF IsInjective
<1>4. /\ \A p \in 1..Len(c) : c[p] \in bucket[m][i]
      /\ \A n \in bucket[m][i] : \E p \in 1..Len(c) : n = c[p]
  BY <1>2, <1>3 DEF Range
<1>5. QED
  BY <1>2, <1>3, <1>4 DEF c

\* The ring of a list s with the root o.
LEMMA RingOf ==
  ASSUME NEW s \in Seq(Nodes), NEW o
  PROVE  /\ Len(<<o>> \o s) = Len(s) + 1 /\ DOMAIN (<<o>> \o s) = 1..(Len(s) + 1)
         /\ (<<o>> \o s)[1] = o /\ \A p \in 1..Len(s) : (<<o>> \o s)[p + 1] = s[p]
         /\ Range(<<o>> \o s) = {o} \cup Range(s)
<1> DEFINE S == Nodes \cup {o}
           one == <<o>>
<1>1. one \in Seq(S) /\ Len(one) = 1 /\ one[1] = o
  OBVIOUS
<1>2. s \in Seq(S)
  <2>1. s \in [1..Len(s) -> S] /\ Len(s) \in Nat
    BY LenProperties
  <2> HIDE DEF S
  <2>2. QED
    BY <2>1, SeqDef
<1> HIDE DEF S, one
<1>3. /\ one \o s \in Seq(S) /\ Len(one \o s) = Len(one) + Len(s)
      /\ \A i \in 1..(Len(one) + Len(s)) :
           (one \o s)[i] = IF i <= Len(one) THEN one[i] ELSE s[i - Len(one)]
  BY <1>1, <1>2, ConcatProperties
<1>4. Len(s) \in Nat /\ DOMAIN s = 1..Len(s)
  BY LenProperties
<1>5. Len(one \o s) = Len(s) + 1 /\ DOMAIN (one \o s) = 1..(Len(s) + 1)
  BY <1>1, <1>3, <1>4, LenProperties
<1>6. (one \o s)[1] = o
  BY <1>1, <1>3, <1>4
<1>7. \A p \in 1..Len(s) : (one \o s)[p + 1] = s[p]
  <2>1. ASSUME NEW p \in 1..Len(s) PROVE (one \o s)[p + 1] = s[p]
    <3>1. p + 1 \in 1..(Len(one) + Len(s)) /\ ~(p + 1 <= Len(one)) /\ p + 1 - Len(one) = p
      BY <1>1, <1>4
    <3>2. QED
      BY <1>3, <3>1
  <2>2. QED
    BY <2>1
<1>8. Range(one \o s) = {o} \cup Range(s)
  <2>1. \A i \in 1..(Len(s) + 1) : i = 1 \/ \E p \in 1..Len(s) : i = p + 1
    <3>1. \A i \in 1..(Len(s) + 1) : i = 1 \/ (i - 1 \in 1..Len(s) /\ i = (i - 1) + 1)
      BY <1>4
    <3>2. QED
      BY <3>1
  <2>2. \A p \in 1..Len(s) : p + 1 \in 1..(Len(s) + 1)
    BY <1>4
  <2>3. 1 \in 1..(Len(s) + 1)
    BY <1>4
  <2>4. \A x : x \in Range(one \o s) <=> \E i \in 1..(Len(s) + 1) : x = (one \o s)[i]
    BY <1>5 DEF Range
  <2>5. \A x : x \in Range(s) <=> \E i \in 1..Len(s) : x = s[i]
    BY <1>4 DEF Range
  <2>6. ASSUME NEW x \in Range(one \o s) PROVE x = o \/ x \in Range(s)
    <3>1. PICK i \in 1..(Len(s) + 1) : x = (one \o s)[i]
      BY <2>4
    <3>2. CASE i = 1
      BY <1>6, <3>1, <3>2
    <3>3. CASE \E p \in 1..Len(s) : i = p + 1
      BY <1>7, <2>5, <3>1, <3>3
    <3>4. QED
      BY <2>1, <3>2, <3>3
  <2>7. o \in Range(one \o s)
    BY <1>6, <2>3, <2>4
  <2>8. ASSUME NEW x \in Range(s) PROVE x \in Range(one \o s)
    <3>1. PICK p \in 1..Len(s) : x = s[p]
      BY <2>5
    <3>2. QED
      BY <1>7, <2>2, <2>4, <3>1
  <2>9. QED
    BY <2>6, <2>7, <2>8
<1>9. QED
  BY <1>5, <1>6, <1>7, <1>8 DEF one

\* What follows a node of a bucket: the next one of its list, its root after the last.
LEMMA NextInRing ==
  ASSUME XInv, NEW m \in Maps, NEW i \in 0..(size[m] - 1), NEW p \in 1..Len(chain[m][i])
  PROVE  Following(chain[m][i][p]) = IF p < Len(chain[m][i]) THEN chain[m][i][p + 1]
                                                             ELSE Root(m, i)
<1> DEFINE c == chain[m][i]
           x == c[p]
           ring == <<Root(m, i)>> \o c
<1>1. /\ c \in Seq(Nodes) /\ Len(c) \in Nat /\ \A q \in 1..Len(c) : c[q] \in bucket[m][i]
      /\ \A q, h \in 1..Len(c) : c[q] = c[h] => q = h
  BY ListOfBucket
<1>2. x \in bucket[m][i]
  BY <1>1
<1>3. /\ x \in Nodes /\ x \notin Range(cache)
      /\ \A r \in Maps : \A j \in 0..(size[r] - 1) : x \in bucket[r][j] => r = m /\ j = i
  BY <1>2, OnePlace
<1>4. \A r \in Maps : size[r] \in Nat
  BY DEF XInv, IInv, TypeOK
<1>5. \A r \in Maps : \A j \in 0..(size[r] - 1) :
        /\ chain[r][j] \in Seq(Nodes) /\ Range(chain[r][j]) = bucket[r][j]
        /\ Root(r, j) \notin Nodes
  <2>1. ASSUME NEW r \in Maps, NEW j \in 0..(size[r] - 1) PROVE Root(r, j) \notin Nodes
    <3>1. Root(r, j) \in Maps \X Nat
      BY <1>4 DEF Root
    <3>2. QED
      BY <3>1, RootsAssumption
  <2>2. QED
    BY <2>1 DEF XInv, ChainsOK, ChainOK
<1>6. cache \in Seq(Nodes) /\ CacheRoot \notin Nodes
  BY RootsAssumption DEF XInv, IInv, TypeOK
<1>7. /\ Len(ring) = Len(c) + 1 /\ DOMAIN ring = 1..(Len(c) + 1)
      /\ ring[1] = Root(m, i) /\ \A q \in 1..Len(c) : ring[q + 1] = c[q]
      /\ Range(ring) = {Root(m, i)} \cup Range(c)
  BY <1>1, RingOf
<1>8. ring \in Rings /\ x \in Range(ring)
  <2>1. ring \in Rings
    BY DEF Rings
  <2>2. c[p] \in Range(c)
    BY <1>1, LenProperties DEF Range
  <2>3. QED
    BY <1>7, <2>1, <2>2
<1> HIDE DEF x
<1>9. ASSUME NEW r \in Rings, x \in Range(r) PROVE r = ring
  <2>1. CASE r = <<CacheRoot>> \o cache
    <3>1. Range(r) = {CacheRoot} \cup Range(cache)
      BY <1>6, <2>1, RingOf
    <3>2. QED
      BY <1>3, <1>6, <1>9, <3>1
  <2>2. ASSUME NEW q \in Maps, NEW j \in 0..(size[q] - 1), r = <<Root(q, j)>> \o chain[q][j]
        PROVE  r = ring
    <3>1. Range(r) = {Root(q, j)} \cup Range(chain[q][j])
      BY <1>5, <2>2, RingOf
    <3>2. x \in bucket[q][j]
      BY <1>3, <1>5, <1>9, <3>1
    <3>3. q = m /\ j = i
      BY <1>3, <3>2
    <3>4. QED
      BY <2>2, <3>3
  <2>3. r = <<CacheRoot>> \o cache \/
        \E q \in Maps : \E j \in 0..(size[q] - 1) : r = <<Root(q, j)>> \o chain[q][j]
    BY Zenon DEF Rings
  <2>4. QED
    BY <2>1, <2>2, <2>3
<1>10. (CHOOSE r \in Rings : x \in Range(r)) = ring
  BY <1>8, <1>9
<1> HIDE DEF c, ring
<1>11. ASSUME NEW q \in DOMAIN ring PROVE ring[q] = x <=> q = p + 1
  <2>1. p \in 1..Len(c) /\ ring[p + 1] = x
    BY <1>7 DEF c, x
  <2>2. CASE q = 1
    <3>1. ring[q] = Root(m, i) /\ Root(m, i) \notin Nodes
      BY <1>5, <1>7, <2>2
    <3>2. QED
      BY <1>1, <1>3, <2>1, <2>2, <3>1
  <2>3. CASE q # 1
    <3>1. q - 1 \in 1..Len(c) /\ (q - 1) + 1 = q
      BY <1>1, <1>7, <1>11, <2>3
    <3>2. ring[q] = c[q - 1]
      BY <1>7, <3>1
    <3>3. ring[q] = x => q - 1 = p
      BY <1>1, <2>1, <3>1, <3>2 DEF x, c
    <3>4. QED
      BY <1>1, <2>1, <3>1, <3>3
  <2>4. QED
    BY <2>2, <2>3
<1>12. p + 1 \in DOMAIN ring /\ p \in 1..Len(c)
  BY <1>1, <1>7 DEF c
<1>13. (CHOOSE q \in DOMAIN ring : ring[q] = x) = p + 1
  BY <1>11, <1>12
<1>14. Following(x) = ring[((p + 1) % (Len(c) + 1)) + 1]
  BY <1>7, <1>10, <1>13 DEF Following
<1>15. CASE p < Len(c)
  <2>1. (p + 1) % (Len(c) + 1) = p + 1
    BY <1>1, <1>12, <1>15, Around
  <2>2. p + 1 \in 1..Len(c)
    BY <1>1, <1>12, <1>15
  <2>3. Following(x) = c[p + 1]
    BY <1>7, <1>14, <2>1, <2>2
  <2>4. QED
    BY <1>15, <2>3 DEF c, x
<1>16. CASE ~(p < Len(c))
  <2>1. p = Len(c)
    BY <1>1, <1>12, <1>16
  <2>2. (p + 1) % (Len(c) + 1) = 0
    BY <1>1, <1>12, <2>1, Around
  <2>3. Following(x) = Root(m, i)
    BY <1>7, <1>14, <2>2
  <2>4. QED
    BY <1>16, <2>3 DEF c, x
<1>17. QED
  BY <1>15, <1>16
-----------------------------------------------------------------------------
(* A call between two steps of the iteration *)

\* The other maps keep their lists.
OthersKept(m) ==
  \A r \in Maps \ {m} : /\ size'[r] = size[r] /\ bucket'[r] = bucket[r]
                         /\ chain'[r] = chain[r]

\* A call of map m that takes the nodes `lost`, whose keys are in ks, out of the lists
\* of the map: the other maps keep their lists, and unless the map is re-indexed its
\* lists keep the other nodes in their order.
Leaves(m, lost, ks) ==
  /\ ChainsOK'
  /\ OthersKept(m)
  /\ \A r \in Maps : \A x \in Stored(r) : key'[x] = key[x]
  /\ size'[m] = size[m] =>
       \A i \in 0..(size[m] - 1) : OrderKept(chain[m][i], chain'[m][i], lost)
  /\ \A x \in lost : key[x] \in ks

\* The two nodes that Before relates are nodes of the bucket.
LEMMA BeforeInBucket ==
  ASSUME XInv, NEW m \in Maps, NEW i \in 0..(size[m] - 1), NEW x, NEW y,
         Before(chain[m][i], x, y)
  PROVE  x \in bucket[m][i] /\ y \in bucket[m][i]
<1>1. /\ DOMAIN chain[m][i] = 1..Len(chain[m][i])
      /\ \A p \in 1..Len(chain[m][i]) : chain[m][i][p] \in bucket[m][i]
  BY ListOfBucket
<1>2. QED
  BY <1>1 DEF Before

\* Such a call keeps the invariant: what is ahead of the index stays ahead of it, and
\* what is behind stays behind.
LEMMA CallOnCourse ==
  ASSUME XInv, IInv', NEW m \in Maps, NEW lost, NEW ks, Leaves(m, lost, ks),
         Affected(m, lost, ks)
  PROVE  XInv'
<1>1. host' = host /\ idx' = idx
  BY DEF Affected
<1>2. ASSUME undisturbed', host # NoMap
      PROVE  /\ undisturbed /\ size'[host] = size[host] /\ root' = root /\ pos' = pos
             /\ pending' \subseteq pending /\ visited' \subseteq visited
             /\ host = m => pos \notin lost /\ pending' \cap ks = {} /\ visited' \cap ks = {}
  <2>1. undisturbed /\ (host # m \/ (size'[m] = size[m] /\ pos \notin lost))
    BY <1>2 DEF Affected
  <2>2. host \in Maps
    BY <1>2 DEF XInv
  <2>3. size'[host] = size[host]
    BY <2>1, <2>2 DEF Leaves, OthersKept
  <2>4. root' = root /\ pos' = pos
    BY <2>1 DEF Affected, Reallocated
  <2>5. /\ pending' \subseteq pending /\ visited' \subseteq visited
        /\ host = m => pending' = pending \ ks /\ visited' = visited \ ks
    BY <1>2, <2>1 DEF Affected
  <2>6. QED
    BY <2>1, <2>3, <2>4, <2>5
<1>3. ASSUME undisturbed', IndexValid'
      PROVE  /\ root' = Root(host, idx) /\ pos' \in bucket'[host][idx]
             /\ \A k \in pending' : \E n \in Nodes : key'[n] = k /\ Ahead(n)'
             /\ \A k \in visited' : \E n \in Nodes : key'[n] = k /\ Behind(n)'
  <2>1. /\ host # NoMap /\ host \in Maps /\ undisturbed /\ IndexValid
        /\ size'[host] = size[host] /\ root' = root /\ pos' = pos
        /\ pending' \subseteq pending /\ visited' \subseteq visited
        /\ host = m => pos \notin lost /\ pending' \cap ks = {} /\ visited' \cap ks = {}
    BY <1>1, <1>2, <1>3 DEF IndexValid, XInv
  <2>2. idx \in 0..(size[host] - 1) /\ size[host] \in Nat
    <3>1. size[host] \in Nat
      BY <2>1 DEF XInv, IInv, TypeOK
    <3>2. idx \in Int /\ idx >= 0 /\ idx < size[host]
      BY <2>1 DEF XInv, IndexValid
    <3>3. QED
      BY <3>1, <3>2
  <2>3. /\ root = Root(host, idx) /\ pos \in bucket[host][idx]
        /\ \A k \in pending : \E n \in Nodes : key[n] = k /\ Ahead(n)
        /\ \A k \in visited : \E n \in Nodes : key[n] = k /\ Behind(n)
    BY <2>1 DEF XInv, OnCourse
  <2> DEFINE stays(n) == host = m => n \notin lost
  <2>4. \A i \in 0..(size[host] - 1) : /\ Range(chain[host][i]) = bucket[host][i]
                                       /\ Range(chain'[host][i]) = bucket'[host][i]
    BY <2>1 DEF XInv, Leaves, ChainsOK, ChainOK
  <2>5. \A i \in 0..(size[host] - 1) : \A n \in bucket[host][i] :
          stays(n) => n \in bucket'[host][i]
    <3>1. CASE host = m
      BY <2>1, <2>4, <3>1 DEF Leaves, OrderKept
    <3>2. CASE host # m
      BY <2>1, <3>2 DEF Leaves, OthersKept
    <3>3. QED
      BY <3>1, <3>2
  <2>6. \A x, y : Before(chain[host][idx], x, y) /\ stays(x) /\ stays(y) =>
          Before(chain'[host][idx], x, y)
    <3>1. CASE host = m
      BY <2>1, <2>2, <3>1 DEF Leaves, OrderKept
    <3>2. CASE host # m
      BY <2>1, <3>2 DEF Leaves, OthersKept
    <3>3. QED
      BY <3>1, <3>2
  <2>7. \A i \in 0..(size[host] - 1) : \A n \in bucket[host][i] : key'[n] = key[n]
    BY <2>1, OnePlace DEF Leaves
  <2>8. stays(pos)
    BY <2>1
  <2>9. \A k \in pending' \cup visited' : host = m => k \notin ks
    BY <2>1
  <2> HIDE DEF stays
  <2>10. ASSUME NEW k \in pending' PROVE \E n \in Nodes : key'[n] = k /\ Ahead(n)'
    <3>1. PICK n \in Nodes : key[n] = k /\ Ahead(n)
      BY <2>1, <2>3
    <3>2. stays(n)
      BY <2>9, <3>1 DEF stays, Leaves
    <3>3. CASE \E i \in (idx + 1)..(size[host] - 1) : n \in bucket[host][i]
      <4>1. PICK i \in (idx + 1)..(size[host] - 1) : n \in bucket[host][i]
        BY <3>3
      <4>2. i \in 0..(size[host] - 1)
        BY <2>2
      <4>3. n \in bucket'[host][i] /\ key'[n] = key[n]
        BY <2>5, <2>7, <3>2, <4>1, <4>2
      <4>4. Ahead(n)'
        BY <1>1, <2>1, <4>3 DEF Ahead
      <4>5. QED
        BY <3>1, <4>3, <4>4
    <3>4. CASE Before(chain[host][idx], pos, n)
      <4>1. n \in bucket[host][idx]
        BY <2>1, <2>2, <3>4, BeforeInBucket
      <4>2. Before(chain'[host][idx], pos, n) /\ key'[n] = key[n]
        BY <2>2, <2>6, <2>7, <2>8, <3>2, <3>4, <4>1
      <4>3. Ahead(n)'
        BY <1>1, <2>1, <4>2 DEF Ahead
      <4>4. QED
        BY <3>1, <4>2, <4>3
    <3>5. QED
      BY <3>1, <3>3, <3>4 DEF Ahead
  <2>11. ASSUME NEW k \in visited' PROVE \E n \in Nodes : key'[n] = k /\ Behind(n)'
    <3>1. PICK n \in Nodes : key[n] = k /\ Behind(n)
      BY <2>1, <2>3
    <3>2. stays(n)
      BY <2>9, <3>1 DEF stays, Leaves
    <3>3. CASE \E i \in 0..(idx - 1) : n \in bucket[host][i]
      <4>1. PICK i \in 0..(idx - 1) : n \in bucket[host][i]
        BY <3>3
      <4>2. i \in 0..(size[host] - 1)
        BY <2>2
      <4>3. n \in bucket'[host][i] /\ key'[n] = key[n]
        BY <2>5, <2>7, <3>2, <4>1, <4>2
      <4>4. Behind(n)'
        BY <1>1, <2>1, <4>3 DEF Behind
      <4>5. QED
        BY <3>1, <4>3, <4>4
    <3>4. CASE Before(chain[host][idx], n, pos)
      <4>1. n \in bucket[host][idx]
        BY <2>1, <2>2, <3>4, BeforeInBucket
      <4>2. Before(chain'[host][idx], n, pos) /\ key'[n] = key[n]
        BY <2>2, <2>6, <2>7, <2>8, <3>2, <3>4, <4>1
      <4>3. Behind(n)'
        BY <1>1, <2>1, <4>2 DEF Behind
      <4>4. QED
        BY <3>1, <4>2, <4>3
    <3>5. CASE n = pos
      <4>1. key'[n] = key[n] /\ Behind(n)'
        BY <2>1, <2>2, <2>3, <2>7, <3>5 DEF Behind
      <4>2. QED
        BY <3>1, <4>1
    <3>6. QED
      BY <3>1, <3>3, <3>4, <3>5 DEF Behind
  <2>12. pos' \in bucket'[host][idx]
    BY <2>1, <2>2, <2>3, <2>5, <2>8
  <2>13. QED
    BY <2>1, <2>3, <2>10, <2>11, <2>12
<1>4. OnCourse'
  BY <1>1, <1>3 DEF OnCourse
<1>5. NothingMissed'
  <2>1. ASSUME undisturbed', host' # NoMap, ~IndexValid' PROVE pending' = {}
    <3>1. undisturbed /\ size'[host] = size[host] /\ pending' \subseteq pending
      BY <1>1, <1>2, <2>1
    <3>2. ~IndexValid /\ host # NoMap
      BY <1>1, <2>1, <3>1 DEF IndexValid
    <3>3. pending = {}
      BY <3>1, <3>2 DEF XInv, NothingMissed
    <3>4. QED
      BY <3>1, <3>3
  <2>2. QED
    BY <2>1 DEF NothingMissed
<1>6. QED
  BY <1>1, <1>4, <1>5 DEF XInv, Leaves
-----------------------------------------------------------------------------
(* The calls *)

\* The iteration adds nothing to what the calls do to the maps.
LEMMA IndexStep == IndexNext \/ UNCHANGED indexVars => [Next]_vars
<1>1. ASSUME NEW m \in Maps, NEW a \in InitArgs, Initialize(m, a[1], a[2]) PROVE Next
  BY <1>1 DEF Initialize, Next
<1>2. ASSUME NEW m \in Maps, NEW k \in Keys, Create(m, k) \/ Access(m, k) PROVE Next
  BY <1>2 DEF Create, Access, Next
<1>3. ASSUME NEW m \in Maps, NEW k \in Keys, Take(m, k) PROVE Next
  BY <1>3 DEF Take, Next
<1>4. ASSUME NEW m \in Maps, TakeAll(m) PROVE Next
  BY <1>4 DEF TakeAll, Next
<1>5. ASSUME NEW m \in Maps, Begin(m) PROVE UNCHANGED vars
  BY <1>5 DEF Begin
<1>6. CASE Advance
  BY <1>6 DEF Advance
<1>7. QED
  BY <1>1, <1>2, <1>3, <1>4, <1>5, <1>6 DEF IndexNext, indexVars

\* A re-indexing of n chains to z.
LEMMA Rechained ==
  ASSUME NEW n \in Nat \ {0}, NEW c, NEW b, ChainOK(n, c, b), NEW ky, Placed(b, n, ky),
         NEW z \in Nat \ {0}
  PROVE  ChainOK(z, IF z = n THEN c ELSE Redistributed(InOrder(c, n), ky, z),
                 IF z = n THEN b ELSE Rehashed(NodesIn(b, n), ky, z))
<1>1. \A i, j \in 0..(n - 1) : i # j => b[i] \cap b[j] = {}
  BY DEF Placed
<1>2. /\ InOrder(c, n) \in Seq(Nodes) /\ IsInjective(InOrder(c, n))
      /\ Range(InOrder(c, n)) = NodesIn(b, n)
  BY <1>1, AllInOrder
<1>3. \A x \in NodesIn(b, n) : ky[x] \in Keys
  BY DEF Placed, NodesIn
<1> DEFINE s == InOrder(c, n)
<1>4. s \in Seq(Nodes) /\ IsInjective(s) /\ Range(s) = NodesIn(b, n)
  BY <1>2
<1> HIDE DEF s
<1>5. ChainOK(z, Redistributed(s, ky, z), Rehashed(Range(s), ky, z))
  BY <1>3, <1>4, AllRedistributed
<1>6. ChainOK(z, Redistributed(s, ky, z), Rehashed(NodesIn(b, n), ky, z))
  BY <1>4, <1>5
<1>7. QED
  BY <1>6 DEF s

\* Map m gets an index of z buckets b, and their nodes the order c.
Indexed(m, z, b, c) ==
  /\ size' = [size EXCEPT ![m] = z]
  /\ bucket' = [bucket EXCEPT ![m] = b]
  /\ chain' = [chain EXCEPT ![m] = c]

LEMMA OneIndex ==
  ASSUME XInv, NEW m \in Maps, NEW z, NEW b, NEW c, ChainOK(z, c, b), Indexed(m, z, b, c)
  PROVE  /\ ChainsOK' /\ OthersKept(m)
         /\ size'[m] = z /\ bucket'[m] = b /\ chain'[m] = c
<1>1. /\ size = [r \in Maps |-> size[r]] /\ bucket = [r \in Maps |-> bucket[r]]
      /\ chain = [r \in Maps |-> chain[r]]
      /\ \A r \in Maps : ChainOK(size[r], chain[r], bucket[r])
  BY DEF XInv, IInv, TypeOK, ChainsOK
<1>2. /\ size'[m] = z /\ bucket'[m] = b /\ chain'[m] = c
      /\ \A r \in Maps \ {m} : /\ size'[r] = size[r] /\ bucket'[r] = bucket[r]
                               /\ chain'[r] = chain[r]
  BY <1>1 DEF Indexed
<1>3. chain' = [r \in Maps |-> chain'[r]]
  BY <1>1 DEF Indexed
<1>4. \A r \in Maps : ChainOK(size'[r], chain'[r], bucket'[r])
  BY <1>1, <1>2
<1>5. QED
  BY <1>2, <1>3, <1>4 DEF ChainsOK, OthersKept

\* Another bucket of the same index is left alone.
LEMMA SameOrder == ASSUME NEW s PROVE OrderKept(s, s, {})
BY DEF OrderKept

\* A new key: its node is the last of its bucket, or where the re-indexing puts it.
LEMMA CreateOnCourse ==
  ASSUME XInv, IInv', NEW m \in Maps, NEW k \in Keys, Create(m, k)
  PROVE  XInv'
<1> DEFINE s == Slot(Hash[k], size[m])
<1>1. /\ size[m] > 0 /\ Located(m, k) = {}
      /\ Rechain(m, [chain[m] EXCEPT ![s] = Append(@, NewNode)])
      /\ Affected(m, {}, {})
  BY DEF Create
<1>2. PICK x \in Nodes : CreateNode(m, k, x)
  BY <1>1 DEF Create, Get, Set, SetDefault
<1>3. IInv /\ val' \in [Nodes -> Contents] /\ ret' \in Contents \cup {Absent}
  BY DEF XInv, IInv, TypeOK
<1>4. Created(m, k, x)
  BY <1>1, <1>2, <1>3, CreateKeeps
<1>5. NewNode = x
  <2>1. TakeNode(x)
    BY <1>2 DEF CreateNode
  <2>2. CASE cache # <<>>
    BY <2>1, <2>2 DEF TakeNode, NewNode
  <2>3. CASE cache = <<>>
    <3>1. x \notin heap /\ heap' = heap \cup {x}
      BY <2>1, <2>3 DEF TakeNode
    <3>2. (CHOOSE n \in heap' : n \notin heap) = x
      BY <3>1
    <3>3. QED
      BY <2>3, <3>2 DEF NewNode
  <2>4. QED
    BY <2>2, <2>3
<1> DEFINE b == [bucket[m] EXCEPT ![s] = @ \cup {x}]
           c == [chain[m] EXCEPT ![s] = Append(@, x)]
           z == IndexSize(size[m], items[m] + 1, limits[m])
           bz == IF z = size[m] THEN b ELSE Rehashed(NodesIn(b, size[m]), key', z)
           cz == IF z = size[m] THEN c ELSE Redistributed(InOrder(c, size[m]), key', z)
<1>6. /\ size' = [size EXCEPT ![m] = z] /\ bucket' = [bucket EXCEPT ![m] = bz]
      /\ key' = [key EXCEPT ![x] = k]
  BY <1>2 DEF CreateNode, ChangeItemCnt
<1>7. size'[m] = z
  BY <1>6 DEF XInv, IInv, TypeOK
<1>8. chain' = [chain EXCEPT ![m] = cz]
  BY <1>1, <1>5, <1>7 DEF Rechain
<1>9. /\ size[m] \in Nat \ {0} /\ items[m] \in Int /\ limits[m] \in Int \X Int
      /\ Limited(size[m], limits[m])
      /\ bucket[m] \in [0..(size[m] - 1) -> SUBSET Nodes]
      /\ key \in [Nodes -> Keys \cup {Void}]
  BY <1>1 DEF XInv, IInv, TypeOK, IndexWithinLimits, Limited
<1>10. z \in Nat \ {0}
  BY <1>1, <1>9, IndexSizeBounds DEF Limited
<1>11. s \in 0..(size[m] - 1)
  BY <1>9, HashAssumption, SlotInRange
<1>12. \A i \in 0..(size[m] - 1) : x \notin bucket[m][i]
  BY <1>4 DEF Created, Stored, NodesIn
<1>13. /\ \A i \in 0..(size[m] - 1) :
            c[i] = IF i = s THEN Append(chain[m][i], x) ELSE chain[m][i]
       /\ \A i \in 0..(size[m] - 1) : b[i] = IF i = s THEN bucket[m][i] \cup {x} ELSE bucket[m][i]
       /\ DOMAIN c = 0..(size[m] - 1) /\ c = [i \in 0..(size[m] - 1) |-> c[i]]
  BY <1>9, <1>11 DEF XInv, ChainsOK, ChainOK
<1> HIDE DEF s, b, c, z, bz, cz
<1>14. \A i \in 0..(size[m] - 1) :
         /\ chain[m][i] \in Seq(Nodes) /\ IsInjective(chain[m][i])
         /\ Range(chain[m][i]) = bucket[m][i]
  BY DEF XInv, ChainsOK, ChainOK
<1>15. ASSUME NEW i \in 0..(size[m] - 1)
       PROVE  /\ c[i] \in Seq(Nodes) /\ IsInjective(c[i]) /\ Range(c[i]) = b[i]
              /\ OrderKept(chain[m][i], c[i], {})
  <2>1. CASE i = s
    <3> DEFINE t == chain[m][i]
    <3>1. t \in Seq(Nodes) /\ IsInjective(t) /\ Range(t) = bucket[m][i] /\ x \notin Range(t)
      BY <1>12, <1>14
    <3>2. c[i] = Append(t, x) /\ b[i] = Range(t) \cup {x}
      BY <1>13, <2>1, <3>1
    <3> HIDE DEF t
    <3>3. /\ Append(t, x) \in Seq(Nodes) /\ IsInjective(Append(t, x))
          /\ Range(Append(t, x)) = Range(t) \cup {x}
          /\ OrderKept(t, Append(t, x), {})
      BY <3>1, PutLast
    <3>4. QED
      BY <3>2, <3>3 DEF t
  <2>2. CASE i # s
    BY <1>13, <1>14, <2>2, SameOrder
  <2>3. QED
    BY <2>1, <2>2
<1>16. ChainOK(size[m], c, b)
  BY <1>13, <1>15 DEF ChainOK
<1>17. Placed(b, size[m], key')
  <2>1. ASSUME NEW i \in 0..(size[m] - 1), NEW y \in b[i]
        PROVE  key'[y] \in Keys /\ Slot(Hash[key'[y]], size[m]) = i
    <3>1. CASE y = x
      BY <1>6, <1>9, <1>12, <1>13, <2>1, <3>1 DEF s
    <3>2. CASE y # x
      <4>1. y \in bucket[m][i]
        BY <1>13, <3>2
      <4>2. key'[y] = key[y] /\ key[y] \in Keys /\ Slot(Hash[key[y]], size[m]) = i
        BY <1>6, <1>9, <3>2, <4>1, OnePlace
      <4>3. QED
        BY <4>2
    <3>3. QED
      BY <3>1, <3>2
  <2>2. QED
    BY <2>1 DEF Placed
<1>18. ChainOK(z, cz, bz)
  BY <1>9, <1>10, <1>16, <1>17, Rechained DEF bz, cz
<1>19. ChainsOK' /\ OthersKept(m) /\ chain'[m] = cz
  <2>1. Indexed(m, z, bz, cz)
    BY <1>6, <1>8 DEF Indexed
  <2>2. QED
    BY <1>18, <2>1, OneIndex
<1>20. \A r \in Maps : \A y \in Stored(r) : key'[y] = key[y]
  BY <1>4, <1>6, <1>9, EachMapOK DEF XInv, Created, IInv, TypeOK
<1>21. size'[m] = size[m] =>
         \A i \in 0..(size[m] - 1) : OrderKept(chain[m][i], chain'[m][i], {})
  BY <1>7, <1>15, <1>19 DEF cz
<1>22. Leaves(m, {}, {})
  BY <1>19, <1>20, <1>21 DEF Leaves
<1>23. QED
  BY <1>1, <1>22, CallOnCourse

\* A removed key: its node leaves the list of its bucket.
LEMMA TakeOnCourse ==
  ASSUME XInv, IInv', NEW m \in Maps, NEW k \in Keys, Take(m, k)
  PROVE  XInv'
<1> DEFINE s == Slot(Hash[k], size[m])
           x == Node(m, k)
           b == [bucket[m] EXCEPT ![s] = @ \ {x}]
           c == [chain[m] EXCEPT ![s] = TakenOut(@, x)]
           z == IndexSize(size[m], items[m] - 1, limits[m])
           bz == IF z = size[m] THEN b ELSE Rehashed(NodesIn(b, size[m]), key, z)
           cz == IF z = size[m] THEN c ELSE Redistributed(InOrder(c, size[m]), key, z)
<1>1. /\ size[m] > 0 /\ Located(m, k) # {} /\ Unset(m, k)
      /\ Rechain(m, c) /\ Affected(m, {x}, {k})
  BY DEF Take
<1>2. /\ size' = [size EXCEPT ![m] = z] /\ bucket' = [bucket EXCEPT ![m] = bz]
      /\ key' = key
  BY <1>1 DEF Unset, ChangeItemCnt
<1>3. size'[m] = z
  BY <1>2 DEF XInv, IInv, TypeOK
<1>4. chain' = [chain EXCEPT ![m] = cz]
  <2>1. /\ key' = key /\ size'[m] = z
        /\ chain' = [chain EXCEPT ![m] = IF size'[m] = size[m] THEN c
                                         ELSE Redistributed(InOrder(c, size[m]), key', size'[m])]
    BY <1>1, <1>2, <1>3 DEF Rechain
  <2>2. cz = IF z = size[m] THEN c ELSE Redistributed(InOrder(c, size[m]), key, z)
    OBVIOUS
  <2> HIDE DEF c, z, cz
  <2>3. QED
    BY <2>1, <2>2
<1>5. /\ size[m] \in Nat \ {0} /\ items[m] \in Int /\ limits[m] \in Int \X Int
      /\ Limited(size[m], limits[m])
      /\ bucket[m] \in [0..(size[m] - 1) -> SUBSET Nodes]
  BY <1>1 DEF XInv, IInv, TypeOK, IndexWithinLimits, Limited
<1>6. z \in Nat \ {0}
  BY <1>1, <1>5, IndexSizeBounds DEF Limited
<1>7. s \in 0..(size[m] - 1) /\ x \in bucket[m][s] /\ key[x] = k
  <2>1. s \in 0..(size[m] - 1) /\ x \in bucket[m][s]
    BY <1>1, LookupInIndex DEF XInv
  <2>2. x \in Located(m, k)
    BY <1>1 DEF Node, Only
  <2>3. QED
    BY <2>1, <2>2 DEF Located
<1>8. /\ \A i \in 0..(size[m] - 1) :
            c[i] = IF i = s THEN TakenOut(chain[m][i], x) ELSE chain[m][i]
      /\ \A i \in 0..(size[m] - 1) : b[i] = IF i = s THEN bucket[m][i] \ {x} ELSE bucket[m][i]
      /\ DOMAIN c = 0..(size[m] - 1) /\ c = [i \in 0..(size[m] - 1) |-> c[i]]
  BY <1>5, <1>7 DEF XInv, ChainsOK, ChainOK
<1> HIDE DEF s, x, b, c, z, bz, cz
<1>9. \A i \in 0..(size[m] - 1) :
         /\ chain[m][i] \in Seq(Nodes) /\ IsInjective(chain[m][i])
         /\ Range(chain[m][i]) = bucket[m][i]
  BY DEF XInv, ChainsOK, ChainOK
<1>10. ASSUME NEW i \in 0..(size[m] - 1)
       PROVE  /\ c[i] \in Seq(Nodes) /\ IsInjective(c[i]) /\ Range(c[i]) = b[i]
              /\ OrderKept(chain[m][i], c[i], {x})
  <2>1. CASE i = s
    <3> DEFINE t == chain[m][i]
    <3>1. t \in Seq(Nodes) /\ IsInjective(t) /\ Range(t) = bucket[m][i] /\ x \in Range(t)
      BY <1>7, <1>9, <2>1
    <3>2. c[i] = TakenOut(t, x) /\ b[i] = Range(t) \ {x}
      BY <1>8, <2>1, <3>1
    <3> HIDE DEF t
    <3>3. /\ TakenOut(t, x) \in Seq(Nodes) /\ IsInjective(TakenOut(t, x))
          /\ Range(TakenOut(t, x)) = Range(t) \ {x}
          /\ OrderKept(t, TakenOut(t, x), {x})
      BY <3>1, Unlinked
    <3>4. QED
      BY <3>2, <3>3 DEF t
  <2>2. CASE i # s
    <3>1. OrderKept(chain[m][i], chain[m][i], {x})
      BY DEF OrderKept
    <3>2. QED
      BY <1>8, <1>9, <2>2, <3>1
  <2>3. QED
    BY <2>1, <2>2
<1>11. ChainOK(size[m], c, b)
  BY <1>8, <1>10 DEF ChainOK
<1>12. Placed(b, size[m], key)
  <2>1. \A i \in 0..(size[m] - 1) : b[i] \subseteq bucket[m][i]
    BY <1>8
  <2>2. QED
    BY <2>1, OnePlace DEF Placed
<1>13. ChainOK(z, cz, bz)
  BY <1>5, <1>6, <1>11, <1>12, Rechained DEF bz, cz
<1>14. ChainsOK' /\ OthersKept(m) /\ chain'[m] = cz
  <2>1. Indexed(m, z, bz, cz)
    BY <1>2, <1>4 DEF Indexed
  <2>2. QED
    BY <1>13, <2>1, OneIndex
<1>15. size'[m] = size[m] =>
         \A i \in 0..(size[m] - 1) : OrderKept(chain[m][i], chain'[m][i], {x})
  BY <1>3, <1>10, <1>14 DEF cz
<1>16. Leaves(m, {x}, {k})
  BY <1>2, <1>7, <1>14, <1>15 DEF Leaves
<1>17. QED
  BY <1>1, <1>16, CallOnCourse DEF x

\* The chains of an index that has just been emptied.
LEMMA NothingChained == ASSUME NEW n \in Nat PROVE ChainOK(n, EmptyChains(n), EmptyIndex(n))
<1>1. <<>> \in Seq(Nodes) /\ IsInjective(<<>>) /\ Range(<<>>) = {}
  BY DEF IsInjective, Range
<1>2. QED
  BY <1>1 DEF ChainOK, EmptyChains, EmptyIndex

\* A flush takes all nodes out of the lists of the map.
LEMMA FlushLeaves ==
  ASSUME XInv, NEW m \in Maps, NEW n \in Nat, Flush(m, n), key' = key,
         chain' = [chain EXCEPT ![m] = EmptyChains(n)]
  PROVE  Leaves(m, Stored(m), Keys)
<1>1. ChainsOK' /\ OthersKept(m)
  <2>1. Indexed(m, n, EmptyIndex(n), EmptyChains(n))
    BY DEF Indexed, Flush
  <2>2. QED
    BY <2>1, NothingChained, OneIndex
<1>2. \A i \in 0..(size[m] - 1) : OrderKept(chain[m][i], chain'[m][i], Stored(m))
  <2>1. ASSUME NEW i \in 0..(size[m] - 1) PROVE OrderKept(chain[m][i], chain'[m][i], Stored(m))
    <3>1. Range(chain[m][i]) = bucket[m][i]
      BY DEF XInv, ChainsOK, ChainOK
    <3>2. Range(chain[m][i]) \subseteq Stored(m)
      BY <3>1 DEF Stored, NodesIn
    <3>3. \A x, y : Before(chain[m][i], x, y) => x \in Stored(m)
      BY <3>2 DEF Before, Range
    <3>4. QED
      BY <3>2, <3>3 DEF OrderKept
  <2>2. QED
    BY <2>1
<1>3. \A x \in Stored(m) : key[x] \in Keys
  <2>1. \A x \in Stored(m) : \E i \in 0..(size[m] - 1) : x \in bucket[m][i]
    BY DEF Stored, NodesIn
  <2>2. QED
    BY <2>1, OnePlace
<1>4. QED
  BY <1>1, <1>2, <1>3 DEF Leaves

\* clear
LEMMA TakeAllOnCourse == ASSUME XInv, IInv', NEW m \in Maps, TakeAll(m) PROVE XInv'
<1>1. /\ Flush(m, size[m]) /\ key' = key
      /\ chain' = [chain EXCEPT ![m] = EmptyChains(size[m])]
      /\ Affected(m, Stored(m), Keys)
  BY DEF TakeAll, Clear
<1>2. size[m] \in Nat
  BY DEF XInv, IInv, TypeOK
<1>3. Leaves(m, Stored(m), Keys)
  BY <1>1, <1>2, FlushLeaves
<1>4. QED
  BY <1>1, <1>3, CallOnCourse

\* initialize flushes the map or leaves its lists alone.
LEMMA InitializeOnCourse ==
  ASSUME XInv, IInv', NEW m \in Maps, NEW a \in InitArgs, Initialize(m, a[1], a[2])
  PROVE  XInv'
<1> DEFINE lo == Larger(1, a[1])
<1>1. a[1] \in Int /\ lo \in Nat
  BY InitArgsAssumption DEF Larger
<1>2. /\ key' = key
      /\ \/ size[m] = lo /\ UNCHANGED <<index, cache>>
         \/ size[m] # lo /\ Flush(m, lo)
  BY DEF Initialize, InitSized
<1>3. Flush(m, lo) => size'[m] = lo
  BY DEF Flush, XInv, IInv, TypeOK
<1> HIDE DEF lo
<1>4. CASE size'[m] = size[m]
  <2>1. UNCHANGED index
    BY <1>2, <1>3, <1>4
  <2>2. Affected(m, {}, {}) /\ chain' = chain
    BY <1>4 DEF Initialize
  <2>3. Leaves(m, {}, {})
    BY <1>2, <2>1, <2>2, SameOrder DEF index, Leaves, OthersKept, XInv, ChainsOK
  <2>4. QED
    BY <2>2, <2>3, CallOnCourse
<1>5. CASE size'[m] # size[m]
  <2>1. Flush(m, lo) /\ size'[m] = lo
    BY <1>2, <1>3, <1>5 DEF index
  <2>2. /\ Affected(m, Stored(m), Keys)
        /\ chain' = [chain EXCEPT ![m] = EmptyChains(size'[m])]
    BY <1>5 DEF Initialize
  <2>3. Leaves(m, Stored(m), Keys)
    BY <1>1, <1>2, <2>1, <2>2, FlushLeaves
  <2>4. QED
    BY <2>2, <2>3, CallOnCourse
<1>6. QED
  BY <1>4, <1>5

\* A step that leaves the lists, the keys and the index alone.
LEMMA NoListTouched ==
  ASSUME XInv, IInv', UNCHANGED <<index, key, chain, iterator, progress, undisturbed>>
  PROVE  XInv'
<1>1. /\ size' = size /\ bucket' = bucket /\ key' = key /\ chain' = chain
      /\ host' = host /\ idx' = idx /\ root' = root /\ pos' = pos
      /\ pending' = pending /\ visited' = visited /\ undisturbed' = undisturbed
  BY DEF index, iterator, progress
<1>2. \A n : (Ahead(n)' <=> Ahead(n)) /\ (Behind(n)' <=> Behind(n))
  BY <1>1 DEF Ahead, Behind
<1>3. IndexValid' <=> IndexValid
  BY <1>1 DEF IndexValid
<1>4. OnCourse'
  BY <1>1, <1>2, <1>3 DEF XInv, OnCourse
<1>5. QED
  BY <1>1, <1>3, <1>4 DEF XInv, ChainsOK, NothingMissed

\* A call that finds its key.
LEMMA AccessOnCourse ==
  ASSUME XInv, IInv', NEW m \in Maps, NEW k \in Keys, Access(m, k)
  PROVE  XInv'
<1>1. UNCHANGED <<index, key, chain, iterator, progress, undisturbed>>
  BY DEF Access, Lookup, Get, Set, SetDefault
<1>2. QED
  BY <1>1, NoListTouched
-----------------------------------------------------------------------------
(* The steps of the index *)

\* The search for the next bucket with a node passes empty ones only.
LEMMA SearchFrom ==
  ASSUME XInv, NEW m \in Maps, NEW j \in Nat, BucketFrom(m, j)
  PROVE  /\ idx' \in Nat /\ idx' >= j
         /\ \A i \in j..(size[m] - 1) : i < idx' => chain[m][i] = <<>>
         /\ \/ /\ idx' < size[m] /\ chain[m][idx'] # <<>>
               /\ root' = Root(m, idx') /\ pos' = Head(chain[m][idx'])
            \/ idx' >= size[m] /\ (pos' = root \/ pos' \notin Nodes)
<1> DEFINE filled == {i \in j..(size[m] - 1) : chain[m][i] # <<>>}
           i == CHOOSE i \in filled : \A o \in filled : i <= o
<1>0. \/ /\ filled # {}
         /\ idx' = i /\ root' = Root(m, i) /\ pos' = Head(chain[m][i])
      \/ /\ filled = {} /\ j < size[m]
         /\ idx' = size[m] /\ root' = Root(m, size[m] - 1) /\ pos' = root'
      \/ /\ filled = {} /\ j >= size[m]
         /\ idx' = j /\ pos' = root
  BY Zenon DEF BucketFrom
<1>1. size[m] \in Nat
  BY DEF XInv, IInv, TypeOK
<1>2. CASE filled # {}
  <2>1. filled \subseteq Nat
    OBVIOUS
  <2>2. \E k \in filled : \A o \in filled : k <= o
    <3> HIDE DEF filled
    <3>1. QED
      BY <1>2, <2>1, Least
  <2>3. i \in filled /\ \A o \in filled : i <= o
    <3> HIDE DEF filled
    <3>1. QED
      BY <2>2
  <2>4. idx' = i /\ root' = Root(m, i) /\ pos' = Head(chain[m][i])
    BY <1>0, <1>2, Zenon
  <2> HIDE DEF i
  <2>5. i \in Nat /\ i >= j /\ i < size[m] /\ chain[m][i] # <<>>
    BY <1>1, <2>3
  <2>6. \A k \in j..(size[m] - 1) : k < i => chain[m][k] = <<>>
    <3>1. \A k \in j..(size[m] - 1) : chain[m][k] # <<>> => i <= k
      BY <2>3
    <3>2. QED
      BY <2>5, <3>1
  <2>7. QED
    BY <2>4, <2>5, <2>6
<1>3. CASE filled = {}
  <2>1. \A k \in j..(size[m] - 1) : chain[m][k] = <<>>
    BY <1>3
  <2>2. CASE j < size[m]
    <3>1. idx' = size[m] /\ pos' = Root(m, size[m] - 1)
      <4> HIDE DEF filled, i
      <4>1. ~(j >= size[m])
        BY <1>1, <2>2
      <4>2. QED
        BY <1>0, <1>3, <4>1
    <3>2. Root(m, size[m] - 1) \in Maps \X Nat
      BY <1>1, <2>2 DEF Root
    <3>3. pos' \notin Nodes
      BY <3>1, <3>2, RootsAssumption
    <3>4. QED
      BY <1>1, <2>1, <2>2, <3>1, <3>3
  <2>3. CASE ~(j < size[m])
    <3>1. idx' = j /\ pos' = root
      BY <1>0, <1>3, <2>3, Zenon
    <3>2. QED
      BY <1>1, <2>1, <2>3, <3>1
  <2>4. QED
    BY <2>2, <2>3
<1>4. QED
  BY <1>2, <1>3

\* Where the index is after the search: on the first of the nodes in the buckets from
\* j on, if there is one.
LEMMA Landed ==
  ASSUME XInv, NEW m \in Maps, NEW j \in Nat, BucketFrom(m, j), UNCHANGED <<vars, chain>>,
         host' = m
  PROVE  /\ idx' \in Nat /\ idx' >= j
         /\ IndexValid' => root' = Root(m, idx') /\ pos' \in bucket[m][idx']
         /\ ~IndexValid' => pos' = root \/ pos' \notin Nodes
         /\ \A i \in j..(size[m] - 1) : \A n \in bucket[m][i] :
              IndexValid' /\ (n = pos' \/ Ahead(n)')
<1>1. /\ idx' \in Nat /\ idx' >= j
      /\ \A i \in j..(size[m] - 1) : i < idx' => chain[m][i] = <<>>
      /\ \/ /\ idx' < size[m] /\ chain[m][idx'] # <<>>
            /\ root' = Root(m, idx') /\ pos' = Head(chain[m][idx'])
         \/ idx' >= size[m] /\ (pos' = root \/ pos' \notin Nodes)
  BY SearchFrom
<1>2. size' = size /\ bucket' = bucket /\ chain' = chain /\ size[m] \in Nat
  BY DEF vars, XInv, IInv, TypeOK
<1>3. IndexValid' <=> idx' < size[m]
  BY <1>2, NoMapAssumption DEF IndexValid
<1>4. ASSUME idx' < size[m]
      PROVE  /\ root' = Root(m, idx')
             /\ 1 \in 1..Len(chain[m][idx']) /\ pos' = chain[m][idx'][1]
             /\ pos' \in bucket[m][idx']
  <2>1. idx' \in 0..(size[m] - 1)
    BY <1>1, <1>2, <1>4
  <2>2. /\ chain[m][idx'] # <<>> /\ root' = Root(m, idx')
        /\ pos' = Head(chain[m][idx'])
    BY <1>1, <1>2, <1>4
  <2> DEFINE c == chain[m][idx']
  <2>3. /\ c \in Seq(Nodes) /\ Len(c) \in Nat
        /\ \A p \in 1..Len(c) : c[p] \in bucket[m][idx']
    BY <2>1, ListOfBucket
  <2>4. c # <<>> /\ pos' = Head(c)
    BY <2>2
  <2> HIDE DEF c
  <2>5. 1 \in 1..Len(c) /\ Head(c) = c[1]
    BY <2>3, <2>4, EmptySeq
  <2>6. QED
    BY <2>2, <2>3, <2>4, <2>5 DEF c
<1>5. ASSUME NEW i \in j..(size[m] - 1), NEW n \in bucket[m][i]
      PROVE  IndexValid' /\ (n = pos' \/ Ahead(n)')
  <2>1. i \in 0..(size[m] - 1)
    OBVIOUS
  <2>2. chain[m][i] # <<>>
    <3>1. Range(chain[m][i]) = bucket[m][i]
      BY <2>1 DEF XInv, ChainsOK, ChainOK
    <3>2. Range(<<>>) = {}
      BY DEF Range
    <3>3. QED
      BY <1>5, <3>1, <3>2
  <2>3. idx' <= i /\ idx' < size[m]
    BY <1>1, <1>2, <2>1, <2>2
  <2>4. CASE i = idx'
    <3>2. /\ Len(chain[m][i]) \in Nat /\ DOMAIN chain[m][i] = 1..Len(chain[m][i])
          /\ \A x \in bucket[m][i] : \E p \in 1..Len(chain[m][i]) : x = chain[m][i][p]
      BY <2>1, ListOfBucket
    <3>1. PICK p \in 1..Len(chain[m][i]) : n = chain[m][i][p]
      BY <3>2
    <3>3. 1 \in 1..Len(chain[m][i]) /\ pos' = chain[m][i][1]
      BY <1>4, <2>3, <2>4
    <3>4. CASE p = 1
      BY <1>3, <2>3, <3>1, <3>3, <3>4
    <3>5. CASE p # 1
      <4>1. 1 < p
        BY <3>2, <3>5
      <4>2. Before(chain[m][i], pos', n)
        BY <3>1, <3>2, <3>3, <4>1 DEF Before
      <4>3. Ahead(n)'
        BY <1>2, <2>4, <4>2 DEF Ahead
      <4>4. QED
        BY <1>3, <2>3, <4>3
    <3>6. QED
      BY <3>4, <3>5
  <2>5. CASE i # idx'
    <3>1. i \in (idx' + 1)..(size[m] - 1)
      <4>1. idx' \in Int /\ i \in Int /\ i <= size[m] - 1 /\ idx' <= i /\ i # idx'
        BY <1>1, <1>2, <2>1, <2>3, <2>5
      <4>2. ASSUME NEW a \in Int, NEW b \in Int, NEW c \in Int, a <= b, a # b, b <= c - 1
            PROVE  b \in (a + 1)..(c - 1)
        BY <4>2
      <4>3. size[m] \in Int
        BY <1>2
      <4>4. QED
        BY <4>1, <4>2, <4>3, Zenon
    <3>2. Ahead(n)'
      BY <1>2, <1>5, <3>1 DEF Ahead
    <3>3. QED
      BY <1>3, <2>3, <3>2
  <2>6. QED
    BY <2>4, <2>5
<1>6. IndexValid' => root' = Root(m, idx') /\ pos' \in bucket[m][idx']
  BY <1>3, <1>4
<1>7. ~IndexValid' => pos' = root \/ pos' \notin Nodes
  BY <1>1, <1>3
<1>8. QED
  BY <1>1, <1>5, <1>6, <1>7

\* index(map)
LEMMA BeginOnCourse == ASSUME XInv, IInv', NEW m \in Maps, Begin(m) PROVE XInv'
<1>1. /\ host' = m /\ UNCHANGED <<vars, chain>>
      /\ BucketFrom(m, 0)
      /\ pending' = {key[n] : n \in Stored(m)} \ Seen(pos')
      /\ visited' = Seen(pos')
  BY DEF Begin, NextBucket
<1>2. /\ idx' \in Nat
      /\ IndexValid' => root' = Root(m, idx') /\ pos' \in bucket[m][idx']
      /\ \A i \in 0..(size[m] - 1) : \A n \in bucket[m][i] :
           IndexValid' /\ (n = pos' \/ Ahead(n)')
  BY <1>1, Landed
<1>3. size' = size /\ bucket' = bucket /\ key' = key /\ chain' = chain /\ size[m] \in Nat
  BY <1>1 DEF vars, XInv, IInv, TypeOK
<1>4. ASSUME NEW k \in pending'
      PROVE  IndexValid' /\ \E n \in Nodes : key[n] = k /\ n # pos' /\ Ahead(n)'
  <2>1. PICK n \in Stored(m) : k = key[n]
    BY <1>1, <1>4
  <2>2. PICK i \in 0..(size[m] - 1) : n \in bucket[m][i]
    BY DEF Stored, NodesIn
  <2>3. n \in Nodes
    BY <2>2, OnePlace
  <2>4. n # pos'
    BY <1>1, <1>4, <2>1, <2>3 DEF Seen
  <2>5. QED
    BY <1>2, <2>1, <2>2, <2>3, <2>4
<1>5. ASSUME IndexValid', NEW k \in visited'
      PROVE  \E n \in Nodes : key[n] = k /\ Behind(n)'
  <2>1. idx' \in 0..(size[m] - 1)
    BY <1>1, <1>2, <1>3, <1>5 DEF IndexValid
  <2>2. pos' \in Nodes
    BY <1>2, <1>5, <2>1, OnePlace
  <2>3. k = key[pos']
    BY <1>1, <1>5, <2>2 DEF Seen
  <2>4. Behind(pos)'
    BY DEF Behind
  <2>5. QED
    BY <2>2, <2>3, <2>4 DEF Behind
<1>6. OnCourse'
  BY <1>1, <1>2, <1>3, <1>4, <1>5 DEF OnCourse
<1>7. NothingMissed'
  BY <1>4 DEF NothingMissed
<1>8. ChainsOK'
  BY <1>3 DEF XInv, ChainsOK
<1>9. QED
  BY <1>1, <1>2, <1>6, <1>7, <1>8 DEF XInv

\* A step of an iteration that nobody disturbed: what was ahead is the new place or
\* ahead of it, what was behind is behind it.
LEMMA AdvanceMoves ==
  ASSUME XInv, Advance, undisturbed
  PROVE  /\ idx' \in Nat
         /\ IndexValid' => root' = Root(host, idx') /\ pos' \in bucket[host][idx']
         /\ \A n : Ahead(n) => IndexValid' /\ (n = pos' \/ Ahead(n)')
         /\ \A n : IndexValid' /\ Behind(n) => Behind(n)'
         /\ pos' \in Nodes => IndexValid' /\ Ahead(pos')
<1>1. /\ IndexValid /\ host' = host /\ UNCHANGED <<vars, chain>>
      /\ \/ /\ BucketValid /\ Following(pos) # root
            /\ pos' = Following(pos) /\ idx' = idx /\ root' = root
         \/ BucketValid /\ Following(pos) = root /\ BucketFrom(host, idx + 1)
         \/ pos = root
  BY DEF Advance, NextBucket
<1>2. /\ size' = size /\ bucket' = bucket /\ key' = key /\ chain' = chain
      /\ host \in Maps /\ size[host] \in Nat
  <2>1. host \in Maps
    BY <1>1 DEF IndexValid, XInv
  <2>2. QED
    BY <1>1, <2>1 DEF vars, XInv, IInv, TypeOK
<1>3. idx \in 0..(size[host] - 1) /\ idx \in Nat
  <2>1. idx \in Int /\ idx >= 0 /\ idx < size[host]
    BY <1>1 DEF XInv, IndexValid
  <2>2. QED
    BY <1>2, <2>1
<1>4. root = Root(host, idx) /\ pos \in bucket[host][idx]
  BY <1>1 DEF XInv, OnCourse
<1>5. pos \in Nodes /\ root \notin Nodes
  <2>1. root \in Maps \X Nat
    BY <1>2, <1>3, <1>4 DEF Root
  <2>2. QED
    BY <1>2, <1>3, <1>4, <2>1, OnePlace, RootsAssumption
<1> DEFINE c == chain[host][idx]
<1>6. /\ Len(c) \in Nat /\ DOMAIN c = 1..Len(c)
      /\ \A p \in 1..Len(c) : c[p] \in bucket[host][idx]
      /\ \A n \in bucket[host][idx] : \E p \in 1..Len(c) : n = c[p]
      /\ \A p, q \in 1..Len(c) : c[p] = c[q] => p = q
  BY <1>2, <1>3, ListOfBucket
<1>7. PICK p \in 1..Len(c) : pos = c[p]
  BY <1>4, <1>6
<1>8. Following(pos) = IF p < Len(c) THEN c[p + 1] ELSE root
  BY <1>2, <1>3, <1>4, <1>7, NextInRing
<1>9. c = chain[host][idx]
  OBVIOUS
<1> HIDE DEF c
\* The next node of the list.
<1>10. CASE p < Len(c)
  <2>1. p + 1 \in 1..Len(c) /\ Following(pos) = c[p + 1]
    BY <1>6, <1>8, <1>10
  <2>2. c[p + 1] \in bucket[host][idx] /\ c[p + 1] \in Nodes
    BY <1>2, <1>3, <1>6, <2>1, OnePlace
  <2>3. pos' = c[p + 1] /\ idx' = idx /\ root' = root
    BY <1>1, <1>5, <2>1, <2>2
  <2>4. IndexValid'
    BY <1>1, <1>2, <2>3 DEF IndexValid
  <2>5. ASSUME NEW n, Ahead(n) PROVE n = pos' \/ Ahead(n)'
    <3>1. CASE \E i \in (idx + 1)..(size[host] - 1) : n \in bucket[host][i]
      BY <1>1, <1>2, <2>3, <3>1 DEF Ahead
    <3>2. CASE Before(c, pos, n)
      <4>1. PICK h \in 1..Len(c), q \in 1..Len(c) : h < q /\ c[h] = pos /\ c[q] = n
        BY <1>6, <3>2 DEF Before
      <4>2. h = p
        BY <1>6, <1>7, <4>1
      <4>3. CASE q = p + 1
        BY <2>3, <4>1, <4>3
      <4>4. CASE q # p + 1
        <5>1. p + 1 < q
          BY <1>6, <4>1, <4>2, <4>4
        <5>2. Before(c, pos', n)
          BY <1>6, <2>1, <2>3, <4>1, <5>1 DEF Before
        <5>3. QED
          BY <1>1, <1>2, <1>9, <2>3, <5>2 DEF Ahead
      <4>5. QED
        BY <4>3, <4>4
    <3>3. QED
      BY <1>9, <2>5, <3>1, <3>2 DEF Ahead
  <2>6. ASSUME NEW n, Behind(n) PROVE Behind(n)'
    <3>1. CASE \E i \in 0..(idx - 1) : n \in bucket[host][i]
      BY <1>1, <1>2, <2>3, <3>1 DEF Behind
    <3>2. ASSUME NEW q \in 1..Len(c), c[q] = n, q < p \/ q = p PROVE Behind(n)'
      <4>1. q < p + 1
        BY <1>6, <3>2
      <4>2. Before(c, n, pos')
        BY <1>6, <2>1, <2>3, <3>2, <4>1 DEF Before
      <4>3. QED
        BY <1>1, <1>2, <1>9, <2>3, <4>2 DEF Behind
    <3>3. CASE Before(c, n, pos)
      <4>1. PICK q \in 1..Len(c), h \in 1..Len(c) : q < h /\ c[q] = n /\ c[h] = pos
        BY <1>6, <3>3 DEF Before
      <4>2. h = p
        BY <1>6, <1>7, <4>1
      <4>3. QED
        BY <3>2, <4>1, <4>2
    <3>4. CASE n = pos
      BY <1>7, <3>2, <3>4
    <3>5. QED
      BY <1>9, <2>6, <3>1, <3>3, <3>4 DEF Behind
  <2>7. Ahead(pos')
    <3>1. p < p + 1
      BY <1>6
    <3>2. Before(c, pos, pos')
      BY <1>6, <1>7, <2>1, <2>3, <3>1 DEF Before
    <3>3. QED
      BY <1>9, <3>2 DEF Ahead
  <2>8. QED
    BY <1>3, <1>4, <2>2, <2>3, <2>4, <2>5, <2>6, <2>7
\* The next bucket.
<1>11. CASE ~(p < Len(c))
  <2>1. BucketFrom(host, idx + 1)
    BY <1>1, <1>5, <1>8, <1>11
  <2>2. idx + 1 \in Nat
    BY <1>3
  <2>3. /\ idx' \in Nat /\ idx' >= idx + 1
        /\ IndexValid' => root' = Root(host, idx') /\ pos' \in bucket[host][idx']
        /\ ~IndexValid' => pos' = root \/ pos' \notin Nodes
        /\ \A i \in (idx + 1)..(size[host] - 1) : \A n \in bucket[host][i] :
             IndexValid' /\ (n = pos' \/ Ahead(n)')
    BY <1>1, <1>2, <2>1, <2>2, Landed
  <2>4. ASSUME NEW n, Ahead(n) PROVE IndexValid' /\ (n = pos' \/ Ahead(n)')
    <3>1. CASE \E i \in (idx + 1)..(size[host] - 1) : n \in bucket[host][i]
      BY <2>3, <3>1
    <3>2. ~Before(c, pos, n)
      <4>1. SUFFICES ASSUME Before(c, pos, n) PROVE FALSE
        OBVIOUS
      <4>2. PICK h \in 1..Len(c), q \in 1..Len(c) : h < q /\ c[h] = pos
        BY <1>6, <4>1 DEF Before
      <4>3. h = p
        BY <1>6, <1>7, <4>2
      <4>4. QED
        BY <1>6, <1>11, <4>2, <4>3
    <3>3. QED
      BY <1>9, <2>4, <3>1, <3>2 DEF Ahead
  <2>5. ASSUME NEW n, IndexValid', Behind(n) PROVE Behind(n)'
    <3>1. PICK i \in 0..idx : n \in bucket[host][i]
      <4>1. CASE \E i \in 0..(idx - 1) : n \in bucket[host][i]
        <5>1. PICK i \in 0..(idx - 1) : n \in bucket[host][i]
          BY <4>1
        <5>2. i \in 0..idx
          BY <1>3
        <5>3. QED
          BY <5>1, <5>2
      <4>2. CASE Before(c, n, pos)
        <5>1. n \in bucket[host][idx]
          BY <1>2, <1>3, <1>9, <4>2, BeforeInBucket
        <5>2. QED
          BY <1>3, <5>1
      <4>3. CASE n = pos
        BY <1>3, <1>4, <4>3
      <4>4. QED
        BY <1>9, <2>5, <4>1, <4>2, <4>3 DEF Behind
    <3>2. i \in 0..(idx' - 1)
      <4>1. idx' \in Int /\ idx \in Int /\ idx' >= idx + 1
        BY <1>3, <2>3
      <4>2. ASSUME NEW a \in Int, NEW b \in Int, NEW h \in 0..b, a >= b + 1
            PROVE  h \in 0..(a - 1)
        BY <4>2
      <4>3. QED
        BY <4>1, <4>2, Zenon
    <3>3. QED
      BY <1>1, <1>2, <3>1, <3>2 DEF Behind
  <2>6. ASSUME pos' \in Nodes PROVE IndexValid' /\ Ahead(pos')
    <3>1. IndexValid'
      BY <1>5, <2>3, <2>6
    <3>2. idx' < size[host]
      BY <1>1, <1>2, <3>1 DEF IndexValid
    <3>3. idx' \in (idx + 1)..(size[host] - 1)
      BY <1>2, <1>3, <2>3, <3>2
    <3>4. QED
      BY <2>3, <3>1, <3>3 DEF Ahead
  <2>7. QED
    BY <2>3, <2>4, <2>5, <2>6
<1>12. QED
  BY <1>10, <1>11

\* next(index)
LEMMA AdvanceOnCourse == ASSUME XInv, IInv', Advance PROVE XInv'
<1>1. /\ host' = host /\ UNCHANGED <<vars, chain, undisturbed>> /\ IndexValid
      /\ pending' = pending \ Seen(pos')
      /\ undisturbed => visited' = visited \cup Seen(pos')
  BY DEF Advance
<1>2. /\ size' = size /\ bucket' = bucket /\ key' = key /\ chain' = chain
      /\ host \in Maps /\ idx \in Nat
  <2>1. host \in Maps
    BY <1>1 DEF IndexValid, XInv
  <2>2. QED
    BY <1>1, <2>1, NoMapAssumption DEF vars, XInv
<1>3. ChainsOK'
  BY <1>2 DEF XInv, ChainsOK
<1>4. CASE ~undisturbed
  <2>1. ~undisturbed'
    BY <1>1, <1>4
  <2>2. idx' \in Nat
    <3>1. idx' = idx \/ BucketFrom(host, idx + 1)
      BY DEF Advance, NextBucket
    <3>2. idx + 1 \in Nat
      BY <1>2
    <3>3. QED
      BY <1>2, <3>1, <3>2, SearchFrom
  <2>3. QED
    BY <1>1, <1>2, <1>3, <2>1, <2>2 DEF XInv, OnCourse, NothingMissed
<1>5. CASE undisturbed
  <2>1. /\ idx' \in Nat
        /\ IndexValid' => root' = Root(host, idx') /\ pos' \in bucket[host][idx']
        /\ \A n : Ahead(n) => IndexValid' /\ (n = pos' \/ Ahead(n)')
        /\ \A n : IndexValid' /\ Behind(n) => Behind(n)'
    BY <1>5, AdvanceMoves
  <2>2. /\ \A k \in pending : \E n \in Nodes : key[n] = k /\ Ahead(n)
        /\ \A k \in visited : \E n \in Nodes : key[n] = k /\ Behind(n)
    BY <1>1, <1>5 DEF XInv, OnCourse
  <2>3. ASSUME NEW k \in pending'
        PROVE  IndexValid' /\ \E n \in Nodes : key'[n] = k /\ Ahead(n)'
    <3>1. PICK n \in Nodes : key[n] = k /\ Ahead(n)
      BY <1>1, <2>2, <2>3
    <3>2. n # pos'
      BY <1>1, <2>3, <3>1 DEF Seen
    <3>3. QED
      BY <1>2, <2>1, <3>1, <3>2
  <2>4. ASSUME IndexValid', NEW k \in visited'
        PROVE  \E n \in Nodes : key'[n] = k /\ Behind(n)'
    <3>1. CASE k \in visited
      <4>1. PICK n \in Nodes : key[n] = k /\ Behind(n)
        BY <2>2, <3>1
      <4>2. QED
        BY <1>2, <2>1, <2>4, <4>1
    <3>2. CASE k \in Seen(pos')
      <4>1. pos' \in Nodes /\ k = key[pos']
        BY <3>2 DEF Seen
      <4>2. Behind(pos)'
        BY DEF Behind
      <4>3. QED
        BY <1>2, <4>1, <4>2 DEF Behind
    <3>3. QED
      BY <1>1, <1>5, <2>4, <3>1, <3>2
  <2>5. OnCourse'
    BY <1>1, <1>2, <2>1, <2>3, <2>4 DEF OnCourse
  <2>6. NothingMissed'
    BY <2>3 DEF NothingMissed
  <2>7. QED
    BY <1>1, <1>2, <1>3, <2>1, <2>5, <2>6 DEF XInv
<1>6. QED
  BY <1>4, <1>5

-----------------------------------------------------------------------------
(* The theorems *)

\* Before the first call no map has a bucket, and the index was never set.
LEMMA IndexInitOK == IndexInit => XInv
<1> SUFFICES ASSUME IndexInit PROVE XInv
  OBVIOUS
<1>1. /\ Init /\ chain = [m \in Maps |-> EmptyChains(0)]
      /\ host = NoMap /\ idx = -1
  BY DEF IndexInit
<1>2. IInv
  BY <1>1, InitOK
<1>3. \A m \in Maps : size[m] = 0 /\ bucket[m] = EmptyIndex(0)
  BY <1>1 DEF Init
<1>4. ChainsOK
  <2>1. ChainOK(0, EmptyChains(0), EmptyIndex(0))
    BY NothingChained
  <2>2. \A m \in Maps : chain[m] = EmptyChains(0)
    BY <1>1
  <2>3. chain = [m \in Maps |-> chain[m]]
    BY <1>1
  <2>4. QED
    BY <1>3, <2>1, <2>2, <2>3 DEF ChainsOK
<1>5. ~IndexValid
  BY <1>1 DEF IndexValid
<1>6. QED
  BY <1>1, <1>2, <1>4, <1>5 DEF XInv, OnCourse, NothingMissed

\* Every call and every step of the index keep the invariant.
LEMMA IndexStepKeeps == XInv /\ [IndexNext]_indexVars => XInv'
<1> SUFFICES ASSUME XInv, [IndexNext]_indexVars PROVE XInv'
  OBVIOUS
<1>1. IInv'
  <2>1. IInv
    BY DEF XInv
  <2>2. [Next]_vars
    BY IndexStep
  <2>3. QED
    BY <2>1, <2>2, StepKeeps
<1>2. ASSUME NEW m \in Maps, NEW a \in InitArgs, Initialize(m, a[1], a[2]) PROVE XInv'
  BY <1>1, <1>2, InitializeOnCourse
<1>3. ASSUME NEW m \in Maps, NEW k \in Keys, Create(m, k) PROVE XInv'
  BY <1>1, <1>3, CreateOnCourse
<1>4. ASSUME NEW m \in Maps, NEW k \in Keys, Access(m, k) PROVE XInv'
  BY <1>1, <1>4, AccessOnCourse
<1>5. ASSUME NEW m \in Maps, NEW k \in Keys, Take(m, k) PROVE XInv'
  BY <1>1, <1>5, TakeOnCourse
<1>6. ASSUME NEW m \in Maps, TakeAll(m) PROVE XInv'
  BY <1>1, <1>6, TakeAllOnCourse
<1>7. ASSUME NEW m \in Maps, Begin(m) PROVE XInv'
  BY <1>1, <1>7, BeginOnCourse
<1>8. CASE Advance
  BY <1>1, <1>8, AdvanceOnCourse
<1>9. CASE UNCHANGED indexVars
  BY <1>1, <1>9, NoListTouched DEF indexVars, vars, index
<1>10. QED
  BY <1>2, <1>3, <1>4, <1>5, <1>6, <1>7, <1>8, <1>9 DEF IndexNext

\* The inductive invariant holds throughout every run.
THEOREM IndexInvariance == IndexSpec => []XInv
<1>1. QED
  BY IndexInitOK, IndexStepKeeps, PTL DEF IndexSpec

\* The maps that are iterated over are those of HashMap.tla: with the order of the
\* nodes and an index added to the state every step is a call of theirs or leaves them
\* alone, so that all that is proved of HashMap.tla holds during an iteration too.
THEOREM IteratedMaps == IndexSpec => Spec
<1>1. IndexInit => Init
  BY DEF IndexInit
<1>2. [IndexNext]_indexVars => [Next]_vars
  BY IndexStep
<1>3. QED
  BY <1>1, <1>2, PTL DEF IndexSpec, Spec

\* The lists hold the nodes of the buckets, each once: appending to a list, unlinking a
\* node, flushing and re-indexing bucket by bucket are what HashMap.tla has in sets.
THEOREM ListsHoldBuckets == IndexSpec => []ChainsMatchBuckets
<1>1. XInv => ChainsMatchBuckets
  BY DEF XInv, ChainsOK, ChainOK, ChainsMatchBuckets
<1>2. QED
  BY <1>1, IndexInvariance, PTL

\* The bucket of a valid index, and those before and after it.
LEMMA BucketOfIndex ==
  ASSUME XInv, IndexValid
  PROVE  /\ host \in Maps /\ size[host] \in Nat /\ idx \in Nat /\ idx \in 0..(size[host] - 1)
         /\ \A i \in 0..(idx - 1) : i \in 0..(size[host] - 1) /\ i <= idx /\ i # idx
         /\ \A i \in (idx + 1)..(size[host] - 1) :
              i \in 0..(size[host] - 1) /\ i >= idx /\ i # idx
<1>1. host \in Maps /\ idx \in Int /\ idx >= 0 /\ idx < size[host]
  BY DEF IndexValid, XInv
<1>2. size[host] \in Nat
  BY <1>1 DEF XInv, IInv, TypeOK
<1> DEFINE n == size[host]
<1>3. n \in Nat /\ idx \in Int /\ idx >= 0 /\ idx < n
  BY <1>1, <1>2
<1> HIDE DEF n
<1>4. /\ idx \in Nat /\ idx \in 0..(n - 1)
      /\ \A i \in 0..(idx - 1) : i \in 0..(n - 1) /\ i <= idx /\ i # idx
      /\ \A i \in (idx + 1)..(n - 1) : i \in 0..(n - 1) /\ i >= idx /\ i # idx
  BY <1>3
<1>5. QED
  BY <1>1, <1>2, <1>4 DEF n

\* An index that says it is valid is on a node of the bucket it says it is in, whatever
\* was called since, unless its map was re-indexed or its node was removed.
THEOREM IndexPointsToNode == IndexSpec => []ValidIndexOnNode
<1>1. XInv => ValidIndexOnNode
  <2> SUFFICES ASSUME XInv, undisturbed, IndexValid
               PROVE  BucketValid /\ root = Root(host, idx) /\ pos \in bucket[host][idx]
    BY DEF ValidIndexOnNode
  <2>1. root = Root(host, idx) /\ pos \in bucket[host][idx]
    BY DEF XInv, OnCourse
  <2>2. /\ host \in Maps /\ idx \in Nat /\ idx \in 0..(size[host] - 1)
    BY BucketOfIndex
  <2>3. pos \in Nodes
    BY <2>1, <2>2, OnePlace
  <2>4. root \in Maps \X Nat
    BY <2>1, <2>2 DEF Root
  <2>5. pos # Null /\ pos # root
    BY <2>3, <2>4, RootsAssumption
  <2>6. QED
    BY <2>1, <2>5 DEF BucketValid
<1>2. QED
  BY <1>1, IndexInvariance, PTL

\* An iteration that came to its end undisturbed has visited every key that was in the
\* map when it began and was not removed since.
THEOREM IterationComplete == IndexSpec => []NothingMissed
<1>1. XInv => NothingMissed
  BY DEF XInv
<1>2. QED
  BY <1>1, IndexInvariance, PTL

\* What is ahead of the index is not behind it.
LEMMA AheadNotBehind ==
  ASSUME XInv, undisturbed, IndexValid, NEW n, Ahead(n), Behind(n)
  PROVE  FALSE
<1>1. /\ host \in Maps /\ idx \in Int /\ idx \in 0..(size[host] - 1)
      /\ pos \in bucket[host][idx]
  BY BucketOfIndex DEF XInv, OnCourse
<1> DEFINE c == chain[host][idx]
<1>2. /\ Len(c) \in Nat /\ DOMAIN c = 1..Len(c)
      /\ \A p, q \in 1..Len(c) : c[p] = c[q] => p = q
  BY <1>1, ListOfBucket
<1>3. ASSUME Before(c, pos, n) PROVE n \in bucket[host][idx] /\ n # pos /\ ~Before(c, n, pos)
  <2>1. PICK p \in 1..Len(c), q \in 1..Len(c) : p < q /\ c[p] = pos /\ c[q] = n
    BY <1>2, <1>3 DEF Before
  <2>2. n # pos
    BY <1>2, <2>1
  <2>3. ASSUME Before(c, n, pos) PROVE FALSE
    <3>1. PICK h \in 1..Len(c), g \in 1..Len(c) : h < g /\ c[h] = n /\ c[g] = pos
      BY <1>2, <2>3 DEF Before
    <3>2. h = q /\ g = p
      BY <1>2, <2>1, <3>1
    <3>3. QED
      BY <1>2, <2>1, <3>1, <3>2
  <2>4. QED
    BY <1>1, <1>3, <2>2, <2>3, BeforeInBucket
<1>4. Before(c, n, pos) => n \in bucket[host][idx]
  BY <1>1, BeforeInBucket
<1>5. c = chain[host][idx]
  OBVIOUS
<1> HIDE DEF c
\* The number of the bucket n is in, on the one side of the index and on the other.
<1>6. \E i \in 0..(size[host] - 1) :
        n \in bucket[host][i] /\ i >= idx /\ (i = idx => n # pos /\ ~Before(c, n, pos))
  <2>1. CASE \E i \in (idx + 1)..(size[host] - 1) : n \in bucket[host][i]
    <3>1. PICK i \in (idx + 1)..(size[host] - 1) : n \in bucket[host][i]
      BY <2>1
    <3>2. i \in 0..(size[host] - 1) /\ i >= idx /\ i # idx
      BY BucketOfIndex
    <3>3. QED
      BY <3>1, <3>2
  <2>2. CASE Before(c, pos, n)
    BY <1>1, <1>3, <2>2
  <2>3. QED
    BY <1>5, <2>1, <2>2 DEF Ahead
<1>7. \E i \in 0..(size[host] - 1) :
        n \in bucket[host][i] /\ i <= idx /\ (i = idx => n = pos \/ Before(c, n, pos))
  <2>1. CASE \E i \in 0..(idx - 1) : n \in bucket[host][i]
    <3>1. PICK i \in 0..(idx - 1) : n \in bucket[host][i]
      BY <2>1
    <3>2. i \in 0..(size[host] - 1) /\ i <= idx /\ i # idx
      BY BucketOfIndex
    <3>3. QED
      BY <3>1, <3>2
  <2>2. CASE Before(c, n, pos) \/ n = pos
    BY <1>1, <1>4, <2>2
  <2>3. QED
    BY <1>5, <2>1, <2>2 DEF Behind
<1>8. PICK i \in 0..(size[host] - 1) :
        n \in bucket[host][i] /\ i >= idx /\ (i = idx => n # pos /\ ~Before(c, n, pos))
  BY <1>6
<1>9. PICK j \in 0..(size[host] - 1) :
        n \in bucket[host][j] /\ j <= idx /\ (j = idx => n = pos \/ Before(c, n, pos))
  BY <1>7
<1>10. i = j
  BY <1>1, <1>8, <1>9, OnePlace
<1>11. QED
  BY <1>1, <1>8, <1>9, <1>10

\* An undisturbed iteration visits no key twice, even if other keys are removed and
\* created, and their nodes used again, between its steps.
THEOREM NoneVisitedTwice == IndexSpec => NothingTwice
<1> DEFINE Fresh == Advance /\ undisturbed /\ pos' \in Nodes => key[pos'] \notin visited
<1>1. XInv /\ [IndexNext]_indexVars => [Fresh]_indexVars
  <2> SUFFICES ASSUME XInv, Advance, undisturbed, pos' \in Nodes, key[pos'] \in visited
               PROVE  FALSE
    OBVIOUS
  <2>1. IndexValid
    BY DEF Advance
  <2>2. Ahead(pos')
    BY AdvanceMoves
  <2>3. PICK n \in Nodes : key[n] = key[pos'] /\ Behind(n)
    BY <2>1 DEF XInv, OnCourse
  <2>4. /\ host \in Maps /\ idx \in Int /\ idx \in 0..(size[host] - 1)
        /\ pos \in bucket[host][idx]
    BY <2>1, BucketOfIndex DEF XInv, OnCourse
  <2>5. pos' \in Stored(host)
    <3>1. CASE Before(chain[host][idx], pos, pos')
      BY <2>4, <3>1, BeforeInBucket, OnePlace
    <3>2. CASE \E i \in (idx + 1)..(size[host] - 1) : pos' \in bucket[host][i]
      <4>1. PICK i \in (idx + 1)..(size[host] - 1) : pos' \in bucket[host][i]
        BY <3>2
      <4>2. i \in 0..(size[host] - 1)
        BY <2>1, BucketOfIndex
      <4>3. QED
        BY <2>4, <4>1, <4>2, OnePlace
    <3>3. QED
      BY <2>2, <3>1, <3>2 DEF Ahead
  <2>6. n \in Stored(host)
    <3>1. CASE Before(chain[host][idx], n, pos) \/ n = pos
      <4>1. n \in bucket[host][idx]
        BY <2>4, <3>1, BeforeInBucket
      <4>2. QED
        BY <2>4, <4>1, OnePlace
    <3>2. CASE \E i \in 0..(idx - 1) : n \in bucket[host][i]
      <4>1. PICK i \in 0..(idx - 1) : n \in bucket[host][i]
        BY <3>2
      <4>2. i \in 0..(size[host] - 1)
        BY <2>1, BucketOfIndex
      <4>3. QED
        BY <2>4, <4>1, <4>2, OnePlace
    <3>3. QED
      BY <2>3, <3>1, <3>2 DEF Behind
  <2>7. n = pos'
    BY <2>3, <2>4, <2>5, <2>6 DEF XInv, IInv, KeysFindable
  <2>8. QED
    BY <2>1, <2>2, <2>3, <2>7, AheadNotBehind
<1>2. NothingTwice <=> [][Fresh]_indexVars
  BY DEF NothingTwice
<1> HIDE DEF Fresh
<1>3. QED
  BY <1>1, <1>2, IndexInvariance, PTL DEF IndexSpec

=============================================================================
