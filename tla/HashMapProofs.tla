---------------------------- MODULE HashMapProofs ----------------------------
(***************************************************************************)
(* Proofs that the hash maps of HashMap.tla lose no node, find every key   *)
(* and count their items, for any number of maps, keys and nodes, any hash *)
(* function and any limits.                                                *)
(*                                                                         *)
(* None of the four invariants is inductive by itself: a removal keeps the *)
(* count only if a node is in one bucket, which takes the placement by     *)
(* hash; a new node is in no bucket only if the cache and the maps are     *)
(* disjoint; a slot exists only if the index has a bucket.  Their          *)
(* conjunction is.  The lemmas on one index (IndexOK) say what each helper *)
(* of the code does to it; OneMap lifts that to all maps and the cache.    *)
(***************************************************************************)
EXTENDS HashMap, FiniteSetTheorems, SequenceTheorems, TLAPS

-----------------------------------------------------------------------------
(* Sequences of nodes *)

\* A bijection is an injective function, and its values are all of its target.
LEMMA BijectionRange ==
  ASSUME NEW S, NEW T, NEW f \in Bijection(S, T)
  PROVE  /\ f \in [S -> T]
         /\ IsInjective(f)
         /\ Range(f) = T
<1>1. f \in [S -> T] /\ IsInjective(f) /\ \A t \in T : \E x \in S : f[x] = t
  BY DEF Bijection, Injection, Surjection
<1>2. QED
  BY <1>1 DEF Range

\* A node taken from the front of the cache is in the cache no more.
LEMMA HeadTailRange ==
  ASSUME NEW s \in Seq(Nodes), s # <<>>, IsInjective(s)
  PROVE  /\ Head(s) \in Range(s)
         /\ Tail(s) \in Seq(Nodes)
         /\ IsInjective(Tail(s))
         /\ Range(Tail(s)) = Range(s) \ {Head(s)}
<1>1. /\ Len(s) \in Nat \ {0} /\ DOMAIN s = 1..Len(s) /\ Head(s) = s[1]
  BY EmptySeq, LenProperties
<1>2. /\ Tail(s) \in Seq(Nodes)
      /\ Len(Tail(s)) = Len(s) - 1
      /\ \A i \in 1..Len(Tail(s)) : Tail(s)[i] = s[i + 1]
  BY HeadTailProperties
<1>3. DOMAIN Tail(s) = 1..(Len(s) - 1)
  BY <1>2, LenProperties
<1>4. IsInjective(Tail(s))
  BY <1>1, <1>2, <1>3 DEF IsInjective
<1>5. ASSUME NEW x \in Range(s) \ {Head(s)}
      PROVE  x \in Range(Tail(s))
  <2>1. PICK i \in 1..Len(s) : x = s[i]
    BY <1>1 DEF Range
  <2>2. i # 1
    BY <1>1, <2>1
  <2>3. i - 1 \in 1..(Len(s) - 1) /\ Tail(s)[i - 1] = s[i]
    BY <1>1, <1>2, <2>1, <2>2
  <2>4. QED
    BY <1>3, <2>1, <2>3 DEF Range
<1>6. ASSUME NEW x \in Range(Tail(s))
      PROVE  x \in Range(s) \ {Head(s)}
  <2>1. PICK i \in 1..(Len(s) - 1) : x = Tail(s)[i]
    BY <1>3 DEF Range
  <2>2. x = s[i + 1] /\ i + 1 \in 1..Len(s) /\ i + 1 # 1
    BY <1>1, <1>2, <2>1
  <2>3. s[i + 1] # s[1]
    BY <1>1, <2>2 DEF IsInjective
  <2>4. QED
    BY <1>1, <2>2, <2>3 DEF Range
<1>7. Range(Tail(s)) = Range(s) \ {Head(s)}
  BY <1>5, <1>6
<1>8. Head(s) \in Range(s)
  BY <1>1 DEF Range
<1>9. QED
  BY <1>2, <1>4, <1>7, <1>8

\* A node appended to the cache is there once.
LEMMA AppendRange ==
  ASSUME NEW s \in Seq(Nodes), NEW n \in Nodes, IsInjective(s), n \notin Range(s)
  PROVE  /\ Append(s, n) \in Seq(Nodes)
         /\ IsInjective(Append(s, n))
         /\ Range(Append(s, n)) = Range(s) \cup {n}
<1>1. /\ Append(s, n) \in Seq(Nodes)
      /\ Len(Append(s, n)) = Len(s) + 1
      /\ \A i \in 1..Len(s) : Append(s, n)[i] = s[i]
      /\ Append(s, n)[Len(s) + 1] = n
  BY AppendProperties
<1>2. /\ Len(s) \in Nat /\ DOMAIN s = 1..Len(s)
      /\ DOMAIN Append(s, n) = 1..(Len(s) + 1)
  BY <1>1, LenProperties
<1>3. \A i \in 1..Len(s) : s[i] # n
  BY <1>2 DEF Range
<1>4. IsInjective(Append(s, n))
  BY <1>1, <1>2, <1>3 DEF IsInjective
<1>5. Range(Append(s, n)) = Range(s) \cup {n}
  BY <1>1, <1>2 DEF Range
<1>6. QED
  BY <1>1, <1>4, <1>5

\* Two lists of different nodes in one: list_append_list on the cache.
LEMMA ConcatRange ==
  ASSUME NEW s \in Seq(Nodes), NEW t \in Seq(Nodes),
         IsInjective(s), IsInjective(t), Range(s) \cap Range(t) = {}
  PROVE  /\ s \o t \in Seq(Nodes)
         /\ IsInjective(s \o t)
         /\ Range(s \o t) = Range(s) \cup Range(t)
<1>1. /\ s \o t \in Seq(Nodes)
      /\ Len(s \o t) = Len(s) + Len(t)
      /\ \A i \in 1..(Len(s) + Len(t)) :
           (s \o t)[i] = IF i <= Len(s) THEN s[i] ELSE t[i - Len(s)]
  BY ConcatProperties
<1>2. /\ Len(s) \in Nat /\ DOMAIN s = 1..Len(s)
      /\ Len(t) \in Nat /\ DOMAIN t = 1..Len(t)
      /\ DOMAIN (s \o t) = 1..(Len(s) + Len(t))
  BY <1>1, LenProperties
<1>3. \A i \in 1..Len(s), j \in 1..Len(t) : s[i] # t[j]
  BY <1>2 DEF Range
<1>4. ASSUME NEW i \in 1..(Len(s) + Len(t)), NEW j \in 1..(Len(s) + Len(t)), i # j
      PROVE  (s \o t)[i] # (s \o t)[j]
  <2>1. CASE i <= Len(s) /\ j <= Len(s)
    BY <1>1, <1>2, <1>4, <2>1 DEF IsInjective
  <2>2. CASE i <= Len(s) /\ ~(j <= Len(s))
    BY <1>1, <1>2, <1>3, <1>4, <2>2
  <2>3. CASE ~(i <= Len(s)) /\ j <= Len(s)
    BY <1>1, <1>2, <1>3, <1>4, <2>3
  <2>4. CASE ~(i <= Len(s)) /\ ~(j <= Len(s))
    BY <1>1, <1>2, <1>4, <2>4, SMTT(30) DEF IsInjective
  <2>5. QED
    BY <2>1, <2>2, <2>3, <2>4
<1>5. IsInjective(s \o t)
  BY <1>2, <1>4 DEF IsInjective
<1>6. ASSUME NEW x \in Range(s) \cup Range(t)
      PROVE  x \in Range(s \o t)
  <2>1. CASE x \in Range(s)
    BY <1>1, <1>2, <2>1 DEF Range
  <2>2. CASE x \in Range(t)
    <3>1. PICK j \in 1..Len(t) : x = t[j]
      BY <1>2, <2>2 DEF Range
    <3>2. j + Len(s) \in 1..(Len(s) + Len(t)) /\ (s \o t)[j + Len(s)] = t[j]
      BY <1>1, <1>2, <3>1
    <3>3. QED
      BY <1>2, <3>1, <3>2 DEF Range
  <2>3. QED
    BY <2>1, <2>2
<1>7. Range(s \o t) \subseteq Range(s) \cup Range(t)
  BY <1>1, <1>2 DEF Range
<1>8. QED
  BY <1>1, <1>5, <1>6, <1>7

\* The beginning of a sequence.
LEMMA CutElements ==
  ASSUME NEW s \in Seq(Nodes), NEW k \in 0..Len(s)
  PROVE  /\ SubSeq(s, 1, k) \in Seq(Nodes)
         /\ Len(SubSeq(s, 1, k)) = k /\ DOMAIN SubSeq(s, 1, k) = 1..k
         /\ \A i \in 1..k : SubSeq(s, 1, k)[i] = s[i]
<1>1. Len(s) \in Nat /\ DOMAIN s = 1..Len(s) /\ \A i \in 1..Len(s) : s[i] \in Nodes
  BY LenProperties
<1>2. /\ SubSeq(s, 1, k) \in Seq(Nodes)
      /\ Len(SubSeq(s, 1, k)) = k
      /\ \A i \in 1..k : SubSeq(s, 1, k)[i] = s[i]
  <2>1. \A i \in 1..k : s[i] \in Nodes
    BY <1>1
  <2>2. /\ SubSeq(s, 1, k) \in Seq(Nodes)
        /\ Len(SubSeq(s, 1, k)) = IF 1 <= k THEN k - 1 + 1 ELSE 0
        /\ \A i \in 1..(k - 1 + 1) : SubSeq(s, 1, k)[i] = s[1 + i - 1]
    BY <1>1, <2>1, SubSeqProperties
  <2>3. QED
    BY <1>1, <2>2
<1>3. QED
  BY <1>2, LenProperties

\* A sequence and the two parts it is cut into.
LEMMA CutRange ==
  ASSUME NEW s \in Seq(Nodes), IsInjective(s), NEW k \in 0..Len(s)
  PROVE  /\ SubSeq(s, 1, k) \in Seq(Nodes)
         /\ IsInjective(SubSeq(s, 1, k))
         /\ Range(SubSeq(s, 1, k)) \cap {s[i] : i \in (k + 1)..Len(s)} = {}
         /\ Range(SubSeq(s, 1, k)) \cup {s[i] : i \in (k + 1)..Len(s)} = Range(s)
<1>1. Len(s) \in Nat /\ DOMAIN s = 1..Len(s) /\ \A i \in 1..Len(s) : s[i] \in Nodes
  BY LenProperties
<1>2. /\ SubSeq(s, 1, k) \in Seq(Nodes)
      /\ Len(SubSeq(s, 1, k)) = k
      /\ \A i \in 1..k : SubSeq(s, 1, k)[i] = s[i]
  BY <1>1, CutElements
<1>3. DOMAIN SubSeq(s, 1, k) = 1..k
  BY <1>2, LenProperties
<1>4. IsInjective(SubSeq(s, 1, k))
  BY <1>1, <1>2, <1>3 DEF IsInjective
<1>5. Range(SubSeq(s, 1, k)) = {s[i] : i \in 1..k}
  BY <1>2, <1>3 DEF Range
<1>6. Range(s) = {s[i] : i \in 1..Len(s)}
  BY <1>1 DEF Range
<1>7. \A i \in 1..k, j \in (k + 1)..Len(s) : s[i] # s[j]
  BY <1>1 DEF IsInjective
<1>8. {s[i] : i \in 1..k} \cup {s[i] : i \in (k + 1)..Len(s)} = {s[i] : i \in 1..Len(s)}
  BY <1>1
<1>9. {s[i] : i \in 1..k} \cap {s[i] : i \in (k + 1)..Len(s)} = {}
  BY <1>7
<1>10. QED
  BY <1>2, <1>4, <1>5, <1>6, <1>8, <1>9

-----------------------------------------------------------------------------
(* Buckets *)

\* Whatever the sign of the hash, the bucket is one of the index.
LEMMA SlotInRange ==
  ASSUME NEW h \in Int, NEW n \in Nat \ {0}
  PROVE  Slot(h, n) \in 0..(n - 1)
<1>1. CASE h >= 0
  BY <1>1 DEF Slot, FortranMod
<1>2. CASE h < 0
  <2>1. (-h) % n \in 0..(n - 1)
    BY <1>2
  <2>2. QED
    BY <1>2, <2>1 DEF Slot, FortranMod
<1>3. QED
  BY <1>1, <1>2

\* A re-indexing keeps the limits, which initialize made at least one bucket.
LEMMA IndexSizeBounds ==
  ASSUME NEW cur \in Nat \ {0}, NEW cnt \in Int, NEW lim \in Int \X Int,
         1 <= lim[1], lim[1] <= cur, cur <= lim[2]
  PROVE  /\ IndexSize(cur, cnt, lim) \in Nat \ {0}
         /\ lim[1] <= IndexSize(cur, cnt, lim)
         /\ IndexSize(cur, cnt, lim) <= lim[2]
BY DEF IndexSize, Larger, Smaller, Abs

-----------------------------------------------------------------------------
(* One index *)

\* Every node of an index b of n buckets is where its key, in ky, hashes to.
Placed(b, n, ky) ==
  \A i \in 0..(n - 1) : \A x \in b[i] : ky[x] \in Keys /\ Slot(Hash[ky[x]], n) = i

\* No two nodes of S have the same key.
KeysDiffer(S, ky) == \A x, y \in S : ky[x] = ky[y] => x = y

Limited(n, lim) == 1 <= lim[1] /\ (n > 0 => lim[1] <= n /\ n <= lim[2])

\* What holds of one map: it has n buckets b, cnt items and the limits lim.
IndexOK(n, b, cnt, lim, ky) ==
  /\ n \in Nat
  /\ b \in [0..(n - 1) -> SUBSET Nodes]
  /\ lim \in Int \X Int
  /\ Limited(n, lim)
  /\ Placed(b, n, ky)
  /\ KeysDiffer(NodesIn(b, n), ky)
  /\ cnt = Cardinality(NodesIn(b, n))

\* The nodes of an index are nodes, and finitely many.
LEMMA NodesInIndex ==
  ASSUME NEW n \in Nat, NEW b \in [0..(n - 1) -> SUBSET Nodes]
  PROVE  /\ NodesIn(b, n) \subseteq Nodes
         /\ IsFiniteSet(NodesIn(b, n))
         /\ Cardinality(NodesIn(b, n)) \in Nat
<1>1. NodesIn(b, n) \subseteq Nodes
  BY DEF NodesIn
<1>2. IsFiniteSet(NodesIn(b, n))
  BY <1>1, FiniteAssumption, FS_Subset
<1>3. QED
  BY <1>1, <1>2, FS_CardinalityType

\* An index without a node.
LEMMA EmptyOK ==
  ASSUME NEW n \in Nat, NEW lim \in Int \X Int, NEW ky, Limited(n, lim)
  PROVE  /\ IndexOK(n, EmptyIndex(n), 0, lim, ky)
         /\ NodesIn(EmptyIndex(n), n) = {}
<1>1. NodesIn(EmptyIndex(n), n) = {}
  BY DEF NodesIn, EmptyIndex
<1>2. EmptyIndex(n) \in [0..(n - 1) -> SUBSET Nodes]
  BY DEF EmptyIndex
<1>3. Placed(EmptyIndex(n), n, ky)
  BY DEF Placed, EmptyIndex
<1>4. QED
  BY <1>1, <1>2, <1>3, FS_EmptySet DEF IndexOK, KeysDiffer

\* Only the keys of the nodes in the index matter.
LEMMA OtherKeysOK ==
  ASSUME NEW n, NEW b, NEW cnt, NEW lim, NEW ky, NEW kz, IndexOK(n, b, cnt, lim, ky),
         \A x \in NodesIn(b, n) : kz[x] = ky[x]
  PROVE  IndexOK(n, b, cnt, lim, kz)
<1>1. \A i \in 0..(n - 1) : b[i] \subseteq NodesIn(b, n)
  BY DEF NodesIn
<1>2. Placed(b, n, kz)
  BY <1>1 DEF IndexOK, Placed
<1>3. KeysDiffer(NodesIn(b, n), kz)
  BY DEF IndexOK, KeysDiffer
<1>4. QED
  BY <1>2, <1>3 DEF IndexOK

\* Re-indexing loses no node and puts each where a lookup will search for it.
LEMMA ReindexOK ==
  ASSUME NEW n, NEW b, NEW cnt, NEW lim, NEW ky, NEW z, NEW c,
         IndexOK(n, b, cnt, lim, ky), n > 0,
         z = IndexSize(n, cnt, lim),
         c = IF z = n THEN b ELSE Rehashed(NodesIn(b, n), ky, z)
  PROVE  /\ IndexOK(z, c, cnt, lim, ky) /\ z > 0
         /\ NodesIn(c, z) = NodesIn(b, n)
<1>1. /\ n \in Nat \ {0} /\ cnt \in Int
      /\ NodesIn(b, n) \subseteq Nodes
  BY NodesInIndex DEF IndexOK
<1>2. z \in Nat \ {0} /\ z > 0 /\ Limited(z, lim)
  BY <1>1, IndexSizeBounds DEF IndexOK, Limited
<1>3. CASE z = n
  BY <1>3
<1>4. CASE z # n
  <2>1. c = [i \in 0..(z - 1) |-> {x \in NodesIn(b, n) : Slot(Hash[ky[x]], z) = i}]
    BY <1>4 DEF Rehashed
  <2>2. \A x \in NodesIn(b, n) : ky[x] \in Keys /\ Slot(Hash[ky[x]], z) \in 0..(z - 1)
    <3>1. \A x \in NodesIn(b, n) : ky[x] \in Keys
      BY DEF IndexOK, Placed, NodesIn
    <3>2. QED
      BY <1>2, <3>1, HashAssumption, SlotInRange
  <2>3. c \in [0..(z - 1) -> SUBSET Nodes]
    BY <1>1, <2>1
  <2>4. \A i \in 0..(z - 1) : c[i] = {x \in NodesIn(b, n) : Slot(Hash[ky[x]], z) = i}
    BY <2>1
  <2>5. NodesIn(c, z) = NodesIn(b, n)
    <3>1. \A x \in NodesIn(b, n) : x \in c[Slot(Hash[ky[x]], z)]
      BY <2>2, <2>4
    <3>2. \A x \in NodesIn(b, n) : \E i \in 0..(z - 1) : x \in c[i]
      BY <2>2, <3>1
    <3>3. \A i \in 0..(z - 1) : c[i] \subseteq NodesIn(b, n)
      BY <2>4
    <3>4. \A x : x \in NodesIn(c, z) <=> \E i \in 0..(z - 1) : x \in c[i]
      BY DEF NodesIn
    <3>5. QED
      BY <3>2, <3>3, <3>4
  <2>6. Placed(c, z, ky)
    <3>1. \A i \in 0..(z - 1) : \A x \in c[i] :
            x \in NodesIn(b, n) /\ Slot(Hash[ky[x]], z) = i
      BY <2>4
    <3>2. QED
      BY <2>2, <3>1 DEF Placed
  <2>7. QED
    BY <1>2, <2>3, <2>5, <2>6 DEF IndexOK
<1>5. QED
  BY <1>3, <1>4

\* The buckets c and keys kz are the buckets b and keys ky with a node x, which
\* was in no bucket, in the bucket of a key k no node had.
Inserts(n, b, ky, x, k, c, kz) ==
  LET s == Slot(Hash[k], n)
  IN  /\ n > 0
      /\ x \notin NodesIn(b, n)
      /\ \A y \in b[s] : ky[y] # k
      /\ c \in [0..(n - 1) -> SUBSET Nodes]
      /\ c[s] = b[s] \cup {x}
      /\ \A i \in 0..(n - 1) : i # s => c[i] = b[i]
      /\ kz[x] = k
      /\ \A y \in NodesIn(b, n) : kz[y] = ky[y]

\* A node with a new key is put where a lookup will search for it.
LEMMA InsertOK ==
  ASSUME NEW n, NEW b, NEW cnt, NEW lim, NEW ky, NEW x, NEW k \in Keys, NEW c, NEW kz,
         IndexOK(n, b, cnt, lim, ky), Inserts(n, b, ky, x, k, c, kz)
  PROVE  /\ IndexOK(n, c, cnt + 1, lim, kz)
         /\ NodesIn(c, n) = NodesIn(b, n) \cup {x}
<1> DEFINE s == Slot(Hash[k], n)
<1>1. n \in Nat \ {0} /\ b \in [0..(n - 1) -> SUBSET Nodes]
  BY DEF IndexOK, Inserts
<1>2. s \in 0..(n - 1)
  BY <1>1, HashAssumption, SlotInRange
<1>3. /\ c \in [0..(n - 1) -> SUBSET Nodes]
      /\ c[s] = b[s] \cup {x}
      /\ \A i \in 0..(n - 1) : i # s => c[i] = b[i]
      /\ x \notin NodesIn(b, n)
      /\ \A y \in b[s] : ky[y] # k
  BY DEF Inserts
<1>4. NodesIn(c, n) = NodesIn(b, n) \cup {x}
  <2>1. \A i \in 0..(n - 1) : b[i] \subseteq c[i]
    BY <1>3
  <2>2. \A y \in NodesIn(b, n) : \E i \in 0..(n - 1) : y \in b[i]
    BY DEF NodesIn
  <2>3. \A y : (\E i \in 0..(n - 1) : y \in c[i]) => y \in NodesIn(c, n)
    BY DEF NodesIn
  <2>4. NodesIn(b, n) \cup {x} \subseteq NodesIn(c, n)
    BY <1>2, <1>3, <2>1, <2>2, <2>3
  <2>5. NodesIn(c, n) \subseteq NodesIn(b, n) \cup {x}
    BY <1>3 DEF NodesIn
  <2>6. QED
    BY <2>4, <2>5
<1>5. kz[x] = k /\ \A y \in NodesIn(b, n) : kz[y] = ky[y]
  BY DEF Inserts
<1>6. \A i \in 0..(n - 1) : b[i] \subseteq NodesIn(b, n)
  BY DEF NodesIn
<1>7. Placed(c, n, kz)
  <2>1. Placed(b, n, ky)
    BY DEF IndexOK
  <2>2. QED
    BY <1>2, <1>3, <1>5, <1>6, <2>1 DEF Placed
<1>8. KeysDiffer(NodesIn(c, n), kz)
  <2>1. ASSUME NEW y \in NodesIn(b, n)
        PROVE  kz[y] # k
    <3>1. PICK i \in 0..(n - 1) : y \in b[i]
      BY DEF NodesIn
    <3>2. Slot(Hash[ky[y]], n) = i
      BY <3>1 DEF IndexOK, Placed
    <3>3. QED
      BY <1>3, <1>5, <3>1, <3>2
  <2>2. KeysDiffer(NodesIn(b, n), ky)
    BY DEF IndexOK
  <2>3. QED
    BY <1>4, <1>5, <2>1, <2>2 DEF KeysDiffer
<1>9. Cardinality(NodesIn(c, n)) = cnt + 1
  <2>1. IsFiniteSet(NodesIn(b, n))
    BY <1>1, NodesInIndex
  <2>2. Cardinality(NodesIn(b, n) \cup {x}) = Cardinality(NodesIn(b, n)) + 1
    BY <1>3, <2>1, FS_AddElement
  <2>3. QED
    BY <1>4, <2>2 DEF IndexOK
<1>10. QED
  BY <1>3, <1>4, <1>7, <1>8, <1>9 DEF IndexOK

\* A node is taken out of its bucket.
LEMMA RemoveOK ==
  ASSUME NEW n, NEW b, NEW cnt, NEW lim, NEW ky,
         IndexOK(n, b, cnt, lim, ky), n > 0,
         NEW s \in 0..(n - 1), NEW x \in b[s],
         NEW c, c = [b EXCEPT ![s] = @ \ {x}]
  PROVE  /\ IndexOK(n, c, cnt - 1, lim, ky)
         /\ x \in NodesIn(b, n)
         /\ NodesIn(c, n) = NodesIn(b, n) \ {x}
<1>1. n \in Nat \ {0} /\ b \in [0..(n - 1) -> SUBSET Nodes]
  BY DEF IndexOK
<1>2. x \in NodesIn(b, n)
  BY DEF NodesIn
<1>3. /\ c \in [0..(n - 1) -> SUBSET Nodes]
      /\ c[s] = b[s] \ {x}
      /\ \A i \in 0..(n - 1) : i # s => c[i] = b[i]
  BY <1>1
<1>4. \A i \in 0..(n - 1) : x \in b[i] => i = s
  BY DEF IndexOK, Placed
<1>5. \A i \in 0..(n - 1) : c[i] = b[i] \ {x}
  BY <1>3, <1>4
<1>6. NodesIn(c, n) = NodesIn(b, n) \ {x}
  BY <1>5 DEF NodesIn
<1>7. Placed(c, n, ky) /\ KeysDiffer(NodesIn(c, n), ky)
  BY <1>5, <1>6 DEF IndexOK, Placed, KeysDiffer
<1>8. Cardinality(NodesIn(c, n)) = cnt - 1
  <2>1. IsFiniteSet(NodesIn(b, n))
    BY <1>1, NodesInIndex
  <2>2. Cardinality(NodesIn(b, n) \ {x}) = Cardinality(NodesIn(b, n)) - 1
    BY <1>2, <2>1, FS_RemoveElement
  <2>3. QED
    BY <1>6, <2>2 DEF IndexOK
<1>9. QED
  BY <1>2, <1>3, <1>6, <1>7, <1>8 DEF IndexOK

-----------------------------------------------------------------------------
(* The inductive invariant *)

IInv ==
  /\ TypeOK
  /\ IndexWithinLimits
  /\ NodesPartitioned
  /\ KeysFindable
  /\ ItemsCounted

\* The invariant map by map.
LEMMA EachMapOK ==
  ASSUME IInv, NEW m \in Maps
  PROVE  /\ IndexOK(size[m], bucket[m], items[m], limits[m], key)
         /\ Stored(m) = NodesIn(bucket[m], size[m])
         /\ Stored(m) \subseteq heap
         /\ Stored(m) \cap Range(cache) = {}
<1>1. Stored(m) = NodesIn(bucket[m], size[m])
  BY DEF Stored
<1>2. Placed(bucket[m], size[m], key) /\ KeysDiffer(Stored(m), key)
  BY DEF IInv, KeysFindable, Placed, KeysDiffer
<1>3. Limited(size[m], limits[m]) /\ items[m] = Cardinality(Stored(m))
  BY DEF IInv, IndexWithinLimits, ItemsCounted, Limited
<1>4. /\ size[m] \in Nat /\ limits[m] \in Int \X Int
      /\ bucket[m] \in [0..(size[m] - 1) -> SUBSET Nodes]
  BY DEF IInv, TypeOK
<1>5. Stored(m) \subseteq heap /\ Stored(m) \cap Range(cache) = {}
  BY DEF IInv, NodesPartitioned
<1>6. QED
  BY <1>1, <1>2, <1>3, <1>4, <1>5 DEF IndexOK

\* A step that gives map m n buckets b, cnt items and the limits lim, and moves
\* nodes between the map, the cache and the new nodes N, keeps the invariant, and
\* what the other maps store.
LEMMA OneMap ==
  ASSUME IInv, NEW m \in Maps, NEW n, NEW b, NEW cnt, NEW lim, NEW N,
         size' = [size EXCEPT ![m] = n],
         bucket' = [bucket EXCEPT ![m] = b],
         items' = [items EXCEPT ![m] = cnt],
         limits' = [limits EXCEPT ![m] = lim],
         IndexOK(n, b, cnt, lim, key'),
         \A r \in Maps \ {m} : \A x \in Stored(r) : key'[x] = key[x],
         key' \in [Nodes -> Keys \cup {Void}],
         val' \in [Nodes -> Contents],
         ret' \in Contents \cup {Absent},
         cache' \in Seq(Nodes), IsInjective(cache'),
         N \subseteq Nodes, N \cap heap = {}, heap' = heap \cup N,
         NodesIn(b, n) \cap Range(cache') = {},
         NodesIn(b, n) \cup Range(cache') = Stored(m) \cup Range(cache) \cup N
  PROVE  /\ IInv'
         /\ Stored(m)' = NodesIn(b, n)
         /\ \A r \in Maps \ {m} : Stored(r)' = Stored(r)
<1>1. /\ \A r \in Maps \ {m} : /\ size'[r] = size[r] /\ bucket'[r] = bucket[r]
                               /\ items'[r] = items[r] /\ limits'[r] = limits[r]
      /\ size'[m] = n /\ bucket'[m] = b /\ items'[m] = cnt /\ limits'[m] = lim
  BY DEF IInv, TypeOK
<1>2. \A r \in Maps : IndexOK(size'[r], bucket'[r], items'[r], limits'[r], key')
  <2>1. ASSUME NEW r \in Maps \ {m}
        PROVE  IndexOK(size'[r], bucket'[r], items'[r], limits'[r], key')
    <3>1. IndexOK(size[r], bucket[r], items[r], limits[r], key)
      BY EachMapOK
    <3>2. \A x \in NodesIn(bucket[r], size[r]) : key'[x] = key[x]
      BY DEF Stored
    <3>3. IndexOK(size[r], bucket[r], items[r], limits[r], key')
      BY <3>1, <3>2, OtherKeysOK
    <3>4. QED
      BY <1>1, <3>3
  <2>2. QED
    BY <1>1, <2>1
<1>3. /\ \A r \in Maps \ {m} : Stored(r)' = Stored(r)
      /\ Stored(m)' = NodesIn(b, n)
  BY <1>1 DEF Stored
<1>4. TypeOK'
  <2>1. /\ bucket' = [r \in Maps |-> bucket'[r]]
        /\ \A r \in Maps : bucket'[r] \in [0..(size'[r] - 1) -> SUBSET Nodes]
    BY <1>2 DEF IInv, TypeOK, IndexOK
  <2>2. size' \in [Maps -> Nat]
    <3>1. n \in Nat
      BY DEF IndexOK
    <3>2. QED
      BY <3>1 DEF IInv, TypeOK
  <2>3. items' \in [Maps -> Int] /\ limits' \in [Maps -> Int \X Int]
    <3>1. cnt \in Int
      BY NodesInIndex DEF IndexOK
    <3>2. lim \in Int \X Int
      BY DEF IndexOK
    <3>3. QED
      BY <3>1, <3>2 DEF IInv, TypeOK
  <2>4. heap' \subseteq Nodes
    BY DEF IInv, TypeOK
  <2>5. QED
    BY <2>1, <2>2, <2>3, <2>4 DEF TypeOK, Contents
<1>5. IndexWithinLimits'
  BY <1>2 DEF IndexOK, Limited, IndexWithinLimits
<1>6. KeysFindable'
  BY <1>2 DEF IndexOK, Placed, KeysDiffer, KeysFindable, Stored
<1>7. ItemsCounted'
  BY <1>2 DEF IndexOK, ItemsCounted, Stored
<1>8. NodesPartitioned'
  <2>1. \A r \in Maps : Stored(r) \subseteq heap /\ Stored(r) \cap Range(cache) = {}
    BY EachMapOK
  <2>2. /\ \A r, q \in Maps : r # q => Stored(r) \cap Stored(q) = {}
        /\ heap = Range(cache) \cup UNION {Stored(r) : r \in Maps}
    BY DEF IInv, NodesPartitioned
  <2>3. \A r \in Maps \ {m} : /\ Stored(r) \cap (Stored(m) \cup Range(cache) \cup N) = {}
                              /\ Stored(r) \cap NodesIn(b, n) = {}
                              /\ Stored(r) \cap Range(cache') = {}
    BY <2>1, <2>2
  <2>4. \A r \in Maps : Stored(r)' \cap Range(cache') = {}
    BY <1>3, <2>3
  <2>5. \A r, q \in Maps : r # q => Stored(r)' \cap Stored(q)' = {}
    BY <1>3, <2>2, <2>3
  <2>6. heap' = Range(cache') \cup UNION {Stored(r)' : r \in Maps}
    <3> DEFINE rest == UNION {Stored(r) : r \in Maps \ {m}}
    <3>1. UNION {Stored(r) : r \in Maps} = Stored(m) \cup rest
      OBVIOUS
    <3>2. UNION {Stored(r)' : r \in Maps} = NodesIn(b, n) \cup rest
      BY <1>3
    <3> HIDE DEF rest
    <3>3. heap' = Range(cache) \cup Stored(m) \cup N \cup rest
      BY <2>2, <3>1
    <3>4. QED
      BY <3>2, <3>3
  <2>7. QED
    BY <2>4, <2>5, <2>6 DEF NodesPartitioned, IsInjective
<1>9. QED
  BY <1>3, <1>4, <1>5, <1>6, <1>7, <1>8 DEF IInv

\* A step that leaves indexes, memory and keys alone keeps the invariant.
LEMMA NoIndexTouched ==
  ASSUME IInv, UNCHANGED <<index, memory, limits, key>>,
         val' \in [Nodes -> Contents], ret' \in Contents \cup {Absent}
  PROVE  IInv'
BY DEF IInv, TypeOK, IndexWithinLimits, NodesPartitioned, KeysFindable, ItemsCounted,
       Stored, index, memory, Contents

-----------------------------------------------------------------------------
(* The actions *)

\* Where a lookup looks, and what it finds there.
LEMMA LookupInIndex ==
  ASSUME IInv, NEW m \in Maps, NEW k \in Keys, size[m] > 0
  PROVE  /\ Slot(Hash[k], size[m]) \in 0..(size[m] - 1)
         /\ Located(m, k) # {} =>
              /\ Node(m, k) \in bucket[m][Slot(Hash[k], size[m])]
              /\ Node(m, k) \in Nodes
<1>1. size[m] \in Nat \ {0} /\ bucket[m] \in [0..(size[m] - 1) -> SUBSET Nodes]
  BY DEF IInv, TypeOK
<1>2. Slot(Hash[k], size[m]) \in 0..(size[m] - 1)
  BY <1>1, HashAssumption, SlotInRange
<1>3. ASSUME Located(m, k) # {}
      PROVE  Node(m, k) \in bucket[m][Slot(Hash[k], size[m])]
  <2>1. Node(m, k) \in Located(m, k)
    BY <1>3 DEF Node, Only
  <2>2. QED
    BY <2>1 DEF Located
<1>4. QED
  BY <1>1, <1>2, <1>3

\* The node taken for a new key is in no map and leaves the cache.
LEMMA TakenNode ==
  ASSUME IInv, NEW n \in Nodes, TakeNode(n)
  PROVE  /\ \A r \in Maps : n \notin Stored(r)
         /\ cache' \in Seq(Nodes) /\ IsInjective(cache') /\ n \notin Range(cache')
         /\ \E N \in SUBSET Nodes : /\ N \cap heap = {} /\ heap' = heap \cup N
                                    /\ Range(cache') \cup {n} = Range(cache) \cup N
<1>1. cache \in Seq(Nodes) /\ IsInjective(cache) /\ heap \subseteq Nodes
  BY DEF IInv, TypeOK, NodesPartitioned, IsInjective
<1>2. \A r \in Maps : Stored(r) \subseteq heap /\ Stored(r) \cap Range(cache) = {}
  BY EachMapOK
<1>3. CASE cache # <<>> /\ n = Head(cache) /\ cache' = Tail(cache) /\ UNCHANGED heap
  <2>1. /\ n \in Range(cache)
        /\ cache' \in Seq(Nodes) /\ IsInjective(cache')
        /\ Range(cache') = Range(cache) \ {n}
    BY <1>1, <1>3, HeadTailRange
  <2>2. {} \cap heap = {} /\ heap' = heap \cup {} /\ Range(cache') \cup {n} = Range(cache) \cup {}
    BY <1>3, <2>1
  <2>3. QED
    BY <1>2, <2>1, <2>2
<1>4. CASE cache = <<>> /\ n \notin heap /\ heap' = heap \cup {n} /\ UNCHANGED cache
  <2>1. Range(cache) = {} /\ cache' = cache
    BY <1>4 DEF Range
  <2>2. {n} \cap heap = {} /\ heap' = heap \cup {n} /\ Range(cache') \cup {n} = Range(cache) \cup {n}
    BY <1>4, <2>1
  <2>3. QED
    BY <1>1, <1>2, <1>4, <2>1, <2>2
<1>5. QED
  BY <1>3, <1>4 DEF TakeNode

\* Map m gets node x, which was in no map, for key k; the nodes and keys of the
\* maps are otherwise what they were.
Created(m, k, x) ==
  /\ \A r \in Maps : x \notin Stored(r)
  /\ x \notin Range(cache')
  /\ Stored(m)' = Stored(m) \cup {x}
  /\ \A r \in Maps \ {m} : Stored(r)' = Stored(r)
  /\ key' = [key EXCEPT ![x] = k]

\* set, setDefault and get of a new key: what the item is given does not matter.
LEMMA CreateKeeps ==
  ASSUME IInv, NEW m \in Maps, NEW k \in Keys, NEW x \in Nodes, size[m] > 0,
         Located(m, k) = {}, CreateNode(m, k, x),
         val' \in [Nodes -> Contents], ret' \in Contents \cup {Absent}
  PROVE  IInv' /\ Created(m, k, x)
<1> DEFINE b == [bucket[m] EXCEPT ![Slot(Hash[k], size[m])] = @ \cup {x}]
           z == IndexSize(size[m], items[m] + 1, limits[m])
           c == IF z = size[m] THEN b ELSE Rehashed(NodesIn(b, size[m]), key', z)
<1>1. /\ TakeNode(x)
      /\ key' = [key EXCEPT ![x] = k]
      /\ size' = [size EXCEPT ![m] = z]
      /\ bucket' = [bucket EXCEPT ![m] = c]
      /\ items' = [items EXCEPT ![m] = items[m] + 1]
      /\ limits' = limits
  BY DEF CreateNode, ChangeItemCnt
<1>2. /\ \A r \in Maps : x \notin Stored(r)
      /\ cache' \in Seq(Nodes) /\ IsInjective(cache') /\ x \notin Range(cache')
  BY <1>1, TakenNode
<1>3. PICK N \in SUBSET Nodes : /\ N \cap heap = {} /\ heap' = heap \cup N
                                /\ Range(cache') \cup {x} = Range(cache) \cup N
  BY <1>1, TakenNode
<1>4. /\ IndexOK(size[m], bucket[m], items[m], limits[m], key)
      /\ Stored(m) = NodesIn(bucket[m], size[m])
      /\ Stored(m) \subseteq heap /\ Stored(m) \cap Range(cache) = {}
  BY EachMapOK
<1>5. key \in [Nodes -> Keys \cup {Void}] /\ limits \in [Maps -> Int \X Int]
  BY DEF IInv, TypeOK
<1>6. \A y \in bucket[m][Slot(Hash[k], size[m])] : key[y] # k
  BY DEF Located
<1>7. /\ IndexOK(size[m], b, items[m] + 1, limits[m], key')
      /\ NodesIn(b, size[m]) = Stored(m) \cup {x}
  <2>1. /\ bucket[m] \in [0..(size[m] - 1) -> SUBSET Nodes]
        /\ Slot(Hash[k], size[m]) \in 0..(size[m] - 1)
    BY LookupInIndex DEF IInv, TypeOK
  <2>2. /\ b \in [0..(size[m] - 1) -> SUBSET Nodes]
        /\ b[Slot(Hash[k], size[m])] = bucket[m][Slot(Hash[k], size[m])] \cup {x}
        /\ \A i \in 0..(size[m] - 1) : i # Slot(Hash[k], size[m]) => b[i] = bucket[m][i]
    BY <2>1
  <2> HIDE DEF b
  <2>3. x \in Nodes \ NodesIn(bucket[m], size[m])
    BY <1>2, <1>4
  <2>4. key'[x] = k /\ \A y \in NodesIn(bucket[m], size[m]) : key'[y] = key[y]
    <3>1. NodesIn(bucket[m], size[m]) \subseteq Nodes
      BY <1>4, NodesInIndex DEF IndexOK
    <3>2. QED
      BY <1>1, <1>5, <2>3, <3>1
  <2>5. IndexOK(size[m], bucket[m], items[m], limits[m], key)
    BY <1>4
  <2> HIDE DEF z, c
  <2>6. /\ IndexOK(size[m], b, items[m] + 1, limits[m], key')
        /\ NodesIn(b, size[m]) = NodesIn(bucket[m], size[m]) \cup {x}
    <3>1. Inserts(size[m], bucket[m], key, x, k, b, key')
      BY <1>6, <2>2, <2>3, <2>4 DEF Inserts
    <3>2. QED
      BY <2>5, <3>1, InsertOK
  <2>7. QED
    BY <1>4, <2>6
<1>8. /\ IndexOK(z, c, items[m] + 1, limits[m], key')
      /\ NodesIn(c, z) = Stored(m) \cup {x}
  <2>1. /\ z = IndexSize(size[m], items[m] + 1, limits[m])
        /\ c = IF z = size[m] THEN b ELSE Rehashed(NodesIn(b, size[m]), key', z)
    OBVIOUS
  <2> HIDE DEF b, c, z
  <2>2. QED
    BY <1>7, <2>1, ReindexOK, SMTT(30)
<1>9. limits' = [limits EXCEPT ![m] = limits[m]]
  BY <1>1, <1>5
<1>10. key' \in [Nodes -> Keys \cup {Void}] /\ \A r \in Maps : \A y \in Stored(r) : key'[y] = key[y]
  <2>1. \A r \in Maps : Stored(r) \subseteq Nodes
    BY EachMapOK DEF IInv, TypeOK
  <2>2. QED
    BY <1>1, <1>2, <1>5, <2>1
<1>11. /\ NodesIn(c, z) \cap Range(cache') = {}
       /\ NodesIn(c, z) \cup Range(cache') = Stored(m) \cup Range(cache) \cup N
  <2>1. Range(cache') \subseteq Range(cache) \cup N
    BY <1>3
  <2>2. Stored(m) \cap N = {}
    BY <1>3, <1>4
  <2>3. QED
    BY <1>2, <1>3, <1>4, <1>8, <2>1, <2>2
<1> HIDE DEF b, c, z
<1>12. N \subseteq Nodes /\ N \cap heap = {} /\ heap' = heap \cup N
  BY <1>3
<1>13. \A r \in Maps \ {m} : \A y \in Stored(r) : key'[y] = key[y]
  BY <1>10
<1>14. cache' \in Seq(Nodes) /\ IsInjective(cache')
  BY <1>2
<1>15. IndexOK(z, c, items[m] + 1, limits[m], key') /\ key' \in [Nodes -> Keys \cup {Void}]
  BY <1>8, <1>10
<1>16. /\ size' = [size EXCEPT ![m] = z]
       /\ bucket' = [bucket EXCEPT ![m] = c]
       /\ items' = [items EXCEPT ![m] = items[m] + 1]
  BY <1>1
<1>17. /\ IInv'
       /\ Stored(m)' = NodesIn(c, z)
       /\ \A r \in Maps \ {m} : Stored(r)' = Stored(r)
  BY <1>9, <1>11, <1>12, <1>13, <1>14, <1>15, <1>16, OneMap
<1>18. QED
  BY <1>1, <1>2, <1>8, <1>17 DEF Created

\* remove, unset and pop move one node to the cache, or do nothing.
LEMMA UnsetKeeps ==
  ASSUME IInv, NEW m \in Maps, NEW k \in Keys, Unset(m, k)
  PROVE  /\ IInv'
         /\ Located(m, k) # {} =>
              /\ Stored(m)' = Stored(m) \ {Node(m, k)}
              /\ \A r \in Maps \ {m} : Stored(r)' = Stored(r)
<1>1. /\ key' = key /\ val' = val /\ limits' = limits /\ heap' = heap
      /\ key \in [Nodes -> Keys \cup {Void}] /\ val \in [Nodes -> Contents]
      /\ limits \in [Maps -> Int \X Int]
      /\ size[m] > 0
  BY DEF Unset, IInv, TypeOK
<1>2. CASE Located(m, k) = {}
  BY <1>1, <1>2, NoIndexTouched DEF Unset, index, memory
<1>3. CASE Located(m, k) # {}
  <2> DEFINE s == Slot(Hash[k], size[m])
             x == Node(m, k)
             b == [bucket[m] EXCEPT ![s] = @ \ {x}]
             z == IndexSize(size[m], items[m] - 1, limits[m])
             c == IF z = size[m] THEN b ELSE Rehashed(NodesIn(b, size[m]), key, z)
  <2>1. /\ ret' = val[x]
        /\ cache' = Append(cache, x)
        /\ size' = [size EXCEPT ![m] = z]
        /\ bucket' = [bucket EXCEPT ![m] = c]
        /\ items' = [items EXCEPT ![m] = items[m] - 1]
    BY <1>3 DEF Unset, ChangeItemCnt
  <2>2. s \in 0..(size[m] - 1) /\ x \in bucket[m][s] /\ x \in Nodes
    BY <1>1, <1>3, LookupInIndex
  <2>3. /\ IndexOK(size[m], bucket[m], items[m], limits[m], key)
        /\ Stored(m) = NodesIn(bucket[m], size[m])
        /\ Stored(m) \subseteq heap /\ Stored(m) \cap Range(cache) = {}
    BY EachMapOK
  <2> HIDE DEF s, x
  <2>4. /\ IndexOK(size[m], b, items[m] - 1, limits[m], key)
        /\ x \in Stored(m)
        /\ NodesIn(b, size[m]) = Stored(m) \ {x}
    BY <1>1, <2>2, <2>3, RemoveOK
  <2>5. /\ IndexOK(z, c, items[m] - 1, limits[m], key)
        /\ NodesIn(c, z) = Stored(m) \ {x}
    <3>1. /\ z = IndexSize(size[m], items[m] - 1, limits[m])
          /\ c = IF z = size[m] THEN b ELSE Rehashed(NodesIn(b, size[m]), key, z)
      OBVIOUS
    <3> HIDE DEF b, c, z
    <3>2. size[m] > 0
      BY <1>1
    <3>3. QED
      BY <2>4, <3>1, <3>2, ReindexOK
  <2> HIDE DEF b, c, z
  <2>6. /\ cache' \in Seq(Nodes) /\ IsInjective(cache')
        /\ Range(cache') = Range(cache) \cup {x}
    <3>1. cache \in Seq(Nodes) /\ IsInjective(cache)
      BY DEF IInv, TypeOK, NodesPartitioned, IsInjective
    <3>2. x \notin Range(cache)
      BY <2>3, <2>4
    <3>3. QED
      BY <2>1, <2>2, <3>1, <3>2, AppendRange
  <2>7. limits' = [limits EXCEPT ![m] = limits[m]] /\ heap' = heap \cup {} /\ {} \cap heap = {}
    BY <1>1
  <2>8. /\ NodesIn(c, z) \cap Range(cache') = {}
        /\ NodesIn(c, z) \cup Range(cache') = Stored(m) \cup Range(cache) \cup {}
    BY <2>3, <2>4, <2>5, <2>6
  <2>9. ret' \in Contents \cup {Absent}
    BY <1>1, <2>1, <2>2
  <2>10. key' \in [Nodes -> Keys \cup {Void}] /\ val' \in [Nodes -> Contents]
    BY <1>1
  <2>11. /\ IndexOK(z, c, items[m] - 1, limits[m], key')
         /\ \A r \in Maps \ {m} : \A y \in Stored(r) : key'[y] = key[y]
    BY <1>1, <2>5
  <2>12. {} \subseteq Nodes
    OBVIOUS
  <2>13. /\ IInv'
         /\ Stored(m)' = NodesIn(c, z)
         /\ \A r \in Maps \ {m} : Stored(r)' = Stored(r)
    BY <2>1, <2>6, <2>7, <2>8, <2>9, <2>10, <2>11, <2>12, OneMap
  <2>14. QED
    BY <2>5, <2>13 DEF x
<1>4. QED
  BY <1>2, <1>3

\* set and setDefault create a key or leave every index as it is.
LEMMA SetKeeps ==
  ASSUME IInv, NEW m \in Maps, NEW k \in Keys, NEW v \in Values,
         Set(m, k, v) \/ SetDefault(m, k, v)
  PROVE  IInv'
<1>1. /\ val \in [Nodes -> Contents] /\ v \in Contents
      /\ size[m] > 0
  BY DEF IInv, TypeOK, Contents, Set, SetDefault
<1>2. \A n \in Nodes : [val EXCEPT ![n] = v] \in [Nodes -> Contents]
  BY <1>1
<1>3. CASE Located(m, k) = {}
  <2>1. PICK n \in Nodes : CreateNode(m, k, n) /\ val' = [val EXCEPT ![n] = v]
    BY <1>3 DEF Set, SetDefault
  <2>2. ret' = v
    BY <1>3 DEF Set, SetDefault
  <2>3. QED
    BY <1>1, <1>2, <1>3, <2>1, <2>2, CreateKeeps
<1>4. CASE Located(m, k) # {}
  <2>1. Node(m, k) \in Nodes
    BY <1>1, <1>4, LookupInIndex
  <2>2. /\ UNCHANGED <<index, memory, limits, key>>
        /\ val' = val \/ val' = [val EXCEPT ![Node(m, k)] = v]
        /\ ret' = v \/ ret' = val[Node(m, k)]
    BY <1>4 DEF Set, SetDefault
  <2>3. val' \in [Nodes -> Contents] /\ ret' \in Contents \cup {Absent}
    BY <1>1, <1>2, <2>1, <2>2
  <2>4. QED
    BY <2>2, <2>3, NoIndexTouched
<1>5. QED
  BY <1>3, <1>4

\* get, getPtr and hasKey create a key or leave every index as it is.
LEMMA GetKeeps ==
  ASSUME IInv, NEW m \in Maps, NEW k \in Keys, Get(m, k) \/ Lookup(m, k)
  PROVE  IInv'
<1>1. /\ val \in [Nodes -> Contents] /\ Void \in Contents
      /\ size[m] > 0
  BY DEF IInv, TypeOK, Contents, Get, Lookup
<1>2. CASE Located(m, k) = {} /\ Get(m, k)
  <2>1. PICK n \in Nodes : /\ CreateNode(m, k, n)
                           /\ val' = [val EXCEPT ![n] = StaleItem(n, TRUE)]
                           /\ ret' = val'[n]
    BY <1>2 DEF Get
  <2>2. val' \in [Nodes -> Contents]
    BY <1>1, <2>1 DEF StaleItem
  <2>3. QED
    BY <1>1, <1>2, <2>1, <2>2, CreateKeeps
<1>3. CASE Located(m, k) # {} \/ Lookup(m, k)
  <2>1. /\ UNCHANGED <<index, memory, limits, key>> /\ val' = val
        /\ ret' = Absent \/ (Located(m, k) # {} /\ ret' = val[Node(m, k)])
    BY <1>3 DEF Get, Lookup
  <2>2. ret' \in Contents \cup {Absent}
    BY <1>1, <2>1, LookupInIndex
  <2>3. QED
    BY <1>1, <2>1, <2>2, NoIndexTouched
<1>4. QED
  BY <1>2, <1>3

\* A flush moves every node of the map, once.
LEMMA FlushedNodes ==
  ASSUME IInv, NEW m \in Maps, NEW s \in FlushOrders(m)
  PROVE  /\ s \in Seq(Nodes) /\ IsInjective(s) /\ Range(s) = Stored(m)
         /\ cache \o s \in Seq(Nodes) /\ IsInjective(cache \o s)
         /\ Range(cache \o s) = Range(cache) \cup Stored(m)
<1>1. /\ Stored(m) \subseteq Nodes /\ Cardinality(Stored(m)) \in Nat
      /\ Stored(m) \cap Range(cache) = {}
  <2>1. /\ IndexOK(size[m], bucket[m], items[m], limits[m], key)
        /\ Stored(m) = NodesIn(bucket[m], size[m]) /\ Stored(m) \cap Range(cache) = {}
    BY EachMapOK
  <2>2. QED
    BY <2>1, NodesInIndex DEF IndexOK
<1>2. s \in Bijection(1..Cardinality(Stored(m)), Stored(m))
  BY DEF FlushOrders
<1>3. /\ s \in [1..Cardinality(Stored(m)) -> Stored(m)]
      /\ Range(s) = Stored(m) /\ IsInjective(s)
  BY <1>2, BijectionRange
<1>4. s \in Seq(Nodes)
  <2>1. s \in [1..Cardinality(Stored(m)) -> Nodes]
    BY <1>1, <1>3
  <2>2. QED
    BY <1>1, <2>1, SeqDef
<1>5. cache \in Seq(Nodes) /\ IsInjective(cache)
  BY DEF IInv, TypeOK, NodesPartitioned, IsInjective
<1>6. QED
  BY <1>1, <1>2, <1>3, <1>4, <1>5, ConcatRange

\* A flush leaves a map without nodes, all of which are in the cache.
LEMMA FlushKeeps ==
  ASSUME IInv, NEW m \in Maps, NEW n \in Nat, NEW lim \in Int \X Int, Limited(n, lim),
         Flush(m, n), limits' = [limits EXCEPT ![m] = lim],
         UNCHANGED <<heap, key, val>>, ret' = Absent
  PROVE  /\ IInv'
         /\ Stored(m)' = {}
         /\ \A r \in Maps \ {m} : Stored(r)' = Stored(r)
<1>1. PICK s \in FlushOrders(m) : cache' = cache \o s
  BY DEF Flush
<1>2. /\ size' = [size EXCEPT ![m] = n]
      /\ bucket' = [bucket EXCEPT ![m] = EmptyIndex(n)]
      /\ items' = [items EXCEPT ![m] = 0]
  BY DEF Flush
<1>3. /\ cache' \in Seq(Nodes) /\ IsInjective(cache')
      /\ Range(cache') = Range(cache) \cup Stored(m)
  BY <1>1, FlushedNodes
<1>4. IndexOK(n, EmptyIndex(n), 0, lim, key') /\ NodesIn(EmptyIndex(n), n) = {}
  BY EmptyOK
<1>5. /\ NodesIn(EmptyIndex(n), n) \cap Range(cache') = {}
      /\ NodesIn(EmptyIndex(n), n) \cup Range(cache') = Stored(m) \cup Range(cache) \cup {}
  BY <1>3, <1>4
<1>6. {} \subseteq Nodes /\ {} \cap heap = {} /\ heap' = heap \cup {}
  OBVIOUS
<1>7. /\ key' \in [Nodes -> Keys \cup {Void}] /\ val' \in [Nodes -> Contents]
      /\ ret' \in Contents \cup {Absent}
  BY DEF IInv, TypeOK
<1>8. \A r \in Maps \ {m} : \A x \in Stored(r) : key'[x] = key[x]
  OBVIOUS
<1>9. /\ IInv'
      /\ Stored(m)' = NodesIn(EmptyIndex(n), n)
      /\ \A r \in Maps \ {m} : Stored(r)' = Stored(r)
  BY <1>2, <1>3, <1>4, <1>5, <1>6, <1>7, <1>8, OneMap
<1>10. QED
  BY <1>4, <1>9

\* clear and delete flush the map.
LEMMA ClearKeeps ==
  ASSUME IInv, NEW m \in Maps, Clear(m) \/ Delete(m)
  PROVE  /\ IInv'
         /\ Stored(m)' = {}
         /\ \A r \in Maps \ {m} : Stored(r)' = Stored(r)
<1>1. /\ limits[m] \in Int \X Int /\ limits' = [limits EXCEPT ![m] = limits[m]]
      /\ size[m] \in Nat
  BY DEF IInv, TypeOK, Clear, Delete
<1>2. Limited(size[m], limits[m]) /\ Limited(0, limits[m])
  BY DEF IInv, IndexWithinLimits, Limited
<1>3. /\ UNCHANGED <<heap, key, val>> /\ ret' = Absent
      /\ Flush(m, size[m]) \/ Flush(m, 0)
  BY DEF Clear, Delete
<1>4. QED
  BY <1>1, <1>2, <1>3, FlushKeeps

\* initialize flushes the map, or keeps an index that has the wanted size.
LEMMA InitSizedKeeps ==
  ASSUME IInv, NEW m \in Maps, NEW a \in InitArgs, InitSized(m, a[1], a[2])
  PROVE  /\ IInv'
         /\ Stored(m)' = {} \/ UNCHANGED <<index, cache>>
         /\ size[m] # Larger(1, a[1]) => Stored(m)' = {}
         /\ \A r \in Maps \ {m} : Stored(r)' = Stored(r)
<1> DEFINE lo == Larger(1, a[1])
           hi == Larger(1, Larger(a[1], a[2]))
<1>1. a[1] \in Int /\ a[2] \in Int
  BY InitArgsAssumption
<1>2. lo \in Nat \ {0} /\ hi \in Int /\ lo <= hi
  BY <1>1 DEF Larger
<1>3. /\ limits' = [limits EXCEPT ![m] = <<lo, hi>>]
      /\ UNCHANGED <<heap, key, val>> /\ ret' = Absent
      /\ \/ size[m] = lo /\ UNCHANGED <<index, cache>>
         \/ Flush(m, lo)
  BY DEF InitSized
<1> HIDE DEF lo, hi
<1>4. <<lo, hi>> \in Int \X Int /\ Limited(lo, <<lo, hi>>)
  BY <1>2 DEF Limited
<1>5. CASE Flush(m, lo)
  BY <1>2, <1>3, <1>4, <1>5, FlushKeeps
<1>6. CASE size[m] = lo /\ UNCHANGED <<index, cache>>
  <2>1. /\ TypeOK
        /\ size' = size /\ bucket' = bucket /\ items' = items /\ cache' = cache
        /\ heap' = heap /\ key' = key /\ val' = val
        /\ limits' = [limits EXCEPT ![m] = <<lo, hi>>]
        /\ ret' = Absent
    BY <1>3, <1>6 DEF index, IInv
  <2>2. TypeOK'
    BY <1>4, <2>1 DEF TypeOK, Contents
  <2>3. IndexWithinLimits'
    BY <1>2, <1>6, <2>1 DEF IndexWithinLimits, IInv, TypeOK
  <2>4. NodesPartitioned' /\ KeysFindable' /\ ItemsCounted'
    BY <2>1 DEF IInv, NodesPartitioned, KeysFindable, ItemsCounted, Stored
  <2>5. \A r \in Maps : Stored(r)' = Stored(r)
    BY <2>1 DEF Stored
  <2>6. QED
    BY <1>6, <2>2, <2>3, <2>4, <2>5 DEF IInv, lo
<1>7. QED
  BY <1>3, <1>5, <1>6 DEF lo

\* hashmap_clear_cache deallocates nodes of no map.
LEMMA ClearCacheKeeps == ASSUME IInv, ClearCache PROVE IInv'
<1>1. /\ size' = size /\ bucket' = bucket /\ items' = items /\ limits' = limits
      /\ heap' = heap \ Range(cache) /\ cache' = <<>> /\ ret' = Absent
      /\ key' = [n \in Nodes |-> IF n \in Range(cache) THEN Void ELSE key[n]]
      /\ val' = [n \in Nodes |-> IF n \in Range(cache) THEN Void ELSE val[n]]
  BY DEF ClearCache, index
<1>2. TypeOK'
  BY <1>1 DEF IInv, TypeOK, Contents
<1>3. /\ \A m \in Maps : Stored(m)' = Stored(m)
      /\ \A m \in Maps : \A i \in 0..(size[m] - 1) : bucket[m][i] \subseteq Stored(m)
      /\ \A m \in Maps : Stored(m) \subseteq Nodes /\ Stored(m) \cap Range(cache) = {}
  <2>1. \A m \in Maps : Stored(m) \subseteq Nodes /\ Stored(m) \cap Range(cache) = {}
    BY EachMapOK DEF IInv, TypeOK
  <2>2. QED
    BY <1>1, <2>1 DEF Stored, NodesIn
<1>4. \A m \in Maps : \A n \in Stored(m) : key'[n] = key[n]
  BY <1>1, <1>3
<1>5. KeysFindable'
  BY <1>1, <1>3, <1>4 DEF IInv, KeysFindable
<1>6. NodesPartitioned'
  <2>1. Range(cache') = {} /\ DOMAIN cache' = {}
    <3>1. cache' = <<>> /\ DOMAIN <<>> = {}
      BY <1>1
    <3>2. QED
      BY <3>1 DEF Range
  <2> DEFINE all == UNION {Stored(m) : m \in Maps}
  <2>2. UNION {Stored(m)' : m \in Maps} = all
    BY <1>3
  <2>3. ASSUME NEW x \in all
        PROVE  x \notin Range(cache)
    <3>1. PICK m \in Maps : x \in Stored(m)
      OBVIOUS
    <3>2. QED
      BY <1>3, <3>1
  <2>4. /\ heap = Range(cache) \cup all
        /\ \A m, r \in Maps : m # r => Stored(m) \cap Stored(r) = {}
    BY DEF IInv, NodesPartitioned
  <2> HIDE DEF all
  <2>5. heap' = Range(cache') \cup all
    BY <1>1, <2>1, <2>3, <2>4
  <2>6. \A m, r \in Maps : m # r => Stored(m)' \cap Stored(r)' = {}
    BY <1>3, <2>4
  <2>7. QED
    BY <2>1, <2>2, <2>5, <2>6 DEF NodesPartitioned, IsInjective
<1>7. ItemsCounted' /\ IndexWithinLimits'
  BY <1>1, <1>3 DEF IInv, ItemsCounted, IndexWithinLimits
<1>8. QED
  BY <1>2, <1>5, <1>6, <1>7 DEF IInv

-----------------------------------------------------------------------------
(* Assignment *)

\* The index of copies of the nodes of another index, made by the bijection f.
LEMMA CopyOK ==
  ASSUME NEW n, NEW b, NEW cnt, NEW lim, NEW ky, NEW T \in SUBSET Nodes,
         IndexOK(n, b, cnt, lim, ky), NEW f \in Bijection(NodesIn(b, n), T),
         NEW kz, \A x \in NodesIn(b, n) : kz[f[x]] = ky[x],
         NEW c, c = [i \in 0..(n - 1) |-> {f[x] : x \in b[i]}]
  PROVE  /\ IndexOK(n, c, cnt, lim, kz)
         /\ NodesIn(c, n) = T
<1>1. n \in Nat /\ b \in [0..(n - 1) -> SUBSET Nodes]
  BY DEF IndexOK
<1>2. /\ f \in [NodesIn(b, n) -> T] /\ Range(f) = T
      /\ \A x, y \in NodesIn(b, n) : f[x] = f[y] => x = y
      /\ \A t \in T : \E x \in NodesIn(b, n) : f[x] = t
  BY BijectionRange DEF IsInjective, Bijection, Surjection
<1>3. \A i \in 0..(n - 1) : b[i] \subseteq NodesIn(b, n)
  BY DEF NodesIn
<1>4. \A i \in 0..(n - 1) : c[i] = {f[x] : x \in b[i]}
  OBVIOUS
<1>5. c \in [0..(n - 1) -> SUBSET Nodes]
  BY <1>2, <1>3
<1>6. NodesIn(c, n) = T
  <2>1. \A y : y \in NodesIn(c, n) <=> \E i \in 0..(n - 1) : y \in c[i]
    BY DEF NodesIn
  <2>2. \A x : x \in NodesIn(b, n) <=> \E i \in 0..(n - 1) : x \in b[i]
    BY DEF NodesIn
  <2>3. ASSUME NEW y \in NodesIn(c, n)
        PROVE  y \in T
    <3>1. PICK i \in 0..(n - 1) : y \in c[i]
      BY <2>1
    <3>2. PICK x \in b[i] : y = f[x]
      BY <1>4, <3>1
    <3>3. QED
      BY <1>2, <1>3, <3>2
  <2>4. ASSUME NEW y \in T
        PROVE  y \in NodesIn(c, n)
    <3>1. PICK x \in NodesIn(b, n) : f[x] = y
      BY <1>2
    <3>2. PICK i \in 0..(n - 1) : x \in b[i]
      BY <2>2
    <3>3. y \in c[i]
      BY <1>4, <3>1, <3>2
    <3>4. QED
      BY <2>1, <3>3
  <2>5. QED
    BY <2>3, <2>4
<1>7. Placed(c, n, kz)
  <2>1. Placed(b, n, ky)
    BY DEF IndexOK
  <2>2. ASSUME NEW i \in 0..(n - 1), NEW y \in c[i]
        PROVE  kz[y] \in Keys /\ Slot(Hash[kz[y]], n) = i
    <3>1. PICK x \in b[i] : y = f[x]
      BY <1>4
    <3>2. kz[y] = ky[x]
      BY <1>3, <3>1
    <3>3. QED
      BY <2>1, <3>2 DEF Placed
  <2>3. QED
    BY <2>2 DEF Placed
<1>8. KeysDiffer(NodesIn(c, n), kz)
  <2>1. KeysDiffer(NodesIn(b, n), ky)
    BY DEF IndexOK
  <2>2. QED
    BY <1>2, <1>6, <2>1 DEF KeysDiffer
<1>9. Cardinality(NodesIn(c, n)) = cnt
  <2>1. IsFiniteSet(NodesIn(b, n)) /\ ExistsBijection(NodesIn(b, n), T)
    BY <1>1, NodesInIndex DEF ExistsBijection
  <2>2. Cardinality(T) = Cardinality(NodesIn(b, n))
    BY <2>1, FS_Bijection
  <2>3. QED
    BY <1>6, <2>2 DEF IndexOK
<1>10. QED
  BY <1>5, <1>6, <1>7, <1>8, <1>9 DEF IndexOK

\* Map m has a copy of every node of map r and no other node.  The copies are
\* in no cache, and the nodes of the other maps are as they were.
Copied(m, r) ==
  /\ \E copy \in [Stored(r) -> Stored(m)'] :
       /\ \A y \in Stored(m)' : \E x \in Stored(r) : copy[x] = y
       /\ \A x \in Stored(r) : key'[copy[x]] = key[x] /\ val'[copy[x]] = val[x]
  /\ \A q \in Maps \ {m} :
       /\ Stored(q)' = Stored(q)
       /\ \A x \in Stored(q) : key'[x] = key[x] /\ val'[x] = val[x]
  /\ \A x \in Range(cache') : val'[x] = val[x]
  /\ heap' = heap \/ cache' = <<>>

\* What assign makes of the cache: the nodes of the map at its end, and behind
\* them new ones.
LEMMA FilledCache ==
  ASSUME IInv, NEW m \in Maps, NEW r \in Maps, NEW s \in FlushOrders(m),
         NEW f \in NewNodes(items[r] - Len(cache \o s))
  PROVE  /\ s \in Seq(Nodes) /\ f \in Seq(Nodes) /\ cache \o s \in Seq(Nodes)
         /\ Range(cache \o s) = Range(cache) \cup Stored(m)
         /\ Range(f) \subseteq Nodes \ heap
         /\ cache \o s \o f \in Seq(Nodes) /\ IsInjective(cache \o s \o f)
         /\ Range(cache \o s \o f) = Range(cache) \cup Stored(m) \cup Range(f)
<1>1. /\ s \in Seq(Nodes) /\ cache \o s \in Seq(Nodes) /\ IsInjective(cache \o s)
      /\ Range(cache \o s) = Range(cache) \cup Stored(m)
  BY FlushedNodes
<1>2. f \in Seq(Nodes) /\ IsInjective(f) /\ Range(f) \subseteq Nodes \ heap
  <2> DEFINE n == Larger(0, items[r] - Len(cache \o s))
  <2>1. n \in Nat
    BY <1>1, LenProperties DEF Larger, IInv, TypeOK
  <2>2. f \in [1..n -> Nodes \ heap] /\ IsInjective(f)
    BY DEF NewNodes, Injection
  <2> HIDE DEF n
  <2>3. f \in [1..n -> Nodes]
    BY <2>2
  <2>4. f \in Seq(Nodes)
    BY <2>1, <2>3, SeqDef
  <2>5. Range(f) \subseteq Nodes \ heap
    BY <2>2 DEF Range
  <2>6. QED
    BY <2>2, <2>4, <2>5
<1>3. Range(cache \o s) \cap Range(f) = {}
  <2>1. Range(cache \o s) \subseteq heap
    BY <1>1, EachMapOK DEF IInv, NodesPartitioned
  <2>2. QED
    BY <1>2, <2>1
<1>4. QED
  BY <1>1, <1>2, <1>3, ConcatRange

\* assign: the copies are made of nodes that no other map has, and new nodes are
\* allocated only if all of those in the cache are used.
LEMMA AssignKeeps ==
  ASSUME IInv, NEW m \in Maps, NEW r \in Maps, Assign(m, r)
  PROVE  IInv' /\ Copied(m, r)
<1>1. PICK s \in FlushOrders(m) : \E f \in NewNodes(items[r] - Len(cache \o s)) :
        /\ CopyNodes(m, r, cache \o s \o f)
        /\ heap' = heap \cup Range(f)
  BY DEF Assign
<1>2. PICK f \in NewNodes(items[r] - Len(cache \o s)) :
        /\ CopyNodes(m, r, cache \o s \o f)
        /\ heap' = heap \cup Range(f)
  BY <1>1
<1> DEFINE full  == cache \o s \o f
           keep  == Len(full) - Cardinality(Stored(r))
           taken == {full[i] : i \in (keep + 1)..Len(full)}
<1>3. /\ keep >= 0
      /\ cache' = SubSeq(full, 1, keep)
      /\ \E copy \in Bijection(Stored(r), taken) :
           /\ bucket' = [bucket EXCEPT ![m] =
                           [i \in 0..(size[r] - 1) |-> {copy[x] : x \in bucket[r][i]}]]
           /\ key' = [n \in Nodes |-> IF \E x \in Stored(r) : copy[x] = n
                        THEN key[CHOOSE x \in Stored(r) : copy[x] = n] ELSE key[n]]
           /\ val' = [n \in Nodes |-> IF \E x \in Stored(r) : copy[x] = n
                        THEN val[CHOOSE x \in Stored(r) : copy[x] = n] ELSE val[n]]
  BY <1>2 DEF CopyNodes
<1>4. /\ m # r /\ size[r] > 0
      /\ size' = [size EXCEPT ![m] = size[r]]
      /\ items' = [items EXCEPT ![m] = items[r]]
      /\ limits' = [limits EXCEPT ![m] = limits[r]]
      /\ ret' = Absent
  BY DEF Assign
<1>5. /\ IndexOK(size[r], bucket[r], items[r], limits[r], key)
      /\ Stored(r) = NodesIn(bucket[r], size[r])
      /\ Stored(r) \subseteq Nodes /\ Stored(r) \subseteq heap
      /\ Cardinality(Stored(r)) \in Nat /\ items[r] \in Int
  <2>1. /\ IndexOK(size[r], bucket[r], items[r], limits[r], key)
        /\ Stored(r) = NodesIn(bucket[r], size[r])
        /\ Stored(r) \subseteq heap
    BY EachMapOK
  <2>2. QED
    BY <2>1, NodesInIndex DEF IndexOK, IInv, TypeOK
\* The nodes the cache holds when the copies are taken from its end.
<1>6. /\ cache \o s \in Seq(Nodes) /\ Range(cache \o s) = Range(cache) \cup Stored(m)
  BY FilledCache
<1>7. f \in Seq(Nodes) /\ Range(f) \subseteq Nodes \ heap
  BY FilledCache
<1>8. /\ full \in Seq(Nodes) /\ IsInjective(full)
      /\ Range(full) = Range(cache) \cup Stored(m) \cup Range(f)
  BY FilledCache
<1> HIDE DEF full
<1>9. keep \in 0..Len(full)
  BY <1>3, <1>5, <1>8, LenProperties
<1> HIDE DEF keep
<1>10. /\ cache' \in Seq(Nodes) /\ IsInjective(cache')
       /\ Range(cache') \cap taken = {}
       /\ Range(cache') \cup taken = Range(full)
  BY <1>3, <1>8, <1>9, CutRange
<1> HIDE DEF taken
<1>11. PICK copy \in Bijection(Stored(r), taken) :
         /\ bucket' = [bucket EXCEPT ![m] =
                         [i \in 0..(size[r] - 1) |-> {copy[x] : x \in bucket[r][i]}]]
         /\ key' = [n \in Nodes |-> IF \E x \in Stored(r) : copy[x] = n
                      THEN key[CHOOSE x \in Stored(r) : copy[x] = n] ELSE key[n]]
         /\ val' = [n \in Nodes |-> IF \E x \in Stored(r) : copy[x] = n
                      THEN val[CHOOSE x \in Stored(r) : copy[x] = n] ELSE val[n]]
  BY <1>3
<1>12. taken \subseteq Nodes
  <2>1. Range(full) \subseteq Nodes
    <3>1. full \in [1..Len(full) -> Nodes]
      BY <1>8, LenProperties
    <3>2. QED
      BY <3>1 DEF Range
  <2>2. QED
    BY <1>10, <2>1
\* The keys and items of the copies.
<1>13. /\ copy \in [Stored(r) -> taken]
       /\ \A x, y \in Stored(r) : copy[x] = copy[y] => x = y
  BY BijectionRange DEF IsInjective
<1>14. \A x \in Stored(r) : key'[copy[x]] = key[x] /\ val'[copy[x]] = val[x]
  <2>1. ASSUME NEW x \in Stored(r)
        PROVE  key'[copy[x]] = key[x] /\ val'[copy[x]] = val[x]
    <3>1. copy[x] \in Nodes
      BY <1>12, <1>13
    <3>2. (CHOOSE y \in Stored(r) : copy[y] = copy[x]) = x
      BY <1>13
    <3>3. QED
      BY <1>11, <3>1, <3>2
  <2>2. QED
    BY <2>1
<1>15. /\ key' \in [Nodes -> Keys \cup {Void}] /\ val' \in [Nodes -> Contents]
       /\ ret' \in Contents \cup {Absent}
  <2>1. key \in [Nodes -> Keys \cup {Void}] /\ val \in [Nodes -> Contents]
    BY DEF IInv, TypeOK
  <2>2. \A n \in Nodes : (\E x \in Stored(r) : copy[x] = n) =>
          (CHOOSE x \in Stored(r) : copy[x] = n) \in Nodes
    BY <1>5
  <2>3. QED
    BY <1>11, <1>4, <2>1, <2>2
<1>16. \A q \in Maps \ {m} : \A x \in Stored(q) : key'[x] = key[x] /\ val'[x] = val[x]
  <2>1. ASSUME NEW q \in Maps \ {m}, NEW x \in Stored(q)
        PROVE  key'[x] = key[x] /\ val'[x] = val[x]
    <3>1. x \in Nodes /\ x \in heap /\ x \notin Stored(m) /\ x \notin Range(cache)
      BY EachMapOK DEF IInv, TypeOK, NodesPartitioned
    <3>2. x \notin taken
      BY <1>7, <1>8, <1>10, <3>1
    <3>3. ~ \E y \in Stored(r) : copy[y] = x
      BY <1>13, <3>2
    <3>4. QED
      BY <1>11, <3>1, <3>3
  <2>2. QED
    BY <2>1
<1> DEFINE c == [i \in 0..(size[r] - 1) |-> {copy[x] : x \in bucket[r][i]}]
<1>17. /\ IndexOK(size[r], c, items[r], limits[r], key')
       /\ NodesIn(c, size[r]) = taken
  <2>1. c = [i \in 0..(size[r] - 1) |-> {copy[x] : x \in bucket[r][i]}]
    OBVIOUS
  <2> HIDE DEF c
  <2>2. copy \in Bijection(NodesIn(bucket[r], size[r]), taken)
    BY <1>5
  <2>3. \A x \in NodesIn(bucket[r], size[r]) : key'[copy[x]] = key[x]
    BY <1>5, <1>14
  <2>4. taken \in SUBSET Nodes
    BY <1>12
  <2>5. QED
    BY <1>5, <2>1, <2>2, <2>3, <2>4, CopyOK
<1>18. bucket' = [bucket EXCEPT ![m] = c]
  BY <1>11
<1> HIDE DEF c
<1>19. /\ Range(f) \subseteq Nodes /\ Range(f) \cap heap = {} /\ heap' = heap \cup Range(f)
       /\ NodesIn(c, size[r]) \cap Range(cache') = {}
       /\ NodesIn(c, size[r]) \cup Range(cache') = Stored(m) \cup Range(cache) \cup Range(f)
  BY <1>2, <1>7, <1>8, <1>10, <1>17
<1>20. /\ IInv'
       /\ Stored(m)' = NodesIn(c, size[r])
       /\ \A q \in Maps \ {m} : Stored(q)' = Stored(q)
  BY <1>4, <1>10, <1>15, <1>16, <1>17, <1>18, <1>19, OneMap, ZenonT(30)
<1>21. \A x \in Range(cache') : val'[x] = val[x]
  <2>1. ASSUME NEW x \in Range(cache')
        PROVE  val'[x] = val[x]
    <3>1. x \in Nodes /\ x \notin taken
      BY <1>10 DEF Range
    <3>2. ~ \E y \in Stored(r) : copy[y] = x
      BY <1>13, <3>1
    <3>3. QED
      BY <1>11, <3>1, <3>2
  <2>2. QED
    BY <2>1
<1>22. heap' = heap \/ cache' = <<>>
  <2> DEFINE old == Len(cache \o s)
             new == Larger(0, items[r] - old)
  <2>1. /\ old \in Nat /\ items[r] \in Int /\ items[r] = Cardinality(Stored(r))
        /\ items[r] - Len(cache \o s) = items[r] - old
    BY <1>5, <1>6, LenProperties DEF IInv, ItemsCounted
  <2>2. f \in [1..new -> Nodes \ heap]
    BY DEF NewNodes, Injection
  <2>3. new \in Nat
    BY <2>1 DEF Larger
  <2>4. Len(f) = new /\ DOMAIN f = 1..new
    BY <1>7, <2>2, <2>3, LenProperties
  <2>5. Len(full) = old + Len(f)
    BY <1>6, <1>7, ConcatProperties DEF full
  <2> HIDE DEF old
  <2>6. CASE items[r] <= old
    <3>1. new = 0
      BY <2>1, <2>6 DEF Larger
    <3>2. Range(f) = {}
      BY <2>4, <3>1 DEF Range
    <3>3. QED
      BY <1>2, <3>2
  <2>7. CASE items[r] > old
    <3>1. new = items[r] - old
      BY <2>1, <2>7 DEF Larger
    <3> HIDE DEF new
    <3>2. keep = 0
      BY <2>1, <2>4, <2>5, <3>1 DEF keep
    <3>3. QED
      BY <1>3, <1>8, <3>2, SubSeqProperties
  <2>8. QED
    BY <2>1, <2>6, <2>7
<1>23. QED
  <2>1. copy \in [Stored(r) -> Stored(m)'] /\ Stored(m)' = taken
    BY <1>13, <1>17, <1>20
  <2>2. \A y \in Stored(m)' : \E x \in Stored(r) : copy[x] = y
    BY <2>1 DEF Bijection, Surjection
  <2>3. QED
    BY <1>14, <1>16, <1>20, <1>21, <1>22, <2>1, <2>2 DEF Copied

-----------------------------------------------------------------------------
(* The theorems *)

\* The invariant holds before the first call.
LEMMA InitOK == Init => IInv
<1> SUFFICES ASSUME Init PROVE IInv
  OBVIOUS
<1>1. /\ \A m \in Maps : size[m] = 0 /\ bucket[m] = EmptyIndex(0) /\ items[m] = 0
      /\ \A m \in Maps : limits[m] = <<10, 100000>>
  BY DEF Init, DefaultLimits
<1>2. NodesIn(EmptyIndex(0), 0) = {} /\ EmptyIndex(0) \in [0..(0 - 1) -> SUBSET Nodes]
  BY DEF NodesIn, EmptyIndex
<1>3. \A m \in Maps : Stored(m) = {}
  BY <1>1, <1>2 DEF Stored
<1>4. Range(cache) = {} /\ IsInjective(cache) /\ cache \in Seq(Nodes)
  <2>1. cache = <<>> /\ DOMAIN cache = {}
    BY DEF Init
  <2>2. QED
    BY <2>1 DEF Range, IsInjective
<1>5. TypeOK
  <2>1. /\ bucket = [m \in Maps |-> bucket[m]]
        /\ \A m \in Maps : bucket[m] \in [0..(size[m] - 1) -> SUBSET Nodes]
    BY <1>1, <1>2 DEF Init
  <2>2. QED
    BY <1>4, <2>1 DEF Init, TypeOK, DefaultLimits, Contents
<1>6. IndexWithinLimits
  BY <1>1 DEF IndexWithinLimits
<1>7. NodesPartitioned
  BY <1>3, <1>4 DEF NodesPartitioned, Init
<1>8. KeysFindable
  BY <1>1, <1>3 DEF KeysFindable
<1>9. ItemsCounted
  BY <1>1, <1>3, FS_EmptySet DEF ItemsCounted
<1>10. QED
  BY <1>5, <1>6, <1>7, <1>8, <1>9 DEF IInv

\* Every call keeps the invariant.
LEMMA StepKeeps == IInv /\ [Next]_vars => IInv'
<1> SUFFICES ASSUME IInv, [Next]_vars PROVE IInv'
  OBVIOUS
<1>1. ASSUME NEW m \in Maps, NEW a \in InitArgs, InitSized(m, a[1], a[2]) PROVE IInv'
  BY <1>1, InitSizedKeeps
<1>2. ASSUME NEW m \in Maps, NEW k \in Keys, NEW v \in Values,
             Set(m, k, v) \/ SetDefault(m, k, v)
      PROVE  IInv'
  BY <1>2, SetKeeps
<1>3. ASSUME NEW m \in Maps, NEW k \in Keys, Get(m, k) \/ Lookup(m, k) PROVE IInv'
  BY <1>3, GetKeeps
<1>4. ASSUME NEW m \in Maps, NEW k \in Keys, Unset(m, k) PROVE IInv'
  BY <1>4, UnsetKeeps
<1>5. ASSUME NEW m \in Maps, Clear(m) \/ Delete(m) PROVE IInv'
  BY <1>5, ClearKeeps
<1>6. ASSUME NEW m \in Maps, NEW r \in Maps, Assign(m, r) PROVE IInv'
  BY <1>6, AssignKeeps
<1>7. CASE ClearCache
  BY <1>7, ClearCacheKeeps
<1>8. CASE UNCHANGED vars
  BY <1>8 DEF vars, IInv, TypeOK, IndexWithinLimits, NodesPartitioned, KeysFindable,
              ItemsCounted, Stored, Contents
<1>9. QED
  BY <1>1, <1>2, <1>3, <1>4, <1>5, <1>6, <1>7, <1>8 DEF Next

\* The inductive invariant holds throughout every run.
THEOREM Invariance == Spec => []IInv
<1>1. QED
  BY InitOK, StepKeeps, PTL DEF Spec

\* The variables keep their types, whatever is done to whichever maps.
THEOREM TypeCorrect == Spec => []TypeOK
<1>1. IInv => TypeOK
  BY DEF IInv
<1>2. QED
  BY <1>1, Invariance, PTL

\* No sequence of calls loses a hash node, links it twice, shares it between
\* maps, or keeps one that hashmap_clear_cache has deallocated.
THEOREM MemorySafe == Spec => []NodesPartitioned
<1>1. IInv => NodesPartitioned
  BY DEF IInv
<1>2. QED
  BY <1>1, Invariance, PTL

\* Every item of a map is found by a lookup of its key, and no key is there
\* twice, for any hash function and through any number of re-indexings.
THEOREM LookupsComplete == Spec => []KeysFindable
<1>1. IInv => KeysFindable
  BY DEF IInv
<1>2. QED
  BY <1>1, Invariance, PTL

\* len(map) is the number of items.
THEOREM LengthCorrect == Spec => []ItemsCounted
<1>1. IInv => ItemsCounted
  BY DEF IInv
<1>2. QED
  BY <1>1, Invariance, PTL

\* The index stays within its limits and is never left without a bucket.
THEOREM IndexBounded == Spec => []IndexWithinLimits
<1>1. IInv => IndexWithinLimits
  BY DEF IInv
<1>2. QED
  BY <1>1, Invariance, PTL

-----------------------------------------------------------------------------
(* From here on: the maps are the partial functions of MapSpec.tla, and what their      *)
(* callers rely on besides.  By the invariant IInv a lookup finds key k in map m exactly *)
(* if some node of m has it, and finds that node (Found).  What a map holds is then a    *)
(* function of its nodes, their keys and items, whatever the buckets look like, and it   *)
(* is enough to know which nodes a call adds, removes, copies or writes to.              *)

-----------------------------------------------------------------------------
(* What a map holds *)

Found ==
  \A m \in Maps, k \in Keys :
    /\ Holds(m, k) <=> \E n \in Stored(m) : key[n] = k
    /\ \A n \in Stored(m) : key[n] = k => Node(m, k) = n
    /\ size[m] > 0 => (Holds(m, k) <=> Located(m, k) # {})

\* The bucket that is searched has all nodes of the map with the key.
LEMMA LookupFinds == IInv => Found
<1> SUFFICES ASSUME IInv, NEW m \in Maps, NEW k \in Keys
             PROVE  /\ Holds(m, k) <=> \E n \in Stored(m) : key[n] = k
                    /\ \A n \in Stored(m) : key[n] = k => Node(m, k) = n
                    /\ size[m] > 0 => (Holds(m, k) <=> Located(m, k) # {})
  BY DEF Found
<1>1. /\ size[m] \in Nat
      /\ \A i \in 0..(size[m] - 1) : \A n \in bucket[m][i] : Slot(Hash[key[n]], size[m]) = i
      /\ \A n, o \in Stored(m) : key[n] = key[o] => n = o
  BY DEF IInv, TypeOK, KeysFindable
<1>2. CASE size[m] = 0
  <2>1. Stored(m) = {}
    BY <1>2 DEF Stored, NodesIn
  <2>2. QED
    BY <1>2, <2>1 DEF Holds
<1>3. CASE size[m] > 0
  <2>1. Slot(Hash[k], size[m]) \in 0..(size[m] - 1)
    BY <1>3, LookupInIndex
  <2>2. \A n \in Located(m, k) : n \in Stored(m) /\ key[n] = k
    BY <2>1 DEF Located, Stored, NodesIn
  <2>3. ASSUME NEW n \in Stored(m), key[n] = k
        PROVE  n \in Located(m, k)
    <3>1. PICK i \in 0..(size[m] - 1) : n \in bucket[m][i]
      BY DEF Stored, NodesIn
    <3>2. i = Slot(Hash[k], size[m])
      BY <1>1, <2>3, <3>1
    <3>3. QED
      BY <2>3, <3>1, <3>2 DEF Located
  <2>4. \A n \in Stored(m) : key[n] = k => Located(m, k) = {n}
    BY <1>1, <2>2, <2>3
  <2>5. QED
    BY <1>3, <2>2, <2>4 DEF Holds, Node, Only
<1>4. QED
  BY <1>1, <1>2, <1>3

\* And after a call.
LEMMA LookupFindsNext == IInv' => Found'
BY LookupFinds, PTL

\* A key of a map has one node, and this is the one a lookup stops at.
LEMMA NodeOfKey ==
  ASSUME IInv, NEW m \in Maps, NEW k \in Keys, Holds(m, k)
  PROVE  Node(m, k) \in Stored(m) /\ key[Node(m, k)] = k
BY LookupFinds DEF Found

\* What a map holds, by its nodes: before a call ...
LEMMA ContentBefore ==
  ASSUME IInv, NEW m \in Maps, NEW k \in Keys
  PROVE  /\ \A n \in Stored(m) : key[n] = k => Content[m][k] = val[n]
         /\ (\A n \in Stored(m) : key[n] # k) => Content[m][k] = Absent
         /\ Content[m][k] = Absent <=> ~Holds(m, k)
<1>1. Content[m][k] = IF Holds(m, k) THEN val[Node(m, k)] ELSE Absent
  BY DEF Content, Holds, Node
<1>2. Holds(m, k) => val[Node(m, k)] # Absent
  <2>1. Stored(m) \subseteq Nodes /\ val \in [Nodes -> Contents]
    BY EachMapOK DEF IInv, TypeOK
  <2>2. QED
    BY <2>1, NodeOfKey, AbsentAssumption DEF Contents
<1>3. QED
  BY <1>1, <1>2, LookupFinds DEF Found

\* ... and after it.
LEMMA ContentAfter ==
  ASSUME IInv', NEW m \in Maps, NEW k \in Keys
  PROVE  /\ \A n \in Stored(m)' : key'[n] = k => Content'[m][k] = val'[n]
         /\ (\A n \in Stored(m)' : key'[n] # k) => Content'[m][k] = Absent
<1>1. Content'[m][k] = IF Holds(m, k)' THEN val'[Node(m, k)'] ELSE Absent
  BY DEF Content, Holds, Node
<1>2. Found'
  BY LookupFindsNext
<1>3. /\ Holds(m, k)' <=> \E n \in Stored(m)' : key'[n] = k
      /\ \A n \in Stored(m)' : key'[n] = k => Node(m, k)' = n
  BY <1>2 DEF Found
<1>4. QED
  BY <1>1, <1>3

\* A map whose nodes, keys and items are as they were holds what it held.
LEMMA SameContent ==
  ASSUME IInv, IInv', NEW m \in Maps, Stored(m)' = Stored(m),
         \A n \in Stored(m) : key'[n] = key[n] /\ val'[n] = val[n]
  PROVE  Content'[m] = Content[m]
<1>1. ASSUME NEW k \in Keys
      PROVE  Content'[m][k] = Content[m][k]
  <2>1. CASE \E n \in Stored(m) : key[n] = k
    BY <2>1, ContentBefore, ContentAfter
  <2>2. CASE \A n \in Stored(m) : key[n] # k
    BY <2>2, ContentBefore, ContentAfter
  <2>3. QED
    BY <2>1, <2>2
<1>2. /\ Content[m] = [k \in Keys |-> Content[m][k]]
      /\ Content'[m] = [k \in Keys |-> Content'[m][k]]
  BY DEF Content
<1>3. QED
  BY <1>1, <1>2

\* A call that concerns map m only, and in it key k only, stores c under it.
LEMMA PutContent ==
  ASSUME NEW m \in Maps, NEW k \in Keys, NEW c,
         \A r \in Maps \ {m} : Content'[r] = Content[r],
         \A j \in Keys \ {k} : Content'[m][j] = Content[m][j],
         Content'[m][k] = c
  PROVE  Content' = [Content EXCEPT ![m][k] = c]
<1>1. /\ Content = [r \in Maps |-> Content[r]]
      /\ Content' = [r \in Maps |-> Content'[r]]
      /\ Content[m] = [j \in Keys |-> Content[m][j]]
      /\ Content'[m] = [j \in Keys |-> Content'[m][j]]
  BY DEF Content
<1>2. Content'[m] = [Content[m] EXCEPT ![k] = c]
  BY <1>1
<1>3. QED
  BY <1>1, <1>2

\* A call that concerns map m only gives it the contents f.
LEMMA MapContent ==
  ASSUME NEW m \in Maps, NEW f,
         \A r \in Maps \ {m} : Content'[r] = Content[r],
         Content'[m] = f
  PROVE  Content' = [Content EXCEPT ![m] = f]
<1>1. /\ Content = [r \in Maps |-> Content[r]]
      /\ Content' = [r \in Maps |-> Content'[r]]
  BY DEF Content
<1>2. QED
  BY <1>1

\* Nothing changes if no map changes.
LEMMA NoContent ==
  ASSUME \A r \in Maps : Content'[r] = Content[r]
  PROVE  Content' = Content
<1>1. /\ Content = [r \in Maps |-> Content[r]]
      /\ Content' = [r \in Maps |-> Content'[r]]
  BY DEF Content
<1>2. QED
  BY <1>1
-----------------------------------------------------------------------------
(* What the calls do to it *)

\* A new key: the map holds the item of its node, and what it held before.
LEMMA CreatePuts ==
  ASSUME IInv, IInv', NEW m \in Maps, NEW k \in Keys, NEW x \in Nodes, Created(m, k, x),
         ~Holds(m, k), \A n \in Nodes \ {x} : val'[n] = val[n]
  PROVE  Content' = [Content EXCEPT ![m][k] = val'[x]]
<1>1. /\ \A r \in Maps : x \notin Stored(r) /\ Stored(r) \subseteq Nodes
      /\ Stored(m)' = Stored(m) \cup {x}
      /\ \A r \in Maps \ {m} : Stored(r)' = Stored(r)
      /\ key \in [Nodes -> Keys \cup {Void}]
      /\ key' = [key EXCEPT ![x] = k]
  BY EachMapOK DEF Created, IInv, TypeOK
<1>2. /\ key'[x] = k
      /\ \A r \in Maps : \A n \in Stored(r) : key'[n] = key[n] /\ val'[n] = val[n]
  BY <1>1
<1>3. \A r \in Maps \ {m} : Content'[r] = Content[r]
  BY <1>1, <1>2, SameContent
<1>4. Content'[m][k] = val'[x]
  BY <1>1, <1>2, ContentAfter
<1>5. ASSUME NEW j \in Keys \ {k}
      PROVE  Content'[m][j] = Content[m][j]
  <2>1. CASE \E n \in Stored(m) : key[n] = j
    BY <1>1, <1>2, <2>1, ContentBefore, ContentAfter
  <2>2. CASE \A n \in Stored(m) : key[n] # j
    <3>1. \A n \in Stored(m)' : key'[n] # j
      BY <1>1, <1>2, <2>2
    <3>2. QED
      BY <2>2, <3>1, ContentBefore, ContentAfter
  <2>3. QED
    BY <2>1, <2>2
<1>6. QED
  BY <1>3, <1>4, <1>5, PutContent

\* A key that is there: its item is written to.
LEMMA WritePuts ==
  ASSUME IInv, IInv', NEW m \in Maps, NEW k \in Keys, NEW v \in Values, Holds(m, k),
         UNCHANGED <<index, key>>, val' = [val EXCEPT ![Node(m, k)] = v]
  PROVE  Content' = [Content EXCEPT ![m][k] = v]
<1> DEFINE x == Node(m, k)
<1>1. x \in Stored(m) /\ key[x] = k
  BY NodeOfKey
<1>2. /\ \A r \in Maps : Stored(r)' = Stored(r) /\ Stored(r) \subseteq Nodes
      /\ key' = key /\ val \in [Nodes -> Contents]
  <2>1. \A r \in Maps : Stored(r)' = Stored(r)
    BY DEF Stored, index
  <2>2. QED
    BY <2>1, EachMapOK DEF IInv, TypeOK
<1>3. /\ \A r \in Maps \ {m} : x \notin Stored(r)
      /\ \A n \in Stored(m) : key[n] = k => n = x
  BY <1>1, LookupFinds DEF IInv, NodesPartitioned, Found
<1>4. val'[x] = v /\ \A n \in Nodes \ {x} : val'[n] = val[n]
  BY <1>1, <1>2
<1> HIDE DEF x
<1>5. \A r \in Maps \ {m} : Content'[r] = Content[r]
  BY <1>2, <1>3, <1>4, SameContent
<1>6. Content'[m][k] = v
  BY <1>1, <1>2, <1>4, ContentAfter
<1>7. ASSUME NEW j \in Keys \ {k}
      PROVE  Content'[m][j] = Content[m][j]
  <2>1. \A n \in Stored(m) : key[n] = j => val'[n] = val[n]
    BY <1>1, <1>2, <1>4
  <2>2. CASE \E n \in Stored(m) : key[n] = j
    BY <1>2, <2>1, <2>2, ContentBefore, ContentAfter
  <2>3. CASE \A n \in Stored(m) : key[n] # j
    BY <1>2, <2>3, ContentBefore, ContentAfter
  <2>4. QED
    BY <2>2, <2>3
<1>8. QED
  BY <1>5, <1>6, <1>7, PutContent

\* A key is removed with its node, whose key and item stay as they are.
LEMMA RemovePuts ==
  ASSUME IInv, IInv', NEW m \in Maps, NEW k \in Keys, Holds(m, k),
         UNCHANGED <<key, val>>,
         Stored(m)' = Stored(m) \ {Node(m, k)},
         \A r \in Maps \ {m} : Stored(r)' = Stored(r)
  PROVE  Content' = [Content EXCEPT ![m][k] = Absent]
<1> DEFINE x == Node(m, k)
<1>1. x \in Stored(m) /\ key[x] = k /\ \A n \in Stored(m) : key[n] = k => n = x
  BY NodeOfKey, LookupFinds DEF Found
<1>2. Stored(m)' = Stored(m) \ {x}
  OBVIOUS
<1> HIDE DEF x
<1>3. \A r \in Maps \ {m} : Content'[r] = Content[r]
  BY SameContent
<1>4. Content'[m][k] = Absent
  <2>1. \A n \in Stored(m)' : key'[n] # k
    BY <1>1, <1>2
  <2>2. QED
    BY <2>1, ContentAfter
<1>5. ASSUME NEW j \in Keys \ {k}
      PROVE  Content'[m][j] = Content[m][j]
  <2>1. CASE \E n \in Stored(m) : key[n] = j
    <3>1. PICK n \in Stored(m) : key[n] = j
      BY <2>1
    <3>2. n \in Stored(m)'
      BY <1>1, <1>2, <3>1
    <3>3. QED
      BY <3>1, <3>2, ContentBefore, ContentAfter
  <2>2. CASE \A n \in Stored(m) : key[n] # j
    BY <1>2, <2>2, ContentBefore, ContentAfter
  <2>3. QED
    BY <2>1, <2>2
<1>6. QED
  BY <1>3, <1>4, <1>5, PutContent

\* A map without nodes holds nothing.
LEMMA FlushDrops ==
  ASSUME IInv, IInv', NEW m \in Maps, UNCHANGED <<key, val>>, Stored(m)' = {},
         \A r \in Maps \ {m} : Stored(r)' = Stored(r)
  PROVE  Content' = [Content EXCEPT ![m] = Map!Empty]
<1>1. \A r \in Maps \ {m} : Content'[r] = Content[r]
  BY SameContent
<1>2. \A k \in Keys : Content'[m][k] = Absent
  BY ContentAfter
<1>3. Content'[m] = [k \in Keys |-> Content'[m][k]]
  BY DEF Content
<1>4. Content'[m] = Map!Empty
  BY <1>2, <1>3 DEF Map!Empty
<1>5. QED
  BY <1>1, <1>4, MapContent

\* A map with copies of the nodes of another one holds what that one holds.
LEMMA CopyAssigns ==
  ASSUME IInv, IInv', NEW m \in Maps, NEW r \in Maps, Copied(m, r)
  PROVE  Content' = [Content EXCEPT ![m] = Content[r]]
<1>1. \A q \in Maps \ {m} : Content'[q] = Content[q]
  BY SameContent DEF Copied
<1>2. PICK copy \in [Stored(r) -> Stored(m)'] :
        /\ \A y \in Stored(m)' : \E x \in Stored(r) : copy[x] = y
        /\ \A x \in Stored(r) : key'[copy[x]] = key[x] /\ val'[copy[x]] = val[x]
  BY DEF Copied
<1>3. ASSUME NEW k \in Keys
      PROVE  Content'[m][k] = Content[r][k]
  <2>1. CASE \E x \in Stored(r) : key[x] = k
    <3>1. PICK x \in Stored(r) : key[x] = k
      BY <2>1
    <3>2. copy[x] \in Stored(m)' /\ key'[copy[x]] = k /\ val'[copy[x]] = val[x]
      BY <1>2, <3>1
    <3>3. QED
      BY <3>1, <3>2, ContentBefore, ContentAfter
  <2>2. CASE \A x \in Stored(r) : key[x] # k
    <3>1. \A y \in Stored(m)' : key'[y] # k
      BY <1>2, <2>2
    <3>2. QED
      BY <2>2, <3>1, ContentBefore, ContentAfter
  <2>3. QED
    BY <2>1, <2>2
<1>4. /\ Content[r] = [k \in Keys |-> Content[r][k]]
      /\ Content'[m] = [k \in Keys |-> Content'[m][k]]
  BY DEF Content
<1>5. Content'[m] = Content[r]
  BY <1>3, <1>4
<1>6. QED
  BY <1>1, <1>5, MapContent

\* A call that leaves indexes, keys and items alone leaves the contents alone.
LEMMA NothingPut ==
  ASSUME UNCHANGED <<index, key, val>>
  PROVE  Content' = Content
BY DEF index, Content, Holds, Located, Node

Writes(n, c) == val' = [val EXCEPT ![n] = c]

\* The node of a new key is given the item c.
LEMMA CreateStep ==
  ASSUME IInv, NEW m \in Maps, NEW k \in Keys, NEW x \in Nodes, NEW c \in Contents,
         size[m] > 0, Located(m, k) = {}, CreateNode(m, k, x),
         Writes(x, c), ret' = c
  PROVE  /\ Content[m][k] = Absent
         /\ Content' = [Content EXCEPT ![m][k] = c]
<1>1. val \in [Nodes -> Contents]
  BY DEF IInv, TypeOK
<1>2. val' \in [Nodes -> Contents] /\ val'[x] = c /\ \A n \in Nodes \ {x} : val'[n] = val[n]
  BY <1>1 DEF Writes
<1>3. IInv' /\ Created(m, k, x)
  BY <1>2, CreateKeeps
<1>4. ~Holds(m, k)
  BY DEF Holds
<1>5. QED
  BY <1>2, <1>3, <1>4, CreatePuts, ContentBefore

\* What a lookup of a key that is there returns.
LEMMA HeldContent ==
  ASSUME IInv, NEW m \in Maps, NEW k \in Keys, size[m] > 0, Located(m, k) # {}
  PROVE  /\ Holds(m, k)
         /\ Content[m][k] = val[Node(m, k)]
         /\ Content[m][k] # Absent
<1>1. Holds(m, k)
  BY DEF Holds
<1>2. QED
  BY <1>1, ContentBefore, NodeOfKey

\* To store what is there already changes nothing.
LEMMA PutSame ==
  ASSUME NEW m \in Maps, NEW k \in Keys, Content' = Content
  PROVE  Content' = [Content EXCEPT ![m][k] = Content[m][k]]
BY PutContent

-----------------------------------------------------------------------------
(* The calls are those of MapSpec *)

\* set
LEMMA SetRefines ==
  ASSUME IInv, NEW m \in Maps, NEW k \in Keys, NEW v \in Values, Set(m, k, v)
  PROVE  Map!Set(m, k, v)
<1>1. size[m] > 0 /\ ret' = v /\ v \in Contents
  BY DEF Set, Contents
<1>2. CASE Located(m, k) = {}
  <2>1. PICK n \in Nodes : CreateNode(m, k, n) /\ Writes(n, v)
    BY <1>2 DEF Set, Writes
  <2>2. Content' = [Content EXCEPT ![m][k] = v]
    BY <1>1, <1>2, <2>1, CreateStep
  <2>3. QED
    BY <1>1, <2>2 DEF Map!Set, Map!Put
<1>3. CASE Located(m, k) # {}
  <2>1. UNCHANGED <<index, key>> /\ val' = [val EXCEPT ![Node(m, k)] = v]
    BY <1>3 DEF Set
  <2>2. IInv' /\ Holds(m, k)
    BY <1>1, <1>3, SetKeeps, HeldContent
  <2>3. Content' = [Content EXCEPT ![m][k] = v]
    BY <2>1, <2>2, WritePuts
  <2>4. QED
    BY <1>1, <2>3 DEF Map!Set, Map!Put
<1>4. QED
  BY <1>2, <1>3

\* setDefault
LEMMA SetDefaultRefines ==
  ASSUME IInv, NEW m \in Maps, NEW k \in Keys, NEW v \in Values, SetDefault(m, k, v)
  PROVE  Map!SetDefault(m, k, v)
<1>1. size[m] > 0 /\ v \in Contents
  BY DEF SetDefault, Contents
<1>2. CASE Located(m, k) = {}
  <2>1. PICK n \in Nodes : CreateNode(m, k, n) /\ Writes(n, v)
    BY <1>2 DEF SetDefault, Writes
  <2>2. ret' = v
    BY <1>2 DEF SetDefault
  <2>3. Content[m][k] = Absent /\ Content' = [Content EXCEPT ![m][k] = v]
    BY <1>1, <1>2, <2>1, <2>2, CreateStep
  <2>4. QED
    BY <2>2, <2>3 DEF Map!SetDefault, Map!Put
<1>3. CASE Located(m, k) # {}
  <2>1. UNCHANGED <<index, key, val>> /\ ret' = val[Node(m, k)]
    BY <1>3 DEF SetDefault
  <2>2. Content[m][k] # Absent /\ ret' = Content[m][k]
    BY <1>1, <1>3, <2>1, HeldContent
  <2>3. Content' = [Content EXCEPT ![m][k] = Content[m][k]]
    BY <2>1, NothingPut, PutSame
  <2>4. QED
    BY <2>2, <2>3 DEF Map!SetDefault, Map!Put
<1>4. QED
  BY <1>2, <1>3

\* get: what was left in the node of a new key does not show.
LEMMA GetRefines ==
  ASSUME IInv, NEW m \in Maps, NEW k \in Keys, Get(m, k)
  PROVE  Map!Get(m, k)
<1>1. size[m] > 0 /\ Void \in Contents
  BY DEF Get, Contents
<1>2. CASE Located(m, k) = {}
  <2>1. PICK n \in Nodes : CreateNode(m, k, n) /\ Writes(n, Void) /\ ret' = val'[n]
    BY <1>2 DEF Get, StaleItem, Writes
  <2>2. ret' = Void
    BY <2>1 DEF Writes, IInv, TypeOK
  <2>3. Content[m][k] = Absent /\ Content' = [Content EXCEPT ![m][k] = Void]
    BY <1>1, <1>2, <2>1, <2>2, CreateStep
  <2>4. QED
    BY <2>2, <2>3 DEF Map!Get, Map!Put
<1>3. CASE Located(m, k) # {}
  <2>1. UNCHANGED <<index, key, val>> /\ ret' = val[Node(m, k)]
    BY <1>3 DEF Get
  <2>2. Content[m][k] # Absent /\ ret' = Content[m][k]
    BY <1>1, <1>3, <2>1, HeldContent
  <2>3. Content' = [Content EXCEPT ![m][k] = Content[m][k]]
    BY <2>1, NothingPut, PutSame
  <2>4. QED
    BY <2>2, <2>3 DEF Map!Get, Map!Put
<1>4. QED
  BY <1>2, <1>3

\* getPtr, hasKey
LEMMA LookupRefines ==
  ASSUME IInv, NEW m \in Maps, NEW k \in Keys, Lookup(m, k)
  PROVE  Map!Lookup(m, k)
<1>1. size[m] > 0 /\ UNCHANGED <<index, key, val>>
  BY DEF Lookup
<1>2. ret' = Content[m][k]
  <2>1. CASE Located(m, k) = {}
    BY <2>1, ContentBefore DEF Lookup, Holds
  <2>2. CASE Located(m, k) # {}
    BY <1>1, <2>2, HeldContent DEF Lookup
  <2>3. QED
    BY <2>1, <2>2
<1>3. QED
  BY <1>1, <1>2, NothingPut DEF Map!Lookup

\* remove, unset, pop
LEMMA UnsetRefines ==
  ASSUME IInv, NEW m \in Maps, NEW k \in Keys, Unset(m, k)
  PROVE  Map!Unset(m, k)
<1>1. size[m] > 0 /\ UNCHANGED <<key, val>>
  BY DEF Unset
<1>2. CASE Located(m, k) = {}
  <2>1. ret' = Absent /\ UNCHANGED index
    BY <1>2 DEF Unset
  <2>2. Content[m][k] = Absent
    BY <1>2, ContentBefore DEF Holds
  <2>3. Content' = [Content EXCEPT ![m][k] = Content[m][k]]
    BY <1>1, <2>1, NothingPut, PutSame
  <2>4. QED
    BY <2>1, <2>2, <2>3 DEF Map!Unset, Map!Put
<1>3. CASE Located(m, k) # {}
  <2>1. ret' = Content[m][k] /\ Holds(m, k)
    BY <1>1, <1>3, HeldContent DEF Unset
  <2>2. /\ IInv'
        /\ Stored(m)' = Stored(m) \ {Node(m, k)}
        /\ \A r \in Maps \ {m} : Stored(r)' = Stored(r)
    BY <1>3, UnsetKeeps
  <2>3. Content' = [Content EXCEPT ![m][k] = Absent]
    BY <1>1, <2>1, <2>2, RemovePuts
  <2>4. QED
    BY <2>1, <2>3 DEF Map!Unset, Map!Put
<1>4. QED
  BY <1>2, <1>3

\* clear, delete
LEMMA ClearRefines ==
  ASSUME IInv, NEW m \in Maps, Clear(m) \/ Delete(m)
  PROVE  Map!Drop(m)
<1>1. UNCHANGED <<key, val>> /\ ret' = Absent
  BY DEF Clear, Delete
<1>2. /\ IInv'
      /\ Stored(m)' = {}
      /\ \A r \in Maps \ {m} : Stored(r)' = Stored(r)
  BY ClearKeeps
<1>3. QED
  BY <1>1, <1>2, FlushDrops DEF Map!Drop

\* initialize keeps what the map holds if its index has the wanted size, and
\* starts over otherwise.
LEMMA InitSizedRefines ==
  ASSUME IInv, NEW m \in Maps, NEW a \in InitArgs, InitSized(m, a[1], a[2])
  PROVE  IF size[m] = Larger(1, a[1]) THEN Map!Housekeeping ELSE Map!Drop(m)
<1>1. UNCHANGED <<key, val>> /\ ret' = Absent
  BY DEF InitSized
<1>2. CASE size[m] = Larger(1, a[1])
  <2>1. UNCHANGED <<index, cache>>
    BY <1>2 DEF InitSized
  <2>2. QED
    BY <1>1, <1>2, <2>1, NothingPut DEF Map!Housekeeping
<1>3. CASE size[m] # Larger(1, a[1])
  <2>1. /\ IInv' /\ Stored(m)' = {}
        /\ \A r \in Maps \ {m} : Stored(r)' = Stored(r)
    BY <1>3, InitSizedKeeps
  <2>2. QED
    BY <1>1, <1>3, <2>1, FlushDrops DEF Map!Drop
<1>4. QED
  BY <1>2, <1>3

\* assign
LEMMA AssignRefines ==
  ASSUME IInv, NEW m \in Maps, NEW r \in Maps, Assign(m, r)
  PROVE  Map!Assign(m, r)
<1>1. IInv' /\ Copied(m, r)
  BY AssignKeeps
<1>2. ret' = Absent
  BY DEF Assign
<1>3. QED
  BY <1>1, <1>2, CopyAssigns DEF Map!Assign

\* hashmap_clear_cache: no map has a node of the cache.
LEMMA ClearCacheRefines == ASSUME IInv, ClearCache PROVE Map!Housekeeping
<1>1. /\ UNCHANGED index /\ ret' = Absent
      /\ key' = [n \in Nodes |-> IF n \in Range(cache) THEN Void ELSE key[n]]
      /\ val' = [n \in Nodes |-> IF n \in Range(cache) THEN Void ELSE val[n]]
  BY DEF ClearCache
<1>2. ASSUME NEW m \in Maps
      PROVE  Content'[m] = Content[m]
  <2>1. Stored(m)' = Stored(m)
    BY <1>1 DEF Stored, index
  <2>2. Stored(m) \subseteq Nodes /\ Stored(m) \cap Range(cache) = {}
    BY EachMapOK DEF IInv, TypeOK
  <2>3. \A n \in Stored(m) : key'[n] = key[n] /\ val'[n] = val[n]
    BY <1>1, <2>2
  <2>4. QED
    BY <2>1, <2>3, ClearCacheKeeps, SameContent
<1>3. QED
  BY <1>1, <1>2, NoContent DEF Map!Housekeeping

\* Nothing is in a map that was never initialized.
LEMMA InitRefines == Init => Map!Init
<1> SUFFICES ASSUME Init PROVE Map!Init
  OBVIOUS
<1>1. \A m \in Maps, k \in Keys : ~Holds(m, k)
  BY DEF Init, Holds
<1>2. Content = [m \in Maps |-> Map!Empty]
  BY <1>1 DEF Content, Holds, Map!Empty
<1>3. QED
  BY <1>2 DEF Init, Map!Init

\* Every call is a call of MapSpec.
LEMMA StepRefines == IInv /\ [Next]_vars => [Map!Next]_Map!mapVars
<1> SUFFICES ASSUME IInv, [Next]_vars PROVE [Map!Next]_Map!mapVars
  OBVIOUS
<1>1. ASSUME NEW m \in Maps, NEW a \in InitArgs, InitSized(m, a[1], a[2]) PROVE Map!Next
  BY <1>1, InitSizedRefines DEF Map!Next
<1>2. ASSUME NEW m \in Maps, NEW k \in Keys, NEW v \in Values, Set(m, k, v) PROVE Map!Next
  BY <1>2, SetRefines DEF Map!Next
<1>3. ASSUME NEW m \in Maps, NEW k \in Keys, NEW v \in Values, SetDefault(m, k, v) PROVE Map!Next
  BY <1>3, SetDefaultRefines DEF Map!Next
<1>4. ASSUME NEW m \in Maps, NEW k \in Keys, Get(m, k) PROVE Map!Next
  BY <1>4, GetRefines DEF Map!Next
<1>5. ASSUME NEW m \in Maps, NEW k \in Keys, Lookup(m, k) PROVE Map!Next
  BY <1>5, LookupRefines DEF Map!Next
<1>6. ASSUME NEW m \in Maps, NEW k \in Keys, Unset(m, k) PROVE Map!Next
  BY <1>6, UnsetRefines DEF Map!Next
<1>7. ASSUME NEW m \in Maps, Clear(m) \/ Delete(m) PROVE Map!Next
  BY <1>7, ClearRefines DEF Map!Next
<1>8. ASSUME NEW m \in Maps, NEW r \in Maps, Assign(m, r) PROVE Map!Next
  BY <1>8, AssignRefines DEF Map!Next
<1>9. CASE ClearCache
  BY <1>9, ClearCacheRefines DEF Map!Next
<1>10. CASE UNCHANGED vars
  BY <1>10, NothingPut DEF vars, index, Map!mapVars
<1>11. QED
  BY <1>1, <1>2, <1>3, <1>4, <1>5, <1>6, <1>7, <1>8, <1>9, <1>10 DEF Next

\* For any hash function, any limits and any history of the node cache, the maps
\* are partial functions that do not know of each other: no call shows the item
\* of another key or map, loses one, or keeps one that was removed.
THEOREM MapsImplemented == Spec => ImplementsMap
<1>1. QED
  BY InitRefines, StepRefines, Invariance, PTL DEF Spec, ImplementsMap, Map!Spec

\* Each call is the one of MapSpec with its name: what it changes in the maps and
\* what it returns depends on nothing but what the maps held.
THEOREM CallsRight == Spec => CallsAgree
<1> DEFINE Agrees ==
      /\ \A m \in Maps, k \in Keys :
           /\ \A v \in Values : Set(m, k, v) => Map!Set(m, k, v)
           /\ \A v \in Values : SetDefault(m, k, v) => Map!SetDefault(m, k, v)
           /\ Get(m, k) => Map!Get(m, k)
           /\ Lookup(m, k) => Map!Lookup(m, k)
           /\ Unset(m, k) => Map!Unset(m, k)
      /\ \A m \in Maps : Clear(m) \/ Delete(m) => Map!Drop(m)
      /\ \A m, r \in Maps : Assign(m, r) => Map!Assign(m, r)
      /\ \A m \in Maps, a \in InitArgs : InitSized(m, a[1], a[2]) =>
           IF size[m] = Larger(1, a[1]) THEN Map!Housekeeping ELSE Map!Drop(m)
      /\ ClearCache => Map!Housekeeping
<1>1. IInv => Agrees
  <2> SUFFICES ASSUME IInv PROVE Agrees
    OBVIOUS
  <2>1. \A m \in Maps, k \in Keys :
          /\ \A v \in Values : Set(m, k, v) => Map!Set(m, k, v)
          /\ \A v \in Values : SetDefault(m, k, v) => Map!SetDefault(m, k, v)
          /\ Get(m, k) => Map!Get(m, k)
    BY SetRefines, SetDefaultRefines, GetRefines
  <2>2. \A m \in Maps, k \in Keys :
          (Lookup(m, k) => Map!Lookup(m, k)) /\ (Unset(m, k) => Map!Unset(m, k))
    BY LookupRefines, UnsetRefines
  <2>3. /\ \A m \in Maps : Clear(m) \/ Delete(m) => Map!Drop(m)
        /\ \A m, r \in Maps : Assign(m, r) => Map!Assign(m, r)
    BY ClearRefines, AssignRefines
  <2>4. \A m \in Maps, a \in InitArgs : InitSized(m, a[1], a[2]) =>
          IF size[m] = Larger(1, a[1]) THEN Map!Housekeeping ELSE Map!Drop(m)
    BY InitSizedRefines
  <2>5. QED
    BY <2>1, <2>2, <2>3, <2>4, ClearCacheRefines
<1>2. CallsAgree <=> [][Agrees]_vars
  BY DEF CallsAgree
<1> HIDE DEF Agrees
<1>3. IInv /\ [Next]_vars => [Agrees]_vars
  BY <1>1
<1>4. QED
  BY <1>2, <1>3, Invariance, PTL DEF Spec

-----------------------------------------------------------------------------
(* Pointers to items *)

\* A call other than assign adds nodes to a map or removes nodes, never both,
\* and leaves the keys of those it had alone.
NodesKept ==
  \A m \in Maps : /\ Stored(m) \subseteq Stored(m)' \/ Stored(m)' \subseteq Stored(m)
                  /\ \A n \in Stored(m) : key'[n] = key[n]

\* A node taken for a new key is the only change to the nodes of the maps.
LEMMA CreateKeepsNodes ==
  ASSUME IInv, NEW m \in Maps, NEW k \in Keys, NEW x \in Nodes, Created(m, k, x)
  PROVE  NodesKept
<1>1. \A r \in Maps : Stored(r) \subseteq Nodes /\ key \in [Nodes -> Keys \cup {Void}]
  BY EachMapOK DEF IInv, TypeOK
<1>2. QED
  BY <1>1 DEF Created, NodesKept

\* set, setDefault and get create the node of a key, or keep every node.
LEMMA CreationOf ==
  ASSUME IInv, NEW m \in Maps, NEW k \in Keys,
         \/ \E v \in Values : Set(m, k, v) \/ SetDefault(m, k, v)
         \/ Get(m, k)
  PROVE  \/ \E x \in Nodes : /\ CreateNode(m, k, x) /\ Created(m, k, x)
                             /\ \A n \in Nodes \ {x} : val'[n] = val[n]
         \/ /\ UNCHANGED <<index, memory, limits, key>>
            /\ \A n \in Nodes \ Stored(m) : val'[n] = val[n]
<1>1. size[m] > 0 /\ val \in [Nodes -> Contents] /\ Void \in Contents /\ Values \subseteq Contents
  BY DEF Set, SetDefault, Get, IInv, TypeOK, Contents
<1>2. CASE Located(m, k) = {}
  <2>1. PICK x \in Nodes, c \in Contents : CreateNode(m, k, x) /\ Writes(x, c) /\ ret' = c
    <3>1. CASE Get(m, k)
      <4>1. PICK x \in Nodes : CreateNode(m, k, x) /\ Writes(x, Void) /\ ret' = val'[x]
        BY <1>2, <3>1 DEF Get, StaleItem, Writes
      <4>2. ret' = Void
        BY <1>1, <4>1 DEF Writes
      <4>3. QED
        BY <1>1, <4>1, <4>2
    <3>2. CASE \E v \in Values : Set(m, k, v)
      BY <1>1, <1>2, <3>2 DEF Set, Writes
    <3>3. CASE \E v \in Values : SetDefault(m, k, v)
      BY <1>1, <1>2, <3>3 DEF SetDefault, Writes
    <3>4. QED
      BY <3>1, <3>2, <3>3
  <2>2. val' \in [Nodes -> Contents] /\ \A n \in Nodes \ {x} : val'[n] = val[n]
    BY <1>1, <2>1 DEF Writes
  <2>3. Created(m, k, x)
    BY <1>1, <1>2, <2>1, <2>2, CreateKeeps
  <2>4. QED
    BY <2>1, <2>2, <2>3
<1>3. CASE Located(m, k) # {}
  <2>1. /\ UNCHANGED <<index, memory, limits, key>>
        /\ val' = val \/ \E v \in Values : Writes(Node(m, k), v)
    BY <1>3 DEF Set, SetDefault, Get, Writes
  <2>2. Node(m, k) \in Stored(m)
    BY <1>1, <1>3, HeldContent, NodeOfKey
  <2>3. \A n \in Nodes \ Stored(m) : val'[n] = val[n]
    BY <1>1, <2>1, <2>2 DEF Writes
  <2>4. QED
    BY <2>1, <2>3
<1>4. QED
  BY <1>2, <1>3

\* Nodes that stay where they are keep their keys.
LEMMA SameNodes ==
  ASSUME UNCHANGED <<index, key>>
  PROVE  NodesKept
BY DEF index, NodesKept, Stored

\* Every call but assign keeps nodes and keys.
LEMMA StepKeepsNodes ==
  ASSUME IInv, [Next]_vars, ~ \E m, r \in Maps : Assign(m, r)
  PROVE  NodesKept
<1>1. ASSUME NEW m \in Maps, NEW a \in InitArgs, InitSized(m, a[1], a[2]) PROVE NodesKept
  <2>1. key' = key /\ (Stored(m)' = {} \/ UNCHANGED index)
    BY <1>1, InitSizedKeeps DEF InitSized
  <2>2. \A r \in Maps \ {m} : Stored(r)' = Stored(r)
    BY <1>1, InitSizedKeeps
  <2>3. QED
    BY <2>1, <2>2, SameNodes DEF NodesKept
<1>2. ASSUME NEW m \in Maps, NEW k \in Keys,
             \/ \E v \in Values : Set(m, k, v) \/ SetDefault(m, k, v)
             \/ Get(m, k)
      PROVE  NodesKept
  BY <1>2, CreationOf, CreateKeepsNodes, SameNodes
<1>3. ASSUME NEW m \in Maps, NEW k \in Keys, Lookup(m, k) PROVE NodesKept
  BY <1>3, SameNodes DEF Lookup
<1>4. ASSUME NEW m \in Maps, NEW k \in Keys, Unset(m, k) PROVE NodesKept
  <2>1. CASE Located(m, k) = {}
    BY <1>4, <2>1, SameNodes DEF Unset
  <2>2. CASE Located(m, k) # {}
    <3>1. /\ Stored(m)' = Stored(m) \ {Node(m, k)}
          /\ \A r \in Maps \ {m} : Stored(r)' = Stored(r)
      BY <1>4, <2>2, UnsetKeeps
    <3>2. key' = key
      BY <1>4 DEF Unset
    <3>3. QED
      BY <3>1, <3>2 DEF NodesKept
  <2>3. QED
    BY <2>1, <2>2
<1>5. ASSUME NEW m \in Maps, Clear(m) \/ Delete(m) PROVE NodesKept
  <2>1. Stored(m)' = {} /\ \A r \in Maps \ {m} : Stored(r)' = Stored(r)
    BY <1>5, ClearKeeps
  <2>2. key' = key
    BY <1>5 DEF Clear, Delete
  <2>3. QED
    BY <2>1, <2>2 DEF NodesKept
<1>6. CASE ClearCache
  <2>1. \A m \in Maps : Stored(m)' = Stored(m)
    BY <1>6 DEF ClearCache, index, Stored
  <2>2. \A m \in Maps : Stored(m) \subseteq Nodes /\ Stored(m) \cap Range(cache) = {}
    BY EachMapOK DEF IInv, TypeOK
  <2>3. \A m \in Maps : \A n \in Stored(m) : key'[n] = key[n]
    BY <1>6, <2>2 DEF ClearCache
  <2>4. QED
    BY <2>1, <2>3 DEF NodesKept
<1>7. CASE UNCHANGED vars
  BY <1>7, SameNodes DEF vars, index
<1>8. QED
  BY <1>1, <1>2, <1>3, <1>4, <1>5, <1>6, <1>7 DEF Next

\* The item a caller has a pointer to stays the item of its key, whatever is
\* done to other keys and other maps and however often the map is re-indexed.
THEOREM PointersGood == Spec => PointersStable
<1> DEFINE Stable ==
      (\E m, r \in Maps : Assign(m, r)) \/
      \A m \in Maps, k \in Keys : Holds(m, k) /\ Holds(m, k)' => Node(m, k)' = Node(m, k)
<1>1. IInv /\ IInv' /\ [Next]_vars => Stable
  <2> SUFFICES ASSUME IInv, IInv', [Next]_vars, ~ \E m, r \in Maps : Assign(m, r),
                      NEW m \in Maps, NEW k \in Keys, Holds(m, k), Holds(m, k)'
               PROVE  Node(m, k)' = Node(m, k)
    OBVIOUS
  <2>1. NodesKept
    BY StepKeepsNodes
  <2>2. /\ Node(m, k) \in Stored(m) /\ key[Node(m, k)] = k
        /\ \A n \in Stored(m) : key[n] = k => n = Node(m, k)
    BY NodeOfKey, LookupFinds DEF Found
  <2>3. Found'
    BY LookupFindsNext
  <2>4. PICK o \in Stored(m)' : key'[o] = k
    BY <2>3 DEF Found
  <2>5. \A n \in Stored(m)' : key'[n] = k => n = Node(m, k)'
    BY <2>3 DEF Found
  <2>6. CASE Stored(m) \subseteq Stored(m)'
    BY <2>1, <2>2, <2>5, <2>6 DEF NodesKept
  <2>7. CASE Stored(m)' \subseteq Stored(m)
    BY <2>1, <2>2, <2>4, <2>5, <2>7 DEF NodesKept
  <2>8. QED
    BY <2>1, <2>6, <2>7 DEF NodesKept
<1>2. PointersStable <=> [][Stable]_vars
  BY DEF PointersStable
<1> HIDE DEF Stable
<1>3. IInv /\ IInv' /\ [Next]_vars => [Stable]_vars
  BY <1>1
<1>4. QED
  BY <1>2, <1>3, Invariance, PTL DEF Spec

-----------------------------------------------------------------------------
(* The cache *)

\* The item of a node that a call puts or leaves in the cache, which the pointer
\* pop returned leads to, is not written to.
THEOREM PoppedReadable == Spec => CachedItemsKept
<1> DEFINE Kept == \A n \in heap \cap Range(cache') : val'[n] = val[n]
<1>1. IInv /\ [Next]_vars => Kept
  <2> SUFFICES ASSUME IInv, [Next]_vars PROVE Kept
    OBVIOUS
  <2>1. /\ heap \subseteq Nodes
        /\ \A m \in Maps : Stored(m) \cap Range(cache) = {}
    BY EachMapOK DEF IInv, TypeOK
  <2>2. CASE val' = val
    BY <2>2
  <2>3. ASSUME NEW m \in Maps, NEW k \in Keys,
               \/ \E v \in Values : Set(m, k, v) \/ SetDefault(m, k, v)
               \/ Get(m, k)
        PROVE  Kept
    <3>1. CASE \E x \in Nodes : Created(m, k, x) /\ \A n \in Nodes \ {x} : val'[n] = val[n]
      BY <2>1, <3>1 DEF Created
    <3>2. CASE UNCHANGED memory /\ \A n \in Nodes \ Stored(m) : val'[n] = val[n]
      BY <2>1, <3>2 DEF memory
    <3>3. QED
      BY <2>3, <3>1, <3>2, CreationOf
  <2>4. ASSUME NEW m \in Maps, NEW r \in Maps, Assign(m, r) PROVE Kept
    BY <2>4, AssignKeeps DEF Copied
  <2>5. CASE ClearCache
    BY <2>5 DEF ClearCache, Range
  <2>6. QED
    BY <2>2, <2>3, <2>4, <2>5
       DEF Next, InitSized, Lookup, Unset, Clear, Delete, vars
<1>2. CachedItemsKept <=> [][Kept]_vars
  BY DEF CachedItemsKept
<1> HIDE DEF Kept
<1>3. IInv /\ [Next]_vars => [Kept]_vars
  BY <1>1
<1>4. QED
  BY <1>2, <1>3, Invariance, PTL DEF Spec

\* The order of nodes in a sequence, when the first one is taken from it, ...
LEMMA TailOrder ==
  ASSUME NEW c \in Seq(Nodes), IsInjective(c), NEW o, NEW n, Before(c, o, n)
  PROVE  /\ n \in Range(Tail(c))
         /\ o \in Range(Tail(c)) => Before(Tail(c), o, n)
<1>1. PICK i, j \in DOMAIN c : i < j /\ c[i] = o /\ c[j] = n
  BY DEF Before
<1>2. Len(c) \in Nat /\ DOMAIN c = 1..Len(c) /\ c # <<>>
  <2>1. Len(c) \in Nat /\ DOMAIN c = 1..Len(c)
    BY LenProperties
  <2>2. QED
    BY <1>1, <2>1, EmptySeq
<1>3. /\ Len(Tail(c)) = Len(c) - 1 /\ DOMAIN Tail(c) = 1..(Len(c) - 1)
      /\ \A l \in 1..(Len(c) - 1) : Tail(c)[l] = c[l + 1]
  <2>1. Tail(c) \in Seq(Nodes) /\ Len(Tail(c)) = Len(c) - 1
    BY <1>2, HeadTailProperties
  <2>2. QED
    BY <1>2, <2>1, HeadTailProperties, LenProperties
<1>4. j - 1 \in DOMAIN Tail(c) /\ Tail(c)[j - 1] = n
  BY <1>1, <1>2, <1>3
<1>5. ASSUME o \in Range(Tail(c))
      PROVE  Before(Tail(c), o, n)
  <2>1. PICK l \in 1..(Len(c) - 1) : c[l + 1] = o
    BY <1>3, <1>5 DEF Range
  <2>2. i = l + 1
    BY <1>1, <1>2, <2>1 DEF IsInjective
  <2>3. l \in DOMAIN Tail(c) /\ Tail(c)[l] = o /\ l < j - 1
    BY <1>1, <1>2, <1>3, <2>1, <2>2
  <2>4. QED
    BY <1>4, <2>3 DEF Before
<1>6. QED
  BY <1>4, <1>5 DEF Range

\* ... when others are added at its end, ...
LEMMA ConcatOrder ==
  ASSUME NEW c \in Seq(Nodes), NEW t \in Seq(Nodes), NEW o, NEW n, Before(c, o, n)
  PROVE  Before(c \o t, o, n)
<1>1. PICK i, j \in DOMAIN c : i < j /\ c[i] = o /\ c[j] = n
  BY DEF Before
<1>2. /\ Len(c) \in Nat /\ DOMAIN c = 1..Len(c) /\ Len(t) \in Nat
      /\ c \o t \in Seq(Nodes) /\ Len(c \o t) = Len(c) + Len(t)
      /\ \A l \in 1..(Len(c) + Len(t)) :
           (c \o t)[l] = IF l <= Len(c) THEN c[l] ELSE t[l - Len(c)]
  BY LenProperties, ConcatProperties
<1>3. DOMAIN (c \o t) = 1..(Len(c) + Len(t))
  BY <1>2, LenProperties
<1>4. /\ i \in DOMAIN (c \o t) /\ (c \o t)[i] = o
      /\ j \in DOMAIN (c \o t) /\ (c \o t)[j] = n
  BY <1>1, <1>2, <1>3
<1>5. QED
  BY <1>1, <1>4 DEF Before

\* ... and when its end is cut off.
LEMMA CutOrder ==
  ASSUME NEW c \in Seq(Nodes), IsInjective(c), NEW k \in 0..Len(c), NEW o, NEW n,
         Before(c, o, n), n \in Range(SubSeq(c, 1, k))
  PROVE  Before(SubSeq(c, 1, k), o, n)
<1>1. PICK i, j \in DOMAIN c : i < j /\ c[i] = o /\ c[j] = n
  BY DEF Before
<1>2. Len(c) \in Nat /\ DOMAIN c = 1..Len(c) /\ \A l \in 1..Len(c) : c[l] \in Nodes
  BY LenProperties
<1>3. DOMAIN SubSeq(c, 1, k) = 1..k /\ \A l \in 1..k : SubSeq(c, 1, k)[l] = c[l]
  BY <1>2, CutElements
<1>4. PICK l \in 1..k : c[l] = n
  BY <1>3 DEF Range
<1>5. l = j
  BY <1>1, <1>2, <1>4 DEF IsInjective
<1>6. i \in 1..k /\ j \in 1..k
  BY <1>1, <1>2, <1>4, <1>5
<1>7. QED
  BY <1>1, <1>3, <1>6 DEF Before

\* A call other than assign adds nodes to the end of the cache, takes the one at
\* its front, or deallocates all of them.
LEMMA CacheMoves ==
  ASSUME IInv, [Next]_vars, ~ \E m, r \in Maps : Assign(m, r)
  PROVE  cache' = <<>> \/ cache' = Tail(cache) \/ \E t \in Seq(Nodes) : cache' = cache \o t
<1> DEFINE Grows == \E t \in Seq(Nodes) : cache' = cache \o t
<1> SUFFICES cache' = <<>> \/ cache' = Tail(cache) \/ Grows
  OBVIOUS
<1>1. cache' = cache => Grows
  <2>1. cache \in Seq(Nodes)
    BY DEF IInv, TypeOK
  <2>2. cache \o <<>> = cache /\ <<>> \in Seq(Nodes)
    BY <2>1
  <2>3. QED
    BY <2>2
<1>2. ASSUME NEW m \in Maps, NEW n, Flush(m, n) PROVE Grows
  <2>1. PICK s \in FlushOrders(m) : cache' = cache \o s
    BY <1>2 DEF Flush
  <2>2. QED
    BY <2>1, FlushedNodes
<1>3. ASSUME NEW m \in Maps, NEW k \in Keys,
             \/ \E v \in Values : Set(m, k, v) \/ SetDefault(m, k, v)
             \/ Get(m, k)
      PROVE  cache' = cache \/ cache' = Tail(cache)
  BY <1>3, CreationOf DEF CreateNode, TakeNode, memory
<1>4. ASSUME NEW m \in Maps, NEW k \in Keys, Unset(m, k)
      PROVE  Grows
  <2>1. CASE Located(m, k) = {}
    BY <1>1, <1>4, <2>1 DEF Unset
  <2>2. CASE Located(m, k) # {}
    <3>1. Node(m, k) \in Nodes /\ cache \in Seq(Nodes)
      BY <1>4, <2>2, HeldContent, NodeOfKey, EachMapOK
         DEF Unset, IInv, TypeOK
    <3>2. <<Node(m, k)>> \in Seq(Nodes) /\ Append(cache, Node(m, k)) = cache \o <<Node(m, k)>>
      BY <3>1, AppendIsConcat
    <3>3. QED
      BY <1>4, <2>2, <3>2 DEF Unset
  <2>3. QED
    BY <2>1, <2>2
<1>5. ASSUME NEW m \in Maps, NEW a \in InitArgs, InitSized(m, a[1], a[2])
      PROVE  Grows
  BY <1>1, <1>2, <1>5 DEF InitSized
<1>6. ASSUME NEW m \in Maps, Clear(m) \/ Delete(m) PROVE Grows
  BY <1>2, <1>6 DEF Clear, Delete
<1>7. ASSUME NEW m \in Maps, NEW k \in Keys, Lookup(m, k) PROVE cache' = cache
  BY <1>7 DEF Lookup, memory
<1>8. CASE ClearCache
  BY <1>8 DEF ClearCache
<1>9. CASE UNCHANGED vars
  BY <1>1, <1>9 DEF vars
<1> HIDE DEF Grows
<1>10. QED
  BY <1>1, <1>3, <1>4, <1>5, <1>6, <1>7, <1>8, <1>9 DEF Next

\* Assign adds nodes to the end of the cache and takes others from there.
LEMMA AssignCuts ==
  ASSUME IInv, NEW m \in Maps, NEW r \in Maps, Assign(m, r), NEW o, NEW n,
         Before(cache, o, n), n \in Range(cache')
  PROVE  Before(cache', o, n)
<1>1. PICK s \in FlushOrders(m) : \E f \in NewNodes(items[r] - Len(cache \o s)) :
        CopyNodes(m, r, cache \o s \o f)
  BY DEF Assign
<1>2. PICK f \in NewNodes(items[r] - Len(cache \o s)) : CopyNodes(m, r, cache \o s \o f)
  BY <1>1
<1> DEFINE full == cache \o s \o f
           keep == Len(full) - Cardinality(Stored(r))
<1>3. keep >= 0 /\ cache' = SubSeq(full, 1, keep)
  BY <1>2 DEF CopyNodes
<1>4. /\ cache \in Seq(Nodes) /\ s \in Seq(Nodes) /\ f \in Seq(Nodes)
      /\ cache \o s \in Seq(Nodes) /\ full \in Seq(Nodes) /\ IsInjective(full)
  BY FilledCache DEF IInv, TypeOK
<1>5. Before(full, o, n)
  <2>1. Before(cache \o s, o, n)
    BY <1>4, ConcatOrder
  <2>2. QED
    BY <1>4, <2>1, ConcatOrder
<1> HIDE DEF full
<1>6. keep \in 0..Len(full)
  <2>1. Cardinality(Stored(r)) \in Nat
    BY EachMapOK, NodesInIndex DEF IndexOK
  <2>2. QED
    BY <1>3, <1>4, <2>1, LenProperties
<1> HIDE DEF keep
<1>7. QED
  BY <1>3, <1>4, <1>5, <1>6, CutOrder

\* The nodes in the cache keep their order, and a node removed later is not taken
\* for a new key before one removed earlier: what pop returned is lost the later,
\* the later it was removed.  Only assign takes the later ones first.
THEOREM CacheInOrder == Spec => CacheOrderKept
<1> DEFINE Assigned == \E m, r \in Maps : Assign(m, r)
           Fits(o, n) == /\ {o, n} \subseteq Range(cache') => Before(cache', o, n)
                         /\ o \in Range(cache') /\ n \notin Range(cache') => Assigned
                         /\ n \in Range(cache') /\ o \notin Range(cache') => ~Assigned
           Ordered  == \A i, j \in DOMAIN cache : i < j => Fits(cache[i], cache[j])
<1>1. IInv /\ [Next]_vars => Ordered
  <2> SUFFICES ASSUME IInv, [Next]_vars, NEW o, NEW n, Before(cache, o, n)
               PROVE  Fits(o, n)
    BY DEF Before
  <2>1. cache \in Seq(Nodes) /\ IsInjective(cache)
    BY DEF IInv, TypeOK, NodesPartitioned, IsInjective
  <2>2. CASE Assigned
    <3>1. n \in Range(cache') => Before(cache', o, n)
      BY <2>2, AssignCuts
    <3>2. Before(cache', o, n) => o \in Range(cache')
      BY DEF Before, Range
    <3>3. QED
      BY <2>2, <3>1, <3>2
  <2>3. CASE ~Assigned /\ cache' = <<>>
    BY <2>3 DEF Range
  <2>4. CASE ~Assigned /\ cache' = Tail(cache)
    BY <2>1, <2>4, TailOrder
  <2>5. ASSUME ~Assigned, NEW t \in Seq(Nodes), cache' = cache \o t
        PROVE  n \in Range(cache') /\ Before(cache', o, n)
    <3>1. Before(cache', o, n)
      BY <2>1, <2>5, ConcatOrder
    <3>2. QED
      BY <3>1 DEF Before, Range
  <2>6. QED
    BY <2>2, <2>3, <2>4, <2>5, CacheMoves
<1>2. CacheOrderKept <=> [][Ordered]_vars
  BY DEF CacheOrderKept
<1> HIDE DEF Ordered
<1>3. IInv /\ [Next]_vars => [Ordered]_vars
  BY <1>1
<1>4. QED
  BY <1>2, <1>3, Invariance, PTL DEF Spec

-----------------------------------------------------------------------------
(* The load *)

\* The load of an index of n buckets with cnt items is at most 1.8, or the index
\* cannot grow.
LoadOK(n, cnt, lim) ==
  n > 0 /\ lim[1] < lim[2] => 5 * cnt <= 9 * n \/ n >= lim[2]

\* One re-indexing after each insertion or removal is enough.
LEMMA ResizeKeepsLoad ==
  ASSUME NEW cur \in Nat \ {0}, NEW old \in Nat, NEW cnt \in Int, NEW lim \in Int \X Int,
         Limited(cur, lim), LoadOK(cur, old, lim), cnt = old + 1 \/ cnt = old - 1
  PROVE  LoadOK(IndexSize(cur, cnt, lim), cnt, lim)
<1>1. lim[1] \in Int /\ lim[2] \in Int /\ 1 <= lim[1] /\ lim[1] <= cur /\ cur <= lim[2]
  BY DEF Limited
<1> DEFINE l == lim[1]
           h == lim[2]
           wanted == IF cnt > cur THEN 2 * cur ELSE cur \div 2
<1>2. CASE ~(l < h)
  BY <1>2 DEF LoadOK
<1>3. CASE l < h /\ ~(5 * Abs(cnt - cur) > 4 * cur)
  <2>1. IndexSize(cur, cnt, lim) = cur
    BY <1>3 DEF IndexSize
  <2>2. 5 * cnt <= 9 * cur
    BY <1>3 DEF Abs
  <2>3. QED
    BY <2>1, <2>2 DEF LoadOK
<1>4. CASE l < h /\ 5 * Abs(cnt - cur) > 4 * cur
  <2>1. IndexSize(cur, cnt, lim) = Smaller(Larger(wanted, l), h)
    BY <1>4 DEF IndexSize
  <2>2. CASE cnt > cur
    <3>1. 5 * old <= 9 * cur \/ cur >= h
      BY <1>1, <1>4 DEF LoadOK
    <3>2. 5 * cnt <= 9 * (2 * cur) \/ cur >= h
      BY <3>1
    <3>3. Larger(wanted, l) = 2 * cur
      BY <1>1, <2>2 DEF Larger
    <3>4. IndexSize(cur, cnt, lim) = IF 2 * cur > h THEN h ELSE 2 * cur
      BY <1>1, <2>1, <3>3 DEF Smaller
    <3>5. QED
      BY <1>1, <3>2, <3>4 DEF LoadOK
  <2>3. CASE cnt <= cur
    <3>1. 5 * cnt < cur /\ wanted = cur \div 2 /\ wanted \in Nat /\ cur <= 2 * wanted + 1
      BY <2>3, <1>4 DEF Abs
    <3> HIDE DEF wanted
    <3>2. /\ IndexSize(cur, cnt, lim) \in Int
          /\ IndexSize(cur, cnt, lim) >= wanted \/ IndexSize(cur, cnt, lim) >= h
          /\ IndexSize(cur, cnt, lim) >= 1
      BY <1>1, <2>1, <3>1 DEF Larger, Smaller
    <3>3. QED
      BY <3>1, <3>2 DEF LoadOK
  <2>4. QED
    BY <2>2, <2>3
<1>5. QED
  BY <1>2, <1>3, <1>4

\* A call registers one item more or less in one map and re-indexes it, gives it
\* another map's index, empties it, or changes neither sizes nor counts.
SizesMove(m) ==
  /\ \A q \in Maps \ {m} : size'[q] = size[q] /\ items'[q] = items[q]
  /\ \/ items'[m] = 0
     \/ \E r \in Maps : size'[m] = size[r] /\ items'[m] = items[r] /\ limits'[m] = limits[r]
     \/ /\ size[m] > 0
        /\ items'[m] = items[m] + 1 \/ items'[m] = items[m] - 1
        /\ size'[m] = IndexSize(size[m], items'[m], limits[m])

LEMMA StepMovesSizes ==
  ASSUME IInv, [Next]_vars, limits' = limits
  PROVE  UNCHANGED <<size, items>> \/ \E m \in Maps : SizesMove(m)
<1>1. size \in [Maps -> Nat] /\ items \in [Maps -> Int]
  BY DEF IInv, TypeOK
<1>2. ASSUME NEW m \in Maps, NEW n, Flush(m, n) PROVE SizesMove(m)
  BY <1>1, <1>2 DEF Flush, SizesMove
<1>3. ASSUME NEW m \in Maps, NEW b, NEW ky, NEW cnt, size[m] > 0, ChangeItemCnt(m, b, ky, cnt),
             cnt = items[m] + 1 \/ cnt = items[m] - 1
      PROVE  SizesMove(m)
  BY <1>1, <1>3 DEF ChangeItemCnt, SizesMove
<1>4. ASSUME NEW m \in Maps, NEW k \in Keys,
             \/ \E v \in Values : Set(m, k, v) \/ SetDefault(m, k, v)
             \/ Get(m, k)
      PROVE  UNCHANGED <<size, items>> \/ SizesMove(m)
  <2>1. size[m] > 0
    BY <1>4 DEF Set, SetDefault, Get
  <2>2. CASE \E x \in Nodes : CreateNode(m, k, x)
    BY <1>3, <2>1, <2>2 DEF CreateNode
  <2>3. CASE UNCHANGED index
    BY <2>3 DEF index
  <2>4. QED
    BY <1>4, <2>2, <2>3, CreationOf
<1>5. ASSUME NEW m \in Maps, NEW k \in Keys, Unset(m, k)
      PROVE  UNCHANGED <<size, items>> \/ SizesMove(m)
  <2>1. CASE Located(m, k) = {}
    BY <1>5, <2>1 DEF Unset, index
  <2>2. CASE Located(m, k) # {}
    BY <1>3, <1>5, <2>2 DEF Unset
  <2>3. QED
    BY <2>1, <2>2
<1>6. ASSUME NEW m \in Maps, NEW r \in Maps, Assign(m, r) PROVE SizesMove(m)
  <2>1. /\ size' = [size EXCEPT ![m] = size[r]]
        /\ items' = [items EXCEPT ![m] = items[r]]
        /\ limits' = [limits EXCEPT ![m] = limits[r]]
        /\ limits \in [Maps -> Int \X Int]
    BY <1>6 DEF Assign, IInv, TypeOK
  <2>2. QED
    BY <1>1, <2>1 DEF SizesMove
<1>7. ASSUME NEW m \in Maps, NEW a \in InitArgs, InitSized(m, a[1], a[2])
      PROVE  UNCHANGED <<size, items>> \/ SizesMove(m)
  <2>1. CASE UNCHANGED index
    BY <2>1 DEF index
  <2>2. CASE \E n : Flush(m, n)
    BY <1>2, <2>2
  <2>3. QED
    BY <1>7, <2>1, <2>2 DEF InitSized
<1>8. ASSUME NEW m \in Maps, Clear(m) \/ Delete(m) PROVE SizesMove(m)
  BY <1>2, <1>8 DEF Clear, Delete
<1>9. ASSUME NEW m \in Maps, NEW k \in Keys, Lookup(m, k) PROVE UNCHANGED <<size, items>>
  BY <1>9 DEF Lookup, index
<1>10. CASE ClearCache
  BY <1>10 DEF ClearCache, index
<1>11. CASE UNCHANGED vars
  BY <1>11 DEF vars
<1>12. QED
  BY <1>4, <1>5, <1>6, <1>7, <1>8, <1>9, <1>10, <1>11 DEF Next

\* Once the load of every map is at most 1.8 items per bucket it stays so, in
\* whatever order the calls come, while the limits stay as they are.
THEOREM LoadBoundKept == Spec => LoadStaysBounded
<1> DEFINE Bounded == \A m \in Maps : LoadBounded(m)
           Stays == Bounded /\ limits' = limits => (\A m \in Maps : LoadBounded(m))'
<1>1. IInv /\ IInv' /\ [Next]_vars => Stays
  <2> SUFFICES ASSUME IInv, IInv', [Next]_vars, Bounded, limits' = limits, NEW q \in Maps
               PROVE  LoadBounded(q)'
    OBVIOUS
  <2>1. \A m \in Maps : LoadOK(size[m], items[m], limits[m])
    BY DEF LoadBounded, LoadOK
  <2>2. LoadBounded(q)' <=> LoadOK(size'[q], items'[q], limits[q])
    BY DEF LoadBounded, LoadOK
  <2>3. /\ size \in [Maps -> Nat] /\ items \in [Maps -> Int]
        /\ limits[q] \in Int \X Int /\ Limited(size[q], limits[q])
        /\ size'[q] \in Nat /\ items[q] \in Nat
    <3>1. Limited(size[q], limits[q]) /\ items[q] = Cardinality(Stored(q))
      BY EachMapOK DEF IndexOK
    <3>2. items[q] \in Nat
      BY <3>1, EachMapOK, NodesInIndex, SMTT(30) DEF IndexOK
    <3>3. QED
      BY <3>1, <3>2 DEF IInv, TypeOK
  <2>4. CASE UNCHANGED <<size, items>>
    BY <2>1, <2>2, <2>4
  <2>5. ASSUME NEW m \in Maps, SizesMove(m) PROVE LoadOK(size'[q], items'[q], limits[q])
    <3>1. CASE q # m
      BY <2>1, <2>5, <3>1 DEF SizesMove
    <3>2. CASE q = m /\ items'[m] = 0
      BY <2>3, <3>2 DEF LoadOK
    <3>3. CASE q = m /\ \E r \in Maps : /\ size'[m] = size[r] /\ items'[m] = items[r]
                                        /\ limits'[m] = limits[r]
      BY <2>1, <3>3
    <3>4. CASE /\ q = m
               /\ size[m] > 0
               /\ items'[m] = items[m] + 1 \/ items'[m] = items[m] - 1
               /\ size'[m] = IndexSize(size[m], items'[m], limits[m])
      <4>1. /\ size[m] \in Nat \ {0} /\ items[m] \in Nat /\ items'[m] \in Int
            /\ limits[m] \in Int \X Int /\ Limited(size[m], limits[m])
            /\ LoadOK(size[m], items[m], limits[m])
        BY <2>1, <2>3, <3>4
      <4>2. LoadOK(IndexSize(size[m], items'[m], limits[m]), items'[m], limits[m])
        BY <3>4, <4>1, ResizeKeepsLoad
      <4>3. QED
        BY <3>4, <4>2
    <3>5. QED
      BY <2>5, <3>1, <3>2, <3>3, <3>4 DEF SizesMove
  <2>6. QED
    BY <2>2, <2>4, <2>5, StepMovesSizes
<1>2. LoadStaysBounded <=> [][Stays]_vars
  BY DEF LoadStaysBounded
<1> HIDE DEF Stays
<1>3. IInv /\ IInv' /\ [Next]_vars => [Stays]_vars
  BY <1>1
<1>4. QED
  BY <1>2, <1>3, Invariance, PTL DEF Spec

-----------------------------------------------------------------------------
(* The memory in use *)

\* The nodes of the maps are at most as many as there are pairs of a map and a key.
LEMMA NodesOfMaps ==
  ASSUME IInv
  PROVE  /\ Cardinality(UNION {Stored(m) : m \in Maps}) <= Cardinality(Maps) * Cardinality(Keys)
         /\ IsFiniteSet(UNION {Stored(m) : m \in Maps})
<1> DEFINE all == UNION {Stored(m) : m \in Maps}
           mapOf == [n \in all |-> CHOOSE m \in Maps : n \in Stored(m)]
           f == [n \in all |-> <<mapOf[n], key[n]>>]
<1>1. \A n \in all : mapOf[n] \in Maps /\ n \in Stored(mapOf[n])
  OBVIOUS
<1> HIDE DEF mapOf
<1>2. \A m \in Maps : \A n \in Stored(m) : key[n] \in Keys
  BY DEF IInv, KeysFindable, Stored, NodesIn
<1>3. \A m \in Maps : \A n, o \in Stored(m) : key[n] = key[o] => n = o
  BY DEF IInv, KeysFindable
<1>4. f \in [all -> Maps \X Keys]
  BY <1>1, <1>2
<1>5. ASSUME NEW n \in all, NEW o \in all, f[n] = f[o]
      PROVE  n = o
  <2>1. mapOf[n] = mapOf[o] /\ key[n] = key[o]
    BY <1>5
  <2>2. mapOf[n] \in Maps /\ n \in Stored(mapOf[n]) /\ o \in Stored(mapOf[n])
    BY <1>1, <2>1
  <2>3. QED
    BY <1>3, <2>1, <2>2
<1>6. f \in Injection(all, Maps \X Keys)
  BY <1>4, <1>5 DEF Injection, IsInjective
<1>7. /\ IsFiniteSet(Maps \X Keys)
      /\ Cardinality(Maps \X Keys) = Cardinality(Maps) * Cardinality(Keys)
  BY BoundAssumption, FS_Product
<1> HIDE DEF f, all
<1>8. IsFiniteSet(all) /\ Cardinality(all) <= Cardinality(Maps \X Keys)
  BY <1>6, <1>7, FS_Injection DEF ExistsInjection
<1>9. QED
  BY <1>7, <1>8 DEF all

\* A call that allocates nodes leaves no node in the cache.
LEMMA AllocationEmptiesCache ==
  ASSUME IInv, [Next]_vars
  PROVE  heap' \subseteq heap \/ cache' = <<>>
<1>1. ASSUME NEW m \in Maps, NEW k \in Keys,
             \/ \E v \in Values : Set(m, k, v) \/ SetDefault(m, k, v)
             \/ Get(m, k)
      PROVE  heap' = heap \/ cache' = <<>>
  BY <1>1, CreationOf DEF CreateNode, TakeNode, memory
<1>2. ASSUME NEW m \in Maps, NEW r \in Maps, Assign(m, r) PROVE heap' = heap \/ cache' = <<>>
  BY <1>2, AssignKeeps DEF Copied
<1>3. CASE ClearCache
  BY <1>3 DEF ClearCache
<1>4. ASSUME NEW m \in Maps, NEW a \in InitArgs, InitSized(m, a[1], a[2]) PROVE heap' = heap
  BY <1>4 DEF InitSized
<1>5. ASSUME NEW m \in Maps, Clear(m) \/ Delete(m) PROVE heap' = heap
  BY <1>5 DEF Clear, Delete
<1>6. ASSUME NEW m \in Maps, NEW k \in Keys, Lookup(m, k) \/ Unset(m, k) PROVE heap' = heap
  BY <1>6 DEF Lookup, Unset, memory
<1>7. CASE UNCHANGED vars
  BY <1>7 DEF vars
<1>8. QED
  BY <1>1, <1>2, <1>3, <1>4, <1>5, <1>6, <1>7 DEF Next

\* Nodes are allocated only by a call that leaves no unused node: the memory in
\* use grows only when all of it is needed.
THEOREM AllocatesLast == Spec => [][heap' \subseteq heap \/ cache' = <<>>]_vars
<1> DEFINE Thrifty == heap' \subseteq heap \/ cache' = <<>>
<1>1. IInv /\ [Next]_vars => [Thrifty]_vars
  BY AllocationEmptiesCache
<1> HIDE DEF Thrifty
<1>2. Spec => [][Thrifty]_vars
  BY <1>1, Invariance, PTL DEF Spec
<1>3. QED
  BY <1>2 DEF Thrifty

\* An empty cache bounds the memory.
LEMMA EmptyCacheBounds == IInv /\ cache = <<>> => MemoryBounded
<1> SUFFICES ASSUME IInv, cache = <<>> PROVE MemoryBounded
  OBVIOUS
<1>1. Range(cache) = {}
  BY DEF Range
<1>2. heap = UNION {Stored(m) : m \in Maps}
  BY <1>1 DEF IInv, NodesPartitioned
<1>3. QED
  BY <1>2, NodesOfMaps DEF MemoryBounded

LEMMA EmptyCacheBoundsNext == (IInv /\ cache = <<>>)' => MemoryBounded'
BY EmptyCacheBounds, PTL

\* Whatever the calls and however many: there are never more nodes than pairs of
\* a map and a key, which is what the maps can hold at one time.
THEOREM MemoryBound == Spec => []MemoryBounded
<1>1. Init => MemoryBounded
  BY InitOK, EmptyCacheBounds DEF Init
<1>2. IInv /\ IInv' /\ MemoryBounded /\ [Next]_vars => MemoryBounded'
  <2> SUFFICES ASSUME IInv, IInv', MemoryBounded, [Next]_vars PROVE MemoryBounded'
    OBVIOUS
  <2>1. CASE cache' = <<>>
    BY <2>1, EmptyCacheBoundsNext
  <2>2. CASE heap' \subseteq heap
    <3>1. IsFiniteSet(heap)
      BY FiniteAssumption, FS_Subset DEF IInv, TypeOK
    <3>2. /\ Cardinality(heap') <= Cardinality(heap)
          /\ Cardinality(heap') \in Nat /\ Cardinality(heap) \in Nat
      BY <2>2, <3>1, FS_Subset, FS_CardinalityType
    <3>3. Cardinality(Maps) \in Nat /\ Cardinality(Keys) \in Nat
      BY BoundAssumption, FS_CardinalityType
    <3>4. Cardinality(Maps) * Cardinality(Keys) \in Nat
      BY <3>3
    <3>5. Cardinality(heap) <= Cardinality(Maps) * Cardinality(Keys)
      BY DEF MemoryBounded
    <3> DEFINE bound == Cardinality(Maps) * Cardinality(Keys)
    <3>6. bound \in Nat /\ Cardinality(heap) <= bound
      BY <3>4, <3>5
    <3> HIDE DEF bound
    <3>7. Cardinality(heap') <= bound
      BY <3>2, <3>6
    <3>8. QED
      BY <3>7 DEF MemoryBounded, bound
  <2>3. QED
    BY <2>1, <2>2, AllocationEmptiesCache
<1>3. QED
  BY <1>1, <1>2, Invariance, PTL DEF Spec


=============================================================================
