---------------------------- MODULE CallbacksProofs ----------------------------
(***************************************************************************)
(* Proofs that a hook calls its callbacks in order and misses none, and    *)
(* that the thunk of a Python function lives as long as it is connected,   *)
(* for any number of hooks, procedures and calls within calls, where       *)
(* callbacks are not disconnected while they are running.                  *)
(*                                                                         *)
(* The invariant that a hook has called a prefix of its list (the ghost    *)
(* variable of Callbacks.tla) is not inductive: that the loop goes on      *)
(* where it was takes that the running callback is the last one of that    *)
(* prefix, and in the list only once; that it survives a disconnection     *)
(* takes that the loop of scope_disconnect_callback_c keeps order (Less).  *)
(***************************************************************************)
EXTENDS Callbacks, SequenceTheorems, WellFoundedInduction, TLAPS

-----------------------------------------------------------------------------
(* Induction over numbers, for sets of them *)

\* A set with zero and the successors of its members has all natural numbers: a
\* least counterexample has a predecessor.
LEMMA SetInduction ==
  ASSUME NEW S, S \subseteq Nat, 0 \in S, \A n \in S : n + 1 \in S
  PROVE  S = Nat
<1> DEFINE less == {ss \in Nat \X Nat : ss[1] < ss[2]}
<1>1. IsWellFoundedOn(less, Nat)
  BY NatLessThanWellFounded DEF OpToRel
<1>2. less = {ss \in Nat \X Nat : ss[1] < ss[2]}
  OBVIOUS
<1> HIDE DEF less
<1>3. SUFFICES ASSUME Nat \ S # {} PROVE FALSE
  OBVIOUS
<1>4. PICK x \in Nat \ S : \A y \in Nat \ S : <<y, x>> \notin less
  BY <1>1, <1>3, WFMin
<1>5. x # 0 /\ x - 1 \in Nat
  BY <1>4
<1>6. <<x - 1, x>> \in less
  BY <1>2, <1>5
<1>7. x - 1 \in S
  BY <1>4, <1>5, <1>6
<1>8. QED
  BY <1>4, <1>5, <1>7

-----------------------------------------------------------------------------
(* Sequences *)

\* A prefix, element by element.
LEMMA PrefixElements ==
  ASSUME NEW E, NEW s \in Seq(E), NEW t \in Seq(E)
  PROVE  IsPrefix(s, t) <=> Len(s) <= Len(t) /\ \A i \in 1..Len(s) : s[i] = t[i]
<1>1. /\ Len(s) \in Nat /\ Len(t) \in Nat
      /\ \A i \in 1..Len(s) : s[i] \in E
      /\ \A i \in 1..Len(t) : t[i] \in E
  BY LenProperties
<1>2. SUFFICES ASSUME Len(s) <= Len(t)
               PROVE  SubSeq(s, 1, Len(s)) = SubSeq(t, 1, Len(s)) <=>
                        \A i \in 1..Len(s) : s[i] = t[i]
  BY DEF IsPrefix
<1>3. SubSeq(s, 1, Len(s)) = s
  BY SubSeqFull
<1>4. /\ SubSeq(t, 1, Len(s)) \in Seq(E)
      /\ Len(SubSeq(t, 1, Len(s))) = Len(s)
      /\ \A i \in 1..Len(s) : SubSeq(t, 1, Len(s))[i] = t[i]
  <2>1. \A i \in 1..Len(s) : t[i] \in E
    BY <1>1, <1>2
  <2>2. /\ SubSeq(t, 1, Len(s)) \in Seq(E)
        /\ Len(SubSeq(t, 1, Len(s))) = IF 1 <= Len(s) THEN Len(s) - 1 + 1 ELSE 0
        /\ \A i \in 1..(Len(s) - 1 + 1) : SubSeq(t, 1, Len(s))[i] = t[1 + i - 1]
    BY <1>1, <2>1, SubSeqProperties
  <2>3. QED
    BY <1>1, <2>2
<1>5. CASE \A i \in 1..Len(s) : s[i] = t[i]
  <2>1. s = SubSeq(t, 1, Len(s))
    BY <1>4, <1>5, SeqEqual
  <2>2. QED
    BY <1>3, <1>5, <2>1
<1>6. CASE SubSeq(s, 1, Len(s)) = SubSeq(t, 1, Len(s))
  BY <1>3, <1>4, <1>6
<1>7. QED
  BY <1>5, <1>6

-----------------------------------------------------------------------------
(* What the loop of scope_disconnect_callback_c leaves *)

\* left[k] is what is left of the first k nodes of s.
Leaves(E, s, gone, left) ==
  /\ left \in [0..Len(s) -> Seq(E)]
  /\ left[0] = <<>>
  /\ \A k \in 1..Len(s) :
       left[k] = IF s[k] \in gone THEN left[k - 1] ELSE Append(left[k - 1], s[k])

\* There is such a function, and Less is its last value.
LEMMA LessLeaves ==
  ASSUME NEW E, NEW s \in Seq(E), NEW gone
  PROVE  \E left : Leaves(E, s, gone, left) /\ Less(s, gone) = left[Len(s)]
<1> DEFINE Step(f, n) == [k \in 0..n |-> IF k = 0 THEN <<>>
                             ELSE IF s[k] \in gone THEN f[k - 1] ELSE Append(f[k - 1], s[k])]
           Upto(n, f) == f = Step(f, n) /\ f \in [0..n -> Seq(E)]
           Some(n) == \E f : Upto(n, f)
<1>1. Len(s) \in Nat /\ \A i \in 1..Len(s) : s[i] \in E
  BY LenProperties
<1>2. Some(0)
  <2> DEFINE f == [k \in 0..0 |-> <<>>]
  <2>1. f = Step(f, 0) /\ f \in [0..0 -> Seq(E)]
    BY EmptySeq
  <2>2. QED
    BY <2>1
<1>3. ASSUME NEW n \in Nat, n + 1 <= Len(s), Some(n) PROVE Some(n + 1)
  <2>1. n + 1 <= Len(s)
    BY <1>3
  <2>2. PICK f : Upto(n, f)
    BY <1>3
  <2> DEFINE x == IF s[n + 1] \in gone THEN f[n] ELSE Append(f[n], s[n + 1])
             g == [k \in 0..(n + 1) |-> IF k = n + 1 THEN x ELSE f[k]]
  <2>3. n \in Nat /\ f[n] \in Seq(E) /\ s[n + 1] \in E
    BY <1>1, <2>1, <2>2
  <2>4. x \in Seq(E)
    BY <2>3, AppendProperties
  <2> HIDE DEF x
  <2>5. g \in [0..(n + 1) -> Seq(E)]
    BY <2>2, <2>3, <2>4
  <2>6. ASSUME NEW k \in 0..(n + 1)
        PROVE  g[k] = IF k = 0 THEN <<>>
                      ELSE IF s[k] \in gone THEN g[k - 1] ELSE Append(g[k - 1], s[k])
    <3>1. CASE k = n + 1
      BY <2>3, <3>1 DEF x
    <3>2. CASE k # n + 1
      <4>1. k \in 0..n /\ g[k] = f[k] /\ (k # 0 => g[k - 1] = f[k - 1])
        BY <2>3, <3>2
      <4>2. f[k] = IF k = 0 THEN <<>>
                   ELSE IF s[k] \in gone THEN f[k - 1] ELSE Append(f[k - 1], s[k])
        BY <2>2, <4>1
      <4>3. QED
        BY <4>1, <4>2
    <3>3. QED
      BY <3>1, <3>2
  <2>7. g = Step(g, n + 1)
    BY <2>6
  <2>8. QED
    BY <2>5, <2>7
<1>4. Some(Len(s))
  <2> HIDE DEF Some
  <2> DEFINE Good == {n \in Nat : n <= Len(s) => Some(n)}
  <2>1. 0 \in Good /\ Good \subseteq Nat
    BY <1>2
  <2>2. \A n \in Good : n + 1 \in Good
    BY <1>1, <1>3
  <2>3. Good = Nat
    <3> HIDE DEF Good
    <3>1. QED
      BY <2>1, <2>2, SetInduction
  <2>4. QED
    BY <1>1, <2>3
<1>5. PICK f : Upto(Len(s), f)
  BY <1>4
<1> DEFINE left == CHOOSE l : l = Step(l, Len(s))
<1>6. left = Step(left, Len(s))
  BY <1>5
<1>7. Less(s, gone) = left[Len(s)]
  BY DEF Less
<1>8. ASSUME NEW l, l = Step(l, Len(s)) PROVE l = f
  <2> DEFINE Same == {n \in Nat : n <= Len(s) => l[n] = f[n]}
  <2>1. /\ \A k \in 0..Len(s) :
             l[k] = IF k = 0 THEN <<>>
                    ELSE IF s[k] \in gone THEN l[k - 1] ELSE Append(l[k - 1], s[k])
        /\ \A k \in 0..Len(s) :
             f[k] = IF k = 0 THEN <<>>
                    ELSE IF s[k] \in gone THEN f[k - 1] ELSE Append(f[k - 1], s[k])
    BY <1>5, <1>8
  <2>2. 0 \in Same
    BY <1>1, <2>1
  <2>3. ASSUME NEW n \in Same PROVE n + 1 \in Same
    <3>1. SUFFICES ASSUME n + 1 <= Len(s) PROVE l[n + 1] = f[n + 1]
      OBVIOUS
    <3>2. n + 1 \in 0..Len(s) /\ n + 1 # 0 /\ (n + 1) - 1 = n /\ l[n] = f[n]
      BY <1>1, <3>1
    <3>3. QED
      BY <2>1, <3>2
  <2>4. Same = Nat
    <3>1. Same \subseteq Nat
      OBVIOUS
    <3> HIDE DEF Same
    <3>2. QED
      BY <2>2, <2>3, <3>1, SetInduction
  <2>5. \A k \in 0..Len(s) : l[k] = f[k]
    BY <1>1, <2>4
  <2>6. l = [k \in 0..Len(s) |-> l[k]] /\ f = [k \in 0..Len(s) |-> f[k]]
    BY <1>5, <1>8
  <2>7. QED
    BY <2>5, <2>6
<1> HIDE DEF left
<1>9. left = f
  BY <1>6, <1>8
<1>10. Leaves(E, s, gone, f)
  <2>1. /\ f \in [0..Len(s) -> Seq(E)]
        /\ \A k \in 0..Len(s) :
             f[k] = IF k = 0 THEN <<>>
                    ELSE IF s[k] \in gone THEN f[k - 1] ELSE Append(f[k - 1], s[k])
    BY <1>5
  <2>2. f[0] = <<>>
    BY <1>1, <2>1
  <2>3. \A k \in 1..Len(s) : k \in 0..Len(s) /\ k # 0
    BY <1>1
  <2>4. \A k \in 1..Len(s) :
          f[k] = IF s[k] \in gone THEN f[k - 1] ELSE Append(f[k - 1], s[k])
    BY <2>1, <2>3
  <2>5. f \in [0..Len(s) -> Seq(E)]
    BY <2>1
  <2> HIDE DEF Upto, Step
  <2>6. QED
    BY <2>2, <2>4, <2>5 DEF Leaves
<1>11. QED
  BY <1>7, <1>9, <1>10

\* The nodes that are left, each once.
LEMMA LessElements ==
  ASSUME NEW E, NEW s \in Seq(E), NEW gone, IsInjective(s)
  PROVE  /\ Less(s, gone) \in Seq(E)
         /\ IsInjective(Less(s, gone))
         /\ ToSet(Less(s, gone)) = ToSet(s) \ gone
<1>1. /\ Len(s) \in Nat /\ DOMAIN s = 1..Len(s)
      /\ \A i \in 1..Len(s) : s[i] \in E
  BY LenProperties
<1>2. PICK left : Leaves(E, s, gone, left) /\ Less(s, gone) = left[Len(s)]
  BY LessLeaves
<1>3. /\ left \in [0..Len(s) -> Seq(E)]
      /\ left[0] = <<>>
      /\ \A k \in 1..Len(s) :
           left[k] = IF s[k] \in gone THEN left[k - 1] ELSE Append(left[k - 1], s[k])
  BY <1>2 DEF Leaves
<1> DEFINE Right(k) == /\ IsInjective(left[k])
                       /\ ToSet(left[k]) = {s[i] : i \in 1..k} \ gone
<1>4. Right(0)
  BY <1>3 DEF IsInjective, ToSet
<1>5. ASSUME NEW k \in Nat, k + 1 <= Len(s), Right(k) PROVE Right(k + 1)
  <2>1. /\ k \in 0..Len(s) /\ k + 1 \in 1..Len(s) /\ (k + 1) - 1 = k
        /\ left[k] \in Seq(E) /\ s[k + 1] \in E
    BY <1>1, <1>3, <1>5
  <2>2. left[k + 1] = IF s[k + 1] \in gone THEN left[k] ELSE Append(left[k], s[k + 1])
    BY <1>3, <2>1
  <2>3. {s[i] : i \in 1..(k + 1)} = {s[i] : i \in 1..k} \cup {s[k + 1]}
    <3>1. 1..(k + 1) = (1..k) \cup {k + 1}
      BY <2>1
    <3>2. QED
      BY <3>1
  <2>4. CASE s[k + 1] \in gone
    BY <1>5, <2>2, <2>3, <2>4
  <2>5. CASE s[k + 1] \notin gone
    <3> DEFINE t == left[k]
               x == s[k + 1]
    <3>1. /\ t \in Seq(E) /\ x \in E /\ IsInjective(t)
          /\ ToSet(t) = {s[i] : i \in 1..k} \ gone /\ left[k + 1] = Append(t, x)
      BY <1>5, <2>1, <2>2, <2>5
    <3>2. \A i \in 1..k : s[i] # x
      <4>1. \A i \in 1..k : i \in 1..Len(s) /\ i # k + 1
        BY <1>1, <2>1
      <4>2. QED
        BY <1>1, <2>1, <4>1 DEF IsInjective
    <3>3. x \notin ToSet(t)
      BY <3>1, <3>2
    <3> HIDE DEF t, x
    <3>4. /\ Len(t) \in Nat /\ DOMAIN t = 1..Len(t)
          /\ DOMAIN Append(t, x) = 1..(Len(t) + 1)
          /\ \A i \in 1..Len(t) : Append(t, x)[i] = t[i]
          /\ Append(t, x)[Len(t) + 1] = x
      BY <3>1, LenProperties, AppendProperties
    <3>5. \A i \in 1..Len(t) : t[i] # x
      BY <3>3, <3>4 DEF ToSet
    <3>6. IsInjective(Append(t, x))
      BY <3>1, <3>4, <3>5 DEF IsInjective
    <3>7. ToSet(Append(t, x)) = ToSet(t) \cup {x}
      BY <3>4 DEF ToSet
    <3>8. QED
      BY <2>3, <2>5, <3>1, <3>6, <3>7 DEF x
  <2>6. QED
    BY <2>4, <2>5
<1>6. Right(Len(s))
  <2> HIDE DEF Right
  <2> DEFINE Good == {n \in Nat : n <= Len(s) => Right(n)}
  <2>1. 0 \in Good /\ Good \subseteq Nat
    BY <1>4
  <2>2. \A n \in Good : n + 1 \in Good
    BY <1>1, <1>5
  <2>3. Good = Nat
    <3> HIDE DEF Good
    <3>1. QED
      BY <2>1, <2>2, SetInduction
  <2>4. QED
    BY <1>1, <2>3
<1>7. {s[i] : i \in 1..Len(s)} = ToSet(s)
  BY <1>1 DEF ToSet
<1>8. Less(s, gone) \in Seq(E)
  BY <1>1, <1>2, <1>3
<1>9. QED
  BY <1>2, <1>6, <1>7, <1>8

\* What is left of the first nodes is left of all nodes, in the same place.
LEMMA LessGrows ==
  ASSUME NEW E, NEW s \in Seq(E), NEW gone, NEW left, Leaves(E, s, gone, left),
         NEW j \in 0..Len(s)
  PROVE  /\ Len(left[j]) <= Len(left[Len(s)])
         /\ \A i \in 1..Len(left[j]) : left[j][i] = left[Len(s)][i]
<1>1. Len(s) \in Nat /\ \A i \in 1..Len(s) : s[i] \in E
  BY LenProperties
<1>2. /\ left \in [0..Len(s) -> Seq(E)]
      /\ \A k \in 1..Len(s) :
           left[k] = IF s[k] \in gone THEN left[k - 1] ELSE Append(left[k - 1], s[k])
  BY DEF Leaves
<1> DEFINE Right(k) == /\ Len(left[j]) <= Len(left[j + k])
                       /\ \A i \in 1..Len(left[j]) : left[j][i] = left[j + k][i]
<1>3. Len(left[j]) \in Nat /\ j + 0 = j
  BY <1>2, LenProperties
<1>4. Right(0)
  BY <1>3
<1>5. ASSUME NEW k \in Nat, j + (k + 1) <= Len(s), Right(k) PROVE Right(k + 1)
  <2> DEFINE t == left[j + k]
             x == s[j + (k + 1)]
  <2>1. j + (k + 1) <= Len(s)
    BY <1>5
  <2> HIDE DEF Right
  <2>2. /\ j + k \in 0..Len(s) /\ j + (k + 1) \in 1..Len(s)
        /\ (j + (k + 1)) - 1 = j + k
    <3>1. j \in Nat /\ k \in Nat
      BY <1>1
    <3> HIDE DEF t, x
    <3>2. QED
      BY <1>1, <2>1, <3>1
  <2>3. t \in Seq(E) /\ x \in E
    BY <1>1, <1>2, <2>2
  <2>4. left[j + (k + 1)] = IF x \in gone THEN t ELSE Append(t, x)
    BY <1>2, <2>2
  <2>5. /\ Len(left[j]) <= Len(t)
        /\ \A i \in 1..Len(left[j]) : left[j][i] = t[i]
    BY <1>5 DEF Right
  <2> HIDE DEF t, x
  <2>6. /\ Len(t) \in Nat
        /\ Len(Append(t, x)) = Len(t) + 1
        /\ \A i \in 1..Len(t) : Append(t, x)[i] = t[i]
    BY <2>3, LenProperties, AppendProperties
  <2>7. CASE x \in gone
    BY <2>4, <2>5, <2>7 DEF Right
  <2>8. CASE x \notin gone
    <3>1. left[j + (k + 1)] = Append(t, x)
      BY <2>4, <2>8
    <3>2. \A i \in 1..Len(left[j]) : i \in 1..Len(t)
      BY <1>3, <2>5, <2>6
    <3>3. QED
      BY <1>3, <2>5, <2>6, <3>1, <3>2 DEF Right
  <2>9. QED
    BY <2>7, <2>8
<1>6. Right(Len(s) - j)
  <2> HIDE DEF Right
  <2> DEFINE Good == {n \in Nat : j + n <= Len(s) => Right(n)}
  <2>1. 0 \in Good /\ Good \subseteq Nat
    BY <1>4
  <2>2. \A n \in Good : n + 1 \in Good
    BY <1>1, <1>5
  <2>3. Good = Nat
    <3> HIDE DEF Good
    <3>1. QED
      BY <2>1, <2>2, SetInduction
  <2>4. Len(s) - j \in Nat /\ j + (Len(s) - j) <= Len(s)
    BY <1>1
  <2>5. QED
    BY <2>3, <2>4
<1>7. j + (Len(s) - j) = Len(s)
  BY <1>1
<1>8. QED
  BY <1>6, <1>7

\* Sequences that begin alike leave sequences that begin alike.
LEMMA LessPrefix ==
  ASSUME NEW E, NEW s \in Seq(E), NEW t \in Seq(E), NEW gone, IsPrefix(s, t)
  PROVE  /\ Len(Less(s, gone)) <= Len(Less(t, gone))
         /\ \A i \in 1..Len(Less(s, gone)) : Less(s, gone)[i] = Less(t, gone)[i]
<1>1. /\ Len(s) \in Nat /\ Len(t) \in Nat /\ Len(s) <= Len(t)
      /\ \A i \in 1..Len(s) : s[i] = t[i]
  BY LenProperties, PrefixElements
<1>2. PICK a : Leaves(E, s, gone, a) /\ Less(s, gone) = a[Len(s)]
  BY LessLeaves
<1>3. PICK b : Leaves(E, t, gone, b) /\ Less(t, gone) = b[Len(t)]
  BY LessLeaves
<1> DEFINE Good == {n \in Nat : n <= Len(s) => a[n] = b[n]}
<1>4. 0 \in Good /\ Good \subseteq Nat
  BY <1>2, <1>3 DEF Leaves
<1>5. ASSUME NEW n \in Good PROVE n + 1 \in Good
  <2>1. SUFFICES ASSUME n + 1 <= Len(s) PROVE a[n + 1] = b[n + 1]
    OBVIOUS
  <2>2. /\ n + 1 \in 1..Len(s) /\ n + 1 \in 1..Len(t) /\ (n + 1) - 1 = n
        /\ a[n] = b[n] /\ s[n + 1] = t[n + 1]
    BY <1>1, <2>1
  <2>3. QED
    BY <1>2, <1>3, <2>2 DEF Leaves
<1>6. Good = Nat
  <2> HIDE DEF Good
  <2>1. QED
    BY <1>4, <1>5, SetInduction
<1>7. Less(s, gone) = b[Len(s)]
  BY <1>1, <1>2, <1>6
<1>8. Len(s) \in 0..Len(t)
  BY <1>1
<1>9. QED
  BY <1>3, <1>7, <1>8, LessGrows

\* The last node is left unless it is taken out.
LEMMA LessLast ==
  ASSUME NEW E, NEW s \in Seq(E), NEW gone, s # <<>>, Last(s) \notin gone
  PROVE  Less(s, gone) # <<>> /\ Last(Less(s, gone)) = Last(s)
<1>1. Len(s) \in Nat \ {0} /\ \A i \in 1..Len(s) : s[i] \in E
  BY LenProperties, EmptySeq
<1>2. PICK left : Leaves(E, s, gone, left) /\ Less(s, gone) = left[Len(s)]
  BY LessLeaves
<1> DEFINE t == left[Len(s) - 1]
<1>3. /\ Len(s) \in 1..Len(s) /\ Len(s) - 1 \in 0..Len(s)
      /\ left \in [0..Len(s) -> Seq(E)]
  BY <1>1, <1>2 DEF Leaves
<1>4. t \in Seq(E) /\ Less(s, gone) = Append(t, Last(s)) /\ Last(s) \in E
  BY <1>1, <1>2, <1>3 DEF Leaves, Last
<1> HIDE DEF t
<1>5. /\ Len(t) \in Nat
      /\ Len(Append(t, Last(s))) = Len(t) + 1
      /\ Append(t, Last(s))[Len(t) + 1] = Last(s)
  BY <1>4, LenProperties, AppendProperties
<1>6. Len(Less(s, gone)) # 0 /\ Less(s, gone)[Len(Less(s, gone))] = Last(s)
  BY <1>4, <1>5
<1>7. QED
  BY <1>4, <1>6, EmptySeq DEF Last

\* What is taken out of a sequence is what is left when the others are.
LEMMA SameLess ==
  ASSUME NEW E, NEW s \in Seq(E), NEW gone, NEW gone2,
         \A i \in 1..Len(s) : s[i] \in gone <=> s[i] \in gone2
  PROVE  Less(s, gone) = Less(s, gone2)
<1>1. PICK a : Leaves(E, s, gone, a) /\ Less(s, gone) = a[Len(s)]
  BY LessLeaves
<1>2. PICK b : Leaves(E, s, gone2, b) /\ Less(s, gone2) = b[Len(s)]
  BY LessLeaves
<1>3. Len(s) \in Nat
  BY LenProperties
<1> DEFINE Good == {n \in Nat : n <= Len(s) => a[n] = b[n]}
<1>4. 0 \in Good /\ Good \subseteq Nat
  BY <1>1, <1>2 DEF Leaves
<1>5. ASSUME NEW n \in Good PROVE n + 1 \in Good
  <2>1. SUFFICES ASSUME n + 1 <= Len(s) PROVE a[n + 1] = b[n + 1]
    OBVIOUS
  <2>2. n + 1 \in 1..Len(s) /\ (n + 1) - 1 = n /\ a[n] = b[n]
    BY <1>3, <2>1
  <2>3. QED
    BY <1>1, <1>2, <2>2 DEF Leaves
<1>6. Good = Nat
  <2> HIDE DEF Good
  <2>1. QED
    BY <1>4, <1>5, SetInduction
<1>7. QED
  BY <1>1, <1>2, <1>3, <1>6

\* Nothing is taken out where nothing is to be taken out.
LEMMA LessNothing ==
  ASSUME NEW E, NEW s \in Seq(E), NEW gone, \A i \in 1..Len(s) : s[i] \notin gone
  PROVE  Less(s, gone) = s
<1>1. PICK left : Leaves(E, s, gone, left) /\ Less(s, gone) = left[Len(s)]
  BY LessLeaves
<1>2. Len(s) \in Nat /\ \A i \in 1..Len(s) : s[i] \in E
  BY LenProperties
<1> DEFINE Right(k) == Len(left[k]) = k /\ \A i \in 1..k : left[k][i] = s[i]
<1>3. Right(0)
  BY <1>1, EmptySeq DEF Leaves
<1>4. ASSUME NEW k \in Nat, k + 1 <= Len(s), Right(k) PROVE Right(k + 1)
  <2>1. /\ k + 1 \in 1..Len(s) /\ k \in 0..Len(s) /\ (k + 1) - 1 = k
        /\ s[k + 1] \in E /\ s[k + 1] \notin gone
    BY <1>2, <1>4
  <2>2. left[k] \in Seq(E) /\ left[k + 1] = Append(left[k], s[k + 1])
    BY <1>1, <2>1 DEF Leaves
  <2>3. /\ Len(left[k + 1]) = Len(left[k]) + 1
        /\ \A i \in 1..Len(left[k]) : left[k + 1][i] = left[k][i]
        /\ left[k + 1][Len(left[k]) + 1] = s[k + 1]
    BY <2>1, <2>2, AppendProperties
  <2>4. QED
    BY <1>4, <2>3
<1>5. Right(Len(s))
  <2> HIDE DEF Right
  <2> DEFINE Good == {n \in Nat : n <= Len(s) => Right(n)}
  <2>1. 0 \in Good /\ Good \subseteq Nat
    BY <1>3
  <2>2. \A n \in Good : n + 1 \in Good
    BY <1>2, <1>4
  <2>3. Good = Nat
    <3> HIDE DEF Good
    <3>1. QED
      BY <2>1, <2>2, SetInduction
  <2>4. QED
    BY <1>2, <2>3
<1>6. Less(s, gone) \in Seq(E)
  BY <1>1, <1>2 DEF Leaves
<1>7. QED
  BY <1>1, <1>5, <1>6, SeqEqual


\* The elements of two sequences in a row.
LEMMA Joined ==
  ASSUME NEW E, NEW s \in Seq(E), NEW t \in Seq(E)
  PROVE  /\ s \o t \in Seq(E)
         /\ ToSet(s \o t) = ToSet(s) \cup ToSet(t)
         /\ IsInjective(s \o t) <=> /\ IsInjective(s) /\ IsInjective(t)
                                    /\ ToSet(s) \cap ToSet(t) = {}
<1> DEFINE u == s \o t
<1>1. /\ Len(s) \in Nat /\ Len(t) \in Nat
      /\ DOMAIN s = 1..Len(s) /\ DOMAIN t = 1..Len(t)
  BY LenProperties
<1>2. /\ u \in Seq(E) /\ Len(u) = Len(s) + Len(t)
      /\ \A i \in 1..(Len(s) + Len(t)) : u[i] = IF i <= Len(s) THEN s[i] ELSE t[i - Len(s)]
  BY ConcatProperties
<1>3. DOMAIN u = 1..(Len(s) + Len(t))
  BY <1>2, LenProperties
<1> HIDE DEF u
<1>4. \A i \in DOMAIN s : i \in DOMAIN u /\ u[i] = s[i]
  BY <1>1, <1>2, <1>3
<1>5. \A i \in DOMAIN t : Len(s) + i \in DOMAIN u /\ u[Len(s) + i] = t[i]
  BY <1>1, <1>2, <1>3
<1>6. \A i \in DOMAIN u : \/ i \in DOMAIN s
                          \/ \E j \in DOMAIN t : i = Len(s) + j
  <2>1. ASSUME NEW i \in DOMAIN u, i \notin DOMAIN s
        PROVE  i - Len(s) \in DOMAIN t /\ i = Len(s) + (i - Len(s))
    BY <1>1, <1>3, <2>1
  <2>2. QED
    BY <2>1
<1>7. ToSet(u) = ToSet(s) \cup ToSet(t)
  BY <1>4, <1>5, <1>6 DEF ToSet
<1>8. ASSUME IsInjective(u)
      PROVE  IsInjective(s) /\ IsInjective(t) /\ ToSet(s) \cap ToSet(t) = {}
  <2>1. IsInjective(s)
    BY <1>4, <1>8 DEF IsInjective
  <2>2. IsInjective(t)
    <3>1. \A i, j \in DOMAIN t : Len(s) + i = Len(s) + j => i = j
      BY <1>1
    <3>2. QED
      BY <1>5, <1>8, <3>1 DEF IsInjective
  <2>3. \A i \in DOMAIN s, j \in DOMAIN t : i # Len(s) + j
    BY <1>1
  <2>4. \A i \in DOMAIN s, j \in DOMAIN t : s[i] # t[j]
    BY <1>4, <1>5, <1>8, <2>3 DEF IsInjective
  <2>5. QED
    BY <2>1, <2>2, <2>4 DEF ToSet
<1>9. ASSUME IsInjective(s), IsInjective(t), ToSet(s) \cap ToSet(t) = {}
      PROVE  IsInjective(u)
  <2>1. \A i \in DOMAIN s, j \in DOMAIN t : s[i] # t[j]
    BY <1>9 DEF ToSet
  <2>2. SUFFICES ASSUME NEW i \in DOMAIN u, NEW j \in DOMAIN u, u[i] = u[j] PROVE i = j
    BY DEF IsInjective
  <2>3. CASE i \in DOMAIN s
    BY <1>4, <1>5, <1>6, <1>9, <2>1, <2>2, <2>3 DEF IsInjective
  <2>4. CASE \E k \in DOMAIN t : i = Len(s) + k
    BY <1>4, <1>5, <1>6, <1>9, <2>1, <2>2, <2>4 DEF IsInjective
  <2>5. QED
    BY <1>6, <2>3, <2>4
<1>10. QED
  BY <1>2, <1>7, <1>8, <1>9 DEF u

-----------------------------------------------------------------------------
(* The invariant *)

Places == Nodes \cup {Stale}

\* The call c has called the first of the callbacks in its list, and is running the last of them.
Follows(c, l) == c.called # <<>> /\ IsPrefix(c.called, l[c.hook]) /\ Last(c.called) = c.node

\* The functions that are connected are remembered.
Kept(l, p, th) ==
  \A h \in Hooks, n \in Nodes : n \in ToSet(l[h]) /\ p[n] \in Functions => p[n] \in th[h]

IInv ==
  /\ TypeOK
  /\ \A k \in 1..Len(calls) : Follows(calls[k], list)
  /\ Kept(list, proc, thunks)

\* Each node is in one place of one list.
OnePlace(l, s) ==
  /\ \A h \in Hooks : IsInjective(l[h]) /\ IsInjective(s) /\ ToSet(l[h]) \cap ToSet(s) = {}
  /\ \A h \in Hooks : \A g \in Hooks \ {h} : ToSet(l[g]) \cap ToSet(l[h]) = {}

LEMMA PlacesApart ==
  ASSUME NEW l \in [Hooks -> Seq(Nodes)], NEW s \in Seq(Nodes)
  PROVE  OnePlace(l, s) <=>
           \A h \in Hooks : /\ IsInjective(l[h] \o s)
                            /\ \A g \in Hooks \ {h} : ToSet(l[g]) \cap ToSet(l[h]) = {}
<1>1. \A h \in Hooks : IsInjective(l[h] \o s) <=>
        IsInjective(l[h]) /\ IsInjective(s) /\ ToSet(l[h]) \cap ToSet(s) = {}
  BY Joined
<1>2. QED
  BY <1>1 DEF OnePlace

\* What the invariant says of the types.
LEMMA Typed ==
  ASSUME IInv
  PROVE  /\ declared \subseteq Hooks
         /\ list \in [Hooks -> Seq(Nodes)] /\ stale \in Seq(Nodes)
         /\ \A h \in Hooks : list[h] \in Seq(Nodes)
         /\ proc \in [Nodes -> Procs]
         /\ thunks \in [Hooks -> SUBSET Functions]
         /\ calls \in Seq(Call)
         /\ OnePlace(list, stale)
BY PlacesApart DEF IInv, TypeOK

\* What is to be shown of a step.
LEMMA Inductive ==
  ASSUME declared' \subseteq Hooks,
         list' \in [Hooks -> Seq(Nodes)], stale' \in Seq(Nodes),
         proc' \in [Nodes -> Procs], thunks' \in [Hooks -> SUBSET Functions],
         calls' \in Seq(Call), OnePlace(list', stale'),
         \A k \in 1..Len(calls') : Follows(calls'[k], list'),
         Kept(list', proc', thunks')
  PROVE  IInv'
<1>1. \A h \in Hooks : /\ IsInjective(list'[h] \o stale')
                       /\ \A g \in Hooks \ {h} : ToSet(list'[g]) \cap ToSet(list'[h]) = {}
  BY PlacesApart
<1>2. TypeOK'
  BY <1>1 DEF TypeOK
<1>3. QED
  BY <1>2 DEF IInv

\* A call, element by element: it runs a node of its hook.
LEMMA FollowsElements ==
  ASSUME NEW c \in Call, NEW l \in [Hooks -> Seq(Nodes)]
  PROVE  /\ c.hook \in Hooks /\ c.called \in Seq(Places)
         /\ l[c.hook] \in Seq(Nodes)
         /\ Len(c.called) \in Nat /\ Len(l[c.hook]) \in Nat
         /\ Follows(c, l) <=>
              /\ 1 <= Len(c.called) /\ Len(c.called) <= Len(l[c.hook])
              /\ \A i \in 1..Len(c.called) : c.called[i] = l[c.hook][i]
              /\ c.called[Len(c.called)] = c.node
         /\ Follows(c, l) => c.node \in ToSet(l[c.hook]) /\ c.node \in Nodes
<1>1. c.hook \in Hooks /\ c.called \in Seq(Places)
  BY DEF Call, Places
<1>2. l[c.hook] \in Seq(Nodes)
  BY <1>1
<1>3. l[c.hook] \in Seq(Places)
  BY <1>2 DEF Places
<1>4. IsPrefix(c.called, l[c.hook]) <=>
        /\ Len(c.called) <= Len(l[c.hook])
        /\ \A i \in 1..Len(c.called) : c.called[i] = l[c.hook][i]
  BY <1>1, <1>3, PrefixElements
<1>5. Len(c.called) \in Nat /\ Len(l[c.hook]) \in Nat
  BY <1>1, <1>2, LenProperties
<1>6. c.called # <<>> <=> 1 <= Len(c.called)
  BY <1>1, <1>5, EmptySeq
<1>7. Follows(c, l) <=>
        /\ 1 <= Len(c.called) /\ Len(c.called) <= Len(l[c.hook])
        /\ \A i \in 1..Len(c.called) : c.called[i] = l[c.hook][i]
        /\ c.called[Len(c.called)] = c.node
  BY <1>4, <1>6 DEF Follows, Last
<1>8. ASSUME Follows(c, l) PROVE c.node \in ToSet(l[c.hook]) /\ c.node \in Nodes
  <2>1. Len(c.called) \in 1..Len(c.called) /\ Len(c.called) \in 1..Len(l[c.hook])
    BY <1>5, <1>7, <1>8
  <2>2. c.node = l[c.hook][Len(c.called)]
    BY <1>7, <1>8, <2>1
  <2>3. DOMAIN l[c.hook] = 1..Len(l[c.hook]) /\ \A i \in 1..Len(l[c.hook]) : l[c.hook][i] \in Nodes
    BY <1>2, LenProperties
  <2>4. QED
    BY <2>1, <2>2, <2>3 DEF ToSet
<1>9. QED
  BY <1>1, <1>2, <1>5, <1>7, <1>8

\* What the invariant says of a call.
LEMMA CallFollows ==
  ASSUME IInv, NEW k \in 1..Len(calls)
  PROVE  /\ calls[k] \in Call /\ Follows(calls[k], list)
         /\ calls[k].hook \in Hooks
         /\ calls[k].node \in ToSet(list[calls[k].hook]) /\ calls[k].node \in Nodes
<1>1. calls[k] \in Call
  BY Typed, LenProperties
<1>2. Follows(calls[k], list)
  BY DEF IInv
<1>3. QED
  BY <1>1, <1>2, Typed, FollowsElements

-----------------------------------------------------------------------------
(* Each action keeps it *)

LEMMA InitHolds == ASSUME Init PROVE IInv
<1>1. /\ declared = {} /\ stale = <<>> /\ list = [h \in Hooks |-> <<>>]
      /\ thunks = [h \in Hooks |-> {}] /\ calls = <<>>
      /\ proc \in [Nodes -> {CHOOSE p \in Procs : TRUE}]
  BY DEF Init
<1>2. <<>> \in Seq(Nodes) /\ <<>> \in Seq(Call) /\ Len(<<>>) = 0
  OBVIOUS
<1>3. (CHOOSE p \in Procs : TRUE) \in Procs
  BY CallbackAssumption
<1>4. proc \in [Nodes -> Procs]
  BY <1>1, <1>3
<1>5. ToSet(<<>>) = {} /\ IsInjective(<<>>)
  BY DEF ToSet, IsInjective
<1>6. OnePlace(list, stale)
  BY <1>1, <1>5 DEF OnePlace
<1>7. TypeOK
  <2>1. list \in [Hooks -> Seq(Nodes)] /\ thunks \in [Hooks -> SUBSET Functions]
    BY <1>1, <1>2
  <2>2. QED
    BY <1>1, <1>2, <1>4, <1>6, <2>1, PlacesApart DEF TypeOK
<1>8. \A k \in 1..Len(calls) : Follows(calls[k], list)
  BY <1>1, <1>2
<1>9. Kept(list, proc, thunks)
  BY <1>1, <1>5 DEF Kept
<1>10. QED
  BY <1>7, <1>8, <1>9 DEF IInv

\* scope_declare_callback_c and scope_disconnect_callback_c without a procedure: no call
\* is running in the list that is emptied.
LEMMA EmptiedKeeps ==
  ASSUME IInv, NEW h \in Hooks, Emptied(h), declared' \subseteq Hooks,
         UNCHANGED <<stale, proc, thunks>>
  PROVE  IInv'
<1>1. list' = [list EXCEPT ![h] = <<>>] /\ calls' = calls
  BY DEF Emptied
<1>2. /\ \A g \in Hooks : list'[g] = IF g = h THEN <<>> ELSE list[g]
      /\ list' \in [Hooks -> Seq(Nodes)]
  BY <1>1, Typed
<1>3. ToSet(<<>>) = {} /\ IsInjective(<<>>)
  BY DEF ToSet, IsInjective
<1>4. OnePlace(list', stale')
  <2>1. OnePlace(list, stale) /\ stale' = stale
    BY Typed
  <2>2. \A g \in Hooks : IsInjective(list'[g]) /\ IsInjective(stale')
                         /\ ToSet(list'[g]) \subseteq ToSet(list[g])
    BY <1>2, <1>3, <2>1 DEF OnePlace
  <2>3. QED
    BY <2>1, <2>2 DEF OnePlace
<1>5. ASSUME NEW k \in 1..Len(calls) PROVE calls[k].hook # h /\ Follows(calls[k], list')
  <2>1. /\ calls[k] \in Call /\ Follows(calls[k], list)
        /\ calls[k].hook \in Hooks /\ calls[k].node \in Nodes
    BY CallFollows
  <2>2. calls[k].hook # h
    BY <2>1 DEF Emptied, Running
  <2>3. list'[calls[k].hook] = list[calls[k].hook]
    BY <1>2, <2>1, <2>2
  <2>4. QED
    BY <2>1, <2>2, <2>3 DEF Follows
<1>6. Kept(list', proc', thunks')
  <2>1. Kept(list, proc, thunks) /\ proc' = proc /\ thunks' = thunks
    BY DEF IInv
  <2>2. QED
    BY <1>2, <1>3, <2>1 DEF Kept
<1>7. /\ stale' \in Seq(Nodes) /\ proc' \in [Nodes -> Procs]
      /\ thunks' \in [Hooks -> SUBSET Functions] /\ calls' \in Seq(Call)
  BY <1>1, Typed
<1>8. QED
  BY <1>1, <1>2, <1>4, <1>5, <1>6, <1>7, Inductive

LEMMA DeclareKeeps ==
  ASSUME IInv, NEW h \in Hooks, Declare(h)
  PROVE  IInv'
BY EmptiedKeeps, Typed DEF Declare

LEMMA DisconnectAllKeeps ==
  ASSUME IInv, NEW h \in Hooks, DisconnectAll(h)
  PROVE  IInv'
BY EmptiedKeeps, Typed DEF DisconnectAll

\* scope_connect_callback_c: what was called is still the beginning of the longer list.
LEMMA ConnectKeeps ==
  ASSUME IInv, NEW h \in Hooks, NEW p \in Procs, Connect(h, p)
  PROVE  IInv'
<1>1. PICK n \in Nodes \ Allocated :
        list' = [list EXCEPT ![h] = list[h] \o <<n>>] /\ proc' = [proc EXCEPT ![n] = p]
  BY DEF Connect, Connected
<1>2. /\ thunks' = [thunks EXCEPT ![h] = @ \cup ({p} \cap Functions)]
      /\ declared' = declared /\ stale' = stale /\ calls' = calls
  BY DEF Connect, Remembered
<1>3. /\ <<n>> \in Seq(Nodes) /\ ToSet(<<n>>) = {n} /\ IsInjective(<<n>>)
  BY DEF ToSet, IsInjective
<1>4. n \notin ToSet(stale) /\ \A g \in Hooks : n \notin ToSet(list[g])
  BY DEF Allocated
<1>5. /\ list[h] \o <<n>> \in Seq(Nodes)
      /\ ToSet(list[h] \o <<n>>) = ToSet(list[h]) \cup {n}
      /\ IsInjective(list[h]) => IsInjective(list[h] \o <<n>>)
  <2>1. list[h] \in Seq(Nodes)
    BY Typed
  <2>2. /\ list[h] \o <<n>> \in Seq(Nodes)
        /\ ToSet(list[h] \o <<n>>) = ToSet(list[h]) \cup ToSet(<<n>>)
        /\ IsInjective(list[h] \o <<n>>) <=> /\ IsInjective(list[h]) /\ IsInjective(<<n>>)
                                             /\ ToSet(list[h]) \cap ToSet(<<n>>) = {}
    BY <1>3, <2>1, Joined
  <2>3. QED
    BY <1>3, <1>4, <2>2
<1>6. /\ \A g \in Hooks : list'[g] = IF g = h THEN list[h] \o <<n>> ELSE list[g]
      /\ list' \in [Hooks -> Seq(Nodes)]
  BY <1>1, <1>5, Typed
<1>7. /\ \A m \in Nodes : proc'[m] = IF m = n THEN p ELSE proc[m]
      /\ proc' \in [Nodes -> Procs]
  BY <1>1, Typed
<1>8. /\ \A g \in Hooks : thunks'[g] = IF g = h THEN thunks[h] \cup ({p} \cap Functions)
                                       ELSE thunks[g]
      /\ thunks' \in [Hooks -> SUBSET Functions]
  BY <1>2, Typed
<1>9. \A g \in Hooks : ToSet(list'[g]) = IF g = h THEN ToSet(list[g]) \cup {n} ELSE ToSet(list[g])
  BY <1>5, <1>6
<1>10. OnePlace(list', stale')
  <2>1. OnePlace(list, stale) /\ stale' = stale
    BY <1>2, Typed
  <2>2. \A g \in Hooks : IsInjective(list'[g]) /\ IsInjective(stale')
    BY <1>5, <1>6, <2>1 DEF OnePlace
  <2>3. \A g \in Hooks : ToSet(list'[g]) \cap ToSet(stale') = {}
    BY <1>4, <1>9, <2>1, ZenonT(30) DEF OnePlace
  <2>4. \A g \in Hooks : \A f \in Hooks \ {g} : ToSet(list'[f]) \cap ToSet(list'[g]) = {}
    <3>1. \A g \in Hooks : \A f \in Hooks \ {g} : ToSet(list[f]) \cap ToSet(list[g]) = {}
      BY <2>1 DEF OnePlace
    <3>2. ASSUME NEW g \in Hooks, NEW f \in Hooks \ {g}
          PROVE  ToSet(list'[f]) \cap ToSet(list'[g]) = {}
      <4>1. /\ ToSet(list[f]) \cap ToSet(list[g]) = {}
            /\ n \notin ToSet(list[f]) /\ n \notin ToSet(list[g])
        BY <1>4, <3>1
      <4>2. /\ ToSet(list'[f]) = IF f = h THEN ToSet(list[f]) \cup {n} ELSE ToSet(list[f])
            /\ ToSet(list'[g]) = IF g = h THEN ToSet(list[g]) \cup {n} ELSE ToSet(list[g])
            /\ f # g
        BY <1>9
      <4>3. QED
        BY <4>1, <4>2
    <3>3. QED
      BY <3>2
  <2>5. QED
    BY <2>2, <2>3, <2>4 DEF OnePlace
<1>11. ASSUME NEW k \in 1..Len(calls) PROVE Follows(calls[k], list')
  <2> DEFINE c == calls[k]
  <2>1. c \in Call /\ Follows(c, list) /\ c.hook \in Hooks
    BY CallFollows
  <2>9. SUFFICES Follows(c, list')
    OBVIOUS
  <2> HIDE DEF c
  <2>2. CASE c.hook # h
    BY <1>6, <2>1, <2>2 DEF Follows
  <2>3. CASE c.hook = h
    <3>1. /\ Len(list[h]) \in Nat /\ Len(c.called) \in Nat
          /\ 1 <= Len(c.called) /\ Len(c.called) <= Len(list[h])
          /\ \A i \in 1..Len(c.called) : c.called[i] = list[h][i]
          /\ c.called[Len(c.called)] = c.node
      BY <2>1, <2>3, Typed, FollowsElements
    <3>2. /\ list'[h] = list[h] \o <<n>> /\ Len(list'[h]) = Len(list[h]) + 1
          /\ \A i \in 1..Len(list[h]) : list'[h][i] = list[h][i]
      <4>1. /\ Len(list[h] \o <<n>>) = Len(list[h]) + Len(<<n>>)
            /\ \A i \in 1..(Len(list[h]) + Len(<<n>>)) : (list[h] \o <<n>>)[i] =
                 IF i <= Len(list[h]) THEN list[h][i] ELSE <<n>>[i - Len(list[h])]
        BY <1>3, Typed, ConcatProperties
      <4>2. Len(<<n>>) = 1
        OBVIOUS
      <4>3. QED
        BY <1>6, <3>1, <4>1, <4>2
    <3>3. \A i \in 1..Len(c.called) : i \in 1..Len(list[h])
      BY <3>1
    <3>4. /\ Len(c.called) <= Len(list'[h])
          /\ \A i \in 1..Len(c.called) : c.called[i] = list'[h][i]
      <4>1. Len(c.called) <= Len(list'[h])
        BY <3>1, <3>2
      <4>2. \A i \in 1..Len(c.called) : c.called[i] = list'[h][i]
        BY <3>1, <3>2, <3>3
      <4>3. QED
        BY <4>1, <4>2
    <3>5. QED
      BY <1>6, <2>1, <2>3, <3>1, <3>4, FollowsElements
  <2>4. QED
    BY <2>2, <2>3
<1>12. Kept(list', proc', thunks')
  <2>1. Kept(list, proc, thunks)
    BY DEF IInv
  <2>2. ASSUME NEW g \in Hooks, NEW m \in Nodes, m \in ToSet(list'[g]), proc'[m] \in Functions
        PROVE  proc'[m] \in thunks'[g]
    <3>1. CASE m = n
      BY <1>4, <1>7, <1>8, <1>9, <2>2, <3>1
    <3>2. CASE m # n
      BY <1>7, <1>8, <1>9, <2>1, <2>2, <3>2 DEF Kept
    <3>3. QED
      BY <3>1, <3>2
  <2>3. QED
    BY <2>2 DEF Kept
<1>13. declared' \subseteq Hooks /\ stale' \in Seq(Nodes) /\ calls' \in Seq(Call)
  BY <1>2, Typed
<1>14. QED
  BY <1>2, <1>6, <1>7, <1>8, <1>10, <1>11, <1>12, <1>13, Inductive

\* scope_disconnect_callback_c: what is left of the callbacks that were called is the
\* beginning of what is left of the list, and the running one is still in it.
LEMMA DisconnectKeeps ==
  ASSUME IInv, MayLeave = FALSE, NEW h \in Hooks, NEW p \in Procs, Disconnect(h, p)
  PROVE  IInv'
<1> DEFINE mine == {n \in Nodes : proc[n] = p}
           removed == Less(list[h], {n \in Nodes : proc[n] # p})
           left == Less(list[h], mine)
           gone == ToSet(removed)
<1>1. /\ list' = [list EXCEPT ![h] = left]
      /\ stale' = stale \o removed
      /\ calls' = [k \in 1..Len(calls) |-> [calls[k] EXCEPT !.called = Less(@, gone)]]
      /\ thunks' = [thunks EXCEPT ![h] = @ \ {p}]
      /\ declared' = declared /\ proc' = proc
  BY DEF Disconnect, Remaining, Without, Forgotten
<1>2. ASSUME NEW n \in Nodes, Running(h, n) PROVE proc[n] # p
  BY <1>2 DEF Disconnect
<1>3. list[h] \in Seq(Nodes) /\ IsInjective(list[h])
  BY Typed DEF OnePlace
<1>4. ToSet(list[h]) \subseteq Nodes
  BY <1>3, LenProperties DEF ToSet
<1>5. /\ left \in Seq(Nodes) /\ IsInjective(left)
      /\ ToSet(left) = ToSet(list[h]) \ mine
  <2> HIDE DEF mine
  <2>1. QED
    BY <1>3, LessElements
<1>6. /\ removed \in Seq(Nodes) /\ IsInjective(removed)
      /\ gone = ToSet(list[h]) \ {n \in Nodes : proc[n] # p}
  <2> DEFINE others == {n \in Nodes : proc[n] # p}
  <2> HIDE DEF others
  <2>1. /\ Less(list[h], others) \in Seq(Nodes) /\ IsInjective(Less(list[h], others))
        /\ ToSet(Less(list[h], others)) = ToSet(list[h]) \ others
    BY <1>3, LessElements
  <2>2. QED
    BY <2>1 DEF others
<1>7. gone = ToSet(list[h]) \cap mine
  BY <1>4, <1>6
<1> HIDE DEF removed, left, gone
<1>8. /\ \A g \in Hooks : list'[g] = IF g = h THEN left ELSE list[g]
      /\ list' \in [Hooks -> Seq(Nodes)]
  BY <1>1, <1>5, Typed
<1>9. /\ \A g \in Hooks : thunks'[g] = IF g = h THEN thunks[h] \ {p} ELSE thunks[g]
      /\ thunks' \in [Hooks -> SUBSET Functions]
  BY <1>1, Typed
<1>10. /\ stale' \in Seq(Nodes) /\ IsInjective(stale')
       /\ ToSet(stale') = ToSet(stale) \cup gone
  <2>1. stale \in Seq(Nodes) /\ IsInjective(stale) /\ ToSet(stale) \cap ToSet(list[h]) = {}
    BY Typed DEF OnePlace
  <2>2. ToSet(stale) \cap ToSet(removed) = {}
    BY <1>7, <2>1 DEF gone
  <2>3. QED
    BY <1>1, <1>6, <2>1, <2>2, Joined DEF gone
<1>11. OnePlace(list', stale')
  <2>1. OnePlace(list, stale)
    BY Typed
  <2>2. \A g \in Hooks : IsInjective(list'[g]) /\ ToSet(list'[g]) \subseteq ToSet(list[g])
    BY <1>5, <1>8, <2>1 DEF OnePlace
  <2>3. \A g \in Hooks : ToSet(list'[g]) \cap ToSet(stale') = {}
    <3>1. ASSUME NEW g \in Hooks PROVE ToSet(list'[g]) \cap gone = {}
      <4>1. CASE g = h
        BY <1>5, <1>7, <1>8, <4>1
      <4>2. CASE g # h
        BY <1>7, <2>1, <2>2, <4>2 DEF OnePlace
      <4>3. QED
        BY <4>1, <4>2
    <3>2. \A g \in Hooks : ToSet(list'[g]) \cap ToSet(stale) = {}
      BY <2>1, <2>2 DEF OnePlace
    <3>3. QED
      BY <1>10, <3>1, <3>2
  <2>4. \A g \in Hooks : \A f \in Hooks \ {g} : ToSet(list'[f]) \cap ToSet(list'[g]) = {}
    BY <2>1, <2>2 DEF OnePlace
  <2>5. QED
    BY <1>10, <2>2, <2>3, <2>4 DEF OnePlace
<1>12. Len(calls) \in Nat /\ calls' \in Seq(Call) /\ Len(calls') = Len(calls)
  <2>1. Len(calls) \in Nat
    BY Typed, LenProperties
  <2>2. ASSUME NEW k \in 1..Len(calls)
        PROVE  [calls[k] EXCEPT !.called = Less(@, gone)] \in Call
    <3>1. calls[k] \in Call /\ Less(calls[k].called, gone) \in Seq(Places)
      <4>1. calls[k] \in Call
        BY CallFollows
      <4>2. calls[k].called \in Seq(Places)
        BY <4>1 DEF Call, Places
      <4>3. PICK f : Leaves(Places, calls[k].called, gone, f)
                     /\ Less(calls[k].called, gone) = f[Len(calls[k].called)]
        BY <4>2, LessLeaves
      <4>4. Len(calls[k].called) \in Nat
        BY <4>2, LenProperties
      <4>5. QED
        BY <4>1, <4>3, <4>4 DEF Leaves
    <3>2. QED
      BY <3>1 DEF Call, Places
  <2>3. QED
    BY <1>1, <2>1, <2>2
<1>13. ASSUME NEW k \in 1..Len(calls) PROVE Follows(calls'[k], list')
  <2> DEFINE c == calls[k]
             d == calls'[k]
  <2>1. /\ c \in Call /\ Follows(c, list) /\ c.hook \in Hooks
        /\ c.node \in ToSet(list[c.hook]) /\ c.node \in Nodes
    BY CallFollows
  <2>2. /\ d.hook = c.hook /\ d.node = c.node /\ d.called = Less(c.called, gone)
    BY <1>1, <2>1 DEF Call
  <2>3. d \in Call
    BY <1>12, LenProperties
  <2>4. c.hook = h => proc[c.node] # p
    BY <1>2, <2>1 DEF Running
  <2>5. SUFFICES Follows(d, list')
    OBVIOUS
  <2> HIDE DEF c, d
  <2>6. /\ c.called \in Seq(Places) /\ list[c.hook] \in Seq(Nodes)
        /\ Len(c.called) \in Nat /\ Len(list[c.hook]) \in Nat
        /\ Len(c.called) <= Len(list[c.hook])
        /\ \A i \in 1..Len(c.called) : c.called[i] = list[c.hook][i]
    BY <2>1, Typed, FollowsElements
  <2>7. \A i \in 1..Len(c.called) : c.called[i] \in ToSet(list[c.hook])
    <3>1. \A i \in 1..Len(c.called) : i \in DOMAIN list[c.hook]
      BY <2>6, LenProperties
    <3>2. QED
      BY <2>6, <3>1 DEF ToSet
  <2>8. CASE c.hook # h
    <3>1. ToSet(list[c.hook]) \cap ToSet(list[h]) = {}
      BY <2>1, <2>8, Typed DEF OnePlace
    <3>2. \A i \in 1..Len(c.called) : c.called[i] \notin gone
      BY <1>7, <2>7, <3>1
    <3>3. Less(c.called, gone) = c.called
      BY <2>6, <3>2, LessNothing
    <3>4. list'[d.hook] = list[c.hook] /\ d.called = c.called
      BY <1>8, <2>1, <2>2, <2>8, <3>3
    <3>5. QED
      BY <2>1, <2>2, <3>4 DEF Follows
  <2>9. CASE c.hook = h
    <3>1. \A i \in 1..Len(c.called) : c.called[i] \in gone <=> c.called[i] \in mine
      BY <1>7, <2>7, <2>9
    <3>2. Less(c.called, gone) = Less(c.called, mine)
      <4> HIDE DEF mine
      <4>1. QED
        BY <2>6, <3>1, SameLess
    <3>3. c.called # <<>> /\ IsPrefix(c.called, list[h]) /\ Last(c.called) = c.node
      BY <2>1, <2>9 DEF Follows
    <3>4. c.node \notin mine
      BY <2>4, <2>9
    <3>5. d.called # <<>> /\ Last(d.called) = d.node
      <4> HIDE DEF mine
      <4>1. QED
        BY <2>2, <2>6, <3>2, <3>3, <3>4, LessLast
    <3>6. /\ Len(d.called) <= Len(left)
          /\ \A i \in 1..Len(d.called) : d.called[i] = left[i]
      <4>1. list[h] \in Seq(Places)
        BY <1>3 DEF Places
      <4> HIDE DEF mine
      <4>2. /\ Len(Less(c.called, mine)) <= Len(Less(list[h], mine))
            /\ \A i \in 1..Len(Less(c.called, mine)) :
                 Less(c.called, mine)[i] = Less(list[h], mine)[i]
        BY <2>6, <3>3, <4>1, LessPrefix
      <4>3. QED
        BY <2>2, <3>2, <4>2 DEF left
    <3>7. IsPrefix(d.called, left)
      <4>1. d.called \in Seq(Places) /\ left \in Seq(Places)
        BY <1>5, <2>3 DEF Call, Places
      <4>2. QED
        BY <3>6, <4>1, PrefixElements
    <3>8. list'[d.hook] = left
      BY <1>8, <2>1, <2>2, <2>9
    <3>9. QED
      BY <3>5, <3>7, <3>8 DEF Follows
  <2>10. QED
    BY <2>8, <2>9
<1>14. Kept(list', proc', thunks')
  <2>1. Kept(list, proc, thunks)
    BY DEF IInv
  <2>2. ASSUME NEW g \in Hooks, NEW m \in Nodes, m \in ToSet(list'[g]), proc'[m] \in Functions
        PROVE  proc'[m] \in thunks'[g]
    <3>1. proc'[m] = proc[m]
      BY <1>1
    <3>2. CASE g = h
      <4>1. m \in ToSet(list[h]) /\ m \notin mine
        BY <1>5, <1>8, <2>2, <3>2
      <4>2. proc[m] # p
        BY <4>1
      <4>3. QED
        BY <1>9, <2>1, <2>2, <3>1, <3>2, <4>1, <4>2 DEF Kept
    <3>3. CASE g # h
      BY <1>8, <1>9, <2>1, <2>2, <3>1, <3>3 DEF Kept
    <3>4. QED
      BY <3>2, <3>3
  <2>3. QED
    BY <2>2 DEF Kept
<1>15. declared' \subseteq Hooks /\ proc' \in [Nodes -> Procs]
  BY <1>1, Typed
<1>16. QED
  BY <1>8, <1>9, <1>10, <1>11, <1>12, <1>13, <1>14, <1>15, Inductive

\* scope_invoke_callback_c: the first callback is called.
LEMMA InvokeKeeps ==
  ASSUME IInv, NEW h \in Hooks, Invoke(h)
  PROVE  IInv'
<1> DEFINE c == [hook |-> h, node |-> list[h][1], called |-> <<list[h][1]>>]
<1>1. /\ list[h] # <<>> /\ calls' = Append(calls, c)
      /\ UNCHANGED <<declared, list, stale, proc, thunks>>
  BY DEF Invoke
<1>2. /\ list[h] \in Seq(Nodes) /\ Len(list[h]) \in Nat \ {0} /\ list[h][1] \in Nodes
  <2>1. list[h] \in Seq(Nodes)
    BY Typed
  <2>2. Len(list[h]) \in Nat \ {0}
    BY <1>1, <2>1, LenProperties, EmptySeq
  <2>3. 1 \in 1..Len(list[h])
    BY <2>2
  <2>4. QED
    BY <2>1, <2>2, <2>3, LenProperties
<1>3. c \in Call
  <2>1. <<list[h][1]>> \in Seq(Nodes \cup {Stale})
    BY <1>2
  <2>2. QED
    BY <1>2, <2>1 DEF Call
<1>4. Follows(c, list)
  <2>1. /\ c.hook = h /\ c.node = list[h][1] /\ c.called = <<list[h][1]>>
    OBVIOUS
  <2> HIDE DEF c
  <2>2. Len(c.called) = 1 /\ c.called[1] = list[h][1]
    BY <2>1
  <2>3. /\ 1 <= Len(c.called) /\ Len(c.called) <= Len(list[h])
        /\ \A i \in 1..Len(c.called) : c.called[i] = list[h][i]
        /\ c.called[Len(c.called)] = c.node
    BY <1>2, <2>1, <2>2
  <2>4. QED
    BY <1>3, <2>1, <2>3, Typed, FollowsElements
<1> HIDE DEF c
<1>5. /\ calls' \in Seq(Call) /\ Len(calls') = Len(calls) + 1 /\ Len(calls) \in Nat
      /\ \A k \in 1..Len(calls) : calls'[k] = calls[k]
      /\ calls'[Len(calls) + 1] = c
  <2>1. calls \in Seq(Call) /\ Len(calls) \in Nat
    BY Typed, LenProperties
  <2>2. QED
    BY <1>1, <1>3, <2>1, AppendProperties
<1>6. ASSUME NEW k \in 1..Len(calls') PROVE Follows(calls'[k], list')
  <2>1. k \in 1..Len(calls) \/ k = Len(calls) + 1
    BY <1>5
  <2>2. CASE k \in 1..Len(calls)
    BY <1>1, <1>5, <2>2, CallFollows
  <2>3. CASE k = Len(calls) + 1
    BY <1>1, <1>4, <1>5, <2>3
  <2>4. QED
    BY <2>1, <2>2, <2>3
<1>7. Kept(list', proc', thunks')
  BY <1>1 DEF IInv
<1>8. QED
  BY <1>1, <1>5, <1>6, <1>7, Typed, Inductive

\* Where next(idx) goes: along the list of the hook, to the callback behind those that
\* were called, or to the root of that list if all were called.
LEMMA GoesOn ==
  ASSUME IInv, calls # <<>>, NEW next \in Following
  PROVE  /\ Len(calls) \in Nat \ {0} /\ Top \in Call /\ Follows(Top, list)
         /\ \/ /\ next = Top.hook
               /\ Len(Top.called) = Len(list[Top.hook])
            \/ /\ next # Top.hook /\ next \in Nodes
               /\ Len(Top.called) + 1 <= Len(list[Top.hook])
               /\ next = list[Top.hook][Len(Top.called) + 1]
<1>1. Len(calls) \in Nat \ {0}
  BY Typed, LenProperties, EmptySeq
<1>2. /\ Top \in Call /\ Follows(Top, list) /\ Top.hook \in Hooks
      /\ Top.node \in ToSet(list[Top.hook]) /\ Top.node \in Nodes
  <2>1. Len(calls) \in 1..Len(calls)
    BY <1>1
  <2>2. QED
    BY <2>1, CallFollows DEF Top
<1> DEFINE h == Top.hook
           s == list[h]
           m == Len(Top.called)
<1>3. /\ s \in Seq(Nodes) /\ Len(s) \in Nat /\ m \in Nat
      /\ 1 <= m /\ m <= Len(s)
      /\ \A i \in 1..m : Top.called[i] = s[i]
      /\ Top.called[m] = Top.node
  BY <1>2, Typed, FollowsElements
<1>4. m \in 1..Len(s) /\ s[m] = Top.node
  <2>1. m \in 1..m
    BY <1>3
  <2>2. QED
    BY <1>3, <2>1
<1>5. DOMAIN s = 1..Len(s) /\ IsInjective(s) /\ \A i \in 1..Len(s) : s[i] \in Nodes
  BY <1>2, <1>3, Typed, LenProperties DEF OnePlace
<1>6. \A k \in 1..Len(s) : s[k] = Top.node => k = m
  BY <1>4, <1>5 DEF IsInjective
<1>7. After(s, Top.node, h) = IF Top.node = Last(s) THEN h ELSE s[m + 1]
  <2> DEFINE n == Top.node
             at == CHOOSE k \in 1..Len(s) : s[k] = n
  <2>1. /\ s[m] = n /\ m \in 1..Len(s)
        /\ \A k \in 1..Len(s) : s[k] = n => k = m
    BY <1>4, <1>6
  <2>2. After(s, n, h) = IF n = Last(s) THEN h ELSE s[at + 1]
    BY DEF After
  <2> HIDE DEF s, h, m, n
  <2>3. at = m
    BY <2>1
  <2> HIDE DEF at
  <2>4. After(s, n, h) = IF n = Last(s) THEN h ELSE s[m + 1]
    BY <2>2, <2>3
  <2>5. QED
    BY <2>4 DEF n
<1>8. Top.node \notin ToSet(stale)
  BY <1>2, Typed DEF OnePlace
<1>9. \A g \in Hooks : Top.node \in ToSet(list[g]) => g = h
  BY <1>2, Typed DEF OnePlace
<1>10. (CHOOSE g \in Hooks : Top.node \in ToSet(list[g])) = h
  BY <1>2, <1>9
<1>11. next = After(s, Top.node, h)
  BY <1>2, <1>8, <1>10 DEF Following
<1>12. next = IF Top.node = Last(s) THEN h ELSE s[m + 1]
  BY <1>7, <1>11
<1>13. Top.node = Last(s) <=> m = Len(s)
  <2>1. Len(s) \in 1..Len(s)
    BY <1>3
  <2>2. QED
    BY <1>4, <1>6, <2>1 DEF Last
<1>14. h \notin Nodes
  BY <1>2, CallbackAssumption
<1>15. CASE m = Len(s)
  BY <1>1, <1>2, <1>12, <1>13, <1>15
<1>16. CASE m # Len(s)
  <2>1. m + 1 \in 1..Len(s) /\ m + 1 <= Len(s)
    <3> HIDE DEF m, s
    <3>1. QED
      BY <1>3, <1>16
  <2>2. next = s[m + 1] /\ next \in Nodes
    BY <1>5, <1>12, <1>13, <1>16, <2>1
  <2>3. QED
    BY <1>1, <1>2, <1>14, <2>1, <2>2
<1>17. QED
  BY <1>15, <1>16

\* The running callback returns: one more of the list has been called, or the call is over.
LEMMA CallbackReturnsKeeps ==
  ASSUME IInv, CallbackReturns
  PROVE  IInv'
<1>1. PICK next \in Following :
        calls' = IF next = Top.hook THEN SubSeq(calls, 1, Len(calls) - 1)
                 ELSE [calls EXCEPT ![Len(calls)].node = next,
                                    ![Len(calls)].called = Append(@, next)]
  BY DEF CallbackReturns
<1>2. calls # <<>> /\ UNCHANGED <<declared, list, stale, proc, thunks>>
  BY DEF CallbackReturns
<1>3. calls \in Seq(Call)
  BY Typed
<1>4. Len(calls) \in Nat \ {0}
  BY <1>2, GoesOn
<1>5. calls' \in Seq(Call) /\ \A k \in 1..Len(calls') : Follows(calls'[k], list)
  <2>1. CASE next = Top.hook
    <3>1. \A i \in 1..(Len(calls) - 1) : i \in 1..Len(calls) /\ calls[i] \in Call
      BY <1>3, <1>4, LenProperties
    <3>2. /\ SubSeq(calls, 1, Len(calls) - 1) \in Seq(Call)
          /\ Len(SubSeq(calls, 1, Len(calls) - 1)) =
               IF 1 <= Len(calls) - 1 THEN (Len(calls) - 1) - 1 + 1 ELSE 0
          /\ \A i \in 1..((Len(calls) - 1) - 1 + 1) :
               SubSeq(calls, 1, Len(calls) - 1)[i] = calls[1 + i - 1]
      BY <1>3, <1>4, <3>1, SubSeqProperties
    <3> DEFINE u == SubSeq(calls, 1, Len(calls) - 1)
    <3> HIDE DEF u
    <3>3. /\ calls' \in Seq(Call) /\ Len(calls') = Len(calls) - 1
          /\ \A i \in 1..(Len(calls) - 1) : calls'[i] = calls[i]
      <4>1. calls' = u
        BY <1>1, <2>1 DEF u
      <4>2. u \in Seq(Call) /\ Len(u) = Len(calls) - 1
        <5>1. /\ u \in Seq(Call)
              /\ Len(u) = IF 1 <= Len(calls) - 1 THEN (Len(calls) - 1) - 1 + 1 ELSE 0
          BY <3>2 DEF u
        <5>2. \A n \in Nat \ {0} : (IF 1 <= n - 1 THEN (n - 1) - 1 + 1 ELSE 0) = n - 1
          OBVIOUS
        <5>3. QED
          BY <1>4, <5>1, <5>2
      <4>3. ASSUME NEW i \in 1..(Len(calls) - 1) PROVE u[i] = calls[i]
        <5>1. i \in 1..((Len(calls) - 1) - 1 + 1) /\ 1 + i - 1 = i
          BY <1>4
        <5>2. QED
          BY <3>2, <5>1 DEF u
      <4>4. QED
        BY <4>1, <4>2, <4>3
    <3>4. QED
      BY <1>4, <3>1, <3>3, CallFollows
  <2>2. CASE next # Top.hook
    <3> DEFINE d == [Top EXCEPT !.node = next, !.called = Append(@, next)]
    <3>1. calls' = [calls EXCEPT ![Len(calls)] = d]
      BY <1>1, <2>2 DEF Top
    <3>2. /\ Top \in Call /\ Follows(Top, list) /\ next \in Nodes
          /\ Len(Top.called) + 1 <= Len(list[Top.hook])
          /\ next = list[Top.hook][Len(Top.called) + 1]
      BY <1>2, <2>2, GoesOn
    <3>3. /\ Top.called \in Seq(Places) /\ Top.hook \in Hooks
          /\ list[Top.hook] \in Seq(Nodes)
          /\ Len(Top.called) \in Nat
          /\ \A i \in 1..Len(Top.called) : Top.called[i] = list[Top.hook][i]
      BY <3>2, Typed, FollowsElements
    <3>4. /\ Append(Top.called, next) \in Seq(Places)
          /\ Len(Append(Top.called, next)) = Len(Top.called) + 1
          /\ \A i \in 1..Len(Top.called) : Append(Top.called, next)[i] = Top.called[i]
          /\ Append(Top.called, next)[Len(Top.called) + 1] = next
      <4>1. next \in Places
        BY <3>2 DEF Places
      <4>2. QED
        BY <3>3, <4>1, AppendProperties
    <3>5. /\ d.hook = Top.hook /\ d.node = next /\ d.called = Append(Top.called, next)
          /\ d \in Call
      BY <3>2, <3>4 DEF Call, Places
    <3> HIDE DEF d
    <3>6. Follows(d, list)
      <4>1. /\ 1 <= Len(d.called) /\ Len(d.called) <= Len(list[d.hook])
            /\ d.called[Len(d.called)] = d.node
        BY <3>2, <3>3, <3>4, <3>5
      <4>2. ASSUME NEW i \in 1..Len(d.called) PROVE d.called[i] = list[d.hook][i]
        <5>1. i \in 1..Len(Top.called) \/ i = Len(Top.called) + 1
          BY <3>3, <3>4, <3>5
        <5>2. QED
          BY <3>2, <3>3, <3>4, <3>5, <5>1
      <4>3. QED
        BY <3>5, <4>1, <4>2, Typed, FollowsElements
    <3>7. /\ calls' \in Seq(Call) /\ Len(calls') = Len(calls)
          /\ \A k \in 1..Len(calls) : calls'[k] = IF k = Len(calls) THEN d ELSE calls[k]
      <4>1. Len(calls) \in 1..Len(calls)
        BY <1>4
      <4>2. QED
        BY <1>3, <3>1, <3>5, <4>1, ExceptSeq
    <3>8. QED
      BY <3>6, <3>7, CallFollows
  <2>3. QED
    BY <2>1, <2>2
<1>6. Kept(list', proc', thunks')
  BY <1>2 DEF IInv
<1>7. \A k \in 1..Len(calls') : Follows(calls'[k], list')
  BY <1>2, <1>5
<1>8. QED
  BY <1>2, <1>5, <1>6, <1>7, Typed, Inductive

\* list_delete_c: no call is running in the stale list.
LEMMA PurgeKeeps ==
  ASSUME IInv, Purge
  PROVE  IInv'
<1>1. stale' = <<>> /\ UNCHANGED <<declared, list, proc, thunks, calls>>
  BY DEF Purge
<1>2. stale' \in Seq(Nodes) /\ ToSet(stale') = {} /\ IsInjective(stale')
  BY <1>1 DEF ToSet, IsInjective
<1>3. OnePlace(list', stale')
  <2>1. OnePlace(list, stale)
    BY Typed
  <2>2. QED
    BY <1>1, <1>2, <2>1 DEF OnePlace
<1>4. /\ Kept(list', proc', thunks')
      /\ \A k \in 1..Len(calls') : Follows(calls'[k], list')
  BY <1>1 DEF IInv
<1>5. QED
  BY <1>1, <1>2, <1>3, <1>4, Typed, Inductive

LEMMA NextKeeps ==
  ASSUME MayLeave = FALSE, IInv, [Next]_vars
  PROVE  IInv'
<1>1. CASE UNCHANGED vars
  BY <1>1 DEF vars, IInv, TypeOK, Kept
<1>2. CASE Next
  BY <1>2, DeclareKeeps, ConnectKeeps, DisconnectKeeps, DisconnectAllKeeps, InvokeKeeps,
     CallbackReturnsKeeps, PurgeKeeps DEF Next
<1>3. QED
  BY <1>1, <1>2

LEMMA Invariant ==
  ASSUME MayLeave = FALSE
  PROVE  Spec => []IInv
<1>1. Init => IInv
  BY InitHolds
<1>2. IInv /\ [Next]_vars => IInv'
  BY NextKeeps
<1>3. QED
  BY <1>1, <1>2, PTL DEF Spec

-----------------------------------------------------------------------------
(* The theorems *)

\* Where callbacks are not disconnected while they are running, a hook calls the
\* callbacks that are connected, and no other, in the order they were connected in and
\* none twice, whatever they connect, disconnect and call themselves
\* (scope_invoke_callback_c steps its index along a list that changes under it).
THEOREM CallsInOrder ==
  ASSUME MayLeave = FALSE
  PROVE  Spec => []CalledInOrder
<1>1. IInv => CalledInOrder
  BY DEF IInv, Follows, CalledInOrder
<1>2. QED
  BY <1>1, Invariant, PTL

\* And it does not end before it has called all that are connected by then, those that
\* were connected while it was calling included.
THEOREM CallsAll ==
  ASSUME MayLeave = FALSE
  PROVE  Spec => NoneMissed
<1> DEFINE body == CallbackReturns /\ Len(calls') < Len(calls) => Top.called = list[Top.hook]
<1>1. ASSUME IInv, CallbackReturns, Len(calls') < Len(calls)
      PROVE  Top.called = list[Top.hook]
  <2>1. PICK next \in Following :
          calls' = IF next = Top.hook THEN SubSeq(calls, 1, Len(calls) - 1)
                   ELSE [calls EXCEPT ![Len(calls)].node = next,
                                      ![Len(calls)].called = Append(@, next)]
    BY <1>1 DEF CallbackReturns
  <2>2. calls # <<>>
    BY <1>1 DEF CallbackReturns
  <2>3. calls \in Seq(Call) /\ Len(calls) \in Nat
    BY <1>1, Typed, LenProperties
  <2>4. next = Top.hook
    <3>1. SUFFICES ASSUME next # Top.hook PROVE FALSE
      OBVIOUS
    <3> DEFINE d == [Top EXCEPT !.node = next, !.called = Append(@, next)]
    <3>2. calls' = [calls EXCEPT ![Len(calls)] = d]
      BY <2>1, <3>1 DEF Top
    <3> HIDE DEF d
    <3>3. Len(calls') = Len(calls)
      BY <2>3, <3>2
    <3>4. QED
      BY <1>1, <2>3, <3>3
  <2>5. /\ Top \in Call /\ Follows(Top, list)
        /\ Len(Top.called) = Len(list[Top.hook])
    BY <1>1, <2>2, <2>4, GoesOn
  <2>6. /\ Top.called \in Seq(Places) /\ list[Top.hook] \in Seq(Nodes)
        /\ \A i \in 1..Len(Top.called) : Top.called[i] = list[Top.hook][i]
    BY <1>1, <2>5, Typed, FollowsElements
  <2>7. list[Top.hook] \in Seq(Places)
    BY <2>6 DEF Places
  <2>8. QED
    BY <2>5, <2>6, <2>7, SeqEqual
<1>2. IInv /\ [Next]_vars => body
  BY <1>1
<1>3. NoneMissed <=> [][body]_vars
  BY DEF NoneMissed
<1> HIDE DEF body
<1>4. QED
  BY <1>2, <1>3, Invariant, PTL DEF Spec

\* The thunk of a Python function that is connected or running is remembered, and no node
\* is in two lists or twice in one (_mk_CALLBACK, called by connectCallback before the
\* connection and by disconnectCallback before the disconnection).
THEOREM ThunksLive ==
  ASSUME MayLeave = FALSE
  PROVE  Spec => []ThunksAlive
<1>1. IInv => ThunksAlive
  <2>1. ASSUME IInv PROVE ThunksAlive
    <3>1. TypeOK /\ Kept(list, proc, thunks)
      BY <2>1 DEF IInv
    <3>2. ASSUME NEW k \in 1..Len(calls), proc[calls[k].node] \in Functions
          PROVE  proc[calls[k].node] \in thunks[calls[k].hook]
      <4>1. /\ calls[k].hook \in Hooks /\ calls[k].node \in Nodes
            /\ calls[k].node \in ToSet(list[calls[k].hook])
        BY <2>1, CallFollows
      <4>2. QED
        BY <3>1, <3>2, <4>1 DEF Kept
    <3>3. QED
      BY <3>1, <3>2 DEF ThunksAlive, Kept
  <2>2. QED
    BY <2>1
<1>2. QED
  BY <1>1, Invariant, PTL

=============================================================================
