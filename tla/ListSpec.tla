------------------------------- MODULE ListSpec -------------------------------
(***************************************************************************)
(* What callers of the lists are promised: every list is a sequence of     *)
(* nodes, and no node is in two of them or twice in one.  Nodes enter one  *)
(* at a time, leave from the front when their list is cleared, and are     *)
(* moved, one or all or a range of a list at a time, in their order.       *)
(***************************************************************************)
EXTENDS Integers, Sequences, SequencesExt

CONSTANTS Heads, Nodes

VARIABLE seq    \* the nodes of each list

Init == seq = [l \in Heads |-> <<>>]

\* Before the p-th node of s, or at its end.
Spliced(s, p, t) == SubSeq(s, 1, p - 1) \o t \o SubSeq(s, p, Len(s))

Insert(s, t, l, p, n) ==
  /\ \A k \in Heads : n \notin ToSet(s[k])
  /\ t = [s EXCEPT ![l] = Spliced(@, p, <<n>>)]

\* The nodes from the i-th to the j-th of m go to l, before its p-th.
Move(s, t, l, p, m, i, j) ==
  t = [s EXCEPT ![l] = Spliced(@, p, SubSeq(s[m], i, j)),
                ![m] = SubSeq(@, 1, i - 1) \o SubSeq(@, j + 1, Len(@))]

\* The i-th node of l goes to another place in it.
Shift(s, t, l, p, i) == t = [s EXCEPT ![l] = Spliced(RemoveAt(@, i), p, <<@[i]>>)]

Drop(s, t, l) == s[l] # <<>> /\ t = [s EXCEPT ![l] = Tail(@)]

\* What may happen to the lists, s before and t after it.
Change(s, t) ==
  \E l \in {h \in Heads : s[h] # t[h]} :
    \/ Drop(s, t, l)
    \/ \E p \in 1..(Len(s[l]) + 1) :
         \/ \E n \in ToSet(t[l]) \ ToSet(s[l]) : Insert(s, t, l, p, n)
         \/ \E m \in {h \in Heads : h # l /\ s[h] # t[h]} :
              \E i, j \in 1..Len(s[m]) : i <= j /\ Move(s, t, l, p, m, i, j)
         \/ \E i \in 1..Len(s[l]) : p <= Len(s[l]) /\ Shift(s, t, l, p, i)

Next == \E s \in {seq}, t \in {seq'} : Change(s, t)

Spec == Init /\ [][Next]_seq

=============================================================================
