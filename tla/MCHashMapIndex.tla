--------------------------- MODULE MCHashMapIndex ---------------------------
(* Instances of HashMapIndex for model checking. *)
EXTENDS HashMapIndex

CONSTANTS k1, k2, k3

\* In an index of two buckets k1 and k3 collide.
MCHash == (k1 :> 0) @@ (k2 :> -3) @@ (k3 :> 2)

\* The index grows from one bucket to two and shrinks again, or has always two.
MCLimits == {<<1, 2>>, <<2, 2>>}

\* The index is re-sized by insertions and removals only.
MCOneLimit == {<<1, 2>>}

MCSymmetry == Permutations(Nodes)

=============================================================================
