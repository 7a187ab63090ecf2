------------------------------ MODULE MCHashMap ------------------------------
(* Instances of HashMap for model checking. *)
EXTENDS HashMap, TLC

CONSTANTS k1, k2, k3, k4

\* A negative hash, two keys that collide in an index of two buckets, and two
\* that collide in one of four.
MCHash == (k1 :> 0) @@ (k2 :> -3) @@ (k3 :> 5) @@ (k4 :> 2)

MCHash2 == (k1 :> -1) @@ (k2 :> 2)

\* Growing from one bucket to four; a fixed index of two buckets.
MCGrowing == {<<0, 4>>}
MCGrowingOrFixed == {<<0, 4>>, <<2, 1>>}

MCSymmetry == Permutations(Nodes) \cup Permutations(Values)
MCSymmetry2 == Permutations(Nodes) \cup Permutations(Values) \cup Permutations(Maps)

=============================================================================
