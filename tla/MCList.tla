-------------------------------- MODULE MCList --------------------------------
(* Instances of List for model checking. *)
EXTENDS List, TLC

CONSTANTS
  l1, cache, inner, bucket,   \* two lists, and the lists of the values of
  plain, nested, map,         \* the nodes nested and map; plain has none
  n1, n2, n3                  \* more nodes without a list

MCLists == {l1, cache, inner, bucket}
MCNodes == {plain, nested, map}
MCOwnedList == (plain :> Nil) @@ (nested :> inner) @@ (map :> bucket)
MCMapNodes == {map}

MCPlainNodes == {n1, n2, n3}
MCNoneOwned == [n \in MCPlainNodes |-> Nil]
MCPlainSymmetry == Permutations(MCPlainNodes)

MCPositions == -1..2
MCBackPositions == {-2, 0, 1, 2}
MCStrides == -1..2

=============================================================================
