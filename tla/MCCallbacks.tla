------------------------------ MODULE MCCallbacks ------------------------------
(* Instances of Callbacks for model checking. *)
EXTENDS Callbacks, TLC

CONSTANTS n1, n2, n3, n4

MCNodes == {n1, n2, n3, n4}
MCSymmetry == Permutations(MCNodes)

=============================================================================
