------------------------------ MODULE MCSimulator ------------------------------
(* Instances of Simulator for model checking. *)
EXTENDS Simulator

MCDepth == [t \in Threads |-> IF t = "main" THEN 2 ELSE 1]

=============================================================================
