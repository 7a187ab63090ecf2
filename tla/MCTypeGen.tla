------------------------------- MODULE MCTypeGen -------------------------------
(* Instances of TypeGen for model checking. *)
EXTENDS TypeGen, FiniteSets

\* Every form of a type with at most one option that is not the default, for one type.
MCSpecs ==
  [id \in TypeIds |->
     IF id # "A" THEN {Plain}
     ELSE {s \in [form : {"intrinsic", "derived", "array", "procedure"},
                  clone : {"default", "_type", "_none", "own"},
                  cast : BOOLEAN, streaming : {"buffered", "direct"},
                  given : SUBSET {"acceptProc", "streamProc"}] :
             Cardinality({f \in DOMAIN s \ {"form"} : s[f] # Plain[f]}) <= 1}]

=============================================================================
