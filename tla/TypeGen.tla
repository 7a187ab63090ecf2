------------------------------- MODULE TypeGen --------------------------------
(***************************************************************************)
(* The code generator (typegen.py): it reads a Fortran template a line at  *)
(* a time, replaces declarations of types by interfaces, and writes the    *)
(* procedures behind these interfaces where the template asks for them.    *)
(* The text of a template is abstracted to the procedures it promises in   *)
(* interfaces, defines, or refers to.  A line without a declaration is     *)
(* copied and changes nothing else; lines joined by backslashes are one.   *)
(***************************************************************************)
EXTENDS Naturals, Sequences

CONSTANTS
  TypeIds,      \* names of types
  Specs,        \* what declarations of each type as a reference may say
  Accesses,     \* access of declarations: public, private
  MaxObjects    \* bound on the declarations of a file

Classes == {"RefType", "ListNode"}
NoAlias == 0
Plain == [form |-> "intrinsic", clone |-> "default", cast |-> TRUE,
          streaming |-> "buffered", given |-> {}]

\* What a declaration of a reference says: the form of the type, and the options cloneMode,
\* itemCast, streaming, acceptProc and streamProc.
SpecForms ==
  [form : {"intrinsic", "derived", "array", "procedure"},
   clone : {"default", "_shallow", "_type", "_none", "own"},
   cast : BOOLEAN, streaming : {"buffered", "direct"},
   given : SUBSET {"acceptProc", "streamProc"}]

ASSUME SpecsAssumption == \A id \in TypeIds : Specs[id] \subseteq SpecForms
ASSUME BoundAssumption == MaxObjects \in Nat
ASSUME AccessesAssumption == Accesses \subseteq {"public", "private"}

VARIABLES
  objects,   \* the RefType and ListNode objects, in the order of their creation
  count,     \* TypeGenerator.count: declarations of each type and class
  scope,     \* TypeGenerator.scope: the objects under their keys
  stated,    \* access statements written, pairs of identifier and access
  written,   \* how many times the procedures of each object were written
  status     \* "reading", "closed", or "failed": an exception ended the program

vars == <<objects, count, scope, stated, written, status>>

--------------------------------------------------------------------------------
(* What the templates of a reference type promise, define and refer to. *)

IsProc(s) == s.form = "procedure"
IsArray(s) == s.form = "array"
Cloner(s) == IF s.clone # "default" THEN s.clone ELSE IF IsProc(s) THEN "_none" ELSE "_shallow"
TriesStreaming(s) == s.streaming = "buffered" /\ s.form \in {"intrinsic", "derived"}

\* The parts of RefType._template that declare and implement write.
RefInterfaces(s) ==
  {"common_itf", "coder_itf", "ref_streamItf", "ref_acceptItf"}
    \cup (IF s.cast THEN {"item_itf"} ELSE {})

\* Mutant: asks for the cloning mode as declared, without its default.
RefPartsDeclared(s) ==
  {"ref_encoder", "ref_decoder", "ref_typechecker", "ref_unwrap", "ref_dynamic_cast",
   "typeinfo", "ref_accept", "ref_stream", "item_dynamic_cast"}
    \cup (IF IsProc(s) THEN {} ELSE {"ref_cloner", "ref_inspector"})
    \cup ({"ref_acceptor" : p \in {"acceptProc"} \ s.given})
    \cup ({"ref_streamer" : p \in {"streamProc"} \ s.given})
    \cup (IF TriesStreaming(s) THEN {"ref_try_streaming"} ELSE {})
    \cup (IF s.clone \in {"_shallow", "_type"} THEN {"ptr_cloner"} ELSE {})

RefParts(s) ==
  {"ref_encoder", "ref_decoder", "ref_typechecker", "ref_unwrap", "ref_dynamic_cast",
   "typeinfo", "ref_accept", "ref_stream"}
    \cup (IF s.cast THEN {"item_dynamic_cast"} ELSE {})
    \cup (IF IsProc(s) THEN {} ELSE {"ref_cloner", "ref_inspector"})
    \cup ({"ref_acceptor" : p \in {"acceptProc"} \ s.given})
    \cup ({"ref_streamer" : p \in {"streamProc"} \ s.given})
    \cup (IF TriesStreaming(s) THEN {"ref_try_streaming"} ELSE {})
    \cup (IF Cloner(s) \in {"_shallow", "_type"} THEN {"ptr_cloner"} ELSE {})

\* The module procedures named in the interfaces.
InterfaceNames(i) ==
  CASE i = "common_itf"    -> {"in_ref_", "unwrap_", "dynamic_cast_r_", "typeinfo_"}
    [] i = "coder_itf"     -> {"encode_ref_", "decode_ref_"}
    [] i = "item_itf"      -> {"dynamic_cast_i_"}
    [] i = "ref_streamItf" -> {"stream_"}
    [] i = "ref_acceptItf" -> {"accept_"}

\* The procedure each part defines: templates up to the acceptor, up to the
\* cloners, and from the inspector on.
StreamAcceptName(p) ==
  CASE p = "ref_stream"        -> "stream_"
    [] p = "ref_streamer"      -> "stream_wrap"
    [] p = "ref_try_streaming" -> "stream_try_"
    [] p = "ref_accept"        -> "accept_"
    [] p = "ref_acceptor"      -> "accept_wrap"

CoderName(p) ==
  CASE p = "ref_encoder" -> "encode_ref_"
    [] p = "ref_decoder" -> "decode_ref_"
    [] p = "ref_cloner"  -> "clone_ref_"
    [] p = "ptr_cloner"  -> "clone_ptr_"

InspectorName(p) ==
  CASE p = "ref_inspector"     -> "inspect_"
    [] p = "ref_typechecker"   -> "in_ref_"
    [] p = "ref_unwrap"        -> "unwrap_"
    [] p = "ref_dynamic_cast"  -> "dynamic_cast_r_"
    [] p = "item_dynamic_cast" -> "dynamic_cast_i_"
    [] p = "typeinfo"          -> "typeinfo_"

PartName(p) ==
  CASE p \in {"ref_stream", "ref_streamer", "ref_try_streaming", "ref_accept", "ref_acceptor"} ->
         StreamAcceptName(p)
    [] p \in {"ref_encoder", "ref_decoder", "ref_cloner", "ptr_cloner"} -> CoderName(p)
    [] OTHER -> InspectorName(p)

\* The type information names the procedures for cloning, streaming, visiting and
\* inspecting values, unless the declaration gives them (those of a procedure type
\* are only the ones for streaming and visiting); cloners and inspectors call the
\* coders, and the cloner of references that of pointers.
RefReferences(s) ==
  {"accept_wrap" : p \in {"acceptProc"} \ s.given}
    \cup {"stream_wrap" : p \in {"streamProc"} \ s.given}
    \cup (IF TriesStreaming(s) THEN {"stream_try_"} ELSE {})
    \cup (IF IsArray(s) THEN {"inspect_"} ELSE {})
    \cup (IF IsProc(s) THEN {} ELSE {"clone_ref_", "decode_ref_", "encode_ref_"})
    \cup (IF Cloner(s) \in {"_shallow", "_type"} /\ ~IsProc(s) THEN {"clone_ptr_"} ELSE {})

\* The identifiers whose access a declaration states.
RefIdents(id, s) ==
  {<<"", n>> : n \in {"ref_of", "type_of", "dynamic_cast", "stream", "accept", "c_f_unwrap"}}
    \cup {<<id, n>> : n \in IF IsProc(s) THEN {"ref_from", "from_ref", "is"} ELSE {"", "is"}}

(* The same for a list node.  An alias has one procedure, with a number in its name. *)

NodePromises(alias) ==
  IF alias = NoAlias THEN {"new_node_", "new_node_of_", "nodetype_", "node_value_"}
                     ELSE {"new_node_of_"}
NodeProcs(alias) ==
  IF alias = NoAlias THEN {"new_node_", "new_node_of_", "nodetype_", "clone_node_", "node_value_"}
                     ELSE {"new_node_of_"}
NodeReferences(alias) ==
  IF alias = NoAlias THEN {"new_node_", "nodetype_", "clone_node_"} ELSE {}
NodeIdents(id) ==
  {<<"", n>> : n \in {"new_ListNode", "new_ListNode_of", "node_type"}} \cup {<<id, "">>}

--------------------------------------------------------------------------------
(* The names of the procedures of an object, with the type and the alias. *)

Named(o, names) == {<<o.id, o.alias, n>> : n \in names}
Promised(o) ==
  Named(o, IF o.class = "RefType" THEN UNION {InterfaceNames(i) : i \in RefInterfaces(o.spec)}
                                  ELSE NodePromises(o.alias))
Defined(o) ==
  Named(o, IF o.class = "RefType" THEN {PartName(p) : p \in RefParts(o.spec)}
                                  ELSE NodeProcs(o.alias))
\* An alias calls new_node_ of its base.
Referred(o) ==
  IF o.class = "RefType" THEN Named(o, RefReferences(o.spec))
  ELSE Named(o, NodeReferences(o.alias)) \cup
       {<<o.id, NoAlias, "new_node_">> : x \in {o.alias} \ {NoAlias}}
Idents(o) == IF o.class = "RefType" THEN RefIdents(o.id, o.spec) ELSE NodeIdents(o.id)

--------------------------------------------------------------------------------
(* The generator reads. *)

Init ==
  /\ objects = <<>>
  /\ count = [k \in TypeIds \X Classes |-> 0]
  /\ scope = [k \in {} |-> 0]
  /\ stated = {}
  /\ written = <<>>
  /\ status = "reading"

\* expandAccess: only identifiers that had no access statement before.
Watched == {p[1] : p \in stated}
\* Mutant: every declaration states the access of its names.
NewStatementsAll(o) == {<<i, o.access>> : i \in Idents(o)}

NewStatements(o) == {<<i, o.access>> : i \in Idents(o) \ Watched}

\* Mutant: the number of an alias starts from that of the base.
KeyFromBase(o, n) == <<o.id, o.class, IF o.alias = NoAlias THEN 0 ELSE n - 1>>

\* TypeGenerator.setDeclaration: the key has the number of the declaration for an
\* alias and "base" (here 0) for the others.
Key(o, n) == <<o.id, o.class, IF o.alias = NoAlias THEN 0 ELSE n>>

Declare(o) ==
  LET n == count[<<o.id, o.class>>] + 1 IN
  /\ objects' = Append(objects, o)
  /\ written' = Append(written, 0)
  /\ count' = [count EXCEPT ![<<o.id, o.class>>] = n]
  /\ scope' = [k \in DOMAIN scope \cup {Key(o, n)} |->
                 IF k = Key(o, n) THEN Len(objects) + 1 ELSE scope[k]]
  /\ stated' = stated \cup NewStatements(o)
  /\ UNCHANGED status

\* A second declaration of a type would be written twice: precondition.
Fresh(id, class) ==
  \A i \in 1..Len(objects) : objects[i].id = id /\ objects[i].class = class => objects[i].alias # NoAlias
Reading == status = "reading"
Room == Len(objects) < MaxObjects

DeclareRef(id, access, s) ==
  /\ Reading /\ Room /\ Fresh(id, "RefType")
  /\ Declare([class |-> "RefType", id |-> id, access |-> access, alias |-> NoAlias, spec |-> s])

DeclareNode(id, access) ==
  /\ Reading /\ Room /\ Fresh(id, "ListNode")
  /\ Declare([class |-> "ListNode", id |-> id, access |-> access, alias |-> NoAlias, spec |-> Plain])

\* getAliasCount is asked before the alias itself is counted; _alias0 is 1 here.
AliasNumber(id) == count[<<id, "ListNode">>]

DeclareAlias(id) ==
  /\ Reading /\ Room
  /\ Declare([class |-> "ListNode", id |-> id, access |-> "private", alias |-> AliasNumber(id) + 1,
              spec |-> Plain])

\* A dimension that is none, or an access that is none: __init__ raises.
DeclareWrong ==
  /\ Reading
  /\ status' = "failed"
  /\ UNCHANGED <<objects, count, scope, stated, written>>

\* The name of a type is no key of scope, which are made of three parts.
Implement(id) ==
  /\ Reading
  /\ <<id>> \notin DOMAIN scope
  /\ status' = "failed"
  /\ UNCHANGED <<objects, count, scope, stated, written>>

\* Mutant: implement does not remember that it has written.
UnwrittenForgotten == {scope[k] : k \in DOMAIN scope}

Unwritten == {o \in {scope[k] : k \in DOMAIN scope} : written[o] = 0}
HasBase(o) == <<objects[o].id, objects[o].class, 0>> \in DOMAIN scope

ImplementAll ==
  /\ Reading
  /\ IF \A o \in Unwritten : HasBase(o)
     THEN /\ written' = [o \in 1..Len(written) |-> written[o] + (IF o \in Unwritten THEN 1 ELSE 0)]
          /\ UNCHANGED status
     ELSE \* KeyError of getBaseDeclaration; what was written before is of no use
          /\ status' = "failed"
          /\ UNCHANGED written
  /\ UNCHANGED <<objects, count, scope, stated>>

Close ==
  /\ Reading
  /\ status' = "closed"
  /\ UNCHANGED <<objects, count, scope, stated, written>>

Next ==
  \/ \E id \in TypeIds, a \in Accesses : \/ \E s \in Specs[id] : DeclareRef(id, a, s)
                                         \/ DeclareNode(id, a)
  \/ \E id \in TypeIds : DeclareAlias(id) \/ Implement(id)
  \/ DeclareWrong
  \/ ImplementAll
  \/ Close

Spec == Init /\ [][Next]_vars

--------------------------------------------------------------------------------
(* Properties *)

Object == [class : Classes, id : TypeIds, access : {"public", "private"}, alias : Nat,
           spec : SpecForms]

\* The types of the variables.
TypeOK ==
  /\ objects \in Seq(Object)
  /\ count \in [TypeIds \X Classes -> Nat]
  /\ DOMAIN scope \subseteq TypeIds \X Classes \X Nat
  /\ \A k \in DOMAIN scope : scope[k] \in 1..Len(objects)
  /\ written \in Seq(Nat) /\ Len(written) = Len(objects)
  /\ status \in {"reading", "closed", "failed"}

\* No declaration displaces another one: each object is found in scope, whatever
\* the order of base types and aliases, whose keys and names are numbered by one
\* counter that is read at two times (setDeclaration and getAliasCount).
NothingLost ==
  \A i \in 1..Len(objects) : \E k \in DOMAIN scope : scope[k] = i

\* No procedure is defined twice in the output, which would not compile: neither
\* by asking for the implementations several times nor by two aliases of a type.
\* (Of procedures only: types and static variables are not in the model.)
DefinedOnce ==
  /\ \A i \in 1..Len(objects) : written[i] <= 1
  /\ \A i, j \in 1..Len(objects) :
       i # j /\ written[i] > 0 /\ written[j] > 0 => Defined(objects[i]) \cap Defined(objects[j]) = {}

\* What has been written compiles and links: for every combination of the options
\* of a declaration, each procedure that an interface promises, the type information
\* names or another procedure calls is defined as well (or is the user's own).
PromisesKept ==
  LET W == {i \in 1..Len(objects) : written[i] > 0}
  IN  \A i \in W : Promised(objects[i]) \cup Referred(objects[i])
                     \subseteq UNION {Defined(objects[j]) : j \in W}

\* Fortran takes one access statement for each identifier, but all declarations of a
\* file list the same generic names: the one that counts is that of the declaration
\* that listed the name first.
FirstAccessHolds ==
  \A p \in stated :
    \E i \in 1..Len(objects) :
      /\ p[1] \in Idents(objects[i]) /\ p[2] = objects[i].access
      /\ \A j \in 1..(i - 1) : p[1] \notin Idents(objects[j])

=============================================================================
