---------------------------- MODULE TypeGenProofs ----------------------------
(***************************************************************************)
(* Proofs about the code generator of TypeGen.tla, for any types, options  *)
(* and number of declarations.                                             *)
(*                                                                         *)
(* That nothing is lost, defined twice or left undefined rests on how      *)
(* declarations are numbered: the keys in scope say what they lead to, no  *)
(* number is above the count of its type, and so the next number is new.   *)
(* What one declaration promises and defines is a matter of its options    *)
(* alone (the lemmas on the templates).                                    *)
(***************************************************************************)
EXTENDS TypeGen, SequenceTheorems, TLAPS

\* A key has the type and the class of its object, the number 0 for a base, and no
\* number above the count.
KeysTrue ==
  \A k \in DOMAIN scope :
    /\ objects[scope[k]].id = k[1] /\ objects[scope[k]].class = k[2]
    /\ objects[scope[k]].alias = NoAlias <=> k[3] = 0
    /\ k[3] <= count[<<k[1], k[2]>>]

\* No alias has a number above the count.
AliasesCounted ==
  \A i \in 1..Len(objects) : objects[i].alias <= count[<<objects[i].id, objects[i].class>>]

\* Only list nodes have aliases.
AliasesAreNodes ==
  \A i \in 1..Len(objects) : objects[i].alias # NoAlias => objects[i].class = "ListNode"

\* Declarations of a type in one class have different numbers.
NamesDiffer ==
  \A i, j \in 1..Len(objects) :
    /\ i # j
    /\ objects[i].id = objects[j].id /\ objects[i].class = objects[j].class
    => objects[i].alias # objects[j].alias

WrittenOnce == \A i \in 1..Len(objects) : written[i] <= 1

\* An alias is written with its base, or after it.
BasesWritten ==
  \A i \in 1..Len(objects) :
    written[i] > 0 /\ objects[i].alias # NoAlias =>
      \E j \in 1..Len(objects) :
        /\ written[j] > 0 /\ objects[j].alias = NoAlias
        /\ objects[j].id = objects[i].id /\ objects[j].class = objects[i].class

IInv ==
  /\ TypeOK /\ KeysTrue /\ AliasesCounted /\ AliasesAreNodes /\ NamesDiffer
  /\ NothingLost /\ WrittenOnce /\ BasesWritten

-----------------------------------------------------------------------------
(* The templates *)

RefNames(s) == {PartName(p) : p \in RefParts(s)}
RefPromises(s) == UNION {InterfaceNames(i) : i \in RefInterfaces(s)}

\* What the parts of every reference type define.
LEMMA CommonNames ==
  ASSUME NEW s \in SpecForms
  PROVE  {"encode_ref_", "decode_ref_", "in_ref_", "unwrap_", "dynamic_cast_r_", "typeinfo_",
          "accept_", "stream_"} \subseteq RefNames(s)
<1>1. {"ref_encoder", "ref_decoder", "ref_typechecker", "ref_unwrap", "ref_dynamic_cast",
       "typeinfo", "ref_accept", "ref_stream"} \subseteq RefParts(s)
  BY DEF RefParts
<1>2. /\ PartName("ref_encoder") = "encode_ref_" /\ PartName("ref_decoder") = "decode_ref_"
      /\ PartName("ref_accept") = "accept_" /\ PartName("ref_stream") = "stream_"
  BY DEF PartName, CoderName, StreamAcceptName
<1>3. /\ PartName("ref_typechecker") = "in_ref_" /\ PartName("ref_unwrap") = "unwrap_"
      /\ PartName("ref_dynamic_cast") = "dynamic_cast_r_" /\ PartName("typeinfo") = "typeinfo_"
  BY DEF PartName, InspectorName
<1>4. QED
  BY <1>1, <1>2, <1>3, Zenon DEF RefNames

\* What the parts define that depend on an option.
LEMMA OptionalNames ==
  ASSUME NEW s \in SpecForms
  PROVE  /\ s.cast => "dynamic_cast_i_" \in RefNames(s)
         /\ ~IsProc(s) => {"clone_ref_", "inspect_"} \subseteq RefNames(s)
         /\ "acceptProc" \notin s.given => "accept_wrap" \in RefNames(s)
         /\ "streamProc" \notin s.given => "stream_wrap" \in RefNames(s)
         /\ TriesStreaming(s) => "stream_try_" \in RefNames(s)
         /\ Cloner(s) \in {"_shallow", "_type"} => "clone_ptr_" \in RefNames(s)
<1>1. /\ s.cast => "item_dynamic_cast" \in RefParts(s)
      /\ ~IsProc(s) => {"ref_cloner", "ref_inspector"} \subseteq RefParts(s)
      /\ "acceptProc" \notin s.given => "ref_acceptor" \in RefParts(s)
      /\ "streamProc" \notin s.given => "ref_streamer" \in RefParts(s)
      /\ TriesStreaming(s) => "ref_try_streaming" \in RefParts(s)
      /\ Cloner(s) \in {"_shallow", "_type"} => "ptr_cloner" \in RefParts(s)
  BY DEF RefParts
<1>2. /\ PartName("ref_cloner") = "clone_ref_" /\ PartName("ptr_cloner") = "clone_ptr_"
      /\ PartName("ref_acceptor") = "accept_wrap" /\ PartName("ref_streamer") = "stream_wrap"
      /\ PartName("ref_try_streaming") = "stream_try_"
  BY DEF PartName, CoderName, StreamAcceptName
<1>3. /\ PartName("item_dynamic_cast") = "dynamic_cast_i_"
      /\ PartName("ref_inspector") = "inspect_"
  BY DEF PartName, InspectorName
<1>4. QED
  BY <1>1, <1>2, <1>3, Zenon DEF RefNames

\* A reference type defines whatever its interfaces promise.
LEMMA InterfacesKept ==
  ASSUME NEW s \in SpecForms
  PROVE  RefPromises(s) \subseteq RefNames(s)
<1>1. RefPromises(s) \subseteq
        {"encode_ref_", "decode_ref_", "in_ref_", "unwrap_", "dynamic_cast_r_", "typeinfo_",
         "accept_", "stream_"} \cup {n \in {"dynamic_cast_i_"} : s.cast}
  <2>1. SUFFICES ASSUME NEW i \in RefInterfaces(s)
                 PROVE  InterfaceNames(i) \subseteq
                          {"encode_ref_", "decode_ref_", "in_ref_", "unwrap_", "dynamic_cast_r_",
                           "typeinfo_", "accept_", "stream_"} \cup {n \in {"dynamic_cast_i_"} : s.cast}
    BY Zenon DEF RefPromises
  <2>2. \/ i \in {"common_itf", "coder_itf", "ref_streamItf", "ref_acceptItf"}
        \/ i = "item_itf" /\ s.cast
    BY DEF RefInterfaces
  <2>3. QED
    BY <2>2 DEF InterfaceNames
<1>2. QED
  BY <1>1, CommonNames, OptionalNames

\* It defines whatever its type information and its procedures refer to.
LEMMA ReferencesKept ==
  ASSUME NEW s \in SpecForms
  PROVE  RefReferences(s) \subseteq RefNames(s)
<1>1. IsArray(s) => ~IsProc(s)
  BY DEF IsArray, IsProc
<1>2. SUFFICES ASSUME NEW n \in RefReferences(s)
               PROVE  n \in RefNames(s)
  OBVIOUS
<1>3. \/ n = "accept_wrap" /\ "acceptProc" \notin s.given
      \/ n = "stream_wrap" /\ "streamProc" \notin s.given
      \/ n = "stream_try_" /\ TriesStreaming(s)
      \/ n = "inspect_" /\ ~IsProc(s)
      \/ n \in {"clone_ref_", "decode_ref_", "encode_ref_"} /\ ~IsProc(s)
      \/ n = "clone_ptr_" /\ Cloner(s) \in {"_shallow", "_type"}
  BY <1>1 DEF RefReferences
<1>4. QED
  BY <1>3, CommonNames, OptionalNames

\* No procedure of a reference type has the name of one of a list node.
LEMMA ClassesApart ==
  ASSUME NEW s \in SpecForms, NEW a \in Nat
  PROVE  RefNames(s) \cap NodeProcs(a) = {}
<1>1. SUFFICES ASSUME NEW p \in RefParts(s)
               PROVE  PartName(p) \notin {"new_node_", "new_node_of_", "nodetype_", "clone_node_",
                                          "node_value_"}
  BY Zenon DEF RefNames, NodeProcs
<1>2. p \in {"ref_encoder", "ref_decoder", "ref_typechecker", "ref_unwrap", "ref_dynamic_cast",
             "typeinfo", "ref_accept", "ref_stream", "item_dynamic_cast", "ref_cloner",
             "ref_inspector", "ref_acceptor", "ref_streamer", "ref_try_streaming", "ptr_cloner"}
  BY DEF RefParts
<1>3. CASE p \in {"ref_stream", "ref_streamer", "ref_try_streaming", "ref_accept", "ref_acceptor"}
  BY <1>3 DEF PartName, StreamAcceptName
<1>4. CASE p \in {"ref_encoder", "ref_decoder", "ref_cloner", "ptr_cloner"}
  BY <1>4 DEF PartName, CoderName
<1>5. CASE p \in {"ref_inspector", "ref_typechecker", "ref_unwrap", "ref_dynamic_cast",
                  "item_dynamic_cast", "typeinfo"}
  BY <1>5 DEF PartName, InspectorName
<1>6. QED
  BY <1>2, <1>3, <1>4, <1>5

-----------------------------------------------------------------------------
(* Declarations *)

\* The declarations that Next makes: of a base if there is none, or of an alias with
\* the next number.
Declarable(o) ==
  /\ o \in Object
  /\ \/ o.alias = NoAlias /\ Fresh(o.id, o.class)
     \/ o.alias = count[<<o.id, o.class>>] + 1 /\ o.class = "ListNode"

\* The key of a declaration is new, so it displaces no other.
LEMMA KeyNew ==
  ASSUME IInv, NEW o, Declarable(o)
  PROVE  LET n == count[<<o.id, o.class>>] + 1 IN
         /\ n \in Nat \ {0}
         /\ Key(o, n) \in TypeIds \X Classes \X Nat
         /\ Key(o, n) \notin DOMAIN scope
<1> DEFINE n == count[<<o.id, o.class>>] + 1
<1>1. n \in Nat \ {0} /\ o.id \in TypeIds /\ o.class \in Classes /\ o.alias \in Nat
  <2>1. o.id \in TypeIds /\ o.class \in Classes /\ o.alias \in Nat
    BY DEF Declarable, Object
  <2>2. count[<<o.id, o.class>>] \in Nat
    BY <2>1 DEF IInv, TypeOK
  <2>3. QED
    BY <2>1, <2>2
<1>2. Key(o, n) \in TypeIds \X Classes \X Nat
  BY <1>1 DEF Key
<1>3. ASSUME Key(o, n) \in DOMAIN scope
      PROVE  FALSE
  <2> DEFINE k == Key(o, n)
  <2>1. k[1] = o.id /\ k[2] = o.class /\ k[3] = (IF o.alias = NoAlias THEN 0 ELSE n)
    BY DEF Key
  <2>2. /\ scope[k] \in 1..Len(objects)
        /\ objects[scope[k]].id = o.id /\ objects[scope[k]].class = o.class
        /\ objects[scope[k]].alias = NoAlias <=> k[3] = 0
        /\ k[3] <= count[<<o.id, o.class>>]
    BY <1>3, <2>1, Zenon DEF IInv, TypeOK, KeysTrue
  <2>3. CASE o.alias = NoAlias
    <3>1. objects[scope[k]].alias = NoAlias
      BY <2>1, <2>2, <2>3
    <3>2. Fresh(o.id, o.class)
      BY <1>1, <2>3 DEF Declarable, NoAlias
    <3>3. QED
      BY <2>2, <3>1, <3>2 DEF Fresh
  <2>4. CASE o.alias # NoAlias
    <3>1. n <= count[<<o.id, o.class>>]
      BY <2>1, <2>2, <2>4
    <3>2. count[<<o.id, o.class>>] \in Nat
      BY <1>1 DEF IInv, TypeOK
    <3>3. QED
      BY <3>1, <3>2
  <2>5. QED
    BY <2>3, <2>4
<1>4. QED
  BY <1>1, <1>2, <1>3

\* What a declaration does to the variables.
LEMMA DeclareEffect ==
  ASSUME IInv, NEW o, Declarable(o), Declare(o)
  PROVE  LET c == <<o.id, o.class>>
             k == Key(o, count[c] + 1)
         IN  /\ Len(objects') = Len(objects) + 1 /\ Len(written') = Len(objects')
             /\ objects' \in Seq(Object) /\ written' \in Seq(Nat)
             /\ \A i \in 1..Len(objects) : objects'[i] = objects[i] /\ written'[i] = written[i]
             /\ objects'[Len(objects')] = o /\ written'[Len(objects')] = 0
             /\ count' \in [TypeIds \X Classes -> Nat]
             /\ count'[c] = count[c] + 1
             /\ \A d \in TypeIds \X Classes : d # c => count'[d] = count[d]
             /\ DOMAIN scope' = DOMAIN scope \cup {k}
             /\ scope'[k] = Len(objects')
             /\ \A l \in DOMAIN scope : scope'[l] = scope[l]
<1> DEFINE c == <<o.id, o.class>>
           k == Key(o, count[c] + 1)
<1>1. o \in Object /\ c \in TypeIds \X Classes
  BY DEF Declarable, Object
<1>2. /\ objects \in Seq(Object) /\ written \in Seq(Nat) /\ Len(written) = Len(objects)
      /\ count \in [TypeIds \X Classes -> Nat]
  BY DEF IInv, TypeOK
<1>3. /\ objects' = Append(objects, o) /\ written' = Append(written, 0)
      /\ count' = [count EXCEPT ![c] = count[c] + 1]
      /\ scope' = [l \in DOMAIN scope \cup {k} |-> IF l = k THEN Len(objects) + 1 ELSE scope[l]]
  BY Zenon DEF Declare
<1>4. /\ objects' \in Seq(Object) /\ Len(objects') = Len(objects) + 1
      /\ \A i \in 1..Len(objects) : objects'[i] = objects[i]
      /\ objects'[Len(objects) + 1] = o
  BY <1>1, <1>2, <1>3, AppendProperties
<1>5. /\ written' \in Seq(Nat) /\ Len(written') = Len(written) + 1
      /\ \A i \in 1..Len(written) : written'[i] = written[i]
      /\ written'[Len(written) + 1] = 0
  BY <1>2, <1>3, AppendProperties, 0 \in Nat
<1>6. /\ count' \in [TypeIds \X Classes -> Nat] /\ count'[c] = count[c] + 1
      /\ \A d \in TypeIds \X Classes : d # c => count'[d] = count[d]
  BY <1>1, <1>2, <1>3
<1>7. k \notin DOMAIN scope
  BY KeyNew
<1> HIDE DEF k
<1>8. /\ DOMAIN scope' = DOMAIN scope \cup {k} /\ scope'[k] = Len(objects) + 1
      /\ \A l \in DOMAIN scope : scope'[l] = scope[l]
  BY <1>3, <1>7, Zenon
<1>9. QED
  BY <1>2, <1>4, <1>5, <1>6, <1>8 DEF k

\* A declaration keeps the invariant.
LEMMA DeclareKeeps ==
  ASSUME IInv, NEW o, Declarable(o), Declare(o)
  PROVE  IInv'
<1> DEFINE c == <<o.id, o.class>>
           k == Key(o, count[c] + 1)
           N == Len(objects)
<1>1. /\ N \in Nat /\ Len(objects') = N + 1 /\ Len(written') = N + 1
      /\ objects' \in Seq(Object) /\ written' \in Seq(Nat)
      /\ \A i \in 1..N : objects'[i] = objects[i] /\ written'[i] = written[i]
      /\ objects'[N + 1] = o /\ written'[N + 1] = 0
  <2>1. N \in Nat
    BY LenProperties DEF IInv, TypeOK
  <2>2. QED
    BY <2>1, DeclareEffect
<1>2. /\ count' \in [TypeIds \X Classes -> Nat]
      /\ count'[c] = count[c] + 1
      /\ \A d \in TypeIds \X Classes : d # c => count'[d] = count[d]
  BY DeclareEffect, Zenon
<1>3. /\ DOMAIN scope' = DOMAIN scope \cup {k}
      /\ scope'[k] = N + 1
      /\ \A l \in DOMAIN scope : scope'[l] = scope[l]
  BY DeclareEffect, Zenon
<1>4. /\ count[c] \in Nat /\ c \in TypeIds \X Classes /\ o.alias \in Nat
      /\ k \in TypeIds \X Classes \X Nat /\ k \notin DOMAIN scope
      /\ k[1] = o.id /\ k[2] = o.class /\ k[3] = (IF o.alias = NoAlias THEN 0 ELSE count[c] + 1)
  <2>1. c \in TypeIds \X Classes /\ o.alias \in Nat
    BY DEF Declarable, Object
  <2>2. count[c] \in Nat
    BY <2>1 DEF IInv, TypeOK
  <2>3. k \in TypeIds \X Classes \X Nat /\ k \notin DOMAIN scope
    BY KeyNew, Zenon
  <2>4. k[1] = o.id /\ k[2] = o.class /\ k[3] = (IF o.alias = NoAlias THEN 0 ELSE count[c] + 1)
    BY DEF Key
  <2>5. QED
    BY <2>1, <2>2, <2>3, <2>4
<1>5. /\ TypeOK /\ KeysTrue /\ AliasesCounted /\ AliasesAreNodes /\ NamesDiffer
      /\ NothingLost /\ WrittenOnce /\ BasesWritten
  BY DEF IInv
<1>6. \A i \in 1..N : /\ <<objects[i].id, objects[i].class>> \in TypeIds \X Classes
                      /\ objects[i].alias \in Nat
  <2>1. SUFFICES ASSUME NEW i \in 1..N
                 PROVE  /\ <<objects[i].id, objects[i].class>> \in TypeIds \X Classes
                        /\ objects[i].alias \in Nat
    OBVIOUS
  <2>2. objects[i] \in Object
    BY <1>5, ElementOfSeq DEF TypeOK
  <2>3. QED
    BY <2>2 DEF Object
<1>7. \A d \in TypeIds \X Classes : count[d] \in Nat /\ count'[d] \in Nat /\ count[d] <= count'[d]
  <2>1. SUFFICES ASSUME NEW d \in TypeIds \X Classes
                 PROVE  count[d] \in Nat /\ count'[d] \in Nat /\ count[d] <= count'[d]
    OBVIOUS
  <2>2. count[d] \in Nat /\ count'[d] \in Nat
    BY <1>2, <1>5 DEF TypeOK
  <2>3. QED
    BY <1>2, <2>2
<1>8. \/ o.alias = count[c] + 1 /\ o.class = "ListNode"
      \/ o.alias = NoAlias /\ Fresh(o.id, o.class)
  BY Zenon DEF Declarable
<1> HIDE DEF c, k, N
<1>9. TypeOK'
  <2>1. \A l \in DOMAIN scope' : scope'[l] \in 1..(N + 1)
    BY <1>1, <1>3, <1>5 DEF TypeOK, N
  <2>2. DOMAIN scope' \subseteq TypeIds \X Classes \X Nat
    BY <1>3, <1>4, <1>5, Zenon DEF TypeOK
  <2>3. status' = status
    BY DEF Declare
  <2>4. QED
    BY <1>1, <1>2, <1>5, <2>1, <2>2, <2>3 DEF TypeOK
<1>10. KeysTrue'
  <2>1. SUFFICES ASSUME NEW l \in DOMAIN scope'
                 PROVE  /\ objects'[scope'[l]].id = l[1] /\ objects'[scope'[l]].class = l[2]
                        /\ objects'[scope'[l]].alias = NoAlias <=> l[3] = 0
                        /\ l[3] <= count'[<<l[1], l[2]>>]
    BY DEF KeysTrue
  <2>2. CASE l \in DOMAIN scope
    <3>1. scope'[l] = scope[l] /\ scope[l] \in 1..N
      BY <1>3, <1>5, <2>2 DEF TypeOK, N
    <3>2. /\ objects[scope[l]].id = l[1] /\ objects[scope[l]].class = l[2]
          /\ objects[scope[l]].alias = NoAlias <=> l[3] = 0
          /\ l[3] <= count[<<l[1], l[2]>>]
      BY <1>5, <2>2, Zenon DEF KeysTrue
    <3>3. l \in TypeIds \X Classes \X Nat
      BY <1>5, <2>2 DEF TypeOK
    <3>4. <<l[1], l[2]>> \in TypeIds \X Classes /\ l[3] \in Nat
      BY <3>3
    <3>5. l[3] <= count'[<<l[1], l[2]>>]
      BY <1>7, <3>2, <3>4
    <3>6. QED
      BY <1>1, <3>1, <3>2, <3>5
  <2>3. CASE l = k
    <3>1. scope'[l] = N + 1 /\ objects'[scope'[l]] = o
      BY <1>1, <1>3, <2>3
    <3>2. <<l[1], l[2]>> = c
      BY <1>4, <2>3 DEF c
    <3>3. /\ l[1] = o.id /\ l[2] = o.class
          /\ l[3] = (IF o.alias = NoAlias THEN 0 ELSE count[c] + 1)
      BY <1>4, <2>3
    <3>4. l[3] <= count'[<<l[1], l[2]>>]
      BY <1>2, <1>4, <3>2, <3>3
    <3>5. o.alias = NoAlias <=> l[3] = 0
      BY <1>4, <3>3
    <3>6. QED
      BY <3>1, <3>3, <3>4, <3>5
  <2>4. QED
    BY <1>3, <2>2, <2>3
<1>11. AliasesCounted'
  <2>1. SUFFICES ASSUME NEW i \in 1..(N + 1)
                 PROVE  objects'[i].alias <= count'[<<objects'[i].id, objects'[i].class>>]
    BY <1>1 DEF AliasesCounted
  <2>2. CASE i \in 1..N
    <3>1. objects'[i] = objects[i] /\ objects[i].alias <= count[<<objects[i].id, objects[i].class>>]
      BY <1>1, <1>5, <2>2 DEF AliasesCounted, N
    <3>2. QED
      BY <1>6, <1>7, <2>2, <3>1
  <2>3. CASE i = N + 1
    <3>1. objects'[i] = o
      BY <1>1, <2>3
    <3>2. o.alias <= count[c] + 1
      BY <1>4, <1>8 DEF NoAlias
    <3>3. o.alias <= count'[<<o.id, o.class>>]
      BY <1>2, <3>2 DEF c
    <3>4. QED
      BY <3>1, <3>3
  <2>4. QED
    BY <1>1, <2>2, <2>3
<1>12. AliasesAreNodes'
  <2>1. \A i \in 1..N : objects'[i].alias # NoAlias => objects'[i].class = "ListNode"
    BY <1>1, <1>5 DEF AliasesAreNodes, N
  <2>2. objects'[N + 1].alias # NoAlias => objects'[N + 1].class = "ListNode"
    BY <1>1, <1>8
  <2>3. QED
    BY <1>1, <2>1, <2>2 DEF AliasesAreNodes
<1>13. NamesDiffer'
  <2>1. ASSUME NEW i \in 1..N, objects[i].id = o.id, objects[i].class = o.class
        PROVE  objects[i].alias # o.alias
    <3>1. CASE o.alias = count[c] + 1
      <4>1. objects[i].alias <= count[<<objects[i].id, objects[i].class>>]
        BY <1>5 DEF AliasesCounted, N
      <4>2. objects[i].alias <= count[c]
        BY <2>1, <4>1 DEF c
      <4>3. QED
        BY <1>4, <1>6, <3>1, <4>2
    <3>2. CASE o.alias = NoAlias /\ Fresh(o.id, o.class)
      BY <2>1, <3>2 DEF Fresh, N
    <3>3. QED
      BY <1>8, <3>1, <3>2
  <2>2. SUFFICES ASSUME NEW i \in 1..(N + 1), NEW j \in 1..(N + 1), i # j,
                        objects'[i].id = objects'[j].id, objects'[i].class = objects'[j].class
                 PROVE  objects'[i].alias # objects'[j].alias
    BY <1>1 DEF NamesDiffer
  <2>3. CASE i \in 1..N /\ j \in 1..N
    <3>1. objects'[i] = objects[i] /\ objects'[j] = objects[j]
      BY <1>1, <2>3
    <3>2. QED
      BY <1>5, <2>2, <2>3, <3>1 DEF NamesDiffer, N
  <2>4. CASE i = N + 1 /\ j \in 1..N
    BY <1>1, <2>1, <2>2, <2>4
  <2>5. CASE j = N + 1 /\ i \in 1..N
    BY <1>1, <2>1, <2>2, <2>5
  <2>6. QED
    BY <1>1, <2>2, <2>3, <2>4, <2>5
<1>14. NothingLost'
  <2>1. SUFFICES ASSUME NEW i \in 1..(N + 1)
                 PROVE  \E l \in DOMAIN scope' : scope'[l] = i
    BY <1>1 DEF NothingLost
  <2>2. CASE i \in 1..N
    <3>1. PICK l \in DOMAIN scope : scope[l] = i
      BY <1>5, <2>2 DEF NothingLost, N
    <3>2. QED
      BY <1>3, <3>1
  <2>3. CASE i = N + 1
    BY <1>3, <2>3
  <2>4. QED
    BY <1>1, <2>2, <2>3
<1>15. WrittenOnce'
  <2>1. \A i \in 1..N : written'[i] <= 1
    BY <1>1, <1>5 DEF WrittenOnce, N
  <2>2. written'[N + 1] <= 1
    BY <1>1
  <2>3. QED
    BY <1>1, <2>1, <2>2 DEF WrittenOnce
<1>16. BasesWritten'
  <2>1. SUFFICES ASSUME NEW i \in 1..(N + 1), written'[i] > 0, objects'[i].alias # NoAlias
                 PROVE  \E j \in 1..(N + 1) :
                          /\ written'[j] > 0 /\ objects'[j].alias = NoAlias
                          /\ objects'[j].id = objects'[i].id /\ objects'[j].class = objects'[i].class
    BY <1>1 DEF BasesWritten
  <2>2. i \in 1..N
    BY <1>1, <2>1
  <2>3. written[i] > 0 /\ objects[i].alias # NoAlias /\ objects'[i] = objects[i]
    BY <1>1, <2>1, <2>2
  <2>4. PICK j \in 1..N : /\ written[j] > 0 /\ objects[j].alias = NoAlias
                          /\ objects[j].id = objects[i].id /\ objects[j].class = objects[i].class
    BY <1>5, <2>2, <2>3 DEF BasesWritten, N
  <2>5. j \in 1..(N + 1) /\ written'[j] = written[j] /\ objects'[j] = objects[j]
    BY <1>1, <2>4
  <2>6. QED
    BY <2>3, <2>4, <2>5
<1>17. QED
  BY <1>9, <1>10, <1>11, <1>12, <1>13, <1>14, <1>15, <1>16 DEF IInv

\* Nothing but the status changes.
LEMMA StatusOnly ==
  ASSUME IInv, UNCHANGED <<objects, count, scope, written>>,
         status' \in {"reading", "closed", "failed"}
  PROVE  IInv'
<1>1. TypeOK'
  BY DEF IInv, TypeOK
<1>2. KeysTrue' /\ AliasesCounted' /\ AliasesAreNodes' /\ NamesDiffer'
  <2>1. KeysTrue'
    BY Zenon DEF IInv, KeysTrue
  <2>2. AliasesCounted' /\ AliasesAreNodes'
    BY Zenon DEF IInv, AliasesCounted, AliasesAreNodes
  <2>3. NamesDiffer'
    BY SMTT(30) DEF IInv, NamesDiffer
  <2>4. QED
    BY <2>1, <2>2, <2>3
<1>3. NothingLost' /\ WrittenOnce' /\ BasesWritten'
  BY Zenon DEF IInv, NothingLost, WrittenOnce, BasesWritten
<1>4. QED
  BY <1>1, <1>2, <1>3 DEF IInv

\* Writing all implementations keeps the invariant: what is not written yet is written
\* once, and the bases of aliases are among it or were written before.
LEMMA ImplementAllKeeps ==
  ASSUME IInv, ImplementAll
  PROVE  IInv'
<1> DEFINE N == Len(objects)
<1>1. /\ N \in Nat /\ Len(written) = N /\ \A i \in 1..N : written[i] \in Nat
      /\ DOMAIN written = 1..N
  BY LenProperties, ElementOfSeq DEF IInv, TypeOK
<1>2. UNCHANGED <<objects, count, scope, stated>>
  BY Zenon DEF ImplementAll
<1>3. status' \in {"reading", "closed", "failed"}
  BY DEF ImplementAll, IInv, TypeOK
<1>4. CASE UNCHANGED written
  BY <1>2, <1>3, <1>4, StatusOnly
<1>5. CASE /\ \A o \in Unwritten : HasBase(o)
           /\ written' = [o \in 1..Len(written) |-> written[o] + (IF o \in Unwritten THEN 1 ELSE 0)]
  <2>1. \A i \in 1..N : i \in Unwritten <=> written[i] = 0
    BY DEF IInv, NothingLost, Unwritten
  <2>2. \A i \in 1..N : written'[i] = written[i] + (IF i \in Unwritten THEN 1 ELSE 0)
    BY <1>1, <1>5
  <2>3. \A i \in 1..N : written'[i] = 1
    <3>1. SUFFICES ASSUME NEW i \in 1..N
                   PROVE  written'[i] = 1
      OBVIOUS
    <3>2. written[i] \in Nat /\ written[i] <= 1
      BY <1>1 DEF IInv, WrittenOnce
    <3>3. QED
      BY <2>1, <2>2, <3>2
  <2>4. written' \in Seq(Nat) /\ Len(written') = N
    <3>1. written' \in [1..N -> Nat]
      BY <1>1, <1>5
    <3>2. written' \in Seq(Nat)
      BY <1>1, <3>1, SeqDef
    <3>3. DOMAIN written' = 1..N /\ DOMAIN written' = 1..Len(written') /\ Len(written') \in Nat
      BY <3>1, <3>2, LenProperties
    <3>4. QED
      BY <1>1, <3>2, <3>3
  <2>5. TypeOK'
    BY <1>2, <1>3, <2>4 DEF IInv, TypeOK
  <2>6. WrittenOnce'
    BY <1>2, <2>3 DEF WrittenOnce
  <2>7. BasesWritten'
    <3>1. SUFFICES ASSUME NEW i \in 1..N, objects[i].alias # NoAlias
                   PROVE  \E j \in 1..N :
                            /\ written'[j] > 0 /\ objects[j].alias = NoAlias
                            /\ objects[j].id = objects[i].id /\ objects[j].class = objects[i].class
      BY <1>2 DEF BasesWritten
    <3>2. CASE written[i] = 0
      <4> DEFINE k == <<objects[i].id, objects[i].class, 0>>
      <4>1. k \in DOMAIN scope
        BY <1>5, <2>1, <3>2 DEF HasBase
      <4>2. /\ scope[k] \in 1..N /\ objects[scope[k]].alias = NoAlias
            /\ objects[scope[k]].id = objects[i].id /\ objects[scope[k]].class = objects[i].class
        BY <4>1 DEF IInv, TypeOK, KeysTrue
      <4>3. QED
        BY <2>3, <4>2
    <3>3. CASE written[i] # 0
      <4>1. written[i] > 0
        BY <1>1, <3>3
      <4>2. PICK j \in 1..N : /\ objects[j].alias = NoAlias
                              /\ objects[j].id = objects[i].id /\ objects[j].class = objects[i].class
        BY <3>1, <4>1 DEF IInv, BasesWritten
      <4>3. QED
        BY <2>3, <4>2
    <3>4. QED
      BY <3>2, <3>3
  <2>8. KeysTrue' /\ AliasesCounted' /\ AliasesAreNodes' /\ NamesDiffer' /\ NothingLost'
    <3>1. KeysTrue'
      BY <1>2, Zenon DEF IInv, KeysTrue
    <3>2. AliasesCounted' /\ AliasesAreNodes'
      BY <1>2, Zenon DEF IInv, AliasesCounted, AliasesAreNodes
    <3>3. NamesDiffer'
      BY <1>2, SMTT(30) DEF IInv, NamesDiffer
    <3>4. NothingLost'
      BY <1>2, Zenon DEF IInv, NothingLost
    <3>5. QED
      BY <3>1, <3>2, <3>3, <3>4
  <2>9. QED
    BY <2>5, <2>6, <2>7, <2>8 DEF IInv
<1>6. QED
  BY <1>4, <1>5, Zenon DEF ImplementAll

\* IInv is inductive.
LEMMA Inductive ==
  ASSUME IInv, [Next]_vars
  PROVE  IInv'
<1>1. ASSUME NEW id \in TypeIds, NEW a \in Accesses, NEW s \in Specs[id], DeclareRef(id, a, s)
      PROVE  IInv'
  <2> DEFINE o == [class |-> "RefType", id |-> id, access |-> a, alias |-> NoAlias, spec |-> s]
  <2>1. Declare(o) /\ Fresh(id, "RefType")
    BY <1>1 DEF DeclareRef
  <2>2. o \in Object
    BY SpecsAssumption, AccessesAssumption DEF Object, Classes, NoAlias
  <2>3. Declarable(o)
    BY <2>1, <2>2 DEF Declarable
  <2> HIDE DEF o
  <2>4. QED
    BY <2>1, <2>3, DeclareKeeps
<1>2. ASSUME NEW id \in TypeIds, NEW a \in Accesses, DeclareNode(id, a)
      PROVE  IInv'
  <2> DEFINE o == [class |-> "ListNode", id |-> id, access |-> a, alias |-> NoAlias, spec |-> Plain]
  <2>1. Declare(o) /\ Fresh(id, "ListNode")
    BY <1>2 DEF DeclareNode
  <2>2. o \in Object
    BY AccessesAssumption DEF Object, Classes, NoAlias, Plain, SpecForms
  <2>3. Declarable(o)
    BY <2>1, <2>2 DEF Declarable
  <2> HIDE DEF o
  <2>4. QED
    BY <2>1, <2>3, DeclareKeeps
<1>3. ASSUME NEW id \in TypeIds, DeclareAlias(id)
      PROVE  IInv'
  <2> DEFINE o == [class |-> "ListNode", id |-> id, access |-> "private",
                   alias |-> AliasNumber(id) + 1, spec |-> Plain]
  <2>1. Declare(o)
    BY <1>3 DEF DeclareAlias
  <2>2. count[<<id, "ListNode">>] \in Nat
    BY DEF IInv, TypeOK, Classes
  <2>3. o \in Object
    BY <2>2 DEF Object, Classes, AliasNumber, Plain, SpecForms
  <2>4. Declarable(o)
    BY <2>3 DEF Declarable, AliasNumber
  <2> HIDE DEF o
  <2>5. QED
    BY <2>1, <2>4, DeclareKeeps
<1>4. ASSUME ImplementAll
      PROVE  IInv'
  BY <1>4, ImplementAllKeeps
<1>5. ASSUME \/ DeclareWrong \/ Close \/ \E id \in TypeIds : Implement(id)
             \/ UNCHANGED vars
      PROVE  IInv'
  <2>1. UNCHANGED <<objects, count, scope, stated, written>>
    BY <1>5, Zenon DEF DeclareWrong, Close, Implement, vars
  <2>2. status' \in {"reading", "closed", "failed"}
    BY <1>5 DEF DeclareWrong, Close, Implement, vars, IInv, TypeOK
  <2>3. QED
    BY <2>1, <2>2, StatusOnly
<1>6. QED
  BY <1>1, <1>2, <1>3, <1>4, <1>5, Zenon DEF Next

LEMMA Initially ==
  ASSUME Init
  PROVE  IInv
<1>1. /\ objects = <<>> /\ written = <<>> /\ scope = [k \in {} |-> 0] /\ status = "reading"
      /\ count = [k \in TypeIds \X Classes |-> 0]
  BY Zenon DEF Init
<1>2. objects \in Seq(Object) /\ written \in Seq(Nat) /\ Len(objects) = 0 /\ Len(written) = 0
  BY <1>1, EmptySeq
<1>3. DOMAIN scope = {}
  BY <1>1
<1>4. TypeOK
  BY <1>1, <1>2, <1>3 DEF TypeOK
<1>5. KeysTrue /\ NothingLost
  BY <1>2, <1>3 DEF KeysTrue, NothingLost
<1>6. AliasesCounted /\ AliasesAreNodes /\ NamesDiffer /\ WrittenOnce /\ BasesWritten
  BY <1>2 DEF AliasesCounted, AliasesAreNodes, NamesDiffer, WrittenOnce, BasesWritten
<1>7. QED
  BY <1>4, <1>5, <1>6 DEF IInv

LEMMA Invariant == Spec => []IInv
BY Initially, Inductive, PTL DEF Spec

\* Each name that a declaration lists has an access statement from then on.
AllStated == \A i \in 1..Len(objects) : Idents(objects[i]) \subseteq Watched

\* Each declaration states just the names that no earlier one listed.
LEMMA AccessInductive ==
  ASSUME IInv, AllStated, FirstAccessHolds, [Next]_vars
  PROVE  AllStated' /\ FirstAccessHolds'
<1> DEFINE N == Len(objects)
<1>1. ASSUME NEW o, Declare(o)
      PROVE  AllStated' /\ FirstAccessHolds'
  <2>1. /\ objects' = Append(objects, o) /\ stated' = stated \cup NewStatements(o)
    BY <1>1, Zenon DEF Declare
  <2>2. objects \in Seq({objects[i] : i \in 1..N} \cup {o}) /\ N \in Nat
    <3>1. N \in Nat /\ objects \in [1..N -> Object]
      BY LenProperties DEF IInv, TypeOK
    <3>2. objects \in [1..N -> {objects[i] : i \in 1..N} \cup {o}]
      BY <3>1
    <3>3. QED
      BY <3>1, <3>2, SeqDef
  <2>3. /\ Len(objects') = N + 1 /\ objects'[N + 1] = o
        /\ \A i \in 1..N : objects'[i] = objects[i]
    BY <2>1, <2>2, AppendProperties
  <2>4. Watched' = Watched \cup Idents(o)
    <3>1. {p[1] : p \in NewStatements(o)} = Idents(o) \ Watched
      <4>1. ASSUME NEW x \in Idents(o) \ Watched
            PROVE  x \in {p[1] : p \in NewStatements(o)}
        <5>1. <<x, o.access>> \in NewStatements(o) /\ <<x, o.access>>[1] = x
          BY DEF NewStatements
        <5>2. QED
          BY <5>1, Zenon
      <4>2. ASSUME NEW p \in NewStatements(o)
            PROVE  p[1] \in Idents(o) \ Watched
        BY DEF NewStatements
      <4>3. QED
        BY <4>1, <4>2, Zenon
    <3>2. Watched' = Watched \cup {p[1] : p \in NewStatements(o)}
      BY <2>1, Zenon DEF Watched
    <3>3. QED
      BY <3>1, <3>2
  <2>5. AllStated'
    <3>1. SUFFICES ASSUME NEW i \in 1..(N + 1)
                   PROVE  Idents(objects'[i]) \subseteq Watched'
      BY <2>3, Zenon DEF AllStated, Idents
    <3>2. CASE i \in 1..N
      BY <2>3, <2>4, <3>2 DEF AllStated
    <3>3. CASE i = N + 1
      BY <2>3, <2>4, <3>3
    <3>4. QED
      BY <2>2, <3>2, <3>3
  <2>6. ASSUME NEW p \in stated'
        PROVE  \E i \in 1..(N + 1) :
                 /\ p[1] \in Idents(objects'[i]) /\ p[2] = objects'[i].access
                 /\ \A j \in 1..(i - 1) : p[1] \notin Idents(objects'[j])
    <3>1. CASE p \in stated
      <4>1. PICK i \in 1..N : /\ p[1] \in Idents(objects[i]) /\ p[2] = objects[i].access
                              /\ \A j \in 1..(i - 1) : p[1] \notin Idents(objects[j])
        BY <3>1 DEF FirstAccessHolds
      <4>2. i \in 1..(N + 1) /\ objects'[i] = objects[i]
            /\ \A j \in 1..(i - 1) : objects'[j] = objects[j]
        BY <2>2, <2>3, <4>1
      <4>3. QED
        BY <4>1, <4>2
    <3>2. CASE p \in NewStatements(o)
      <4>1. p[1] \in Idents(o) \ Watched /\ p[2] = o.access
        BY <3>2 DEF NewStatements
      <4>2. \A j \in 1..N : p[1] \notin Idents(objects[j])
        BY <4>1 DEF AllStated
      <4>3. \A j \in 1..(N + 1 - 1) : j \in 1..N /\ objects'[j] = objects[j]
        BY <2>2, <2>3
      <4>4. QED
        BY <2>2, <2>3, <4>1, <4>2, <4>3
    <3>3. QED
      BY <2>1, <3>1, <3>2
  <2>7. FirstAccessHolds'
    BY <2>3, <2>6, Zenon DEF FirstAccessHolds, Idents
  <2>8. QED
    BY <2>5, <2>7
<1>2. ASSUME UNCHANGED <<objects, stated>>
      PROVE  AllStated' /\ FirstAccessHolds'
  BY <1>2, Zenon DEF AllStated, FirstAccessHolds, Watched
<1>3. QED
  BY <1>1, <1>2, Zenon DEF Next, vars, DeclareRef, DeclareNode, DeclareAlias, DeclareWrong, Implement,
                           ImplementAll, Close

-----------------------------------------------------------------------------
(* Theorems *)

\* All variables keep their types: the declarations, their numbers and keys, and how often
\* each was written.
THEOREM TypesKept == Spec => []TypeOK
<1>1. IInv => TypeOK
  BY DEF IInv
<1>2. QED
  BY <1>1, Invariant, PTL

\* Each declaration is found in scope under a key of its own, whatever the order of
\* base types and aliases (setDeclaration, getAliasCount).
THEOREM DeclarationsKept == Spec => []NothingLost
<1>1. IInv => NothingLost
  BY DEF IInv
<1>2. QED
  BY <1>1, Invariant, PTL

\* No procedure is written twice, however often implementations are asked for, and
\* no two declarations define procedures of the same name.
THEOREM ProceduresUnique == Spec => []DefinedOnce
<1>1. ASSUME IInv
      PROVE  DefinedOnce
  <2>1. SUFFICES ASSUME NEW i \in 1..Len(objects), NEW j \in 1..Len(objects), i # j
                 PROVE  Defined(objects[i]) \cap Defined(objects[j]) = {}
    BY <1>1 DEF DefinedOnce, IInv, WrittenOnce
  <2>2. objects[i] \in Object /\ objects[j] \in Object
    BY <1>1, ElementOfSeq DEF IInv, TypeOK
  <2>3. SUFFICES ASSUME NEW x \in Defined(objects[i]), x \in Defined(objects[j])
                 PROVE  FALSE
    OBVIOUS
  <2>4. PICK n \in IF objects[i].class = "RefType" THEN RefNames(objects[i].spec)
                                                   ELSE NodeProcs(objects[i].alias) :
          x = <<objects[i].id, objects[i].alias, n>>
    BY <2>3, Zenon DEF Defined, Named, RefNames
  <2>5. PICK m \in IF objects[j].class = "RefType" THEN RefNames(objects[j].spec)
                                                   ELSE NodeProcs(objects[j].alias) :
          x = <<objects[j].id, objects[j].alias, m>>
    BY <2>3, Zenon DEF Defined, Named, RefNames
  <2>6. objects[i].id = objects[j].id /\ objects[i].alias = objects[j].alias /\ n = m
    BY <2>4, <2>5
  <2>7. objects[i].class # objects[j].class
    BY <1>1, <2>1, <2>6, Zenon DEF IInv, NamesDiffer
  <2>8. /\ objects[i].class \in {"RefType", "ListNode"} /\ objects[j].class \in {"RefType", "ListNode"}
        /\ objects[i].spec \in SpecForms /\ objects[j].spec \in SpecForms
        /\ objects[i].alias \in Nat /\ objects[j].alias \in Nat
    BY <2>2 DEF Object, Classes
  <2>9. CASE objects[i].class = "RefType" /\ objects[j].class = "ListNode"
    BY <2>4, <2>5, <2>6, <2>8, <2>9, ClassesApart
  <2>10. CASE objects[j].class = "RefType" /\ objects[i].class = "ListNode"
    BY <2>4, <2>5, <2>6, <2>8, <2>10, ClassesApart
  <2>11. QED
    BY <2>7, <2>8, <2>9, <2>10
<1>2. QED
  BY <1>1, Invariant, PTL

\* Every procedure that is promised by an interface, named by type information or called
\* by generated code is defined by the time the declaration is written, for every
\* combination of options.
THEOREM OutputComplete == Spec => []PromisesKept
<1>1. ASSUME IInv
      PROVE  PromisesKept
  <2> DEFINE W == {i \in 1..Len(objects) : written[i] > 0}
  <2>1. SUFFICES ASSUME NEW i \in W
                 PROVE  Promised(objects[i]) \cup Referred(objects[i])
                          \subseteq UNION {Defined(objects[j]) : j \in W}
    BY Zenon DEF PromisesKept
  <2>2. objects[i] \in Object
    BY <1>1, ElementOfSeq DEF IInv, TypeOK
  <2>3. /\ objects[i].class \in {"RefType", "ListNode"}
        /\ objects[i].spec \in SpecForms /\ objects[i].alias \in Nat
    BY <2>2 DEF Object, Classes
  <2>4. CASE objects[i].class = "RefType"
    <3>1. /\ Promised(objects[i]) = Named(objects[i], RefPromises(objects[i].spec))
          /\ Referred(objects[i]) = Named(objects[i], RefReferences(objects[i].spec))
          /\ Defined(objects[i]) = Named(objects[i], RefNames(objects[i].spec))
      BY <2>4, Zenon DEF Promised, Referred, Defined, RefPromises, RefNames
    <3>2. /\ RefPromises(objects[i].spec) \subseteq RefNames(objects[i].spec)
          /\ RefReferences(objects[i].spec) \subseteq RefNames(objects[i].spec)
      BY <2>3, InterfacesKept, ReferencesKept
    <3>3. Promised(objects[i]) \cup Referred(objects[i]) \subseteq Defined(objects[i])
      BY <3>1, <3>2, Zenon DEF Named
    <3>4. QED
      BY <3>3, Zenon
  <2>5. CASE objects[i].class = "ListNode" /\ objects[i].alias = NoAlias
    <3>1. Promised(objects[i]) \cup Referred(objects[i]) \subseteq Defined(objects[i])
      BY <2>5 DEF Promised, Referred, Defined, Named, NodePromises, NodeProcs, NodeReferences, NoAlias
    <3>2. QED
      BY <3>1, Zenon
  <2>6. CASE objects[i].class = "ListNode" /\ objects[i].alias # NoAlias
    <3>1. PICK j \in W : /\ objects[j].alias = NoAlias
                         /\ objects[j].id = objects[i].id /\ objects[j].class = objects[i].class
      BY <1>1, <2>6 DEF IInv, BasesWritten
    <3>2. Promised(objects[i]) \subseteq Defined(objects[i])
      BY <2>6 DEF Promised, Defined, Named, NodePromises, NodeProcs
    <3>3. Referred(objects[i]) \subseteq Defined(objects[j])
      BY <2>6, <3>1 DEF Referred, Defined, Named, NodeProcs, NodeReferences
    <3>4. QED
      BY <3>1, <3>2, <3>3, Zenon
  <2>7. QED
    BY <2>3, <2>4, <2>5, <2>6
<1>2. QED
  BY <1>1, Invariant, PTL

\* The access of a name is that of the first declaration that listed it, whatever the
\* declarations after it say (expandAccess).
THEOREM AccessOfFirst == Spec => []FirstAccessHolds
<1>1. Init => AllStated /\ FirstAccessHolds
  BY DEF Init, AllStated, FirstAccessHolds
<1>2. IInv /\ AllStated /\ FirstAccessHolds /\ [Next]_vars => AllStated' /\ FirstAccessHolds'
  BY AccessInductive
<1>3. QED
  BY <1>1, <1>2, Invariant, PTL DEF Spec

=============================================================================
