------------------------------- MODULE MapSpec -------------------------------
(***************************************************************************)
(* What the hash maps of fde_hashmap promise to their callers, free of     *)
(* buckets, chains and the node cache they share: every map is a partial   *)
(* function from keys to items, and what is done to one map never shows in *)
(* another one.  HashMap.tla is shown to implement this module.            *)
(***************************************************************************)

CONSTANTS
  Maps,      \* the hash maps of the program
  Keys,      \* the keys the callers use
  Values,    \* the contents an item may be given
  Void,      \* the content of an item nobody has written to
  Absent     \* "no such key": what an absent key maps to, a null pointer

VARIABLES
  content,   \* content[m][k]: the item map m holds for key k, or Absent
  ret        \* what the last call returned (the item behind a pointer)

mapVars == <<content, ret>>

Contents == Values \cup {Void}

Empty == [k \in Keys |-> Absent]

Init ==
  /\ content = [m \in Maps |-> Empty]
  /\ ret = Absent

\* Store item c for key k in map m.
Put(m, k, c) == content' = [content EXCEPT ![m][k] = c]

Set(m, k, v) ==
  /\ ret' = v
  /\ Put(m, k, v)

\* The pointer of get: an absent key is given a void item.
Get(m, k) ==
  LET c == IF content[m][k] = Absent THEN Void ELSE content[m][k]
  IN  /\ ret' = c
      /\ Put(m, k, c)

SetDefault(m, k, v) ==
  LET c == IF content[m][k] = Absent THEN v ELSE content[m][k]
  IN  /\ ret' = c
      /\ Put(m, k, c)

\* getPtr, hasKey: a lookup that never creates anything.
Lookup(m, k) ==
  /\ ret' = content[m][k]
  /\ UNCHANGED content

\* remove, unset, pop: the caller of pop is handed the removed item.
Unset(m, k) ==
  /\ ret' = content[m][k]
  /\ Put(m, k, Absent)

\* clear, delete, and initialize when it starts over.
Drop(m) ==
  /\ ret' = Absent
  /\ content' = [content EXCEPT ![m] = Empty]

Assign(m, r) ==
  /\ ret' = Absent
  /\ content' = [content EXCEPT ![m] = content[r]]

\* What only concerns the memory of the maps, or an initialize that keeps them.
Housekeeping ==
  /\ ret' = Absent
  /\ UNCHANGED content

Next ==
  \/ \E m \in Maps, k \in Keys, v \in Values : Set(m, k, v) \/ SetDefault(m, k, v)
  \/ \E m \in Maps, k \in Keys : Get(m, k) \/ Lookup(m, k) \/ Unset(m, k)
  \/ \E m \in Maps : Drop(m)
  \/ \E m, r \in Maps : Assign(m, r)
  \/ Housekeeping

Spec == Init /\ [][Next]_mapVars

=============================================================================
