--------------------------------- MODULE List ---------------------------------
(***************************************************************************)
(* The doubly linked lists of libfde, src/list_impl.F90: rings of nodes,   *)
(* each closed by the node that is part of its List_t, and the list of all *)
(* nodes that were removed from one, list_stale_list.                      *)
(*                                                                         *)
(* Loops go a node at a time: calls is the stack of the calls that are on  *)
(* their way.  The only calls within calls come from values that have to   *)
(* be deleted with their node: a list deletes its nodes, and a hash map    *)
(* appends its nodes to the list of unused ones, Cache.                    *)
(***************************************************************************)
EXTENDS Integers, Sequences, SequencesExt

CONSTANTS
  Lists, Stale,   \* the lists of the program; list_stale_list
  Temp,           \* the local list of list_assign_idx_c
  Nodes,
  Nil,
  OwnedList,      \* the list that belongs to the value of a node, or Nil
  MapNodes,       \* the nodes with a hash map, and that list for a bucket
  Cache,          \* hashmap_nodeCache
  Positions,      \* the positions and strides callers ask for
  Strides,
  RemoveNested,   \* whether nodes with a list are removed
  MaxCalls,       \* bound on the stack
  MaxInexact      \* bound on the lists whose length is unknown, or may be wrong

Heads == Lists \cup {Stale, Temp}
Links == Heads \cup Nodes

ASSUME HeadsAssumption == /\ Stale \notin Lists /\ Temp \notin Lists /\ Stale # Temp
                          /\ Cache \in Lists /\ Heads \cap Nodes = {} /\ Nil \notin Links
ASSUME ValuesAssumption == /\ OwnedList \in [Nodes -> Lists \cup {Nil}]
                           /\ MapNodes \subseteq {n \in Nodes : OwnedList[n] # Nil}
ASSUME NumbersAssumption == /\ IsFiniteSet(Nodes) /\ Positions \subseteq Int /\ Strides \subseteq Int
                            /\ RemoveNested \in BOOLEAN /\ MaxCalls \in Nat /\ MaxInexact \in Nat

VARIABLES
  mem,        \* the pointers next and prev, Nil in nodes that are not allocated
  length,     \* -1 where it is unknown
  guessed,    \* ghost: the lists whose length was computed from an unknown one
  calls

vars == <<mem, length, guessed, calls>>

Index == [host : Heads, node : Links, stride : Int]

\* A call: clear, delete and so on of list; self and idx are indices, taken the
\* nodes it has moved; plan, a ghost, those it is to move.
Call == [op : {"clear", "copy", "insert", "pop", "assign", "append"}, list : Heads,
         self : Index, idx : Index, begun : BOOLEAN, deleted : BOOLEAN,
         taken : Seq(Nodes), plan : Seq(Nodes)]

Memory == [next : [Links -> Links \cup {Nil}], prev : [Links -> Links \cup {Nil}]]

\* The types of the variables (part of RingsConsistent); no length is below that of an
\* unknown one.
TypeOK ==
  /\ mem \in Memory
  /\ length \in [Heads -> Int]
  /\ \A l \in Heads \ guessed : length[l] >= -1
  /\ guessed \subseteq Heads
  /\ calls \in Seq(Call)

-----------------------------------------------------------------------------
(* Pointers *)

\* listnode_init_f
Alone(m, n) == [next |-> [m.next EXCEPT ![n] = n], prev |-> [m.prev EXCEPT ![n] = n]]

\* list_link_node_
Linked(m, n, p, x) ==
  [next |-> [m.next EXCEPT ![n] = x, ![p] = n], prev |-> [m.prev EXCEPT ![x] = n, ![n] = p]]

\* list_unlink_node_
Unlinked(m, p, x) == [next |-> [m.next EXCEPT ![p] = x], prev |-> [m.prev EXCEPT ![x] = p]]

\* Mutant: the place is read from the neighbour that has changed already.
InsertedForward(m, pos, before, after) ==
  LET a == [m EXCEPT !.next[m.prev[pos]] = m.next[before]]
      b == [a EXCEPT !.prev[pos] = a.prev[after]]
      c == [b EXCEPT !.prev[b.next[before]] = b.prev[pos]]
      d == [c EXCEPT !.next[c.prev[after]] = pos]
  IN  Unlinked(d, before, after)

\* list_insert_nodes_, statement by statement, since the arguments may be the
\* same nodes: those of an empty list, or neighbours.
Inserted(m, pos, before, after) ==
  LET a == [m EXCEPT !.next[m.prev[pos]] = m.next[before]]
      b == [a EXCEPT !.prev[a.next[before]] = a.prev[pos]]
      c == [b EXCEPT !.prev[pos] = b.prev[after]]
      d == [c EXCEPT !.next[c.prev[after]] = pos]
  IN  Unlinked(d, before, after)

Allocated(n) == mem.next[n] # Nil
Abs(i) == IF i < 0 THEN -i ELSE i
Toward(m, i) == IF i > 0 THEN m.next ELSE m.prev

IsValid(i) == i.node # i.host

\* listindex_advance_head_ stops at the node of the list.
Advanced(m, i) ==
  LET at[k \in 0..Abs(i.stride)] ==
        IF k = 0 THEN i.node
        ELSE IF at[k - 1] = i.host THEN i.host ELSE Toward(m, i.stride)[at[k - 1]]
  IN  [i EXCEPT !.node = at[Abs(i.stride)]]

\* list_index_int, with listindex_advance_foot_, which starts there.
IndexAt(m, l, pos, stride) ==
  LET at[k \in 0..Abs(pos)] ==
        IF k = 0 THEN l
        ELSE IF k > 1 /\ at[k - 1] = l THEN l ELSE Toward(m, pos)[at[k - 1]]
  IN  [host |-> l, node |-> at[Abs(pos)], stride |-> stride]

\* The nodes from start on to the end of its list.
Walk(m, start) ==
  LET at[k \in 0..Cardinality(Nodes)] ==
        IF k = 0 THEN start ELSE IF at[k - 1] \in Nodes THEN m.next[at[k - 1]] ELSE at[k - 1]
      n == Cardinality({k \in 0..Cardinality(Nodes) : at[k] \in Nodes})
  IN  [k \in 1..n |-> at[k - 1]]

-----------------------------------------------------------------------------
(* Calls *)

Idle == calls = <<>>
Top == calls[Len(calls)]
Calling(op) == calls # <<>> /\ Top.op = op

NewCall(op, l, self, idx, plan) ==
  [op |-> op, list |-> l, self |-> self, idx |-> idx, begun |-> FALSE, deleted |-> FALSE,
   taken |-> <<>>, plan |-> plan]

\* Mutant: the first node is looked up when list_delete_c is called.
ClearingEarly(l) ==
  [NewCall("clear", l, IndexAt(mem, l, 0, 1), IndexAt(mem, l, 1, 1), <<>>) EXCEPT !.begun = TRUE]

Clearing(l) == NewCall("clear", l, IndexAt(mem, l, 0, 1), IndexAt(mem, l, 0, 1), <<>>)

Returned == SubSeq(calls, 1, Len(calls) - 1)
Replaced(call) == [calls EXCEPT ![Len(calls)] = call]

\* The nodes of a list; where it is being cleared those that are left.
Elements(l) ==
  LET at == {k \in 1..Len(calls) : calls[k].op = "clear" /\ calls[k].list = l /\ calls[k].begun}
  IN  Walk(mem, IF at = {} THEN mem.next[l] ELSE calls[Max(at)].idx.node)

\* The nodes of e from the p-th on in steps of d.
Stepped(e, p, d) ==
  LET n == IF d > 0 THEN (Len(e) - p) \div d + 1 ELSE IF d < 0 THEN (p - 1) \div (-d) + 1 ELSE 1
  IN  [k \in 1..n |-> e[p + (k - 1) * d]]

\* The nodes idx stands for, from its own one in steps of its stride.
Selected(idx) ==
  LET e == Elements(idx.host)
      p == CHOOSE k \in 1..Len(e) : e[k] = idx.node
  IN  IF IsValid(idx) THEN Stepped(e, p, idx.stride) ELSE <<>>

Plain(n) == OwnedList[n] = Nil
Owned(l) == \E n \in Nodes : OwnedList[n] = l

\* The values of nodes are lists of plain nodes, and exist as long as the node.
Usable(l) == \A n \in Nodes : OwnedList[n] = l => Allocated(n)
MayHold(l, n) ==
  \/ Plain(n)
  \/ l \in Lists /\ ~Owned(l)
  \/ l = Stale /\ (n \in MapNodes \/ RemoveNested)

Unknown(S) == {l \in S : length[l] < 0}

Init ==
  /\ mem = LET all == [n \in Links |-> IF n \in Heads THEN n ELSE Nil] IN [next |-> all, prev |-> all]
  /\ length = [l \in Heads |-> 0]
  /\ guessed = {}
  /\ calls = <<>>

-----------------------------------------------------------------------------
(* Calls without a loop *)

\* A new node before node pos of list l.
Link(l, n, pos) ==
  /\ ~Allocated(n) /\ MayHold(l, n)
  /\ mem' = Linked(mem, n, mem.prev[pos], pos)
  /\ length' = [length EXCEPT ![l] = @ + 1]
  /\ guessed' = guessed \cup Unknown({l})

\* list_append_node_c
AppendNode(l, n) ==
  /\ Idle /\ Usable(l)
  /\ Link(l, n, l)
  /\ UNCHANGED calls

\* listindex_insert_node_c
InsertNode(l, at, n) ==
  /\ Idle /\ Usable(l)
  /\ Link(l, n, IndexAt(mem, l, at, 1).node)
  /\ UNCHANGED calls

\* All nodes of k before node pos of another list l.
Join(l, pos, k) ==
  /\ l # k
  /\ mem' = Inserted(mem, pos, k, k)
  /\ length' = [length EXCEPT ![l] = @ + length[k], ![k] = 0]
  /\ guessed' = (guessed \ {k}) \cup (IF {l, k} \cap (guessed \cup Unknown(Heads)) = {} THEN {} ELSE {l})

\* list_append_list_c
AppendList(l, k) ==
  /\ Idle /\ Usable(l) /\ Usable(k)
  /\ \A n \in ToSet(Elements(k)) : MayHold(l, n)
  /\ Join(l, l, k)
  /\ UNCHANGED calls

\* listindex_insert_list_c
InsertList(l, at, k) ==
  /\ Idle /\ Usable(l) /\ Usable(k)
  /\ \A n \in ToSet(Elements(k)) : MayHold(l, n)
  /\ Join(l, IndexAt(mem, l, at, 1).node, k)
  /\ UNCHANGED calls

\* listindex_insert_range_c: the i-th to the j-th node of another list.
InsertRange(l, at, k, i, j) ==
  /\ Idle /\ Usable(l) /\ Usable(k) /\ l # k
  /\ Cardinality({l, k} \cup guessed \cup Unknown(Heads)) <= MaxInexact
  /\ LET beg == IndexAt(mem, k, i, 1)
         end == IndexAt(mem, k, j, 1)
     IN  /\ IsValid(beg) /\ end.node \in ToSet(Walk(mem, beg.node))
         /\ \A n \in ToSet(Elements(k)) : MayHold(l, n)
         /\ mem' = Inserted(mem, IndexAt(mem, l, at, 1).node, mem.prev[beg.node], mem.next[end.node])
  /\ length' = [length EXCEPT ![l] = -1, ![k] = -1]
  /\ guessed' = guessed \ {l, k}
  /\ UNCHANGED calls

\* list_len_c counts once when the length is unknown.
LenOf(l) ==
  /\ Idle /\ Usable(l)
  /\ length[l] < 0
  /\ length' = [length EXCEPT ![l] = Len(Elements(l))]
  /\ guessed' = guessed \ {l}
  /\ UNCHANGED <<mem, calls>>

-----------------------------------------------------------------------------
(* Moving the nodes of an index: listindex_insert_idx_cnt_ *)

\* Nodes are moved within a list one at a time only, since further ones would be
\* met again behind those that were moved to its end; and not to where they are,
\* since that takes them out of the ring.
Moving(op, l, self, idx) ==
  /\ IsValid(idx) /\ idx.host = self.host =>
       idx.stride = 0 /\ self.node \notin {idx.node, mem.next[idx.node]}
  /\ \A n \in ToSet(Selected(idx)) : MayHold(self.host, n)
  /\ calls' = Append(calls, NewCall(op, l, self, idx, Selected(idx)))
  /\ UNCHANGED <<mem, length, guessed>>

\* listindex_insert_idx_c; list_append_idx_c is the one at the end.
InsertIndex(self, idx) ==
  /\ Idle /\ Usable(self.host) /\ Usable(idx.host)
  /\ Moving("insert", self.host, self, idx)

\* listindex_remove_idx_c
RemoveIndex(idx) ==
  /\ Idle /\ Usable(idx.host)
  /\ Moving("insert", Stale, IndexAt(mem, Stale, 0, 0), idx)

\* listindex_pop_idx; list_pop_int with stride 0.
PopIndex(idx) ==
  /\ Idle /\ Usable(idx.host)
  /\ Moving("pop", Stale, IndexAt(mem, Stale, 0, 0), idx)

\* list_assign_idx_c of nodes of the list itself, which leaves only these in it.
AssignOwn(l, idx) ==
  /\ Idle /\ Usable(l) /\ idx.host = l
  /\ Moving("assign", l, IndexAt(mem, Temp, 0, 0), idx)

Moves == calls # <<>> /\ Top.op \in {"insert", "pop", "assign"}
Done == ~IsValid(Top.idx) \/ (Top.idx.stride = 0 /\ Top.taken # <<>>)

\* Mutant: the index goes on after its node was moved.
SourceAfter(before, after) == Advanced(after, Top.idx)

\* The index goes on before its node is moved.
Source(before, after) == Advanced(before, Top.idx)

\* Mutant: only the list the node goes to counts it.
RecountedOnce(to, from) == [length EXCEPT ![to] = @ + 1]

Recounted(to, from) == [length EXCEPT ![to] = @ + 1, ![from] = @ - 1]

MoveNode ==
  /\ Moves /\ ~Done
  /\ LET node == Top.idx.node
         self == Top.self
         host == Top.idx.host
     IN  /\ mem' = Inserted(mem, self.node, mem.prev[node], mem.next[node])
         /\ length' = Recounted(self.host, host)
         /\ guessed' = guessed \cup Unknown({self.host, host})
         /\ calls' = Replaced([Top EXCEPT !.idx = Source(mem, mem'), !.self = Advanced(mem', self),
                                          !.taken = Append(@, node)])

\* What listindex_pop_idx returns: an index from the first of the nodes on.
Popped == IndexAt(mem, Stale, -Len(Top.taken), 1)

MoveDone ==
  /\ Moves /\ Done
  /\ calls' = IF Top.op = "assign"
              THEN Replaced([Top EXCEPT !.op = "append"]) \o <<Clearing(Top.list)>>
              ELSE Returned
  /\ UNCHANGED <<mem, length, guessed>>

\* The end of list_assign_idx_c.
AssignDone ==
  /\ Calling("append")
  /\ Join(Top.list, Top.list, Temp)
  /\ calls' = Returned

-----------------------------------------------------------------------------
(* Clearing *)

\* list_clear_c
Clear(l) ==
  /\ Idle /\ Usable(l)
  /\ calls' = <<Clearing(l)>>
  /\ UNCHANGED <<mem, length, guessed>>

\* list_delete_c clears the list, then that of the removed nodes.
Delete(l) ==
  /\ Idle /\ Usable(l)
  /\ calls' = <<Clearing(Stale), Clearing(l)>>
  /\ UNCHANGED <<mem, length, guessed>>

ClearBegin ==
  /\ Calling("clear") /\ ~Top.begun
  /\ calls' = Replaced([Top EXCEPT !.begun = TRUE, !.idx.node = mem.next[Top.list]])
  /\ UNCHANGED <<mem, length, guessed>>

AtNode == Calling("clear") /\ Top.begun /\ Top.idx.node # Top.list

\* The deleteProc of a list: list_delete_c.
DeleteList ==
  /\ AtNode /\ ~Top.deleted
  /\ ~Plain(Top.idx.node) /\ Top.idx.node \notin MapNodes
  /\ Len(calls) + 2 <= MaxCalls
  /\ calls' = Replaced([Top EXCEPT !.deleted = TRUE])
              \o <<Clearing(Stale), Clearing(OwnedList[Top.idx.node])>>
  /\ UNCHANGED <<mem, length, guessed>>

\* The deleteProc of a hash map: its nodes go to the cache, which may be the
\* list that is being cleared.
DeleteMap ==
  /\ AtNode /\ ~Top.deleted
  /\ Top.idx.node \in MapNodes
  /\ Join(Cache, Cache, OwnedList[Top.idx.node])
  /\ calls' = Replaced([Top EXCEPT !.deleted = TRUE])

\* The pointer to the next node is read when the value has been deleted.
NextLeft(n) == mem.next[n]

FreeNode ==
  /\ AtNode
  /\ Plain(Top.idx.node) \/ Top.deleted
  /\ LET n == Top.idx.node
     IN  /\ mem' = [next |-> [mem.next EXCEPT ![n] = Nil], prev |-> [mem.prev EXCEPT ![n] = Nil]]
         /\ calls' = Replaced([Top EXCEPT !.deleted = FALSE, !.idx.node = NextLeft(n)])
  /\ UNCHANGED <<length, guessed>>

ClearDone ==
  /\ Calling("clear") /\ Top.begun /\ Top.idx.node = Top.list
  /\ mem' = Alone(mem, Top.list)
  /\ length' = [length EXCEPT ![Top.list] = 0]
  /\ guessed' = guessed \ {Top.list}
  /\ calls' = Returned

-----------------------------------------------------------------------------
(* Copying *)

\* There will be nodes for the copies.  Plain nodes are all that is copied or
\* has to make room.
Room(l, idx) ==
  /\ \A n \in ToSet(Elements(idx.host)) \cup ToSet(Elements(l)) : Plain(n)
  /\ Len(Selected(idx)) <=
       Cardinality({n \in Nodes : Plain(n) /\ (~Allocated(n) \/ n \in ToSet(Elements(l)))})

\* list_assign_idx_c of the nodes of another list, which does not end if the index
\* does not move; list_assign_list_c is the one with all of them.
Assign(l, idx) ==
  /\ Idle /\ Usable(l) /\ Usable(idx.host) /\ idx.host # l /\ idx.stride # 0
  /\ Room(l, idx)
  /\ calls' = <<NewCall("copy", l, IndexAt(mem, l, 0, 1), idx, Selected(idx)), Clearing(l)>>
  /\ UNCHANGED <<mem, length, guessed>>

CopyNode(n) ==
  /\ Calling("copy") /\ IsValid(Top.idx)
  /\ Plain(n) /\ Link(Top.list, n, Top.list)
  /\ calls' = Replaced([Top EXCEPT !.idx = Advanced(mem', Top.idx), !.taken = Append(@, Top.idx.node)])

CopyDone ==
  /\ Calling("copy") /\ ~IsValid(Top.idx)
  /\ calls' = Returned
  /\ UNCHANGED <<mem, length, guessed>>

Indices == {IndexAt(mem, l, pos, stride) : l \in Lists \cup {Stale}, pos \in Positions, stride \in Strides}

Next ==
  \/ \E l \in Lists, n \in Nodes : AppendNode(l, n)
  \/ \E l \in Lists, at \in Positions, n \in Nodes : InsertNode(l, at, n)
  \/ \E l, k \in Lists : AppendList(l, k)
  \/ \E l, k \in Lists, at \in Positions : InsertList(l, at, k)
  \/ \E l, k \in Lists, at, i, j \in Positions : InsertRange(l, at, k, i, j)
  \/ \E l \in Lists : LenOf(l)
  \/ \E self, idx \in Indices : self.host \in Lists /\ InsertIndex(self, idx)
  \/ \E idx \in Indices : RemoveIndex(idx)
  \/ \E idx \in Indices : PopIndex(idx)
  \/ \E l \in Lists, idx \in Indices : AssignOwn(l, idx)
  \/ MoveNode
  \/ MoveDone
  \/ AssignDone
  \/ \E l \in Lists : Clear(l)
  \/ \E l \in Lists : Delete(l)
  \/ ClearBegin
  \/ DeleteList
  \/ DeleteMap
  \/ FreeNode
  \/ ClearDone
  \/ \E l \in Lists, idx \in Indices : Assign(l, idx)
  \/ \E n \in Nodes : CopyNode(n)
  \/ CopyDone

Spec == Init /\ [][Next]_vars

-----------------------------------------------------------------------------
(* Properties *)

\* The two pointers of neighbours agree, in whatever order the links were made:
\* no ring is entered without a way back.  (A list that is being cleared is
\* open where its nodes have been freed.)
RingsConsistent ==
  /\ TypeOK
  /\ \A n \in Links : mem.next[n] \in Links =>
       (Allocated(mem.next[n]) => mem.prev[mem.next[n]] = n)

\* A length that was not computed from an unknown one is unknown or right.
LengthsRight ==
  \A l \in Heads \ guessed :
    length[l] >= 0 /\ (\A k \in 1..Len(calls) : calls[k].op = "clear" => calls[k].list # l) =>
      length[l] = Len(Elements(l))

\* What is moved or copied are the nodes the index stood for when it was passed,
\* in their order, although it goes on along pointers that change with each of
\* them; and those that are popped are found behind the index that is returned.
StridesMoved ==
  /\ Moves \/ Calling("copy") =>
       /\ IsPrefix(Top.taken, Top.plan)
       /\ Done => Top.taken = Top.plan
  /\ Calling("pop") /\ Done =>
       Top.taken = Walk(mem, Popped.node)

\* A call that clears a list is on a node that is still allocated, and that no
\* other call is about to free.
ClearsLiveNodes ==
  \A k \in 1..Len(calls) : calls[k].op = "clear" /\ calls[k].begun =>
    /\ Allocated(calls[k].idx.node)
    /\ \A j \in 1..(k - 1) : calls[j].op = "clear" /\ calls[j].begun => calls[j].idx.node # calls[k].idx.node

Seqs == INSTANCE ListSpec WITH seq <- [l \in Heads |-> Elements(l)]

\* Each list is a sequence of nodes that changes as ListSpec says, whatever is
\* done to the pointers.
ImplementsSequences == Seqs!Spec

=============================================================================
