------------------------------- MODULE HashMap -------------------------------
(***************************************************************************)
(* The hash maps of src/hashmap_impl.F90_tpp.  A map is an index vector of *)
(* buckets; a bucket is a linked list of hash nodes, a node is a key and   *)
(* an item.  All maps of the program share one list of nodes that are not  *)
(* in use, hashmap_nodeCache: a removed node goes to its end with its item *)
(* left as it is, a new key takes the node at its front.  Every insertion  *)
(* and removal may re-index the map to twice or half its buckets.          *)
(*                                                                         *)
(* A call is one step: the library is not meant to be used by two threads. *)
(* A bucket is the set of its nodes, since no lookup depends on the order  *)
(* of a chain (HashMapIndex.tla, where iteration does, keeps the order).   *)
(* The cache is a sequence: its order decides which item is lost next.     *)
(***************************************************************************)
EXTENDS Integers, Sequences, FiniteSets, Functions

CONSTANTS
  Maps,       \* the hash maps of the program
  Keys,       \* the keys the callers use
  Values,     \* the contents an item may be given
  Void,       \* the content of an item nobody has written to, an empty key
  Absent,     \* a null pointer: no such key
  Nodes,      \* the addresses of hash nodes; a bound on the memory in use
  Hash,       \* Hash[k]: crc32 of the key, a signed integer
  InitArgs    \* the pairs of index limits the callers initialize maps with

ASSUME HashAssumption == Hash \in [Keys -> Int]

ASSUME InitArgsAssumption == InitArgs \subseteq Int \X Int

ASSUME VoidAssumption == Void \notin Keys \cup Values

ASSUME AbsentAssumption == Absent \notin Values \cup {Void}

ASSUME FiniteAssumption == IsFiniteSet(Nodes)

\* A program has finitely many maps and keys at a time (for MemoryBounded only).
ASSUME BoundAssumption == IsFiniteSet(Maps) /\ IsFiniteSet(Keys)

VARIABLES
  size,       \* size[m]: length of the index vector, 0 when not associated
  bucket,     \* bucket[m][i]: the nodes in the i-th list of the index vector
  items,      \* items[m]: the registered number of items
  limits,     \* limits[m]: <<smallest, largest>> length of the index vector
  cache,      \* hashmap_nodeCache, the nodes in no map
  heap,       \* the nodes that are allocated
  key,        \* key[n]: the key of node n
  val,        \* val[n]: the content of the item of node n
  ret         \* the item behind the pointer the last call returned

index == <<size, bucket, items>>
memory == <<cache, heap>>
vars == <<size, bucket, items, limits, cache, heap, key, val, ret>>

Contents == Values \cup {Void}

Larger(a, b) == IF a > b THEN a ELSE b
Smaller(a, b) == IF a < b THEN a ELSE b
Abs(a) == IF a < 0 THEN -a ELSE a

-----------------------------------------------------------------------------
(* Buckets *)

\* Fortran's mod: the sign of the result is the sign of the dividend.
FortranMod(a, n) == IF a >= 0 THEN a % n ELSE -((-a) % n)

\* The bucket of a hash in an index of n buckets.
Slot(h, n) ==
  LET idx == FortranMod(h, n)
  IN  IF idx < 0 THEN idx + n ELSE idx

\* The nodes of an index b of n buckets.
NodesIn(b, n) == UNION {b[i] : i \in 0..(n - 1)}

Stored(m) == NodesIn(bucket[m], size[m])

\* Mutant: the index vector is allocated with one bucket too many.
EmptyIndexTooLong(n) == [i \in 0..n |-> {}]

\* An index of n empty buckets.
EmptyIndex(n) == [i \in 0..(n - 1) |-> {}]

\* Mutant: re-indexing forgets that the hash has a sign.
RehashedUnsigned(S, ky, n) == [i \in 0..(n - 1) |-> {x \in S : Abs(Hash[ky[x]]) % n = i}]

\* The nodes of S, whose keys are ky, distributed to an index of n buckets.
Rehashed(S, ky, n) == [i \in 0..(n - 1) |-> {x \in S : Slot(Hash[ky[x]], n) = i}]

\* The node the search along the bucket of k stops at, if any.
Located(m, k) == {n \in bucket[m][Slot(Hash[k], size[m])] : key[n] = k}

\* The member of a set of one node.
Only(S) == CHOOSE n \in S : TRUE

Node(m, k) == Only(Located(m, k))

\* Mutant: an index is never re-sized.
IndexSizeFixed(cur, cnt, lim) == cur

\* The length of an index of `cur` buckets once it holds cnt items: outside a
\* load of 0.2 .. 1.8 it is doubled or halved, within its limits.
IndexSize(cur, cnt, lim) ==
  LET wanted == IF cnt > cur THEN 2 * cur ELSE cur \div 2
  IN  IF lim[1] < lim[2] /\ 5 * Abs(cnt - cur) > 4 * cur
        THEN Smaller(Larger(wanted, lim[1]), lim[2])
        ELSE cur

\* hashmap_change_item_cnt_ of a map whose buckets are b by now: register cnt
\* items and re-index the map when its load asks for it.
ChangeItemCnt(m, b, ky, cnt) ==
  LET n == IndexSize(size[m], cnt, limits[m])
  IN  /\ items' = [items EXCEPT ![m] = cnt]
      /\ size' = [size EXCEPT ![m] = n]
      /\ bucket' = [bucket EXCEPT ![m] =
                      IF n = size[m] THEN b
                                     ELSE Rehashed(NodesIn(b, size[m]), ky, n)]

-----------------------------------------------------------------------------
(* The cache *)

\* The orders in which a flush may move the nodes of map m: bucket by bucket.
FlushOrders(m) ==
  {s \in Bijection(1..Cardinality(Stored(m)), Stored(m)) :
     \A a, b \in DOMAIN s : a < b =>
       \E i \in 0..(size[m] - 1) : \E j \in i..(size[m] - 1) :
         s[a] \in bucket[m][i] /\ s[b] \in bucket[m][j]}

\* Mutant: the first node of the cache is used but not popped.
TakeNodeShared(n) ==
  \/ cache # <<>> /\ n = Head(cache) /\ UNCHANGED <<cache, heap>>
  \/ cache = <<>> /\ n \notin heap /\ heap' = heap \cup {n} /\ UNCHANGED cache

\* Mutant: the node removed last is taken first.
TakeNodeNewest(n) ==
  \/ /\ cache # <<>>
     /\ n = cache[Len(cache)]
     /\ cache' = SubSeq(cache, 1, Len(cache) - 1)
     /\ UNCHANGED heap
  \/ cache = <<>> /\ n \notin heap /\ heap' = heap \cup {n} /\ UNCHANGED cache

\* Node n is taken for a new key: the oldest node of the cache, else a new one.
TakeNode(n) ==
  \/ /\ cache # <<>>
     /\ n = Head(cache)
     /\ cache' = Tail(cache)
     /\ UNCHANGED heap
  \/ /\ cache = <<>>
     /\ n \notin heap
     /\ heap' = heap \cup {n}
     /\ UNCHANGED cache

\* Mutant: an item left over in the cache is not cleared.
StaleItemKept(n, clearStale) == val[n]

\* What is left in the item of a node taken for a new key.
StaleItem(n, clearStale) == IF clearStale THEN Void ELSE val[n]

\* The creating half of hashmap_get_ref_: node n becomes the node of key k.
CreateNode(m, k, n) ==
  /\ TakeNode(n)
  /\ key' = [key EXCEPT ![n] = k]
  /\ ChangeItemCnt(m, [bucket[m] EXCEPT ![Slot(Hash[k], size[m])] = @ \cup {n}],
                   key', items[m] + 1)
  /\ UNCHANGED limits

-----------------------------------------------------------------------------
(* The calls *)

DefaultLimits == <<10, 100000>>

Init ==
  /\ size = [m \in Maps |-> 0]
  /\ bucket = [m \in Maps |-> EmptyIndex(0)]
  /\ items = [m \in Maps |-> 0]
  /\ limits = [m \in Maps |-> DefaultLimits]
  /\ cache = <<>>
  /\ heap = {}
  /\ key = [n \in Nodes |-> Void]
  /\ val = [n \in Nodes |-> Void]
  /\ ret = Absent

\* Mutant: the flush does not reset the number of items.
FlushUncounted(m, n) ==
  /\ \E s \in FlushOrders(m) : cache' = cache \o s
  /\ size' = [size EXCEPT ![m] = n]
  /\ bucket' = [bucket EXCEPT ![m] = EmptyIndex(n)]
  /\ UNCHANGED items

\* Mutant: the index vector is deallocated with the nodes in it.
FlushLeaking(m, n) ==
  /\ items' = [items EXCEPT ![m] = 0]
  /\ size' = [size EXCEPT ![m] = n]
  /\ bucket' = [bucket EXCEPT ![m] = EmptyIndex(n)]
  /\ UNCHANGED cache

\* Move every node of map m to the cache and give it an index of n buckets.
Flush(m, n) ==
  /\ items' = [items EXCEPT ![m] = 0]
  /\ size' = [size EXCEPT ![m] = n]
  /\ bucket' = [bucket EXCEPT ![m] = EmptyIndex(n)]
  /\ \E s \in FlushOrders(m) : cache' = cache \o s

\* Mutant: the limits are taken as they are given.
InitSizedUnchecked(m, lo, hi) ==
  /\ limits' = [limits EXCEPT ![m] = <<lo, hi>>]
  /\ \/ size[m] = lo /\ UNCHANGED <<index, cache>>
     \/ size[m] # lo /\ Flush(m, lo)
  /\ ret' = Absent
  /\ UNCHANGED <<heap, key, val>>

\* initialize: a map that has the wanted index already keeps its items.
InitSized(m, lo, hi) ==
  LET lim == <<Larger(1, lo), Larger(1, Larger(lo, hi))>>
  IN  /\ limits' = [limits EXCEPT ![m] = lim]
      /\ ret' = Absent
      /\ UNCHANGED <<heap, key, val>>
      /\ \/ size[m] = lim[1] /\ UNCHANGED <<index, cache>>
         \/ size[m] # lim[1] /\ Flush(m, lim[1])

\* Mutant: a node is created for a key whether it is there or not.
SetAnew(m, k, v) ==
  /\ size[m] > 0
  /\ \E n \in Nodes : CreateNode(m, k, n) /\ val' = [val EXCEPT ![n] = v]
  /\ ret' = v

\* set: the pointer of get_ref_ is assigned to, whatever it held before.
Set(m, k, v) ==
  /\ size[m] > 0
  /\ ret' = v
  /\ \/ /\ Located(m, k) = {}
        /\ \E n \in Nodes : CreateNode(m, k, n) /\ val' = [val EXCEPT ![n] = v]
     \/ /\ Located(m, k) # {}
        /\ val' = [val EXCEPT ![Node(m, k)] = v]
        /\ UNCHANGED <<index, memory, limits, key>>

\* get, get_c, getOrCreate, get_ptr_create: a missing key is created and its
\* item, which may be left over from another key, is cleared.
Get(m, k) ==
  /\ size[m] > 0
  /\ \/ /\ Located(m, k) = {}
        /\ \E n \in Nodes :
             /\ CreateNode(m, k, n)
             /\ val' = [val EXCEPT ![n] = StaleItem(n, TRUE)]
             /\ ret' = val'[n]
     \/ /\ Located(m, k) # {}
        /\ ret' = val[Node(m, k)]
        /\ UNCHANGED <<index, memory, limits, key, val>>

\* setDefault: the default is assigned to the item only when it was created.
SetDefault(m, k, v) ==
  /\ size[m] > 0
  /\ \/ /\ Located(m, k) = {}
        /\ \E n \in Nodes : CreateNode(m, k, n) /\ val' = [val EXCEPT ![n] = v]
        /\ ret' = v
     \/ /\ Located(m, k) # {}
        /\ ret' = val[Node(m, k)]
        /\ UNCHANGED <<index, memory, limits, key, val>>

\* getPtr, hasKey
Lookup(m, k) ==
  /\ size[m] > 0
  /\ ret' = IF Located(m, k) = {} THEN Absent ELSE val[Node(m, k)]
  /\ UNCHANGED <<index, memory, limits, key, val>>

\* remove, unset, pop: the node moves to the end of the cache; pop returns a
\* pointer to the item in there.
Unset(m, k) ==
  /\ size[m] > 0
  /\ \/ /\ Located(m, k) = {}
        /\ ret' = Absent
        /\ UNCHANGED <<index, cache>>
     \/ /\ Located(m, k) # {}
        /\ ret' = val[Node(m, k)]
        /\ cache' = Append(cache, Node(m, k))
        /\ ChangeItemCnt(m, [bucket[m] EXCEPT ![Slot(Hash[k], size[m])] = @ \ {Node(m, k)}],
                         key, items[m] - 1)
  /\ UNCHANGED <<heap, limits, key, val>>

\* Mutant: the items are deleted when their nodes go to the cache.
ClearDeleting(m) ==
  /\ Flush(m, size[m])
  /\ val' = [n \in Nodes |-> IF n \in Stored(m) THEN Void ELSE val[n]]
  /\ ret' = Absent
  /\ UNCHANGED <<heap, limits, key>>

\* clear: nothing happens to a map that was never initialized.
Clear(m) ==
  /\ ret' = Absent
  /\ UNCHANGED <<heap, limits, key, val>>
  /\ Flush(m, size[m])

Delete(m) ==
  /\ ret' = Absent
  /\ UNCHANGED <<heap, limits, key, val>>
  /\ Flush(m, 0)

\* The sequences of cnt new nodes hashmap_pre_cache appends to the cache.
NewNodes(cnt) == Injection(1..Larger(0, cnt), Nodes \ heap)

\* The nodes at the end of the sequence `full` of unused nodes become copies of
\* the nodes of map r, in as many buckets; the others are the cache.
CopyNodes(m, r, full) ==
  LET keep  == Len(full) - Cardinality(Stored(r))
      taken == {full[i] : i \in (keep + 1)..Len(full)}
  IN  /\ keep >= 0
      /\ cache' = SubSeq(full, 1, keep)
      /\ \E copy \in Bijection(Stored(r), taken) :
           LET isCopy(n) == \E x \in Stored(r) : copy[x] = n
               source(n) == CHOOSE x \in Stored(r) : copy[x] = n
           IN  /\ bucket' = [bucket EXCEPT ![m] =
                               [i \in 0..(size[r] - 1) |-> {copy[x] : x \in bucket[r][i]}]]
               /\ key' = [n \in Nodes |-> IF isCopy(n) THEN key[source(n)] ELSE key[n]]
               /\ val' = [n \in Nodes |-> IF isCopy(n) THEN val[source(n)] ELSE val[n]]

\* assign: map m gives its nodes to the cache, the cache is filled up to the
\* number of items of map r, and the copies are made of nodes from its end.
Assign(m, r) ==
  /\ m # r
  /\ size[r] > 0
  /\ ret' = Absent
  /\ size' = [size EXCEPT ![m] = size[r]]
  /\ items' = [items EXCEPT ![m] = items[r]]
  /\ limits' = [limits EXCEPT ![m] = limits[r]]
  /\ \E s \in FlushOrders(m) : \E f \in NewNodes(items[r] - Len(cache \o s)) :
       /\ CopyNodes(m, r, cache \o s \o f)
       /\ heap' = heap \cup Range(f)

\* hashmap_clear_cache: the nodes of the cache are deallocated.  Before any map
\* was initialized there is no cache yet, and callers must not clear it.
ClearCache ==
  /\ heap' = heap \ Range(cache)
  /\ cache' = <<>>
  /\ key' = [n \in Nodes |-> IF n \in Range(cache) THEN Void ELSE key[n]]
  /\ val' = [n \in Nodes |-> IF n \in Range(cache) THEN Void ELSE val[n]]
  /\ ret' = Absent
  /\ UNCHANGED <<index, limits>>

Next ==
  \/ \E m \in Maps, a \in InitArgs : InitSized(m, a[1], a[2])
  \/ \E m \in Maps, k \in Keys, v \in Values : Set(m, k, v)
  \/ \E m \in Maps, k \in Keys, v \in Values : SetDefault(m, k, v)
  \/ \E m \in Maps, k \in Keys : Get(m, k)
  \/ \E m \in Maps, k \in Keys : Lookup(m, k)
  \/ \E m \in Maps, k \in Keys : Unset(m, k)
  \/ \E m \in Maps : Clear(m)
  \/ \E m \in Maps : Delete(m)
  \/ \E m, r \in Maps : Assign(m, r)
  \/ ClearCache

Spec == Init /\ [][Next]_vars

-----------------------------------------------------------------------------
(* Properties *)

\* The type of every variable.
TypeOK ==
  /\ size \in [Maps -> Nat]
  /\ bucket = [m \in Maps |-> bucket[m]]
  /\ \A m \in Maps : bucket[m] \in [0..(size[m] - 1) -> SUBSET Nodes]
  /\ items \in [Maps -> Int]
  /\ limits \in [Maps -> Int \X Int]
  /\ cache \in Seq(Nodes)
  /\ heap \subseteq Nodes
  /\ key \in [Nodes -> Keys \cup {Void}]
  /\ val \in [Nodes -> Contents]
  /\ ret \in Contents \cup {Absent}

\* Every node that is allocated is in the cache or in one bucket of one map, in
\* one place only: no call loses a node, links it twice, shares it between maps
\* or keeps one that clear_cache has deallocated.
NodesPartitioned ==
  /\ IsInjective(cache)
  /\ \A m \in Maps : Stored(m) \cap Range(cache) = {}
  /\ \A m, r \in Maps : m # r => Stored(m) \cap Stored(r) = {}
  /\ heap = Range(cache) \cup UNION {Stored(m) : m \in Maps}

\* A lookup, which searches one bucket only, finds every node of the map: each
\* node is in the bucket its key hashes to in an index of the present size
\* (re-indexing happens after the key of a new node is known and forgets no
\* node), and no key is there twice.
KeysFindable ==
  \A m \in Maps :
    /\ \A i \in 0..(size[m] - 1) : \A n \in bucket[m][i] :
         key[n] \in Keys /\ Slot(Hash[key[n]], size[m]) = i
    /\ \A n, o \in Stored(m) : key[n] = key[o] => n = o

\* The registered number of items is the number of nodes in the buckets, the
\* comparison test_HashMap makes with the counts of hashmap_get_stats.
ItemsCounted == \A m \in Maps : items[m] = Cardinality(Stored(m))

\* The cache bounds the memory: no history of calls makes the maps allocate more
\* nodes than they could hold at one time.
MemoryBounded == Cardinality(heap) <= Cardinality(Maps) * Cardinality(Keys)

\* The load of a map is at most 1.8 items per bucket unless its index cannot
\* grow, ...
LoadBounded(m) ==
  size[m] > 0 /\ limits[m][1] < limits[m][2] =>
    5 * items[m] <= 9 * size[m] \/ size[m] >= limits[m][2]

\* ... and stays so in whatever order the calls come: one doubling after each
\* insertion is enough.  Only an initialize with other limits, which may keep
\* an index that was full under the old ones, is excepted.
LoadStaysBounded ==
  [][(\A m \in Maps : LoadBounded(m)) /\ limits' = limits
       => (\A m \in Maps : LoadBounded(m))']_vars

\* The bounds initialize put on the index hold after every re-indexing, and no
\* index is ever left without a bucket.
IndexWithinLimits ==
  \A m \in Maps :
    /\ 1 <= limits[m][1]
    /\ size[m] > 0 => limits[m][1] <= size[m] /\ size[m] <= limits[m][2]

Holds(m, k) == size[m] > 0 /\ Located(m, k) # {}

\* A pointer to the item of a key stays good while the key is in the map:
\* whatever is called for other keys or maps, and however often the map is
\* re-indexed, the key keeps its node.  Assigning to the map is excepted.
PointersStable ==
  [][(\E m, r \in Maps : Assign(m, r)) \/
     \A m \in Maps, k \in Keys : Holds(m, k) /\ Holds(m, k)' => Node(m, k)' = Node(m, k)]_vars

\* The item behind the pointer pop returned stays as it was until its node is
\* reused: no call changes the item of a node that it puts or leaves in the cache.
CachedItemsKept ==
  [][\A n \in heap \cap Range(cache') : val'[n] = val[n]]_vars

\* Node o comes before node n in the sequence c, the cache or a chain.
Before(c, o, n) == \E i, j \in DOMAIN c : i < j /\ c[i] = o /\ c[j] = n

\* How long the item pop returned can be read: the nodes in the cache keep their
\* order, and none is taken before one that has been there for longer.  Only
\* assign, which takes from the end of the cache, takes the later node first.
CacheOrderKept ==
  [][\A i, j \in DOMAIN cache : i < j =>
       LET o == cache[i]
           n == cache[j]
       IN  /\ {o, n} \subseteq Range(cache') => Before(cache', o, n)
           /\ o \in Range(cache') /\ n \notin Range(cache') =>
                \E m, r \in Maps : Assign(m, r)
           /\ n \in Range(cache') /\ o \notin Range(cache') =>
                ~ \E m, r \in Maps : Assign(m, r)]_vars

\* What map m holds for key k, in the terms of MapSpec: the item of the node
\* that is located, if any (Holds and Node in one search).
Content == [m \in Maps |-> [k \in Keys |->
              LET found == IF size[m] > 0 THEN Located(m, k) ELSE {}
              IN  IF found = {} THEN Absent ELSE val[Only(found)]]]

\* The maps behave as partial functions that do not know of each other.
Map == INSTANCE MapSpec WITH content <- Content
ImplementsMap == Map!Spec

\* And each call does to these functions what the call of MapSpec with its name
\* does: a key created by get has no item, whatever its node held before, the
\* default is not set over an item, pop returns the item it removes, and
\* initialize keeps the items only if the index has the wanted size already.
CallsAgree ==
  [][/\ \A m \in Maps, k \in Keys :
          /\ \A v \in Values : Set(m, k, v) => Map!Set(m, k, v)
          /\ \A v \in Values : SetDefault(m, k, v) => Map!SetDefault(m, k, v)
          /\ Get(m, k) => Map!Get(m, k)
          /\ Lookup(m, k) => Map!Lookup(m, k)
          /\ Unset(m, k) => Map!Unset(m, k)
     /\ \A m \in Maps : Clear(m) \/ Delete(m) => Map!Drop(m)
     /\ \A m, r \in Maps : Assign(m, r) => Map!Assign(m, r)
     /\ \A m \in Maps, a \in InitArgs : InitSized(m, a[1], a[2]) =>
          IF size[m] = Larger(1, a[1]) THEN Map!Housekeeping ELSE Map!Drop(m)
     /\ ClearCache => Map!Housekeeping]_vars

=============================================================================
