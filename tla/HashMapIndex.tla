----------------------------- MODULE HashMapIndex -----------------------------
(***************************************************************************)
(* Iteration over the hash maps of HashMap.tla: HashMapIndex_t of          *)
(* src/hashmap_impl.F90_tpp, while the map is also written to.             *)
(*                                                                         *)
(* The order of the nodes along the buckets, which HashMap.tla leaves open,*)
(* is added to its state, and every action of HashMap.tla is given the     *)
(* effect the list calls of the code have on that order.                   *)
(*                                                                         *)
(* An index is a pointer to a node and one to the list it was taken from.  *)
(* Lists are rings closed by a root.  A node that was removed is in the    *)
(* ring of the cache, and an index that is still on it walks along there.  *)
(*                                                                         *)
(* The caller here has one index, and does not call delete, assign or      *)
(* clearCache while it has it.                                             *)
(***************************************************************************)
EXTENDS HashMap, SequencesExt

CONSTANT NoMap       \* the host of an index that was never set

ASSUME NoMapAssumption == NoMap \notin Maps

VARIABLES
  chain,        \* chain[m][i]: the nodes of bucket i in the order of the list
  host, idx,    \* the map iterated over and the number of the current bucket
  root, pos,    \* the list and the node of the index into that bucket
  pending,      \* the keys that were there at its start, still to be visited
  visited,      \* the keys that have been visited
  undisturbed   \* no call took the node of the index out of its list

progress == <<pending, visited>>
iterator == <<host, idx, root, pos>>
indexVars == <<vars, chain, iterator, progress, undisturbed>>

\* What an index may point to that is not a node.
Root(m, i) == <<m, i>>
CacheRoot == <<"cache">>
Freed == <<"freed">>
Null == <<"null">>

\* The root of a list is part of the index vector, no node of any list.
ASSUME RootsAssumption ==
  Nodes \cap (Maps \X Nat) = {} /\ {CacheRoot, Freed, Null} \cap Nodes = {}

-----------------------------------------------------------------------------
(* Chains *)

\* The nodes of the chains c of n buckets, bucket after bucket.
InOrder(c, n) ==
  LET upto[i \in 0..n] == IF i = 0 THEN <<>> ELSE upto[i - 1] \o c[i - 1]
  IN  upto[n]

EmptyChains(n) == [i \in 0..(n - 1) |-> <<>>]

\* The list s without its node n.
TakenOut(s, n) == RemoveAt(s, CHOOSE p \in DOMAIN s : s[p] = n)

\* Mutant: the first node of the buffer list is forgotten.
RedistributedRest(nodes, ky, n) ==
  [i \in 0..(n - 1) |->
     Reverse(SelectSeq(Tail(nodes), LAMBDA x : Slot(Hash[ky[x]], n) = i))]

\* hashmap_reindex_: the nodes leave the buffer list from its front and enter
\* their bucket before its first node.
Redistributed(nodes, ky, n) ==
  LET after[i \in 0..Len(nodes)] ==
        IF i = 0 THEN EmptyChains(n)
        ELSE [after[i - 1] EXCEPT ![Slot(Hash[ky[nodes[i]]], n)] = <<nodes[i]>> \o @]
  IN  after[Len(nodes)]

\* The chains of map m, which are c by now, after the re-indexing of this step.
Rechain(m, c) ==
  chain' = [chain EXCEPT ![m] = IF size'[m] = size[m] THEN c
                                ELSE Redistributed(InOrder(c, size[m]), key', size'[m])]

\* The node a step that creates a key takes.
NewNode == IF cache # <<>> THEN Head(cache) ELSE CHOOSE n \in heap' : n \notin heap

\* The index when the index vector of map m has been replaced: it is left with
\* the address of a list that is no more, or that of a list put in its place.
Reallocated(m) ==
  \/ host # m /\ UNCHANGED <<root, pos>>
  \/ /\ host = m
     /\ root' \in IF root = Null THEN {Null} ELSE {Freed} \cup {Root(m, i) : i \in 0..(size'[m] - 1)}
     /\ pos' = CASE pos = root -> root' [] pos # root /\ pos \in Nodes -> pos [] OTHER -> Freed

-----------------------------------------------------------------------------
(* Steps of the index *)

\* Mutant: the search stops at a bucket without asking whether it is empty.
BucketFromBlind(m, j) ==
  \/ /\ j < size[m]
     /\ idx' = j
     /\ root' = Root(m, j)
     /\ pos' = IF chain[m][j] = <<>> THEN root' ELSE Head(chain[m][j])
  \/ /\ j >= size[m]
     /\ idx' = j
     /\ pos' = root
     /\ UNCHANGED root

\* The first bucket from j on that has a node.  Where there is none the index
\* stays on the root it came to, of a bucket without a node.
BucketFrom(m, j) ==
  LET filled == {i \in j..(size[m] - 1) : chain[m][i] # <<>>}
      i      == CHOOSE i \in filled : \A o \in filled : i <= o
  IN  \/ /\ filled # {}
         /\ idx' = i
         /\ root' = Root(m, i)
         /\ pos' = Head(chain[m][i])
      \/ /\ filled = {} /\ j < size[m]
         /\ idx' = size[m]
         /\ root' = Root(m, size[m] - 1)
         /\ pos' = root'
      \/ /\ filled = {} /\ j >= size[m]
         /\ idx' = j
         /\ pos' = root
         /\ UNCHANGED root

\* Mutant: one bucket is left out.
NextBucketSkipping(m, i) == BucketFrom(m, i + 2)

\* Mutant: the number of the bucket is not incremented.
NextBucketSame(m, i) == BucketFrom(m, Larger(0, i))

\* hashmapindex_next_bucket: on from bucket i.
NextBucket(m, i) == BucketFrom(m, i + 1)

\* What follows a node or a root in its ring.
Rings == {<<CacheRoot>> \o cache} \cup
         UNION {{<<Root(m, i)>> \o chain[m][i] : i \in 0..(size[m] - 1)} : m \in Maps}

Following(x) ==
  LET ring == CHOOSE r \in Rings : x \in Range(r)
      p    == CHOOSE p \in DOMAIN ring : ring[p] = x
  IN  ring[(p % Len(ring)) + 1]

\* hashmapindex_is_valid_c
IndexValid == host # NoMap /\ idx < size[host]

\* is_valid of the index into the bucket.
BucketValid == pos # Null /\ pos # root

\* Keys are counted as visited when the index comes to their node.
Seen(x) == IF x \in Nodes THEN {key[x]} ELSE {}

\* index(map)
Begin(m) ==
  /\ size[m] > 0
  /\ host' = m
  /\ NextBucket(m, -1)
  /\ pending' = {key[n] : n \in Stored(m)} \ Seen(pos')
  /\ visited' = Seen(pos')
  /\ undisturbed' = TRUE
  /\ UNCHANGED <<vars, chain>>

\* next(index): the next node of the list, then the next bucket.  An index that
\* points nowhere cannot be moved.
Advance ==
  /\ IndexValid
  /\ \/ BucketValid /\ pos # Freed /\ Following(pos) # root
        /\ pos' = Following(pos)
        /\ UNCHANGED <<idx, root>>
     \/ BucketValid /\ pos # Freed /\ Following(pos) = root
        /\ NextBucket(host, idx)
     \/ pos = root
        /\ NextBucket(host, idx)
  /\ pending' = pending \ Seen(pos')
  /\ visited' = IF undisturbed THEN visited \cup Seen(pos') ELSE {}
  /\ UNCHANGED <<vars, chain, host, undisturbed>>

-----------------------------------------------------------------------------
(* Calls of the map, as in HashMap.tla, and what they do to the index *)

\* The index after a call of map m that took the nodes `lost` out of its lists
\* and removed the keys ks, which need not be visited any more.
Affected(m, lost, ks) ==
  /\ \/ size'[m] = size[m] /\ UNCHANGED <<root, pos>>
     \/ size'[m] # size[m] /\ Reallocated(m)
  /\ undisturbed' = (undisturbed /\ (host # m \/ (size'[m] = size[m] /\ pos \notin lost)))
  /\ LET gone == IF ~undisturbed' THEN Keys ELSE IF host = m THEN ks ELSE {}
     IN  pending' = pending \ gone /\ visited' = visited \ gone
  /\ UNCHANGED <<host, idx>>

Initialize(m, lo, hi) ==
  /\ InitSized(m, lo, hi)
  /\ \/ /\ size'[m] = size[m]
        /\ Affected(m, {}, {})
        /\ UNCHANGED chain
     \/ /\ size'[m] # size[m]
        /\ cache' = cache \o InOrder(chain[m], size[m])
        /\ chain' = [chain EXCEPT ![m] = EmptyChains(size'[m])]
        /\ Affected(m, Stored(m), Keys)

\* set, setDefault, get and getOrCreate of a new key: its node enters the list
\* where the search for it ended.
Create(m, k) ==
  /\ size[m] > 0 /\ Located(m, k) = {}
  /\ Get(m, k) \/ \E v \in Values : Set(m, k, v) \/ SetDefault(m, k, v)
  /\ Rechain(m, [chain[m] EXCEPT ![Slot(Hash[k], size[m])] = Append(@, NewNode)])
  /\ Affected(m, {}, {})

\* The same calls, and get_ptr, for a key that is there.
Access(m, k) ==
  /\ size[m] > 0 /\ Located(m, k) # {}
  /\ Lookup(m, k) \/ Get(m, k) \/ \E v \in Values : Set(m, k, v) \/ SetDefault(m, k, v)
  /\ UNCHANGED <<chain, iterator, progress, undisturbed>>

Take(m, k) ==
  /\ size[m] > 0 /\ Located(m, k) # {}
  /\ Unset(m, k)
  /\ Rechain(m, [chain[m] EXCEPT ![Slot(Hash[k], size[m])] = TakenOut(@, Node(m, k))])
  /\ Affected(m, {Node(m, k)}, {k})

TakeAll(m) ==
  /\ Clear(m)
  /\ cache' = cache \o InOrder(chain[m], size[m])
  /\ chain' = [chain EXCEPT ![m] = EmptyChains(size[m])]
  /\ Affected(m, Stored(m), Keys)

IndexInit ==
  /\ Init
  /\ chain = [m \in Maps |-> EmptyChains(0)]
  /\ host = NoMap /\ idx = -1
  /\ root = Null /\ pos = Null
  /\ pending = {} /\ visited = {}
  /\ undisturbed = TRUE

IndexNext ==
  \/ \E m \in Maps, a \in InitArgs : Initialize(m, a[1], a[2])
  \/ \E m \in Maps, k \in Keys : Create(m, k)
  \/ \E m \in Maps, k \in Keys : Access(m, k)
  \/ \E m \in Maps, k \in Keys : Take(m, k)
  \/ \E m \in Maps : TakeAll(m)
  \/ \E m \in Maps : Begin(m)
  \/ Advance

IndexSpec == IndexInit /\ [][IndexNext]_indexVars

-----------------------------------------------------------------------------
(* Properties *)

\* The lists hold the nodes HashMap.tla has in the buckets, each of them once:
\* what the list calls do to the order of the nodes and what they do to the
\* buckets are two views of the same calls.
ChainsMatchBuckets ==
  \A m \in Maps : \A i \in 0..(size[m] - 1) :
    Range(chain[m][i]) = bucket[m][i] /\ IsInjective(chain[m][i])

\* As long as no call re-indexes the map or takes away the node the index is on,
\* and whatever else is called, a valid index is on a node of its bucket.
ValidIndexOnNode ==
  undisturbed /\ IndexValid =>
    BucketValid /\ root = Root(host, idx) /\ pos \in bucket[host][idx]

\* An iteration that ends undisturbed has visited every key that was there when
\* it began, but for those removed meanwhile.
NothingMissed == undisturbed /\ host # NoMap /\ ~IndexValid => pending = {}

\* And it visits no key twice, even if others are removed and created meanwhile.
NothingTwice ==
  [][Advance /\ undisturbed /\ pos' \in Nodes => key[pos'] \notin visited]_indexVars

\* The comment in hashmapindex_is_valid: the index into the bucket is not worth
\* a check, since it becomes invalid only when the last bucket is exhausted, and
\* then the number of the bucket is the number of buckets.
BucketNeedsNoCheck == IndexValid => BucketValid

=============================================================================
