# A verification development for libfde

libfde (this repository) is a run-time library of containers and services for
Fortran programs: strings, references, variants ("items"), lists and hash maps,
scopes with callback hooks, a try/catch mechanism and plugins in the C++ core
libfortres, and a Python package that views and controls all of it by ctypes.
The TLA+ modules here model its logic, TLC checks them on small instances, and
TLAPS proves the main invariants for instances of any size.

## 1. The system

| Component | Source | State it keeps | Operations | Uses |
|---|---|---|---|---|
| Linked lists | `src/src/list_impl.F90` | rings of nodes closed by a root, a length that may be unknown (-1), one process-wide list of removed ("stale") nodes | append, insert, pop, remove, index and its moves, sort, assign, delete | - |
| Hash maps | `src/src/hashmap_impl.F90_tpp` | index vector of lists, item count, limits; one process-wide cache of unused nodes | set, get, setDefault, unset/pop, clear, delete, assign, iterate | lists, items, strings, crc32 |
| Strings | `src/src/basestring_impl.F90`, `string_impl.F90` | buffer pointer, length, two status bytes (hard/volatile, mine/lent) | init, assign, reserve, release of temporaries, delete | - |
| References | `src/src/ref_impl.F90` | encoded pointer in a string, type, status bytes | assign, clone, bind, free, resolve | strings |
| Items | `src/src/item_impl.F90` | a value with its type | assign (with conversion), resolve, delete | references, strings |
| Scopes | `src/src/scope_impl.F90` | nothing of their own: hash maps of items that refer to maps and callback lists | sub scopes, declare, connect, disconnect, invoke callbacks | hash maps, lists, references |
| Exceptions | `src/libfortres/fort_exception.cpp` | per context, a stack of catch points with catch codes and cleanup procedures | try, throw, push/pop cleanup | setjmp/longjmp |
| Plugins | `src/libfortres/fort_plugin.cpp` | map of plugin ids to shared libraries that are loaded on demand; search path of the process | register, scan, enable, get symbol, unload | the system's loader |
| Python core | `src/fde/core/` | ctypes views of Fortran objects, and a dictionary of Python data under the address of each | proxies of the above | everything above |
| Python control | `src/fde/control/` | working directory of the process, exception hooks per thread, cached properties and clone counters of controllers, whether commands are processed | create, copy, start, fork, command loop, hooks, routed exceptions | scopes, exceptions, tools |
| Python tools | `src/fde/tools/` | handles and paths of libraries that are loaded once, options cached in classes | find and load libraries, make objects, options | the system's loader |
| Code generator | `src/typegen.py` | declarations of a template file, how many there are of each type, identifiers with an access statement | declare a reference type, a list node or an alias, implement | - |
| Algorithms | `src/src/sort.F90`, `bisect.F90`, `charstacker_impl.F90` | - | heap sort, quick sort, bisection, stack of strings | - |
| The rest | streams, files, conversion, visitors, directory and trace wrappers, build files | - | formatting, I/O | - |

How they interact: a scope is a hash map; its items hold references to nested
scopes, to variables of the host program and to lists of callbacks.  Every map
takes its nodes from one shared cache, every list puts removed nodes on one
shared stale list, and the Python side keeps pointers into both and remembers
things about objects under their addresses.  Controllers bring native code and
Python together: both have to use one libfde, native code calls back into Python
on any thread, and what Python raises there goes back into native code.  The
procedures by which Fortran types get into items, lists and maps are written by
the code generator.  Nothing in the library starts a thread, but programs may
start simulators on several; what makes it hard is that calls of different
owners meet in shared node lists, that callbacks call back, that iterations go on while containers
change, that an exception leaves any number of frames by longjmp, and that the
ownership of memory is a pair of flags.

What makes each component correct:

- lists: rings stay rings, lengths are right, sort is a stable permutation, an
  index that survives a removal does no harm;
- hash maps: lookups find every key and no other, nodes are in one place, maps
  do not see each other's items, pointers to items stay good, an iteration
  visits everything once;
- strings, references, items: each buffer and each target has one owner, is
  freed once, and never used afterwards;
- scopes and callbacks: each connected callback is called once, also when
  callbacks change the hook;
- exceptions: the innermost matching catch point gets the exception, after every
  cleanup registered above it has run to its end, in reverse order; each longjmp
  goes to a call that still exists; a throw never returns;
- plugins: symbols come from enabled, loaded libraries only; the search path is
  restored;
- Python control: each request gets one reply, the directory and the hooks are
  restored, exceptions go to the simulator they belong to;
- Python tools: the binding ends up with the libfde that the native code uses;
- code generator: no declaration is lost, none is written twice, and whatever
  an interface promises or generated code calls is written.

## 2. Modules

| Module | What it is |
|---|---|
| `MapSpec` | What callers of the maps are promised: independent partial functions from keys to items. |
| `HashMap` | The maps: index vectors, buckets, limits, the shared cache, node addresses, keys and items. Buckets are sets of nodes. Implements `MapSpec`. |
| `HashMapProofs` | TLAPS proofs about `HashMap`: its inductive invariant, that it implements `MapSpec`, and what holds of pointers, the cache, the load and the memory. |
| `HashMapIndex` | `HashMap` with the order of the chains, and an iteration that is interleaved with writes. |
| `HashMapIndexProofs` | TLAPS proofs about `HashMapIndex`. |
| `Exceptions` | The catch points of one context, and the calls on the stack they belong to. |
| `ExceptionsProofs` | TLAPS proofs about `Exceptions`. |
| `ListSpec` | What callers of the lists are promised: sequences of nodes that share none. |
| `List` | The lists at the level of their pointers, node by node. Implements `ListSpec`. |
| `ListRingProofs` | Lemmas, proved by TLAPS, on what the helpers of `List` do to the pointers and to the sequences these stand for. |
| `ListProofs` | TLAPS proofs about `List`: its inductive invariant, all that its runs check, and that it implements `ListSpec`. |
| `Callbacks` | Hooks that are called and changed at the same time, and the thunks of Python functions. |
| `CallbacksProofs` | TLAPS proofs about `Callbacks`. |
| `TypeGen` | The code generator: declarations, their keys, and which procedures are promised, referred to and written. |
| `TypeGenProofs` | TLAPS proofs about `TypeGen`. |
| `Controller` | Python controllers: how they are made and copied, and which libfde Python's own binding loads. |
| `Simulator` | `Controller` with starts on several threads, nested by callbacks, routed exceptions and the command loop. |
| `SimulatorProofs` | TLAPS proofs about `Controller` and `Simulator`. |
| `MCHashMap`, `MCHashMapIndex`, `MCExceptions`, `MCList`, `MCCallbacks`, `MCTypeGen`, `MCSimulator` | Instances for TLC. |

### HashMap

`size`, `bucket`, `items` and `limits` are the components `size(indexVector)`,
`indexVector`, `items` and `indexLimits` of `HashMap_t`; `cache` is
`hashmap_nodeCache`; `key` and `val` are the two parts of `HashNode_t`; `heap` is
the set of nodes that are allocated; `ret` is the item a returned pointer points
to.  An action is a whole call, with the re-indexing it ends in:

| Action | Code |
|---|---|
| `InitSized` | `hashmap_init_sized_c` and `hashmap_setup_index_`; `hashmap_init_c` and the constructor `hashmap_init_by_hashmap_c` on a map without an index are instances of it and of `Assign` |
| `Set`, `Get`, `SetDefault` | `hashmap_set_c`; `hashmap_get`, `_get_c`, `_get_or_create`, `_get_ptr_create`; `hashmap_set_default` - all by `hashmap_get_ref_` (`CreateNode`) |
| `Lookup` | `hashmap_get_ptr`, `hashmap_has_key_c` |
| `Unset` | `hashmap_remove_key_c`, `_unset_key_c`, `_pop_key` by `hashmap_unset_` |
| `Clear`, `Delete` | `hashmap_clear_c`, `hashmap_delete_c` by `hashmap_flush_` |
| `Assign` | `hashmap_assign_hashmap_c`, with `hashmap_pre_cache` |
| `ClearCache` | `hashmap_clear_cache_c` |

Abstractions.  The hash is a constant function into the integers, negative ones
included, since the code corrects the sign of Fortran's `mod`.  The load test is
in whole numbers; the code divides single precision reals, which is the same
comparison below 2^24 items.  A flush may move the nodes of one bucket in any
order (`FlushOrders`), and an assignment may copy to the taken nodes in any
order: the code has one order, which depends on the chains.  Items are values
(ownership inside items belongs to another module of the plan).  Calls that need
an index have `size[m] > 0` as a guard: the code does not check it, and divides
by zero otherwise.  Likewise `clear_cache` must not come before the first
initialization.  `resize_cnt` and `parent` influence nothing and are left out.

### HashMapIndex

It adds `chain`, the order of the nodes along each list, and the fields of
`HashMapIndex_t`: `host`, `idx` and the list index `bucket`, that is its host
list (`root`) and its node (`pos`).  The ghost variables `pending` and `visited`
say which keys the iteration owes and which it has shown; `undisturbed` turns
false when a call takes the current node out of its list or re-indexes the map.
Each action is a call of `HashMap` with its effect on the order: a new node
enters the list where the search ended, which is its end; re-indexing takes the nodes
from the old lists one by one (`Redistributed` is that loop), and pushes each to the
front of its new bucket; a removed node goes on in the ring of the cache.  After the index vector was replaced the list index points to freed
memory, or to whatever list now has that address; the model lets it be any.

### Exceptions

`frames` is the vector `_checkPoints` of a `Context`, with the catch list, the
tracer and the cleanup procedures of each `CheckPoint`; `capacity` is the capacity
of that vector.  What setjmp and longjmp are about is the C stack: `calls` has the
calls on it that matter, and a catch point knows the `height` of the stack at its
setjmp.  A call is a procedure that f_try called (`"body"`), `pop` while it runs a
cleanup procedure (`"pop"`), or `prepare_exception` on one catch point with the
number of cleanup procedures `check` has yet to call (`"search"`).  A search that
has `left > 0` is in a cleanup procedure, and that is code like any other: it may
throw, which starts a search on top of the first one, at the same catch point.
The field `frame` of a call is a ghost: the number of the catch point the code was
started for.  The code has no such number and always takes the back of the
vector; `OwnFrameOnTop` says that the two agree.  Likewise `cleaners[i]` says
whether a search has run that procedure.

| Action | Code |
|---|---|
| `Try` | `f_try`, `f_try_v` and `openFrame`, up to the call of the procedure |
| `Return` | the end of `f_try_v` when the procedure returns, with `closeFrame` |
| `PushCleanup`, `PopCleanup`, `PoppedReturns` | `f_push_cleanup`, `f_pop_cleanup` and the return of the procedure it may call |
| `Throw` | `f_throw`, `f_throw_str` up to the first cleanup procedure, or to the end of the program when there is no catch point |
| `CleanerReturns` | the loop of `CheckPoint::check` over the cleanup procedures |
| `Skip`, `Catch` | the test of the code in `check`; then `pop_back` and the next catch point or `throw;` (that is, `std::terminate`), or `fire_exception` with the `closeFrame` and return of `f_try_v` it jumps to |

An exception code is the set of its bits, so the mask test `(*itr & code) == *itr`
is inclusion.  The order in which `std::sort` puts the catch list is left out: the
result of `check` is used as a truth value only, so that order has no effect,
unlike its comment suggests.  Messages are left out, and so are arguments.

Preconditions, which the code does not check: catch lists have no code 0 (it ends
them); cleanup procedures are pushed and popped by the procedure of a try (outside
of any, the vector is empty), and popped only when there is one; a cleanup
procedure opens a try only when the vector has room, since `check` holds a
reference into it.  Not modelled: the synchronizer and the contexts of several
threads, which share nothing.

### List

`mem` has the pointers `next` and `prev` of every node, the one that is part of a
`List_t` included; a pointer `Nil` stands for a node that is not allocated.
`length` is the component of that name, with -1 for an unknown length, and
`guessed` is a ghost: the lists whose length was computed from an unknown one.
What has no loop is one action; what has one goes a node at a time, and `calls` is
the stack of the calls that are on their way.  A frame has the list it works on,
the two indices of the code (`self`, where nodes go to, and `idx`, where they come
from) and, while a list is cleared, whether the first node has been looked up
(`begun`) and whether the value of the current one has been deleted (`deleted`).
`taken` and `plan` are ghosts: the nodes it has moved, and the nodes its index
stood for when it was passed.  Frames nest where the code does: the value of a
node may be a list, whose deletion clears that list and the stale list, or a map,
whose deletion appends its nodes to the node cache.  In libfde that cache is the
one list whose nodes have maps in them (scopes in scopes).

| Action | Code |
|---|---|
| `AppendNode`, `InsertNode` | `list_append_node_c`, `listindex_insert_node_c` by `list_link_node_` |
| `AppendList`, `InsertList`, `InsertRange` | `list_append_list_c`, `listindex_insert_list_c`, `listindex_insert_range_c` by `list_insert_nodes_` |
| `LenOf` | `list_len_c` on a list of unknown length |
| `InsertIndex`, `RemoveIndex`, `PopIndex`, `AssignOwn` with `MoveNode`, `MoveDone`, `AssignDone` | `listindex_insert_idx_c`, `listindex_remove_idx_c`, `listindex_pop_idx` and `list_assign_idx_c` of nodes of the same list, by `listindex_insert_idx_cnt_` |
| `Clear`, `Delete` with `ClearBegin`, `DeleteList`, `DeleteMap`, `FreeNode`, `ClearDone` | `list_clear_c`, `list_delete_c` |
| `Assign` with `CopyNode`, `CopyDone` | `list_assign_idx_c` of nodes of another list, `list_assign_list_c` |

`Inserted` is `list_insert_nodes_` statement by statement, because its arguments
may be the same node.  `Source` and `NextLeft` name the order in which a pointer is
read and the node it is in goes away.

Abstractions.  Callers make an index at a position, with a stride, for each call
(`Indices`); what an index sees that a caller keeps over calls of others is the
subject of `HashMapIndex` and `Callbacks`.  Nodes have no
other value than the list or map that belongs to them; lists in nodes hold plain
nodes, a map has one bucket, and only plain nodes are copied (`Room` sees to it
that there are enough of them).

Preconditions, which the code does not check.  A list is not appended to itself,
which would leave both ends pointing to nothing.  A node is not moved to where it
is, which takes it out of its ring, and no more than one node of a list is moved
within it, since the index would meet again what was moved to the end.  Nodes of
an index that does not move (stride 0) are not assigned to another list, which
would never end.  A range goes into another list, and its end does not come
before its beginning.  A caller does not use the list of a value after it was
freed (`Usable`).

### Callbacks

`list[h]` has the nodes of the callback list of hook `h` in their order, `proc` the
procedure in each node, and `stale` the list of removed nodes.  The lists are
sequences here, as `ListSpec` promises; `List` shows that the pointers keep that
promise.  `calls` is the stack of the calls of hooks that are on their way; each has
the index of `scope_try_callback_c`, whose node is that of the callback that is
running.  All actions may be taken at any time: by the program when the stack is
empty, by the running callback otherwise.  The ghost `called` has the nodes a call
has called and that are still connected.  `thunks[h]` stands for the functions under
which `_mk_CALLBACK` has put a thunk into the Python data of the hook; a thunk that is
not there is freed.

| Action | Code |
|---|---|
| `Declare`, `Connect`, `Disconnect`, `DisconnectAll` | `scope_declare_callback_c`, `scope_connect_callback_c`, `scope_disconnect_callback_c`, with what `Scope.connectCallback` and `disconnectCallback` do before |
| `Invoke`, `CallbackReturns` | `scope_try_callback_c`, `scope_invoke_callback_c`: up to the first callback; `next(idx)` and the next one, or the end |
| `Purge` | `list_delete_c` of any list, which frees the removed nodes |

A hook is not cleared, declared again or removed from its scope while it is being
called: the code frees the node the index is on.  With `MayLeave` FALSE a callback
that is running is not disconnected either, see the finding below.  Connecting a
function returns `hook_set`, and a hook that is not declared is left alone; the
results have no effect on the state and are left out.  Python functions are the same
object when they are connected and disconnected: a bound method is a new object each
time it is looked up, so that disconnecting `self.m` finds no connection.

### TypeGen

`count` and `scope` are the class attributes of `TypeGenerator`, `stated` the
identifiers for which `expandAccess` has written an access statement, `objects` the
`RefType` and `ListNode` objects in the order of their creation; `written` says how
often the procedures of each went to the output, and `status` whether the program
still reads, has closed its output, or was ended by an exception.

| Action | Code |
|---|---|
| `DeclareRef`, `DeclareNode`, `DeclareAlias` | `RefType(...)`, `ListNode(...)` and their `declare`, with `setDeclaration`, `getAliasCount` and `expandAccess` |
| `DeclareWrong` | `TypeSpec.__init__` raises on an unknown dimension or access |
| `Implement` | `_TypeGen_implement(X)`, which ends in a KeyError whatever X is: keys of `scope` have three parts (`typegen.py:976-979`) |
| `ImplementAll` | `_TypeGen_implementAll()` and `implement` of all objects in `scope`, with the KeyError of an alias without its base |
| `Close` | the end of the file |

The text of the templates is abstracted to names of procedures.  `RefInterfaces`
and `RefParts` are the choices that `RefType.declare` and `implement` make from the
form of the type and its options; `InterfaceNames` and `PartName` (with
`StreamAcceptName`, `CoderName` and `InspectorName`) are the names in each
template; `RefReferences` are the procedures that the type information names or
that generated code calls.  A name has the type and the number of the alias in it
(`Named`).  Two simplifications: streaming "array" is treated as
"direct", and the procedures to initialize, assign, delete or get the shape of a value
that a declaration may supply are left out.

Preconditions: a type is declared once as a reference and once as a list node,
without being an alias (`Fresh`), since a second declaration would write every
procedure twice; `acceptProc = _none` and the like are not given.  Left out are
lines without a declaration, malformed declarations among them, which are copied as
the comments they are, and lines joined at the end of the file, which are dropped.
When an exception ends the program what was written stays in the file.  The warning
at `typegen.py:637` says that procedures given for a procedure type are ignored, but
`acceptProc` and `streamProc` are used; the model does what the code does.

### Controller

Two libraries matter: the libfde that native code is linked with and another one
that the search path, the environment or the process may lead to.  `corePath` and
`coreHdl` are the path and the cached handle of `core_loader`, `core` says whether
the import of `fde.core` has succeeded, `nativeUp` whether a native library is
loaded.  `object[c]` is a controller object: its class, `_id`, `_cloneCnt`, and the
ids the cached property `about` speaks of.

| Action | Code |
|---|---|
| `ImportCore` | `import fde.core` by the program: `_Meta.__new__` asks for the handle |
| `Create` | `NativeController.__init__` and all `initialize` of the classes it is mixed from |
| `Copy` | `__getstate__` and `__setstate__` of a copy, with `initialize` |

`Initialized` is the chain of `initialize`: the native library is loaded, a class
whose library reports its libfde tells `core_loader` the path (`ReportedPath`), then a
`Hookable` asks for its scope of hooks, which imports `fde.core` (`PathForHooks`).
`Searched` is what `LibLoader` may find: nothing, the other libfde, or the native
one once it is loaded.  A failed attempt leaves None as the handle, so that the
next import succeeds with types that have no procedures (`ImportFails`).

Preconditions and abstractions: native libraries can be loaded and share one
libfde; options are left out; nothing is unloaded; the variable LD_LIBRARY_PATH is
set (`_libLoader.py:99` raises a KeyError otherwise).  A copy of a copy gets the id of
a copy of the original, as the code has it.

### Simulator

`frames[t]` are the calls of `Startable.start` that thread t is in: the controller,
the directory to go back to, and where the call is - before `chdir` (`"enter"`), in
native code, in a callback, or in the command loop (`"receive"`, `"send"`).  `cwd` is the
directory of the process, named by a class and the ids in it.  `hooks[t]` is the stack
`_hooks[threadID()]` of `_ExceptDispatch`.  `doProcess` is the attribute of that name,
`cmd` the local variables of the loop: the number of the command (0 if `receive`
failed) and what `res`, `break` or an exception make of the loop.  `posted`, `taken` and
`replies` are the two directions of the channel, which subclasses implement.  `lost` and
`disturbed` are ghosts: the commands whose reply could not be sent, and whether
starts of two threads have overlapped or an exception has jumped over a start.

| Action | Code |
|---|---|
| `Setup` | the actions of `Controller`, while nothing is started |
| `Start`, `ChangeDir`, `CannotChange` | `start` up to `getcwd`; `makedirs` and `chdir`, with `_Hooker.__enter__`; one of them raises |
| `Return` | native code returns: `_Hooker.__exit__` and the finally block |
| `CallBack`, `CallbackReturns`, `CallbackRaises` | native code calls a hook, which returns or raises; `_ExceptDispatch.__call__`, `__except__` and the native throw (`Uncaught`) |
| `Post` | a client sends a command |
| `ProcessCommands`, `NothingToDo` | `processCommands` is called back, and its loop is (not) entered |
| `Receive`, `ReceiveFails`, `Send`, `SendFails` | `receive` and the command, up to the finally clause; `send` in it, and the end of the loop or the next turn |

A step lasts as long as nothing of another thread can matter: the hooks belong to
one thread, so pushing them goes with `chdir`.  Each thread's stack of hooks is its own,
so the order in which threads run has no other effect than on the directory, the
commands and the controllers.

Preconditions: native code that is started catches what is thrown into it and goes
on, as `f_try` lets it; a simulator is not started again while it runs; there is
one object that processes commands; working directories are absolute, and not empty
(`_startable.py:55` does not change the directory for an empty one, which the option
`workdir` has by default; `ChangeDir` always does); the program
does not replace `sys.excepthook` after the first start; and controllers are made
while none is started.  A child made by `fork` has a state of its own (and the
`about` of its parent, process id included, if that was cached); it is left out.
`doProcess` is never set again after `finalize` or `terminate`, and is copied.

## 3. What is checked

| Run | Instance | Distinct states | Shows |
|---|---|---|---|
| `resize` | 1 map, 4 keys, 4 nodes, limits 1 to 4 or fixed at 2 | 101095 | types, `NodesPartitioned`, `KeysFindable`, `ItemsCounted`, `IndexWithinLimits`, `LoadStaysBounded`, `PointersStable`, `CachedItemsKept` |
| `shared` | 2 maps, 2 keys, 5 nodes, limits 1 to 4 | 10878 | `MemoryBounded`, `ImplementsMap` (refinement of `MapSpec`), `CallsAgree`, `CacheOrderKept` |
| `iterate` | 1 map, 3 keys, 3 nodes, limits 1 to 2 or fixed at 2, one index | 134911 | `ChainsMatchBuckets`, `ValidIndexOnNode`, `NothingMissed`, `NothingTwice` |
| `comment` | as `iterate`, limits 1 to 2 only | - | a violation, see below |
| `unwind` | 3 catch points, 2 cleanup procedures each, 5 calls; codes StandardError, ArithmeticError and 0 | 762365 | `TypeOK`, `JumpTargetsLive`, `OwnFrameOnTop`, `LaterCleanedFirst`, `CaughtByType`, `NoCleanerSkipped`, `ThrowNeverReturns` |
| `lists` | lists `l1` and `cache`, and those of the values; a plain node, one with a list, one with a map | 82939 | `RingsConsistent` (with the types), `ClearsLiveNodes`, `ImplementsSequences` (refinement of `ListSpec`) |
| `ranges` | 2 lists, 3 plain nodes, strides -1 to 2, lengths that may be unknown | 222834 | `LengthsRight`, `StridesMoved` |
| `purge` | as `lists`, and nodes with a list are removed | - | a violation, see below |
| `hooks` | 2 hooks, 4 nodes, 2 functions and a native procedure, 2 calls | 168817 | `CalledInOrder`, `NoneMissed`, `ThunksAlive` (with the types) |
| `leave` | as `hooks`, and running callbacks are disconnected | - | a violation, see below |
| `typegen` | 2 types, one as a reference with each option and each form, 3 declarations | 115809 | `NothingLost`, `DefinedOnce`, `PromisesKept`, `FirstAccessHolds` |
| `simulator` | 2 controllers, one of which may be a copy and cannot be thrown into; 2 threads, 2 nested starts on one of them; 2 commands, 1 failure | 108045 | `SameLibrary`, `InRightDirectory`, `RoutedToOwn`, `AnsweredInOrder`, `RequestsAnswered` (liveness) |

Why the bounds are enough to be interesting.  The hashes of `resize` include a
negative one, two keys that meet in an index of two buckets and two that meet in
one of four; the index goes through 1, 2 and 4 buckets in both directions and
may be initialized again with limits that fix it at 2, kept with its items or not, and
four nodes for four keys mean that every new key takes a used node once all are
allocated.  In `shared` the fifth node would be used if the cache did not bound
the memory: `MemoryBounded` says it never is.  Two maps are also what `assign` needs, which
takes nodes from the end of the cache while all other calls take the first one
(`CacheOrderKept`).  In `iterate` two keys share a
bucket, so that removals and insertions happen before, at and behind the index,
and one re-indexing is possible in each direction.  Nodes, values and (in
`shared`) maps are interchangeable; keys are not, because of their hashes.
Deadlock is checked in these: there is always a call to be made.

In `unwind` five calls suffice for a procedure whose cleanup procedure throws
while a first exception is searching, and whose second search is caught by the
same catch point, by one below, or by one the cleanup procedure has opened; with
two cleanup procedures the order and the partial progress of a search matter, and
three catch points let a search skip one and be caught by the next.  The catch
lists are "everything", the type itself and its supertype.  Deadlock is not checked
there, because the program may end by an exception nobody catches.

In `lists` the three nodes and the two nested lists are enough for a purge while
a list is being cleared, for a list that grows behind the node that is being freed
(the cache, when a node with a map is in it), and for empty rings, neighbours and
both ends in every place a pointer is changed.  Three nodes are also the first
number for which a stride of 2, or of -1, moves more than one node and leaves one
where it was, which `ranges` does in both directions, to another list, the stale
list and back.  `MaxInexact` bounds the lists with an unknown or a wrong length: 0
in `lists`, where lengths do not matter, 3 of 4 in `ranges`.  `MaxCalls` is never
reached in `lists`, since lists in values hold plain nodes.  Deadlock is checked in
both.

In `hooks` four nodes let a function be connected twice to a hook while another is
called between, and two calls on the stack may be of the same hook or of both.
Removed nodes are purged and used again while a call goes on.

In `typegen` three declarations are enough for a type, its alias and another alias or
type in any order, and for requests to implement between them.  All options at once
would give too many states, so the instance takes each form with one option that is
not the default; the proofs cover all combinations.  The program ends, so deadlock is
not checked.

In `simulator` two nested starts on one thread let an exception jump over the inner
one (the controller without a function to throw), fail before the directory is
changed, or return in order, while the other thread starts a simulator in between.
Two commands let a second one come before, while and after the first is answered, and
one failure hits `receive` or `send` of either.  Threads and controllers have
different roles and no symmetry is used.  A program may end, so deadlock is not checked.

Fairness is stated in `Simulator` only; the other components do nothing by
themselves (that a search for a catch point ends depends on the cleanup procedures,
and one that throws each time keeps it going for ever).  `Fairness` assumes that

- Python code that can run does so (`WF` of `PythonStep`): the interpreter lock goes
  round, and no step waits for another one but `receive`, which waits for a command;
- callbacks return again and again (`SF` of `CallbackReturns` at each depth), and so do
  simulations that were started by a callback (`SF` of `Return` at depths above 1): a
  callback that never comes back stops native code, which the code cannot help;
- the native main loop calls its hook for commands again and again (`SF` of
  `ProcessCommands`).  It is strong fairness, because other callbacks come between.

The outermost simulation need not end, clients need not send, and nothing is assumed
of failures.  `RequestsAnswered` says that the loop catches up again and again, unless
a command has ended it for ever or the simulation has ended.

Every property is broken by one of the mutants beside the definitions, which
are plausible slips in the code: a flush that keeps the counter or loses the
nodes, an index that is never resized, a hash taken as unsigned, a cache that
works last in first out, stale items that are not cleared, a search for the next
bucket that skips or repeats one, and so on.

### Findings

Iteration. The comment in `hashmapindex_is_valid_c` (`hashmap_impl.F90_tpp:942`)
says that the list index needs no check, because it only becomes invalid with the
last bucket, when `idx` is the size of the index vector. Run `comment` shows the
case it misses: that size is not constant. A map is initialized with the limits 1 and
2, and an index of it is taken: there is one bucket, `idx` is 1, and the index is not
valid. The second insertion doubles the index vector, 1 is less than 2, and the index is
valid, although its list index points to no node, but into the vector that was freed.
The following `key(idx)` would read freed memory. With the default limits the vector
has 10 buckets, and it is the nineteenth insertion that doubles it.

Purging. `list_delete_c` (`list_impl.F90:408`) clears the list of all removed nodes
of the program together with its own. The comment in `list_clear_c` says that its
loop jumps to the next node only when the value has been deleted, since that might
have appended nodes: it is meant to stand values that come back to the list. But the
value of a removed node may itself be a list. Run `purge` shows the purge of the
stale list coming to such a node: it deletes its value, which purges the stale list
again, from the beginning, frees the same node and all behind it, and returns to a
loop that reads the pointer of a freed node.

Leaving.  `scope_try_callback_c` (`scope_impl.F90:245`) takes the next node after a
callback has returned.  Run `leave` shows that a callback must not disconnect itself:
its node is the last of the list of removed nodes then, and the loop goes on there, to
callbacks that were disconnected after it or to the root of that list, which is taken
for a node with a procedure.  The rest of the hook is not called, although the
comment in `_hookable.py:49` says in which order its methods are.
`scope_disconnect_callback_c` itself moves its index on first.

The model also shows a length that stays wrong, which is stated as a limit of
`LengthsRight` and not as a property: `listindex_insert_range_c` sets both lengths
to -1, for "to be counted", and a node that is appended before anything asks for the
length turns -1 into 0, which is then taken for the length.  `guessed` has the
lists this happened to, and `LengthsRight` says nothing of them.

Found by reading, and not the subject of a run: the trace procedure gets called for a
KeyboardInterrupt too, although its comment (`fort_exception.cpp:16`) says that it is for
StandardError; `_optionProcessor.py:31` caches the known options in an attribute that
subclasses inherit, so a class whose base class has made an object before does not
know its own options; `_TypeGen_implement` never works (see `TypeGen`); a failed import
of `fde.core` succeeds when it is repeated, without any procedure (see `Controller`); a
reference type `X_node` and a list node `X` both declare the variable `type_X_node`
(`typegen.py:139` and `761`), which `DefinedOnce` does not see, as it is about procedures.

## 4. What is proved

`HashMapProofs` proves, for any finite set of nodes, any maps, keys and values, any
hash function into the integers and any limits that callers pass:

- `TypeCorrect`: `Spec => []TypeOK`
- `MemorySafe`: `Spec => []NodesPartitioned`
- `LookupsComplete`: `Spec => []KeysFindable`
- `LengthCorrect`: `Spec => []ItemsCounted`
- `IndexBounded`: `Spec => []IndexWithinLimits`

from the assumptions named in `HashMap` (`HashAssumption`, `InitArgsAssumption`,
`VoidAssumption`, `AbsentAssumption`, `FiniteAssumption`).  The inductive invariant
`IInv` is the conjunction of the five.  They need each other: removing a node
decrements the count rightly only if the node is in one bucket only, which
follows from the placement by hash; a node taken from the cache is new to the map
only if cache and maps are disjoint; the slot of a key is in the index only if
the index has a bucket.

The proof is in three layers.  Lemmas about sequences say what the list calls do
to the cache (`HeadTailRange`, `AppendRange`, `ConcatRange`, `CutRange`).  Lemmas
about one index (`IndexOK`) say what each helper of the code does to it:
`InsertOK`, `RemoveOK`, `ReindexOK`, `EmptyOK`, `CopyOK`, with `SlotInRange` for the
sign of the hash.  `OneMap` and its variants lift a change of one index to the
invariant of all maps and the cache, and say which nodes each map has afterwards; one
lemma for each action (`CreateKeeps`, `SetKeeps`, `GetKeeps`, `UnsetKeeps`, `ClearKeeps`,
`InitSizedKeeps`, `AssignKeeps`, `ClearCacheKeeps`) applies them; `StepKeeps` puts them
together.

The second half of `HashMapProofs` proves the rest of what runs `resize` and `shared`
check, under the same assumptions:

- `MapsImplemented`: `Spec => ImplementsMap`, the refinement of `MapSpec`
- `CallsRight`: `Spec => CallsAgree`, each call is the one of `MapSpec` with its name;
  initialize is `Housekeeping` if the index has the wanted size, else `Drop`
- `PointersGood`: `Spec => PointersStable`
- `PoppedReadable`: `Spec => CachedItemsKept`
- `CacheInOrder`: `Spec => CacheOrderKept`
- `LoadBoundKept`: `Spec => LoadStaysBounded`
- `MemoryBound`: `Spec => []MemoryBounded`, which also needs maps and keys to be finite
  (`BoundAssumption`), since the bound is a number: that of the items all maps can hold
- `AllocatesLast`: a call that allocates a node leaves none unused

`IInv` makes what the code does equal to what callers see: as every node is in the
bucket of its key and no two nodes of a map have the same key, looking a key up finds
a node if and only if some node of the map has that key (`Found`).  With that a
refinement step is a statement about the set of nodes of each map, which is what the
lemmas of the first half give for each action; where the nodes are has become
irrelevant, re-indexing included.  `NodesKept` says that a call of a map moves no node
that stays, `SizesMove` how it changes the number of buckets.  `CacheMoves` says what a
call other than assign does to the sequence of the cache (it gets longer, loses its first
node or all of them), `AssignCuts` what assign does (it gets longer and is cut off); `TailOrder`,
`ConcatOrder` and `CutOrder` what that means for two nodes in it.  The memory bound is not inductive by itself: it rests
on `AllocationEmptiesCache`, a call that allocates nodes leaves none in the cache, and on
`EmptyCacheBounds`: then all nodes are in maps, which have at most one for each pair of a
map and a key (`NodesOfMaps`).

`HashMapIndexProofs` proves all that run `iterate` checks, for any maps, keys, nodes,
limits and hash function.  `RootsAssumption` says that the root of a list is no node (it is
part of the index vector), and `NoMapAssumption` that an index without a host is none on
a map:

- `IteratedMaps`: `IndexSpec => Spec`, so what is proved of `HashMap` holds here
- `ListsHoldBuckets`: `IndexSpec => []ChainsMatchBuckets`
- `IndexPointsToNode`: `IndexSpec => []ValidIndexOnNode`
- `IterationComplete`: `IndexSpec => []NothingMissed`
- `NoneVisitedTwice`: `IndexSpec => NothingTwice`

That nothing was missed is a statement about the end of an iteration.  What is
inductive is `XInv`, whose part `OnCourse` says where keys are on the way: every key that
is owed is `Ahead`, on a node after the current one in its list or in a later
bucket, and every key that was visited is `Behind`.  A call that does not disturb the
iteration keeps both, because it keeps the order of the nodes it leaves in a list
(`OrderKept`): nodes enter at the end (`PutLast`) and leave from anywhere (`Unlinked`).
`Leaves` and `OthersKept` are the two forms this takes, for the map that is iterated over
and for another one, and each action has a lemma (`...OnCourse`).  An advance goes to the next
node of the ring (`NextInRing`) or to the first node of the next bucket that has
one (`SearchFrom`, `Landed`), and in both cases nothing that was ahead is left behind except
the node it lands on (`AdvanceMoves`).  No key is ahead and behind at a time (`AheadNotBehind`),
which gives `NoneVisitedTwice`.

The flush of a map and its re-indexing are loops, and what a loop computes is proved by
induction over its turns.  The library's induction rules cannot be used here, as they
have an operator as a parameter; so the lemmas `Least`, `AllNumbers` and `Loop` state
induction for sets of natural numbers instead of predicates, from the fact that < is
well-founded on them, and `AllInOrder` and `AllRedistributed` apply them: all nodes of the
old lists are in the new ones, each once and in its bucket.

`ExceptionsProofs` proves everything run `unwind` checks, for any codes and catch
lists (without the code 0), any depth and any number of cleanup procedures:

- `StacksTyped`: `Spec => []TypeOK`
- `LongjmpSafe`: `Spec => []JumpTargetsLive`
- `FrameOwned`: `Spec => []OwnFrameOnTop`
- `CleanedInOrder`: `Spec => []LaterCleanedFirst`
- `CleanersNotSkipped`, `NoReturnFromThrow`, `CaughtWhereAsked`: the action properties

The two stacks have to be related for that.  `Structure` says how: the heights of
the catch points increase (`HeightsIncrease`), the call above each height is the
procedure of that catch point (`JumpTargetsLive`), each procedure has the number
after the one of the code it was called from (`Linked`), and a catch point was
opened by the procedure that has its number or further up the stack
(`BodiesUnderFrames`).  `SearchesDone` and
`DoneUnderSearch` relate the marks on the cleanup procedures to the searches:
a search has run all above `left`, and what is marked is marked by a search that
is still on the stack.  Without `HeightsIncrease` a catch could cut the stack below
a catch point that stays; without `DoneUnderSearch` an order over nested catch
points would not survive a longjmp.  There is one lemma per action (`KeptBy...`);
`Return` and `Catch` share `CutKeeps`, which says that the invariant survives when
the last catch point goes and the stack is cut to its height.

`CallbacksProofs` proves what run `hooks` checks, for any hooks, nodes and procedures and
any depth of calls:

- `CallsInOrder`: `Spec => []CalledInOrder`
- `CallsAll`: `Spec => NoneMissed`
- `ThunksLive`: `Spec => []ThunksAlive`

The three assume `MayLeave = FALSE`, that is, that no callback is disconnected while it
is running, and `CallbackAssumption`: there are procedures, and hooks, nodes and the root
of the removed nodes differ.  The first is not for the sake of the proof.  Without it
the code does not keep the promise, as run `leave` shows (see the finding above); nor does a
thunk live as long as the function that disconnects itself in it.

`CalledInOrder` says that a call has called the connected callbacks in their order, which a step
to the next callback only keeps if the index is where the calls have got to.  So the inductive
invariant `IInv` says of every call on the stack that what it called is a prefix of the
list, not empty, and ends in the node its index is on (`Follows`).  Connecting appends to
the list and disconnecting takes nodes out of both (`Less`, the loop over the list, about
which `LessLeaves`, `LessPrefix` and `LessLast` are proved by induction), so a prefix stays one; it stays non-empty and keeps its end because the node that is running
stays.  At the end of a call the index goes on to the root of the list, so the prefix is all
of it.

`TypeGenProofs` proves what run `typegen` checks, for any types, any number of
declarations and all combinations of options:

- `TypesKept`: `Spec => []TypeOK`
- `DeclarationsKept`: `Spec => []NothingLost`
- `ProceduresUnique`: `Spec => []DefinedOnce`, for the names of procedures
- `OutputComplete`: `Spec => []PromisesKept`
- `AccessOfFirst`: `Spec => []FirstAccessHolds`

The counter is what the first two rest on: aliases are numbered by it before they
are counted and keyed by it afterwards.  `KeysTrue` says that a key leads to an object
of its type and class, `AliasesCounted` that no alias has a number above the counter,
and `NamesDiffer` that no two objects agree in type, class and alias number; together
they make the next key and the next name new (`KeyNew`).  `BasesWritten` says that an
alias is only written along with its base, whose `new_node_` it calls.  What one
declaration promises and refers to is compared with what it writes in
`InterfacesKept` and `ReferencesKept`, for all forms and options at once; `ClassesApart`
says that references and list nodes write no procedure of the same name.

`SimulatorProofs` proves the safety properties run `simulator` checks, for any
controllers, copies and threads, any depth of nested starts on each, and any number of
commands and failures:

- `TypesKept`: `Spec => []TypeOK`
- `LibraryShared`: `Spec => SameLibrary`, a statement about the step in which Python's binding
  gets its libfde; one it got before there was a controller to report another is kept
- `ExceptionsRouted`: `Spec => []RoutedToOwn`
- `DirectoriesRight`: `Spec => []InRightDirectory`
- `CommandsAnswered`: `Spec => []AnsweredInOrder`

The invariant `IInv` has one part for each.  `ControllersOK`: as soon as there is a
controller that reports its libfde, the path is known, and each controller's `about` is
about itself.  `CallsOK`: calls with another on top are in a callback (`Below`), no
controller is started twice (`Distinct`), only the Commander's call processes commands
(`LoopsOwned`), and the hooks of a thread are those of its calls, in order
(`RoutedToOwn`); `TakerThere` concludes that the call an exception goes to exists and
has the last hook, so that a jump cuts calls and leaves the hooks right.  `PlacesOK`:
while no two threads start at a time, the first call of a thread goes back home and,
without jumps, each other call goes back to the directory of the one below it.
`AnswersOK`: the command that is being answered is the last one received, and a call of
the Commander is about to send; as there is only one such call (`OneLoop`), `receive`
never overwrites a command that has no answer yet.  Steps of a kind share a lemma:
`InsideStep` stays within native code, `RaisingStep` cuts the stack.

`ListProofs` proves all that runs `lists` and `ranges` check, for any lists and nodes, any
positions and strides (negative ones and 0 included), and any stack of calls:

- `RingsKept`: `Spec => []RingsConsistent`, with the types
- `ClearsSafe`: `Spec => []ClearsLiveNodes`
- `LengthsKept`: `Spec => []LengthsRight`
- `StridesKept`: `Spec => []StridesMoved`
- `SequencesImplemented`: `Spec => ImplementsSequences`, the refinement of `ListSpec`

The assumptions are those named in `List`: the list heads differ and are no nodes
(`HeadsAssumption`), what nodes own are lists (`ValuesAssumption`; two nodes may have the
same one, the proof does not need that they differ), and there are finitely many nodes
(`NumbersAssumption`), so that following the pointers of a ring ends.  The five theorems also
have the hypothesis `RemoveNested = FALSE`: nodes with a list are not put on the list of
removed nodes.  That is what callers have to keep to, and not a help for the proof: without
it the code frees nodes twice, as run `purge` shows.

None of the four invariants is inductive.  `RingsConsistent` follows the pointers from one
node to the next, any number of times, and a step changes up to six of them; `ClearsLiveNodes`
is about the index of a call and not about where it goes next; and in the middle of a call
a list is cut open or half moved.  So the inductive invariant says that there are sequences
the pointers are a picture of: `IInv` is `\E s : Represents(s)`, and `Represents` has these
parts.

- `Shape`: no node is in two places of `s` (`Apart`); neighbours in a sequence, with the
  head of its list at both ends, point to each other (`Rings`); and the pointer of a node
  is Nil exactly if it is in no list.  A list whose nodes are being freed is open: its
  head still points to a node that is gone.
- `Holds`: what may be in which list, so that nothing that is freed with a node owns what
  is freed by a call below.
- `Stack`: calls above the first one are of `list_clear_c`; a call that frees is at the
  first node that is left of its list, and calls above it are in the stale list or the list
  of that node.
- `Bottom`: a call that moves or copies is at a place of its list, and what it has taken
  together with what an index of that place and stride still stands for is what it was to
  take (`Ahead`, `Awaited`); nodes that were popped are the last ones of the stale list
  (`Behind`).
- `Lengths`: lengths are unknown or right, but for the ghost `guessed` and for open lists.

`ListRingProofs` has three layers.  First, where the elements of a sequence are when a part
is cut out or put in (`CutPlaces`, `PutPlaces`), and that no node comes to be in two places
(`CutApart`, `PutApart`).  Then the pointers: `TakenOut` and `PutIn` say that joining two places
takes a part out of a ring or puts a chain into one.  `InsertedJoins` says that
`list_insert_nodes_`, whose statements read pointers that earlier ones may have written, is
three such joins unless the part is moved to where it is, and `MoveRings` puts these together.
`LinkShape`, `MoveShape`, `FreeShape`, `OpenShape` and `CloseShape` are the five ways in which a
step changes a `Shape`.  Last, loops: `IndexPlace` and `AdvancedPlace` say at which place of the
sequence `index` and `next` stop, `CountFits`, `SteppedFirst` and `LaterCut` which nodes an
index stands for, before and after the one it is on has moved away, and `WalkPlace` that following
the pointers of a ring gives its sequence.  Their induction is over sets of numbers
(`SetInduction`, `OnlyOne`), for the reason given above.

`ListProofs` has one lemma for each action (`...Step`), which names the sequences after the
step; `StepOK` puts them together and says besides that the sequences change as
`ListSpec` allows, or stay.  As the sequence of each list is what a caller sees (`ElementsNext`),
that is the refinement.

Only model-checked is the liveness property `RequestsAnswered`, since liveness under
fairness is out of the prover's reach.  That the loops of the lists come to an end is not
stated at all: each step of them is an action, and what `list_clear_c` deletes may add to
what is left.  The violations of runs `comment`, `purge` and `leave` are counterexamples
TLC finds.

## 5. Not modelled

Everything else in the table of section 1, and what the notes on each module above
leave out; `PROJECT.json` lists each part with its state.  Strings, references, items
and plugins are next in the plan.  Of Python control, `Stateful`, `ActionContext`,
`Expression`, `Variable` and `Verbose` are views of scopes or text; of the tools, the
object factory, options, and paths are left out.  The ctypes views of `fde.core` only
call the containers that are modelled.  Of no interest for a model checker:
formatting and file I/O, stack traces, directory listing, the build.

## 6. Plan

In this order, the most shared state first:

1. `Ownership`: strings and references, volatile temporaries, clones; then items.
2. `Plugins`: lazy loading, enabling, reload; the search path.
3. `Algorithms`: the merge sort of the lists, the sorts of arrays, bisection and the
   character stack against definitions.

Theorems to come, with these: one owner for every buffer and one for every target of a
reference; that symbols come from enabled, loaded libraries; and that the sort of a list
returns a permutation of its nodes, for which `Shape` and the lemmas on joins are there.
