------------------------------- MODULE Callbacks -------------------------------
(***************************************************************************)
(* The callback hooks of scopes, src/scope_impl.F90: a hook is a list of   *)
(* procedures, and calling it calls each of them.  A procedure that is     *)
(* called may do to any hook what the program may do.                      *)
(*                                                                         *)
(* Python functions are connected by thunks, which ctypes makes and which  *)
(* live as long as fde/core/_scope.py remembers them.                      *)
(***************************************************************************)
EXTENDS Integers, Sequences, SequencesExt, FiniteSets

CONSTANTS
  Hooks, Nodes,
  Procs, Functions,   \* the procedures; those that are Python functions
  Stale,              \* the root of list_stale_list
  MayLeave,           \* whether callbacks may be disconnected while they are running
  MaxCalls            \* bound on the hooks that are being called

ASSUME CallbackAssumption ==
  /\ Procs # {} /\ Functions \subseteq Procs
  /\ Stale \notin Nodes /\ Hooks \cap (Nodes \cup {Stale}) = {}
  /\ MayLeave \in BOOLEAN /\ MaxCalls \in Nat

VARIABLES
  declared,
  list,     \* the callbacks of each hook
  stale,    \* list_stale_list
  proc,     \* the value of each node
  thunks,   \* the functions in the Python data of each hook
  calls     \* the hooks that are being called: the index on the running callback,
            \* and a ghost, those that were called and are still connected

vars == <<declared, list, stale, proc, thunks, calls>>

Call == [hook : Hooks, node : Nodes \cup {Stale}, called : Seq(Nodes \cup {Stale})]

\* The types of the variables, part of ThunksAlive; no node is in two lists, or twice in one.
TypeOK ==
  /\ declared \subseteq Hooks
  /\ list \in [Hooks -> Seq(Nodes)] /\ stale \in Seq(Nodes)
  /\ proc \in [Nodes -> Procs]
  /\ thunks \in [Hooks -> SUBSET Functions]
  /\ calls \in Seq(Call)
  /\ \A h \in Hooks :
       /\ IsInjective(list[h] \o stale)
       /\ \A g \in Hooks \ {h} : ToSet(list[g]) \cap ToSet(list[h]) = {}

-----------------------------------------------------------------------------

Allocated == ToSet(stale) \cup UNION {ToSet(list[h]) : h \in Hooks}

Running(h, n) == \E k \in 1..Len(calls) : calls[k].hook = h /\ calls[k].node = n

\* The loop of scope_disconnect_callback_c: s when the nodes in gone are taken out.
Less(s, gone) ==
  LET left[k \in 0..Len(s)] ==
        IF k = 0 THEN <<>>
        ELSE IF s[k] \in gone THEN left[k - 1] ELSE Append(left[k - 1], s[k])
  IN  left[Len(s)]

\* The calls when the nodes in gone are no longer connected to h.
Without(gone) == [k \in 1..Len(calls) |-> [calls[k] EXCEPT !.called = Less(@, gone)]]

\* The node behind n in s, or the end of s.
After(s, n, end) ==
  IF n = Last(s) THEN end ELSE s[(CHOOSE k \in 1..Len(s) : s[k] = n) + 1]

Init ==
  /\ declared = {}
  /\ list = [h \in Hooks |-> <<>>] /\ stale = <<>>
  /\ proc \in [Nodes -> {CHOOSE p \in Procs : TRUE}]
  /\ thunks = [h \in Hooks |-> {}]
  /\ calls = <<>>

\* list_clear_c; nobody clears a hook while it is calling.
Emptied(h) ==
  /\ \A n \in Nodes : ~Running(h, n)
  /\ list' = [list EXCEPT ![h] = <<>>]
  /\ UNCHANGED calls

\* scope_declare_callback_c
Declare(h) ==
  /\ Emptied(h)
  /\ declared' = declared \cup {h}
  /\ UNCHANGED <<stale, proc, thunks>>

\* Mutant: a new callback is the first to be called.
ConnectedFirst(h, n) == <<n>> \o list[h]

Connected(h, n) == list[h] \o <<n>>

\* _mk_CALLBACK puts a thunk into the Python data of the hook, if none is there.
Remembered(h, p) == [thunks EXCEPT ![h] = @ \cup ({p} \cap Functions)]

\* scope_connect_callback_c, after Scope.connectCallback has made the thunk.
Connect(h, p) ==
  /\ h \in declared
  /\ \E n \in Nodes \ Allocated :
       /\ list' = [list EXCEPT ![h] = Connected(h, n)]
       /\ proc' = [proc EXCEPT ![n] = p]
  /\ thunks' = Remembered(h, p)
  /\ UNCHANGED <<declared, stale, calls>>

\* Mutant: only the first connection is removed.
RemainingRest(h, p) ==
  IF \E k \in 1..Len(list[h]) : proc[list[h][k]] = p
  THEN RemoveAt(list[h], CHOOSE k \in 1..Len(list[h]) :
         proc[list[h][k]] = p /\ \A j \in 1..(k - 1) : proc[list[h][j]] # p)
  ELSE list[h]

\* What is left in the hook.
Remaining(h, p) == Less(list[h], {n \in Nodes : proc[n] = p})

\* _mk_CALLBACK with remove
Forgotten(h, p) == [thunks EXCEPT ![h] = @ \ {p}]

\* scope_disconnect_callback_c: the nodes go to the stale list.  The thunk has been
\* forgotten by then.
Disconnect(h, p) ==
  /\ h \in declared
  /\ MayLeave \/ \A n \in Nodes : Running(h, n) => proc[n] # p
  /\ LET removed == Less(list[h], {n \in Nodes : proc[n] # p})
     IN  /\ list' = [list EXCEPT ![h] = Remaining(h, p)]
         /\ stale' = stale \o removed
         /\ calls' = Without(ToSet(removed))
  /\ thunks' = Forgotten(h, p)
  /\ UNCHANGED <<declared, proc>>

\* scope_disconnect_callback_c without a procedure; the thunks are kept.
DisconnectAll(h) ==
  /\ h \in declared
  /\ Emptied(h)
  /\ UNCHANGED <<declared, stale, proc, thunks>>

\* scope_try_callback_c and scope_invoke_callback_c, up to the first callback.
Invoke(h) ==
  /\ h \in declared /\ list[h] # <<>>
  /\ Len(calls) < MaxCalls
  /\ calls' = Append(calls, [hook |-> h, node |-> list[h][1], called |-> <<list[h][1]>>])
  /\ UNCHANGED <<declared, list, stale, proc, thunks>>

Top == calls[Len(calls)]

\* Where next(idx) goes: along the list the node is in by now.  A node that was
\* deallocated, or what is called for the root of another list, may lead anywhere.
Following ==
  LET h == CHOOSE g \in Hooks : Top.node \in ToSet(list[g])
  IN  IF Top.node \in ToSet(stale) THEN {After(stale, Top.node, Stale)}
      ELSE IF \E g \in Hooks : Top.node \in ToSet(list[g]) THEN {After(list[h], Top.node, Top.hook)}
      ELSE Nodes \cup {Stale}

\* The running callback returns, and the next one is called or the call is over.
CallbackReturns ==
  /\ calls # <<>>
  /\ \E next \in Following :
       calls' = IF next = Top.hook THEN SubSeq(calls, 1, Len(calls) - 1)
                ELSE [calls EXCEPT ![Len(calls)].node = next, ![Len(calls)].called = Append(@, next)]
  /\ UNCHANGED <<declared, list, stale, proc, thunks>>

\* list_delete_c of any list of the program deallocates the nodes that were removed.
Purge ==
  /\ stale' = <<>>
  /\ UNCHANGED <<declared, list, proc, thunks, calls>>

Next ==
  \/ \E h \in Hooks : Declare(h)
  \/ \E h \in Hooks, p \in Procs : Connect(h, p)
  \/ \E h \in Hooks, p \in Procs : Disconnect(h, p)
  \/ \E h \in Hooks : DisconnectAll(h)
  \/ \E h \in Hooks : Invoke(h)
  \/ CallbackReturns
  \/ Purge

Spec == Init /\ [][Next]_vars

-----------------------------------------------------------------------------
(* Properties *)

\* Whatever callbacks do to the hook that is calling them: it calls those that are
\* connected and no other, in the order they were connected in, and none twice.
CalledInOrder == \A k \in 1..Len(calls) : IsPrefix(calls[k].called, list[calls[k].hook])

\* No call of a hook ends before all callbacks have been called that are connected
\* by then.
NoneMissed ==
  [][CallbackReturns /\ Len(calls') < Len(calls) => Top.called = list[Top.hook]]_vars

\* The thunk of a function that is connected or running is remembered, and each node has
\* one place.
ThunksAlive ==
  /\ TypeOK
  /\ \A h \in Hooks, n \in Nodes :
       n \in ToSet(list[h]) /\ proc[n] \in Functions => proc[n] \in thunks[h]
  /\ \A k \in 1..Len(calls) :
       proc[calls[k].node] \in Functions => proc[calls[k].node] \in thunks[calls[k].hook]

=============================================================================
