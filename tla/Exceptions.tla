------------------------------ MODULE Exceptions ------------------------------
(***************************************************************************)
(* The try and throw of libfortres, fort_exception.cpp: one Context, a     *)
(* vector of catch points that is used as a stack, on top of setjmp and    *)
(* longjmp.                                                                *)
(*                                                                         *)
(* The C++ stack is modelled by the calls that matter here: procedures     *)
(* called by f_try, pop_cleanup while it runs a cleanup procedure, and     *)
(* prepare_exception, which runs them all while it looks for a catch       *)
(* point.  Any code may throw, cleanup procedures before they end too, and *)
(* these may use f_try.                                                    *)
(*                                                                         *)
(* An exception code is its set of bits, 0 the empty set.                  *)
(***************************************************************************)
EXTENDS Integers, Sequences

CONSTANTS
  Codes,          \* the codes the program throws
  CatchLists,     \* the sets of codes it passes to f_try
  Tracing,        \* whether with a tracer, {FALSE} or {TRUE} or both
  StopExecution,  \* the bit of codes for which no tracer is called
  MaxDepth,       \* bound on the catch points
  MaxCleaners,    \* bound on the cleanup procedures of a catch point
  MaxCalls        \* bound on the calls on the stack

NoError == {}

ASSUME CodesAssumption == NoError \notin UNION CatchLists

ASSUME BoundsAssumption == MaxDepth \in Nat /\ MaxCleaners \in Nat /\ MaxCalls \in Nat

VARIABLES
  frames,     \* _checkPoints; height: the calls on the stack at its setjmp;
              \* cleaners[i]: _cleaners[i] has been run by a search
  capacity,   \* the capacity of that vector
  calls,      \* the calls on the stack; frame: the number of their catch point
  returned,   \* what the last f_try returned, and whether its tracer was called
  alive       \* the program has not been terminated

vars == <<frames, capacity, calls, returned, alive>>

Body(k) == [at |-> "body", frame |-> k, code |-> NoError, left |-> 0]
Popping(k) == [at |-> "pop", frame |-> k, code |-> NoError, left |-> 0]

\* prepare_exception with chk on catch point k, in the call of cleaner n.
Search(c, k, n) == [at |-> "search", frame |-> k, code |-> c, left |-> n]

Frame == [list : CatchLists, tracer : Tracing, cleaners : Seq(BOOLEAN), height : Nat]
Call == [at : {"body", "pop", "search"}, frame : Nat \ {0}, code : Codes \cup {NoError}, left : Nat]
Result == [code : Codes \cup {NoError}, traced : BOOLEAN]

\* The types of the variables.
TypeOK ==
  /\ frames \in Seq(Frame)
  /\ capacity \in Nat
  /\ calls \in Seq(Call)
  /\ returned \in Result
  /\ alive \in BOOLEAN

-----------------------------------------------------------------------------
(* The running code *)

Back == frames[Len(frames)]
Top == calls[Len(calls)]

DropLast(s) == SubSeq(s, 1, Len(s) - 1)

InMain == calls = <<>>
InBody == calls # <<>> /\ Top.at = "body"
InCleaner == calls # <<>> /\ (Top.at = "pop" \/ (Top.at = "search" /\ Top.left > 0))
Deciding == calls # <<>> /\ Top.at = "search" /\ Top.left = 0

\* Mutant: a code is taken for a subtype of those that have more bits.
HandlesSwapped(list, code) ==
  IF list = {} THEN code # NoError ELSE \E c \in list : code \subseteq c

\* CheckPoint::check, after the cleanup procedures.
Handles(list, code) ==
  IF list = {} THEN code # NoError ELSE \E c \in list : c \subseteq code

\* Mutant: the cleaners are called from the first to the last.
CleanerCalledForward(call) == Len(frames[call.frame].cleaners) + 1 - call.left

\* The number of the cleaner a search is in.
CleanerCalled(call) == call.left

Init ==
  /\ frames = <<>>
  /\ capacity = 0
  /\ calls = <<>>
  /\ returned = [code |-> NoError, traced |-> FALSE]
  /\ alive = TRUE

-----------------------------------------------------------------------------
(* Catch points *)

\* std::vector doubles its capacity when it is full.
Grown == IF Len(frames) < capacity THEN capacity
         ELSE IF capacity = 0 THEN 1 ELSE 2 * capacity

\* f_try up to the call of the procedure.  In a cleanup procedure it is called
\* only when the vector need not grow, which would leave the search with a
\* reference to a catch point that has moved.
Try(list, tracer) ==
  /\ alive
  /\ InMain \/ InBody \/ (InCleaner /\ Len(frames) < capacity)
  /\ Len(frames) < MaxDepth /\ Len(calls) < MaxCalls
  /\ frames' = Append(frames, [list |-> list, tracer |-> tracer, cleaners |-> <<>>,
                               height |-> Len(calls)])
  /\ capacity' = Grown
  /\ calls' = Append(calls, Body(Len(frames) + 1))
  /\ UNCHANGED <<returned, alive>>

\* Mutant: the catch point of a procedure that returns is left on the stack.
ReturnUnclosed ==
  /\ alive /\ InBody
  /\ calls' = DropLast(calls)
  /\ returned' = [code |-> NoError, traced |-> FALSE]
  /\ UNCHANGED <<frames, capacity, alive>>

\* The procedure returns to f_try, which returns 0.
Return ==
  /\ alive /\ InBody
  /\ frames' = DropLast(frames)
  /\ calls' = DropLast(calls)
  /\ returned' = [code |-> NoError, traced |-> FALSE]
  /\ UNCHANGED <<capacity, alive>>

\* f_push_cleanup, which needs a catch point.  Cleanup procedures call it only in
\* a f_try of their own: what they push to the catch point they clean up for
\* would not be called.
PushCleanup ==
  /\ alive /\ InBody
  /\ Len(Back.cleaners) < MaxCleaners
  /\ frames' = [frames EXCEPT ![Len(frames)].cleaners = Append(@, FALSE)]
  /\ UNCHANGED <<capacity, calls, returned, alive>>

\* f_pop_cleanup, which needs a cleanup procedure.  It runs it before it removes it.
PopCleanup(exec) ==
  /\ alive /\ InBody
  /\ Back.cleaners # <<>>
  /\ \/ /\ exec
        /\ Len(calls) < MaxCalls
        /\ calls' = Append(calls, Popping(Len(frames)))
        /\ UNCHANGED frames
     \/ /\ ~exec
        /\ frames' = [frames EXCEPT ![Len(frames)].cleaners = DropLast(@)]
        /\ UNCHANGED calls
  /\ UNCHANGED <<capacity, returned, alive>>

\* The cleanup procedure f_pop_cleanup called returns.
PoppedReturns ==
  /\ alive /\ calls # <<>> /\ Top.at = "pop"
  /\ frames' = [frames EXCEPT ![Len(frames)].cleaners = DropLast(@)]
  /\ calls' = DropLast(calls)
  /\ UNCHANGED <<capacity, returned, alive>>

-----------------------------------------------------------------------------
(* Exceptions *)

Terminate ==
  /\ alive' = FALSE
  /\ frames' = <<>>
  /\ calls' = <<>>
  /\ UNCHANGED <<capacity, returned>>

\* Mutant: only a catch point that handles the code runs its cleaners.
BeginCheckIfHandled(c, k) ==
  Search(c, k, IF Handles(frames[k].list, c) THEN Len(frames[k].cleaners) ELSE 0)

\* Mutant: the number of the last cleaner for the number of cleaners.
BeginCheckBefore(c, k) == Search(c, k, Len(frames[k].cleaners) - 1)

\* check is called on catch point k and calls its last cleaner.
BeginCheck(c, k) == Search(c, k, Len(frames[k].cleaners))

\* f_throw, by any code that runs.  Without a catch point the program terminates.
Throw(c) ==
  /\ alive
  /\ InMain \/ InBody \/ InCleaner
  /\ \/ /\ frames = <<>>
        /\ Terminate
     \/ /\ frames # <<>>
        /\ Len(calls) < MaxCalls
        /\ calls' = Append(calls, BeginCheck(c, Len(frames)))
        /\ UNCHANGED <<frames, capacity, returned, alive>>

\* A cleaner of a search returns: check calls the one before it.
CleanerReturns ==
  /\ alive /\ calls # <<>> /\ Top.at = "search" /\ Top.left > 0
  /\ frames' = [frames EXCEPT ![Top.frame].cleaners[CleanerCalled(Top)] = TRUE]
  /\ calls' = [calls EXCEPT ![Len(calls)].left = @ - 1]
  /\ UNCHANGED <<capacity, returned, alive>>

\* Mutant: the search goes on from the catch point it is on, without a pop_back.
SkipKept(c) ==
  /\ alive /\ Deciding
  /\ ~Handles(Back.list, c) /\ Top.code = c
  /\ \/ /\ Len(frames) = 1
        /\ Terminate
     \/ /\ Len(frames) > 1
        /\ calls' = [calls EXCEPT ![Len(calls)] = BeginCheck(c, Len(frames) - 1)]
        /\ UNCHANGED <<frames, capacity, returned, alive>>

\* The catch point does not handle the code: on to the one below it, or to the
\* end of the program where there is none.
Skip(c) ==
  /\ alive /\ Deciding
  /\ Top.code = c /\ ~Handles(frames[Top.frame].list, c)
  /\ \/ /\ Len(frames) = 1
        /\ Terminate
     \/ /\ Len(frames) > 1
        /\ frames' = DropLast(frames)
        /\ calls' = [calls EXCEPT ![Len(calls)] = BeginCheck(c, Len(frames) - 1)]
        /\ UNCHANGED <<capacity, returned, alive>>

\* Mutant: longjmp to the catch point below.
CatchBelow(c) ==
  /\ alive /\ Deciding
  /\ Top.code = c /\ Handles(frames[Top.frame].list, c)
  /\ frames' = DropLast(frames)
  /\ calls' = SubSeq(calls, 1, Back.height + 1)
  /\ returned' = [code |-> c, traced |-> Back.tracer /\ ~(StopExecution \subseteq c)]
  /\ UNCHANGED <<capacity, alive>>

\* The catch point handles the code: fire_exception, a longjmp to the f_try that
\* opened the last catch point, which closes it and returns the code.
Catch(c) ==
  /\ alive /\ Deciding
  /\ Top.code = c /\ Handles(frames[Top.frame].list, c)
  /\ frames' = DropLast(frames)
  /\ calls' = SubSeq(calls, 1, Back.height)
  /\ returned' = [code |-> c, traced |-> Back.tracer /\ ~(StopExecution \subseteq c)]
  /\ UNCHANGED <<capacity, alive>>

Next ==
  \/ \E list \in CatchLists, tracer \in Tracing : Try(list, tracer)
  \/ Return
  \/ PushCleanup
  \/ \E exec \in BOOLEAN : PopCleanup(exec)
  \/ PoppedReturns
  \/ \E c \in Codes : Throw(c)
  \/ CleanerReturns
  \/ \E c \in Codes : Skip(c)
  \/ \E c \in Codes : Catch(c)

Spec == Init /\ [][Next]_vars

-----------------------------------------------------------------------------
(* Properties *)

\* The procedure a catch point was opened for is still on the stack, on top of
\* the calls it will return to: no longjmp goes to a call that has ended.
JumpTargetsLive ==
  \A k \in 1..Len(frames) :
    /\ frames[k].height < Len(calls)
    /\ calls[frames[k].height + 1] = Body(k)

\* Whatever code goes on does so with its own catch point on top of the stack:
\* closeFrame, pop_cleanup, pop_back and fire_exception, which all take the back
\* of the vector, mean that one, whatever exceptions and catch points came and
\* went since.
OwnFrameOnTop == calls # <<>> => Top.frame = Len(frames)

\* Cleanup procedures run in the reverse order of their registration: none has
\* run before a later one of its catch point, or while the procedure it was
\* registered by has a catch point open further up.
LaterCleanedFirst ==
  \A k \in 1..Len(frames) : \A i \in DOMAIN frames[k].cleaners :
    frames[k].cleaners[i] =>
      /\ \A j \in DOMAIN frames[k].cleaners : j > i => frames[k].cleaners[j]
      /\ \A l \in (k + 1)..Len(frames) :
           \E p \in 1..frames[l].height : calls[p].at = "search" /\ calls[p].frame <= k

\* An exception ends a f_try only if it is to catch everything, or the code, or
\* one the code is a subtype of, in the sense of exception_types.xpp; and f_try
\* returns the code of the last throw, never the 0 of a procedure that returned.
CaughtByType ==
  [][\A c \in Codes :
       Deciding /\ Top.code = c /\ alive' /\ Len(calls') < Len(calls) =>
         /\ c # NoError /\ returned'.code = c
         /\ \/ Back.list = {}
            \/ \E t \in Back.list : t \subseteq c]_vars

\* A catch point is removed by an exception only when all of its cleanup
\* procedures have returned, in spite of throws by some of them.
NoCleanerSkipped ==
  [][\A k \in 1..Len(frames) :
       Deciding /\ k > Len(frames') => \A i \in DOMAIN frames[k].cleaners : frames[k].cleaners[i]]_vars

\* A throw does not return: when the search it started is gone the program has
\* ended or the code that threw is gone too.
ThrowNeverReturns ==
  [][\A p \in DOMAIN calls :
       calls[p].at = "search" /\ Len(calls') < p =>
         \/ Len(calls') < p - 1
         \/ ~alive']_vars

=============================================================================
