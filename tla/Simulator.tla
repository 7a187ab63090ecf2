------------------------------- MODULE Simulator -------------------------------
(***************************************************************************)
(* Simulators that are started (fde/control): the working directory of     *)
(* the process, the routing of Python exceptions into native code, and the *)
(* loop that processes commands in a callback.  Each thread has a stack of *)
(* calls of start, nested by callbacks; while native code runs other       *)
(* threads may run Python code.  Native code that is started catches what  *)
(* is thrown into it, and its main loop is not entered twice at a time.    *)
(* Working directories are absolute.                                       *)
(***************************************************************************)
EXTENDS Controller, Sequences

CONSTANTS
  Threads,       \* threads of the Python program
  Depth,         \* bound on nested starts of each thread
  Throwing,      \* controllers whose library has a function to throw exceptions
  Commander,     \* the controller that processes commands
  MaxRequests,   \* bound on the commands clients send
  MaxFailures    \* bound on failing calls of receive and send

ASSUME SimulatorAssumption ==
  /\ Throwing \subseteq Controllers /\ Commander \in Controllers \ Copies
  /\ Depth \in [Threads -> Nat] /\ MaxRequests \in Nat /\ MaxFailures \in Nat

VARIABLES
  cwd,         \* the working directory of the process
  frames,      \* for each thread the calls of start it is in, the innermost last
  hooks,       \* _ExceptDispatch._hooks: for each thread the controllers to throw into
  doProcess,   \* _doProcess of the Commander
  posted,      \* how many commands were sent to it
  taken,       \* how many of them it has received
  cmd,         \* the command being answered, and how the loop goes on after it
  replies,     \* numbers of the commands its replies answer, 0 for no command
  lost,        \* history: commands whose reply could not be sent
  failures,    \* how many calls of receive and send have failed
  disturbed    \* history: "overlap" of starts of two threads, "jump" over a start

vars == <<controllerVars, cwd, frames, hooks, doProcess, posted, taken, cmd,
          replies, lost, failures, disturbed>>
commandVars == <<doProcess, posted, taken, cmd, replies, lost, failures>>

Home == <<"home", {}>>
NoCmd == [req |-> 0, after |-> "loop"]
\* Where a call is: about to change the directory, or behind that, in the context of routed
\* exceptions, where native code runs (start and then finalize), a callback runs, or the
\* command loop receives or sends.
Inside == {"native", "callback", "receive", "send"}

Init ==
  /\ ControllerInit
  /\ cwd = Home
  /\ frames = [t \in Threads |-> <<>>]
  /\ hooks = [t \in Threads |-> <<>>]
  /\ doProcess = TRUE
  /\ posted = 0 /\ taken = 0 /\ cmd = NoCmd /\ replies = <<>> /\ lost = {}
  /\ failures = 0
  /\ disturbed = {}

Top(t) == frames[t][Len(frames[t])]
In(t, pc) == frames[t] # <<>> /\ Top(t).pc = pc
Moved(t, pc) == [frames EXCEPT ![t][Len(frames[t])].pc = pc]
Popped(t) == [frames EXCEPT ![t] = SubSeq(@, 1, Len(@) - 1)]
Calls == UNION {{frames[t][i] : i \in 1..Len(frames[t])} : t \in Threads}
Running == {f.ctl : f \in Calls}
Idle == Calls = {}

\* workdir, formatted with what the object is about.
Dir(c) == <<object[c].class, object[c].about>>
CanThrow(c) == object[c].class \in Throwing

--------------------------------------------------------------------------------
(* Startable.start *)

\* getcwd, by the program or by a callback of another simulator.
Start(t, c) ==
  /\ object[c] # NoObject /\ c \notin Running
  /\ Len(frames[t]) < Depth[t]
  /\ frames[t] # <<>> => In(t, "callback")
  /\ frames' = [frames EXCEPT ![t] = Append(@, [ctl |-> c, pc |-> "enter", prev |-> cwd])]
  /\ disturbed' = disturbed \cup {d \in {"overlap"} : \E u \in Threads \ {t} : frames[u] # <<>>}
  /\ UNCHANGED <<controllerVars, commandVars, cwd, hooks>>

\* Mutant: one stack of hooks for all threads.
HooksEnteredAll(t) ==
  IF CanThrow(Top(t).ctl) THEN [u \in Threads |-> Append(hooks[t], Top(t).ctl)] ELSE hooks

\* _Hooker.__enter__, which does nothing without a function to throw.
HooksEntered(t) ==
  IF CanThrow(Top(t).ctl) THEN [hooks EXCEPT ![t] = Append(@, Top(t).ctl)] ELSE hooks

\* chdir, and the context of routed exceptions.
ChangeDir(t) ==
  /\ In(t, "enter")
  /\ cwd' = Dir(Top(t).ctl)
  /\ hooks' = HooksEntered(t)
  /\ frames' = Moved(t, "native")
  /\ UNCHANGED <<controllerVars, commandVars, disturbed>>

\* makedirs or chdir raises, outside of the try block.
CannotChange(t) ==
  /\ In(t, "enter")
  /\ frames' = Popped(t)
  /\ UNCHANGED <<controllerVars, commandVars, cwd, hooks, disturbed>>

\* Mutant: the finally block goes back to where the program was started.
PreviousHome(f) == Home

\* Where the finally block goes.
Previous(f) == f.prev

\* start_c_ and finalize_c_ return, or one of them is missing; _Hooker.__exit__, and the
\* finally block.
Return(t) ==
  /\ In(t, "native")
  /\ hooks' = IF CanThrow(Top(t).ctl)
              THEN [hooks EXCEPT ![t] = SubSeq(@, 1, Len(@) - 1)] ELSE hooks
  /\ cwd' = Previous(Top(t))
  /\ frames' = Popped(t)
  /\ UNCHANGED <<controllerVars, commandVars, disturbed>>

--------------------------------------------------------------------------------
(* Callbacks and their exceptions *)

CallBack(t) ==
  /\ In(t, "native")
  /\ frames' = Moved(t, "callback")
  /\ UNCHANGED <<controllerVars, commandVars, cwd, hooks, disturbed>>

CallbackReturns(t) ==
  /\ In(t, "callback")
  /\ frames' = Moved(t, "native")
  /\ UNCHANGED <<controllerVars, commandVars, cwd, hooks, disturbed>>

\* _ExceptDispatch.__call__: the simulator of the thread's last hook takes the exception
\* and goes on; without a hook it is printed and the callback returns.
Takers(t) == {i \in 1..Len(frames[t]) :
                hooks[t] = <<>> \/ frames[t][i].ctl = hooks[t][Len(hooks[t])]}
Taker(t) == CHOOSE i \in Takers(t) : \A j \in Takers(t) : j <= i

\* An exception leaves a callback.  The calls of start inside of the one that takes it are
\* jumped over, their finally blocks included.
Uncaught(t) ==
  /\ frames' = [frames EXCEPT ![t] = Append(SubSeq(@, 1, Taker(t) - 1), [@[Taker(t)] EXCEPT !.pc = "native"])]
  /\ disturbed' = disturbed \cup {d \in {"jump"} : Taker(t) < Len(frames[t])}
  /\ UNCHANGED <<controllerVars, cwd, hooks>>

CallbackRaises(t) ==
  /\ In(t, "callback")
  /\ Uncaught(t)
  /\ UNCHANGED commandVars

--------------------------------------------------------------------------------
(* CommandProcessor.processCommands, called back by the Commander's native code *)

\* A command that returns a value or raises is answered and the loop goes on; tick ends
\* it for now, finalize and terminate for ever; an exception that cannot be made anew from
\* a text leaves the loop.
Commands == {"value", "wrong", "tick", "finalize", "terminate", "odd"}
After(k) ==
  CASE k \in {"value", "wrong"} -> "loop"
    [] k = "odd" -> "raise"
    [] OTHER -> "leave"

Post ==
  /\ posted < MaxRequests
  /\ posted' = posted + 1
  /\ UNCHANGED <<controllerVars, cwd, frames, hooks, doProcess, taken, cmd, replies, lost,
                 failures, disturbed>>

ProcessCommands(t) ==
  /\ In(t, "native") /\ Top(t).ctl = Commander
  /\ frames' = Moved(t, "receive")
  /\ UNCHANGED <<controllerVars, commandVars, cwd, hooks, disturbed>>

\* The loop is not entered, as a command has ended it for ever.
NothingToDo(t) ==
  /\ In(t, "receive") /\ ~doProcess
  /\ frames' = Moved(t, "native")
  /\ UNCHANGED <<controllerVars, commandVars, cwd, hooks, disturbed>>

\* Mutant: nothing is received any more after a failure.
WaitingUnlessFailed == taken < posted /\ failures = 0

\* There is a command for receive.
Waiting == taken < posted

Receive(t, k) ==
  /\ In(t, "receive") /\ doProcess
  /\ Waiting
  /\ taken' = taken + 1
  /\ cmd' = [req |-> taken + 1, after |-> After(k)]
  /\ doProcess' = (k \notin {"finalize", "terminate"})
  /\ frames' = Moved(t, "send")
  /\ UNCHANGED <<controllerVars, cwd, hooks, posted, replies, lost, failures, disturbed>>

\* receive raises: an Exception is sent like one of a command, a StopIteration ends the loop
\* for now, and others leave it as exceptions.
ReceiveFails(t, after) ==
  /\ In(t, "receive") /\ doProcess
  /\ failures < MaxFailures
  /\ failures' = failures + 1
  /\ cmd' = [req |-> 0, after |-> after]
  /\ frames' = Moved(t, "send")
  /\ UNCHANGED <<controllerVars, cwd, hooks, doProcess, posted, taken, replies, lost, disturbed>>

\* Mutant: the reply is sent at the end of the body, which break and exceptions leave.
RepliedInBody == IF cmd.after = "loop" THEN Append(replies, cmd.req) ELSE replies

\* The reply is sent by the finally clause.
Replied == Append(replies, cmd.req)

Send(t) ==
  /\ In(t, "send")
  /\ replies' = Replied
  /\ cmd' = NoCmd
  /\ \/ /\ cmd.after \in {"loop", "leave"}
        /\ frames' = Moved(t, IF cmd.after = "loop" THEN "receive" ELSE "native")
        /\ UNCHANGED <<controllerVars, cwd, hooks, disturbed>>
     \/ cmd.after = "raise" /\ Uncaught(t)
  /\ UNCHANGED <<doProcess, posted, taken, lost, failures>>

SendFails(t) ==
  /\ In(t, "send")
  /\ failures < MaxFailures
  /\ failures' = failures + 1
  /\ lost' = lost \cup ({cmd.req} \ {0})
  /\ cmd' = NoCmd
  /\ Uncaught(t)
  /\ UNCHANGED <<doProcess, posted, taken, replies>>

--------------------------------------------------------------------------------

\* Programs make their controllers while none is started.
Setup ==
  /\ Idle
  /\ ControllerNext
  /\ UNCHANGED <<commandVars, cwd, frames, hooks, disturbed>>

Next ==
  \/ Setup
  \/ Post
  \/ \E t \in Threads :
       \/ \E c \in Controllers : Start(t, c)
       \/ ChangeDir(t) \/ CannotChange(t) \/ Return(t)
       \/ CallBack(t) \/ CallbackReturns(t) \/ CallbackRaises(t)
       \/ ProcessCommands(t) \/ NothingToDo(t)
       \/ \E k \in Commands : Receive(t, k)
       \/ \E a \in {"loop", "leave", "raise"} : ReceiveFails(t, a)
       \/ Send(t) \/ SendFails(t)

\* Python code that can run does so; callbacks come to an end, and so do simulations that
\* are started by a callback; the main loop of the Commander calls its hook again and again.
PythonStep(t) ==
  \/ ChangeDir(t) \/ CannotChange(t) \/ NothingToDo(t)
  \/ \E k \in Commands : Receive(t, k)
  \/ Send(t) \/ SendFails(t)

Fairness ==
  \A t \in Threads :
    /\ WF_vars(PythonStep(t))
    /\ SF_vars(ProcessCommands(t))
    /\ \A d \in 1..Depth[t] : SF_vars(Len(frames[t]) = d /\ CallbackReturns(t))
    /\ \A d \in 2..Depth[t] : SF_vars(Len(frames[t]) = d /\ Return(t))

Spec == Init /\ [][Next]_vars /\ Fairness

--------------------------------------------------------------------------------
(* Properties *)

Dirs == (Controllers \cup {"home"}) \X SUBSET Nat
Frame == [ctl : Controllers, pc : Inside \cup {"enter"}, prev : Dirs]

\* The types of the variables.
TypeOK ==
  /\ object \in [Controllers -> Object \cup {NoObject}]
  /\ cwd \in Dirs
  /\ frames \in [Threads -> Seq(Frame)] /\ hooks \in [Threads -> Seq(Controllers)]
  /\ doProcess \in BOOLEAN
  /\ posted \in Nat /\ taken \in Nat /\ taken <= posted
  /\ cmd \in [req : Nat, after : {"loop", "leave", "raise"}]
  /\ replies \in Seq(Nat) /\ lost \subseteq Nat
  /\ failures \in Nat /\ disturbed \subseteq {"overlap", "jump"}

\* A simulator runs in the directory named after itself, and not after the original it was
\* copied from: native code and callbacks are in the directory of the innermost one.
\* However starts return, raise or nest, the process is back where it was when
\* nothing is started, even if an exception has jumped over a start.  Two exceptions:
\* starts of two threads that overlap may leave the process anywhere, and after a jump the
\* outer simulator goes on in the directory of the inner one.
OwnDir(c) == <<object[c].class, {object[c].id}>>

InRightDirectory ==
  "overlap" \notin disturbed =>
    /\ Idle => cwd = Home
    /\ disturbed = {} =>
         \A t \in Threads :
           frames[t] # <<>> /\ Top(t).pc \in Inside => cwd = OwnDir(Top(t).ctl)

\* An exception that leaves a callback goes to the innermost simulator of the same thread
\* that can be thrown into, and to none that has been left: the stack of hooks of a thread
\* agrees with its calls, also after returns by exceptions and jumps.
Routed(t) == {i \in 1..Len(frames[t]) : frames[t][i].pc \in Inside /\ CanThrow(frames[t][i].ctl)}

RoutedAt(t) ==
  \E at \in [1..Len(hooks[t]) -> Routed(t)] :
    /\ {at[i] : i \in 1..Len(hooks[t])} = Routed(t)
    /\ \A i \in 1..Len(hooks[t]) : hooks[t][i] = frames[t][at[i]].ctl
    /\ \A i, j \in 1..Len(hooks[t]) : i < j => at[i] < at[j]

RoutedToOwn == \A t \in Threads : RoutedAt(t)

\* Every command received is answered exactly once, in the order they came, unless its
\* reply could not be sent, whether it returns, raises or ends the loop.
AnsweredInOrder ==
  /\ \A i, j \in 1..Len(replies) : i < j /\ replies[i] # 0 /\ replies[j] # 0 => replies[i] < replies[j]
  /\ 1..taken = ({replies[i] : i \in 1..Len(replies)} \cup lost \cup {cmd.req}) \ {0}
  /\ \A i \in 1..Len(replies) : replies[i] # 0 => replies[i] \notin lost \cup {cmd.req}

\* The loop catches up with the commands sent, again and again, unless a command has ended
\* the processing for ever or the simulation itself has come to an end.
RequestsAnswered ==
  []<>(\/ \A n \in 1..posted : n \in lost \/ \E i \in 1..Len(replies) : replies[i] = n
       \/ ~doProcess
       \/ Commander \notin Running)

=============================================================================
