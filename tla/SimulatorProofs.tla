--------------------------- MODULE SimulatorProofs ---------------------------
(***************************************************************************)
(* Proofs about Controller.tla and Simulator.tla, for any controllers,     *)
(* threads, depth of nested starts and number of commands.                 *)
(*                                                                         *)
(* The invariant has three parts.  Stacks: how the calls of start lie upon *)
(* each other and which hooks belong to them, whatever jumps there were;   *)
(* Places: where the process is and where each call will go back to, as    *)
(* long as no two threads start at a time; Answers: what became of each    *)
(* command.  Places needs Stacks, as an exception is taken by a call that  *)
(* is there only if the hooks agree with the calls; Answers needs Stacks,  *)
(* as a command is overwritten unless only one call processes commands.    *)
(***************************************************************************)
EXTENDS Simulator, SequenceTheorems, TLAPS

-----------------------------------------------------------------------------
(* Controllers *)

ObjectsOK == object \in [Controllers -> Object \cup {NoObject}]

\* As soon as there is a controller that reports its libfde, Python knows of it.
ReportKept ==
  (\E c \in Controllers : object[c] # NoObject /\ object[c].class \in Reporting)
    => corePath = "native"

\* A controller is only about itself.
AboutOwn ==
  \A c \in Controllers : object[c] # NoObject => object[c].about = {object[c].id}

ControllersOK == ObjectsOK /\ ReportKept /\ AboutOwn

\* What is known of the places of objects while o is put into place c: those of others
\* are as before, but for the number of clones.
SameButClones(others) ==
  /\ others \in [Controllers -> Object \cup {NoObject}]
  /\ \A c \in Controllers :
       /\ others[c] = NoObject <=> object[c] = NoObject
       /\ object[c] # NoObject => /\ others[c].class = object[c].class
                                  /\ others[c].id = object[c].id
                                  /\ others[c].about = object[c].about

\* A controller that is initialized keeps the invariant, and SameLibrary as well.
LEMMA InitializedKeeps ==
  ASSUME ControllersOK, NEW c \in Controllers, NEW o \in Object, o.about = {},
         NEW others, SameButClones(others), Initialized(c, o, others)
  PROVE  /\ ControllersOK'
         /\ coreHdl = "unset" /\ coreHdl' # "unset"
              /\ (\E d \in Controllers : object'[d] # NoObject /\ object'[d].class \in Reporting)
            => coreHdl' = "native"
<1>1. /\ WithAbout(o) \in Object /\ WithAbout(o).about = {WithAbout(o).id}
      /\ WithAbout(o).class = o.class
  BY DEF WithAbout, Object
<1>2. \/ object' = [others EXCEPT ![c] = WithAbout(o)]
      \/ object' = others
  BY Zenon DEF Initialized
<1>3. \A d \in Controllers : \/ object'[d] = others[d]
                             \/ d = c /\ object'[d] = WithAbout(o)
  BY <1>2 DEF SameButClones
<1>4. ObjectsOK'
  BY <1>1, <1>2 DEF ObjectsOK, SameButClones
<1>5. AboutOwn'
  <2>1. SUFFICES ASSUME NEW d \in Controllers, object'[d] # NoObject
                 PROVE  object'[d].about = {object'[d].id}
    BY DEF AboutOwn
  <2>2. CASE object'[d] = WithAbout(o)
    BY <1>1, <2>2, Zenon
  <2>3. CASE object'[d] = others[d]
    <3>1. object[d] # NoObject /\ others[d].id = object[d].id /\ others[d].about = object[d].about
      BY <2>1, <2>3 DEF SameButClones
    <3>2. object[d].about = {object[d].id}
      BY <3>1 DEF ControllersOK, AboutOwn
    <3>3. QED
      BY <2>3, <3>1, <3>2, Zenon
  <2>4. QED
    BY <1>3, <2>2, <2>3
<1>6. corePath' = ReportedPath(o.class)
  BY DEF Initialized
<1>7. ASSUME NEW d \in Controllers, object'[d] # NoObject, object'[d].class \in Reporting
      PROVE  ReportedPath(o.class) = "native"
  <2>1. CASE o.class \in Reporting
    BY <2>1 DEF ReportedPath
  <2>2. CASE o.class \notin Reporting
    <3>1. object'[d] = others[d]
      BY <1>1, <1>3, <1>7, <2>2
    <3>2. object[d] # NoObject /\ object[d].class \in Reporting
      BY <1>7, <3>1 DEF SameButClones
    <3>3. corePath = "native"
      BY <3>2 DEF ControllersOK, ReportKept
    <3>4. QED
      BY <2>2, <3>3 DEF ReportedPath
  <2>3. QED
    BY <2>1, <2>2
<1>8. ReportKept'
  BY <1>6, <1>7 DEF ReportKept
<1>9. ASSUME coreHdl = "unset", coreHdl' # "unset", ReportedPath(o.class) = "native"
      PROVE  coreHdl' = "native"
  <2>1. \E r \in Searched(TRUE) : coreHdl' = Handle(PathForHooks(o.class), r)
    BY <1>9, Zenon DEF Initialized
  <2>2. QED
    BY <1>9, <2>1 DEF Handle, PathForHooks
<1>10. QED
  BY <1>4, <1>5, <1>7, <1>8, <1>9, Zenon DEF ControllersOK

\* A copy is a controller with an empty cache.
LEMMA CopyTyped ==
  ASSUME NEW p \in Object
  PROVE  Copied(p) \in Object /\ Copied(p).about = {}
<1> DEFINE q == [p EXCEPT !.id = p.clones + 1]
           r == [q EXCEPT !.about = {}]
<1>1. q \in Object
  BY DEF Object
<1>2. r \in Object /\ r.about = {}
  <2> HIDE DEF q
  <2>1. QED
    BY <1>1 DEF Object
<1>3. Copied(p) = [r EXCEPT !.clones = 0]
  BY DEF Copied
<1> HIDE DEF r
<1>4. QED
  BY <1>2, <1>3 DEF Object

\* So do all steps of controllers.
LEMMA ControllerKeeps ==
  ASSUME ControllersOK, ControllerNext
  PROVE  /\ ControllersOK'
         /\ coreHdl = "unset" /\ coreHdl' # "unset"
              /\ (\E d \in Controllers : object'[d] # NoObject /\ object'[d].class \in Reporting)
            => coreHdl' = "native"
<1>1. CASE ImportCore
  <2>1. UNCHANGED <<object, corePath>>
    BY <1>1 DEF ImportCore
  <2>2. ControllersOK'
    BY <2>1 DEF ControllersOK, ObjectsOK, ReportKept, AboutOwn
  <2>3. ASSUME coreHdl = "unset", corePath = "native"
        PROVE  coreHdl' = "native"
    <3>1. \E r \in Searched(nativeUp) : coreHdl' = Handle(corePath, r)
      BY <1>1, Zenon DEF ImportCore
    <3>2. QED
      BY <2>3, <3>1 DEF Handle
  <2>4. QED
    BY <2>1, <2>2, <2>3, Zenon DEF ControllersOK, ReportKept
<1>2. ASSUME NEW c \in Controllers, Create(c)
      PROVE  /\ ControllersOK'
             /\ coreHdl = "unset" /\ coreHdl' # "unset"
                  /\ (\E d \in Controllers : object'[d] # NoObject /\ object'[d].class \in Reporting)
                => coreHdl' = "native"
  <2> DEFINE o == [class |-> c, id |-> 0, about |-> {}, clones |-> 0]
  <2>1. o \in Object /\ o.about = {}
    BY DEF Object
  <2>2. SameButClones(object)
    BY DEF ControllersOK, ObjectsOK, SameButClones
  <2>3. Initialized(c, o, object)
    BY <1>2 DEF Create
  <2> HIDE DEF o
  <2>4. QED
    BY <2>1, <2>2, <2>3, InitializedKeeps
<1>3. ASSUME NEW c \in Controllers, NEW k \in Controllers, Copy(c, k)
      PROVE  /\ ControllersOK'
             /\ coreHdl = "unset" /\ coreHdl' # "unset"
                  /\ (\E d \in Controllers : object'[d] # NoObject /\ object'[d].class \in Reporting)
                => coreHdl' = "native"
  <2> DEFINE o == Copied(object[c])
             others == [object EXCEPT ![c].clones = @ + 1]
  <2>1. object[c] # NoObject /\ object[c] \in Object
    BY <1>3 DEF Copy, ControllersOK, ObjectsOK
  <2>2. o \in Object /\ o.about = {}
    BY <2>1, CopyTyped
  <2>3. SameButClones(others)
    <3>1. object \in [Controllers -> Object \cup {NoObject}]
      BY DEF ControllersOK, ObjectsOK
    <3>2. others = [object EXCEPT ![c] = [object[c] EXCEPT !.clones = object[c].clones + 1]]
      BY <3>1
    <3>3. /\ [object[c] EXCEPT !.clones = object[c].clones + 1] \in Object
          /\ [object[c] EXCEPT !.clones = object[c].clones + 1].class = object[c].class
          /\ [object[c] EXCEPT !.clones = object[c].clones + 1].id = object[c].id
          /\ [object[c] EXCEPT !.clones = object[c].clones + 1].about = object[c].about
      BY <2>1 DEF Object
    <3>4. [object[c] EXCEPT !.clones = object[c].clones + 1] # NoObject
      BY <3>3, ControllersAssumption
    <3>5. QED
      BY <2>1, <3>1, <3>2, <3>3, <3>4 DEF SameButClones
  <2>4. Initialized(k, o, others)
    BY <1>3, Zenon DEF Copy
  <2> HIDE DEF o, others
  <2>5. QED
    BY <2>2, <2>3, <2>4, InitializedKeeps
<1>4. QED
  BY <1>1, <1>2, <1>3, Zenon DEF ControllerNext

\* Only Setup is about controllers.
LEMMA ControllersUnchanged ==
  ASSUME [Next]_vars, ~Setup
  PROVE  UNCHANGED controllerVars
<1>1. ASSUME NEW t \in Threads, \/ \E c \in Controllers : Start(t, c)
                                \/ ChangeDir(t) \/ CannotChange(t) \/ Return(t)
                                \/ CallBack(t) \/ CallbackReturns(t) \/ CallbackRaises(t)
      PROVE  UNCHANGED controllerVars
  BY <1>1, Zenon DEF Start, ChangeDir, CannotChange, Return, CallBack, CallbackReturns, CallbackRaises,
                     Uncaught
<1>2. ASSUME NEW t \in Threads, \/ ProcessCommands(t) \/ NothingToDo(t)
                                \/ \E k \in Commands : Receive(t, k)
                                \/ \E a \in {"loop", "leave", "raise"} : ReceiveFails(t, a)
                                \/ SendFails(t)
      PROVE  UNCHANGED controllerVars
  BY <1>2, Zenon DEF ProcessCommands, NothingToDo, Receive, ReceiveFails, SendFails, Uncaught
<1>3. ASSUME NEW t \in Threads, Send(t)
      PROVE  UNCHANGED controllerVars
  BY <1>3, Zenon DEF Send, Uncaught
<1>4. QED
  BY <1>1, <1>2, <1>3, Zenon DEF Next, Post, vars

-----------------------------------------------------------------------------
(* Stacks of calls *)

\* Calls with another one on top are in a callback.
Below ==
  \A t \in Threads : \A i \in 1..Len(frames[t]) :
    i < Len(frames[t]) => frames[t][i].pc = "callback"

\* No simulator is started twice.
Distinct ==
  \A t, u \in Threads : \A i \in 1..Len(frames[t]), j \in 1..Len(frames[u]) :
    frames[t][i].ctl = frames[u][j].ctl => t = u /\ i = j

Present == \A t \in Threads : \A i \in 1..Len(frames[t]) : object[frames[t][i].ctl] # NoObject

LoopsOwned ==
  \A t \in Threads : \A i \in 1..Len(frames[t]) :
    frames[t][i].pc \in {"receive", "send"} => frames[t][i].ctl = Commander

Stacks == Below /\ Distinct /\ Present /\ LoopsOwned

FramesOK == frames \in [Threads -> Seq(Frame)]

\* Thread t has n calls now, those below the last one as before.
Changed(t, n) ==
  /\ FramesOK'
  /\ n \in Nat /\ Len(frames'[t]) = n
  /\ \A u \in Threads \ {t} : frames'[u] = frames[u]
  /\ \A i \in 1..(n - 1) : frames'[t][i] = frames[t][i]

\* Call n of thread t has gone on to pc.
GoneTo(t, n, pc) ==
  /\ frames'[t][n].ctl = frames[t][n].ctl /\ frames'[t][n].prev = frames[t][n].prev
  /\ frames'[t][n].pc = pc

LEMMA StackTyped ==
  ASSUME FramesOK, NEW t \in Threads
  PROVE  /\ frames[t] \in Seq(Frame) /\ Len(frames[t]) \in Nat
         /\ \A i \in 1..Len(frames[t]) : frames[t][i] \in Frame
         /\ frames[t] # <<>> => Len(frames[t]) >= 1
         /\ frames[t] = <<>> => Len(frames[t]) = 0
<1>1. frames[t] \in Seq(Frame)
  BY DEF FramesOK
<1>2. QED
  BY <1>1, LenProperties, ElementOfSeq, EmptySeq

LEMMA MovedEffect ==
  ASSUME FramesOK, NEW t \in Threads, frames[t] # <<>>, NEW pc \in Inside \cup {"enter"},
         frames' = Moved(t, pc)
  PROVE  /\ Changed(t, Len(frames[t])) /\ Len(frames[t]) >= 1
         /\ GoneTo(t, Len(frames[t]), pc)
<1> DEFINE n == Len(frames[t])
           f == [frames[t][n] EXCEPT !.pc = pc]
           s == [frames[t] EXCEPT ![n] = f]
<1>1. frames[t] \in Seq(Frame) /\ n \in Nat /\ n >= 1 /\ frames[t][n] \in Frame
  BY StackTyped
<1>2. /\ f \in Frame /\ f.ctl = frames[t][n].ctl /\ f.prev = frames[t][n].prev /\ f.pc = pc
  BY <1>1 DEF Frame
<1>3. frames' = [frames EXCEPT ![t] = s]
  BY DEF Moved
<1> HIDE DEF f
<1>4. s \in Seq(Frame) /\ Len(s) = n /\ s[n] = f /\ \A i \in 1..(n - 1) : s[i] = frames[t][i]
  <2>1. n \in 1..Len(frames[t])
    BY <1>1
  <2>2. /\ s \in Seq(Frame) /\ Len(s) = n
        /\ \A j \in 1..n : s[j] = IF j = n THEN f ELSE frames[t][j]
    BY <1>1, <1>2, <2>1, ExceptSeq
  <2>3. QED
    BY <1>1, <2>2
<1> HIDE DEF s
<1>5. /\ frames'[t] = s /\ \A u \in Threads \ {t} : frames'[u] = frames[u]
      /\ frames' \in [Threads -> Seq(Frame)]
  BY <1>3, <1>4 DEF FramesOK
<1>6. QED
  BY <1>1, <1>2, <1>4, <1>5 DEF Changed, GoneTo, FramesOK

LEMMA PoppedEffect ==
  ASSUME FramesOK, NEW t \in Threads, frames[t] # <<>>, frames' = Popped(t)
  PROVE  /\ Changed(t, Len(frames[t]) - 1) /\ Len(frames[t]) >= 1
         /\ \A i \in 1..(Len(frames[t]) - 1) : frames'[t][i] = frames[t][i]
<1> DEFINE n == Len(frames[t]) - 1
           s == SubSeq(frames[t], 1, n)
<1>1. /\ frames[t] \in Seq(Frame) /\ n \in Nat /\ Len(frames[t]) >= 1
      /\ \A i \in 1..n : frames[t][i] \in Frame
  BY StackTyped
<1>2. frames' = [frames EXCEPT ![t] = s]
  BY DEF Popped
<1>3. s \in Seq(Frame) /\ Len(s) = n /\ \A i \in 1..n : s[i] = frames[t][i]
  BY <1>1, SubSeqProperties
<1> HIDE DEF s
<1>4. /\ frames'[t] = s /\ \A u \in Threads \ {t} : frames'[u] = frames[u]
      /\ frames' \in [Threads -> Seq(Frame)]
  BY <1>2, <1>3 DEF FramesOK
<1>5. QED
  BY <1>1, <1>3, <1>4 DEF Changed, FramesOK

LEMMA PushedEffect ==
  ASSUME FramesOK, NEW t \in Threads, NEW f \in Frame,
         frames' = [frames EXCEPT ![t] = Append(@, f)]
  PROVE  Changed(t, Len(frames[t]) + 1) /\ frames'[t][Len(frames[t]) + 1] = f
<1>1. frames[t] \in Seq(Frame) /\ Len(frames[t]) \in Nat
  BY StackTyped
<1>2. frames' = [frames EXCEPT ![t] = Append(frames[t], f)]
  OBVIOUS
<1>3. /\ Append(frames[t], f) \in Seq(Frame) /\ Len(Append(frames[t], f)) = Len(frames[t]) + 1
      /\ \A i \in 1..Len(frames[t]) : Append(frames[t], f)[i] = frames[t][i]
      /\ Append(frames[t], f)[Len(frames[t]) + 1] = f
  BY <1>1, AppendProperties
<1>4. /\ frames'[t] = Append(frames[t], f) /\ \A u \in Threads \ {t} : frames'[u] = frames[u]
      /\ frames' \in [Threads -> Seq(Frame)]
  BY <1>2, <1>3 DEF FramesOK
<1>5. QED
  BY <1>1, <1>3, <1>4 DEF Changed, FramesOK

LEMMA JumpEffect ==
  ASSUME FramesOK, NEW t \in Threads, NEW n \in 1..Len(frames[t]),
         frames' = [frames EXCEPT ![t] = Append(SubSeq(@, 1, n - 1), [@[n] EXCEPT !.pc = "native"])]
  PROVE  Changed(t, n) /\ GoneTo(t, n, "native")
<1> DEFINE f == [frames[t][n] EXCEPT !.pc = "native"]
           s == SubSeq(frames[t], 1, n - 1)
<1>1. /\ frames[t] \in Seq(Frame) /\ Len(frames[t]) \in Nat /\ frames[t][n] \in Frame
      /\ n \in Nat /\ n >= 1 /\ \A i \in 1..(n - 1) : frames[t][i] \in Frame
  BY StackTyped
<1>2. /\ f \in Frame /\ f.ctl = frames[t][n].ctl /\ f.prev = frames[t][n].prev /\ f.pc = "native"
  BY <1>1 DEF Frame, Inside
<1>3. frames' = [frames EXCEPT ![t] = Append(s, f)]
  OBVIOUS
<1>4. s \in Seq(Frame) /\ Len(s) = n - 1 /\ \A i \in 1..(n - 1) : s[i] = frames[t][i]
  BY <1>1, SubSeqProperties
<1> HIDE DEF f, s
<1>5. /\ Append(s, f) \in Seq(Frame) /\ Len(Append(s, f)) = n /\ Append(s, f)[n] = f
      /\ \A i \in 1..(n - 1) : Append(s, f)[i] = s[i]
  <2>1. /\ Append(s, f) \in Seq(Frame) /\ Len(Append(s, f)) = Len(s) + 1
        /\ \A i \in 1..Len(s) : Append(s, f)[i] = s[i]
        /\ Append(s, f)[Len(s) + 1] = f
    BY <1>2, <1>4, AppendProperties
  <2>2. Len(s) + 1 = n
    BY <1>1, <1>4
  <2>3. QED
    BY <1>4, <2>1, <2>2
<1>6. /\ frames'[t] = Append(s, f) /\ \A u \in Threads \ {t} : frames'[u] = frames[u]
      /\ frames' \in [Threads -> Seq(Frame)]
  BY <1>3, <1>5 DEF FramesOK
<1>7. QED
  BY <1>1, <1>2, <1>4, <1>5, <1>6 DEF Changed, GoneTo, FramesOK

\* Calls that end, in whatever number, and one that goes on, keep the order of stacks.
LEMMA StacksShrunk ==
  ASSUME FramesOK, Stacks, UNCHANGED object, NEW t \in Threads, NEW n \in Nat, Changed(t, n),
         n <= Len(frames[t]),
         n >= 1 => /\ frames'[t][n].ctl = frames[t][n].ctl
                   /\ frames'[t][n].pc \in {"receive", "send"} => frames'[t][n].ctl = Commander
  PROVE  Stacks'
<1> DEFINE m(u) == Len(frames[u])
<1>1. \A u \in Threads : m(u) \in Nat
  BY StackTyped
<1>2. \A u \in Threads \ {t} : frames'[u] = frames[u]
  BY DEF Changed
<1>3. Len(frames'[t]) = n /\ \A i \in 1..(n - 1) : frames'[t][i] = frames[t][i]
  BY DEF Changed
<1>4. \A u \in Threads : \A i \in 1..Len(frames'[u]) :
        i \in 1..m(u) /\ frames'[u][i].ctl = frames[u][i].ctl
  <2>1. SUFFICES ASSUME NEW u \in Threads, NEW i \in 1..Len(frames'[u])
                 PROVE  i \in 1..m(u) /\ frames'[u][i].ctl = frames[u][i].ctl
    OBVIOUS
  <2>2. CASE u # t
    BY <1>2, <2>2
  <2>3. CASE u = t
    BY <1>1, <1>3, <2>3
  <2>4. QED
    BY <2>2, <2>3
<1>5. Below'
  <2>1. SUFFICES ASSUME NEW u \in Threads, NEW i \in 1..Len(frames'[u]), i < Len(frames'[u])
                 PROVE  frames'[u][i].pc = "callback"
    BY DEF Below
  <2>2. CASE u # t
    BY <1>2, <2>1, <2>2 DEF Stacks, Below
  <2>3. CASE u = t
    <3>1. i \in 1..(n - 1) /\ i \in 1..m(t) /\ i < m(t)
      BY <1>1, <1>3, <2>1, <2>3
    <3>2. QED
      BY <1>3, <2>3, <3>1 DEF Stacks, Below
  <2>4. QED
    BY <2>2, <2>3
<1>6. Distinct'
  <2>1. SUFFICES ASSUME NEW u \in Threads, NEW v \in Threads, NEW i \in 1..Len(frames'[u]),
                        NEW j \in 1..Len(frames'[v]), frames'[u][i].ctl = frames'[v][j].ctl
                 PROVE  u = v /\ i = j
    BY DEF Distinct
  <2>2. i \in 1..m(u) /\ j \in 1..m(v) /\ frames[u][i].ctl = frames[v][j].ctl
    BY <1>4, <2>1
  <2>3. QED
    BY <2>2 DEF Stacks, Distinct
<1>7. Present'
  BY <1>4 DEF Stacks, Present
<1>8. LoopsOwned'
  <2>1. SUFFICES ASSUME NEW u \in Threads, NEW i \in 1..Len(frames'[u]),
                        frames'[u][i].pc \in {"receive", "send"}
                 PROVE  frames'[u][i].ctl = Commander
    BY DEF LoopsOwned
  <2>2. CASE u # t
    BY <1>2, <2>1, <2>2 DEF Stacks, LoopsOwned
  <2>3. CASE u = t /\ i \in 1..(n - 1)
    BY <1>3, <1>4, <2>1, <2>3 DEF Stacks, LoopsOwned
  <2>4. CASE u = t /\ i = n
    BY <1>3, <2>1, <2>4
  <2>5. QED
    BY <1>3, <2>2, <2>3, <2>4
<1>9. QED
  BY <1>5, <1>6, <1>7, <1>8 DEF Stacks

\* The same for a call that is made.
LEMMA StacksGrown ==
  ASSUME FramesOK, cwd \in Dirs, Stacks, NEW t \in Threads, NEW c \in Controllers, Start(t, c)
  PROVE  /\ Stacks' /\ Changed(t, Len(frames[t]) + 1)
         /\ frames'[t][Len(frames[t]) + 1] = [ctl |-> c, pc |-> "enter", prev |-> cwd]
<1> DEFINE n == Len(frames[t])
           f == [ctl |-> c, pc |-> "enter", prev |-> cwd]
<1>1. f \in Frame
  BY DEF Frame
<1>2. /\ frames' = [frames EXCEPT ![t] = Append(@, f)] /\ UNCHANGED object
      /\ object[c] # NoObject /\ c \notin Running
      /\ frames[t] # <<>> => In(t, "callback")
  BY Zenon DEF Start, controllerVars
<1>3. Changed(t, n + 1) /\ frames'[t][n + 1] = f
  BY <1>1, <1>2, PushedEffect
<1>4. /\ n \in Nat /\ Len(frames'[t]) = n + 1 /\ frames'[t][n + 1].ctl = c
      /\ frames'[t][n + 1].pc = "enter"
      /\ \A i \in 1..n : frames'[t][i] = frames[t][i]
      /\ \A u \in Threads \ {t} : frames'[u] = frames[u]
  BY <1>3, StackTyped DEF Changed
<1>5. \A u \in Threads : \A i \in 1..Len(frames[u]) : frames[u][i].ctl # c
  BY <1>2 DEF Running, Calls
<1>6. \A u \in Threads : \A i \in 1..Len(frames'[u]) :
        \/ i \in 1..Len(frames[u]) /\ frames'[u][i] = frames[u][i]
        \/ u = t /\ i = n + 1
  BY <1>4
<1>7. Below'
  <2>1. SUFFICES ASSUME NEW u \in Threads, NEW i \in 1..Len(frames'[u]), i < Len(frames'[u])
                 PROVE  frames'[u][i].pc = "callback"
    BY DEF Below
  <2>2. CASE u # t
    BY <1>4, <2>1, <2>2 DEF Stacks, Below
  <2>3. CASE u = t /\ i < n
    BY <1>4, <2>1, <2>3 DEF Stacks, Below
  <2>4. CASE u = t /\ i = n
    <3>1. n >= 1 /\ frames'[t][n] = frames[t][n]
      BY <1>4, <2>4
    <3>2. frames[t] # <<>>
      BY <3>1, StackTyped
    <3>3. QED
      BY <1>2, <2>4, <3>1, <3>2 DEF In, Top
  <2>5. QED
    BY <1>4, <2>1, <2>2, <2>3, <2>4
<1>8. Distinct'
  <2>1. SUFFICES ASSUME NEW u \in Threads, NEW v \in Threads, NEW i \in 1..Len(frames'[u]),
                        NEW j \in 1..Len(frames'[v]), frames'[u][i].ctl = frames'[v][j].ctl
                 PROVE  u = v /\ i = j
    BY DEF Distinct
  <2>2. CASE i \in 1..Len(frames[u]) /\ frames'[u][i] = frames[u][i]
    <3>1. frames'[v][j].ctl # c
      BY <1>5, <2>1, <2>2
    <3>2. j \in 1..Len(frames[v]) /\ frames'[v][j] = frames[v][j]
      BY <1>4, <1>6, <3>1
    <3>3. QED
      BY <2>1, <2>2, <3>2 DEF Stacks, Distinct
  <2>3. CASE u = t /\ i = n + 1
    <3>1. frames'[v][j].ctl = c
      BY <1>4, <2>1, <2>3
    <3>2. v = t /\ j = n + 1
      BY <1>5, <1>6, <3>1
    <3>3. QED
      BY <2>3, <3>2
  <2>4. QED
    BY <1>6, <2>2, <2>3
<1>9. Present'
  BY <1>2, <1>4, <1>6 DEF Stacks, Present
<1>10. LoopsOwned'
  BY <1>4, <1>6 DEF Stacks, LoopsOwned
<1>11. QED
  BY <1>3, <1>7, <1>8, <1>9, <1>10 DEF Stacks

-----------------------------------------------------------------------------
(* Hooks *)

HooksOK == hooks \in [Threads -> Seq(Controllers)]

\* The hooks of a thread stay right if the calls do that they belong to.
LEMMA HooksKept ==
  ASSUME NEW t \in Threads, RoutedAt(t), hooks'[t] = hooks[t], Routed(t)' = Routed(t),
         \A i \in Routed(t) : frames'[t][i].ctl = frames[t][i].ctl
  PROVE  RoutedAt(t)'
<1>1. PICK at \in [1..Len(hooks[t]) -> Routed(t)] :
         /\ {at[i] : i \in 1..Len(hooks[t])} = Routed(t)
         /\ \A i \in 1..Len(hooks[t]) : hooks[t][i] = frames[t][at[i]].ctl
         /\ \A i, j \in 1..Len(hooks[t]) : i < j => at[i] < at[j]
  BY DEF RoutedAt
<1>2. at \in [1..Len(hooks'[t]) -> Routed(t)']
  BY <1>1
<1>3. /\ {at[i] : i \in 1..Len(hooks'[t])} = Routed(t)'
      /\ \A i, j \in 1..Len(hooks'[t]) : i < j => at[i] < at[j]
  BY <1>1
<1>4. \A i \in 1..Len(hooks'[t]) : hooks'[t][i] = frames'[t][at[i]].ctl
  BY <1>1
<1> HIDE DEF Routed
<1>5. QED
  BY <1>2, <1>3, <1>4, Zenon DEF RoutedAt

\* A hook is pushed for a call above all that have one.
LEMMA HooksPushed ==
  ASSUME HooksOK, NEW t \in Threads, RoutedAt(t), NEW c \in Controllers, NEW n \in Nat,
         hooks'[t] = Append(hooks[t], c), Routed(t)' = Routed(t) \cup {n},
         \A i \in Routed(t) : i < n /\ frames'[t][i].ctl = frames[t][i].ctl,
         frames'[t][n].ctl = c
  PROVE  RoutedAt(t)'
<1> DEFINE m == Len(hooks[t])
<1>1. PICK at \in [1..m -> Routed(t)] :
         /\ {at[i] : i \in 1..m} = Routed(t)
         /\ \A i \in 1..m : hooks[t][i] = frames[t][at[i]].ctl
         /\ \A i, j \in 1..m : i < j => at[i] < at[j]
  BY DEF RoutedAt
<1>2. /\ m \in Nat /\ Len(hooks'[t]) = m + 1 /\ hooks'[t][m + 1] = c
      /\ \A i \in 1..m : hooks'[t][i] = hooks[t][i]
  <2>1. hooks[t] \in Seq(Controllers)
    BY DEF HooksOK
  <2>2. QED
    BY <2>1, LenProperties, AppendProperties
<1> DEFINE b == [i \in 1..(m + 1) |-> IF i = m + 1 THEN n ELSE at[i]]
<1>3. b \in [1..(m + 1) -> Routed(t)']
  BY <1>1, <1>2
<1>4. b[m + 1] = n /\ \A i \in 1..m : b[i] = at[i]
  BY <1>2
<1> HIDE DEF b
<1>5. {b[i] : i \in 1..(m + 1)} = Routed(t)'
  <2>1. ASSUME NEW i \in 1..(m + 1)
        PROVE  b[i] \in Routed(t)'
    BY <1>3
  <2>2. ASSUME NEW x \in Routed(t)'
        PROVE  \E i \in 1..(m + 1) : b[i] = x
    <3>1. CASE x \in Routed(t)
      <4>1. PICK i \in 1..m : at[i] = x
        BY <1>1, <3>1
      <4>2. QED
        BY <1>2, <1>4, <4>1
    <3>2. CASE x = n
      BY <1>2, <1>4, <3>2
    <3>3. QED
      BY <3>1, <3>2
  <2>3. QED
    BY <2>1, <2>2
<1>6. \A i \in 1..(m + 1) : hooks'[t][i] = frames'[t][b[i]].ctl
  BY <1>1, <1>2, <1>4
<1>7. \A i, j \in 1..(m + 1) : i < j => b[i] < b[j]
  <2>1. SUFFICES ASSUME NEW i \in 1..(m + 1), NEW j \in 1..(m + 1), i < j
                 PROVE  b[i] < b[j]
    OBVIOUS
  <2>2. i \in 1..m /\ b[i] = at[i] /\ at[i] \in Routed(t)
    BY <1>1, <1>2, <1>4, <2>1
  <2>3. CASE j = m + 1
    BY <1>4, <2>2, <2>3
  <2>4. CASE j \in 1..m
    BY <1>1, <1>4, <2>1, <2>2, <2>4
  <2>5. QED
    BY <1>2, <2>3, <2>4
<1>8. 1..Len(hooks'[t]) = 1..(m + 1)
  BY <1>2
<1> HIDE DEF m
<1>9. QED
  BY <1>3, <1>5, <1>6, <1>7, <1>8, Zenon DEF RoutedAt

\* The last hook is popped with the last call that has one.
LEMMA HooksPopped ==
  ASSUME HooksOK, NEW t \in Threads, RoutedAt(t), NEW n \in Routed(t),
         hooks'[t] = SubSeq(hooks[t], 1, Len(hooks[t]) - 1), Routed(t)' = Routed(t) \ {n},
         \A i \in Routed(t) : i \in Nat /\ i <= n,
         \A i \in Routed(t) \ {n} : frames'[t][i].ctl = frames[t][i].ctl
  PROVE  RoutedAt(t)'
<1> DEFINE m == Len(hooks[t])
<1>1. PICK at \in [1..m -> Routed(t)] :
         /\ {at[i] : i \in 1..m} = Routed(t)
         /\ \A i \in 1..m : hooks[t][i] = frames[t][at[i]].ctl
         /\ \A i, j \in 1..m : i < j => at[i] < at[j]
  BY DEF RoutedAt
<1>2. hooks[t] \in Seq(Controllers) /\ m \in Nat /\ \A i \in 1..m : hooks[t][i] \in Controllers
  BY LenProperties, ElementOfSeq DEF HooksOK
<1>3. PICK l \in 1..m : at[l] = n
  BY <1>1
<1>4. m >= 1 /\ at[m] = n
  <2>1. m \in 1..m /\ at[m] \in Routed(t) /\ at[m] \in Nat /\ at[m] <= n /\ n \in Nat
    BY <1>1, <1>2, <1>3
  <2>2. ~(l < m)
    BY <1>1, <1>3, <2>1, SMTT(30)
  <2>3. QED
    BY <1>2, <1>3, <2>2
<1>5. Len(hooks'[t]) = m - 1 /\ \A i \in 1..(m - 1) : hooks'[t][i] = hooks[t][i]
  <2>1. \A i \in 1..(m - 1) : hooks[t][i] \in Controllers
    BY <1>2
  <2>2. QED
    BY <1>2, <1>4, <2>1, SubSeqProperties
<1>6. \A i \in 1..(m - 1) : i \in 1..m /\ at[i] \in Routed(t) \ {n}
  <2>1. SUFFICES ASSUME NEW i \in 1..(m - 1)
                 PROVE  i \in 1..m /\ at[i] \in Routed(t) \ {n}
    OBVIOUS
  <2>2. i \in 1..m /\ m \in 1..m /\ i < m
    BY <1>2, <1>4
  <2>3. at[i] < at[m] /\ at[i] \in Routed(t) /\ at[i] \in Nat /\ n \in Nat
    BY <1>1, <1>3, <2>2
  <2>4. QED
    BY <1>4, <2>2, <2>3
<1> DEFINE b == [i \in 1..(m - 1) |-> at[i]]
<1>7. b \in [1..(m - 1) -> Routed(t)'] /\ \A i \in 1..(m - 1) : b[i] = at[i]
  BY <1>6
<1> HIDE DEF b
<1>8. {b[i] : i \in 1..(m - 1)} = Routed(t)'
  <2>1. ASSUME NEW i \in 1..(m - 1)
        PROVE  b[i] \in Routed(t)'
    BY <1>7
  <2>2. ASSUME NEW x \in Routed(t)'
        PROVE  \E i \in 1..(m - 1) : b[i] = x
    <3>1. PICK i \in 1..m : at[i] = x
      BY <1>1
    <3>2. i # m
      BY <1>4, <3>1
    <3>3. i \in 1..(m - 1)
      BY <1>2, <3>2
    <3>4. QED
      BY <1>7, <3>1, <3>3
  <2>3. QED
    BY <2>1, <2>2
<1>9. \A i \in 1..(m - 1) : hooks'[t][i] = frames'[t][b[i]].ctl
  BY <1>1, <1>5, <1>6, <1>7, ZenonT(30)
<1>10. \A i, j \in 1..(m - 1) : i < j => b[i] < b[j]
  BY <1>1, <1>6, <1>7
<1>11. 1..Len(hooks'[t]) = 1..(m - 1)
  BY <1>5
<1> HIDE DEF m
<1>12. QED
  BY <1>7, <1>8, <1>9, <1>10, <1>11, Zenon DEF RoutedAt

\* The call that takes an exception is there, and no call above it has a hook.
LEMMA TakerThere ==
  ASSUME FramesOK, HooksOK, Stacks, NEW t \in Threads, RoutedAt(t), frames[t] # <<>>
  PROVE  Taker(t) \in 1..Len(frames[t]) /\ \A i \in Routed(t) : i <= Taker(t)
<1> DEFINE n == Len(frames[t])
           m == Len(hooks[t])
<1>1. n \in Nat /\ n >= 1
  BY StackTyped
<1>2. m \in Nat /\ (m = 0 <=> hooks[t] = <<>>)
  <2>1. hooks[t] \in Seq(Controllers)
    BY DEF HooksOK
  <2>2. QED
    BY <2>1, LenProperties, EmptySeq
<1>3. PICK at \in [1..m -> Routed(t)] :
         /\ {at[i] : i \in 1..m} = Routed(t)
         /\ \A i \in 1..m : hooks[t][i] = frames[t][at[i]].ctl
         /\ \A i, j \in 1..m : i < j => at[i] < at[j]
  BY DEF RoutedAt
<1>4. Routed(t) \subseteq 1..n
  BY DEF Routed
<1>5. Taker(t) = CHOOSE i \in Takers(t) : \A j \in Takers(t) : j <= i
  BY DEF Taker
<1>6. CASE m = 0
  <2>1. Takers(t) = 1..n /\ Routed(t) = {}
    BY <1>2, <1>3, <1>6 DEF Takers
  <2>2. n \in Takers(t) /\ \A j \in Takers(t) : j <= n
    BY <1>1, <2>1
  <2>3. Taker(t) \in Takers(t)
    BY <1>5, <2>2, Zenon
  <2>4. QED
    BY <2>1, <2>3
<1>7. CASE m # 0
  <2>1. m \in 1..m /\ at[m] \in 1..n /\ hooks[t][m] = frames[t][at[m]].ctl
    BY <1>2, <1>3, <1>4, <1>7
  <2>2. \A i \in 1..n : i \in Takers(t) <=> frames[t][i].ctl = frames[t][at[m]].ctl
    BY <1>2, <1>7, <2>1 DEF Takers
  <2>3. Takers(t) = {at[m]}
    <3>1. Takers(t) \subseteq 1..n
      BY DEF Takers
    <3>2. \A i \in 1..n : frames[t][i].ctl = frames[t][at[m]].ctl => i = at[m]
      BY <2>1 DEF Stacks, Distinct
    <3>3. QED
      BY <2>1, <2>2, <3>1, <3>2
  <2>4. at[m] <= at[m]
    BY <2>1
  <2>5. Taker(t) = at[m]
    BY <1>5, <2>3, <2>4
  <2>6. \A i \in Routed(t) : i <= at[m]
    <3>1. SUFFICES ASSUME NEW i \in 1..m
                   PROVE  at[i] <= at[m]
      BY <1>3
    <3>2. CASE i = m
      BY <2>1, <3>2
    <3>3. CASE i < m
      <4>1. at[i] < at[m] /\ at[i] \in 1..n
        BY <1>3, <1>4, <2>1, <3>3
      <4>2. QED
        BY <2>1, <4>1
    <3>4. QED
      BY <1>2, <3>2, <3>3
  <2>7. QED
    BY <2>1, <2>5, <2>6
<1>8. QED
  BY <1>6, <1>7

-----------------------------------------------------------------------------
(* Steps of calls *)

CallsOK == FramesOK /\ HooksOK /\ Stacks /\ RoutedToOwn

\* The hooks of other threads are right if they and the calls stay.
LEMMA OthersRouted ==
  ASSUME RoutedToOwn, UNCHANGED object, NEW t \in Threads, RoutedAt(t)',
         \A u \in Threads \ {t} : frames'[u] = frames[u] /\ hooks'[u] = hooks[u]
  PROVE  RoutedToOwn'
<1>1. SUFFICES ASSUME NEW u \in Threads \ {t}
               PROVE  RoutedAt(u)'
  BY Zenon DEF RoutedToOwn
<1>2. frames'[u] = frames[u] /\ hooks'[u] = hooks[u] /\ RoutedAt(u)
  BY DEF RoutedToOwn
<1>3. Routed(u)' = Routed(u)
  BY <1>2, Zenon DEF Routed, CanThrow
<1>4. QED
  BY <1>2, <1>3, HooksKept

\* A call goes on, back from a callback or on to one.
LEMMA GoesOn ==
  ASSUME CallsOK, NEW t \in Threads, frames[t] # <<>>, Top(t).pc \in Inside, NEW pc \in Inside,
         pc \in {"receive", "send"} => Top(t).ctl = Commander,
         frames' = Moved(t, pc), UNCHANGED <<object, hooks>>
  PROVE  CallsOK' /\ Changed(t, Len(frames[t])) /\ GoneTo(t, Len(frames[t]), pc)
<1> DEFINE n == Len(frames[t])
<1>1. Changed(t, n) /\ n >= 1 /\ GoneTo(t, n, pc)
  BY MovedEffect DEF CallsOK
<1>2. n \in Nat
  BY <1>1 DEF Changed
<1>3. Stacks'
  BY <1>1, <1>2, StacksShrunk DEF CallsOK, GoneTo, Top
<1>4. /\ Len(frames'[t]) = n /\ frames'[t][n].ctl = frames[t][n].ctl
      /\ frames'[t][n].pc \in Inside /\ frames[t][n].pc \in Inside
      /\ \A i \in 1..(n - 1) : frames'[t][i] = frames[t][i]
      /\ \A u \in Threads \ {t} : frames'[u] = frames[u] /\ hooks'[u] = hooks[u]
  BY <1>1 DEF Changed, GoneTo, Top
<1>5. \A i \in 1..n : /\ frames'[t][i].ctl = frames[t][i].ctl
                      /\ frames'[t][i].pc \in Inside <=> frames[t][i].pc \in Inside
  BY <1>2, <1>4
<1>6. Routed(t)' = Routed(t)
  BY <1>4, <1>5 DEF Routed, CanThrow
<1>7. RoutedAt(t)'
  <2>1. \A i \in Routed(t) : frames'[t][i].ctl = frames[t][i].ctl
    BY <1>5 DEF Routed
  <2>2. QED
    BY <1>6, <2>1, HooksKept DEF CallsOK, RoutedToOwn
<1>8. RoutedToOwn'
  BY <1>4, <1>7, OthersRouted DEF CallsOK
<1>9. QED
  BY <1>1, <1>3, <1>8 DEF CallsOK, HooksOK, Changed

\* A simulator is started.
LEMMA StartKeeps ==
  ASSUME CallsOK, cwd \in Dirs, NEW t \in Threads, NEW c \in Controllers, Start(t, c)
  PROVE  /\ CallsOK' /\ Changed(t, Len(frames[t]) + 1)
         /\ frames'[t][Len(frames[t]) + 1] = [ctl |-> c, pc |-> "enter", prev |-> cwd]
<1> DEFINE n == Len(frames[t])
<1>1. /\ Stacks' /\ Changed(t, n + 1)
      /\ frames'[t][n + 1] = [ctl |-> c, pc |-> "enter", prev |-> cwd]
  BY StacksGrown DEF CallsOK
<1>2. UNCHANGED <<object, hooks>>
  BY Zenon DEF Start, controllerVars
<1>3. /\ n \in Nat /\ Len(frames'[t]) = n + 1 /\ frames'[t][n + 1].pc = "enter"
      /\ \A i \in 1..n : frames'[t][i] = frames[t][i]
      /\ \A u \in Threads \ {t} : frames'[u] = frames[u] /\ hooks'[u] = hooks[u]
  BY <1>1, <1>2, StackTyped DEF Changed, CallsOK
<1>4. Routed(t)' = Routed(t)
  <2>1. ASSUME NEW i \in Routed(t)
        PROVE  i \in Routed(t)'
    BY <1>2, <1>3 DEF Routed, CanThrow
  <2>2. ASSUME NEW i \in Routed(t)'
        PROVE  i \in Routed(t)
    <3>1. i \in 1..(n + 1) /\ frames'[t][i].pc \in Inside /\ CanThrow(frames[t][i].ctl)'
      BY <1>3 DEF Routed
    <3>2. i # n + 1
      BY <1>3, <3>1 DEF Inside
    <3>3. i \in 1..n
      BY <1>3, <3>1, <3>2
    <3>4. QED
      BY <1>2, <1>3, <3>1, <3>3 DEF Routed, CanThrow
  <2>3. QED
    BY <2>1, <2>2
<1>5. RoutedAt(t)'
  <2>1. \A i \in Routed(t) : frames'[t][i].ctl = frames[t][i].ctl
    BY <1>3 DEF Routed
  <2>2. QED
    BY <1>2, <1>4, <2>1, HooksKept DEF CallsOK, RoutedToOwn
<1>6. RoutedToOwn'
  BY <1>2, <1>3, <1>5, OthersRouted DEF CallsOK
<1>7. QED
  BY <1>1, <1>2, <1>6 DEF CallsOK, HooksOK, Changed

\* It is entered: its hook is pushed, if it can be thrown into.
LEMMA ChangeDirKeeps ==
  ASSUME CallsOK, NEW t \in Threads, ChangeDir(t)
  PROVE  CallsOK' /\ Changed(t, Len(frames[t])) /\ GoneTo(t, Len(frames[t]), "native")
<1> DEFINE n == Len(frames[t])
           c == frames[t][n].ctl
<1>1. /\ frames[t] # <<>> /\ frames[t][n].pc = "enter" /\ frames' = Moved(t, "native")
      /\ UNCHANGED object
      /\ hooks' = IF CanThrow(c) THEN [hooks EXCEPT ![t] = Append(@, c)] ELSE hooks
  BY Zenon DEF ChangeDir, In, Top, HooksEntered, controllerVars
<1>2. Changed(t, n) /\ n >= 1 /\ GoneTo(t, n, "native")
  BY <1>1, MovedEffect DEF CallsOK, Inside
<1>3. n \in Nat /\ frames[t][n] \in Frame /\ c \in Controllers
  BY <1>2, StackTyped DEF CallsOK, Frame
<1>4. Stacks'
  BY <1>1, <1>2, <1>3, StacksShrunk DEF CallsOK, GoneTo
<1>5. HooksOK' /\ \A u \in Threads \ {t} : hooks'[u] = hooks[u]
  <2>1. hooks[t] \in Seq(Controllers) /\ hooks \in [Threads -> Seq(Controllers)]
    BY DEF CallsOK, HooksOK
  <2>2. Append(hooks[t], c) \in Seq(Controllers)
    BY <1>3, <2>1, AppendProperties
  <2>3. QED
    BY <1>1, <2>1, <2>2 DEF HooksOK
<1>6. /\ Len(frames'[t]) = n /\ frames'[t][n].ctl = c /\ frames'[t][n].pc \in Inside
      /\ frames[t][n].pc \notin Inside
      /\ \A i \in 1..(n - 1) : frames'[t][i] = frames[t][i]
      /\ \A u \in Threads \ {t} : frames'[u] = frames[u] /\ hooks'[u] = hooks[u]
  BY <1>1, <1>2, <1>5 DEF Changed, GoneTo, Inside
<1>7. Routed(t)' = Routed(t) \cup {i \in {n} : CanThrow(c)}
  <2>1. ASSUME NEW i \in 1..(n - 1)
        PROVE  i \in Routed(t)' <=> i \in Routed(t)
    <3>1. i \in 1..n /\ frames'[t][i] = frames[t][i]
      BY <1>3, <1>6, <2>1
    <3>2. QED
      BY <1>1, <1>6, <3>1 DEF Routed, CanThrow
  <2>2. n \notin Routed(t) /\ (n \in Routed(t)' <=> CanThrow(c))
    BY <1>1, <1>2, <1>3, <1>6 DEF Routed, CanThrow
  <2>3. Routed(t) \subseteq 1..n /\ Routed(t)' \subseteq 1..n
    BY <1>6 DEF Routed
  <2>4. QED
    BY <1>3, <2>1, <2>2, <2>3
<1>8. \A i \in Routed(t) : i < n /\ frames'[t][i].ctl = frames[t][i].ctl
  <2>1. SUFFICES ASSUME NEW i \in Routed(t)
                 PROVE  i < n /\ frames'[t][i].ctl = frames[t][i].ctl
    OBVIOUS
  <2>2. i \in 1..n /\ i # n
    BY <1>6 DEF Routed
  <2>3. i \in 1..(n - 1)
    BY <1>3, <2>2
  <2>4. QED
    BY <1>3, <1>6, <2>3
<1>9. RoutedAt(t)'
  <2>1. CASE CanThrow(c)
    <3>1. hooks'[t] = Append(hooks[t], c) /\ Routed(t)' = Routed(t) \cup {n}
      BY <1>1, <1>7, <2>1 DEF CallsOK, HooksOK
    <3>2. QED
      BY <1>3, <1>6, <1>8, <3>1, HooksPushed DEF CallsOK, RoutedToOwn
  <2>2. CASE ~CanThrow(c)
    <3>1. hooks'[t] = hooks[t] /\ Routed(t)' = Routed(t)
      BY <1>1, <1>7, <2>2
    <3>2. QED
      BY <1>8, <3>1, HooksKept DEF CallsOK, RoutedToOwn
  <2>3. QED
    BY <2>1, <2>2
<1>10. RoutedToOwn'
  BY <1>1, <1>6, <1>9, OthersRouted DEF CallsOK
<1>11. QED
  BY <1>2, <1>4, <1>5, <1>10 DEF CallsOK, Changed

\* The call on top ends; below it nothing changes.
LEMMA TopPopped ==
  ASSUME CallsOK, NEW t \in Threads, frames[t] # <<>>, frames' = Popped(t), UNCHANGED object
  PROVE  /\ Changed(t, Len(frames[t]) - 1) /\ Stacks'
         /\ Len(frames[t]) \in Nat /\ Len(frames[t]) >= 1
         /\ \A i \in 1..(Len(frames[t]) - 1) : frames'[t][i] = frames[t][i]
         /\ Routed(t)' = Routed(t) \ {Len(frames[t])}
<1> DEFINE n == Len(frames[t])
<1>1. /\ Changed(t, n - 1) /\ n >= 1 /\ n \in Nat
      /\ \A i \in 1..(n - 1) : frames'[t][i] = frames[t][i]
  BY PoppedEffect, StackTyped DEF CallsOK
<1>2. Len(frames'[t]) = n - 1 /\ n - 1 \in Nat /\ n - 1 <= n
  BY <1>1 DEF Changed
<1>3. n - 1 >= 1 => /\ frames'[t][n - 1].ctl = frames[t][n - 1].ctl
                    /\ frames'[t][n - 1].pc \in {"receive", "send"} => frames'[t][n - 1].ctl = Commander
  <2>1. SUFFICES ASSUME n - 1 >= 1
                 PROVE  /\ frames'[t][n - 1] = frames[t][n - 1]
                        /\ frames[t][n - 1].pc \in {"receive", "send"}
                             => frames[t][n - 1].ctl = Commander
    BY Zenon
  <2>2. n - 1 \in 1..(n - 1) /\ n - 1 \in 1..n
    BY <1>1, <2>1
  <2>3. QED
    BY <1>1, <2>2 DEF CallsOK, Stacks, LoopsOwned
<1>4. Stacks'
  BY <1>1, <1>2, <1>3, StacksShrunk DEF CallsOK
<1>5. Routed(t)' = Routed(t) \ {n}
  <2>1. ASSUME NEW i \in 1..(n - 1)
        PROVE  i \in Routed(t)' <=> i \in Routed(t)
    <3>1. i \in 1..n /\ i \in 1..Len(frames'[t]) /\ frames'[t][i] = frames[t][i]
      BY <1>1, <1>2, <2>1
    <3>2. QED
      BY <3>1 DEF Routed, CanThrow
  <2>2. Routed(t) \subseteq 1..n /\ Routed(t)' \subseteq 1..(n - 1)
    BY <1>2 DEF Routed
  <2>3. QED
    BY <1>1, <2>1, <2>2
<1>6. QED
  BY <1>1, <1>4, <1>5

\* The directory cannot be changed: the call had no hook yet.
LEMMA CannotChangeKeeps ==
  ASSUME CallsOK, NEW t \in Threads, CannotChange(t)
  PROVE  CallsOK'
<1> DEFINE n == Len(frames[t])
<1>1. /\ frames[t] # <<>> /\ frames[t][n].pc = "enter" /\ frames' = Popped(t)
      /\ UNCHANGED <<object, hooks>>
  BY Zenon DEF CannotChange, In, Top, controllerVars
<1>2. /\ Changed(t, n - 1) /\ Stacks' /\ n \in Nat
      /\ \A i \in 1..(n - 1) : frames'[t][i] = frames[t][i]
      /\ Routed(t)' = Routed(t) \ {n}
  BY <1>1, TopPopped
<1>3. n \notin Routed(t)
  BY <1>1 DEF Routed, Inside
<1>4. \A i \in Routed(t) : frames'[t][i].ctl = frames[t][i].ctl
  <2>1. \A i \in Routed(t) : i \in 1..(n - 1)
    BY <1>2, <1>3 DEF Routed
  <2>2. QED
    BY <1>2, <2>1
<1>5. RoutedAt(t)'
  <2>1. Routed(t)' = Routed(t) /\ hooks'[t] = hooks[t]
    BY <1>1, <1>2, <1>3
  <2>2. QED
    BY <1>4, <2>1, HooksKept DEF CallsOK, RoutedToOwn
<1>6. RoutedToOwn'
  BY <1>1, <1>2, <1>5, OthersRouted DEF CallsOK, Changed
<1>7. QED
  BY <1>1, <1>2, <1>6 DEF CallsOK, HooksOK, Changed

\* The simulation ends: its hook is the last one.
LEMMA ReturnKeeps ==
  ASSUME CallsOK, NEW t \in Threads, Return(t)
  PROVE  CallsOK'
<1> DEFINE n == Len(frames[t])
           c == frames[t][n].ctl
<1>1. /\ frames[t] # <<>> /\ frames[t][n].pc = "native" /\ frames' = Popped(t)
      /\ UNCHANGED object
      /\ hooks' = IF CanThrow(c) THEN [hooks EXCEPT ![t] = SubSeq(@, 1, Len(@) - 1)] ELSE hooks
  BY Zenon DEF Return, In, Top, controllerVars
<1>2. /\ Changed(t, n - 1) /\ Stacks' /\ n \in Nat /\ n >= 1
      /\ \A i \in 1..(n - 1) : frames'[t][i] = frames[t][i]
      /\ Routed(t)' = Routed(t) \ {n}
  BY <1>1, TopPopped
<1>3. HooksOK' /\ \A u \in Threads \ {t} : hooks'[u] = hooks[u]
  <2>1. hooks[t] \in Seq(Controllers) /\ hooks \in [Threads -> Seq(Controllers)]
    BY DEF CallsOK, HooksOK
  <2>2. Len(hooks[t]) \in Nat /\ \A i \in 1..Len(hooks[t]) : hooks[t][i] \in Controllers
    BY <2>1, LenProperties, ElementOfSeq
  <2>3. SubSeq(hooks[t], 1, Len(hooks[t]) - 1) \in Seq(Controllers)
    BY <2>1, <2>2, SubSeqProperties
  <2>4. QED
    BY <1>1, <2>1, <2>3 DEF HooksOK
<1>4. n \in Routed(t) <=> CanThrow(c)
  BY <1>1, <1>2 DEF Routed, Inside
<1>5. \A i \in Routed(t) : i \in Nat /\ i <= n
  BY <1>2 DEF Routed
<1>6. \A i \in Routed(t) \ {n} : frames'[t][i].ctl = frames[t][i].ctl
  <2>1. \A i \in Routed(t) \ {n} : i \in 1..(n - 1)
    BY <1>2 DEF Routed
  <2>2. QED
    BY <1>2, <2>1
<1>7. RoutedAt(t)'
  <2>1. CASE CanThrow(c)
    <3>1. hooks'[t] = SubSeq(hooks[t], 1, Len(hooks[t]) - 1)
      BY <1>1, <2>1 DEF CallsOK, HooksOK
    <3>2. n \in Routed(t)
      BY <1>4, <2>1
    <3>3. QED
      BY <1>2, <1>5, <1>6, <3>1, <3>2, HooksPopped DEF CallsOK, RoutedToOwn
  <2>2. CASE ~CanThrow(c)
    <3>1. hooks'[t] = hooks[t] /\ Routed(t)' = Routed(t)
      BY <1>1, <1>2, <1>4, <2>2
    <3>2. QED
      BY <1>4, <1>6, <2>2, <3>1, HooksKept DEF CallsOK, RoutedToOwn
  <2>3. QED
    BY <2>1, <2>2
<1>8. RoutedToOwn'
  BY <1>1, <1>2, <1>3, <1>7, OthersRouted DEF CallsOK, Changed
<1>9. QED
  BY <1>2, <1>3, <1>8 DEF CallsOK, Changed

\* An exception leaves a callback: the calls that are jumped over have no hook.
LEMMA UncaughtKeeps ==
  ASSUME CallsOK, NEW t \in Threads, frames[t] # <<>>, Top(t).pc \in Inside, Uncaught(t)
  PROVE  /\ CallsOK' /\ Taker(t) \in 1..Len(frames[t])
         /\ Changed(t, Taker(t)) /\ GoneTo(t, Taker(t), "native")
<1> DEFINE n == Len(frames[t])
           k == Taker(t)
<1>1. k \in 1..n /\ \A i \in Routed(t) : i <= k
  BY TakerThere DEF CallsOK, RoutedToOwn
<1>2. /\ frames' = [frames EXCEPT ![t] = Append(SubSeq(@, 1, k - 1), [@[k] EXCEPT !.pc = "native"])]
      /\ UNCHANGED <<object, hooks>>
  BY Zenon DEF Uncaught, controllerVars
<1> HIDE DEF k
<1>3. Changed(t, k) /\ GoneTo(t, k, "native") /\ n \in Nat
  BY <1>1, <1>2, JumpEffect, StackTyped DEF CallsOK
<1>4. Stacks'
  <2>1. k \in Nat /\ k <= n /\ frames'[t][k].ctl = frames[t][k].ctl /\ frames'[t][k].pc = "native"
    BY <1>1, <1>3 DEF GoneTo
  <2>2. QED
    BY <1>2, <1>3, <2>1, StacksShrunk DEF CallsOK
<1>5. /\ Len(frames'[t]) = k /\ \A i \in 1..(k - 1) : frames'[t][i] = frames[t][i]
      /\ frames'[t][k].ctl = frames[t][k].ctl /\ frames'[t][k].pc \in Inside
      /\ \A u \in Threads \ {t} : frames'[u] = frames[u] /\ hooks'[u] = hooks[u]
  BY <1>2, <1>3 DEF Changed, GoneTo, Inside
<1>6. frames[t][k].pc \in Inside
  <2>1. CASE k = n
    BY <2>1 DEF Top
  <2>2. CASE k # n
    <3>1. k < n
      BY <1>1, <1>3, <2>2
    <3>2. QED
      BY <1>1, <3>1 DEF CallsOK, Stacks, Below, Inside
  <2>3. QED
    BY <2>1, <2>2
<1>7. Routed(t)' = Routed(t)
  <2>1. ASSUME NEW i \in 1..k
        PROVE  i \in Routed(t)' <=> i \in Routed(t)
    <3>1. /\ i \in 1..n /\ frames'[t][i].ctl = frames[t][i].ctl
          /\ frames'[t][i].pc \in Inside <=> frames[t][i].pc \in Inside
      BY <1>1, <1>3, <1>5, <1>6, <2>1
    <3>2. QED
      BY <1>2, <1>5, <2>1, <3>1 DEF Routed, CanThrow
  <2>2. Routed(t)' \subseteq 1..k
    BY <1>5 DEF Routed
  <2>3. Routed(t) \subseteq 1..k
    BY <1>1 DEF Routed
  <2>4. QED
    BY <2>1, <2>2, <2>3
<1>8. RoutedAt(t)'
  <2>1. \A i \in Routed(t) : frames'[t][i].ctl = frames[t][i].ctl
    <3>1. \A i \in Routed(t) : i \in 1..k
      BY <1>1 DEF Routed
    <3>2. QED
      BY <1>1, <1>5, <3>1
  <2>2. QED
    BY <1>2, <1>7, <2>1, HooksKept DEF CallsOK, RoutedToOwn
<1>9. RoutedToOwn'
  BY <1>2, <1>5, <1>8, OthersRouted DEF CallsOK
<1>10. QED
  BY <1>1, <1>2, <1>3, <1>4, <1>9 DEF CallsOK, HooksOK, Changed, k

\* The steps of a call that neither start nor end one, and those that raise.
InsideStep(t) ==
  \/ CallBack(t) \/ CallbackReturns(t) \/ ProcessCommands(t) \/ NothingToDo(t)
  \/ \E k \in Commands : Receive(t, k)
  \/ \E a \in {"loop", "leave", "raise"} : ReceiveFails(t, a)
  \/ (Send(t) /\ ~Uncaught(t))
RaisingStep(t) == CallbackRaises(t) \/ SendFails(t) \/ (Send(t) /\ Uncaught(t))

LEMMA InsideStepKeeps ==
  ASSUME CallsOK, NEW t \in Threads, InsideStep(t)
  PROVE  /\ CallsOK' /\ frames[t] # <<>> /\ Top(t).pc \in Inside
         /\ UNCHANGED <<object, cwd, disturbed>> /\ Changed(t, Len(frames[t]))
         /\ \E pc \in Inside : GoneTo(t, Len(frames[t]), pc)
<1>1. /\ frames[t] # <<>> /\ Top(t).pc \in Inside
      /\ UNCHANGED <<controllerVars, cwd, hooks, disturbed>>
      /\ \/ frames' = Moved(t, "native") \/ frames' = Moved(t, "callback")
         \/ frames' = Moved(t, "receive") /\ (Top(t).ctl = Commander \/ Top(t).pc = "send")
         \/ frames' = Moved(t, "send") /\ Top(t).pc = "receive"
  <2>1. CASE CallBack(t) \/ CallbackReturns(t)
    BY <2>1 DEF CallBack, CallbackReturns, In, Inside
  <2>2. CASE ProcessCommands(t) \/ NothingToDo(t)
    BY <2>2 DEF ProcessCommands, NothingToDo, In, Inside
  <2>3. CASE (\E k \in Commands : Receive(t, k)) \/ (\E a \in {"loop", "leave", "raise"} : ReceiveFails(t, a))
    BY <2>3 DEF Receive, ReceiveFails, In, Inside
  <2>4. CASE Send(t) /\ ~Uncaught(t)
    BY <2>4 DEF Send, In, Inside
  <2>5. QED
    BY <2>1, <2>2, <2>3, <2>4, Zenon DEF InsideStep
<1>2. Top(t).pc \in {"receive", "send"} => Top(t).ctl = Commander
  <2>1. Len(frames[t]) \in 1..Len(frames[t])
    BY <1>1, StackTyped DEF CallsOK
  <2>2. QED
    BY <2>1 DEF CallsOK, Stacks, LoopsOwned, Top
<1>3. PICK pc \in Inside : /\ frames' = Moved(t, pc)
                           /\ pc \in {"receive", "send"} => Top(t).ctl = Commander
  BY <1>1, <1>2, Zenon DEF Inside
<1>4. QED
  BY <1>1, <1>3, GoesOn DEF controllerVars

LEMMA RaisingStepKeeps ==
  ASSUME CallsOK, NEW t \in Threads, RaisingStep(t)
  PROVE  /\ CallsOK' /\ frames[t] # <<>> /\ Top(t).pc \in Inside
         /\ UNCHANGED <<object, cwd>>
         /\ disturbed' = disturbed \cup {d \in {"jump"} : Taker(t) < Len(frames[t])}
         /\ Taker(t) \in 1..Len(frames[t]) /\ Changed(t, Taker(t)) /\ GoneTo(t, Taker(t), "native")
<1>1. frames[t] # <<>> /\ Top(t).pc \in Inside /\ Uncaught(t)
  BY DEF RaisingStep, CallbackRaises, SendFails, Send, In, Inside
<1>2. QED
  BY <1>1, UncaughtKeeps DEF Uncaught, controllerVars

\* Every step is of one of these kinds.
LEMMA KindsOfSteps ==
  ASSUME [Next]_vars
  PROVE  \/ Setup
         \/ UNCHANGED <<controllerVars, cwd, frames, hooks, disturbed>>
         \/ \E t \in Threads :
              \/ \E c \in Controllers : Start(t, c)
              \/ ChangeDir(t) \/ CannotChange(t) \/ Return(t)
              \/ InsideStep(t) \/ RaisingStep(t)
<1>1. ASSUME NEW t \in Threads,
             \/ CallBack(t) \/ CallbackReturns(t) \/ CallbackRaises(t)
             \/ ProcessCommands(t) \/ NothingToDo(t)
             \/ \E k \in Commands : Receive(t, k)
             \/ \E a \in {"loop", "leave", "raise"} : ReceiveFails(t, a)
             \/ Send(t) \/ SendFails(t)
      PROVE  InsideStep(t) \/ RaisingStep(t)
  BY <1>1, Zenon DEF InsideStep, RaisingStep
<1>2. ASSUME Post \/ UNCHANGED vars
      PROVE  UNCHANGED <<controllerVars, cwd, frames, hooks, disturbed>>
  BY <1>2, Zenon DEF Post, vars
<1>3. CASE UNCHANGED vars
  BY <1>2, <1>3
<1>4. CASE Next
  BY <1>1, <1>2, <1>4, Zenon DEF Next
<1>5. QED
  BY <1>3, <1>4

\* Controllers are made while nothing is started.
LEMMA IdleEmpty ==
  ASSUME FramesOK
  PROVE  Idle <=> \A t \in Threads : frames[t] = <<>>
<1>1. ASSUME Idle, NEW t \in Threads
      PROVE  frames[t] = <<>>
  <2>1. SUFFICES ASSUME frames[t] # <<>>
                 PROVE  FALSE
    OBVIOUS
  <2>2. 1 \in 1..Len(frames[t])
    BY <2>1, StackTyped
  <2>3. frames[t][1] \in Calls
    <3>1. frames[t][1] \in {frames[t][i] : i \in 1..Len(frames[t])}
      BY <2>2, Zenon
    <3>2. QED
      BY <3>1 DEF Calls
  <2>4. QED
    BY <1>1, <2>3 DEF Idle
<1>2. ASSUME \A t \in Threads : frames[t] = <<>>
      PROVE  Idle
  <2>1. \A t \in Threads : Len(frames[t]) = 0
    BY <1>2, StackTyped
  <2>2. \A t \in Threads : 1..Len(frames[t]) = {}
    BY <2>1
  <2>3. QED
    BY <2>2, Zenon DEF Idle, Calls
<1>3. QED
  BY <1>1, <1>2

LEMMA IdleUnchanged ==
  ASSUME UNCHANGED frames
  PROVE  Idle' <=> Idle
<1>1. ASSUME NEW x
      PROVE  x \in Calls' <=> x \in Calls
  BY DEF Calls
<1>2. QED
  BY <1>1, Zenon DEF Idle

LEMMA CallsInductive ==
  ASSUME CallsOK, cwd \in Dirs, [Next]_vars
  PROVE  CallsOK'
<1>1. CASE Setup
  <2>1. frames' = frames /\ hooks' = hooks /\ Idle
    BY <1>1 DEF Setup
  <2>2. \A t \in Threads : frames[t] = <<>> /\ Len(frames[t]) = 0 /\ Len(frames'[t]) = 0
    BY <2>1, IdleEmpty, StackTyped DEF CallsOK
  <2>3. Stacks'
    BY <2>2 DEF Stacks, Below, Distinct, Present, LoopsOwned
  <2>4. \A t \in Threads : Routed(t) = {} /\ Routed(t)' = {}
    BY <2>2 DEF Routed
  <2>5. \A t \in Threads : RoutedAt(t)'
    <3>1. SUFFICES ASSUME NEW t \in Threads
                   PROVE  RoutedAt(t)'
      OBVIOUS
    <3>2. RoutedAt(t) /\ hooks'[t] = hooks[t] /\ Routed(t)' = Routed(t) /\ Routed(t) = {}
      BY <2>1, <2>4, Zenon DEF CallsOK, RoutedToOwn
    <3>3. \A i \in Routed(t) : frames'[t][i].ctl = frames[t][i].ctl
      BY <3>2
    <3>4. QED
      BY <3>2, <3>3, HooksKept
  <2>6. QED
    BY <2>1, <2>3, <2>5 DEF CallsOK, FramesOK, HooksOK, RoutedToOwn
<1>2. CASE UNCHANGED <<controllerVars, frames, hooks>>
  <2>1. object' = object /\ frames' = frames /\ hooks' = hooks
    BY <1>2 DEF controllerVars
  <2>2. Stacks'
    BY <2>1, SMTT(30) DEF CallsOK, Stacks, Below, Distinct, Present, LoopsOwned
  <2>3. RoutedToOwn'
    <3>1. SUFFICES ASSUME NEW t \in Threads
                   PROVE  RoutedAt(t)'
      BY Zenon DEF RoutedToOwn
    <3>2. RoutedAt(t) /\ hooks'[t] = hooks[t]
      BY <2>1, Zenon DEF CallsOK, RoutedToOwn
    <3>3. Routed(t)' = Routed(t)
      BY <2>1, Zenon DEF Routed, CanThrow
    <3>4. \A i \in Routed(t) : frames'[t][i].ctl = frames[t][i].ctl
      BY <2>1
    <3>5. QED
      BY <3>2, <3>3, <3>4, HooksKept
  <2>4. QED
    BY <2>1, <2>2, <2>3 DEF CallsOK, FramesOK, HooksOK
<1>3. QED
  BY <1>1, <1>2, KindsOfSteps, StartKeeps, ChangeDirKeeps, CannotChangeKeeps, ReturnKeeps,
     InsideStepKeeps, RaisingStepKeeps

-----------------------------------------------------------------------------
(* Places *)

Quiet == "overlap" \notin disturbed

OneThread == Quiet => \A t, u \in Threads : frames[t] # <<>> /\ frames[u] # <<>> => t = u

IdleHome == Quiet /\ Idle => cwd = Home

\* The first call will go back home; until it changes the directory the process is there.
FromHome(t) ==
  Quiet /\ Len(frames[t]) >= 1 =>
    /\ frames[t][1].prev = Home
    /\ Len(frames[t]) = 1 /\ frames[t][1].pc = "enter" => cwd = Home

\* Without jumps the others will go back to the directory of the call below, and the
\* process is in that of the call on top, or still in that of the call below.
InChain(t) ==
  disturbed = {} =>
    /\ \A i \in 1..(Len(frames[t]) - 1) : frames[t][i + 1].prev = OwnDir(frames[t][i].ctl)
    /\ Len(frames[t]) >= 1 /\ frames[t][Len(frames[t])].pc \in Inside =>
         cwd = OwnDir(frames[t][Len(frames[t])].ctl)
    /\ Len(frames[t]) > 1 /\ frames[t][Len(frames[t])].pc = "enter" =>
         cwd = OwnDir(frames[t][Len(frames[t]) - 1].ctl)

PlacesOK == OneThread /\ IdleHome /\ \A t \in Threads : FromHome(t) /\ InChain(t)

\* While no two threads start, the place of the process is a matter of one of them.
LEMMA PlacesMet ==
  ASSUME CallsOK, CallsOK', PlacesOK, NEW t \in Threads, NEW n \in Nat, Changed(t, n),
         disturbed \subseteq disturbed',
         Quiet' => \A u \in Threads \ {t} : frames[u] = <<>>,
         n = 0 /\ Quiet' => cwd' = Home,
         FromHome(t)', InChain(t)'
  PROVE  PlacesOK'
<1>1. /\ Len(frames'[t]) = n
      /\ \A u \in Threads \ {t} : frames'[u] = frames[u]
  BY DEF Changed
<1>2. \A u \in Threads : /\ Len(frames'[u]) \in Nat
                         /\ frames'[u] = <<>> => Len(frames'[u]) = 0
                         /\ frames'[u] # <<>> => Len(frames'[u]) >= 1
  <2>1. SUFFICES ASSUME NEW u \in Threads
                 PROVE  /\ Len(frames'[u]) \in Nat
                        /\ frames'[u] = <<>> => Len(frames'[u]) = 0
                        /\ frames'[u] # <<>> => Len(frames'[u]) >= 1
    OBVIOUS
  <2>2. frames'[u] \in Seq(Frame)
    BY DEF CallsOK, FramesOK
  <2>3. QED
    BY <2>2, LenProperties, EmptySeq
<1>3. Quiet' => \A u \in Threads \ {t} : frames'[u] = <<>> /\ Len(frames'[u]) = 0
  BY <1>1, <1>2
<1>4. OneThread'
  BY <1>3 DEF OneThread
<1>5. IdleHome'
  <2>1. SUFFICES ASSUME Quiet', Idle'
                 PROVE  cwd' = Home
    BY DEF IdleHome, Home
  <2>2. ASSUME n # 0
        PROVE  FALSE
    <3>1. 1 \in 1..Len(frames'[t])
      BY <1>1, <2>2
    <3>2. frames'[t][1] \in {frames'[t][i] : i \in 1..Len(frames'[t])}
      BY <3>1, Zenon
    <3>3. frames'[t][1] \in Calls'
      BY <3>2 DEF Calls
    <3>4. QED
      BY <2>1, <3>3 DEF Idle
  <2>3. QED
    BY <2>1, <2>2
<1>6. disturbed' = {} => Quiet'
  BY DEF Quiet
<1>7. ASSUME NEW u \in Threads \ {t}
      PROVE  FromHome(u)' /\ InChain(u)'
  BY <1>3, <1>6 DEF FromHome, InChain
<1>8. QED
  BY <1>4, <1>5, <1>7 DEF PlacesOK

\* A thread that is in a call of start is alone.
LEMMA Alone ==
  ASSUME PlacesOK, NEW t \in Threads, frames[t] # <<>>, disturbed \subseteq disturbed'
  PROVE  Quiet' => \A u \in Threads \ {t} : frames[u] = <<>>
BY DEF PlacesOK, OneThread, Quiet

LEMMA StartInPlace ==
  ASSUME CallsOK, cwd \in Dirs, PlacesOK, NEW t \in Threads, NEW c \in Controllers, Start(t, c)
  PROVE  PlacesOK'
<1> DEFINE n == Len(frames[t])
<1>1. /\ CallsOK' /\ Changed(t, n + 1)
      /\ frames'[t][n + 1] = [ctl |-> c, pc |-> "enter", prev |-> cwd]
  BY StartKeeps
<1>2. /\ n \in Nat /\ (n >= 1 <=> frames[t] # <<>>)
      /\ Len(frames'[t]) = n + 1
      /\ \A i \in 1..n : frames'[t][i] = frames[t][i]
  BY <1>1, StackTyped DEF CallsOK, Changed
<1>3. /\ UNCHANGED <<object, cwd>> /\ (frames[t] # <<>> => In(t, "callback"))
      /\ disturbed' = disturbed \cup {d \in {"overlap"} : \E u \in Threads \ {t} : frames[u] # <<>>}
  BY Zenon DEF Start, controllerVars
<1>4. Quiet' => Quiet /\ \A u \in Threads \ {t} : frames[u] = <<>>
  BY <1>3 DEF Quiet
<1>5. n = 0 /\ Quiet' => cwd = Home
  <2>1. SUFFICES ASSUME n = 0, Quiet'
                 PROVE  cwd = Home
    OBVIOUS
  <2>2. \A u \in Threads : frames[u] = <<>>
    BY <1>2, <1>4, <2>1
  <2>3. Idle
    BY <2>2, IdleEmpty DEF CallsOK
  <2>4. QED
    BY <1>4, <2>1, <2>3 DEF PlacesOK, IdleHome
<1>6. FromHome(t)'
  <2>1. SUFFICES ASSUME Quiet'
                 PROVE  /\ frames'[t][1].prev = Home
                        /\ n + 1 = 1 => cwd' = Home
    BY <1>2 DEF FromHome, Home
  <2>2. CASE n = 0
    BY <1>1, <1>3, <1>5, <2>1, <2>2
  <2>3. CASE n >= 1
    <3>1. frames'[t][1] = frames[t][1] /\ frames[t][1].prev = Home
      BY <1>2, <1>4, <2>1, <2>3 DEF PlacesOK, FromHome
    <3>2. QED
      BY <1>2, <2>3, <3>1
  <2>4. QED
    BY <1>2, <2>2, <2>3
<1>7. n >= 1 /\ disturbed = {} => cwd = OwnDir(frames[t][n].ctl)
  <2>1. n >= 1 => frames[t][n].pc \in Inside
    BY <1>2, <1>3 DEF In, Top, Inside
  <2>2. QED
    BY <2>1 DEF PlacesOK, InChain
<1>8. InChain(t)'
  <2>1. SUFFICES ASSUME disturbed' = {}
                 PROVE  /\ \A i \in 1..n : frames'[t][i + 1].prev = OwnDir(frames'[t][i].ctl)
                        /\ n + 1 > 1 => cwd' = OwnDir(frames'[t][n].ctl)
    <3>1. /\ Len(frames'[t]) = n + 1 /\ Len(frames'[t]) - 1 = n
          /\ frames'[t][n + 1].pc \notin Inside
      BY <1>1, <1>2 DEF Inside
    <3>2. \A d : OwnDir(d)' = OwnDir(d)
      BY <1>3 DEF OwnDir
    <3>3. QED
      BY <3>1, <3>2 DEF InChain
  <2>2. disturbed = {}
    BY <1>3, <2>1
  <2>3. ASSUME NEW i \in 1..n
        PROVE  frames'[t][i + 1].prev = OwnDir(frames'[t][i].ctl)
    <3>1. CASE i < n
      <4>1. i \in 1..(n - 1) /\ i + 1 \in 1..n
        BY <1>2, <3>1
      <4>2. frames[t][i + 1].prev = OwnDir(frames[t][i].ctl)
        BY <2>2, <4>1 DEF PlacesOK, InChain
      <4>3. frames'[t][i + 1] = frames[t][i + 1] /\ frames'[t][i] = frames[t][i]
        BY <1>2, <4>1
      <4>4. QED
        BY <4>2, <4>3
    <3>2. CASE i = n
      <4>1. frames'[t][i + 1].prev = cwd /\ frames'[t][i] = frames[t][n] /\ n >= 1
        BY <1>1, <1>2, <3>2
      <4>2. QED
        BY <1>7, <2>2, <4>1
    <3>3. QED
      BY <1>2, <3>1, <3>2
  <2>4. n + 1 > 1 => cwd' = OwnDir(frames'[t][n].ctl)
    BY <1>2, <1>3, <1>7, <2>2
  <2>5. QED
    BY <2>3, <2>4
<1>9. n + 1 \in Nat /\ n + 1 # 0 /\ disturbed \subseteq disturbed'
  BY <1>2, <1>3
<1>10. QED
  BY <1>1, <1>4, <1>6, <1>8, <1>9, PlacesMet

\* Where a call goes on, and is in its directory, the chain goes on as well: n calls are
\* left, of which the first n - 1 are as before.
LEMMA ChainGoesOn ==
  ASSUME PlacesOK, UNCHANGED object, NEW t \in Threads, NEW n \in 1..Len(frames[t]), Changed(t, n),
         frames'[t][n].ctl = frames[t][n].ctl, frames'[t][n].prev = frames[t][n].prev,
         frames'[t][n].pc \in Inside, disturbed \subseteq disturbed', Len(frames[t]) \in Nat,
         disturbed' = {} => cwd' = OwnDir(frames[t][n].ctl)
  PROVE  FromHome(t)' /\ InChain(t)'
<1>1. /\ Len(frames'[t]) = n /\ n \in Nat /\ n >= 1 /\ n <= Len(frames[t])
      /\ \A i \in 1..(n - 1) : frames'[t][i] = frames[t][i]
  BY DEF Changed
<1>2. \A i \in 1..n : frames'[t][i].ctl = frames[t][i].ctl /\ frames'[t][i].prev = frames[t][i].prev
  BY <1>1
<1>3. FromHome(t)'
  <2>1. SUFFICES ASSUME Quiet'
                 PROVE  /\ frames'[t][1].prev = Home
                        /\ n = 1 /\ frames'[t][1].pc = "enter" => cwd' = Home
    BY <1>1 DEF FromHome, Home
  <2>2. Quiet
    BY <2>1 DEF Quiet
  <2>3. frames[t][1].prev = Home
    BY <1>1, <2>2 DEF PlacesOK, FromHome
  <2>4. frames'[t][1].prev = Home
    BY <1>1, <1>2, <2>3
  <2>5. n = 1 => frames'[t][1].pc # "enter"
    BY <1>1 DEF Inside
  <2>6. QED
    BY <2>4, <2>5
<1>4. InChain(t)'
  <2>1. SUFFICES ASSUME disturbed' = {}
                 PROVE  /\ \A i \in 1..(n - 1) : frames'[t][i + 1].prev = OwnDir(frames'[t][i].ctl)
                        /\ cwd' = OwnDir(frames'[t][n].ctl)
    <3>1. \A d : OwnDir(d)' = OwnDir(d)
      BY DEF OwnDir
    <3>2. Len(frames'[t]) = n /\ frames'[t][n].pc # "enter"
      BY <1>1 DEF Inside
    <3>3. QED
      BY <3>1, <3>2 DEF InChain
  <2>2. disturbed = {}
    BY <2>1
  <2>3. ASSUME NEW i \in 1..(n - 1)
        PROVE  frames'[t][i + 1].prev = OwnDir(frames'[t][i].ctl)
    <3>1. i \in 1..(Len(frames[t]) - 1) /\ i + 1 \in 1..n /\ i \in 1..n
      BY <1>1
    <3>2. frames[t][i + 1].prev = OwnDir(frames[t][i].ctl)
      BY <2>2, <3>1 DEF PlacesOK, InChain
    <3>3. QED
      BY <1>2, <3>1, <3>2
  <2>4. cwd' = OwnDir(frames'[t][n].ctl)
    BY <2>1
  <2>5. QED
    BY <2>3, <2>4
<1>5. QED
  BY <1>3, <1>4

\* A simulator enters the directory that is named after it.
LEMMA ChangeDirInPlace ==
  ASSUME CallsOK, ControllersOK, PlacesOK, NEW t \in Threads, ChangeDir(t)
  PROVE  PlacesOK'
<1> DEFINE n == Len(frames[t])
<1>1. CallsOK' /\ Changed(t, n) /\ GoneTo(t, n, "native")
  BY ChangeDirKeeps
<1>2. /\ UNCHANGED <<object, disturbed>> /\ frames[t] # <<>> /\ cwd' = Dir(frames[t][n].ctl)
  BY Zenon DEF ChangeDir, In, Top, controllerVars
<1>3. n \in Nat /\ n >= 1 /\ frames[t][n] \in Frame /\ n \in 1..n
  BY <1>2, StackTyped DEF CallsOK
<1>4. Dir(frames[t][n].ctl) = OwnDir(frames[t][n].ctl)
  <2>1. object[frames[t][n].ctl] # NoObject /\ frames[t][n].ctl \in Controllers
    BY <1>3 DEF CallsOK, Stacks, Present, Frame
  <2>2. QED
    BY <2>1 DEF ControllersOK, AboutOwn, Dir, OwnDir
<1>5. FromHome(t)' /\ InChain(t)'
  BY <1>1, <1>2, <1>3, <1>4, ChainGoesOn DEF GoneTo, Inside
<1>6. Quiet' => \A u \in Threads \ {t} : frames[u] = <<>>
  BY <1>2, Alone
<1>7. n # 0 /\ disturbed \subseteq disturbed'
  BY <1>2, <1>3
<1>8. QED
  BY <1>1, <1>3, <1>5, <1>6, <1>7, PlacesMet

LEMMA OneOrMore ==
  ASSUME NEW n \in Nat, n >= 1
  PROVE  /\ n = 1 \/ n > 1
         /\ n > 1 => n - 1 \in 1..n /\ n - 1 \in Nat /\ n - 1 # 0 /\ n - 1 \in 1..(n - 1)
OBVIOUS

\* A call ends, and the process is where the call below was, or at home.
LEMMA EndInPlace ==
  ASSUME CallsOK, CallsOK', PlacesOK, NEW t \in Threads, frames[t] # <<>>, frames' = Popped(t),
         UNCHANGED <<object, disturbed>>,
         Quiet /\ Len(frames[t]) = 1 => cwd' = Home,
         disturbed = {} /\ Len(frames[t]) > 1 => cwd' = OwnDir(frames[t][Len(frames[t]) - 1].ctl)
  PROVE  PlacesOK'
<1> DEFINE n == Len(frames[t])
<1>1. /\ Changed(t, n - 1) /\ n \in Nat /\ n >= 1
      /\ \A i \in 1..(n - 1) : frames'[t][i] = frames[t][i]
  BY TopPopped
<1>2. Quiet' => \A u \in Threads \ {t} : frames[u] = <<>>
  BY Alone
<1>3. CASE n = 1
  <2>1. Len(frames'[t]) = 0
    BY <1>1, <1>3 DEF Changed
  <2>2. FromHome(t)' /\ InChain(t)'
    BY <2>1 DEF FromHome, InChain
  <2>3. Quiet' => cwd' = Home
    BY <1>3 DEF Quiet
  <2>4. n - 1 \in Nat
    BY <1>1
  <2>5. QED
    BY <1>1, <1>2, <2>2, <2>3, <2>4, PlacesMet
<1>4. CASE n > 1
  <2>1. /\ n - 1 \in 1..n /\ n - 1 \in Nat /\ n - 1 # 0 /\ n - 1 \in 1..(n - 1)
        /\ frames'[t][n - 1] = frames[t][n - 1]
    <3>1. n \in Nat /\ n >= 1
      BY <1>1
    <3>2. n - 1 \in 1..n /\ n - 1 \in Nat /\ n - 1 # 0 /\ n - 1 \in 1..(n - 1)
      BY <3>1, <1>4, OneOrMore
    <3>3. QED
      BY <1>1, <3>2
  <2>2. frames[t][n - 1].pc \in Inside
    <3>1. n - 1 \in 1..n /\ n - 1 < n
      BY <1>1, <2>1
    <3>2. QED
      BY <3>1 DEF CallsOK, Stacks, Below, Inside
  <2>3. disturbed' = {} => cwd' = OwnDir(frames[t][n - 1].ctl)
    BY <1>4
  <2>4. FromHome(t)' /\ InChain(t)'
    BY <1>1, <2>1, <2>2, <2>3, ChainGoesOn
  <2>5. QED
    BY <1>1, <1>2, <2>1, <2>4, PlacesMet
<1>5. n = 1 \/ n > 1
  BY <1>1, OneOrMore
<1>6. QED
  BY <1>3, <1>4, <1>5

LEMMA CannotChangeInPlace ==
  ASSUME CallsOK, PlacesOK, NEW t \in Threads, CannotChange(t)
  PROVE  PlacesOK'
<1> DEFINE n == Len(frames[t])
<1>1. /\ frames[t] # <<>> /\ frames[t][n].pc = "enter" /\ frames' = Popped(t)
      /\ UNCHANGED <<object, cwd, disturbed>>
  BY Zenon DEF CannotChange, In, Top, controllerVars
<1>2. Quiet /\ n = 1 => cwd = Home
  BY <1>1 DEF PlacesOK, FromHome
<1>3. disturbed = {} /\ n > 1 => cwd = OwnDir(frames[t][n - 1].ctl)
  BY <1>1 DEF PlacesOK, InChain
<1>4. QED
  BY <1>1, <1>2, <1>3, CannotChangeKeeps, EndInPlace

LEMMA ReturnInPlace ==
  ASSUME CallsOK, PlacesOK, NEW t \in Threads, Return(t)
  PROVE  PlacesOK'
<1> DEFINE n == Len(frames[t])
<1>1. /\ frames[t] # <<>> /\ frames' = Popped(t) /\ UNCHANGED <<object, disturbed>>
      /\ cwd' = frames[t][n].prev
  BY Zenon DEF Return, In, Top, Previous, controllerVars
<1>2. Quiet /\ n = 1 => cwd' = Home
  BY <1>1 DEF PlacesOK, FromHome
<1>3. disturbed = {} /\ n > 1 => cwd' = OwnDir(frames[t][n - 1].ctl)
  <2>1. SUFFICES ASSUME disturbed = {}, n > 1
                 PROVE  frames[t][n].prev = OwnDir(frames[t][n - 1].ctl)
    BY <1>1
  <2>2. n \in Nat /\ n - 1 \in 1..(n - 1) /\ (n - 1) + 1 = n
    BY <2>1, StackTyped DEF CallsOK
  <2>3. frames[t][(n - 1) + 1].prev = OwnDir(frames[t][n - 1].ctl)
    BY <2>1, <2>2 DEF PlacesOK, InChain
  <2>4. QED
    BY <2>2, <2>3
<1>4. QED
  BY <1>1, <1>2, <1>3, ReturnKeeps, EndInPlace

LEMMA InsideStepInPlace ==
  ASSUME CallsOK, PlacesOK, NEW t \in Threads, InsideStep(t)
  PROVE  PlacesOK'
<1> DEFINE n == Len(frames[t])
<1>1. /\ CallsOK' /\ frames[t] # <<>> /\ frames[t][n].pc \in Inside
      /\ UNCHANGED <<object, cwd, disturbed>> /\ Changed(t, n)
      /\ \E pc \in Inside : GoneTo(t, n, pc)
  BY InsideStepKeeps DEF Top
<1>2. n \in Nat /\ n >= 1 /\ n \in 1..n
  BY <1>1, StackTyped DEF CallsOK
<1>3. disturbed' = {} => cwd' = OwnDir(frames[t][n].ctl)
  BY <1>1, <1>2 DEF PlacesOK, InChain
<1>4. FromHome(t)' /\ InChain(t)'
  BY <1>1, <1>2, <1>3, ChainGoesOn DEF GoneTo
<1>5. Quiet' => \A u \in Threads \ {t} : frames[u] = <<>>
  BY <1>1, Alone
<1>6. n # 0 /\ disturbed \subseteq disturbed'
  BY <1>1, <1>2
<1>7. QED
  BY <1>1, <1>2, <1>4, <1>5, <1>6, PlacesMet

LEMMA RaisingStepInPlace ==
  ASSUME CallsOK, PlacesOK, NEW t \in Threads, RaisingStep(t)
  PROVE  PlacesOK'
<1> DEFINE n == Len(frames[t])
           k == Taker(t)
<1>1. /\ CallsOK' /\ frames[t] # <<>> /\ frames[t][n].pc \in Inside
      /\ UNCHANGED <<object, cwd>>
      /\ disturbed' = disturbed \cup {d \in {"jump"} : k < n}
      /\ k \in 1..n /\ Changed(t, k) /\ GoneTo(t, k, "native")
  BY RaisingStepKeeps DEF Top
<1> HIDE DEF k
<1>2. n \in Nat /\ n >= 1 /\ k \in Nat /\ k # 0 /\ disturbed \subseteq disturbed'
  BY <1>1, StackTyped DEF CallsOK
<1>3. disturbed' = {} => cwd' = OwnDir(frames[t][k].ctl)
  <2>1. SUFFICES ASSUME disturbed' = {}
                 PROVE  cwd = OwnDir(frames[t][k].ctl)
    BY <1>1
  <2>2. k = n /\ disturbed = {}
    <3>1. ~(k < n)
      BY <1>1, <2>1
    <3>2. QED
      BY <1>1, <1>2, <2>1, <3>1
  <2>3. QED
    BY <1>1, <1>2, <2>2 DEF PlacesOK, InChain
<1>4. FromHome(t)' /\ InChain(t)'
  BY <1>1, <1>2, <1>3, ChainGoesOn DEF GoneTo, Inside
<1>5. Quiet' => \A u \in Threads \ {t} : frames[u] = <<>>
  BY <1>1, <1>2, Alone
<1>6. QED
  BY <1>1, <1>2, <1>4, <1>5, PlacesMet

LEMMA PlacesInductive ==
  ASSUME CallsOK, ControllersOK, cwd \in Dirs, PlacesOK, [Next]_vars
  PROVE  PlacesOK'
<1>1. CASE Setup
  <2>1. UNCHANGED <<frames, cwd, disturbed>> /\ Idle
    BY <1>1 DEF Setup
  <2>2. \A t \in Threads : Len(frames[t]) = 0
    BY <2>1, IdleEmpty, StackTyped DEF CallsOK
  <2>3. \A t \in Threads : FromHome(t)' /\ InChain(t)'
    BY <2>1, <2>2 DEF FromHome, InChain
  <2>4. OneThread' /\ IdleHome'
    <3>1. Idle' => Idle
      BY <2>1, IdleUnchanged
    <3>2. QED
      BY <2>1, <3>1 DEF PlacesOK, OneThread, IdleHome, Quiet, Home
  <2>5. QED
    BY <2>3, <2>4 DEF PlacesOK
<1>2. CASE UNCHANGED <<controllerVars, cwd, frames, hooks, disturbed>>
  <2>1. UNCHANGED <<object, cwd, frames, disturbed>>
    BY <1>2 DEF controllerVars
  <2>2. \A t \in Threads : FromHome(t)' /\ InChain(t)'
    <3>1. SUFFICES ASSUME NEW t \in Threads
                   PROVE  FromHome(t)' /\ InChain(t)'
      OBVIOUS
    <3>2. FromHome(t) /\ InChain(t)
      BY DEF PlacesOK
    <3>3. QED
      BY <2>1, <3>2, Zenon DEF FromHome, InChain, OwnDir, Quiet, Home
  <2>3. OneThread' /\ IdleHome'
    <3>1. Idle' => Idle
      BY <2>1, IdleUnchanged
    <3>2. QED
      BY <2>1, <3>1 DEF PlacesOK, OneThread, IdleHome, Quiet, Home
  <2>4. QED
    BY <2>2, <2>3 DEF PlacesOK
<1>3. QED
  BY <1>1, <1>2, KindsOfSteps, StartInPlace, ChangeDirInPlace, CannotChangeInPlace, ReturnInPlace,
     InsideStepInPlace, RaisingStepInPlace

-----------------------------------------------------------------------------
(* Controllers and directories, step by step *)

\* Controllers change in Setup only, and the process goes to directories.
LEMMA ControllersInductive ==
  ASSUME CallsOK, ControllersOK, cwd \in Dirs, [Next]_vars
  PROVE  ControllersOK' /\ cwd' \in Dirs
<1>1. ControllersOK'
  <2>1. CASE Setup
    BY <2>1, ControllerKeeps DEF Setup
  <2>2. CASE ~Setup
    <3>1. UNCHANGED <<object, corePath>>
      BY <2>2, ControllersUnchanged DEF controllerVars
    <3>2. QED
      BY <3>1 DEF ControllersOK, ObjectsOK, ReportKept, AboutOwn
  <2>3. QED
    BY <2>1, <2>2
<1>2. ASSUME NEW t \in Threads, ChangeDir(t)
      PROVE  cwd' \in Dirs
  <2>1. frames[t] # <<>> /\ cwd' = Dir(Top(t).ctl)
    BY <1>2, Zenon DEF ChangeDir, In
  <2>2. Len(frames[t]) \in 1..Len(frames[t]) /\ Top(t) \in Frame
    BY <2>1, StackTyped DEF CallsOK, Top
  <2>3. Top(t).ctl \in Controllers /\ object[Top(t).ctl] # NoObject
    BY <2>2 DEF CallsOK, Stacks, Present, Frame, Top
  <2>4. object[Top(t).ctl] \in Object
    BY <2>3 DEF ControllersOK, ObjectsOK
  <2>5. QED
    BY <2>1, <2>4 DEF Dir, Dirs, Object
<1>3. ASSUME NEW t \in Threads, Return(t)
      PROVE  cwd' \in Dirs
  <2>1. frames[t] # <<>> /\ cwd' = Top(t).prev
    BY <1>3, Zenon DEF Return, In, Previous
  <2>2. Top(t) \in Frame
    BY <2>1, StackTyped DEF CallsOK, Top
  <2>3. QED
    BY <2>1, <2>2 DEF Frame
<1>4. ASSUME NEW t \in Threads, (\E c \in Controllers : Start(t, c)) \/ CannotChange(t)
      PROVE  cwd' \in Dirs
  BY <1>4, Zenon DEF Start, CannotChange
<1>5. ASSUME Setup \/ UNCHANGED <<controllerVars, cwd, frames, hooks, disturbed>>
      PROVE  cwd' \in Dirs
  BY <1>5 DEF Setup
<1>6. QED
  BY <1>1, <1>2, <1>3, <1>4, <1>5, KindsOfSteps, InsideStepKeeps, RaisingStepKeeps

-----------------------------------------------------------------------------
(* Answers *)

\* While a command is being answered, a call of the Commander is about to send.
Sending == \E t \in Threads : In(t, "send") /\ Top(t).ctl = Commander

\* What became of the commands.
AnswersTyped ==
  /\ posted \in Nat /\ taken \in Nat /\ taken <= posted
  /\ cmd \in [req : Nat, after : {"loop", "leave", "raise"}]
  /\ replies \in Seq(Nat) /\ lost \subseteq Nat

\* The command being answered is the last one that was received, and nothing is answered
\* before it is received.
LastAnswered ==
  /\ cmd.req # 0 => cmd.req = taken /\ cmd.req \notin lost /\ Sending
  /\ \A i \in 1..Len(replies) : replies[i] <= taken
  /\ \A n \in lost : n <= taken

AnswersOK == AnswersTyped /\ LastAnswered /\ AnsweredInOrder

\* Only one call processes commands: with two of them the next command would take the
\* place of the one being answered.
LEMMA OneLoop ==
  ASSUME CallsOK, LastAnswered, NEW t \in Threads, In(t, "receive")
  PROVE  cmd.req = 0
<1>1. SUFFICES ASSUME cmd.req # 0
               PROVE  FALSE
  OBVIOUS
<1>2. PICK u \in Threads : In(u, "send") /\ Top(u).ctl = Commander
  BY <1>1 DEF LastAnswered, Sending
<1>3. /\ frames[t] # <<>> /\ frames[u] # <<>>
      /\ Len(frames[t]) \in 1..Len(frames[t]) /\ Len(frames[u]) \in 1..Len(frames[u])
  BY <1>2, StackTyped DEF CallsOK, In
<1>4. Top(t).ctl = Commander
  BY <1>3 DEF CallsOK, Stacks, LoopsOwned, In, Top
<1>5. t = u
  BY <1>2, <1>3, <1>4 DEF CallsOK, Stacks, Distinct, Top
<1>6. QED
  BY <1>2, <1>5 DEF In

\* A command is received.
LEMMA ReceiveAnswers ==
  ASSUME CallsOK, AnswersOK, NEW t \in Threads, NEW k \in Commands, Receive(t, k)
  PROVE  AnswersOK'
<1>1. /\ taken' = taken + 1 /\ taken < posted
      /\ cmd' = [req |-> taken + 1, after |-> After(k)]
      /\ UNCHANGED <<posted, replies, lost>>
      /\ In(t, "receive") /\ frames' = Moved(t, "send")
  BY DEF Receive, Waiting
<1>2. cmd.req = 0
  BY <1>1, OneLoop DEF AnswersOK
<1>3. After(k) \in {"loop", "leave", "raise"}
  BY DEF After, Commands
<1>4. Sending'
  <2>1. frames[t] # <<>> /\ Len(frames[t]) \in 1..Len(frames[t])
    BY <1>1, StackTyped DEF CallsOK, In
  <2>2. Top(t).ctl = Commander
    BY <1>1, <2>1 DEF CallsOK, Stacks, LoopsOwned, In, Top
  <2>3. /\ Len(frames'[t]) = Len(frames[t])
        /\ GoneTo(t, Len(frames[t]), "send")
    <3>1. "send" \in Inside \cup {"enter"}
      BY DEF Inside
    <3>2. Changed(t, Len(frames[t])) /\ GoneTo(t, Len(frames[t]), "send")
      BY <1>1, <2>1, <3>1, MovedEffect DEF CallsOK
    <3>3. QED
      BY <3>2 DEF Changed
  <2>4. frames'[t] # <<>>
    BY <2>1, <2>3
  <2>5. QED
    BY <2>2, <2>3, <2>4 DEF Sending, In, Top, GoneTo
<1>5. AnswersTyped'
  BY <1>1, <1>3 DEF AnswersOK, AnswersTyped
<1>6. cmd'.req = taken + 1
  BY <1>1
<1>7. LastAnswered'
  <2>1. \A i \in 1..Len(replies) : replies[i] \in Nat
    BY ElementOfSeq DEF AnswersOK, AnswersTyped
  <2>2. \A i \in 1..Len(replies) : replies[i] <= taken + 1
    BY <2>1 DEF AnswersOK, LastAnswered, AnswersTyped
  <2>3. \A n \in lost : n <= taken + 1
    BY DEF AnswersOK, LastAnswered, AnswersTyped
  <2>4. QED
    <3>1. taken + 1 \notin lost
      BY DEF AnswersOK, LastAnswered, AnswersTyped
    <3>2. QED
      BY <1>1, <1>4, <1>6, <2>2, <2>3, <3>1 DEF LastAnswered
<1>8. AnsweredInOrder'
  <2>1. 1..(taken + 1) = (1..taken) \cup {taken + 1} /\ taken + 1 # 0
    BY DEF AnswersOK, AnswersTyped
  <2>2. 1..taken = ({replies[i] : i \in 1..Len(replies)} \cup lost) \ {0}
    BY <1>2 DEF AnswersOK, AnsweredInOrder
  <2>3. 1..taken' = ({replies[i] : i \in 1..Len(replies)} \cup lost \cup {cmd'.req}) \ {0}
    BY <1>1, <1>6, <2>1, <2>2
  <2>4. \A i \in 1..Len(replies) : replies[i] # taken + 1
    BY DEF AnswersOK, AnswersTyped, LastAnswered
  <2>5. \A i \in 1..Len(replies) : replies[i] # 0 => replies[i] \notin lost \cup {cmd'.req}
    BY <1>6, <2>4 DEF AnswersOK, AnsweredInOrder
  <2>6. \A i, j \in 1..Len(replies) : i < j /\ replies[i] # 0 /\ replies[j] # 0 => replies[i] < replies[j]
    BY DEF AnswersOK, AnsweredInOrder
  <2>7. QED
    BY <1>1, <2>3, <2>5, <2>6, SMTT(30) DEF AnsweredInOrder
<1>9. QED
  BY <1>5, <1>7, <1>8 DEF AnswersOK

\* The command being answered is answered, or its reply is lost.
LEMMA AnswerSent ==
  ASSUME AnswersOK, UNCHANGED <<posted, taken>>, cmd' = NoCmd,
         \/ replies' = Append(replies, cmd.req) /\ lost' = lost
         \/ replies' = replies /\ lost' = lost \cup ({cmd.req} \ {0})
  PROVE  AnswersOK'
<1>1. /\ posted \in Nat /\ taken \in Nat /\ taken <= posted /\ cmd.req \in Nat /\ cmd.req <= taken
      /\ replies \in Seq(Nat) /\ Len(replies) \in Nat /\ lost \subseteq Nat
  BY LenProperties DEF AnswersOK, AnswersTyped, LastAnswered
<1>2. cmd'.req = 0 /\ cmd' \in [req : Nat, after : {"loop", "leave", "raise"}]
  BY DEF NoCmd
<1>3. /\ \A i \in 1..Len(replies) : replies[i] \in Nat /\ replies[i] <= taken
      /\ \A n \in lost : n <= taken
  BY ElementOfSeq DEF AnswersOK, AnswersTyped, LastAnswered
<1>4. /\ 1..taken = ({replies[i] : i \in 1..Len(replies)} \cup lost \cup {cmd.req}) \ {0}
      /\ \A i \in 1..Len(replies) : replies[i] # 0 => replies[i] \notin lost \cup {cmd.req}
      /\ \A i, j \in 1..Len(replies) : i < j /\ replies[i] # 0 /\ replies[j] # 0 => replies[i] < replies[j]
  BY DEF AnswersOK, AnsweredInOrder
<1>5. CASE replies' = Append(replies, cmd.req) /\ lost' = lost
  <2> DEFINE n == Len(replies)
  <2>1. /\ replies' \in Seq(Nat) /\ Len(replies') = n + 1 /\ replies'[n + 1] = cmd.req
        /\ \A i \in 1..n : replies'[i] = replies[i]
    BY <1>1, <1>5, AppendProperties
  <2>2. \A i \in 1..(n + 1) : i \in 1..n \/ i = n + 1
    BY <1>1
  <2> HIDE DEF n
  <2>3. AnswersTyped'
    BY <1>1, <1>2, <1>5, <2>1 DEF AnswersTyped
  <2>4. \A i \in 1..(n + 1) : replies'[i] \in Nat /\ replies'[i] <= taken
    BY <1>1, <1>3, <2>1, <2>2 DEF n
  <2>5. LastAnswered'
    BY <1>2, <1>3, <1>5, <2>1, <2>4 DEF LastAnswered
  <2>6. {replies'[i] : i \in 1..(n + 1)} = {replies[i] : i \in 1..n} \cup {cmd.req}
    <3>1. 1..(n + 1) = (1..n) \cup {n + 1}
      BY <1>1 DEF n
    <3>2. QED
      BY <2>1, <3>1, SMTT(30)
  <2>7. 1..taken' = ({replies'[i] : i \in 1..Len(replies')} \cup lost' \cup {cmd'.req}) \ {0}
    BY <1>2, <1>4, <1>5, <2>1, <2>6 DEF n
  <2>8. \A i \in 1..(n + 1) : replies'[i] # 0 => replies'[i] \notin lost' \cup {cmd'.req}
    <3>1. \A i \in 1..n : replies'[i] # 0 => replies'[i] \notin lost
      BY <1>4, <2>1 DEF n
    <3>2. cmd.req # 0 => cmd.req \notin lost
      BY DEF AnswersOK, LastAnswered
    <3>3. replies'[n + 1] # 0 => replies'[n + 1] \notin lost
      BY <2>1, <3>2
    <3>4. QED
      BY <1>2, <1>5, <2>2, <3>1, <3>3
  <2>9. \A i, j \in 1..(n + 1) : i < j /\ replies'[i] # 0 /\ replies'[j] # 0 => replies'[i] < replies'[j]
    <3>1. SUFFICES ASSUME NEW i \in 1..(n + 1), NEW j \in 1..(n + 1), i < j,
                          replies'[i] # 0, replies'[j] # 0
                   PROVE  replies'[i] < replies'[j]
      OBVIOUS
    <3>2. i \in 1..n /\ replies'[i] = replies[i]
      BY <1>1, <2>1, <3>1, SMTT(30) DEF n
    <3>3. CASE j \in 1..n
      BY <1>4, <2>1, <3>1, <3>2, <3>3 DEF n
    <3>4. CASE j = n + 1
      <4>1. replies'[j] = cmd.req /\ cmd.req # 0 /\ cmd.req = taken
        BY <2>1, <3>1, <3>4 DEF AnswersOK, LastAnswered
      <4>2. replies[i] # cmd.req
        BY <1>4, <3>1, <3>2 DEF n
      <4>3. replies[i] <= taken /\ replies[i] \in Nat
        BY <1>3, <3>2 DEF n
      <4>4. QED
        BY <1>1, <3>2, <4>1, <4>2, <4>3
    <3>5. QED
      BY <2>2, <3>3, <3>4
  <2>10. AnsweredInOrder'
    BY <2>1, <2>7, <2>8, <2>9, Zenon DEF AnsweredInOrder
  <2>11. QED
    BY <2>3, <2>5, <2>10 DEF AnswersOK
<1>6. CASE replies' = replies /\ lost' = lost \cup ({cmd.req} \ {0})
  <2>1. AnswersTyped'
    BY <1>1, <1>2, <1>6 DEF AnswersTyped
  <2>2. LastAnswered'
    BY <1>1, <1>2, <1>3, <1>6 DEF LastAnswered
  <2>3. 1..taken' = ({replies'[i] : i \in 1..Len(replies')} \cup lost' \cup {cmd'.req}) \ {0}
    BY <1>2, <1>4, <1>6
  <2>4. \A i \in 1..Len(replies') : replies'[i] # 0 => replies'[i] \notin lost' \cup {cmd'.req}
    BY <1>2, <1>4, <1>6
  <2>5. AnsweredInOrder'
    BY <1>4, <1>6, <2>3, <2>4, Zenon DEF AnsweredInOrder
  <2>6. QED
    BY <2>1, <2>2, <2>5 DEF AnswersOK
<1>7. QED
  BY <1>5, <1>6

\* Steps that are no business of the commands leave the call that sends alone.
LEMMA OtherAnswers ==
  ASSUME AnswersOK, UNCHANGED <<taken, cmd, replies, lost>>, posted' \in Nat, posted' >= posted,
         cmd.req # 0 => Sending'
  PROVE  AnswersOK'
<1>1. AnswersTyped'
  BY DEF AnswersOK, AnswersTyped
<1>2. LastAnswered' /\ AnsweredInOrder'
  BY Zenon DEF AnswersOK, LastAnswered, AnsweredInOrder
<1>3. QED
  BY <1>1, <1>2 DEF AnswersOK

\* A step of a thread that does not send leaves the call that does alone.
LEMMA StillSending ==
  ASSUME Sending, NEW t \in Threads, ~In(t, "send"),
         \A u \in Threads \ {t} : frames'[u] = frames[u]
  PROVE  Sending'
<1>1. PICK u \in Threads : In(u, "send") /\ Top(u).ctl = Commander
  BY DEF Sending
<1>2. u # t /\ frames'[u] = frames[u]
  BY <1>1
<1>3. QED
  BY <1>1, <1>2 DEF Sending, In, Top

\* The steps that are no business of the commands.
OtherStep(t) ==
  \/ \E c \in Controllers : Start(t, c)
  \/ ChangeDir(t) \/ CannotChange(t) \/ Return(t)
  \/ CallBack(t) \/ CallbackReturns(t) \/ CallbackRaises(t)
  \/ ProcessCommands(t) \/ NothingToDo(t)

LEMMA OtherStepAlone ==
  ASSUME CallsOK, cwd \in Dirs, NEW t \in Threads, OtherStep(t)
  PROVE  /\ UNCHANGED commandVars /\ ~In(t, "send")
         /\ \A u \in Threads \ {t} : frames'[u] = frames[u]
<1>1. ASSUME NEW c \in Controllers, Start(t, c)
      PROVE  /\ UNCHANGED commandVars /\ ~In(t, "send")
             /\ \A u \in Threads \ {t} : frames'[u] = frames[u]
  <2>1. UNCHANGED commandVars /\ (frames[t] # <<>> => In(t, "callback"))
    BY <1>1, Zenon DEF Start
  <2>2. Changed(t, Len(frames[t]) + 1)
    BY <1>1, StartKeeps
  <2>3. QED
    BY <2>1, <2>2 DEF In, Changed
<1>2. ASSUME ChangeDir(t) \/ CannotChange(t) \/ Return(t)
      PROVE  /\ UNCHANGED commandVars /\ ~In(t, "send")
             /\ \A u \in Threads \ {t} : frames'[u] = frames[u]
  <2>1. /\ UNCHANGED commandVars
        /\ In(t, "enter") \/ In(t, "native")
        /\ frames' = Moved(t, "native") \/ frames' = Popped(t)
    BY <1>2, Zenon DEF ChangeDir, CannotChange, Return
  <2>2. QED
    BY <2>1 DEF In, Moved, Popped, CallsOK, FramesOK
<1>3. ASSUME CallBack(t) \/ CallbackReturns(t) \/ ProcessCommands(t) \/ NothingToDo(t)
      PROVE  /\ UNCHANGED commandVars /\ ~In(t, "send")
             /\ \A u \in Threads \ {t} : frames'[u] = frames[u]
  <2>1. /\ UNCHANGED commandVars /\ ~In(t, "send")
        /\ \E pc \in Inside : frames' = Moved(t, pc)
    BY <1>3 DEF CallBack, CallbackReturns, ProcessCommands, NothingToDo, In, Inside
  <2>2. QED
    BY <2>1 DEF Moved, CallsOK, FramesOK
<1>4. ASSUME CallbackRaises(t)
      PROVE  /\ UNCHANGED commandVars /\ ~In(t, "send")
             /\ \A u \in Threads \ {t} : frames'[u] = frames[u]
  <2>1. UNCHANGED commandVars /\ In(t, "callback") /\ RaisingStep(t)
    BY <1>4, Zenon DEF CallbackRaises, RaisingStep
  <2>2. QED
    BY <2>1, RaisingStepKeeps DEF In, Changed
<1>5. QED
  BY <1>1, <1>2, <1>3, <1>4 DEF OtherStep

LEMMA AnswersInductive ==
  ASSUME CallsOK, cwd \in Dirs, AnswersOK, [Next]_vars
  PROVE  AnswersOK'
<1>1. ASSUME Setup \/ UNCHANGED vars \/ Post
      PROVE  AnswersOK'
  <2>1. /\ UNCHANGED <<frames, taken, cmd, replies, lost>>
        /\ posted' = posted \/ posted' = posted + 1
    BY <1>1 DEF Setup, Post, vars, commandVars
  <2>2. posted' \in Nat /\ posted' >= posted
    BY <2>1 DEF AnswersOK, AnswersTyped
  <2>3. cmd.req # 0 => Sending'
    BY <2>1 DEF AnswersOK, LastAnswered, Sending, In, Top
  <2>4. QED
    BY <2>1, <2>2, <2>3, OtherAnswers
<1>2. ASSUME NEW t \in Threads, OtherStep(t)
      PROVE  AnswersOK'
  <2>1. UNCHANGED <<taken, cmd, replies, lost, posted>>
    BY <1>2, OtherStepAlone DEF commandVars
  <2>2. cmd.req # 0 => Sending'
    BY <1>2, OtherStepAlone, StillSending DEF AnswersOK, LastAnswered
  <2>3. posted' \in Nat /\ posted' >= posted
    BY <2>1 DEF AnswersOK, AnswersTyped
  <2>4. QED
    BY <2>1, <2>2, <2>3, OtherAnswers
<1>3. ASSUME NEW t \in Threads, NEW a \in {"loop", "leave", "raise"}, ReceiveFails(t, a)
      PROVE  AnswersOK'
  <2>1. /\ cmd' = [req |-> 0, after |-> a] /\ UNCHANGED <<taken, replies, lost, posted>>
        /\ In(t, "receive")
    BY <1>3, Zenon DEF ReceiveFails
  <2>2. cmd.req = 0 /\ cmd'.req = 0
    BY <2>1, OneLoop DEF AnswersOK
  <2>3. AnswersTyped'
    BY <2>1 DEF AnswersOK, AnswersTyped
  <2>4. LastAnswered'
    BY <2>1, <2>2 DEF AnswersOK, LastAnswered
  <2>5. AnsweredInOrder'
    <3>1. UNCHANGED <<taken, replies, lost>> /\ cmd'.req = cmd.req
      BY <2>1, <2>2
    <3>2. QED
      BY <3>1, Zenon DEF AnswersOK, AnsweredInOrder
  <2>6. QED
    BY <2>3, <2>4, <2>5 DEF AnswersOK
<1>4. ASSUME NEW t \in Threads, Send(t) \/ SendFails(t)
      PROVE  AnswersOK'
  <2>1. /\ UNCHANGED <<posted, taken>> /\ cmd' = NoCmd
        /\ \/ replies' = Append(replies, cmd.req) /\ lost' = lost
           \/ replies' = replies /\ lost' = lost \cup ({cmd.req} \ {0})
    BY <1>4, Zenon DEF Send, SendFails, Replied
  <2>2. QED
    BY <2>1, AnswerSent
<1>5. CASE UNCHANGED vars
  BY <1>1, <1>5
<1>6. CASE Next
  BY <1>1, <1>2, <1>3, <1>4, <1>6, ReceiveAnswers, Zenon DEF Next, OtherStep
<1>7. QED
  BY <1>5, <1>6

-----------------------------------------------------------------------------
(* Theorems *)

IInv == ControllersOK /\ cwd \in Dirs /\ CallsOK /\ PlacesOK /\ AnswersOK

LEMMA InitInv ==
  ASSUME Init
  PROVE  IInv
<1>1. /\ object = [c \in Controllers |-> NoObject] /\ cwd = Home
      /\ \A t \in Threads : frames[t] = <<>> /\ hooks[t] = <<>> /\ Len(frames[t]) = 0 /\ Len(hooks[t]) = 0
  BY DEF Init, ControllerInit
<1>2. ControllersOK
  BY <1>1 DEF ControllersOK, ObjectsOK, ReportKept, AboutOwn
<1>3. cwd \in Dirs
  BY <1>1 DEF Home, Dirs
<1>4. FramesOK /\ HooksOK
  BY DEF Init, FramesOK, HooksOK
<1>5. Stacks
  BY <1>1 DEF Stacks, Below, Distinct, Present, LoopsOwned
<1>6. \A t \in Threads : RoutedAt(t)
  <2>1. SUFFICES ASSUME NEW t \in Threads
                 PROVE  RoutedAt(t)
    OBVIOUS
  <2>2. Routed(t) = {} /\ 1..Len(hooks[t]) = {}
    BY <1>1 DEF Routed
  <2> DEFINE at == [i \in {} |-> i]
  <2>3. at \in [1..Len(hooks[t]) -> Routed(t)] /\ {at[i] : i \in 1..Len(hooks[t])} = Routed(t)
    BY <2>2
  <2>4. QED
    BY <2>2, <2>3, Zenon DEF RoutedAt
<1>7. PlacesOK
  BY <1>1 DEF Init, PlacesOK, OneThread, IdleHome, FromHome, InChain
<1>8. AnswersOK
  <2>1. AnswersTyped /\ LastAnswered
    BY DEF Init, AnswersTyped, LastAnswered, NoCmd
  <2>2. taken = 0 /\ replies = <<>> /\ lost = {} /\ cmd.req = 0 /\ Len(replies) = 0
    BY DEF Init, NoCmd
  <2>3. AnsweredInOrder
    BY <2>2 DEF AnsweredInOrder
  <2>4. QED
    BY <2>1, <2>3 DEF AnswersOK
<1>9. QED
  BY <1>2, <1>3, <1>4, <1>5, <1>6, <1>7, <1>8 DEF IInv, CallsOK, RoutedToOwn

LEMMA Invariant == Spec => []IInv
<1>1. IInv /\ [Next]_vars => IInv'
  <2>1. SUFFICES ASSUME IInv, [Next]_vars
                 PROVE  IInv'
    OBVIOUS
  <2>2. ControllersOK' /\ cwd' \in Dirs
    BY <2>1, ControllersInductive DEF IInv
  <2>3. CallsOK'
    BY <2>1, CallsInductive DEF IInv
  <2>4. PlacesOK'
    BY <2>1, PlacesInductive DEF IInv
  <2>5. AnswersOK'
    BY <2>1, AnswersInductive DEF IInv
  <2>6. QED
    BY <2>2, <2>3, <2>4, <2>5 DEF IInv
<1>2. QED
  BY InitInv, <1>1, PTL DEF Spec

\* What the invariant does not need to know.
RestTyped ==
  doProcess \in BOOLEAN /\ failures \in Nat /\ disturbed \subseteq {"overlap", "jump"}

LEMMA RestInductive ==
  ASSUME RestTyped, [Next]_vars
  PROVE  RestTyped'
<1>1. ASSUME NEW t \in Threads, \/ \E c \in Controllers : Start(t, c)
                                \/ CallbackRaises(t) \/ Send(t) \/ SendFails(t)
      PROVE  RestTyped'
  <2>1. /\ UNCHANGED doProcess
        /\ failures' = failures \/ failures' = failures + 1
    BY <1>1, Zenon DEF Start, CallbackRaises, Send, SendFails, commandVars
  <2>2. disturbed' \subseteq {"overlap", "jump"}
    BY <1>1 DEF RestTyped, Start, CallbackRaises, Send, SendFails, Uncaught
  <2>3. QED
    BY <2>1, <2>2 DEF RestTyped
<1>2. ASSUME NEW t \in Threads, \/ \E k \in Commands : Receive(t, k)
                                \/ \E a \in {"loop", "leave", "raise"} : ReceiveFails(t, a)
      PROVE  RestTyped'
  <2>1. CASE \E k \in Commands : Receive(t, k)
    <3>1. PICK k \in Commands : Receive(t, k)
      BY <2>1
    <3>2. (k \notin {"finalize", "terminate"}) \in BOOLEAN
      BY Zenon
    <3>3. UNCHANGED <<failures, disturbed>> /\ doProcess' = (k \notin {"finalize", "terminate"})
      BY <3>1, Zenon DEF Receive
    <3>4. doProcess' \in BOOLEAN
      BY <3>2, <3>3, Zenon
    <3>5. QED
      BY <3>3, <3>4 DEF RestTyped
  <2>2. CASE \E a \in {"loop", "leave", "raise"} : ReceiveFails(t, a)
    <3>1. UNCHANGED <<doProcess, disturbed>> /\ failures' = failures + 1
      BY <2>2, Zenon DEF ReceiveFails
    <3>2. QED
      BY <3>1 DEF RestTyped
  <2>3. QED
    BY <1>2, <2>1, <2>2
<1>3. ASSUME NEW t \in Threads, \/ ChangeDir(t) \/ CannotChange(t) \/ Return(t) \/ CallBack(t)
                                \/ CallbackReturns(t) \/ ProcessCommands(t) \/ NothingToDo(t)
      PROVE  RestTyped'
  <2>1. UNCHANGED <<doProcess, failures, disturbed>>
    BY <1>3, Zenon DEF ChangeDir, CannotChange, Return, CallBack, CallbackReturns, ProcessCommands,
                       NothingToDo, commandVars
  <2>2. QED
    BY <2>1 DEF RestTyped
<1>4. ASSUME Setup \/ Post \/ UNCHANGED vars
      PROVE  RestTyped'
  <2>1. UNCHANGED <<doProcess, failures, disturbed>>
    BY <1>4, Zenon DEF Setup, Post, vars, commandVars
  <2>2. QED
    BY <2>1 DEF RestTyped
<1>5. CASE UNCHANGED vars
  BY <1>4, <1>5
<1>6. CASE Next
  BY <1>1, <1>2, <1>3, <1>4, <1>6, Zenon DEF Next
<1>7. QED
  BY <1>5, <1>6

\* All variables keep their types: objects, stacks of calls and of hooks, and what became
\* of the commands.
THEOREM TypesKept == Spec => []TypeOK
<1>1. Init => RestTyped
  BY DEF Init, RestTyped
<1>2. RestTyped /\ [Next]_vars => RestTyped'
  BY RestInductive
<1>3. IInv /\ RestTyped => TypeOK
  BY DEF IInv, RestTyped, TypeOK, ControllersOK, ObjectsOK, CallsOK, FramesOK, HooksOK,
         AnswersOK, AnswersTyped
<1>4. QED
  BY <1>1, <1>2, <1>3, Invariant, PTL DEF Spec

\* When Python's binding gets its libfde and there is a controller that reports the one
\* of the native code, made before or in that step, it gets that one
\* (FDEController.initialize, LibLoader.handle).
THEOREM LibraryShared == Spec => SameLibrary
<1>1. ASSUME IInv, [Next]_vars
      PROVE  [coreHdl = "unset" /\ coreHdl' # "unset"
                /\ (\E c \in Controllers : object'[c] # NoObject /\ object'[c].class \in Reporting)
              => coreHdl' = "native"]_controllerVars
  <2>1. CASE Setup
    BY <1>1, <2>1, ControllerKeeps DEF IInv, Setup
  <2>2. CASE ~Setup
    BY <1>1, <2>2, ControllersUnchanged
  <2>3. QED
    BY <2>1, <2>2
<1>2. QED
  BY <1>1, Invariant, PTL DEF Spec, SameLibrary

\* An exception that leaves a callback is thrown into the innermost simulator of its own
\* thread, whatever starts returned, failed or were jumped over (_ExceptDispatch).
THEOREM ExceptionsRouted == Spec => []RoutedToOwn
<1>1. IInv => RoutedToOwn
  BY DEF IInv, CallsOK
<1>2. QED
  BY <1>1, Invariant, PTL

\* Simulators run in their own directories, and the process returns to where it was
\* (Startable.start).
THEOREM DirectoriesRight == Spec => []InRightDirectory
<1>1. ASSUME IInv
      PROVE  InRightDirectory
  <2>1. ASSUME NEW t \in Threads, disturbed = {}, frames[t] # <<>>, Top(t).pc \in Inside
        PROVE  cwd = OwnDir(Top(t).ctl)
    <3>1. Len(frames[t]) >= 1
      BY <1>1, <2>1, StackTyped DEF IInv, CallsOK
    <3>2. QED
      BY <1>1, <2>1, <3>1 DEF IInv, PlacesOK, InChain, Top
  <2>2. QED
    BY <1>1, <2>1 DEF InRightDirectory, IInv, PlacesOK, IdleHome, Quiet
<1>2. QED
  BY <1>1, Invariant, PTL

\* Every command that was received is answered once and in order, or its reply is lost, for
\* any number of commands, threads and nested starts (CommandProcessor.processCommands).
THEOREM CommandsAnswered == Spec => []AnsweredInOrder
<1>1. IInv => AnsweredInOrder
  BY DEF IInv, AnswersOK
<1>2. QED
  BY <1>1, Invariant, PTL

=============================================================================
