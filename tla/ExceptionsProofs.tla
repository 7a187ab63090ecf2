--------------------------- MODULE ExceptionsProofs ---------------------------
(***************************************************************************)
(* Proofs about Exceptions.tla, for any codes, catch lists and bounds.     *)
(*                                                                         *)
(* Everything follows from one invariant, IInv.  The stack of catch points *)
(* and the stack of calls change independently of each other: a search     *)
(* takes catch points away while the calls that opened them are still      *)
(* there, and a cleanup procedure may open new ones on top.  Structure     *)
(* says how they belong together all the same; SearchesDone and            *)
(* DoneUnderSearch say which cleanup procedures have run.                  *)
(***************************************************************************)
EXTENDS Exceptions, SequenceTheorems, TLAPS

\* A call has the catch point of the one it was made by or, called by f_try, the
\* next; only f_try is called by nothing that is modelled.
Linked ==
  \A q \in 1..Len(calls) :
    /\ calls[q].at = "body" => calls[q].frame = (IF q = 1 THEN 1 ELSE calls[q - 1].frame + 1)
    /\ calls[q].at = "pop" => /\ q > 1
                              /\ calls[q - 1].at = "body"
                              /\ calls[q - 1].frame = calls[q].frame
    /\ calls[q].at = "search" => q > 1

\* Catch points are opened by calls further and further up.
HeightsIncrease ==
  \A k \in 1..Len(frames) : \A j \in 1..(k - 1) : frames[j].height < frames[k].height

\* A catch point with the number of that of a call was opened by it or by a later
\* call: the calls whose catch point a search took away are never on top.
BodiesUnderFrames ==
  \A q \in 1..Len(calls) :
    calls[q].at = "body" /\ calls[q].frame <= Len(frames) => frames[calls[q].frame].height >= q - 1

\* Calls end with the last catch point.
FrameCounted == frames = <<>> => calls = <<>>

\* A search, if its catch point is still the one it began with, has all cleanup
\* procedures done from the last to the one it is in.
SearchesDone ==
  \A p \in 1..Len(calls) :
    calls[p].at = "search" /\ calls[p].frame \in 1..Len(frames) =>
      (frames[calls[p].frame].height < p =>
        /\ calls[p].left <= Len(frames[calls[p].frame].cleaners)
        /\ \A i \in 1..Len(frames[calls[p].frame].cleaners) :
             i > calls[p].left => frames[calls[p].frame].cleaners[i])

\* The calls between the setjmp of catch point k and that of the next one.
CallsOf(k) ==
  (frames[k].height + 1)..(IF k < Len(frames) THEN frames[k + 1].height ELSE Len(calls))

\* Where a cleanup procedure has run the later ones have, and a search at that
\* catch point, or further down, lies under all catch points opened since.
DoneUnderSearch ==
  \A k \in 1..Len(frames) : \A i \in 1..Len(frames[k].cleaners) :
    frames[k].cleaners[i] =>
      /\ \A j \in 1..Len(frames[k].cleaners) : j > i => frames[k].cleaners[j]
      /\ \E p \in CallsOf(k) : calls[p].at = "search" /\ calls[p].frame <= k

\* How catch points and calls belong together.
Structure == /\ JumpTargetsLive /\ OwnFrameOnTop /\ Linked
             /\ HeightsIncrease /\ BodiesUnderFrames /\ FrameCounted

\* The inductive invariant.
IInv == TypeOK /\ Structure /\ SearchesDone /\ DoneUnderSearch

-----------------------------------------------------------------------------
(* Sequences and types *)

\* Two facts of arithmetic, on numbers that are lengths below.
LEMMA BelowIsIn == \A k, f \in Nat : k >= 1 /\ k <= f - 1 => k \in 1..(f - 1) /\ k <= f
  OBVIOUS

LEMMA AboveOne == \A f \in Nat : f > 1 => f # 1
  OBVIOUS

\* The beginning of a sequence.
LEMMA CutTo ==
  ASSUME NEW S, NEW s \in Seq(S), NEW m \in 0..Len(s)
  PROVE  /\ SubSeq(s, 1, m) \in Seq(S)
         /\ Len(SubSeq(s, 1, m)) = m
         /\ \A i \in 1..m : SubSeq(s, 1, m)[i] = s[i]
<1>1. \A i \in 1..m : s[i] \in S
  BY ElementOfSeq
<1> QED
  BY <1>1, SubSeqProperties

\* A sequence without its last element.
LEMMA DropLastCuts ==
  ASSUME NEW S, NEW s \in Seq(S), s # <<>>
  PROVE  /\ DropLast(s) \in Seq(S)
         /\ Len(DropLast(s)) = Len(s) - 1
         /\ \A i \in 1..(Len(s) - 1) : DropLast(s)[i] = s[i]
<1>1. Len(s) - 1 \in 0..Len(s)
  BY EmptySeq
<1> QED
  BY <1>1, CutTo DEF DropLast

\* Replacing an element of a sequence by anything leaves its length.
LEMMA SameLength ==
  ASSUME NEW S, NEW s \in Seq(S), NEW i \in 1..Len(s), NEW e
  PROVE  Len([s EXCEPT ![i] = e]) = Len(s)
<1>1. s \in Seq(S \cup {e})
  BY SeqMonotonic
<1> QED
  BY <1>1, ExceptSeq

\* The types of the fields, by index.
LEMMA FieldTypes ==
  ASSUME TypeOK
  PROVE  /\ Len(frames) \in Nat /\ Len(calls) \in Nat
         /\ \A k \in 1..Len(frames) : /\ frames[k] \in Frame
                                      /\ frames[k].height \in Nat
                                      /\ frames[k].cleaners \in Seq(BOOLEAN)
                                      /\ Len(frames[k].cleaners) \in Nat
         /\ \A q \in 1..Len(calls) : /\ calls[q] \in Call
                                     /\ calls[q].frame \in Nat /\ calls[q].frame >= 1
                                     /\ calls[q].left \in Nat
<1>1. frames \in Seq(Frame) /\ calls \in Seq(Call)
  BY DEF TypeOK
<1>2. \A k \in 1..Len(frames) : frames[k] \in Frame
  BY <1>1, ElementOfSeq
<1>3. \A q \in 1..Len(calls) : calls[q] \in Call
  BY <1>1, ElementOfSeq
<1>4. \A k \in 1..Len(frames) : /\ frames[k].height \in Nat
                                /\ frames[k].cleaners \in Seq(BOOLEAN)
  BY <1>2 DEF Frame
<1>5. \A k \in 1..Len(frames) : Len(frames[k].cleaners) \in Nat
  BY <1>4, LenProperties
<1>6. \A q \in 1..Len(calls) : /\ calls[q].frame \in Nat /\ calls[q].frame >= 1
                               /\ calls[q].left \in Nat
  BY <1>3 DEF Call
<1> QED
  BY <1>1, <1>2, <1>3, <1>4, <1>5, <1>6, LenProperties

\* While there are calls there is a catch point, that of the last call.
LEMMA LastExists ==
  ASSUME IInv, calls # <<>>
  PROVE  /\ Len(calls) \in Nat \ {0}
         /\ Len(frames) \in Nat \ {0}
         /\ frames # <<>>
         /\ Top \in Call
         /\ Top.frame = Len(frames)
         /\ Back \in Frame
<1>1. frames \in Seq(Frame) /\ calls \in Seq(Call)
  BY DEF IInv, TypeOK
<1>2. Len(calls) \in Nat \ {0} /\ frames # <<>>
  BY <1>1, EmptySeq DEF IInv, Structure, FrameCounted
<1>3. Len(frames) \in Nat \ {0}
  BY <1>1, <1>2, EmptySeq
<1>4. Top \in Call /\ Back \in Frame
  BY <1>1, <1>2, <1>3, ElementOfSeq DEF Top, Back
<1> QED
  BY <1>2, <1>3, <1>4 DEF IInv, Structure, OwnFrameOnTop

\* The catch point of a procedure that runs was opened for it.
LEMMA BodyAtHeight ==
  ASSUME IInv, calls # <<>>, Top.at = "body"
  PROVE  Back.height = Len(calls) - 1
<1>1. /\ Len(calls) \in Nat \ {0}
      /\ Len(frames) \in Nat \ {0}
      /\ Top.frame = Len(frames)
      /\ Back \in Frame
  BY LastExists
<1>2. Back.height < Len(calls) /\ Back.height \in Nat
  BY <1>1 DEF IInv, Structure, JumpTargetsLive, Back, Frame
<1>3. Back.height >= Len(calls) - 1
  BY <1>1 DEF IInv, Structure, BodiesUnderFrames, Back, Top
<1> QED
  BY <1>1, <1>2, <1>3

\* Closing the last catch point together with all calls above its setjmp, be it
\* by a return or by longjmp, keeps everything in place.
LEMMA CutKeeps ==
  ASSUME IInv, calls # <<>>,
         frames' = DropLast(frames), calls' = SubSeq(calls, 1, Back.height)
  PROVE  /\ frames' \in Seq(Frame) /\ calls' \in Seq(Call)
         /\ Structure' /\ SearchesDone' /\ DoneUnderSearch'
<1> DEFINE F == Len(frames)
           h == Back.height
<1>1. /\ Len(calls) \in Nat \ {0}
      /\ F \in Nat \ {0}
      /\ frames # <<>>
      /\ frames \in Seq(Frame) /\ calls \in Seq(Call)
      /\ \A k \in 1..F : frames[k].height \in Nat
      /\ \A q \in 1..Len(calls) : calls[q].frame \in Nat /\ calls[q].frame >= 1
  BY LastExists, FieldTypes DEF IInv, TypeOK
<1>2. h \in Nat /\ h < Len(calls) /\ calls[h + 1] = Body(F)
  BY <1>1, LastExists DEF IInv, Structure, JumpTargetsLive, Back, Frame
<1>3. /\ frames' \in Seq(Frame)
      /\ Len(frames') = F - 1
      /\ \A k \in 1..(F - 1) : frames'[k] = frames[k]
  BY <1>1, DropLastCuts
<1>4. /\ calls' \in Seq(Call)
      /\ Len(calls') = h
      /\ \A q \in 1..h : calls'[q] = calls[q]
  BY <1>1, <1>2, CutTo
<1>5. \A k \in 1..(F - 1) : frames[k].height < h /\ frames[k].height \in Nat
  <2>1. \A k \in 1..F : frames[k] \in Frame
    BY <1>1, ElementOfSeq
  <2>2. \A k \in 1..F : frames[k].height \in Nat
    BY <2>1 DEF Frame
  <2>3. F \in 1..F /\ F \in Nat
    BY <1>1
  <2>4. \A j \in 1..(F - 1) : frames[j].height < frames[F].height
    BY <2>3 DEF IInv, Structure, HeightsIncrease
  <2>5. \A k \in 1..(F - 1) : k \in 1..F
    BY <2>3
  <2>6. h = frames[F].height
    BY DEF Back
  <2> QED
    BY <2>2, <2>4, <2>5, <2>6
<1>6. JumpTargetsLive'
  <2> SUFFICES ASSUME NEW k \in 1..Len(frames')
               PROVE  /\ frames'[k].height < Len(calls')
                      /\ calls'[frames'[k].height + 1] = Body(k)
    BY DEF JumpTargetsLive, Body
  <2>1. k \in 1..(F - 1) /\ k \in 1..F /\ frames'[k] = frames[k]
    BY <1>1, <1>3, SMTT(30)
  <2>2. calls[frames[k].height + 1] = Body(k)
    BY <2>1 DEF IInv, Structure, JumpTargetsLive
  <2>3. frames[k].height + 1 \in 1..h /\ frames[k].height < h
    BY <2>1, <1>2, <1>5
  <2> QED
    BY <2>1, <2>2, <2>3, <1>4
<1>7. calls' # <<>> => calls[h].frame = F - 1
  <2>1. calls' # <<>> => h >= 1
    BY <1>4, EmptySeq, <1>2
  <2>2. h >= 1 => calls[h + 1].frame = calls[h].frame + 1
    <3>1. h + 1 \in 1..Len(calls) /\ calls[h + 1].at = "body"
      BY <1>1, <1>2 DEF Body
    <3>2. calls[h + 1].frame = (IF h + 1 = 1 THEN 1 ELSE calls[(h + 1) - 1].frame + 1)
      BY <3>1 DEF IInv, Structure, Linked
    <3>3. (h + 1) - 1 = h
      BY <1>2
    <3> QED
      BY <3>2, <3>3, <1>2
  <2>3. h >= 1 => calls[h].frame \in Nat
    BY <1>1, <1>2
  <2>4. calls[h + 1].frame = F
    BY <1>2 DEF Body
  <2>5. h >= 1 => F = calls[h].frame + 1 /\ F \in Nat
    BY <2>2, <2>4, <1>1
  <2> QED
    BY <2>1, <2>3, <2>5
<1>8. OwnFrameOnTop'
  <2> SUFFICES ASSUME calls' # <<>>
               PROVE  Top'.frame = F - 1
    BY <1>3 DEF OwnFrameOnTop
  <2>1. h >= 1
    BY <1>2, <1>4, EmptySeq
  <2> QED
    BY <2>1, <1>2, <1>4, <1>7 DEF Top
<1>9. Linked'
  <2> SUFFICES ASSUME NEW q \in 1..h
               PROVE  /\ calls'[q].at = "body" =>
                           calls'[q].frame = (IF q = 1 THEN 1 ELSE calls'[q - 1].frame + 1)
                      /\ calls'[q].at = "pop" => /\ q > 1
                                                 /\ calls'[q - 1].at = "body"
                                                 /\ calls'[q - 1].frame = calls'[q].frame
                      /\ calls'[q].at = "search" => q > 1
    BY <1>4 DEF Linked
  <2>1. calls'[q] = calls[q] /\ (q > 1 => calls'[q - 1] = calls[q - 1])
    BY <1>2, <1>4
  <2>2. q \in 1..Len(calls) /\ q \in Nat /\ (q # 1 => q > 1)
    BY <1>1, <1>2
  <2>3. /\ calls[q].at = "body" => calls[q].frame = (IF q = 1 THEN 1 ELSE calls[q - 1].frame + 1)
        /\ calls[q].at = "pop" => /\ q > 1
                                  /\ calls[q - 1].at = "body"
                                  /\ calls[q - 1].frame = calls[q].frame
        /\ calls[q].at = "search" => q > 1
    BY <2>2 DEF IInv, Structure, Linked
  <2> QED
    BY <2>1, <2>2, <2>3
<1>10. HeightsIncrease'
  <2> SUFFICES ASSUME NEW k \in 1..(F - 1), NEW j \in 1..(k - 1)
               PROVE  frames'[j].height < frames'[k].height
    BY <1>3 DEF HeightsIncrease
  <2>1. k \in 1..F /\ j \in 1..(F - 1)
    BY <1>1
  <2>2. frames[j].height < frames[k].height
    BY <2>1 DEF IInv, Structure, HeightsIncrease
  <2> QED
    BY <1>3, <2>1, <2>2
<1>11. BodiesUnderFrames'
  <2> SUFFICES ASSUME NEW q \in 1..h, calls'[q].at = "body",
                      NEW k, k = calls'[q].frame, k <= F - 1
               PROVE  frames'[k].height >= q - 1
    BY <1>3, <1>4 DEF BodiesUnderFrames
  <2>1. q \in 1..Len(calls) /\ calls'[q] = calls[q]
    <3>1. calls'[q] = calls[q]
      BY <1>4
    <3> QED
      BY <1>1, <1>2, <3>1
  <2>2. k \in Nat /\ k >= 1
    BY <1>1, <2>1
  <2>3. k \in 1..(F - 1) /\ k <= F
    <3>1. F \in Nat
      BY <1>1
    <3> HIDE DEF F
    <3> QED
      BY <2>2, <3>1, BelowIsIn
  <2>4. frames[k].height >= q - 1
    BY <2>1, <2>3 DEF IInv, Structure, BodiesUnderFrames
  <2> QED
    BY <1>3, <2>3, <2>4
<1>12. FrameCounted'
  <2> SUFFICES ASSUME frames' = <<>>, calls' # <<>>
               PROVE  FALSE
    BY DEF FrameCounted
  <2>1. F - 1 = 0
    BY <1>3, EmptySeq
  <2>2. h >= 1
    BY <1>2, <1>4, EmptySeq
  <2>3. h \in 1..Len(calls)
    BY <2>2, <1>1, <1>2
  <2>4. calls[h].frame = 0
    BY <2>1, <1>7
  <2> QED
    BY <2>3, <2>4, <1>1
<1>13. SearchesDone'
  <2> SUFFICES ASSUME NEW p \in 1..Len(calls'), calls'[p].at = "search",
                      calls'[p].frame \in 1..Len(frames'),
                      frames'[calls'[p].frame].height < p
               PROVE  /\ calls'[p].left <= Len(frames'[calls'[p].frame].cleaners)
                      /\ \A i \in 1..Len(frames'[calls'[p].frame].cleaners) :
                           i > calls'[p].left => frames'[calls'[p].frame].cleaners[i]
    BY DEF SearchesDone
  <2>1. p \in 1..h /\ p \in 1..Len(calls) /\ calls'[p] = calls[p]
    BY <1>1, <1>2, <1>4
  <2>2. calls[p].frame \in 1..(F - 1)
    BY <2>1, <1>3
  <2>3. frames'[calls[p].frame] = frames[calls[p].frame]
    BY <2>2, <1>3
  <2>4. calls[p].frame \in 1..F
    BY <2>2, <1>1
  <2> QED
    BY <2>1, <2>3, <2>4 DEF IInv, SearchesDone
<1>14. DoneUnderSearch'
  <2> SUFFICES ASSUME NEW k \in 1..(F - 1), NEW i \in 1..Len(frames[k].cleaners),
                      frames[k].cleaners[i]
               PROVE  /\ \A j \in 1..Len(frames[k].cleaners) : j > i => frames[k].cleaners[j]
                      /\ \E p \in CallsOf(k)' : calls'[p].at = "search" /\ calls'[p].frame <= k
    BY <1>3 DEF DoneUnderSearch
  <2>1. k \in 1..F /\ k < F /\ k + 1 <= F
    BY <1>1
  <2>2. \A j \in 1..Len(frames[k].cleaners) : j > i => frames[k].cleaners[j]
    BY <2>1 DEF IInv, DoneUnderSearch
  <2>3. PICK p \in CallsOf(k) : calls[p].at = "search" /\ calls[p].frame <= k
    BY <2>1 DEF IInv, DoneUnderSearch
  <2>4. p \in (frames[k].height + 1)..frames[k + 1].height
    BY <2>1 DEF CallsOf
  <2>5. frames[k + 1].height <= h /\ frames[k].height \in Nat /\ frames[k + 1].height \in Nat
    BY <1>1, <1>2, <1>5, <2>1, SMTT(30) DEF Back
  <2>6. p \in 1..h
    BY <2>4, <2>5, <1>2, SMTT(30)
  <2>7. p \in CallsOf(k)'
    <3>1. CASE k < F - 1
      <4>1. k + 1 \in 1..(F - 1) /\ k < Len(frames')
        BY <3>1, <1>1, <1>3
      <4> QED
        BY <4>1, <1>3, <2>4 DEF CallsOf
    <3>2. CASE k = F - 1
      BY <3>2, <1>1, <1>3, <1>4, <2>4, <2>5, <2>6, SMTT(30) DEF CallsOf
    <3> QED
      BY <3>1, <3>2, <1>1
  <2> QED
    BY <2>2, <2>3, <2>6, <2>7, <1>4
<1> QED
  BY <1>3, <1>4, <1>6, <1>8, <1>9, <1>10, <1>11, <1>12, <1>13, <1>14 DEF Structure

-----------------------------------------------------------------------------
(* Steps that leave the catch points and the calls where they are *)

\* The structure depends on the kinds and numbers of the calls and on the
\* heights of the catch points only.
LEMMA SameShape ==
  ASSUME IInv,
         Len(frames') = Len(frames), Len(calls') = Len(calls), calls # <<>>,
         calls' \in Seq(Call), frames' \in Seq(Frame),
         \A k \in 1..Len(frames) : frames'[k].height = frames[k].height,
         \A q \in 1..Len(calls) : /\ calls'[q].at = calls[q].at
                                  /\ calls'[q].frame = calls[q].frame
                                  /\ calls[q].at = "body" => calls'[q] = calls[q]
  PROVE  Structure'
<1>1. /\ Len(calls) \in Nat \ {0} /\ Len(frames) \in Nat \ {0}
      /\ \A k \in 1..Len(frames) : frames[k].height \in Nat
      /\ \A q \in 1..Len(calls) : calls[q].frame \in Nat /\ calls[q].frame >= 1
  BY LastExists, FieldTypes DEF IInv
<1>2. JumpTargetsLive'
  <2> SUFFICES ASSUME NEW k \in 1..Len(frames')
               PROVE  /\ frames'[k].height < Len(calls')
                      /\ calls'[frames'[k].height + 1] = Body(k)
    BY DEF JumpTargetsLive, Body
  <2>1. frames[k].height < Len(calls) /\ calls[frames[k].height + 1] = Body(k)
    BY DEF IInv, Structure, JumpTargetsLive
  <2>2. frames[k].height + 1 \in 1..Len(calls)
    BY <1>1, <2>1
  <2>3. calls[frames[k].height + 1].at = "body"
    BY <2>1 DEF Body
  <2>4. calls'[frames[k].height + 1] = Body(k)
    BY <2>1, <2>2, <2>3
  <2>5. frames'[k].height = frames[k].height
    OBVIOUS
  <2> QED
    BY <2>1, <2>4, <2>5
<1>3. OwnFrameOnTop'
  <2>1. Len(calls) \in 1..Len(calls)
    BY <1>1
  <2>2. calls'[Len(calls)].frame = calls[Len(calls)].frame
    BY <2>1
  <2>3. calls[Len(calls)].frame = Len(frames)
    BY DEF IInv, Structure, OwnFrameOnTop, Top
  <2> QED
    BY <2>2, <2>3 DEF OwnFrameOnTop, Top
<1>4. Linked'
  <2> SUFFICES ASSUME NEW q \in 1..Len(calls)
               PROVE  /\ calls'[q].at = "body" =>
                           calls'[q].frame = (IF q = 1 THEN 1 ELSE calls'[q - 1].frame + 1)
                      /\ calls'[q].at = "pop" => /\ q > 1
                                                 /\ calls'[q - 1].at = "body"
                                                 /\ calls'[q - 1].frame = calls'[q].frame
                      /\ calls'[q].at = "search" => q > 1
    BY DEF Linked
  <2>1. /\ calls[q].at = "body" => calls[q].frame = (IF q = 1 THEN 1 ELSE calls[q - 1].frame + 1)
        /\ calls[q].at = "pop" => /\ q > 1
                                  /\ calls[q - 1].at = "body"
                                  /\ calls[q - 1].frame = calls[q].frame
        /\ calls[q].at = "search" => q > 1
    BY DEF IInv, Structure, Linked
  <2>2. q # 1 => q - 1 \in 1..Len(calls)
    BY <1>1
  <2>3. calls'[q].at = calls[q].at /\ calls'[q].frame = calls[q].frame
    OBVIOUS
  <2>4. q # 1 => calls'[q - 1].at = calls[q - 1].at /\ calls'[q - 1].frame = calls[q - 1].frame
    BY <2>2
  <2>5. q > 1 => q # 1
    OBVIOUS
  <2> QED
    BY <2>1, <2>3, <2>4, <2>5
<1>5. HeightsIncrease'
  <2> SUFFICES ASSUME NEW k \in 1..Len(frames'), NEW j \in 1..(k - 1)
               PROVE  frames'[j].height < frames'[k].height
    BY DEF HeightsIncrease
  <2>1. k \in 1..Len(frames) /\ j \in 1..Len(frames)
    BY <1>1
  <2> QED
    BY <2>1 DEF IInv, Structure, HeightsIncrease
<1>6. BodiesUnderFrames'
  <2> SUFFICES ASSUME NEW q \in 1..Len(calls'), calls'[q].at = "body",
                      calls'[q].frame <= Len(frames')
               PROVE  frames'[calls'[q].frame].height >= q - 1
    BY DEF BodiesUnderFrames
  <2>1. q \in 1..Len(calls)
    OBVIOUS
  <2>2. calls'[q].frame = calls[q].frame /\ calls[q].at = "body"
    BY <2>1
  <2>3. calls[q].frame <= Len(frames) /\ calls[q].frame \in Nat /\ calls[q].frame >= 1
    BY <1>1, <2>1, <2>2
  <2>4. calls[q].frame \in 1..Len(frames)
    BY <1>1, <2>3
  <2>5. frames[calls[q].frame].height >= q - 1
    BY <2>1, <2>2, <2>3 DEF IInv, Structure, BodiesUnderFrames
  <2>6. frames'[calls[q].frame].height = frames[calls[q].frame].height
    BY <2>4
  <2> QED
    BY <2>2, <2>5, <2>6
<1>7. FrameCounted'
  BY <1>1, EmptySeq DEF FrameCounted
<1> QED
  BY <1>2, <1>3, <1>4, <1>5, <1>6, <1>7 DEF Structure

-----------------------------------------------------------------------------
(* Steps that add a call *)

\* A sequence with one more element.
LEMMA Appended ==
  ASSUME NEW S, NEW s \in Seq(S), NEW e \in S
  PROVE  /\ Append(s, e) \in Seq(S)
         /\ Len(Append(s, e)) = Len(s) + 1
         /\ \A i \in 1..Len(s) : Append(s, e)[i] = s[i]
         /\ Append(s, e)[Len(s) + 1] = e
BY LenProperties

\* A search or a pop_cleanup that begins keeps everything in place.
LEMMA CallAdded ==
  ASSUME IInv, calls # <<>>, frames' = frames,
         NEW c \in Call, calls' = Append(calls, c),
         c.frame = Len(frames), c.at \in {"pop", "search"},
         c.at = "pop" => Top.at = "body",
         c.at = "search" => c.left = Len(Back.cleaners)
  PROVE  calls' \in Seq(Call) /\ Structure' /\ SearchesDone' /\ DoneUnderSearch'
<1> DEFINE n == Len(calls)
           F == Len(frames)
<1>1. /\ n \in Nat \ {0} /\ F \in Nat \ {0}
      /\ calls \in Seq(Call) /\ frames \in Seq(Frame)
      /\ Top.frame = F
      /\ \A k \in 1..F : frames[k].height \in Nat /\ Len(frames[k].cleaners) \in Nat
      /\ \A q \in 1..n : calls[q].frame \in Nat /\ calls[q].frame >= 1
  BY LastExists, FieldTypes DEF IInv, TypeOK
<1>2. /\ calls' \in Seq(Call)
      /\ Len(calls') = n + 1
      /\ \A q \in 1..n : calls'[q] = calls[q]
      /\ calls'[n + 1] = c
  BY <1>1, Appended
<1>3. JumpTargetsLive'
  <2> SUFFICES ASSUME NEW k \in 1..F
               PROVE  /\ frames[k].height < n + 1
                      /\ calls'[frames[k].height + 1] = Body(k)
    BY <1>2 DEF JumpTargetsLive, Body
  <2>1. frames[k].height < n /\ calls[frames[k].height + 1] = Body(k)
    BY DEF IInv, Structure, JumpTargetsLive
  <2>2. frames[k].height + 1 \in 1..n
    BY <1>1, <2>1
  <2> QED
    BY <1>1, <1>2, <2>1, <2>2
<1>4. OwnFrameOnTop'
  BY <1>2 DEF OwnFrameOnTop, Top
<1>5. Linked'
  <2> SUFFICES ASSUME NEW q \in 1..Len(calls')
               PROVE  /\ calls'[q].at = "body" =>
                           calls'[q].frame = (IF q = 1 THEN 1 ELSE calls'[q - 1].frame + 1)
                      /\ calls'[q].at = "pop" => /\ q > 1
                                                 /\ calls'[q - 1].at = "body"
                                                 /\ calls'[q - 1].frame = calls'[q].frame
                      /\ calls'[q].at = "search" => q > 1
    BY DEF Linked
  <2>1. CASE q \in 1..n
    <3>1. /\ calls[q].at = "body" => calls[q].frame = (IF q = 1 THEN 1 ELSE calls[q - 1].frame + 1)
          /\ calls[q].at = "pop" => /\ q > 1
                                    /\ calls[q - 1].at = "body"
                                    /\ calls[q - 1].frame = calls[q].frame
          /\ calls[q].at = "search" => q > 1
      BY <2>1 DEF IInv, Structure, Linked
    <3>2. q # 1 => q - 1 \in 1..n
      BY <1>1, <2>1
    <3> QED
      BY <1>2, <2>1, <3>1, <3>2
  <2>2. CASE q = n + 1
    <3>1. q > 1 /\ q - 1 = n /\ n \in 1..n
      BY <1>1, <2>2
    <3>2. calls'[q] = c /\ calls'[q - 1] = Top
      BY <1>2, <2>2, <3>1 DEF Top
    <3> QED
      BY <1>1, <3>1, <3>2
  <2> QED
    BY <1>1, <1>2, <2>1, <2>2
<1>6. HeightsIncrease'
  BY DEF IInv, Structure, HeightsIncrease
<1>7. BodiesUnderFrames'
  <2> SUFFICES ASSUME NEW q \in 1..Len(calls'), calls'[q].at = "body",
                      calls'[q].frame <= F
               PROVE  frames[calls'[q].frame].height >= q - 1
    BY DEF BodiesUnderFrames
  <2>1. q \in 1..n /\ calls'[q] = calls[q]
    BY <1>1, <1>2
  <2> QED
    BY <2>1 DEF IInv, Structure, BodiesUnderFrames
<1>8. FrameCounted'
  BY <1>1, EmptySeq DEF FrameCounted
<1>9. SearchesDone'
  <2> SUFFICES ASSUME NEW p \in 1..Len(calls'), calls'[p].at = "search",
                      calls'[p].frame \in 1..F,
                      frames[calls'[p].frame].height < p
               PROVE  /\ calls'[p].left <= Len(frames[calls'[p].frame].cleaners)
                      /\ \A i \in 1..Len(frames[calls'[p].frame].cleaners) :
                           i > calls'[p].left => frames[calls'[p].frame].cleaners[i]
    BY DEF SearchesDone
  <2>1. CASE p \in 1..n
    BY <1>2, <2>1 DEF IInv, SearchesDone
  <2>2. CASE p = n + 1
    <3>1. calls'[p] = c /\ calls'[p].left = Len(frames[F].cleaners) /\ F \in 1..F
      BY <1>1, <1>2, <2>2 DEF Back
    <3> QED
      BY <1>1, <3>1
  <2>3. p \in 1..n \/ p = n + 1
    BY <1>1, <1>2
  <2> QED
    BY <2>1, <2>2, <2>3
<1>10. DoneUnderSearch'
  <2> SUFFICES ASSUME NEW k \in 1..F, NEW i \in 1..Len(frames[k].cleaners),
                      frames[k].cleaners[i]
               PROVE  /\ \A j \in 1..Len(frames[k].cleaners) : j > i => frames[k].cleaners[j]
                      /\ \E p \in CallsOf(k)' : calls'[p].at = "search" /\ calls'[p].frame <= k
    BY DEF DoneUnderSearch
  <2>1. \A j \in 1..Len(frames[k].cleaners) : j > i => frames[k].cleaners[j]
    BY DEF IInv, DoneUnderSearch
  <2>2. PICK p \in CallsOf(k) : calls[p].at = "search" /\ calls[p].frame <= k
    BY DEF IInv, DoneUnderSearch
  <2>3. k < F => k + 1 \in 1..F /\ frames[k + 1].height < n
    BY <1>1 DEF IInv, Structure, JumpTargetsLive
  <2>4. p \in 1..n
    BY <1>1, <2>2, <2>3, SMTT(30) DEF CallsOf
  <2>5. p \in CallsOf(k)'
    BY <1>1, <1>2, <2>2, <2>4 DEF CallsOf
  <2> QED
    BY <1>2, <2>1, <2>2, <2>4, <2>5
<1> QED
  BY <1>2, <1>3, <1>4, <1>5, <1>6, <1>7, <1>8, <1>9, <1>10 DEF Structure

-----------------------------------------------------------------------------
(* Steps that change the cleanup procedures of the last catch point *)

\* What a change to the cleanup procedures of the last catch point leaves alone.
LEMMA BackChanged ==
  ASSUME IInv, calls # <<>>, NEW cs \in Seq(BOOLEAN),
         frames' = [frames EXCEPT ![Len(frames)].cleaners = cs]
  PROVE  /\ frames' \in Seq(Frame)
         /\ Len(frames') = Len(frames)
         /\ \A k \in 1..Len(frames) : frames'[k].height = frames[k].height
         /\ \A k \in 1..(Len(frames) - 1) : frames'[k].cleaners = frames[k].cleaners
         /\ frames'[Len(frames)].cleaners = cs
<1> DEFINE F == Len(frames)
           f == [Back EXCEPT !.cleaners = cs]
<1>1. F \in Nat \ {0} /\ Back \in Frame /\ frames \in Seq(Frame)
  BY LastExists DEF IInv, TypeOK
<1>2. f \in Frame /\ f.height = Back.height /\ f.cleaners = cs
  BY <1>1 DEF Frame
<1>3. frames' = [frames EXCEPT ![F] = f]
  BY DEF Back
<1>4. F \in 1..Len(frames)
  BY <1>1
<1>5. /\ frames' \in Seq(Frame)
      /\ Len(frames') = Len(frames)
      /\ \A k \in 1..Len(frames) : frames'[k] = IF k = F THEN f ELSE frames[k]
  BY <1>1, <1>2, <1>3, <1>4, ExceptSeq, SMTT(30)
<1>6. \A k \in 1..F : frames'[k].height = frames[k].height
  BY <1>2, <1>5 DEF Back
<1>7. \A k \in 1..(F - 1) : frames'[k].cleaners = frames[k].cleaners
  BY <1>1, <1>5
<1> QED
  BY <1>2, <1>4, <1>5, <1>6, <1>7

\* No search has begun to run the cleaners of the catch point of a procedure
\* that runs.
LEMMA BodyNotSearched ==
  ASSUME IInv, calls # <<>>, Top.at = "body"
  PROVE  /\ \A p \in 1..Len(calls) : calls[p].at = "search" => p <= Back.height
         /\ \A i \in 1..Len(Back.cleaners) : ~Back.cleaners[i]
<1>1. /\ Len(calls) \in Nat \ {0} /\ Len(frames) \in Nat \ {0}
      /\ Back.height = Len(calls) - 1
  BY LastExists, BodyAtHeight
<1>2. \A p \in 1..Len(calls) : calls[p].at = "search" => p <= Back.height
  BY <1>1 DEF Top
<1>3. ASSUME NEW i \in 1..Len(Back.cleaners), Back.cleaners[i]
      PROVE  FALSE
  <2>1. Len(frames) \in 1..Len(frames)
    BY <1>1
  <2>2. PICK p \in CallsOf(Len(frames)) : calls[p].at = "search"
    BY <1>3, <2>1 DEF IInv, DoneUnderSearch, Back
  <2>3. p = Len(calls)
    BY <1>1, <2>2 DEF CallsOf, Back
  <2> QED
    BY <2>2, <2>3 DEF Top
<1> QED
  BY <1>2, <1>3

\* push_cleanup and pop_cleanup without a call keep everything in place.
LEMMA SameCalls ==
  ASSUME IInv, calls # <<>>, Top.at = "body", calls' = calls,
         NEW cs \in Seq(BOOLEAN), \A i \in 1..Len(cs) : ~cs[i],
         frames' = [frames EXCEPT ![Len(frames)].cleaners = cs]
  PROVE  Structure' /\ SearchesDone' /\ DoneUnderSearch'
<1> DEFINE F == Len(frames)
<1>1. /\ Len(calls) \in Nat \ {0} /\ F \in Nat \ {0}
      /\ calls \in Seq(Call)
  BY LastExists DEF IInv, TypeOK
<1>2. /\ frames' \in Seq(Frame)
      /\ Len(frames') = Len(frames)
      /\ \A k \in 1..F : frames'[k].height = frames[k].height
      /\ \A k \in 1..(F - 1) : frames'[k].cleaners = frames[k].cleaners
      /\ frames'[F].cleaners = cs
  BY BackChanged
<1>3. Structure'
  BY <1>1, <1>2, SameShape
<1>4. SearchesDone'
  <2> SUFFICES ASSUME NEW p \in 1..Len(calls), calls[p].at = "search",
                      NEW k \in 1..Len(frames'), calls[p].frame = k,
                      frames'[k].height < p
               PROVE  /\ calls[p].left <= Len(frames'[k].cleaners)
                      /\ \A i \in 1..Len(frames'[k].cleaners) :
                           i > calls[p].left => frames'[k].cleaners[i]
    BY DEF SearchesDone
  <2>1. k \in 1..F /\ frames[k].height < p
    BY <1>2
  <2>2. k # F
    <3>1. p <= Back.height
      BY BodyNotSearched
    <3>2. Back.height \in Nat
      BY <1>1, LastExists DEF Frame
    <3> QED
      BY <2>1, <3>1, <3>2 DEF Back
  <2>3. k \in 1..(F - 1)
    BY <1>1, <2>1, <2>2
  <2>4. frames'[k].cleaners = frames[k].cleaners
    BY <1>2, <2>3
  <2> QED
    BY <2>1, <2>4 DEF IInv, SearchesDone
<1>5. DoneUnderSearch'
  <2> SUFFICES ASSUME NEW k \in 1..Len(frames'), NEW i \in 1..Len(frames'[k].cleaners),
                      frames'[k].cleaners[i]
               PROVE  /\ \A j \in 1..Len(frames'[k].cleaners) : j > i => frames'[k].cleaners[j]
                      /\ \E p \in CallsOf(k)' : calls[p].at = "search" /\ calls[p].frame <= k
    BY DEF DoneUnderSearch
  <2>1. k \in 1..F /\ k # F
    BY <1>2
  <2>2. k \in 1..(F - 1) /\ k + 1 \in 1..F
    BY <1>1, <2>1
  <2>3. frames'[k].cleaners = frames[k].cleaners
    BY <1>2, <2>2
  <2>4. CallsOf(k)' = CallsOf(k)
    BY <1>2, <2>1, <2>2 DEF CallsOf
  <2> QED
    BY <2>1, <2>3, <2>4 DEF IInv, DoneUnderSearch
<1> QED
  BY <1>3, <1>4, <1>5

-----------------------------------------------------------------------------
(* The inductive invariant *)

\* After the end of the program there is nothing left.
LEMMA NothingLeft ==
  ASSUME frames' = <<>>, calls' = <<>>
  PROVE  /\ frames' \in Seq(Frame) /\ calls' \in Seq(Call)
         /\ Structure' /\ SearchesDone' /\ DoneUnderSearch'
<1>1. Len(frames') = 0 /\ Len(calls') = 0
  BY EmptySeq
<1>2. JumpTargetsLive' /\ HeightsIncrease' /\ DoneUnderSearch'
  BY <1>1 DEF JumpTargetsLive, HeightsIncrease, DoneUnderSearch
<1>3. Linked' /\ BodiesUnderFrames' /\ SearchesDone'
  BY <1>1 DEF Linked, BodiesUnderFrames, SearchesDone
<1>4. OwnFrameOnTop' /\ FrameCounted'
  BY DEF OwnFrameOnTop, FrameCounted
<1> QED
  BY <1>2, <1>3, <1>4, EmptySeq DEF Structure

\* The invariant holds at the start.
LEMMA InvHolds == Init => IInv
<1> SUFFICES ASSUME Init PROVE IInv
  OBVIOUS
<1>1. Len(frames) = 0 /\ Len(calls) = 0 /\ frames = <<>> /\ calls = <<>>
  BY EmptySeq DEF Init
<1>2. TypeOK
  BY EmptySeq DEF Init, TypeOK, Result
<1>3. JumpTargetsLive /\ HeightsIncrease /\ DoneUnderSearch
  BY <1>1 DEF JumpTargetsLive, HeightsIncrease, DoneUnderSearch
<1>4. Linked /\ BodiesUnderFrames /\ SearchesDone
  BY <1>1 DEF Linked, BodiesUnderFrames, SearchesDone
<1>5. OwnFrameOnTop /\ FrameCounted
  BY <1>1 DEF OwnFrameOnTop, FrameCounted
<1> QED
  BY <1>2, <1>3, <1>4, <1>5 DEF IInv, Structure

\* The return of a procedure to f_try keeps the invariant.
LEMMA KeptByReturn == IInv /\ Return => IInv'
<1> SUFFICES ASSUME IInv, Return PROVE IInv'
  OBVIOUS
<1>1. calls # <<>> /\ Top.at = "body" /\ frames' = DropLast(frames)
  BY DEF Return, InBody
<1>2. calls' = SubSeq(calls, 1, Back.height)
  BY <1>1, BodyAtHeight DEF Return, DropLast
<1>3. /\ frames' \in Seq(Frame) /\ calls' \in Seq(Call)
      /\ Structure' /\ SearchesDone' /\ DoneUnderSearch'
  BY <1>1, <1>2, CutKeeps
<1>4. TypeOK'
  BY <1>3 DEF IInv, TypeOK, Return, Result
<1> QED
  BY <1>3, <1>4 DEF IInv

\* A longjmp, with the close of the catch point, keeps the invariant.
LEMMA KeptByCatch == ASSUME NEW c \in Codes PROVE IInv /\ Catch(c) => IInv'
<1> SUFFICES ASSUME IInv, Catch(c) PROVE IInv'
  OBVIOUS
<1>1. /\ calls # <<>> /\ frames' = DropLast(frames)
      /\ calls' = SubSeq(calls, 1, Back.height)
  BY DEF Catch, Deciding
<1>2. /\ frames' \in Seq(Frame) /\ calls' \in Seq(Call)
      /\ Structure' /\ SearchesDone' /\ DoneUnderSearch'
  BY <1>1, CutKeeps
<1>3. (Back.tracer /\ ~(StopExecution \subseteq c)) \in BOOLEAN
  OBVIOUS
<1>4. TypeOK'
  BY <1>2, <1>3 DEF IInv, TypeOK, Catch, Result
<1> QED
  BY <1>2, <1>4 DEF IInv

\* f_push_cleanup keeps the invariant.
LEMMA KeptByPushCleanup == IInv /\ PushCleanup => IInv'
<1> SUFFICES ASSUME IInv, PushCleanup PROVE IInv'
  OBVIOUS
<1> DEFINE cs == Append(Back.cleaners, FALSE)
<1>1. calls # <<>> /\ Top.at = "body" /\ calls' = calls
  BY DEF PushCleanup, InBody
<1>2. Back.cleaners \in Seq(BOOLEAN)
  BY <1>1, LastExists DEF Frame
<1>3. /\ cs \in Seq(BOOLEAN)
      /\ Len(cs) = Len(Back.cleaners) + 1 /\ Len(Back.cleaners) \in Nat
      /\ \A i \in 1..Len(Back.cleaners) : cs[i] = Back.cleaners[i]
      /\ ~cs[Len(Back.cleaners) + 1]
  <2>1. FALSE \in BOOLEAN
    OBVIOUS
  <2>2. /\ cs \in Seq(BOOLEAN)
        /\ Len(cs) = Len(Back.cleaners) + 1
        /\ \A i \in 1..Len(Back.cleaners) : cs[i] = Back.cleaners[i]
        /\ cs[Len(Back.cleaners) + 1] = FALSE
    BY <1>2, <2>1, Appended
  <2> QED
    BY <1>2, <2>2, LenProperties
<1>4. \A i \in 1..Len(cs) : ~cs[i]
  BY <1>1, <1>3, BodyNotSearched
<1>5. frames' = [frames EXCEPT ![Len(frames)].cleaners = cs]
  BY DEF PushCleanup, Back
<1>6. Structure' /\ SearchesDone' /\ DoneUnderSearch'
  BY <1>1, <1>3, <1>4, <1>5, SameCalls
<1>7. TypeOK'
  BY <1>1, <1>3, <1>5, BackChanged DEF IInv, TypeOK, PushCleanup
<1> QED
  BY <1>6, <1>7 DEF IInv

\* f_pop_cleanup keeps the invariant.
LEMMA KeptByPopCleanup == ASSUME NEW exec \in BOOLEAN PROVE IInv /\ PopCleanup(exec) => IInv'
<1> SUFFICES ASSUME IInv, PopCleanup(exec) PROVE IInv'
  OBVIOUS
<1>1. calls # <<>> /\ Top.at = "body" /\ Back.cleaners # <<>>
  BY DEF PopCleanup, InBody
<1>2. Back.cleaners \in Seq(BOOLEAN) /\ Len(frames) \in Nat \ {0}
  BY <1>1, LastExists DEF Frame
<1>3. CASE exec
  <2>1. frames' = frames /\ calls' = Append(calls, Popping(Len(frames)))
    BY <1>3 DEF PopCleanup
  <2>2. Popping(Len(frames)) \in Call /\ Popping(Len(frames)).at = "pop"
        /\ Popping(Len(frames)).frame = Len(frames)
    BY <1>2 DEF Popping, Call
  <2>3. calls' \in Seq(Call) /\ Structure' /\ SearchesDone' /\ DoneUnderSearch'
    BY <1>1, <2>1, <2>2, CallAdded
  <2>4. TypeOK'
    BY <2>1, <2>3 DEF IInv, TypeOK, PopCleanup
  <2> QED
    BY <2>3, <2>4 DEF IInv
<1>4. CASE ~exec
  <2> DEFINE cs == DropLast(Back.cleaners)
  <2>1. calls' = calls /\ frames' = [frames EXCEPT ![Len(frames)].cleaners = cs]
    BY <1>4 DEF PopCleanup, Back
  <2>2. /\ cs \in Seq(BOOLEAN)
        /\ Len(cs) = Len(Back.cleaners) - 1 /\ Len(Back.cleaners) \in Nat
        /\ \A i \in 1..(Len(Back.cleaners) - 1) : cs[i] = Back.cleaners[i]
    BY <1>1, <1>2, DropLastCuts, LenProperties
  <2>3. \A i \in 1..Len(cs) : ~cs[i]
    <3>1. \A i \in 1..(Len(Back.cleaners) - 1) : i \in 1..Len(Back.cleaners)
      BY <2>2
    <3> QED
      BY <1>1, <2>2, <3>1, BodyNotSearched
  <2>4. Structure' /\ SearchesDone' /\ DoneUnderSearch'
    BY <1>1, <2>1, <2>2, <2>3, SameCalls
  <2>5. TypeOK'
    BY <1>1, <2>1, <2>2, BackChanged DEF IInv, TypeOK, PopCleanup
  <2> QED
    BY <2>4, <2>5 DEF IInv
<1> QED
  BY <1>3, <1>4

\* f_throw, which begins a search, keeps the invariant.
LEMMA KeptByThrow == ASSUME NEW c \in Codes PROVE IInv /\ Throw(c) => IInv'
<1> SUFFICES ASSUME IInv, Throw(c) PROVE IInv'
  OBVIOUS
<1>1. CASE frames = <<>>
  <2>1. frames' = <<>> /\ calls' = <<>> /\ alive' = FALSE /\ capacity' = capacity /\ returned' = returned
    BY <1>1 DEF Throw, Terminate
  <2>2. /\ frames' \in Seq(Frame) /\ calls' \in Seq(Call)
        /\ Structure' /\ SearchesDone' /\ DoneUnderSearch'
    BY <2>1, NothingLeft
  <2>3. TypeOK'
    BY <2>1, <2>2 DEF IInv, TypeOK
  <2> QED
    BY <2>2, <2>3 DEF IInv
<1>2. CASE frames # <<>>
  <2> DEFINE s == BeginCheck(c, Len(frames))
  <2>1. /\ frames' = frames /\ calls' = Append(calls, s)
        /\ capacity' = capacity /\ returned' = returned /\ alive' = alive
    BY <1>2 DEF Throw
  <2>2. calls # <<>>
    <3>1. Len(frames) \in 1..Len(frames)
      BY <1>2, EmptySeq DEF IInv, TypeOK
    <3>2. frames[Len(frames)].height < Len(calls) /\ frames[Len(frames)].height \in Nat
      BY <3>1, FieldTypes DEF IInv, Structure, JumpTargetsLive
    <3> QED
      BY <3>2, EmptySeq
  <2>3. Back.cleaners \in Seq(BOOLEAN) /\ Len(frames) \in Nat \ {0}
    BY <2>2, LastExists DEF Frame
  <2>4. Len(Back.cleaners) \in Nat
    BY <2>3, LenProperties
  <2>5. s \in Call /\ s.at = "search" /\ s.frame = Len(frames) /\ s.left = Len(Back.cleaners)
    BY <2>3, <2>4 DEF BeginCheck, Search, Call, Back
  <2>6. calls' \in Seq(Call) /\ Structure' /\ SearchesDone' /\ DoneUnderSearch'
    BY <2>1, <2>2, <2>5, CallAdded
  <2>7. TypeOK'
    BY <2>1, <2>6 DEF IInv, TypeOK
  <2> QED
    BY <2>6, <2>7 DEF IInv
<1> QED
  BY <1>1, <1>2

\* f_try, also in a cleanup procedure, keeps the invariant.
LEMMA KeptByTry ==
  ASSUME NEW list \in CatchLists, NEW tracer \in Tracing
  PROVE  IInv /\ Try(list, tracer) => IInv'
<1> SUFFICES ASSUME IInv, Try(list, tracer) PROVE IInv'
  OBVIOUS
<1> DEFINE n == Len(calls)
           F == Len(frames)
           f == [list |-> list, tracer |-> tracer, cleaners |-> <<>>, height |-> n]
<1>1. /\ n \in Nat /\ F \in Nat
      /\ calls \in Seq(Call) /\ frames \in Seq(Frame)
      /\ \A k \in 1..F : frames[k].height \in Nat /\ frames[k].height < n
      /\ \A q \in 1..n : calls[q].frame \in Nat /\ calls[q].frame >= 1
  BY FieldTypes DEF IInv, TypeOK, Structure, JumpTargetsLive
<1>2. f \in Frame /\ Body(F + 1) \in Call
  BY <1>1, EmptySeq DEF Frame, Call, Body
<1>3. frames' = Append(frames, f) /\ calls' = Append(calls, Body(F + 1))
  BY DEF Try
<1>4. /\ frames' \in Seq(Frame)
      /\ Len(frames') = F + 1
      /\ \A k \in 1..F : frames'[k] = frames[k]
      /\ frames'[F + 1] = f
  BY <1>1, <1>2, <1>3, Appended
<1>5. /\ calls' \in Seq(Call)
      /\ Len(calls') = n + 1
      /\ \A q \in 1..n : calls'[q] = calls[q]
      /\ calls'[n + 1] = Body(F + 1)
  BY <1>1, <1>2, <1>3, Appended
<1>6. n # 0 => calls[n].frame = F
  BY <1>1, EmptySeq DEF IInv, Structure, OwnFrameOnTop, Top
<1>7. n = 0 => F = 0
  <2>1. F # 0 => F \in 1..F
    BY <1>1
  <2> QED
    BY <1>1, <2>1
<1>8. \A k \in 1..(F + 1) : k \in 1..F \/ k = F + 1
  BY <1>1
<1>9. \A q \in 1..(n + 1) : q \in 1..n \/ q = n + 1
  BY <1>1
<1>10. JumpTargetsLive'
  <2> SUFFICES ASSUME NEW k \in 1..(F + 1)
               PROVE  /\ frames'[k].height < n + 1
                      /\ calls'[frames'[k].height + 1] = Body(k)
    BY <1>4, <1>5 DEF JumpTargetsLive, Body
  <2>1. CASE k = F + 1
    BY <1>1, <1>4, <1>5, <2>1
  <2>2. CASE k \in 1..F
    <3>1. calls[frames[k].height + 1] = Body(k)
      BY <2>2 DEF IInv, Structure, JumpTargetsLive
    <3>2. frames[k].height + 1 \in 1..n /\ frames[k].height < n + 1
      BY <1>1, <2>2
    <3> QED
      BY <1>4, <1>5, <2>2, <3>1, <3>2
  <2> QED
    BY <1>8, <2>1, <2>2
<1>11. OwnFrameOnTop'
  BY <1>4, <1>5 DEF OwnFrameOnTop, Top, Body
<1>12. Linked'
  <2> SUFFICES ASSUME NEW q \in 1..(n + 1)
               PROVE  /\ calls'[q].at = "body" =>
                           calls'[q].frame = (IF q = 1 THEN 1 ELSE calls'[q - 1].frame + 1)
                      /\ calls'[q].at = "pop" => /\ q > 1
                                                 /\ calls'[q - 1].at = "body"
                                                 /\ calls'[q - 1].frame = calls'[q].frame
                      /\ calls'[q].at = "search" => q > 1
    BY <1>5 DEF Linked
  <2>1. CASE q \in 1..n
    <3>1. /\ calls[q].at = "body" => calls[q].frame = (IF q = 1 THEN 1 ELSE calls[q - 1].frame + 1)
          /\ calls[q].at = "pop" => /\ q > 1
                                    /\ calls[q - 1].at = "body"
                                    /\ calls[q - 1].frame = calls[q].frame
          /\ calls[q].at = "search" => q > 1
      BY <2>1 DEF IInv, Structure, Linked
    <3>2. q # 1 => q - 1 \in 1..n
      BY <1>1, <2>1
    <3> QED
      BY <1>5, <2>1, <3>1, <3>2
  <2>2. CASE q = n + 1
    <3>1. calls'[q].at = "body" /\ calls'[q].frame = F + 1
      BY <1>5, <2>2 DEF Body
    <3>2. q = 1 => F = 0
      BY <1>1, <1>7, <2>2
    <3>3. q # 1 => q - 1 = n /\ n \in 1..n
      BY <1>1, <2>2
    <3>4. q # 1 => calls'[q - 1].frame = F
      BY <1>5, <1>6, <3>3
    <3> QED
      BY <3>1, <3>2, <3>4
  <2> QED
    BY <1>9, <2>1, <2>2
<1>13. HeightsIncrease'
  <2> SUFFICES ASSUME NEW k \in 1..(F + 1), NEW j \in 1..(k - 1)
               PROVE  frames'[j].height < frames'[k].height
    BY <1>4 DEF HeightsIncrease
  <2>1. j \in 1..F /\ frames'[j] = frames[j]
    BY <1>1, <1>4
  <2>2. CASE k = F + 1
    BY <1>1, <1>4, <2>1, <2>2
  <2>3. CASE k \in 1..F
    BY <1>4, <2>1, <2>3 DEF IInv, Structure, HeightsIncrease
  <2> QED
    BY <1>8, <2>2, <2>3
<1>14. BodiesUnderFrames'
  <2> SUFFICES ASSUME NEW q \in 1..(n + 1), calls'[q].at = "body",
                      NEW k, k = calls'[q].frame, k <= F + 1
               PROVE  frames'[k].height >= q - 1
    BY <1>4, <1>5 DEF BodiesUnderFrames
  <2>1. k \in 1..(F + 1)
    <3>1. calls'[q] \in Call
      BY <1>5, ElementOfSeq
    <3> QED
      BY <1>1, <3>1 DEF Call
  <2>2. CASE k = F + 1
    BY <1>1, <1>4, <2>2
  <2>3. CASE k \in 1..F
    <3>1. q \in 1..n
      BY <1>1, <1>5, <1>9, <2>3 DEF Body
    <3>2. calls'[q] = calls[q] /\ frames'[k] = frames[k] /\ k <= F
      BY <1>1, <1>4, <1>5, <2>3, <3>1
    <3> QED
      BY <3>1, <3>2 DEF IInv, Structure, BodiesUnderFrames
  <2> QED
    BY <1>8, <2>1, <2>2, <2>3
<1>15. FrameCounted'
  BY <1>1, <1>4, EmptySeq DEF FrameCounted
<1>16. SearchesDone'
  <2> SUFFICES ASSUME NEW p \in 1..(n + 1), calls'[p].at = "search",
                      NEW k \in 1..(F + 1), calls'[p].frame = k,
                      frames'[k].height < p
               PROVE  /\ calls'[p].left <= Len(frames'[k].cleaners)
                      /\ \A i \in 1..Len(frames'[k].cleaners) :
                           i > calls'[p].left => frames'[k].cleaners[i]
    BY <1>4, <1>5 DEF SearchesDone
  <2>1. p \in 1..n /\ calls'[p] = calls[p]
    BY <1>5, <1>9 DEF Body
  <2>2. k # F + 1
    BY <1>1, <1>4, <2>1
  <2>3. k \in 1..F /\ frames'[k] = frames[k]
    BY <1>4, <1>8, <2>2
  <2> QED
    BY <2>1, <2>3 DEF IInv, SearchesDone
<1>17. DoneUnderSearch'
  <2> SUFFICES ASSUME NEW k \in 1..(F + 1), NEW i \in 1..Len(frames'[k].cleaners),
                      frames'[k].cleaners[i]
               PROVE  /\ \A j \in 1..Len(frames'[k].cleaners) : j > i => frames'[k].cleaners[j]
                      /\ \E p \in CallsOf(k)' : calls'[p].at = "search" /\ calls'[p].frame <= k
    BY <1>4 DEF DoneUnderSearch
  <2>1. k # F + 1
    <3>1. Len(f.cleaners) = 0
      BY EmptySeq
    <3> QED
      BY <1>4, <3>1
  <2>2. k \in 1..F /\ frames'[k] = frames[k]
    BY <1>4, <1>8, <2>1
  <2>3. \A j \in 1..Len(frames[k].cleaners) : j > i => frames[k].cleaners[j]
    BY <2>2 DEF IInv, DoneUnderSearch
  <2>4. PICK p \in CallsOf(k) : calls[p].at = "search" /\ calls[p].frame <= k
    BY <2>2 DEF IInv, DoneUnderSearch
  <2>5. CASE k < F
    <3>1. k + 1 \in 1..F /\ frames'[k + 1] = frames[k + 1] /\ k < F + 1
      BY <1>1, <1>4, <2>2, <2>5
    <3>2. CallsOf(k)' = CallsOf(k)
      BY <1>4, <2>2, <2>5, <3>1 DEF CallsOf
    <3>3. p \in 1..n
      <4>1. p \in (frames[k].height + 1)..frames[k + 1].height
        BY <2>4, <2>5 DEF CallsOf
      <4> QED
        BY <1>1, <2>2, <3>1, <4>1, SMTT(30)
    <3> QED
      BY <1>5, <2>2, <2>3, <2>4, <3>2, <3>3
  <2>6. CASE k = F
    <3>1. frames'[k + 1].height = n /\ k < Len(frames')
      BY <1>1, <1>4, <2>6
    <3>2. CallsOf(k)' = CallsOf(k)
      BY <2>2, <2>6, <3>1 DEF CallsOf
    <3>3. p \in 1..n
      <4>1. p \in (frames[k].height + 1)..n
        BY <2>4, <2>6 DEF CallsOf
      <4> QED
        BY <1>1, <2>2, <4>1
    <3> QED
      BY <1>5, <2>2, <2>3, <2>4, <3>2, <3>3
  <2> QED
    BY <1>1, <2>2, <2>5, <2>6
<1>18. TypeOK'
  <2>1. Grown \in Nat
    BY DEF IInv, TypeOK, Grown
  <2> QED
    BY <1>4, <1>5, <2>1 DEF IInv, TypeOK, Try
<1> QED
  BY <1>10, <1>11, <1>12, <1>13, <1>14, <1>15, <1>16, <1>17, <1>18 DEF IInv, Structure

\* The return of a cleanup procedure to f_pop_cleanup keeps the invariant.
LEMMA KeptByPoppedReturns == IInv /\ PoppedReturns => IInv'
<1> SUFFICES ASSUME IInv, PoppedReturns PROVE IInv'
  OBVIOUS
<1> DEFINE n == Len(calls)
           F == Len(frames)
           cs == DropLast(Back.cleaners)
<1>1. /\ calls # <<>> /\ Top.at = "pop"
      /\ frames' = [frames EXCEPT ![F].cleaners = cs]
      /\ calls' = DropLast(calls)
  BY DEF PoppedReturns, Back
<1>2. /\ n \in Nat \ {0} /\ F \in Nat \ {0}
      /\ calls \in Seq(Call)
      /\ Top.frame = F
  BY <1>1, LastExists DEF IInv, TypeOK
<1>3. /\ \A k \in 1..F : frames[k].height \in Nat
      /\ \A q \in 1..n : calls[q].frame \in Nat /\ calls[q].frame >= 1
  BY FieldTypes DEF IInv
<1>4. cs \in Seq(BOOLEAN)
  <2>1. Back.cleaners \in Seq(BOOLEAN)
    BY <1>1, LastExists DEF Frame
  <2>2. CASE Back.cleaners = <<>>
    <3>1. Len(Back.cleaners) = 0
      BY <2>2, EmptySeq
    <3>2. cs = <<>>
      BY <3>1, SubSeqEmpty DEF DropLast
    <3> QED
      BY <3>2, EmptySeq
  <2>3. CASE Back.cleaners # <<>>
    BY <2>1, <2>3, DropLastCuts
  <2> QED
    BY <2>2, <2>3
<1>5. /\ frames' \in Seq(Frame)
      /\ Len(frames') = F
      /\ \A k \in 1..F : frames'[k].height = frames[k].height
      /\ \A k \in 1..(F - 1) : frames'[k].cleaners = frames[k].cleaners
  BY <1>1, <1>4, BackChanged
<1>6. /\ calls' \in Seq(Call)
      /\ Len(calls') = n - 1
      /\ \A q \in 1..(n - 1) : calls'[q] = calls[q]
  BY <1>1, <1>2, DropLastCuts
<1>7. n > 1 /\ calls[n - 1].at = "body" /\ calls[n - 1].frame = F
  <2>1. n \in 1..n
    BY <1>2
  <2> QED
    BY <1>1, <1>2, <2>1 DEF IInv, Structure, Linked, Top
<1>8. \A k \in 1..F : frames[k].height + 1 \in 1..(n - 1)
  <2> SUFFICES ASSUME NEW k \in 1..F PROVE frames[k].height + 1 \in 1..(n - 1)
    OBVIOUS
  <2>1. frames[k].height < n /\ calls[frames[k].height + 1].at = "body"
    <3>1. frames[k].height < n /\ calls[frames[k].height + 1] = Body(k)
      BY DEF IInv, Structure, JumpTargetsLive
    <3> QED
      BY <3>1 DEF Body
  <2>2. frames[k].height + 1 # n
    BY <1>1, <2>1 DEF Top
  <2> QED
    BY <1>2, <1>3, <2>1, <2>2
<1>9. frames[F].height = n - 2
  <2>1. n - 1 \in 1..n /\ F \in 1..F
    BY <1>2, <1>7
  <2>2. frames[F].height >= n - 2
    BY <1>2, <1>7, <2>1, SMTT(30) DEF IInv, Structure, BodiesUnderFrames
  <2> QED
    BY <1>2, <1>3, <1>8, <2>1, <2>2
<1>10. JumpTargetsLive'
  <2> SUFFICES ASSUME NEW k \in 1..F
               PROVE  /\ frames'[k].height < n - 1
                      /\ calls'[frames'[k].height + 1] = Body(k)
    BY <1>5, <1>6 DEF JumpTargetsLive, Body
  <2>1. frames[k].height + 1 \in 1..(n - 1) /\ frames[k].height < n - 1
    BY <1>2, <1>3, <1>8
  <2>2. calls[frames[k].height + 1] = Body(k)
    BY DEF IInv, Structure, JumpTargetsLive
  <2>3. frames'[k].height = frames[k].height
    BY <1>5
  <2> QED
    BY <1>6, <2>1, <2>2, <2>3
<1>11. OwnFrameOnTop'
  <2>1. calls'[n - 1].frame = F
    BY <1>2, <1>6, <1>7
  <2> QED
    BY <1>5, <1>6, <2>1 DEF OwnFrameOnTop, Top
<1>12. Linked'
  <2> SUFFICES ASSUME NEW q \in 1..(n - 1)
               PROVE  /\ calls'[q].at = "body" =>
                           calls'[q].frame = (IF q = 1 THEN 1 ELSE calls'[q - 1].frame + 1)
                      /\ calls'[q].at = "pop" => /\ q > 1
                                                 /\ calls'[q - 1].at = "body"
                                                 /\ calls'[q - 1].frame = calls'[q].frame
                      /\ calls'[q].at = "search" => q > 1
    BY <1>6 DEF Linked
  <2>1. q \in 1..n /\ (q # 1 => q - 1 \in 1..(n - 1))
    BY <1>2
  <2>2. /\ calls[q].at = "body" => calls[q].frame = (IF q = 1 THEN 1 ELSE calls[q - 1].frame + 1)
        /\ calls[q].at = "pop" => /\ q > 1
                                  /\ calls[q - 1].at = "body"
                                  /\ calls[q - 1].frame = calls[q].frame
        /\ calls[q].at = "search" => q > 1
    BY <2>1 DEF IInv, Structure, Linked
  <2> QED
    BY <1>6, <2>1, <2>2
<1>13. HeightsIncrease'
  <2> SUFFICES ASSUME NEW k \in 1..F, NEW j \in 1..(k - 1)
               PROVE  frames'[j].height < frames'[k].height
    BY <1>5 DEF HeightsIncrease
  <2>1. j \in 1..F
    BY <1>2
  <2>2. frames[j].height < frames[k].height
    BY DEF IInv, Structure, HeightsIncrease
  <2> QED
    BY <1>5, <2>1, <2>2
<1>14. BodiesUnderFrames'
  <2> SUFFICES ASSUME NEW q \in 1..(n - 1), calls'[q].at = "body",
                      NEW k, k = calls'[q].frame, k <= F
               PROVE  frames'[k].height >= q - 1
    BY <1>5, <1>6 DEF BodiesUnderFrames
  <2>1. q \in 1..n /\ calls'[q] = calls[q]
    BY <1>2, <1>6
  <2>2. k \in 1..F
    BY <1>2, <1>3, <2>1
  <2>3. frames[k].height >= q - 1
    BY <2>1 DEF IInv, Structure, BodiesUnderFrames
  <2> QED
    BY <1>5, <2>2, <2>3
<1>15. FrameCounted'
  BY <1>2, <1>5, EmptySeq DEF FrameCounted
<1>16. SearchesDone'
  <2> SUFFICES ASSUME NEW p \in 1..(n - 1), calls'[p].at = "search",
                      NEW k \in 1..F, calls'[p].frame = k,
                      frames'[k].height < p
               PROVE  /\ calls'[p].left <= Len(frames'[k].cleaners)
                      /\ \A i \in 1..Len(frames'[k].cleaners) :
                           i > calls'[p].left => frames'[k].cleaners[i]
    BY <1>5, <1>6 DEF SearchesDone
  <2>1. p \in 1..n /\ calls'[p] = calls[p] /\ frames[k].height < p
    <3>1. calls'[p] = calls[p]
      BY <1>6
    <3>2. frames[k].height < p
      BY <1>5
    <3> QED
      BY <1>2, <3>1, <3>2
  <2>2. k # F
    <3>1. p # n - 1
      BY <1>7, <2>1
    <3> QED
      BY <1>2, <1>9, <2>1, <3>1
  <2>3. k \in 1..(F - 1)
    BY <1>2, <2>2
  <2>4. frames'[k].cleaners = frames[k].cleaners
    BY <1>5, <2>3
  <2> QED
    BY <2>1, <2>4 DEF IInv, SearchesDone
<1>17. \A i \in 1..Len(Back.cleaners) : ~Back.cleaners[i]
  <2> SUFFICES ASSUME NEW i \in 1..Len(Back.cleaners), Back.cleaners[i] PROVE FALSE
    OBVIOUS
  <2>1. F \in 1..F
    BY <1>2
  <2>2. PICK p \in CallsOf(F) : calls[p].at = "search"
    BY <2>1 DEF IInv, DoneUnderSearch, Back
  <2>3. p \in (n - 1)..n
    BY <1>2, <1>9, <2>2 DEF CallsOf
  <2>4. p = n - 1 \/ p = n
    BY <1>2, <2>3
  <2> QED
    BY <1>1, <1>7, <2>2, <2>4 DEF Top
<1>18. \A i \in 1..Len(cs) : ~cs[i]
  <2>1. Back.cleaners \in Seq(BOOLEAN)
    BY <1>1, LastExists DEF Frame
  <2>2. CASE Back.cleaners = <<>>
    <3>1. Len(Back.cleaners) = 0
      BY <2>2, EmptySeq
    <3>2. cs = <<>>
      BY <3>1, SubSeqEmpty DEF DropLast
    <3> QED
      BY <3>2, EmptySeq
  <2>3. CASE Back.cleaners # <<>>
    <3>1. /\ Len(cs) = Len(Back.cleaners) - 1 /\ Len(Back.cleaners) \in Nat
          /\ \A i \in 1..(Len(Back.cleaners) - 1) : cs[i] = Back.cleaners[i]
      BY <2>1, <2>3, DropLastCuts, LenProperties
    <3>2. \A i \in 1..(Len(Back.cleaners) - 1) : i \in 1..Len(Back.cleaners)
      BY <3>1
    <3> QED
      BY <1>17, <3>1, <3>2
  <2> QED
    BY <2>2, <2>3
<1>19. DoneUnderSearch'
  <2> SUFFICES ASSUME NEW k \in 1..F, NEW i \in 1..Len(frames'[k].cleaners),
                      frames'[k].cleaners[i]
               PROVE  /\ \A j \in 1..Len(frames'[k].cleaners) : j > i => frames'[k].cleaners[j]
                      /\ \E p \in CallsOf(k)' : calls'[p].at = "search" /\ calls'[p].frame <= k
    BY <1>5 DEF DoneUnderSearch
  <2>1. frames'[F].cleaners = cs
    BY <1>1, <1>4, BackChanged
  <2>2. k # F
    BY <1>18, <2>1
  <2>3. k \in 1..(F - 1) /\ k + 1 \in 1..F /\ k < F
    BY <1>2, <2>2
  <2>4. frames'[k].cleaners = frames[k].cleaners /\ CallsOf(k)' = CallsOf(k)
    BY <1>5, <2>3 DEF CallsOf
  <2>5. PICK p \in CallsOf(k) : calls[p].at = "search" /\ calls[p].frame <= k
    BY <2>4 DEF IInv, DoneUnderSearch
  <2>6. p \in 1..(n - 1)
    <3>1. p \in (frames[k].height + 1)..frames[k + 1].height
      BY <2>3, <2>5 DEF CallsOf
    <3>2. frames[k].height \in Nat /\ frames[k + 1].height + 1 \in 1..(n - 1)
          /\ frames[k + 1].height \in Nat
      BY <1>3, <1>8, <2>3
    <3> QED
      BY <1>2, <3>1, <3>2, SMTT(30)
  <2>7. \A j \in 1..Len(frames[k].cleaners) : j > i => frames[k].cleaners[j]
    BY <2>4 DEF IInv, DoneUnderSearch
  <2> QED
    BY <1>6, <2>4, <2>5, <2>6, <2>7
<1>20. TypeOK'
  BY <1>5, <1>6 DEF IInv, TypeOK, PoppedReturns
<1> QED
  BY <1>10, <1>11, <1>12, <1>13, <1>14, <1>15, <1>16, <1>19, <1>20 DEF IInv, Structure

\* The return of a cleanup procedure to a search keeps the invariant.
LEMMA KeptByCleanerReturns == IInv /\ CleanerReturns => IInv'
<1> SUFFICES ASSUME IInv, CleanerReturns PROVE IInv'
  OBVIOUS
<1> DEFINE n == Len(calls)
           F == Len(frames)
           cs == [Back.cleaners EXCEPT ![Top.left] = TRUE]
           c == [Top EXCEPT !.left = Top.left - 1]
<1>1. /\ calls # <<>> /\ Top.at = "search" /\ Top.left > 0
      /\ frames' = [frames EXCEPT ![Top.frame].cleaners[Top.left] = TRUE]
      /\ calls' = [calls EXCEPT ![n].left = @ - 1]
  BY DEF CleanerReturns, CleanerCalled
<1>2. /\ n \in Nat \ {0} /\ F \in Nat \ {0}
      /\ calls \in Seq(Call)
      /\ Top.frame = F /\ Top \in Call
      /\ Back.cleaners \in Seq(BOOLEAN) /\ Back.height \in Nat
  BY <1>1, LastExists DEF IInv, TypeOK, Frame
<1>3. n \in 1..n /\ F \in 1..F /\ Back.height < n
  BY <1>2 DEF IInv, Structure, JumpTargetsLive, Back
<1>4. /\ Top.left <= Len(Back.cleaners)
      /\ \A i \in 1..Len(Back.cleaners) : i > Top.left => Back.cleaners[i]
  <2>1. calls[n].at = "search" /\ calls[n].frame \in 1..F /\ frames[calls[n].frame].height < n
    BY <1>1, <1>2, <1>3 DEF Top, Back
  <2>2. /\ calls[n].left <= Len(frames[calls[n].frame].cleaners)
        /\ \A i \in 1..Len(frames[calls[n].frame].cleaners) :
             i > calls[n].left => frames[calls[n].frame].cleaners[i]
    BY <1>3, <2>1 DEF IInv, SearchesDone
  <2> QED
    BY <1>2, <2>2 DEF Top, Back
<1>5. Top.left \in 1..Len(Back.cleaners)
  <2>1. Top.left \in Nat /\ Len(Back.cleaners) \in Nat
    BY <1>2, LenProperties DEF Call
  <2> QED
    BY <1>1, <1>4, <2>1
<1>6. /\ cs \in Seq(BOOLEAN)
      /\ Len(cs) = Len(Back.cleaners)
      /\ cs[Top.left]
      /\ \A i \in 1..Len(Back.cleaners) : i # Top.left => cs[i] = Back.cleaners[i]
  <2>1. PICK e \in BOOLEAN : e = TRUE
    OBVIOUS
  <2>2. cs = [Back.cleaners EXCEPT ![Top.left] = e]
    BY <2>1
  <2>3. /\ cs \in Seq(BOOLEAN)
        /\ Len(cs) = Len(Back.cleaners)
        /\ \A i \in 1..Len(Back.cleaners) : cs[i] = IF i = Top.left THEN e ELSE Back.cleaners[i]
    <3>1. /\ [Back.cleaners EXCEPT ![Top.left] = e] \in Seq(BOOLEAN)
          /\ Len([Back.cleaners EXCEPT ![Top.left] = e]) = Len(Back.cleaners)
          /\ \A i \in 1..Len(Back.cleaners) :
               [Back.cleaners EXCEPT ![Top.left] = e][i] = IF i = Top.left THEN e ELSE Back.cleaners[i]
      BY <1>2, <1>5, ExceptSeq
    <3> HIDE DEF cs
    <3> QED
      BY <2>2, <3>1
  <2> HIDE DEF cs
  <2>4. cs[Top.left] = e
    BY <1>5, <2>3
  <2>5. \A i \in 1..Len(Back.cleaners) : i # Top.left => cs[i] = Back.cleaners[i]
    BY <2>3
  <2> QED
    BY <2>1, <2>3, <2>4, <2>5
<1>7. /\ \A i \in 1..Len(Back.cleaners) : Back.cleaners[i] => cs[i]
      /\ \A i \in 1..Len(Back.cleaners) : cs[i] => i = Top.left \/ Back.cleaners[i]
  <2> HIDE DEF cs
  <2> QED
    BY <1>6
<1>8. frames' = [frames EXCEPT ![F].cleaners = cs]
  BY <1>1, <1>2 DEF Back
<1>9. /\ frames' \in Seq(Frame)
      /\ Len(frames') = F
      /\ \A k \in 1..F : frames'[k].height = frames[k].height
      /\ \A k \in 1..(F - 1) : frames'[k].cleaners = frames[k].cleaners
      /\ frames'[F].cleaners = cs
  BY <1>1, <1>6, <1>8, BackChanged
<1>10. c \in Call /\ c.at = "search" /\ c.frame = F /\ c.left = Top.left - 1
  <2>1. Top.left - 1 \in Nat
    BY <1>1, <1>2 DEF Call
  <2>2. c = [at |-> Top.at, frame |-> Top.frame, code |-> Top.code, left |-> Top.left - 1]
    BY <1>2, SMTT(30) DEF Call
  <2>3. Top.at \in {"body", "pop", "search"} /\ Top.frame \in Nat \ {0}
        /\ Top.code \in Codes \cup {NoError}
    BY <1>2 DEF Call
  <2>4. c \in Call
    BY <2>1, <2>2, <2>3 DEF Call
  <2> QED
    BY <1>1, <1>2, <2>2, <2>4
<1>11. /\ calls' \in Seq(Call)
       /\ Len(calls') = n
       /\ \A q \in 1..n : calls'[q] = IF q = n THEN c ELSE calls[q]
  <2>1. calls' = [calls EXCEPT ![n] = c]
    BY <1>1 DEF Top
  <2> QED
    BY <1>2, <1>3, <1>10, <2>1, ExceptSeq
<1>12. \A q \in 1..n : /\ calls'[q].at = calls[q].at
                       /\ calls'[q].frame = calls[q].frame
                       /\ calls[q].at = "body" => calls'[q] = calls[q]
  BY <1>1, <1>2, <1>10, <1>11 DEF Top
<1>13. Structure'
  BY <1>1, <1>9, <1>11, <1>12, SameShape
<1>14. SearchesDone'
  <2> SUFFICES ASSUME NEW p \in 1..n, calls[p].at = "search",
                      NEW k \in 1..F, calls[p].frame = k,
                      frames[k].height < p
               PROVE  /\ calls'[p].left <= Len(frames'[k].cleaners)
                      /\ \A i \in 1..Len(frames'[k].cleaners) :
                           i > calls'[p].left => frames'[k].cleaners[i]
    BY <1>9, <1>11, <1>12 DEF SearchesDone
  <2>1. /\ calls[p].left <= Len(frames[k].cleaners)
        /\ \A i \in 1..Len(frames[k].cleaners) : i > calls[p].left => frames[k].cleaners[i]
    BY DEF IInv, SearchesDone
  <2>2. CASE k \in 1..(F - 1)
    <3>1. p # n
      BY <1>2, <2>2 DEF Top
    <3> QED
      BY <1>9, <1>11, <2>1, <2>2, <3>1
  <2>3. CASE k = F /\ p # n
    <3>1. calls'[p] = calls[p] /\ frames'[k].cleaners = cs /\ frames[k] = Back
      BY <1>9, <1>11, <2>3 DEF Back
    <3> QED
      BY <1>6, <1>7, <2>1, <3>1
  <2>4. CASE k = F /\ p = n
    <3>1. calls'[p].left = Top.left - 1 /\ frames'[k].cleaners = cs
      BY <1>9, <1>10, <1>11, <2>4
    <3>2. Top.left \in Nat /\ Len(Back.cleaners) \in Nat
      BY <1>2, LenProperties DEF Call
    <3>3. Top.left - 1 <= Len(cs)
      BY <1>4, <1>6, <3>2
    <3>4. ASSUME NEW i \in 1..Len(cs), i > Top.left - 1
          PROVE  cs[i]
      <4>1. i = Top.left \/ i > Top.left
        BY <1>6, <3>2, <3>4
      <4> QED
        BY <1>4, <1>6, <1>7, <4>1
    <3> QED
      BY <3>1, <3>3, <3>4
  <2>5. k \in 1..(F - 1) \/ k = F
    BY <1>2
  <2> QED
    BY <2>2, <2>3, <2>4, <2>5
<1>15. DoneUnderSearch'
  <2> SUFFICES ASSUME NEW k \in 1..F, NEW i \in 1..Len(frames'[k].cleaners),
                      frames'[k].cleaners[i]
               PROVE  /\ \A j \in 1..Len(frames'[k].cleaners) : j > i => frames'[k].cleaners[j]
                      /\ \E p \in CallsOf(k)' : calls'[p].at = "search" /\ calls'[p].frame <= k
    BY <1>9 DEF DoneUnderSearch
  <2>1. CASE k \in 1..(F - 1)
    <3>1. frames'[k].cleaners = frames[k].cleaners /\ k + 1 \in 1..F /\ k \in 1..F /\ k < F
      BY <1>2, <1>9, <2>1
    <3>2. CallsOf(k)' = CallsOf(k)
      BY <1>9, <3>1 DEF CallsOf
    <3>3. PICK p \in CallsOf(k) : calls[p].at = "search" /\ calls[p].frame <= k
      BY <3>1 DEF IInv, DoneUnderSearch
    <3>4. p \in 1..n
      <4>1. p \in (frames[k].height + 1)..frames[k + 1].height
        BY <3>1, <3>3 DEF CallsOf
      <4>2. frames[k].height \in Nat /\ frames[k + 1].height < n /\ frames[k + 1].height \in Nat
        BY <3>1, FieldTypes DEF IInv, Structure, JumpTargetsLive
      <4> QED
        BY <1>2, <4>1, <4>2, SMTT(30)
    <3>5. \A j \in 1..Len(frames[k].cleaners) : j > i => frames[k].cleaners[j]
      BY <3>1 DEF IInv, DoneUnderSearch
    <3> QED
      BY <1>12, <3>1, <3>2, <3>3, <3>4, <3>5
  <2>2. CASE k = F
    <3>1. i \in 1..Len(Back.cleaners) /\ cs[i]
      BY <1>6, <1>9, <2>2
    <3>2. ASSUME NEW j \in 1..Len(Back.cleaners), j > i
          PROVE  Back.cleaners[j]
      <4>1. CASE i = Top.left
        BY <1>4, <3>2, <4>1
      <4>2. CASE Back.cleaners[i]
        BY <1>3, <3>1, <3>2, <4>2 DEF IInv, DoneUnderSearch, Back
      <4> QED
        BY <1>7, <3>1, <4>1, <4>2
    <3>3. \A j \in 1..Len(cs) : j > i => cs[j]
      BY <1>6, <1>7, <3>2
    <3>4. n \in CallsOf(F)'
      <4>1. frames'[F].height < n /\ frames'[F].height \in Nat
        BY <1>2, <1>3, <1>9 DEF Back
      <4> QED
        BY <1>2, <1>9, <1>11, <4>1 DEF CallsOf
    <3>5. calls'[n] = c
      BY <1>3, <1>11
    <3>6. calls'[n].at = "search" /\ calls'[n].frame <= F
      BY <1>2, <1>10, <3>5
    <3> QED
      BY <1>9, <2>2, <3>3, <3>4, <3>6
  <2>3. k \in 1..(F - 1) \/ k = F
    BY <1>2
  <2> QED
    BY <2>1, <2>2, <2>3
<1>16. TypeOK'
  BY <1>9, <1>11 DEF IInv, TypeOK, CleanerReturns
<1> QED
  BY <1>13, <1>14, <1>15, <1>16 DEF IInv

\* A search that goes on to the next catch point keeps the invariant.
LEMMA KeptBySkip == ASSUME NEW c \in Codes PROVE IInv /\ Skip(c) => IInv'
<1> SUFFICES ASSUME IInv, Skip(c) PROVE IInv'
  OBVIOUS
<1> DEFINE n == Len(calls)
           F == Len(frames)
           s == BeginCheck(c, F - 1)
<1>1. CASE F = 1
  <2>1. frames' = <<>> /\ calls' = <<>> /\ alive' = FALSE /\ capacity' = capacity /\ returned' = returned
    BY <1>1 DEF Skip, Terminate
  <2>2. /\ frames' \in Seq(Frame) /\ calls' \in Seq(Call)
        /\ Structure' /\ SearchesDone' /\ DoneUnderSearch'
    BY <2>1, NothingLeft
  <2>3. TypeOK'
    BY <2>1, <2>2 DEF IInv, TypeOK
  <2> QED
    BY <2>2, <2>3 DEF IInv
<1>2. CASE F > 1
  <2>1. /\ calls # <<>> /\ Top.at = "search"
        /\ frames' = DropLast(frames)
        /\ calls' = [calls EXCEPT ![n] = s]
        /\ capacity' = capacity /\ returned' = returned /\ alive' = alive
    <3>1. F \in Nat
      BY FieldTypes DEF IInv
    <3>2. F # 1
      <4> HIDE DEF F
      <4> QED
        BY <1>2, <3>1, AboveOne
    <3> QED
      BY <3>2 DEF Skip, Deciding
  <2>2. /\ n \in Nat \ {0} /\ F \in Nat \ {0}
        /\ calls \in Seq(Call) /\ frames \in Seq(Frame) /\ frames # <<>>
        /\ Top.frame = F
    BY <2>1, LastExists DEF IInv, TypeOK
  <2>3. /\ \A k \in 1..F : frames[k].height \in Nat /\ Len(frames[k].cleaners) \in Nat
        /\ \A q \in 1..n : calls[q].frame \in Nat /\ calls[q].frame >= 1
    BY FieldTypes DEF IInv
  <2>4. n \in 1..n /\ F \in 1..F /\ F - 1 \in 1..F /\ F - 1 \in Nat
    BY <1>2, <2>2
  <2>5. /\ s \in Call /\ s.at = "search" /\ s.frame = F - 1
        /\ s.left = Len(frames[F - 1].cleaners)
    <3>1. Len(frames[F - 1].cleaners) \in Nat /\ F - 1 \in Nat \ {0}
      BY <1>2, <2>2, <2>3, <2>4
    <3> QED
      BY <3>1 DEF BeginCheck, Search, Call
  <2>6. /\ frames' \in Seq(Frame)
        /\ Len(frames') = F - 1
        /\ \A k \in 1..(F - 1) : frames'[k] = frames[k]
    BY <2>1, <2>2, DropLastCuts
  <2>7. /\ calls' \in Seq(Call)
        /\ Len(calls') = n
        /\ \A q \in 1..n : calls'[q] = IF q = n THEN s ELSE calls[q]
    BY <2>1, <2>2, <2>4, <2>5, ExceptSeq
  <2>8. \A k \in 1..(F - 1) : k \in 1..F /\ frames[k].height < frames[F].height
    <3>1. \A k \in 1..(F - 1) : frames[k].height < frames[F].height
      BY <2>4 DEF IInv, Structure, HeightsIncrease
    <3> QED
      BY <2>2, <3>1
  <2>9. frames[F].height < n
    BY <2>4 DEF IInv, Structure, JumpTargetsLive
  <2>10. JumpTargetsLive'
    <3> SUFFICES ASSUME NEW k \in 1..(F - 1)
                 PROVE  /\ frames[k].height < n
                        /\ calls'[frames[k].height + 1] = Body(k)
      BY <2>6, <2>7 DEF JumpTargetsLive, Body
    <3>1. k \in 1..F /\ frames[k].height \in Nat /\ frames[k].height < frames[F].height
      BY <2>3, <2>8
    <3>2. frames[F].height \in Nat
      BY <2>3, <2>4
    <3>3. frames[k].height + 1 \in 1..n /\ frames[k].height + 1 # n /\ frames[k].height < n
      BY <2>2, <2>9, <3>1, <3>2
    <3>4. calls[frames[k].height + 1] = Body(k)
      BY <3>1 DEF IInv, Structure, JumpTargetsLive
    <3> QED
      BY <2>7, <3>3, <3>4
  <2>11. OwnFrameOnTop'
    <3>1. calls'[n] = s
      BY <2>4, <2>7
    <3> QED
      BY <2>5, <2>6, <2>7, <3>1 DEF OwnFrameOnTop, Top
  <2>12. Linked'
    <3> SUFFICES ASSUME NEW q \in 1..n
                 PROVE  /\ calls'[q].at = "body" =>
                             calls'[q].frame = (IF q = 1 THEN 1 ELSE calls'[q - 1].frame + 1)
                        /\ calls'[q].at = "pop" => /\ q > 1
                                                   /\ calls'[q - 1].at = "body"
                                                   /\ calls'[q - 1].frame = calls'[q].frame
                        /\ calls'[q].at = "search" => q > 1
      BY <2>7 DEF Linked
    <3>1. /\ calls[q].at = "body" => calls[q].frame = (IF q = 1 THEN 1 ELSE calls[q - 1].frame + 1)
          /\ calls[q].at = "pop" => /\ q > 1
                                    /\ calls[q - 1].at = "body"
                                    /\ calls[q - 1].frame = calls[q].frame
          /\ calls[q].at = "search" => q > 1
      BY DEF IInv, Structure, Linked
    <3>2. CASE q = n
      <4>1. calls'[q] = s /\ calls[q].at = "search"
        BY <2>1, <2>4, <2>7, <3>2 DEF Top
      <4> QED
        BY <2>5, <3>1, <4>1
    <3>3. CASE q # n
      <4>1. q # 1 => q - 1 \in 1..n /\ q - 1 # n
        BY <2>2
      <4>2. calls'[q] = calls[q]
        BY <2>7, <3>3
      <4>3. q # 1 => calls'[q - 1] = calls[q - 1]
        BY <2>7, <4>1
      <4>4. q > 1 => q # 1
        OBVIOUS
      <4> QED
        BY <3>1, <4>2, <4>3, <4>4
    <3> QED
      BY <3>2, <3>3
  <2>13. HeightsIncrease'
    <3> SUFFICES ASSUME NEW k \in 1..(F - 1), NEW j \in 1..(k - 1)
                 PROVE  frames'[j].height < frames'[k].height
      BY <2>6 DEF HeightsIncrease
    <3>1. k \in 1..F /\ j \in 1..(F - 1)
      BY <2>2
    <3>2. frames[j].height < frames[k].height
      BY <3>1 DEF IInv, Structure, HeightsIncrease
    <3> QED
      BY <2>6, <3>1, <3>2
  <2>14. BodiesUnderFrames'
    <3> SUFFICES ASSUME NEW q \in 1..n, calls'[q].at = "body",
                        NEW k, k = calls'[q].frame, k <= F - 1
                 PROVE  frames'[k].height >= q - 1
      BY <2>6, <2>7 DEF BodiesUnderFrames
    <3>1. calls'[q] = calls[q]
      BY <2>5, <2>7
    <3>2. k \in 1..(F - 1) /\ k <= F
      BY <2>2, <2>3, <3>1
    <3>3. frames[k].height >= q - 1
      BY <3>1, <3>2 DEF IInv, Structure, BodiesUnderFrames
    <3> QED
      BY <2>6, <3>2, <3>3
  <2>15. FrameCounted'
    <3>1. Len(frames') # 0
      BY <1>2, <2>2, <2>6
    <3>2. Len(<<>>) = 0
      BY EmptySeq
    <3> QED
      BY <3>1, <3>2 DEF FrameCounted
  <2>16. SearchesDone'
    <3> SUFFICES ASSUME NEW p \in 1..n, calls'[p].at = "search",
                        NEW k \in 1..(F - 1), calls'[p].frame = k,
                        frames'[k].height < p
                 PROVE  /\ calls'[p].left <= Len(frames'[k].cleaners)
                        /\ \A i \in 1..Len(frames'[k].cleaners) :
                             i > calls'[p].left => frames'[k].cleaners[i]
      BY <2>6, <2>7 DEF SearchesDone
    <3>1. frames'[k] = frames[k] /\ k \in 1..F
      BY <2>6, <2>8
    <3>2. CASE p = n
      <4>1. calls'[p] = s /\ k = F - 1
        BY <2>4, <2>5, <2>7, <3>2
      <4> QED
        BY <2>3, <2>5, <3>1, <4>1
    <3>3. CASE p # n
      <4>1. calls'[p] = calls[p]
        BY <2>7, <3>3
      <4> QED
        BY <3>1, <4>1 DEF IInv, SearchesDone
    <3> QED
      BY <3>2, <3>3
  <2>17. DoneUnderSearch'
    <3> SUFFICES ASSUME NEW k \in 1..(F - 1), NEW i \in 1..Len(frames'[k].cleaners),
                        frames'[k].cleaners[i]
                 PROVE  /\ \A j \in 1..Len(frames'[k].cleaners) : j > i => frames'[k].cleaners[j]
                        /\ \E p \in CallsOf(k)' : calls'[p].at = "search" /\ calls'[p].frame <= k
      BY <2>6 DEF DoneUnderSearch
    <3>1. frames'[k] = frames[k] /\ k \in 1..F /\ k < F /\ k + 1 \in 1..F
      BY <2>2, <2>6
    <3>2. PICK p \in CallsOf(k) : calls[p].at = "search" /\ calls[p].frame <= k
      BY <3>1 DEF IInv, DoneUnderSearch
    <3>3. \A j \in 1..Len(frames[k].cleaners) : j > i => frames[k].cleaners[j]
      BY <3>1 DEF IInv, DoneUnderSearch
    <3>4. p \in (frames[k].height + 1)..frames[k + 1].height
      BY <3>1, <3>2 DEF CallsOf
    <3>5. frames[k].height \in Nat /\ frames[k + 1].height \in Nat /\ frames[k + 1].height < n
      BY <2>3, <3>1 DEF IInv, Structure, JumpTargetsLive
    <3>6. p \in 1..n /\ p # n
      BY <2>2, <3>4, <3>5
    <3>7. p \in CallsOf(k)'
      <4>1. CASE k < F - 1
        <5>1. k + 1 \in 1..(F - 1) /\ k < Len(frames')
          BY <2>2, <2>6, <4>1
        <5> QED
          BY <2>6, <3>1, <3>4, <5>1 DEF CallsOf
      <4>2. CASE ~(k < F - 1)
        <5>1. ~(k < Len(frames'))
          BY <2>6, <4>2
        <5>2. p \in (frames[k].height + 1)..n
          BY <2>2, <3>4, <3>5, <3>6
        <5> QED
          BY <2>7, <3>1, <5>1, <5>2 DEF CallsOf
      <4> QED
        BY <4>1, <4>2
    <3>8. calls'[p] = calls[p]
      BY <2>7, <3>6
    <3> QED
      BY <3>1, <3>2, <3>3, <3>7, <3>8
  <2>18. TypeOK'
    BY <2>1, <2>6, <2>7 DEF IInv, TypeOK
  <2> QED
    BY <2>10, <2>11, <2>12, <2>13, <2>14, <2>15, <2>16, <2>17, <2>18 DEF IInv, Structure
<1> QED
  BY <1>1, <1>2 DEF Skip

\* The invariant holds in every state.
THEOREM Inductive == Spec => []IInv
<1>1. Init => IInv
  BY InvHolds
<1>2. IInv /\ [Next]_vars => IInv'
  <2> SUFFICES ASSUME IInv, [Next]_vars PROVE IInv'
    OBVIOUS
  <2>1. ASSUME NEW list \in CatchLists, NEW tracer \in Tracing, Try(list, tracer) PROVE IInv'
    BY <2>1, KeptByTry
  <2>2. CASE Return
    BY <2>2, KeptByReturn
  <2>3. CASE PushCleanup
    BY <2>3, KeptByPushCleanup
  <2>4. ASSUME NEW exec \in BOOLEAN, PopCleanup(exec) PROVE IInv'
    BY <2>4, KeptByPopCleanup
  <2>5. CASE PoppedReturns
    BY <2>5, KeptByPoppedReturns
  <2>6. ASSUME NEW c \in Codes, Throw(c) PROVE IInv'
    BY <2>6, KeptByThrow
  <2>7. CASE CleanerReturns
    BY <2>7, KeptByCleanerReturns
  <2>8. ASSUME NEW c \in Codes, Skip(c) PROVE IInv'
    BY <2>8, KeptBySkip
  <2>9. ASSUME NEW c \in Codes, Catch(c) PROVE IInv'
    BY <2>9, KeptByCatch
  <2>10. CASE UNCHANGED vars
    BY <2>10 DEF vars, IInv, TypeOK, Structure, JumpTargetsLive, OwnFrameOnTop, Top, Linked,
                 HeightsIncrease, BodiesUnderFrames, FrameCounted, SearchesDone,
                 DoneUnderSearch, CallsOf
  <2> QED
    BY <2>1, <2>2, <2>3, <2>4, <2>5, <2>6, <2>7, <2>8, <2>9, <2>10 DEF Next
<1> QED
  BY <1>1, <1>2, PTL DEF Spec

-----------------------------------------------------------------------------
(* Theorems *)

\* The variables keep their types.
THEOREM StacksTyped == Spec => []TypeOK
<1>1. IInv => TypeOK
  BY DEF IInv
<1> QED
  BY <1>1, Inductive, PTL

\* longjmp always goes to a procedure that has not returned yet.
THEOREM LongjmpSafe == Spec => []JumpTargetsLive
<1>1. IInv => JumpTargetsLive
  BY DEF IInv, Structure
<1> QED
  BY <1>1, Inductive, PTL

\* The code that goes on finds its own catch point on top of the stack.
THEOREM FrameOwned == Spec => []OwnFrameOnTop
<1>1. IInv => OwnFrameOnTop
  BY DEF IInv, Structure
<1> QED
  BY <1>1, Inductive, PTL

\* Cleanup procedures run in the reverse order of their registration.
THEOREM CleanedInOrder == Spec => []LaterCleanedFirst
<1>1. IInv => LaterCleanedFirst
  <2> SUFFICES ASSUME IInv, NEW k \in 1..Len(frames), NEW i \in DOMAIN frames[k].cleaners,
                      frames[k].cleaners[i]
               PROVE  /\ \A j \in DOMAIN frames[k].cleaners : j > i => frames[k].cleaners[j]
                      /\ \A l \in (k + 1)..Len(frames) :
                           \E p \in 1..frames[l].height : calls[p].at = "search" /\ calls[p].frame <= k
    BY DEF LaterCleanedFirst
  <2>1. /\ Len(frames) \in Nat
        /\ \A l \in 1..Len(frames) : frames[l].height \in Nat
        /\ frames[k].cleaners \in Seq(BOOLEAN)
    BY FieldTypes DEF IInv
  <2>2. DOMAIN frames[k].cleaners = 1..Len(frames[k].cleaners)
    BY <2>1, LenProperties
  <2>3. /\ \A j \in 1..Len(frames[k].cleaners) : j > i => frames[k].cleaners[j]
        /\ \E p \in CallsOf(k) : calls[p].at = "search" /\ calls[p].frame <= k
    BY <2>2 DEF IInv, DoneUnderSearch
  <2>4. ASSUME NEW l \in (k + 1)..Len(frames)
        PROVE  \E p \in 1..frames[l].height : calls[p].at = "search" /\ calls[p].frame <= k
    <3>1. PICK p \in CallsOf(k) : calls[p].at = "search" /\ calls[p].frame <= k
      BY <2>3
    <3>2. k < Len(frames) /\ k + 1 \in 1..Len(frames) /\ l \in 1..Len(frames)
      BY <2>1
    <3>3. p \in (frames[k].height + 1)..frames[k + 1].height
      BY <3>1, <3>2 DEF CallsOf
    <3>4. frames[k + 1].height <= frames[l].height
      <4>1. CASE l = k + 1
        BY <2>1, <3>2, <4>1
      <4>2. CASE l # k + 1
        <5>1. k + 1 \in 1..(l - 1)
          BY <2>1, <3>2, <4>2
        <5>2. frames[k + 1].height < frames[l].height
          BY <3>2, <5>1 DEF IInv, Structure, HeightsIncrease
        <5> QED
          BY <2>1, <3>2, <5>2
      <4> QED
        BY <4>1, <4>2
    <3>5. p \in 1..frames[l].height
      BY <2>1, <3>2, <3>3, <3>4, SMTT(30)
    <3> QED
      BY <3>1, <3>5
  <2> QED
    BY <2>2, <2>3, <2>4
<1> QED
  BY <1>1, Inductive, PTL

\* A search without a cleanup procedure left to run goes on to the next catch
\* point or ends at this one.
LEMMA DecidingStep ==
  ASSUME Next, Deciding
  PROVE  \E c \in Codes : Skip(c) \/ Catch(c)
<1>1. /\ calls # <<>> /\ Top.at = "search" /\ Top.left = 0
      /\ ~InMain /\ ~InBody /\ ~InCleaner
  BY DEF Deciding, InMain, InBody, InCleaner
<1>2. /\ \A list \in CatchLists, tracer \in Tracing : ~Try(list, tracer)
      /\ \A c \in Codes : ~Throw(c)
  BY <1>1 DEF Try, Throw
<1>3. ~Return /\ ~PushCleanup /\ (\A exec \in BOOLEAN : ~PopCleanup(exec))
  BY <1>1 DEF Return, PushCleanup, PopCleanup
<1>4. ~PoppedReturns /\ ~CleanerReturns
  BY <1>1 DEF PoppedReturns, CleanerReturns
<1> QED
  BY <1>2, <1>3, <1>4 DEF Next

\* An exception removes a catch point only when its cleanup procedures are done.
THEOREM CleanersNotSkipped == Spec => NoCleanerSkipped
<1>1. IInv /\ [Next]_vars =>
        [\A k \in 1..Len(frames) :
           Deciding /\ k > Len(frames') =>
             \A i \in DOMAIN frames[k].cleaners : frames[k].cleaners[i]]_vars
  <2> SUFFICES ASSUME IInv, Next, NEW k \in 1..Len(frames), Deciding, k > Len(frames'),
                      NEW i \in DOMAIN frames[k].cleaners
               PROVE  frames[k].cleaners[i]
    OBVIOUS
  <2>1. /\ calls # <<>> /\ Top.at = "search" /\ Top.left = 0
        /\ ~InMain /\ ~InBody /\ ~InCleaner
    BY DEF Deciding, InMain, InBody, InCleaner
  <2>2. /\ Len(calls) \in Nat \ {0} /\ Len(frames) \in Nat \ {0} /\ frames \in Seq(Frame)
        /\ frames # <<>> /\ Top.frame = Len(frames) /\ Back \in Frame
    BY <2>1, LastExists DEF IInv, TypeOK
  <2>3. PICK c \in Codes : Skip(c) \/ Catch(c)
    BY DecidingStep
  <2>4. k = Len(frames)
    <3>1. CASE Len(frames) = 1
      BY <3>1
    <3>2. CASE frames' = DropLast(frames)
      <4>1. Len(frames') = Len(frames) - 1
        BY <2>2, <3>2, DropLastCuts
      <4> QED
        BY <2>2, <4>1
    <3> QED
      BY <2>3, <3>1, <3>2 DEF Skip, Catch
  <2>5. /\ Len(calls) \in 1..Len(calls) /\ Len(frames) \in 1..Len(frames)
        /\ Back.height < Len(calls)
    BY <2>2 DEF IInv, Structure, JumpTargetsLive, Back
  <2>6. \A j \in 1..Len(Back.cleaners) : j > 0 => Back.cleaners[j]
    <3>1. /\ calls[Len(calls)].at = "search" /\ calls[Len(calls)].frame = Len(frames)
          /\ calls[Len(calls)].left = 0
      BY <2>1, <2>2 DEF Top
    <3> QED
      BY <2>5, <3>1 DEF IInv, SearchesDone, Back
  <2>7. DOMAIN Back.cleaners = 1..Len(Back.cleaners)
    BY <2>2, LenProperties DEF Frame
  <2> QED
    BY <2>4, <2>6, <2>7 DEF Back
<1> QED
  BY <1>1, Inductive, PTL DEF Spec, NoCleanerSkipped

\* No code that has thrown is ever returned to.
THEOREM NoReturnFromThrow == Spec => ThrowNeverReturns
<1>1. IInv /\ [Next]_vars =>
        [\A p \in DOMAIN calls :
           calls[p].at = "search" /\ Len(calls') < p =>
             \/ Len(calls') < p - 1
             \/ ~alive']_vars
  <2> SUFFICES ASSUME IInv, Next, NEW p \in DOMAIN calls, calls[p].at = "search",
                      Len(calls') < p, alive'
               PROVE  Len(calls') < p - 1
    OBVIOUS
  <2>1. /\ calls \in Seq(Call) /\ calls # <<>> /\ p \in 1..Len(calls) /\ Len(calls) \in Nat \ {0}
    <3>1. calls \in Seq(Call)
      BY DEF IInv, TypeOK
    <3>2. p \in 1..Len(calls)
      BY <3>1, LenProperties
    <3> QED
      BY <3>1, <3>2, EmptySeq
  <2>2. /\ Len(frames) \in 1..Len(frames) /\ Back.height \in Nat /\ Back.height < Len(calls)
        /\ calls[Back.height + 1] = Body(Len(frames))
    BY <2>1, LastExists DEF IInv, Structure, JumpTargetsLive, Back, Frame
  <2>3. Len(calls') # Len(calls) /\ Len(calls') # Len(calls) + 1
    BY <2>1, EmptySeq
  <2>4. CASE calls' = DropLast(calls) /\ Top.at # "search"
    <3>1. Len(calls') = Len(calls) - 1
      BY <2>1, <2>4, DropLastCuts
    <3>2. p = Len(calls)
      BY <2>1, <3>1
    <3> QED
      BY <2>4, <3>2 DEF Top
  <2>5. CASE calls' = SubSeq(calls, 1, Back.height)
    <3>1. Len(calls') = Back.height
      BY <2>1, <2>2, <2>5, CutTo
    <3>2. p # Back.height + 1
      BY <2>2 DEF Body
    <3> QED
      BY <2>1, <2>2, <3>1, <3>2
  <2>6. ASSUME NEW e, calls' = [calls EXCEPT ![Len(calls)] = e]
        PROVE  FALSE
    <3>1. Len(calls) \in 1..Len(calls)
      BY <2>1
    <3> QED
      BY <2>1, <2>3, <2>6, <3>1, SameLength
  <2>7. ASSUME NEW e \in Call, calls' = Append(calls, e)
        PROVE  FALSE
    BY <2>1, <2>3, <2>7, Appended
  <2>8. ASSUME NEW list \in CatchLists, NEW tracer \in Tracing, Try(list, tracer) PROVE FALSE
    <3>1. Body(Len(frames) + 1) \in Call
      BY <2>1, LastExists DEF Body, Call
    <3> QED
      BY <2>7, <2>8, <3>1 DEF Try
  <2>9. CASE Return
    BY <2>4, <2>9 DEF Return, InBody
  <2>10. CASE PushCleanup
    BY <2>3, <2>10 DEF PushCleanup
  <2>11. ASSUME NEW exec \in BOOLEAN, PopCleanup(exec) PROVE FALSE
    <3>1. Popping(Len(frames)) \in Call
      BY <2>1, LastExists DEF Popping, Call
    <3> QED
      BY <2>3, <2>7, <2>11, <3>1 DEF PopCleanup
  <2>12. CASE PoppedReturns
    BY <2>4, <2>12 DEF PoppedReturns
  <2>13. ASSUME NEW c \in Codes, Throw(c) PROVE FALSE
    <3>1. frames # <<>>
      BY <2>13 DEF Throw, Terminate
    <3>2. Len(frames[Len(frames)].cleaners) \in Nat /\ Len(frames) \in Nat \ {0}
      BY <2>1, <2>2, LastExists, FieldTypes DEF IInv
    <3>3. BeginCheck(c, Len(frames)) \in Call
      BY <3>2 DEF BeginCheck, Search, Call
    <3> QED
      BY <2>7, <2>13, <3>1, <3>3 DEF Throw
  <2>14. CASE CleanerReturns
    <3>1. calls' = [calls EXCEPT ![Len(calls)] = [calls[Len(calls)] EXCEPT !.left = @ - 1]]
      BY <2>14 DEF CleanerReturns
    <3> QED
      BY <2>6, <3>1
  <2>15. ASSUME NEW c \in Codes, Skip(c) PROVE FALSE
    <3>1. calls' = [calls EXCEPT ![Len(calls)] = BeginCheck(c, Len(frames) - 1)]
      BY <2>15 DEF Skip, Terminate
    <3> QED
      BY <2>6, <3>1
  <2>16. ASSUME NEW c \in Codes, Catch(c) PROVE Len(calls') < p - 1
    BY <2>5, <2>16 DEF Catch
  <2> QED
    BY <2>8, <2>9, <2>10, <2>11, <2>12, <2>13, <2>14, <2>15, <2>16 DEF Next
<1> QED
  BY <1>1, Inductive, PTL DEF Spec, ThrowNeverReturns

\* An exception ends only a f_try that is to catch it, which returns its code.
THEOREM CaughtWhereAsked == Spec => CaughtByType
<1>1. IInv /\ [Next]_vars =>
        [\A c \in Codes :
           Deciding /\ Top.code = c /\ alive' /\ Len(calls') < Len(calls) =>
             /\ c # NoError /\ returned'.code = c
             /\ \/ Back.list = {}
                \/ \E t \in Back.list : t \subseteq c]_vars
  <2> SUFFICES ASSUME IInv, Next, NEW c \in Codes, Deciding, Top.code = c, alive',
                      Len(calls') < Len(calls)
               PROVE  /\ c # NoError /\ returned'.code = c
                      /\ \/ Back.list = {}
                         \/ \E t \in Back.list : t \subseteq c
    OBVIOUS
  <2>1. calls # <<>> /\ calls \in Seq(Call)
    BY DEF IInv, TypeOK, Deciding
  <2>2. /\ Len(calls) \in 1..Len(calls) /\ Len(calls) \in Nat
        /\ Top.frame = Len(frames) /\ Back \in Frame
    BY <2>1, LastExists
  <2>3. PICK d \in Codes : Skip(d) \/ Catch(d)
    BY DecidingStep
  <2>4. ~Skip(d)
    <3> SUFFICES ASSUME Skip(d) PROVE FALSE
      OBVIOUS
    <3>1. calls' = [calls EXCEPT ![Len(calls)] = BeginCheck(d, Len(frames) - 1)]
      BY DEF Skip, Terminate
    <3>2. Len(calls') = Len(calls)
      BY <2>1, <2>2, <3>1, SameLength
    <3> QED
      BY <2>2, <3>2
  <2>5. Catch(c)
    BY <2>3, <2>4 DEF Catch
  <2>6. Handles(Back.list, c) /\ returned'.code = c
    BY <2>2, <2>5 DEF Catch, Back
  <2>7. NoError \notin Back.list
    BY <2>2, CodesAssumption DEF Frame
  <2>8. CASE Back.list = {}
    BY <2>6, <2>8 DEF Handles
  <2>9. CASE Back.list # {}
    <3>1. PICK t \in Back.list : t \subseteq c
      BY <2>6, <2>9 DEF Handles
    <3>2. t # NoError
      BY <2>7, <3>1
    <3>3. c # NoError
      BY <3>1, <3>2 DEF NoError
    <3> QED
      BY <2>6, <3>1, <3>3
  <2> QED
    BY <2>8, <2>9
<1> QED
  BY <1>1, Inductive, PTL DEF Spec, CaughtByType

=============================================================================
