------------------------ MODULE FrameLoopEventProofs ------------------------
(***************************************************************************)
(* What events and requests do to the frame loop, for every buffer count:  *)
(* no configure is forgotten, no frame follows a close, frame callbacks    *)
(* are neither lost nor doubled, and a commit is sent before the next      *)
(* frame is lent.                                                          *)
(***************************************************************************)
EXTENDS FrameLoopProofs, FiniteSetTheorems

\* The steps that leave the state of the window and the place in wait_frame
\* alone, or leave wait_frame.
Aside ==
  \/ ReapEntry \/ SkipFrame \/ Quit \/ Fail \/ Resume \/ GpuFinish \/ Submit \/ Terminated
  \/ ReceiveFrame \/ ReceiveCommit \/ \E k \in DOMAIN held : Release(k)
  \/ FireFrame \/ AnswerFeedback \/ SendConfigure \/ SendClose

LEMMA AsideStep ==
  Aside => /\ UNCHANGED <<closed, resize_pending, pending, width, presented_once>>
           /\ UNCHANGED pc \/ (pc = "handed" /\ pc' = "submitted")
                           \/ pc' \in {"app", "threw", "done", "failed"}
BY DEF Aside, ReapEntry, SkipFrame, Quit, Fail, Resume, GpuFinish, Submit, Terminated,
   ReceiveFrame, ReceiveCommit, Release, FireFrame, AnswerFeedback, SendConfigure,
   SendClose, ring, window, present, control, kernel, remote, socket, vars

LEMMA NextByWindow ==
  Next => \/ Aside \/ WaitFrame \/ ReapDone \/ Gate \/ PollReturn \/ HandleResize
          \/ ArmFrame \/ HandOut \/ AwaitRelease \/ DrainReturn \/ FrameDone
          \/ ToplevelConfigure \/ ToplevelClose \/ PresentationAnswered
          \/ CommitFrame
BY DEF Next, Client, Compositor, Handler, Aside

----------------------------------------------------------------------------
(* Configures.                                                             *)

LEMMA ResizeInit == Init => ResizeNotForgotten
BY DEF Init, WindowReady, ResizeNotForgotten

LEMMA ResizeStep == ResizeNotForgotten /\ [Next]_vars => ResizeNotForgotten'
<1> SUFFICES ASSUME ResizeNotForgotten, [Next]_vars
             PROVE  ResizeNotForgotten'
  OBVIOUS
<1> USE DEF ring, window, present, control, kernel, remote, socket
<1>1. CASE Aside
  BY <1>1, AsideStep DEF ResizeNotForgotten
<1>2. CASE WaitFrame \/ ReapDone \/ PollReturn \/ HandOut \/ AwaitRelease
           \/ DrainReturn \/ CommitFrame \/ ArmFrame
  <2>1. UNCHANGED <<pending, width, resize_pending>> /\ pc' # "arm"
    BY <1>2 DEF WaitFrame, ReapDone, PollReturn, HandOut, AwaitRelease, DrainReturn,
       AfterDrain, CommitFrame, ArmFrame
  <2> QED BY <2>1 DEF ResizeNotForgotten
<1>3. CASE Gate
  <2>1. /\ UNCHANGED <<pending, width, resize_pending>>
        /\ pc' = "arm" => ~resize_pending
    BY <1>3 DEF Gate
  <2> QED BY <2>1 DEF ResizeNotForgotten
<1>4. CASE HandleResize
  <2>1. width' = pending /\ pending' = pending
    BY <1>4 DEF HandleResize
  <2> QED BY <2>1 DEF ResizeNotForgotten
<1>5. CASE ToplevelConfigure
  <2>1. pc # "arm" /\ UNCHANGED <<pc, width>>
    BY <1>5 DEF ToplevelConfigure, Dispatch
  <2>2. \/ UNCHANGED <<pending, resize_pending>>
        \/ resize_pending' = (resize_pending \/ pending' # width)
    BY <1>5 DEF ToplevelConfigure, ResizeNeeded
  <2> QED BY <2>1, <2>2 DEF ResizeNotForgotten
<1>6. CASE FrameDone \/ ToplevelClose \/ PresentationAnswered
  <2>1. UNCHANGED <<pending, width, resize_pending, pc>>
    BY <1>6 DEF FrameDone, ToplevelClose, PresentationAnswered, Dispatch
  <2> QED BY <2>1 DEF ResizeNotForgotten
<1>7. CASE UNCHANGED vars
  BY <1>7 DEF vars, ResizeNotForgotten
<1> QED BY <1>1, <1>2, <1>3, <1>4, <1>5, <1>6, <1>7, NextByWindow

\* No configure is forgotten, whichever of poll_and_dispatch and drain_events
\* dispatches it and however it interleaves with handle_resize.
THEOREM ResizeSafety == Spec => []ResizeNotForgotten
<1> QED BY ResizeInit, ResizeStep, PTL DEF Spec

----------------------------------------------------------------------------
(* The close.                                                              *)

\* Where the client thread may be once something was presented and the close
\* dispatched.
CloseInv ==
  presented_once /\ closed =>
    pc \in {"app", "reap", "gate", "poll", "drain", "threw", "done", "failed"}

LEMMA CloseInit == Init => CloseInv
BY DEF Init, CloseInv

LEMMA CloseStep == CloseInv /\ [Next]_vars => CloseInv'
<1> SUFFICES ASSUME CloseInv, [Next]_vars
             PROVE  CloseInv'
  OBVIOUS
<1> USE DEF ring, window, present, control, kernel, remote, socket
<1>1. CASE Aside
  BY <1>1, AsideStep DEF CloseInv
<1>2. CASE WaitFrame \/ ReapDone \/ PollReturn \/ CommitFrame
  BY <1>2 DEF WaitFrame, ReapDone, PollReturn, CommitFrame, CloseInv
<1>3. CASE Gate \/ DrainReturn
  BY <1>3 DEF Gate, NothingDue, DrainReturn, AfterDrain, CloseInv
<1>4. CASE HandleResize \/ ArmFrame \/ HandOut \/ AwaitRelease
  <2>1. /\ UNCHANGED <<closed, presented_once>>
        /\ pc \in {"resize", "arm", "release"}
    BY <1>4 DEF HandleResize, ArmFrame, HandOut, AwaitRelease
  <2> QED BY <2>1 DEF CloseInv
<1>5. CASE FrameDone \/ ToplevelConfigure \/ ToplevelClose \/ PresentationAnswered
  <2>1. pc \in {"poll", "drain"} /\ UNCHANGED pc
    BY <1>5 DEF FrameDone, ToplevelConfigure, ToplevelClose, PresentationAnswered,
       Dispatch
  <2> QED BY <2>1 DEF CloseInv
<1>6. CASE UNCHANGED vars
  BY <1>6 DEF vars, CloseInv
<1> QED BY <1>1, <1>2, <1>3, <1>4, <1>5, <1>6, NextByWindow

\* Once something was presented, wait_frame returns no frame after a close was
\* dispatched, also when the close arrives in the release wait.
THEOREM CloseSafety == Spec => []NoFrameAfterClose
<1>1. CloseInv => NoFrameAfterClose
  BY DEF CloseInv, NoFrameAfterClose
<1> QED BY <1>1, CloseInit, CloseStep, PTL DEF Spec

----------------------------------------------------------------------------
(* Counting the entries of a queue.                                        *)

LEMMA PositionsFinite ==
  ASSUME NEW S, NEW q \in Seq(S), NEW type
  PROVE  /\ IsFiniteSet(Positions(q, type))
         /\ Cardinality(Positions(q, type)) \in Nat
<1>1. DOMAIN q = 1 .. Len(q) /\ Len(q) \in Nat
  BY LenProperties
<1>2. IsFiniteSet(1 .. Len(q))
  BY <1>1, FS_Interval
<1>3. Positions(q, type) \in SUBSET (1 .. Len(q))
  BY <1>1 DEF Positions
<1>4. IsFiniteSet(Positions(q, type))
  BY <1>2, <1>3, FS_Subset
<1> QED BY <1>4, FS_CardinalityType

\* A concatenation has what its parts have.
LEMMA PositionsConcat ==
  ASSUME NEW S, NEW p \in Seq(S), NEW q \in Seq(S), NEW type
  PROVE  Cardinality(Positions(p \o q, type)) =
           Cardinality(Positions(p, type)) + Cardinality(Positions(q, type))
<1> DEFINE n     == Len(p)
           moved == {n + k : k \in Positions(q, type)}
           shift == [k \in Positions(q, type) |-> n + k]
<1>1. /\ n \in Nat /\ Len(q) \in Nat
      /\ DOMAIN p = 1 .. n /\ DOMAIN q = 1 .. Len(q)
      /\ DOMAIN (p \o q) = 1 .. n + Len(q)
      /\ \A k \in 1 .. n + Len(q) : (p \o q)[k] = IF k <= n THEN p[k] ELSE q[k - n]
  <2>1. p \o q \in Seq(S) /\ Len(p \o q) = n + Len(q)
    BY ConcatProperties
  <2>2. \A k \in 1 .. n + Len(q) : (p \o q)[k] = IF k <= n THEN p[k] ELSE q[k - n]
    BY ConcatProperties
  <2> QED BY <2>1, <2>2, LenProperties
<1> HIDE DEF n
<1>2. Positions(p, type) \subseteq 1 .. n /\ Positions(q, type) \subseteq 1 .. Len(q)
  BY <1>1 DEF Positions
<1>3. Positions(p \o q, type) = Positions(p, type) \cup moved
  <2>1. ASSUME NEW k \in Positions(p \o q, type)
        PROVE  k \in Positions(p, type) \cup moved
    <3>1. k \in 1 .. n + Len(q) /\ (p \o q)[k].type = type
      BY <1>1 DEF Positions
    <3>2. CASE k <= n
      BY <1>1, <3>1, <3>2 DEF Positions
    <3>3. CASE ~(k <= n)
      <4>1. k - n \in 1 .. Len(q) /\ k = n + (k - n)
        BY <1>1, <3>1, <3>3
      <4>2. q[k - n].type = type
        BY <1>1, <3>1, <3>3
      <4>3. k - n \in Positions(q, type)
        BY <1>1, <4>1, <4>2 DEF Positions
      <4> QED BY <4>1, <4>3
    <3> QED BY <3>2, <3>3
  <2>2. ASSUME NEW k \in Positions(p, type)
        PROVE  k \in Positions(p \o q, type)
    <3>1. k \in 1 .. n /\ p[k].type = type
      BY <1>1 DEF Positions
    <3> QED BY <1>1, <3>1 DEF Positions
  <2>3. ASSUME NEW k \in Positions(q, type)
        PROVE  n + k \in Positions(p \o q, type)
    <3>1. k \in 1 .. Len(q) /\ q[k].type = type
      BY <1>1 DEF Positions
    <3>2. n + k \in 1 .. n + Len(q) /\ ~(n + k <= n) /\ (n + k) - n = k
      BY <1>1, <3>1
    <3> QED BY <1>1, <3>1, <3>2 DEF Positions
  <2> QED BY <2>1, <2>2, <2>3
<1>4. Positions(p, type) \cap moved = {}
  BY <1>1, <1>2
<1>5. shift \in Bijection(Positions(q, type), moved)
  <2>1. shift \in Injection(Positions(q, type), moved)
    BY <1>1, <1>2 DEF Injection, IsInjective
  <2>2. shift \in Surjection(Positions(q, type), moved)
    BY DEF Surjection
  <2> QED BY <2>1, <2>2 DEF Bijection
<1>6. IsFiniteSet(moved) /\ Cardinality(moved) = Cardinality(Positions(q, type))
  <2>1. ExistsBijection(Positions(q, type), moved)
    BY <1>5 DEF ExistsBijection
  <2> QED BY <2>1, PositionsFinite, FS_Bijection
<1>7. Cardinality(Positions(p, type) \cup moved) =
        Cardinality(Positions(p, type)) + Cardinality(moved) - Cardinality({})
  BY <1>4, <1>6, PositionsFinite, FS_Union
<1>8. Cardinality({}) = 0
  BY FS_EmptySet
<1> QED BY <1>3, <1>6, <1>7, <1>8, PositionsFinite

LEMMA PositionsOfOne ==
  ASSUME NEW e, NEW type
  PROVE  Cardinality(Positions(<<e>>, type)) = IF e.type = type THEN 1 ELSE 0
<1>1. Positions(<<e>>, type) = IF e.type = type THEN {1} ELSE {}
  BY DEF Positions
<1> QED BY <1>1, FS_EmptySet, FS_Singleton

LEMMA PositionsAppend ==
  ASSUME NEW S, NEW q \in Seq(S), NEW e \in S, NEW type
  PROVE  Cardinality(Positions(Append(q, e), type)) =
           Cardinality(Positions(q, type)) + (IF e.type = type THEN 1 ELSE 0)
<1>1. Append(q, e) = q \o <<e>> /\ <<e>> \in Seq(S)
  BY AppendIsConcat
<1>2. Cardinality(Positions(q \o <<e>>, type)) =
        Cardinality(Positions(q, type)) + Cardinality(Positions(<<e>>, type))
  BY <1>1, PositionsConcat
<1> QED BY <1>1, <1>2, PositionsOfOne, Zenon

LEMMA PositionsTail ==
  ASSUME NEW S, NEW q \in Seq(S), q # <<>>, NEW type
  PROVE  Cardinality(Positions(q, type)) =
           (IF Head(q).type = type THEN 1 ELSE 0) + Cardinality(Positions(Tail(q), type))
<1>1. Head(q) \in S /\ Tail(q) \in Seq(S) /\ <<Head(q)>> \in Seq(S)
  BY HeadTailProperties
<1>2. q = <<Head(q)>> \o Tail(q)
  BY HeadTailProperties, ConcatProperties, SeqEqual, <1>1
<1>3. Cardinality(Positions(<<Head(q)>> \o Tail(q), type)) =
        Cardinality(Positions(<<Head(q)>>, type)) + Cardinality(Positions(Tail(q), type))
  BY <1>1, PositionsConcat
<1> QED BY <1>2, <1>3, PositionsOfOne, Zenon

----------------------------------------------------------------------------
(* Frame callbacks.                                                        *)

LEMMA CallbackInit == Init => CallbackConserved
<1> SUFFICES ASSUME Init PROVE CallbackConserved
  OBVIOUS
<1>1. \A type : Positions(<<>>, type) = {}
  BY DEF Positions
<1>2. /\ out = <<>> /\ wire = <<>> /\ events = <<>>
      /\ pendingCb = 0 /\ committedCb = 0 /\ frame_callback = FALSE
  BY DEF Init
<1>3. \A type : Cardinality(Positions(<<>>, type)) = 0
  BY <1>1, FS_EmptySet, Zenon
<1> QED BY <1>2, <1>3 DEF CallbackConserved

\* What each step does to the requests, callbacks and events on their way.
Untouched == UNCHANGED <<frame_callback, out, wire, events, pendingCb, committedCb>>

Answered(type) ==
  /\ events # <<>> /\ Head(events).type = type
  /\ events' = Tail(events)
  /\ UNCHANGED <<out, wire, pendingCb, committedCb>>

Sent(type) ==
  /\ \E e \in Event : e.type = type /\ events' = Append(events, e)
  /\ UNCHANGED <<frame_callback, out, wire, pendingCb>>

LEMMA UntouchedStep ==
  \/ WaitFrame \/ ReapEntry \/ ReapDone \/ PollReturn \/ HandleResize \/ HandOut
  \/ DrainReturn \/ Submit \/ SkipFrame \/ Quit \/ Fail \/ Resume \/ GpuFinish
  \/ (\E k \in DOMAIN held : Release(k)) \/ UNCHANGED vars
  => Untouched
BY DEF Untouched, WaitFrame, ReapEntry, ReapDone, PollReturn, HandleResize, HandOut,
   DrainReturn, Submit, SkipFrame, Quit, Fail, Resume, GpuFinish, Release, vars,
   window, remote, socket

LEMMA AnsweredStep ==
  /\ FrameDone => Answered("frame_done") /\ frame_callback' = FALSE /\ frame_due' = TRUE
  /\ ToplevelConfigure \/ ToplevelClose \/ PresentationAnswered =>
       /\ UNCHANGED <<frame_callback, frame_due>>
       /\ \E type \in {"configure", "close", "presented", "discarded"} : Answered(type)
BY DEF Answered, FrameDone, ToplevelConfigure, ToplevelClose, PresentationAnswered,
   Dispatch, window, remote

LEMMA EventStep ==
  ASSUME TypeOK
  PROVE  /\ FireFrame => Sent("frame_done") /\ committedCb > 0
                           /\ committedCb' = committedCb - 1
         /\ AnswerFeedback \/ SendConfigure \/ SendClose =>
              /\ UNCHANGED committedCb
              /\ \E type \in {"configure", "close", "presented", "discarded"} : Sent(type)
<1>1. [type |-> "frame_done"] \in Event /\ [type |-> "close"] \in Event
      /\ \A size \in Sizes \cup {None} : [type |-> "configure", size |-> size] \in Event
  BY DEF Event
<1>2. \A pfb \in owed, answer \in {"presented", "discarded"} :
        [type |-> answer, slot |-> pfb[1], point |-> pfb[2]] \in Event
  <2>1. \A pfb \in owed : pfb[1] \in Slots /\ pfb[2] \in Nat
    BY DEF TypeOK, SlotTypes
  <2> QED BY <2>1 DEF Event
<1>3. FireFrame => Sent("frame_done") /\ committedCb > 0
                     /\ committedCb' = committedCb - 1
  BY <1>1 DEF FireFrame, Send, Sent, window
<1>4. AnswerFeedback =>
        UNCHANGED committedCb /\ \E type \in {"presented", "discarded"} : Sent(type)
  BY <1>2 DEF AnswerFeedback, Send, Sent, window
<1>5. SendConfigure => UNCHANGED committedCb /\ Sent("configure")
  BY <1>1 DEF SendConfigure, Send, Sent, window
<1>6. SendClose => UNCHANGED committedCb /\ Sent("close")
  BY <1>1 DEF SendClose, Send, Sent, window, remote
<1> QED BY <1>3, <1>4, <1>5, <1>6

LEMMA CallbackStep == TypeOK /\ CallbackConserved /\ [Next]_vars => CallbackConserved'
<1> SUFFICES ASSUME TypeOK, CallbackConserved, [Next]_vars
             PROVE  CallbackConserved'
  OBVIOUS
<1> DEFINE Asked(q) == Cardinality(Positions(q, "frame"))
           Fired(q) == Cardinality(Positions(q, "frame_done"))
<1>0. /\ out \in Seq(Request) /\ wire \in Seq(Request) /\ events \in Seq(Event)
      /\ pendingCb \in Nat /\ committedCb \in Nat /\ frame_callback \in BOOLEAN
  BY DEF TypeOK, QueueTypes, WindowTypes
<1>a. /\ Asked(out) \in Nat /\ Asked(wire) \in Nat /\ Fired(events) \in Nat
      /\ Asked(<<>>) = 0
  <2>1. Positions(<<>>, "frame") = {}
    BY DEF Positions
  <2> QED BY <1>0, <2>1, PositionsFinite, FS_EmptySet
<1>b. /\ \A q, r \in Seq(Request) : Asked(q \o r) = Asked(q) + Asked(r)
      /\ \A q \in Seq(Request), r \in Request :
           Asked(Append(q, r)) = Asked(q) + (IF r.type = "frame" THEN 1 ELSE 0)
      /\ \A q \in Seq(Request) : q # <<>> =>
           Asked(q) = (IF Head(q).type = "frame" THEN 1 ELSE 0) + Asked(Tail(q))
  BY PositionsConcat, PositionsAppend, PositionsTail
<1>c. /\ \A q \in Seq(Event), r \in Event :
           Fired(Append(q, r)) = Fired(q) + (IF r.type = "frame_done" THEN 1 ELSE 0)
      /\ \A q \in Seq(Event) : q # <<>> =>
           Fired(q) = (IF Head(q).type = "frame_done" THEN 1 ELSE 0) + Fired(Tail(q))
  BY PositionsAppend, PositionsTail
<1>d. /\ CallbackConserved <=>
           Asked(out) + Asked(wire) + pendingCb + committedCb + Fired(events)
             = IF frame_callback THEN 1 ELSE 0
      /\ CallbackConserved' <=>
           Asked(out') + Asked(wire') + pendingCb' + committedCb' + Fired(events')
             = IF frame_callback' THEN 1 ELSE 0
  BY DEF CallbackConserved
<1>e. /\ wire # <<>> => Asked(Tail(wire)) \in Nat
      /\ events # <<>> => Fired(Tail(events)) \in Nat
  BY <1>0, HeadTailProperties, PositionsFinite
<1> HIDE DEF Asked, Fired
<1>1. CASE Untouched
  BY <1>1, <1>d DEF Untouched
<1>2. CASE Gate \/ AwaitRelease
  <2>1. /\ UNCHANGED <<frame_callback, events, pendingCb, committedCb>>
        /\ \/ wire' = wire /\ out' = out
           \/ wire' = wire \o out /\ out' = <<>>
    BY <1>2, FlushStep DEF Gate, AwaitRelease, window, remote
  <2>2. Asked(wire \o out) = Asked(wire) + Asked(out)
    BY <1>0, <1>b
  <2>3. CASE wire' = wire /\ out' = out
    BY <1>d, <2>1, <2>3
  <2>4. CASE wire' = wire \o out /\ out' = <<>>
    <3>1. Asked(wire') = Asked(wire) + Asked(out) /\ Asked(out') = 0
      BY <1>a, <2>2, <2>4, Zenon
    <3> QED BY <1>0, <1>a, <1>d, <2>1, <3>1
  <2> QED BY <2>1, <2>3, <2>4
<1>3. CASE ArmFrame
  <2> DEFINE asked == Append(out, [type |-> "frame"])
  <2>1. asked \in Seq(Request) /\ Asked(asked) = Asked(out) + 1
    <3>1. [type |-> "frame"] \in Request
      BY FrameRequestStep
    <3> QED BY <1>0, <1>b, <3>1, AppendProperties
  <2>2. /\ UNCHANGED <<events, pendingCb, committedCb>>
        /\ \/ UNCHANGED <<frame_callback, wire, out>>
           \/ /\ ~frame_callback /\ frame_callback'
              /\ \/ wire' = wire \o asked /\ out' = <<>>
                 \/ wire' = wire /\ out' = asked
    BY <1>3 DEF ArmFrame, CallbackWanted, remote
  <2>3. Asked(wire \o asked) = Asked(wire) + Asked(asked)
    BY <1>0, <1>b, <2>1
  <2> HIDE DEF asked
  <2>4. CASE wire' = wire \o asked /\ out' = <<>>
    <3>1. Asked(wire') = Asked(wire) + Asked(asked) /\ Asked(out') = 0
      BY <1>a, <2>3, <2>4, Zenon
    <3>2. Asked(wire') = Asked(wire) + Asked(out) + 1
      BY <1>a, <2>1, <3>1
    <3> QED BY <1>0, <1>a, <1>d, <2>2, <2>4, <3>1, <3>2
  <2>5. CASE wire' = wire /\ out' = asked
    <3>1. Asked(wire') = Asked(wire) /\ Asked(out') = Asked(out) + 1
      BY <2>1, <2>5
    <3> QED BY <1>0, <1>a, <1>d, <2>2, <2>5, <3>1
  <2>6. CASE UNCHANGED <<frame_callback, wire, out>>
    BY <1>d, <2>2, <2>6
  <2> QED BY <2>2, <2>4, <2>5, <2>6
<1>4. CASE FrameDone
  <2>1. Answered("frame_done") /\ frame_callback' = FALSE
    BY <1>4, AnsweredStep
  <2>2. Fired(events) = 1 + Fired(events') /\ Fired(events') \in Nat
    BY <1>0, <1>c, <1>e, <2>1 DEF Answered
  <2>3. UNCHANGED <<out, wire, pendingCb, committedCb>>
    BY <2>1 DEF Answered
  <2> QED BY <1>0, <1>a, <1>d, <2>1, <2>2, <2>3
<1>5. CASE ToplevelConfigure \/ ToplevelClose \/ PresentationAnswered
  <2>1. PICK type \in {"configure", "close", "presented", "discarded"} : Answered(type)
    BY <1>5, AnsweredStep
  <2>2. UNCHANGED frame_callback
    BY <1>5, AnsweredStep
  <2>3. Fired(events) = Fired(events')
    BY <1>0, <1>c, <1>e, <2>1 DEF Answered
  <2>4. UNCHANGED <<out, wire, pendingCb, committedCb>>
    BY <2>1 DEF Answered
  <2> QED BY <1>d, <2>2, <2>3, <2>4
<1>6. CASE CommitFrame
  <2>1. PICK c \in Commit : out' = Append(out, c)
    <3>1. handed_index \in Slots /\ counter[handed_index] + 1 \in Nat
          /\ Attached(handed_index) \in Nat
      BY <1>6 DEF CommitFrame, TypeOK, PlaceTypes, SlotTypes, Attached, NoImage
    <3> QED BY <1>6, <3>1 DEF CommitFrame, Commit
  <2>2. c \in Request /\ c.type = "commit"
    BY DEF Request, Commit
  <2>3. UNCHANGED <<frame_callback, wire, events, pendingCb, committedCb>>
    BY <1>6 DEF CommitFrame, window, remote
  <2>4. Asked(out') = Asked(out)
    BY <1>0, <1>a, <1>b, <2>1, <2>2
  <2> QED BY <1>d, <2>3, <2>4
<1>7. CASE ReceiveFrame
  <2>1. /\ wire # <<>> /\ Head(wire).type = "frame" /\ wire' = Tail(wire)
        /\ pendingCb' = pendingCb + 1
        /\ UNCHANGED <<frame_callback, out, events, committedCb>>
    BY <1>7 DEF ReceiveFrame, window
  <2>2. Asked(wire) = 1 + Asked(wire')
    BY <1>0, <1>b, <2>1
  <2>3. Asked(wire') \in Nat
    BY <1>e, <2>1
  <2>4. Asked(out') = Asked(out) /\ Fired(events') = Fired(events)
    BY <2>1
  <2> QED BY <1>0, <1>a, <1>d, <2>1, <2>2, <2>3, <2>4
<1>8. CASE ReceiveCommit
  <2>1. /\ wire # <<>> /\ Head(wire).type = "commit" /\ wire' = Tail(wire)
        /\ committedCb' = committedCb + pendingCb /\ pendingCb' = 0
        /\ UNCHANGED <<frame_callback, out, events>>
    BY <1>8 DEF ReceiveCommit, window
  <2>2. Asked(wire) = Asked(wire')
    BY <1>0, <1>b, <1>e, <2>1
  <2> QED BY <1>0, <1>a, <1>d, <2>1, <2>2
<1>9. CASE FireFrame
  <2>1. Sent("frame_done") /\ committedCb > 0 /\ committedCb' = committedCb - 1
    BY <1>9, EventStep
  <2>2. Fired(events') = Fired(events) + 1
    BY <1>0, <1>c, <2>1 DEF Sent
  <2>3. UNCHANGED <<frame_callback, out, wire, pendingCb>>
    BY <2>1 DEF Sent
  <2> QED BY <1>0, <1>a, <1>d, <2>1, <2>2, <2>3
<1>10. CASE AnswerFeedback \/ SendConfigure \/ SendClose
  <2>1. PICK type \in {"configure", "close", "presented", "discarded"} : Sent(type)
    BY <1>10, EventStep
  <2>2. UNCHANGED committedCb
    BY <1>10, EventStep
  <2>3. Fired(events') = Fired(events)
    BY <1>0, <1>a, <1>c, <2>1 DEF Sent
  <2>4. UNCHANGED <<frame_callback, out, wire, pendingCb>>
    BY <2>1 DEF Sent
  <2> QED BY <1>d, <2>2, <2>3, <2>4
<1> QED
  BY <1>1, <1>2, <1>3, <1>4, <1>5, <1>6, <1>7, <1>8, <1>9, <1>10, UntouchedStep
     DEF Next, Client, Compositor, Handler, Terminated

\* Exactly one frame callback is under way while frame_callback_ is set, and
\* none otherwise, whatever of request, commit, callback and event it is just
\* then, and whichever calls failed in between.
THEOREM CallbackSafety == Spec => []CallbackConserved
<1>1. TypeOK /\ CallbackConserved /\ [Next]_vars => (TypeOK /\ CallbackConserved)'
  BY TypeStep, CallbackStep
<1> QED BY <1>1, TypeInit, CallbackInit, PTL DEF Spec

----------------------------------------------------------------------------
(* Commits are sent before the next frame is lent.                         *)

FramesLast(q) == \A j \in Positions(q, "frame"), k \in Positions(q, "commit") : k < j

LEMMA PositionsEmpty ==
  ASSUME NEW S, NEW q \in Seq(S), NEW type, Cardinality(Positions(q, type)) = 0
  PROVE  Positions(q, type) = {}
BY PositionsFinite, FS_EmptySet

\* What is left of a queue has nothing the queue had not.
LEMMA PositionsOfTail ==
  ASSUME NEW S, NEW q \in Seq(S), q # <<>>, NEW type, NEW k \in Positions(Tail(q), type)
  PROVE  k \in Nat \ {0} /\ k + 1 \in Positions(q, type)
<1>1. /\ Len(q) \in Nat /\ DOMAIN q = 1 .. Len(q)
      /\ DOMAIN Tail(q) = 1 .. Len(q) - 1
      /\ \A j \in 1 .. Len(q) - 1 : Tail(q)[j] = q[j + 1]
  BY HeadTailProperties, LenProperties
<1>2. k \in 1 .. Len(q) - 1 /\ Tail(q)[k].type = type
  BY <1>1 DEF Positions
<1> QED BY <1>1, <1>2 DEF Positions

LEMMA PositionsOfAppend ==
  ASSUME NEW S, NEW q \in Seq(S), NEW e \in S, NEW type,
         NEW k \in Positions(Append(q, e), type)
  PROVE  (k \in Positions(q, type) /\ k <= Len(q)) \/ (k = Len(q) + 1 /\ e.type = type)
<1>1. /\ Len(q) \in Nat /\ DOMAIN q = 1 .. Len(q)
      /\ DOMAIN Append(q, e) = 1 .. Len(q) + 1
      /\ \A j \in 1 .. Len(q) : Append(q, e)[j] = q[j]
      /\ Append(q, e)[Len(q) + 1] = e
  BY AppendProperties, LenProperties
<1>2. k \in 1 .. Len(q) + 1 /\ Append(q, e)[k].type = type
  BY <1>1 DEF Positions
<1> QED BY <1>1, <1>2 DEF Positions

LEMMA HeadPosition ==
  ASSUME NEW S, NEW q \in Seq(S), q # <<>>
  PROVE  1 \in Positions(q, Head(q).type)
<1>1. 1 \in DOMAIN q /\ Head(q) = q[1]
  BY EmptySeq, LenProperties
<1> QED BY <1>1 DEF Positions

LEMMA FramesLastTail ==
  ASSUME NEW S, NEW q \in Seq(S), q # <<>>, FramesLast(q)
  PROVE  /\ FramesLast(Tail(q))
         /\ Head(q).type = "frame" => Positions(Tail(q), "commit") = {}
<1>1. FramesLast(Tail(q))
  BY PositionsOfTail DEF FramesLast
<1>2. ASSUME Head(q).type = "frame", NEW k \in Positions(Tail(q), "commit")
      PROVE  FALSE
  <2>1. k \in Nat \ {0} /\ k + 1 \in Positions(q, "commit")
    BY <1>2, PositionsOfTail
  <2>2. 1 \in Positions(q, "frame")
    BY <1>2, HeadPosition
  <2> QED BY <2>1, <2>2 DEF FramesLast
<1> QED BY <1>1, <1>2

\* The requests in order, whether flushed or not.
Requests == wire \o out

LEMMA RequestsConcat ==
  ASSUME NEW S, NEW p \in Seq(S), NEW q \in Seq(S)
  PROVE  /\ p \o <<>> = p
         /\ \A r \in S : p \o Append(q, r) = Append(p \o q, r)
         /\ p # <<>> => /\ Tail(p) \o q = Tail(p \o q)
                        /\ p \o q # <<>> /\ Head(p \o q) = Head(p)
<1>1. p \o <<>> = p
  BY ConcatEmptySeq
<1>2. ASSUME NEW r \in S
      PROVE  p \o Append(q, r) = Append(p \o q, r)
  <2>1. <<r>> \in Seq(S) /\ Append(q, r) = q \o <<r>>
    BY AppendIsConcat
  <2>2. p \o q \in Seq(S) /\ Append(p \o q, r) = (p \o q) \o <<r>>
    BY ConcatProperties, AppendIsConcat
  <2>3. p \o (q \o <<r>>) = (p \o q) \o <<r>>
    BY <2>1, ConcatAssociative
  <2> QED BY <2>1, <2>2, <2>3
<1>3. ASSUME p # <<>>
      PROVE  /\ Tail(p) \o q = Tail(p \o q)
             /\ p \o q # <<>> /\ Head(p \o q) = Head(p)
  <2>1. /\ Head(p) \in S /\ Tail(p) \in Seq(S) /\ <<Head(p)>> \in Seq(S)
        /\ p = <<Head(p)>> \o Tail(p)
    BY <1>3, HeadTailProperties, ConcatProperties, SeqEqual
  <2>2. p \o q = <<Head(p)>> \o (Tail(p) \o q) /\ Tail(p) \o q \in Seq(S)
    BY <2>1, ConcatAssociative, ConcatProperties
  <2>3. /\ p \o q \in Seq(S) /\ Len(p \o q) = Len(p) + Len(q) /\ Len(p) # 0
        /\ Len(p) \in Nat /\ Len(q) \in Nat
    BY <1>3, ConcatProperties, EmptySeq, LenProperties
  <2>4. p \o q # <<>>
    BY <2>3
  <2>5. Head(<<Head(p)>> \o (Tail(p) \o q)) = Head(p)
        /\ Tail(<<Head(p)>> \o (Tail(p) \o q)) = Tail(p) \o q
    BY <2>1, <2>2, ConcatSimplifications, HeadTailAppend
  <2> QED BY <2>2, <2>4, <2>5
<1> QED BY <1>1, <1>2, <1>3

\* The callback asked for last was not committed, hence not answered.
Unanswered == committedCb = 0 /\ Positions(events, "frame_done") = {}

AskedLast ==
  /\ FramesLast(Requests)
  /\ pendingCb # 0 => Positions(Requests, "commit") = {}

\* From arm_frame() to present().
Lending == {"release", "drain", "handed", "submitted"}

\* Where the client thread may be with a commit it has not flushed.
Unflushed == {"app", "reap", "gate", "threw", "done"}

DueInv == frame_due => ~frame_callback

FirstInv == ~presented_once => Unanswered /\ Positions(Requests, "commit") = {}

GateInv == pc \in {"resize", "arm"} /\ presented_once => frame_due

LendingInv == pc \in Lending => ~frame_due /\ Unanswered /\ AskedLast

UnsentInv ==
  Positions(out, "commit") # {} => ~frame_due /\ presented_once /\ pc \in Unflushed

\* A commit stays in libwayland's buffer only until the frame gate finds that
\* nothing is due: its callback cannot be answered before it is sent.
SentInv == DueInv /\ FirstInv /\ GateInv /\ LendingInv /\ UnsentInv

LEMMA SentInit == Init => SentInv
<1> SUFFICES ASSUME Init PROVE SentInv
  OBVIOUS
<1>1. \A type : Positions(<<>>, type) = {}
  BY DEF Positions
<1>2. /\ out = <<>> /\ wire = <<>> /\ events = <<>> /\ committedCb = 0
      /\ frame_due = FALSE /\ pc = "app" /\ presented_once = FALSE
  BY DEF Init
<1>3. Requests = <<>>
  <2>1. <<>> \in Seq(Request)
    OBVIOUS
  <2> QED BY <1>2, <2>1, ConcatEmptySeq DEF Requests
<1> QED BY <1>1, <1>2, <1>3
        DEF SentInv, DueInv, FirstInv, GateInv, LendingInv, UnsentInv, Unanswered, Lending

\* The steps that move no request, callback or event.
LEMMA UntouchedPlace ==
  ASSUME \/ WaitFrame \/ ReapEntry \/ ReapDone \/ PollReturn \/ HandleResize \/ HandOut
         \/ DrainReturn \/ Submit \/ SkipFrame \/ Quit \/ Fail \/ Resume \/ GpuFinish
         \/ (\E k \in DOMAIN held : Release(k)) \/ UNCHANGED vars
  PROVE  /\ UNCHANGED <<frame_due, presented_once>>
         /\ pc' \in Lending => pc \in Lending
         /\ pc' \in {"resize", "arm"} => pc \in {"resize", "arm"}
         /\ pc \in Unflushed => pc' \in Unflushed
<1> USE DEF Lending, Unflushed, ring, window, present, control, kernel, remote, socket
<1>1. CASE WaitFrame \/ ReapEntry \/ ReapDone \/ PollReturn
  BY <1>1 DEF WaitFrame, ReapEntry, ReapDone, PollReturn
<1>2. CASE HandleResize \/ HandOut \/ DrainReturn \/ Submit \/ SkipFrame
  BY <1>2 DEF HandleResize, HandOut, DrainReturn, AfterDrain, Submit, SkipFrame
<1>3. CASE Quit \/ Fail \/ Resume
  BY <1>3 DEF Quit, Fail, Resume
<1>4. CASE GpuFinish \/ (\E k \in DOMAIN held : Release(k)) \/ UNCHANGED vars
  BY <1>4 DEF GpuFinish, Release, vars
<1> QED BY <1>1, <1>2, <1>3, <1>4

LEMMA UntouchedSent ==
  ASSUME SentInv, Untouched, UNCHANGED <<frame_due, presented_once>>,
         pc' \in Lending => pc \in Lending,
         pc' \in {"resize", "arm"} => pc \in {"resize", "arm"},
         pc \in Unflushed => pc' \in Unflushed
  PROVE  SentInv'
<1>1. UNCHANGED <<frame_callback, out, wire, events, pendingCb, committedCb, Requests>>
  BY DEF Untouched, Requests
<1>2. Unanswered' = Unanswered /\ AskedLast' = AskedLast
  BY <1>1 DEF Unanswered, AskedLast, FramesLast
<1>3. DueInv' /\ FirstInv' /\ GateInv'
  BY <1>1, <1>2 DEF SentInv, DueInv, FirstInv, GateInv
<1>4. LendingInv' /\ UnsentInv'
  BY <1>1, <1>2 DEF SentInv, LendingInv, UnsentInv
<1> QED BY <1>3, <1>4 DEF SentInv

LEMMA FlushSent == TypeOK /\ SentInv /\ (Gate \/ AwaitRelease) => SentInv'
<1> SUFFICES ASSUME TypeOK, SentInv, Gate \/ AwaitRelease
             PROVE  SentInv'
  OBVIOUS
<1>0. /\ UNCHANGED <<frame_due, frame_callback, presented_once, events, pendingCb,
                     committedCb>>
      /\ \/ wire' = wire /\ out' = out
         \/ wire' = wire \o out /\ out' = <<>>
  BY FlushStep DEF Gate, AwaitRelease, ring, window, remote
<1>1. Requests' = Requests
  <2>1. wire \o out \in Seq(Request) /\ out \in Seq(Request) /\ wire \in Seq(Request)
    BY ConcatProperties DEF TypeOK, QueueTypes
  <2>2. (wire \o out) \o <<>> = wire \o out
    BY <2>1, ConcatEmptySeq
  <2> QED BY <1>0, <2>2 DEF Requests
<1>2. Unanswered' = Unanswered /\ AskedLast' = AskedLast
  BY <1>0, <1>1 DEF Unanswered, AskedLast
<1>3. DueInv' /\ FirstInv'
  BY <1>0, <1>1, <1>2 DEF SentInv, DueInv, FirstInv
<1>4. Positions(<<>>, "commit") = {}
  BY DEF Positions
<1>5. CASE Gate
  <2>1. \/ pc' = "poll" /\ wire' = wire \o out /\ out' = <<>>
        \/ /\ pc' = "done" /\ out' = out
        \/ /\ pc' \in {"resize", "arm"} /\ out' = out
           /\ presented_once => frame_due
    BY <1>5 DEF Gate, Flush, NothingDue
  <2>2. GateInv' /\ LendingInv'
    BY <1>0, <2>1 DEF GateInv, LendingInv, Lending
  <2>3. UnsentInv'
    <3>1. CASE out' = <<>>
      BY <1>4, <3>1 DEF UnsentInv
    <3>2. CASE pc' = "done" /\ out' = out
      BY <1>0, <3>2 DEF SentInv, UnsentInv, Unflushed
    <3>3. CASE out' = out /\ (presented_once => frame_due)
      BY <1>0, <3>3 DEF SentInv, UnsentInv
    <3> QED BY <2>1, <3>1, <3>2, <3>3
  <2> QED BY <1>3, <2>2, <2>3 DEF SentInv
<1>6. CASE AwaitRelease
  <2>1. pc = "release" /\ pc' = "drain" /\ out' = <<>>
    BY <1>6 DEF AwaitRelease, Flush
  <2>2. GateInv' /\ LendingInv'
    BY <1>0, <1>2, <2>1 DEF SentInv, GateInv, LendingInv, Lending
  <2>3. UnsentInv'
    BY <1>4, <2>1 DEF UnsentInv
  <2> QED BY <1>3, <2>2, <2>3 DEF SentInv
<1> QED BY <1>5, <1>6

\* arm_frame() asks when everything before it was answered.
LEMMA ArmSent ==
  TypeOK /\ SentInv /\ CloseInv /\ CallbackConserved /\ ArmFrame => SentInv'
<1> SUFFICES ASSUME TypeOK, SentInv, CloseInv, CallbackConserved, ArmFrame
             PROVE  SentInv'
  OBVIOUS
<1> DEFINE request == [type |-> "frame"]
<1>0. /\ out \in Seq(Request) /\ wire \in Seq(Request) /\ events \in Seq(Event)
      /\ Requests \in Seq(Request) /\ request \in Request
      /\ pendingCb \in Nat /\ committedCb \in Nat
      /\ frame_callback \in BOOLEAN /\ frame_due \in BOOLEAN
  BY ConcatProperties, FrameRequestStep DEF TypeOK, QueueTypes, WindowTypes, Requests
<1>1. /\ pc = "arm" /\ frame_due' = FALSE
      /\ UNCHANGED <<presented_once, events, pendingCb, committedCb>>
      /\ pc' \in {"release", "threw"}
  BY DEF ArmFrame, ring, remote
<1>2. /\ DueInv' /\ GateInv'
      /\ FirstInv /\ UnsentInv /\ GateInv /\ DueInv
  BY <1>1 DEF DueInv, GateInv, SentInv
<1>3. Positions(out, "commit") = {}
  BY <1>1, <1>2 DEF UnsentInv, Unflushed
<1>4. Unanswered' = Unanswered
  BY <1>1 DEF Unanswered
<1>5. CASE CallbackWanted
  <2>1. /\ Cardinality(Positions(out, "frame")) = 0
        /\ Cardinality(Positions(wire, "frame")) = 0
        /\ pendingCb = 0 /\ committedCb = 0
        /\ Cardinality(Positions(events, "frame_done")) = 0
    <3>1. ~frame_callback
      BY <1>5 DEF CallbackWanted
    <3>2. /\ Cardinality(Positions(out, "frame")) \in Nat
          /\ Cardinality(Positions(wire, "frame")) \in Nat
          /\ Cardinality(Positions(events, "frame_done")) \in Nat
      BY <1>0, PositionsFinite
    <3> QED BY <1>0, <3>1, <3>2 DEF CallbackConserved
  <2>2. Unanswered
    BY <1>0, <2>1, PositionsEmpty DEF Unanswered
  <2>3. Positions(Requests, "frame") = {}
    <3>1. Cardinality(Positions(Requests, "frame")) = 0
      BY <1>0, <2>1, PositionsConcat DEF Requests
    <3> QED BY <1>0, <3>1, PositionsEmpty
  <2>4. Requests' = Append(Requests, request)
    <3>1. /\ wire \o Append(out, request) = Append(Requests, request)
          /\ Append(Requests, request) \in Seq(Request)
      BY <1>0, RequestsConcat, AppendProperties DEF Requests
    <3>2. (wire \o Append(out, request)) \o <<>> = wire \o Append(out, request)
      BY <3>1, ConcatEmptySeq
    <3>3. \/ wire' = wire \o Append(out, request) /\ out' = <<>>
          \/ wire' = wire /\ out' = Append(out, request)
      BY <1>5 DEF ArmFrame, CallbackWanted
    <3> QED BY <3>1, <3>2, <3>3 DEF Requests
  <2>5. request.type = "frame" /\ request.type # "commit"
    OBVIOUS
  <2> HIDE DEF request
  <2>6. FramesLast(Requests')
    <3>1. Len(Requests) \in Nat
      BY <1>0, LenProperties
    <3>2. \A j \in Positions(Requests', "frame") : j = Len(Requests) + 1
      BY <1>0, <2>3, <2>4, PositionsOfAppend
    <3>3. \A k \in Positions(Requests', "commit") : k \in Nat /\ k <= Len(Requests)
      <4>1. Positions(Requests, "commit") \subseteq Nat
        BY <1>0, LenProperties DEF Positions
      <4> QED BY <1>0, <2>4, <2>5, <4>1, PositionsOfAppend
    <3> QED BY <3>1, <3>2, <3>3 DEF FramesLast
  <2>7. AskedLast'
    BY <1>1, <2>1, <2>6 DEF AskedLast
  <2>8. LendingInv'
    BY <1>1, <1>4, <2>2, <2>7 DEF LendingInv
  <2>9. Positions(Requests', "commit") = Positions(Requests, "commit") \/ presented_once
    <3>1. ~presented_once => Positions(Requests, "commit") = {}
      BY <1>2 DEF FirstInv
    <3>2. ~presented_once => Positions(Requests', "commit") = {}
      BY <1>0, <2>4, <2>5, <3>1, PositionsOfAppend
    <3> QED BY <3>1, <3>2
  <2>10. FirstInv'
    BY <1>1, <1>2, <1>4, <2>9 DEF FirstInv
  <2>11. UnsentInv'
    <3>1. Positions(<<>>, "commit") = {}
      BY DEF Positions
    <3>2. out' = <<>> \/ out' = Append(out, request)
      BY <1>5 DEF ArmFrame, request, CallbackWanted
    <3>3. Positions(Append(out, request), "commit") = {}
      BY <1>0, <1>3, <2>5, PositionsOfAppend
    <3>4. Positions(out', "commit") = {}
      BY <3>1, <3>2, <3>3
    <3> QED BY <3>4 DEF UnsentInv
  <2> QED BY <1>2, <2>8, <2>10, <2>11 DEF SentInv
<1>6. CASE ~CallbackWanted
  <2>1. UNCHANGED <<out, wire, Requests>>
    BY <1>6 DEF ArmFrame, Requests, CallbackWanted
  <2>2. ~presented_once
    <3>1. presented_once => ~closed
      BY <1>1 DEF CloseInv
    <3>2. presented_once => ~frame_callback
      BY <1>1, <1>2 DEF GateInv, DueInv
    <3> QED BY <1>6, <3>1, <3>2 DEF CallbackWanted
  <2>3. Unanswered /\ Positions(Requests, "commit") = {}
    BY <1>2, <2>2 DEF FirstInv
  <2>4. AskedLast'
    BY <1>1, <2>1, <2>3 DEF AskedLast, FramesLast
  <2>5. LendingInv' /\ FirstInv'
    BY <1>1, <1>4, <2>1, <2>3, <2>4 DEF LendingInv, FirstInv
  <2>6. UnsentInv'
    BY <1>3, <2>1 DEF UnsentInv
  <2> QED BY <1>2, <2>5, <2>6 DEF SentInv
<1> QED BY <1>5, <1>6

LEMMA HandlerSent == TypeOK /\ SentInv /\ Handler => SentInv'
<1> SUFFICES ASSUME TypeOK, SentInv, Handler
             PROVE  SentInv'
  OBVIOUS
<1>1. PICK type \in {"frame_done", "configure", "close", "presented", "discarded"} :
        /\ Answered(type)
        /\ type = "frame_done" => frame_callback' = FALSE /\ frame_due' = TRUE
        /\ type # "frame_done" => UNCHANGED <<frame_callback, frame_due>>
  BY AnsweredStep DEF Handler
<1>2. /\ pc \in {"poll", "drain"}
      /\ UNCHANGED <<pc, presented_once>>
  BY DEF Handler, FrameDone, ToplevelConfigure, ToplevelClose, PresentationAnswered,
     Dispatch, ring, control
<1>3. /\ events \in Seq(Event) /\ events # <<>> /\ Head(events).type = type
      /\ events' = Tail(events)
      /\ UNCHANGED <<out, wire, pendingCb, committedCb, Requests>>
  BY <1>1 DEF Answered, TypeOK, QueueTypes, Requests
<1>4. type = "frame_done" => Positions(events, "frame_done") # {}
  BY <1>3, HeadPosition
<1>5. Positions(events, "frame_done") = {} => Positions(events', "frame_done") = {}
  BY <1>3, PositionsOfTail
<1>6. Unanswered => Unanswered' /\ UNCHANGED <<frame_callback, frame_due>>
  BY <1>1, <1>3, <1>4, <1>5 DEF Unanswered
<1>7. AskedLast' = AskedLast
  BY <1>3 DEF AskedLast
<1>8. DueInv'
  BY <1>1 DEF SentInv, DueInv
<1>9. FirstInv'
  BY <1>2, <1>3, <1>6 DEF SentInv, FirstInv
<1>10. GateInv'
  BY <1>2 DEF GateInv
<1>11. LendingInv'
  BY <1>2, <1>6, <1>7 DEF SentInv, LendingInv
<1>12. UnsentInv'
  BY <1>2, <1>3 DEF SentInv, UnsentInv, Unflushed
<1> QED BY <1>8, <1>9, <1>10, <1>11, <1>12 DEF SentInv

LEMMA PresentSent == SentInv /\ CommitFrame => SentInv'
<1> SUFFICES ASSUME SentInv, CommitFrame
             PROVE  SentInv'
  OBVIOUS
<1>1. /\ pc = "submitted" /\ pc' = "app" /\ presented_once' = TRUE
      /\ UNCHANGED <<frame_due, frame_callback>>
  BY DEF CommitFrame, window
<1>2. ~frame_due
  BY <1>1 DEF SentInv, LendingInv, Lending
<1> QED BY <1>1, <1>2 DEF SentInv, DueInv, FirstInv, GateInv, LendingInv, UnsentInv,
                          Lending, Unflushed

LEMMA ReceiveSent == TypeOK /\ SentInv /\ (ReceiveFrame \/ ReceiveCommit) => SentInv'
<1> SUFFICES ASSUME TypeOK, SentInv, ReceiveFrame \/ ReceiveCommit
             PROVE  SentInv'
  OBVIOUS
<1>1. /\ wire # <<>> /\ wire' = Tail(wire)
      /\ UNCHANGED <<frame_due, frame_callback, presented_once, pc, out, events>>
      /\ \/ /\ Head(wire).type = "frame" /\ pendingCb' = pendingCb + 1
            /\ UNCHANGED committedCb
         \/ /\ Head(wire).type = "commit" /\ pendingCb' = 0
            /\ committedCb' = committedCb + pendingCb
  BY DEF ReceiveFrame, ReceiveCommit, ring, window, control
<1>2. /\ wire \in Seq(Request) /\ out \in Seq(Request) /\ Requests \in Seq(Request)
      /\ pendingCb \in Nat /\ committedCb \in Nat
  BY ConcatProperties DEF TypeOK, QueueTypes, Requests
<1>3. /\ Requests' = Tail(Requests) /\ Requests # <<>>
      /\ Head(Requests) = Head(wire)
  BY <1>1, <1>2, RequestsConcat DEF Requests
<1>4. Positions(Requests, "commit") = {} => Positions(Requests', "commit") = {}
  BY <1>2, <1>3, PositionsOfTail
<1>5. Head(wire).type = "commit" => Positions(Requests, "commit") # {}
  BY <1>2, <1>3, HeadPosition
<1>6. FramesLast(Requests) =>
        /\ FramesLast(Requests')
        /\ Head(wire).type = "frame" => Positions(Requests', "commit") = {}
  BY <1>2, <1>3, FramesLastTail
<1>7. Unanswered /\ AskedLast => Unanswered' /\ AskedLast'
  <2> SUFFICES ASSUME Unanswered, AskedLast
               PROVE  Unanswered' /\ AskedLast'
    OBVIOUS
  <2>1. CASE Head(wire).type = "frame"
    BY <1>1, <1>6, <2>1 DEF Unanswered, AskedLast
  <2>2. CASE Head(wire).type = "commit"
    BY <1>1, <1>2, <1>5, <1>6, <2>2 DEF Unanswered, AskedLast
  <2> QED BY <1>1, <2>1, <2>2
<1>8. FirstInv'
  BY <1>1, <1>4, <1>5 DEF SentInv, FirstInv, Unanswered
<1>9. LendingInv'
  BY <1>1, <1>7 DEF SentInv, LendingInv
<1> QED BY <1>1, <1>8, <1>9 DEF SentInv, DueInv, GateInv, UnsentInv

LEMMA EventSent ==
  TypeOK /\ SentInv /\ (FireFrame \/ AnswerFeedback \/ SendConfigure \/ SendClose)
  => SentInv'
<1> SUFFICES ASSUME TypeOK, SentInv,
                    FireFrame \/ AnswerFeedback \/ SendConfigure \/ SendClose
             PROVE  SentInv'
  OBVIOUS
<1>1. /\ UNCHANGED <<frame_due, frame_callback, presented_once, pc, out, wire,
                     pendingCb, Requests>>
  BY DEF FireFrame, AnswerFeedback, SendConfigure, SendClose, ring, window, control,
     remote, Requests
<1>2. PICK type \in {"frame_done", "configure", "close", "presented", "discarded"} :
        /\ Sent(type)
        /\ IF type = "frame_done" THEN committedCb > 0 ELSE UNCHANGED committedCb
  BY EventStep
<1>3. Unanswered => Unanswered'
  <2>1. ASSUME Unanswered
        PROVE  type # "frame_done" /\ committedCb' = 0
    BY <1>2, <2>1 DEF Unanswered
  <2>2. PICK e \in Event : e.type = type /\ events' = Append(events, e)
    BY <1>2 DEF Sent
  <2>3. events \in Seq(Event)
    BY DEF TypeOK, QueueTypes
  <2>4. ASSUME Unanswered, NEW k \in Positions(events', "frame_done")
        PROVE  k \in Positions(events, "frame_done")
    BY <2>1, <2>2, <2>3, <2>4, PositionsOfAppend
  <2> QED BY <2>1, <2>4 DEF Unanswered
<1>4. AskedLast' = AskedLast
  BY <1>1 DEF AskedLast
<1> QED BY <1>1, <1>3, <1>4 DEF SentInv, DueInv, FirstInv, GateInv, LendingInv, UnsentInv

LEMMA StaysSent ==
  TypeOK /\ CloseInv /\ CallbackConserved /\ SentInv /\ [Next]_vars => SentInv'
<1> SUFFICES ASSUME TypeOK, CloseInv, CallbackConserved, SentInv, [Next]_vars
             PROVE  SentInv'
  OBVIOUS
<1>1. CASE \/ WaitFrame \/ ReapEntry \/ ReapDone \/ PollReturn \/ HandleResize \/ HandOut
           \/ DrainReturn \/ Submit \/ SkipFrame \/ Quit \/ Fail \/ Resume \/ GpuFinish
           \/ (\E k \in DOMAIN held : Release(k)) \/ UNCHANGED vars
  BY <1>1, UntouchedStep, UntouchedPlace, UntouchedSent
<1>2. CASE Gate \/ AwaitRelease
  BY <1>2, FlushSent
<1>3. CASE ArmFrame
  BY <1>3, ArmSent
<1>4. CASE Handler
  BY <1>4, HandlerSent
<1>5. CASE CommitFrame
  BY <1>5, PresentSent
<1>6. CASE ReceiveFrame \/ ReceiveCommit
  BY <1>6, ReceiveSent
<1>7. CASE FireFrame \/ AnswerFeedback \/ SendConfigure \/ SendClose
  BY <1>7, EventSent
<1> QED BY <1>1, <1>2, <1>3, <1>4, <1>5, <1>6, <1>7
        DEF Next, Client, Compositor, Terminated

\* What present() left in libwayland's buffer is flushed before wait_frame lends
\* another frame: it cannot pass the frame gate without the callback that only
\* comes once the commit was sent.
THEOREM SentSafety == Spec => []CommitsSentWhenLent
<1> DEFINE I == TypeOK /\ CloseInv /\ CallbackConserved /\ SentInv
<1>1. Init => I
  BY TypeInit, CloseInit, CallbackInit, SentInit
<1>2. I /\ [Next]_vars => I'
  BY TypeStep, CloseStep, CallbackStep, StaysSent
<1>3. I => CommitsSentWhenLent
  BY DEF SentInv, UnsentInv, Unflushed, CommitsSentWhenLent, CommitsIn, Positions
<1> HIDE DEF I
<1> QED BY <1>1, <1>2, <1>3, PTL DEF Spec

----------------------------------------------------------------------------
(* Presentation feedback.                                                  *)

\* The only steps that touch the feedback objects, the statistics, the points
\* committed or the generation.
LEMMA FeedbackFrame ==
  ASSUME [Next]_vars, ~CommitFrame, ~HandleResize, ~PresentationAnswered
  PROVE  UNCHANGED <<feedback, proxies, stats, counter, generation>>
BY DEF Next, Client, Compositor, Handler, WaitFrame, ReapEntry, ReapDone, Gate,
   PollReturn, ArmFrame, HandOut, AwaitRelease, DrainReturn, FrameDone,
   ToplevelConfigure, ToplevelClose, Dispatch, Submit, SkipFrame, Quit, Fail,
   Resume, GpuFinish, ReceiveFrame, ReceiveCommit, Release, FireFrame,
   AnswerFeedback, SendConfigure, SendClose, Terminated, vars, ring, present

LEMMA AnsweredFeedback ==
  PresentationAnswered =>
    /\ UNCHANGED <<counter, generation>>
    /\ \/ UNCHANGED <<feedback, proxies, stats>>
       \/ \E pfb \in proxies :
            /\ Count(Head(events).type)
            /\ feedback' = References(pfb)
            /\ proxies' = proxies \ {pfb}
BY DEF PresentationAnswered, Dispatch, Destroy, ring, present

LEMMA DanglingStep == TypeOK /\ NoDanglingFeedback /\ [Next]_vars => NoDanglingFeedback'
<1> SUFFICES ASSUME TypeOK, NoDanglingFeedback, [Next]_vars
             PROVE  NoDanglingFeedback'
  OBVIOUS
<1>0. feedback \in [Slots -> Nat]
  BY DEF TypeOK, SlotTypes
<1>1. CASE PresentationAnswered
  <2>1. CASE UNCHANGED <<feedback, proxies, stats>>
    BY <2>1 DEF NoDanglingFeedback
  <2>2. ASSUME NEW pfb \in proxies, feedback' = References(pfb),
               proxies' = proxies \ {pfb}
        PROVE  NoDanglingFeedback'
    <3> SUFFICES ASSUME NEW i \in Slots, feedback'[i] # None
                 PROVE  <<i, feedback'[i]>> \in proxies'
      BY DEF NoDanglingFeedback
    <3>1. feedback'[i] = IF <<i, feedback[i]>> = pfb THEN None ELSE feedback[i]
      BY <2>2 DEF References
    <3>2. <<i, feedback[i]>> # pfb /\ feedback'[i] = feedback[i]
      BY <3>1
    <3> QED BY <2>2, <3>2 DEF NoDanglingFeedback
  <2> QED BY <1>1, <2>1, <2>2, AnsweredFeedback
<1>2. CASE HandleResize
  BY <1>2 DEF HandleResize, NoDanglingFeedback
<1>3. CASE CommitFrame
  <2>1. CASE feedback' = feedback /\ proxies' = proxies
    BY <2>1 DEF NoDanglingFeedback
  <2>2. CASE /\ feedback' = [feedback EXCEPT ![handed_index] = counter[handed_index] + 1]
             /\ proxies' = proxies \cup {<<handed_index, counter[handed_index] + 1>>}
    BY <1>0, <2>2 DEF NoDanglingFeedback
  <2> QED BY <1>3, <2>1, <2>2 DEF CommitFrame
<1>4. CASE ~PresentationAnswered /\ ~HandleResize /\ ~CommitFrame
  BY <1>4, FeedbackFrame DEF NoDanglingFeedback
<1> QED BY <1>1, <1>2, <1>3, <1>4

\* No slot refers to a feedback object that was destroyed, in whatever order
\* answers, resizes and further commits of the slot come.
THEOREM FeedbackSafety == Spec => []NoDanglingFeedback
<1>1. Init => NoDanglingFeedback
  BY DEF Init, NoDanglingFeedback
<1>2. TypeOK /\ NoDanglingFeedback /\ [Next]_vars => (TypeOK /\ NoDanglingFeedback)'
  BY TypeStep, DanglingStep
<1> QED BY <1>1, <1>2, TypeInit, PTL DEF Spec

----------------------------------------------------------------------------
(* The statistics.                                                         *)

\* A live feedback object belongs to a commit that was made.
AccountInv ==
  /\ generation # 0
  /\ proxies \subseteq Commits
  /\ StatsAccounted

LEMMA CommitsMember ==
  ASSUME NEW i, NEW p
  PROVE  <<i, p>> \in Commits <=> i \in Slots /\ p \in 1 .. counter[i]
BY DEF Commits

LEMMA CommitsFinite ==
  ASSUME TypeOK
  PROVE  IsFiniteSet(Commits) /\ Cardinality(Commits) \in Nat
<1> DEFINE column == [i \in Slots |-> {i} \X (1 .. counter[i])]
           columns == {{i} \X (1 .. counter[i]) : i \in Slots}
<1>0. counter \in [Slots -> Nat] /\ BufferCount \in Nat
  BY LoopAssumption DEF TypeOK, SlotTypes
<1>1. IsFiniteSet(Slots)
  BY <1>0, FS_Interval DEF Slots
<1>2. column \in Surjection(Slots, columns)
  BY DEF Surjection
<1>3. IsFiniteSet(columns)
  BY <1>1, <1>2, FS_Surjection
<1>4. ASSUME NEW i \in Slots
      PROVE  IsFiniteSet({i} \X (1 .. counter[i]))
  <2>1. IsFiniteSet({i})
    BY FS_Singleton
  <2>2. counter[i] \in Int /\ 1 \in Int
    BY <1>0
  <2>3. IsFiniteSet(1 .. counter[i])
    BY <2>2, FS_Interval
  <2> QED BY <2>1, <2>3, FS_Product
<1>5. IsFiniteSet(UNION columns)
  BY <1>3, <1>4, FS_UNION
<1> QED BY <1>5, FS_CardinalityType DEF Commits

\* present() makes one commit more.
LEMMA CommitsGrow ==
  ASSUME TypeOK, CommitFrame
  PROVE  LET new == <<handed_index, counter[handed_index] + 1>>
         IN  new \notin Commits /\ Commits' = Commits \cup {new}
<1> DEFINE new == <<handed_index, counter[handed_index] + 1>>
<1>1. /\ handed_index \in Slots /\ counter \in [Slots -> Nat]
      /\ counter' = [counter EXCEPT ![handed_index] = counter[handed_index] + 1]
  BY DEF CommitFrame, TypeOK, SlotTypes, PlaceTypes
<1>2. new \notin Commits
  BY <1>1, CommitsMember
<1>3. ASSUME NEW i \in Slots
      PROVE  {i} \X (1 .. counter'[i]) =
               ({i} \X (1 .. counter[i])) \cup (IF i = handed_index THEN {new} ELSE {})
  <2>1. CASE i = handed_index
    <3>1. 1 .. counter'[i] = (1 .. counter[i]) \cup {counter[i] + 1}
      BY <1>1, <2>1
    <3> QED BY <2>1, <3>1
  <2>2. CASE i # handed_index
    BY <1>1, <2>2
  <2> QED BY <2>1, <2>2
<1>4. Commits' = Commits \cup {new}
  <2>1. ASSUME NEW c \in Commits'
        PROVE  c \in Commits \cup {new}
    <3>1. PICK i \in Slots : c \in {i} \X (1 .. counter'[i])
      BY <2>1 DEF Commits
    <3>2. c \in {i} \X (1 .. counter[i]) \/ c = new
      BY <1>3, <3>1
    <3> QED BY <3>2 DEF Commits
  <2>2. ASSUME NEW c \in Commits \cup {new}
        PROVE  c \in Commits'
    <3>1. CASE c = new
      <4>1. new \in {handed_index} \X (1 .. counter'[handed_index])
        BY <1>1, <1>3
      <4> QED BY <1>1, <3>1, <4>1 DEF Commits
    <3>2. CASE c \in Commits
      <4>1. PICK i \in Slots : c \in {i} \X (1 .. counter[i])
        BY <3>2 DEF Commits
      <4>2. c \in {i} \X (1 .. counter'[i])
        BY <1>3, <4>1
      <4> QED BY <4>2 DEF Commits
    <3> QED BY <2>2, <3>1, <3>2
  <2> QED BY <2>1, <2>2
<1> QED BY <1>2, <1>4

\* Counting an answer adds one to the frames accounted for.
LEMMA CountOne ==
  ASSUME stats \in StatsAccum, NEW type, Count(type)
  PROVE  stats'.presented + stats'.discarded = stats.presented + stats.discarded + 1
<1>1. CASE stats' = Discarded(stats)
  BY <1>1 DEF Discarded, StatsAccum
<1>2. ASSUME NEW tv \in Times, NEW refresh \in Refreshes,
             stats' = Presented(stats, tv, refresh)
      PROVE  stats'.presented = stats.presented + 1 /\ stats'.discarded = stats.discarded
  BY <1>2 DEF Presented, Measured, StatsAccum
<1>3. stats.presented \in Nat /\ stats.discarded \in Nat
  BY DEF StatsAccum
<1> QED BY <1>1, <1>2, <1>3 DEF Count

LEMMA AccountStep == TypeOK /\ AccountInv /\ [Next]_vars => AccountInv'
<1> SUFFICES ASSUME TypeOK, AccountInv, [Next]_vars
             PROVE  AccountInv'
  OBVIOUS
<1>0. /\ proxies \subseteq Commits /\ generation \in Nat \ {0}
      /\ stats \in StatsAccum /\ stats.presented \in Nat /\ stats.discarded \in Nat
      /\ IsFiniteSet(proxies) /\ Cardinality(proxies) \in Nat
      /\ IsFiniteSet(Commits) /\ Cardinality(Commits) \in Nat
  <2>1. /\ proxies \subseteq Commits /\ generation \in Nat \ {0} /\ stats \in StatsAccum
    BY DEF AccountInv, TypeOK, SlotTypes
  <2>2. IsFiniteSet(Commits) /\ Cardinality(Commits) \in Nat
    BY CommitsFinite
  <2>3. IsFiniteSet(proxies)
    BY <2>1, <2>2, FS_Subset
  <2>4. Cardinality(proxies) \in Nat
    BY <2>3, FS_CardinalityType
  <2> QED BY <2>1, <2>2, <2>3, <2>4 DEF StatsAccum
<1>1. CASE PresentationAnswered
  <2>1. UNCHANGED <<counter, generation>> /\ Commits' = Commits
    BY <1>1, AnsweredFeedback DEF Commits
  <2>2. CASE UNCHANGED <<feedback, proxies, stats>>
    BY <2>1, <2>2 DEF AccountInv, StatsAccounted
  <2>3. ASSUME NEW pfb \in proxies, Count(Head(events).type),
               proxies' = proxies \ {pfb}
        PROVE  AccountInv'
    <3>1. Cardinality(proxies') = Cardinality(proxies) - 1
      BY <1>0, <2>3, FS_RemoveElement
    <3>2. stats'.presented + stats'.discarded = stats.presented + stats.discarded + 1
      BY <1>0, <2>3, CountOne
    <3>3. stats'.presented \in Nat /\ stats'.discarded \in Nat
      <4>1. stats' \in StatsAccum
        BY TypeStep DEF TypeOK, SlotTypes
      <4> QED BY <4>1 DEF StatsAccum
    <3>4. stats'.presented + stats'.discarded + Cardinality(proxies') =
            stats.presented + stats.discarded + Cardinality(proxies)
      BY <1>0, <3>1, <3>2, <3>3
    <3>5. proxies' \subseteq Commits'
      BY <1>0, <2>1, <2>3
    <3> QED BY <2>1, <3>4, <3>5 DEF AccountInv, StatsAccounted
  <2> QED BY <1>1, <2>2, <2>3, AnsweredFeedback
<1>2. CASE HandleResize
  <2>1. /\ proxies' \subseteq proxies /\ generation' = generation + 1
        /\ UNCHANGED <<stats, counter>> /\ Commits' = Commits
    BY <1>2 DEF HandleResize, Commits
  <2>2. Cardinality(proxies') <= Cardinality(proxies) /\ Cardinality(proxies') \in Nat
    <3>1. IsFiniteSet(proxies') /\ Cardinality(proxies') <= Cardinality(proxies)
      BY <1>0, <2>1, FS_Subset
    <3> QED BY <3>1, FS_CardinalityType
  <2>3. stats.presented + stats.discarded + Cardinality(proxies') <= Cardinality(Commits)
    BY <1>0, <2>2 DEF AccountInv, StatsAccounted
  <2>4. generation' # 0 /\ generation' # 1
    BY <1>0, <2>1
  <2> QED BY <1>0, <2>1, <2>3, <2>4 DEF AccountInv, StatsAccounted
<1>3. CASE CommitFrame
  <2> DEFINE new == <<handed_index, counter[handed_index] + 1>>
  <2>1. new \notin Commits /\ Commits' = Commits \cup {new}
    BY <1>3, CommitsGrow
  <2>2. Cardinality(Commits') = Cardinality(Commits) + 1
    BY <1>0, <2>1, FS_AddElement
  <2>3. UNCHANGED <<stats, generation>>
    BY <1>3 DEF CommitFrame
  <2>4. CASE CollectStats
    <3>1. proxies' = proxies \cup {new}
      BY <1>3, <2>4 DEF CommitFrame
    <3>2. Cardinality(proxies') = Cardinality(proxies) + 1
      BY <1>0, <2>1, <3>1, FS_AddElement
    <3>3. proxies' \subseteq Commits'
      BY <1>0, <2>1, <3>1
    <3> QED BY <1>0, <2>2, <2>3, <3>2, <3>3 DEF AccountInv, StatsAccounted
  <2>5. CASE ~CollectStats
    <3>1. proxies' = proxies
      BY <1>3, <2>5 DEF CommitFrame
    <3>2. proxies' \subseteq Commits'
      BY <1>0, <2>1, <3>1
    <3> QED BY <1>0, <2>2, <2>3, <2>5, <3>1, <3>2 DEF AccountInv, StatsAccounted
  <2> QED BY <2>4, <2>5
<1>4. CASE ~PresentationAnswered /\ ~HandleResize /\ ~CommitFrame
  <2>1. UNCHANGED <<proxies, stats, generation, counter>> /\ Commits' = Commits
    BY <1>4, FeedbackFrame DEF Commits
  <2> QED BY <2>1 DEF AccountInv, StatsAccounted
<1> QED BY <1>1, <1>2, <1>3, <1>4

\* No commit is counted twice, as presented and as discarded or after a resize
\* destroyed its feedback object, and before the first resize none is missed.
THEOREM AccountSafety == Spec => []StatsAccounted
<1>1. Init => AccountInv
  <2> SUFFICES ASSUME Init PROVE AccountInv
    OBVIOUS
  <2>1. proxies = {} /\ stats = NoStats /\ generation = 1 /\ counter = [i \in Slots |-> 0]
    BY DEF Init
  <2>2. Commits = {}
    BY <2>1 DEF Commits
  <2>3. Cardinality({}) = 0
    BY FS_EmptySet
  <2> QED BY <2>1, <2>2, <2>3 DEF AccountInv, StatsAccounted, NoStats
<1>2. TypeOK /\ AccountInv /\ [Next]_vars => (TypeOK /\ AccountInv)'
  BY TypeStep, AccountStep
<1>3. AccountInv => StatsAccounted
  BY DEF AccountInv
<1> QED BY <1>1, <1>2, <1>3, TypeInit, PTL DEF Spec

----------------------------------------------------------------------------
(* Timings.                                                                *)

\* t is s with one gap measured after the others.
OneMore(s, t, gap, refresh) ==
  /\ t.gaps = Append(s.gaps, [gap |-> gap, refresh |-> refresh])
  /\ t.min_gap = Shorter(s, gap)
  /\ t.max_gap = IF gap > s.max_gap THEN gap ELSE s.max_gap
  /\ t.late = IF Late(gap, refresh) THEN s.late + 1 ELSE s.late

\* What that makes of the sequence of gaps.
Lengthened(s, t, gap, refresh) ==
  /\ Len(s.gaps) \in Nat /\ DOMAIN s.gaps = 1 .. Len(s.gaps)
  /\ Len(t.gaps) = Len(s.gaps) + 1 /\ DOMAIN t.gaps = 1 .. Len(s.gaps) + 1
  /\ \A k \in 1 .. Len(s.gaps) :
       /\ t.gaps[k] = s.gaps[k]
       /\ s.gaps[k].gap \in Nat /\ s.gaps[k].refresh \in Nat
  /\ t.gaps[Len(s.gaps) + 1].gap = gap
  /\ t.gaps[Len(s.gaps) + 1].refresh = refresh

LEMMA GapAppended ==
  ASSUME NEW s \in StatsAccum, NEW t, NEW gap \in Nat, NEW refresh \in Nat,
         OneMore(s, t, gap, refresh)
  PROVE  Lengthened(s, t, gap, refresh)
<1> DEFINE new == [gap |-> gap, refresh |-> refresh]
           G   == [gap : Nat, refresh : Nat]
<1>1. s.gaps \in Seq(G) /\ new \in G /\ new.gap = gap /\ new.refresh = refresh
  BY DEF StatsAccum
<1>2. t.gaps = Append(s.gaps, new)
  BY DEF OneMore
<1>3. \A e \in G : e.gap \in Nat /\ e.refresh \in Nat
  OBVIOUS
<1> HIDE DEF new, G
<1>4. /\ t.gaps \in Seq(G) /\ Len(t.gaps) = Len(s.gaps) + 1
      /\ \A k \in 1 .. Len(s.gaps) : t.gaps[k] = s.gaps[k]
      /\ t.gaps[Len(s.gaps) + 1] = new
  BY <1>1, <1>2, AppendProperties
<1>5. Len(s.gaps) \in Nat /\ DOMAIN s.gaps = 1 .. Len(s.gaps)
      /\ DOMAIN t.gaps = 1 .. Len(s.gaps) + 1
  BY <1>1, <1>4, LenProperties
<1>6. \A k \in 1 .. Len(s.gaps) : s.gaps[k] \in G
  BY <1>1, ElementOfSeq
<1> QED BY <1>1, <1>3, <1>4, <1>5, <1>6 DEF Lengthened

\* One more gap keeps the extremes right: a gap of 0 forgets the minimum.
LEMMA SummaryGrows ==
  ASSUME NEW s \in StatsAccum, NEW t, NEW gap \in Nat, NEW refresh \in Nat,
         OneMore(s, t, gap, refresh), GapsSummarised(s)
  PROVE  GapsSummarised(t)
<1> DEFINE n == Len(s.gaps)
<1>a. Lengthened(s, t, gap, refresh)
  BY GapAppended
<1>0. /\ n \in Nat /\ DOMAIN s.gaps = 1 .. n /\ DOMAIN t.gaps = 1 .. n + 1
      /\ Len(t.gaps) = n + 1
      /\ \A k \in 1 .. n : t.gaps[k] = s.gaps[k] /\ s.gaps[k].gap \in Nat
      /\ t.gaps[n + 1].gap = gap
      /\ s.min_gap \in Nat /\ s.max_gap \in Nat
  BY <1>a DEF Lengthened, StatsAccum
<1>1. t.min_gap = Shorter(s, gap) /\ t.max_gap = IF gap > s.max_gap THEN gap ELSE s.max_gap
  BY DEF OneMore
<1> HIDE DEF n
<1>2. SinceTie(s) = {k \in 1 .. n : \A j \in k .. n : s.gaps[j].gap # 0}
  BY <1>0 DEF SinceTie, n
<1>3. SinceTie(t) = {k \in 1 .. n + 1 : \A j \in k .. n + 1 : t.gaps[j].gap # 0}
  BY <1>0 DEF SinceTie
<1>4. SinceTie(t) = IF gap = 0 THEN {} ELSE SinceTie(s) \cup {n + 1}
  <2>1. ASSUME NEW k \in SinceTie(t)
        PROVE  gap # 0 /\ k \in SinceTie(s) \cup {n + 1}
    <3>1. k \in 1 .. n + 1 /\ \A j \in k .. n + 1 : t.gaps[j].gap # 0
      BY <1>3
    <3>2. gap # 0
      BY <1>0, <3>1
    <3>3. CASE k # n + 1
      <4>1. k \in 1 .. n
        BY <1>0, <3>1, <3>3
      <4>2. \A j \in k .. n : s.gaps[j].gap # 0
        BY <1>0, <3>1, <4>1
      <4> QED BY <1>2, <3>2, <4>1, <4>2
    <3> QED BY <3>2, <3>3
  <2>2. ASSUME gap # 0, NEW k \in SinceTie(s) \cup {n + 1}
        PROVE  k \in SinceTie(t)
    <3>1. CASE k = n + 1
      BY <1>0, <1>3, <2>2, <3>1
    <3>2. CASE k \in SinceTie(s)
      <4>1. k \in 1 .. n /\ \A j \in k .. n : s.gaps[j].gap # 0
        BY <1>2, <3>2
      <4>2. ASSUME NEW j \in k .. n + 1
            PROVE  t.gaps[j].gap # 0
        <5>1. CASE j = n + 1
          BY <1>0, <2>2, <5>1
        <5>2. CASE j # n + 1
          <6>1. j \in k .. n /\ j \in 1 .. n
            BY <1>0, <4>1, <5>2
          <6> QED BY <1>0, <4>1, <6>1
        <5> QED BY <5>1, <5>2
      <4> QED BY <1>0, <1>3, <4>1, <4>2
    <3> QED BY <2>2, <3>1, <3>2
  <2> QED BY <2>1, <2>2
<1>5. \A k \in SinceTie(s) : k \in 1 .. n /\ s.gaps[k].gap # 0
  <2>1. \A k \in 1 .. n : k \in k .. n
    BY <1>0
  <2> QED BY <1>2, <2>1
<1>6. IF SinceTie(t) = {}
      THEN t.min_gap = 0
      ELSE /\ \A k \in SinceTie(t) : t.min_gap <= t.gaps[k].gap
           /\ \E k \in SinceTie(t) : t.min_gap = t.gaps[k].gap
  <2>1. CASE gap = 0
    BY <1>0, <1>1, <1>4, <2>1 DEF Shorter
  <2>2. CASE gap # 0 /\ SinceTie(s) = {}
    <3>1. t.min_gap = gap
      BY <1>1, <2>2 DEF GapsSummarised, Shorter
    <3> QED BY <1>0, <1>4, <2>2, <3>1
  <2>3. CASE gap # 0 /\ SinceTie(s) # {}
    <3>1. PICK least \in SinceTie(s) : s.min_gap = s.gaps[least].gap
      BY <2>3 DEF GapsSummarised
    <3>2. \A k \in SinceTie(s) : s.min_gap <= s.gaps[k].gap
      BY <2>3 DEF GapsSummarised
    <3>3. t.min_gap = IF gap < s.min_gap THEN gap ELSE s.min_gap
      BY <1>1, <1>5, <3>1 DEF Shorter
    <3>4. \A k \in SinceTie(s) : t.gaps[k].gap = s.gaps[k].gap /\ s.gaps[k].gap \in Nat
      BY <1>0, <1>5
    <3>5. SinceTie(t) = SinceTie(s) \cup {n + 1}
      BY <1>4, <2>3
    <3>6. ASSUME NEW k \in SinceTie(t)
          PROVE  t.min_gap <= t.gaps[k].gap
      <4>1. CASE k = n + 1
        BY <1>0, <3>3, <4>1
      <4>2. CASE k \in SinceTie(s)
        BY <1>0, <3>2, <3>3, <3>4, <4>2
      <4> QED BY <3>5, <4>1, <4>2
    <3>7. \E k \in SinceTie(t) : t.min_gap = t.gaps[k].gap
      <4>1. CASE gap < s.min_gap
        BY <1>0, <3>3, <3>5, <4>1
      <4>2. CASE ~(gap < s.min_gap)
        BY <3>1, <3>3, <3>4, <3>5, <4>2
      <4> QED BY <4>1, <4>2
    <3> QED BY <3>5, <3>6, <3>7
  <2> QED BY <2>1, <2>2, <2>3
<1>7. \A k \in DOMAIN t.gaps : t.gaps[k].gap <= t.max_gap
  <2>1. \A k \in 1 .. n : s.gaps[k].gap <= s.max_gap
    BY <1>0 DEF GapsSummarised
  <2> SUFFICES ASSUME NEW k \in 1 .. n + 1
               PROVE  t.gaps[k].gap <= t.max_gap
    BY <1>0
  <2>2. CASE k = n + 1
    BY <1>0, <1>1, <2>2
  <2>3. CASE k # n + 1
    <3>1. /\ t.gaps[k].gap = s.gaps[k].gap /\ s.gaps[k].gap <= s.max_gap
          /\ s.gaps[k].gap \in Nat
      BY <1>0, <2>1, <2>3
    <3> QED BY <1>0, <1>1, <3>1
  <2> QED BY <2>2, <2>3
<1>8. t.max_gap # 0 => \E k \in DOMAIN t.gaps : t.max_gap = t.gaps[k].gap
  <2>1. CASE gap > s.max_gap
    BY <1>0, <1>1, <2>1
  <2>2. CASE ~(gap > s.max_gap) /\ s.max_gap # 0
    <3>1. PICK k \in 1 .. n : s.max_gap = s.gaps[k].gap
      BY <1>0, <2>2 DEF GapsSummarised
    <3>2. k \in 1 .. n + 1 /\ t.max_gap = t.gaps[k].gap
      BY <1>0, <1>1, <2>2, <3>1
    <3> QED BY <1>0, <3>2
  <2> QED BY <1>1, <2>1, <2>2
<1> QED BY <1>6, <1>7, <1>8 DEF GapsSummarised

\* The integer division of the code decides lateness exactly.
LEMMA LateExact ==
  ASSUME NEW gap \in Nat, NEW refresh \in Nat
  PROVE  Late(gap, refresh) <=> refresh > 0 /\ 2 * gap > 3 * refresh
BY DEF Late

Overdues(s) == {k \in DOMAIN s.gaps : s.gaps[k].refresh > 0
                                        /\ 2 * s.gaps[k].gap > 3 * s.gaps[k].refresh}

LEMMA LateGrows ==
  ASSUME NEW s \in StatsAccum, NEW t, NEW gap \in Nat, NEW refresh \in Nat,
         OneMore(s, t, gap, refresh), s.late = Cardinality(Overdues(s))
  PROVE  t.late = Cardinality(Overdues(t))
<1> DEFINE n == Len(s.gaps)
<1>a. Lengthened(s, t, gap, refresh)
  BY GapAppended
<1>0. /\ n \in Nat /\ DOMAIN s.gaps = 1 .. n /\ DOMAIN t.gaps = 1 .. n + 1
      /\ \A k \in 1 .. n : t.gaps[k] = s.gaps[k]
      /\ t.gaps[n + 1].gap = gap /\ t.gaps[n + 1].refresh = refresh
  BY <1>a DEF Lengthened
<1> HIDE DEF n
<1>1. Overdues(t) = IF Late(gap, refresh) THEN Overdues(s) \cup {n + 1} ELSE Overdues(s)
  <2>1. \A k \in 1 .. n : k \in Overdues(t) <=> k \in Overdues(s)
    BY <1>0 DEF Overdues
  <2>2. n + 1 \in Overdues(t) <=> Late(gap, refresh)
    BY <1>0, LateExact DEF Overdues
  <2>3. Overdues(s) \subseteq 1 .. n /\ Overdues(t) \subseteq (1 .. n) \cup {n + 1}
    BY <1>0 DEF Overdues
  <2> QED BY <2>1, <2>2, <2>3
<1>2. IsFiniteSet(Overdues(s)) /\ n + 1 \notin Overdues(s)
  <2>1. Overdues(s) \in SUBSET (1 .. n) /\ n + 1 \notin Overdues(s)
    BY <1>0 DEF Overdues
  <2>2. IsFiniteSet(1 .. n)
    BY <1>0, FS_Interval
  <2> QED BY <2>1, <2>2, FS_Subset
<1>3. Cardinality(Overdues(s) \cup {n + 1}) = Cardinality(Overdues(s)) + 1
  BY <1>2, FS_AddElement
<1> QED BY <1>1, <1>3 DEF OneMore

\* A frame was presented exactly if there is a time to measure the next from.
TimingInv(s) ==
  /\ s.last_tv = 0 <=> s.presented = 0
  /\ GapsSummarised(s)
  /\ LateCounted(s)

\* What the summaries depend on.
LEMMA SummaryFields ==
  ASSUME NEW s, NEW t, t.gaps = s.gaps, t.min_gap = s.min_gap, t.max_gap = s.max_gap,
         GapsSummarised(s)
  PROVE  GapsSummarised(t)
<1>1. SinceTie(t) = SinceTie(s)
  BY DEF SinceTie
<1> QED BY <1>1 DEF GapsSummarised

LEMMA TimingCount ==
  ASSUME stats \in StatsAccum, TimingInv(stats), NEW type, Count(type)
  PROVE  TimingInv(stats')
<1>0. /\ stats.presented \in Nat /\ stats.last_tv \in Nat
      /\ GapsSummarised(stats)
      /\ stats.late = Cardinality(Overdues(stats))
      /\ Len(stats.gaps) = IF stats.presented = 0 THEN 0 ELSE stats.presented - 1
      /\ stats.last_tv = 0 <=> stats.presented = 0
  BY DEF StatsAccum, TimingInv, LateCounted, Overdues
<1>1. CASE stats' = Discarded(stats)
  <2>1. /\ stats'.gaps = stats.gaps /\ stats'.min_gap = stats.min_gap
        /\ stats'.max_gap = stats.max_gap /\ stats'.late = stats.late
        /\ stats'.last_tv = stats.last_tv /\ stats'.presented = stats.presented
    BY <1>1 DEF Discarded, StatsAccum
  <2>2. GapsSummarised(stats')
    BY <1>0, <2>1, SummaryFields
  <2>3. LateCounted(stats')
    BY <1>0, <2>1 DEF LateCounted, Overdues
  <2> QED BY <1>0, <2>1, <2>2, <2>3 DEF TimingInv
<1>2. ASSUME NEW tv \in Times, NEW refresh \in Refreshes,
             tv >= stats.last_tv, stats' = Presented(stats, tv, refresh)
      PROVE  TimingInv(stats')
  <2>0. tv \in Nat \ {0} /\ refresh \in Nat
    BY TimingAssumption
  <2>1. stats'.last_tv = tv /\ stats'.presented = stats.presented + 1
    BY <1>2 DEF Presented, Measured, StatsAccum
  <2>2. CASE stats.last_tv = 0
    <3>1. /\ stats'.gaps = stats.gaps /\ stats'.min_gap = stats.min_gap
          /\ stats'.max_gap = stats.max_gap /\ stats'.late = stats.late
      BY <1>2, <2>2 DEF Presented, StatsAccum
    <3>2. GapsSummarised(stats')
      BY <1>0, <3>1, SummaryFields
    <3>3. LateCounted(stats')
      BY <1>0, <2>1, <2>2, <3>1 DEF LateCounted, Overdues
    <3> QED BY <1>0, <2>0, <2>1, <3>2, <3>3 DEF TimingInv
  <2>3. CASE stats.last_tv # 0
    <3> DEFINE gap == tv - stats.last_tv
    <3>1. gap \in Nat
      BY <1>0, <1>2, <2>0
    <3>2. OneMore(stats, stats', gap, refresh)
      BY <1>2, <2>3 DEF Presented, Measured, OneMore, StatsAccum
    <3>3. GapsSummarised(stats')
      BY <1>0, <2>0, <3>1, <3>2, SummaryGrows
    <3>4. stats'.late = Cardinality(Overdues(stats'))
      BY <1>0, <2>0, <3>1, <3>2, LateGrows
    <3>5. Len(stats'.gaps) = Len(stats.gaps) + 1
      BY <2>0, <3>1, <3>2, GapAppended DEF Lengthened
    <3>6. LateCounted(stats')
      BY <1>0, <2>1, <2>3, <3>4, <3>5 DEF LateCounted, Overdues
    <3> QED BY <1>0, <2>0, <2>1, <3>3, <3>6 DEF TimingInv
  <2> QED BY <2>2, <2>3
<1> QED BY <1>1, <1>2 DEF Count

\* The maximum and the late count are those of all gaps, the minimum that of the
\* gaps since the last tie, whatever was discarded or unanswered between frames.
THEOREM TimingSafety == Spec => []TimingExact
<1> DEFINE I == TypeOK /\ TimingInv(stats)
<1>1. Init => I
  <2> SUFFICES ASSUME Init PROVE TimingInv(stats)
    BY TypeInit
  <2>1. /\ stats.gaps = <<>> /\ stats.min_gap = 0 /\ stats.max_gap = 0
        /\ stats.late = 0 /\ stats.presented = 0 /\ stats.last_tv = 0
    BY DEF Init, NoStats
  <2>2. DOMAIN stats.gaps = {} /\ Len(stats.gaps) = 0
    BY <2>1, EmptySeq
  <2>3. GapsSummarised(stats)
    BY <2>1, <2>2 DEF GapsSummarised, SinceTie
  <2>4. Overdues(stats) = {}
    BY <2>2 DEF Overdues
  <2>5. LateCounted(stats)
    BY <2>1, <2>2, <2>4, FS_EmptySet DEF LateCounted, Overdues
  <2> QED BY <2>1, <2>3, <2>5 DEF TimingInv
<1>2. I /\ [Next]_vars => I'
  <2> SUFFICES ASSUME TypeOK, TimingInv(stats), [Next]_vars
               PROVE  TimingInv(stats')
    BY TypeStep
  <2>0. stats \in StatsAccum
    BY DEF TypeOK, SlotTypes
  <2>1. CASE stats' = stats
    BY <2>1
  <2>2. CASE PresentationAnswered
    BY <2>0, <2>1, <2>2, AnsweredFeedback, TimingCount
  <2>3. CASE HandleResize \/ CommitFrame
    BY <2>1, <2>3 DEF HandleResize, CommitFrame
  <2> QED BY <2>1, <2>2, <2>3, FeedbackFrame
<1>3. I => TimingExact
  BY DEF TimingInv, TimingExact
<1> HIDE DEF I
<1> QED BY <1>1, <1>2, <1>3, PTL DEF Spec

============================================================================
