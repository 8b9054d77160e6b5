-------------------------- MODULE FrameLoopProofs --------------------------
(***************************************************************************)
(* Proofs about FrameLoop, for every ring size, every set of window sizes, *)
(* every bound and every setting of the switches.                          *)
(***************************************************************************)
EXTENDS FrameLoop, SequenceFacts, TLAPS

----------------------------------------------------------------------------
(* Type correctness, in the three parts of TypeOK.                         *)

LEMMA TypeInit == Init => TypeOK
<1> SUFFICES ASSUME Init PROVE TypeOK
  OBVIOUS
<1>1. SlotTypes
  BY LoopAssumption DEF Init, SlotTypes, Slots, NoFrame, None, NoStats, StatsAccum
<1>2. WindowTypes
  BY DEF Init, WindowTypes, Places
<1>3. QueueTypes
  BY DEF Init, QueueTypes
<1>4. PlaceTypes
  BY DEF Init, WindowReady, PlaceTypes
<1> QED BY <1>1, <1>2, <1>3, <1>4 DEF TypeOK

\* Counting and timing an answer keeps the statistics well typed.
LEMMA CountType ==
  ASSUME stats \in StatsAccum, NEW type, Count(type)
  PROVE  stats' \in StatsAccum
<1>1. CASE stats' = Discarded(stats)
  BY <1>1 DEF Discarded, StatsAccum
<1>2. ASSUME NEW tv \in Times, NEW refresh \in Refreshes,
             tv >= stats.last_tv, stats' = Presented(stats, tv, refresh)
      PROVE  stats' \in StatsAccum
  <2> DEFINE gap == tv - stats.last_tv
  <2>1. tv \in Nat /\ refresh \in Nat
    BY TimingAssumption
  <2>2. stats.last_tv \in Nat /\ gap \in Nat
    BY <1>2, <2>1 DEF StatsAccum
  <2>3. Measured(stats, gap, refresh) \in StatsAccum
    <3>1. Shorter(stats, gap) \in Nat
      BY <2>2 DEF Shorter, StatsAccum
    <3>2. (IF gap > stats.max_gap THEN gap ELSE stats.max_gap) \in Nat
      BY <2>2 DEF StatsAccum
    <3>3. (IF Late(gap, refresh) THEN stats.late + 1 ELSE stats.late) \in Nat
      BY DEF StatsAccum
    <3>4. Append(stats.gaps, [gap |-> gap, refresh |-> refresh])
            \in Seq([gap : Nat, refresh : Nat])
      BY <2>1, <2>2, AppendProperties DEF StatsAccum
    <3>5. ASSUME NEW least \in Nat, NEW most \in Nat, NEW overdue \in Nat,
                 NEW gaps \in Seq([gap : Nat, refresh : Nat])
          PROVE  [stats EXCEPT !.min_gap = least, !.max_gap = most, !.late = overdue,
                               !.gaps = gaps] \in StatsAccum
      BY DEF StatsAccum
    <3> QED BY <3>1, <3>2, <3>3, <3>4, <3>5, Zenon DEF Measured
  <2>4. stats.presented + 1 \in Nat
    BY DEF StatsAccum
  <2>5. ASSUME NEW s \in StatsAccum
        PROVE  [s EXCEPT !.last_tv = tv, !.presented = stats.presented + 1] \in StatsAccum
    BY <2>1, <2>4 DEF StatsAccum
  <2>6. stats' = [(IF stats.last_tv = 0 THEN stats ELSE Measured(stats, gap, refresh))
                    EXCEPT !.last_tv = tv, !.presented = stats.presented + 1]
    BY <1>2, Zenon DEF Presented
  <2>7. (IF stats.last_tv = 0 THEN stats ELSE Measured(stats, gap, refresh)) \in StatsAccum
    BY <2>3
  <2> QED BY <2>5, <2>6, <2>7, Zenon
<1> QED BY <1>1, <1>2 DEF Count

LEMMA SlotTypesStep == TypeOK /\ Next => SlotTypes'
<1> SUFFICES ASSUME TypeOK, Next
             PROVE  SlotTypes'
  OBVIOUS
<1> USE DEF ring, window, present, control, kernel, remote, socket
<1>0. SlotTypes /\ QueueTypes /\ PlaceTypes /\ BufferCount \in Nat \ {0}
  BY LoopAssumption DEF TypeOK
<1>a. ASSUME UNCHANGED <<image, bufferless, counter, feedback, released, retired, generation,
                         next_frame, handed_index, proxies, stats, owed>>,
             it' \in Nat \ {0}
      PROVE  SlotTypes'
  BY <1>0, <1>a DEF SlotTypes
<1>1. CASE WaitFrame \/ ReapDone
  BY <1>1, <1>a DEF WaitFrame, ReapDone
<1>2. CASE SkipFrame \/ Quit \/ Fail \/ Resume \/ Terminated
  BY <1>0, <1>2, <1>a DEF SkipFrame, Quit, Fail, Resume, Terminated, vars, SlotTypes
<1>3. CASE ReapEntry
  <2>1. UNCHANGED <<image, bufferless, counter, feedback, released, generation, next_frame,
                    handed_index, proxies, stats, owed>>
    BY <1>3 DEF ReapEntry
  <2>2. \/ it \in 1 .. Len(retired) /\ retired' = RemoveAt(retired, it) /\ it' = it
        \/ it' = it + 1 /\ retired' = retired
    BY <1>0, <1>3 DEF ReapEntry, SlotTypes
  <2>3. retired' \in Seq(Retired)
    BY <1>0, <2>2, RemoveAtProperties DEF SlotTypes
  <2>4. it' \in Nat \ {0}
    BY <1>0, <2>2 DEF SlotTypes
  <2> QED BY <1>0, <2>1, <2>3, <2>4 DEF SlotTypes
<1>4. CASE Gate \/ PollReturn \/ ArmFrame \/ AwaitRelease \/ DrainReturn
  BY <1>0, <1>4, <1>a DEF Gate, PollReturn, ArmFrame, AwaitRelease, DrainReturn,
                          SlotTypes
<1>5. CASE HandleResize
  <2> DEFINE batch == [k \in 1 .. BufferCount |->
               [slot |-> k - 1, counter |-> counter[k - 1], image |-> image[k - 1]]]
  <2>1. batch \in Seq(Retired)
    BY <1>0 DEF Retired, Slots, SlotTypes
  <2>2. retired' \in Seq(Retired)
    BY <1>0, <1>5, <2>1, ConcatProperties DEF HandleResize, SlotTypes
  <2>3. image' \in [Slots -> Nat] /\ generation' \in Nat /\ bufferless' \subseteq Slots
    <3>1. generation \in Nat /\ generation + 1 \in Nat /\ NoImage \in Nat
      BY <1>0 DEF SlotTypes, NoImage
    <3>2. \/ image' = [i \in Slots |-> generation + 1]
          \/ \E j \in 0 .. BufferCount :
               image' = [i \in Slots |-> IF i < j \/ i \in bufferless'
                                         THEN generation + 1 ELSE NoImage]
      BY <1>5 DEF HandleResize
    <3>4. bufferless' \subseteq Slots
      <4>1. \/ bufferless' = {}
            \/ \E j \in 0 .. BufferCount : bufferless' \in {{}, {j} \cap Slots}
        BY <1>5 DEF HandleResize
      <4> QED BY <4>1
    <3>3. generation' = generation + 1
      BY <1>5 DEF HandleResize
    <3> QED BY <3>1, <3>2, <3>3, <3>4
  <2>4. proxies' \subseteq Slots \X Nat /\ feedback' \in [Slots -> Nat]
        /\ handed_index' \in Slots \cup {NoFrame}
    BY <1>0, <1>5 DEF HandleResize, SlotTypes, None
  <2>5. UNCHANGED <<counter, released, next_frame, it, owed, stats>>
    BY <1>5 DEF HandleResize
  <2> QED BY <1>0, <2>2, <2>3, <2>4, <2>5 DEF SlotTypes
<1>6. CASE HandOut
  BY <1>0, <1>6 DEF HandOut, SlotTypes
<1>7. CASE FrameDone \/ ToplevelConfigure \/ ToplevelClose
  BY <1>0, <1>7, <1>a DEF FrameDone, ToplevelConfigure, ToplevelClose, Dispatch,
                          SlotTypes
<1>8. CASE PresentationAnswered
  <2>1. UNCHANGED <<image, bufferless, counter, released, retired, generation, next_frame,
                    handed_index, it, owed>>
    BY <1>8 DEF PresentationAnswered, Dispatch
  <2>2. feedback' \in [Slots -> Nat]
    <3>1. \/ feedback' = feedback
          \/ feedback' = [i \in Slots |->
                IF <<i, feedback[i]>> = <<Head(events).slot, Head(events).point>>
                THEN None ELSE feedback[i]]
      BY <1>8 DEF PresentationAnswered, References
    <3>2. \A i \in Slots : feedback[i] \in Nat
      BY <1>0 DEF SlotTypes
    <3>3. None \in Nat
      BY DEF None
    <3> QED BY <1>0, <3>1, <3>2, <3>3, Zenon DEF SlotTypes
  <2>3. proxies' \subseteq proxies
    BY <1>8 DEF PresentationAnswered, Destroy
  <2>4. stats' \in StatsAccum
    <3>1. \/ stats' = stats
          \/ Count(Head(events).type)
      BY <1>8 DEF PresentationAnswered
    <3>2. stats \in StatsAccum
      BY <1>0 DEF SlotTypes
    <3> QED BY <3>1, <3>2, CountType
  <2> QED BY <1>0, <2>1, <2>2, <2>3, <2>4 DEF SlotTypes
<1>9. CASE Submit
  BY <1>0, <1>9, <1>a DEF Submit, SlotTypes
<1>10. CASE CommitFrame
  <2>1. UNCHANGED <<image, bufferless, released, retired, generation, it, owed, stats>>
    BY <1>10 DEF CommitFrame
  <2>2. handed_index' \in Slots \cup {NoFrame} /\ next_frame' \in Slots
    BY <1>0, <1>10, LoopAssumption DEF CommitFrame, SlotTypes, Slots, Successor
  <2>3. counter' \in [Slots -> Nat]
    <3>1. counter' = [counter EXCEPT ![handed_index] = counter[handed_index] + 1]
      BY <1>10 DEF CommitFrame
    <3>2. handed_index \in Slots
      BY <1>0, <1>10 DEF CommitFrame, PlaceTypes
    <3> QED BY <1>0, <3>1, <3>2 DEF SlotTypes
  <2>4. feedback' \in [Slots -> Nat] /\ proxies' \subseteq Slots \X Nat
    <3>1. handed_index \in Slots /\ counter[handed_index] + 1 \in Nat
      BY <1>0, <1>10 DEF CommitFrame, SlotTypes, PlaceTypes
    <3>2. feedback' \in [Slots -> Nat]
      BY <1>0, <1>10, <3>1 DEF CommitFrame, SlotTypes
    <3>3. \/ proxies' = proxies
          \/ proxies' = proxies \cup {<<handed_index, counter[handed_index] + 1>>}
      BY <1>10 DEF CommitFrame
    <3> QED BY <1>0, <3>1, <3>2, <3>3 DEF SlotTypes
  <2> QED BY <1>0, <2>1, <2>2, <2>3, <2>4 DEF SlotTypes
<1>11. CASE GpuFinish \/ ReceiveFrame \/ FireFrame \/ SendConfigure \/ SendClose
  BY <1>0, <1>11, <1>a DEF GpuFinish, ReceiveFrame, FireFrame, SendConfigure,
                           SendClose, SlotTypes
<1>12. CASE ReceiveCommit
  <2>1. Head(wire) \in Commit
    BY <1>0, <1>12 DEF ReceiveCommit, QueueTypes, Request, FrameRequest
  <2>2. owed' \subseteq Slots \X Nat
    <3>1. <<Head(wire).slot, Head(wire).point>> \in Slots \X Nat
      BY <2>1 DEF Commit
    <3>2. \/ owed' = owed \cup {<<Head(wire).slot, Head(wire).point>>}
          \/ owed' = owed
      BY <1>12 DEF ReceiveCommit
    <3>3. owed \subseteq Slots \X Nat
      BY <1>0 DEF SlotTypes
    <3> QED BY <3>1, <3>2, <3>3
  <2> QED BY <1>0, <1>12, <2>2 DEF ReceiveCommit, SlotTypes
<1>13. CASE \E k \in DOMAIN held : Release(k)
  <2>1. PICK k \in DOMAIN held : Release(k)
    BY <1>13
  <2>2. held[k] \in Commit
    BY <1>0, <2>1, LenProperties, ElementOfSeq DEF QueueTypes
  <2>3. released' \in [Slots -> Nat]
    BY <1>0, <2>1, <2>2 DEF Release, SlotTypes, Commit
  <2> QED BY <1>0, <2>1, <2>3 DEF Release, SlotTypes
<1>14. CASE AnswerFeedback
  <2>1. UNCHANGED <<image, bufferless, counter, feedback, released, retired, generation,
                    next_frame, handed_index, it, proxies, stats>>
    BY <1>14 DEF AnswerFeedback
  <2>2. owed' \subseteq owed
    BY <1>14 DEF AnswerFeedback
  <2> QED BY <1>0, <2>1, <2>2 DEF SlotTypes
<1> QED
  BY <1>1, <1>2, <1>3, <1>4, <1>5, <1>6, <1>7, <1>8, <1>9, <1>10, <1>11, <1>12,
     <1>13, <1>14 DEF Next, Client, Handler, Compositor

LEMMA WindowTypesStep == TypeOK /\ Next => WindowTypes'
<1> SUFFICES ASSUME TypeOK, Next
             PROVE  WindowTypes'
  OBVIOUS
<1> USE DEF ring, window, present, control, kernel, remote, socket
<1>0. WindowTypes /\ QueueTypes /\ PlaceTypes
  BY DEF TypeOK
<1>a. ASSUME UNCHANGED <<fence, presented_once, frame_due, frame_callback, closed,
                         resize_pending, pending, width>>,
             pc' \in Places
      PROVE  WindowTypes'
  BY <1>0, <1>a DEF WindowTypes
<1>1. CASE WaitFrame \/ ReapDone
  BY <1>1, <1>a DEF WaitFrame, ReapDone, Places
<1>2. CASE SkipFrame \/ Quit \/ Fail \/ Resume \/ Terminated
  BY <1>0, <1>2, <1>a DEF SkipFrame, Quit, Fail, Resume, Terminated, vars, Places, WindowTypes
<1>3. CASE ReapEntry
  BY <1>0, <1>3, <1>a DEF ReapEntry, WindowTypes
<1>4. CASE Gate \/ PollReturn \/ HandOut \/ AwaitRelease \/ DrainReturn
  BY <1>4, <1>a DEF Gate, PollReturn, HandOut, AwaitRelease, DrainReturn, AfterDrain,
                    Places
<1>5. CASE HandleResize
  <2>1. width' \in Sizes
    BY <1>0, <1>5 DEF HandleResize, PlaceTypes
  <2>2. pc' \in Places /\ resize_pending' \in BOOLEAN
    BY <1>5 DEF HandleResize, Places
  <2>3. UNCHANGED <<fence, presented_once, frame_due, frame_callback, closed,
                    pending>>
    BY <1>5 DEF HandleResize
  <2> QED BY <1>0, <2>1, <2>2, <2>3 DEF WindowTypes
<1>6. CASE ArmFrame
  <2>1. pc' \in Places /\ frame_due' \in BOOLEAN
    BY <1>6 DEF ArmFrame, Places
  <2>2. frame_callback' \in BOOLEAN
    BY <1>0, <1>6 DEF ArmFrame, WindowTypes
  <2>3. UNCHANGED <<fence, presented_once, closed, resize_pending, pending, width>>
    BY <1>6 DEF ArmFrame
  <2> QED BY <1>0, <2>1, <2>2, <2>3 DEF WindowTypes
<1>7. CASE FrameDone
  BY <1>0, <1>7 DEF FrameDone, Dispatch, WindowTypes
<1>8. CASE ToplevelConfigure
  <2>1. Head(events) \in Event /\ Head(events).type = "configure"
    BY <1>0, <1>8 DEF ToplevelConfigure, Dispatch, QueueTypes
  <2>2. Head(events).size \in Sizes \cup {None}
    BY <2>1 DEF Event
  <2>3. pending' \in Sizes \cup {None} /\ resize_pending' \in BOOLEAN
    BY <1>0, <1>8, <2>2 DEF ToplevelConfigure, WindowTypes
  <2>4. UNCHANGED <<fence, presented_once, frame_due, frame_callback, closed,
                    width, pc>>
    BY <1>8 DEF ToplevelConfigure, Dispatch
  <2> QED BY <1>0, <2>3, <2>4 DEF WindowTypes
<1>9. CASE ToplevelClose
  BY <1>0, <1>9 DEF ToplevelClose, Dispatch, WindowTypes
<1>10. CASE PresentationAnswered
  BY <1>0, <1>10, <1>a DEF PresentationAnswered, Dispatch, WindowTypes
<1>11. CASE Submit \/ CommitFrame
  <2>1. fence' \in [Slots -> BOOLEAN]
    BY <1>0, <1>11 DEF Submit, CommitFrame, WindowTypes
  <2>2. pc' \in Places /\ presented_once' \in BOOLEAN
    BY <1>0, <1>11 DEF Submit, CommitFrame, WindowTypes, Places
  <2>3. UNCHANGED <<frame_due, frame_callback, closed, resize_pending, pending,
                    width>>
    BY <1>11 DEF Submit, CommitFrame
  <2> QED BY <1>0, <2>1, <2>2, <2>3 DEF WindowTypes
<1>12. CASE GpuFinish \/ Compositor
  BY <1>0, <1>12, <1>a DEF GpuFinish, Compositor, ReceiveFrame, ReceiveCommit,
     Release, FireFrame, AnswerFeedback, SendConfigure, SendClose, WindowTypes
<1> QED
  BY <1>1, <1>2, <1>3, <1>4, <1>5, <1>6, <1>7, <1>8, <1>9, <1>10, <1>11, <1>12
     DEF Next, Client, Handler

LEMMA QueueTypesStep == TypeOK /\ Next => QueueTypes'
<1> SUFFICES ASSUME TypeOK, Next
             PROVE  QueueTypes'
  OBVIOUS
<1> USE DEF ring, window, present, control, kernel, remote, socket
<1>0. SlotTypes /\ WindowTypes /\ QueueTypes /\ PlaceTypes
  BY DEF TypeOK
<1>a. ASSUME UNCHANGED <<gpu, out, wire, events, held, pendingCb, committedCb,
                         configures>>
      PROVE  QueueTypes'
  BY <1>0, <1>a DEF QueueTypes
<1>b. \A r \in Seq(Request) : r # <<>> => Head(r) \in Request /\ Tail(r) \in Seq(Request)
  BY HeadTailProperties
<1>c. \A q, r \in Seq(Request) : q \o r \in Seq(Request)
  BY ConcatProperties
<1>d. <<>> \in Seq(Request)
  OBVIOUS
<1>e. out \in Seq(Request) /\ wire \in Seq(Request)
  BY <1>0 DEF QueueTypes
<1>1. CASE WaitFrame \/ ReapEntry \/ ReapDone \/ PollReturn \/ HandleResize
           \/ HandOut \/ DrainReturn
  BY <1>1, <1>a DEF WaitFrame, ReapEntry, ReapDone, PollReturn, HandleResize,
                    HandOut, DrainReturn
<1>2. CASE SkipFrame \/ Quit \/ Fail \/ Resume \/ Terminated
  BY <1>2, <1>a DEF SkipFrame, Quit, Fail, Resume, Terminated, vars
<1>3. CASE Gate \/ AwaitRelease
  <2>1. UNCHANGED <<gpu, events, held, pendingCb, committedCb, configures>>
    BY <1>3 DEF Gate, AwaitRelease
  <2>2. \/ wire' = wire /\ out' = out
        \/ wire' = wire \o out /\ out' = <<>>
    BY <1>3 DEF Gate, AwaitRelease, Flush
  <2>3. wire' \in Seq(Request) /\ out' \in Seq(Request)
    BY <1>c, <1>d, <1>e, <2>2
  <2> QED BY <1>0, <2>1, <2>3 DEF QueueTypes
<1>4. CASE ArmFrame
  <2>1. UNCHANGED <<gpu, events, held, pendingCb, committedCb, configures>>
    BY <1>4 DEF ArmFrame
  <2> DEFINE asked == Append(out, [type |-> "frame"])
  <2>2. asked \in Seq(Request)
    BY <1>0 DEF QueueTypes, Request, FrameRequest
  <2>3. \/ wire' = wire /\ out' = out
        \/ wire' = wire \o asked /\ out' = <<>>
        \/ wire' = wire /\ out' = asked
    BY <1>4 DEF ArmFrame
  <2> HIDE DEF asked
  <2>4. wire' \in Seq(Request) /\ out' \in Seq(Request)
    BY <1>c, <1>d, <1>e, <2>2, <2>3
  <2> QED BY <1>0, <2>1, <2>4 DEF QueueTypes
<1>5. CASE Handler
  <2>1. UNCHANGED <<gpu, out, wire, held, pendingCb, committedCb, configures>>
    BY <1>5 DEF Handler, FrameDone, ToplevelConfigure, ToplevelClose,
                PresentationAnswered, Dispatch
  <2>2. events # <<>> /\ events' = Tail(events)
    BY <1>5 DEF Handler, FrameDone, ToplevelConfigure, ToplevelClose,
                PresentationAnswered, Dispatch
  <2> QED BY <1>0, <2>1, <2>2, HeadTailProperties DEF QueueTypes
<1>6. CASE Submit
  <2> DEFINE job == [slot |-> handed_index, point |-> counter[handed_index] + 1,
                     image |-> image[handed_index]]
  <2>1. job \in Job
    BY <1>0, <1>6 DEF Submit, Job, SlotTypes, PlaceTypes
  <2>2. gpu' = Append(gpu, job)
    BY <1>6 DEF Submit
  <2> HIDE DEF job
  <2> QED BY <1>0, <1>6, <2>1, <2>2 DEF Submit, QueueTypes
<1>7. CASE CommitFrame
  <2> DEFINE commit == [type |-> "commit", slot |-> handed_index,
                        point |-> counter[handed_index] + 1,
                        image |-> Attached(handed_index)]
  <2>1. commit \in Request
    BY <1>0, <1>7 DEF CommitFrame, Request, Commit, SlotTypes, PlaceTypes, Attached,
                      NoImage
  <2>2. out' = Append(out, commit)
    BY <1>7 DEF CommitFrame
  <2> HIDE DEF commit
  <2> QED BY <1>0, <1>7, <2>1, <2>2 DEF CommitFrame, QueueTypes
<1>8. CASE GpuFinish
  BY <1>0, <1>8, HeadTailProperties DEF GpuFinish, QueueTypes
<1>9. CASE ReceiveFrame
  BY <1>0, <1>9, <1>b DEF ReceiveFrame, QueueTypes
<1>10. CASE ReceiveCommit
  <2>1. Head(wire) \in Commit
    BY <1>0, <1>10, <1>b DEF ReceiveCommit, QueueTypes, Request, FrameRequest
  <2>2. held' \in Seq(Commit) /\ wire' \in Seq(Request)
    BY <1>0, <1>10, <1>b, <2>1 DEF ReceiveCommit, QueueTypes
  <2>3. committedCb' \in Nat /\ pendingCb' \in Nat
    BY <1>0, <1>10 DEF ReceiveCommit, QueueTypes
  <2>4. UNCHANGED <<gpu, out, events, configures>>
    BY <1>10 DEF ReceiveCommit
  <2> QED BY <1>0, <2>2, <2>3, <2>4 DEF QueueTypes
<1>11. CASE \E k \in DOMAIN held : Release(k)
  <2>1. PICK k \in DOMAIN held : Release(k)
    BY <1>11
  <2>2. held' \in Seq(Commit)
    BY <1>0, <2>1, LenProperties, RemoveAtProperties DEF Release, QueueTypes
  <2> QED BY <1>0, <2>1, <2>2 DEF Release, QueueTypes
<1>12. CASE FireFrame
  <2>1. [type |-> "frame_done"] \in Event
    BY DEF Event
  <2> QED BY <1>0, <1>12, <2>1 DEF FireFrame, Send, QueueTypes
<1>13. CASE AnswerFeedback
  <2>1. PICK pfb \in owed, answer \in {"presented", "discarded"} :
          events' = Append(events, [type |-> answer, slot |-> pfb[1],
                                    point |-> pfb[2]])
    BY <1>13 DEF AnswerFeedback, Send
  <2>2. [type |-> answer, slot |-> pfb[1], point |-> pfb[2]] \in Event
    BY <1>0 DEF Event, SlotTypes
  <2>3. UNCHANGED <<gpu, out, wire, held, pendingCb, committedCb, configures>>
    BY <1>13 DEF AnswerFeedback
  <2> QED BY <1>0, <2>1, <2>2, <2>3 DEF QueueTypes
<1>14. CASE SendConfigure
  <2>1. PICK size \in Sizes \cup {None} :
          events' = Append(events, [type |-> "configure", size |-> size])
    BY <1>14 DEF SendConfigure, Send
  <2>2. [type |-> "configure", size |-> size] \in Event
    BY DEF Event
  <2> QED BY <1>0, <1>14, <2>1, <2>2 DEF SendConfigure, QueueTypes
<1>15. CASE SendClose
  <2>1. [type |-> "close"] \in Event
    BY DEF Event
  <2> QED BY <1>0, <1>15, <2>1 DEF SendClose, Send, QueueTypes
<1> QED
  BY <1>1, <1>2, <1>3, <1>4, <1>5, <1>6, <1>7, <1>8, <1>9, <1>10, <1>11, <1>12,
     <1>13, <1>14, <1>15 DEF Next, Client, Compositor

LEMMA PlaceTypesStep == TypeOK /\ Next => PlaceTypes'
<1> SUFFICES ASSUME TypeOK, Next
             PROVE  PlaceTypes'
  OBVIOUS
<1> USE DEF ring, window, present, control, kernel, remote, socket
<1>0. SlotTypes /\ WindowTypes /\ QueueTypes /\ PlaceTypes
  BY DEF TypeOK
<1>1. CASE WaitFrame \/ ReapEntry \/ ReapDone \/ Gate \/ PollReturn \/ AwaitRelease
           \/ DrainReturn \/ ArmFrame
  BY <1>0, <1>1 DEF WaitFrame, ReapEntry, ReapDone, Gate, PollReturn, AwaitRelease,
                    DrainReturn, AfterDrain, ArmFrame, PlaceTypes
<1>2. CASE SkipFrame \/ Quit \/ Fail \/ Resume \/ Terminated
  BY <1>0, <1>2 DEF SkipFrame, Quit, Fail, Resume, Terminated, vars, PlaceTypes
<1>3. CASE HandleResize
  BY <1>3 DEF HandleResize, PlaceTypes
<1>4. CASE HandOut
  BY <1>0, <1>4 DEF HandOut, PlaceTypes, SlotTypes
<1>5. CASE FrameDone \/ ToplevelClose \/ PresentationAnswered
  BY <1>0, <1>5 DEF FrameDone, ToplevelClose, PresentationAnswered, Dispatch,
                    PlaceTypes
<1>6. CASE ToplevelConfigure
  <2>1. Head(events) \in Event /\ Head(events).type = "configure"
    BY <1>0, <1>6, HeadTailProperties DEF ToplevelConfigure, Dispatch, QueueTypes
  <2>2. Head(events).size \in Sizes \cup {None}
    BY <2>1 DEF Event
  <2> QED BY <1>0, <1>6, <2>2 DEF ToplevelConfigure, Dispatch, PlaceTypes
<1>7. CASE Submit \/ CommitFrame
  BY <1>0, <1>7 DEF Submit, CommitFrame, PlaceTypes
<1>8. CASE GpuFinish \/ Compositor
  <2>1. UNCHANGED <<pc, handed_index, resize_pending, pending>>
    BY <1>8 DEF GpuFinish, Compositor, ReceiveFrame, ReceiveCommit, Release,
       FireFrame, AnswerFeedback, SendConfigure, SendClose
  <2> QED BY <1>0, <2>1 DEF PlaceTypes
<1> QED
  BY <1>1, <1>2, <1>3, <1>4, <1>5, <1>6, <1>7, <1>8 DEF Next, Client, Handler

LEMMA TypeStep == TypeOK /\ [Next]_vars => TypeOK'
<1>1. CASE TypeOK /\ Next
  BY <1>1, SlotTypesStep, WindowTypesStep, QueueTypesStep, PlaceTypesStep DEF TypeOK
<1>2. CASE TypeOK /\ UNCHANGED vars
  <2>1. Terminated \/ UNCHANGED vars
    BY <1>2
  <2> QED BY <1>2 DEF vars, ring, window, present, control, kernel, remote, socket,
                     TypeOK, SlotTypes, WindowTypes, QueueTypes, PlaceTypes
<1> QED BY <1>1, <1>2

\* Every reachable state is well typed.
THEOREM TypeCorrect == Spec => []TypeOK
<1> QED BY TypeInit, TypeStep, PTL DEF Spec

----------------------------------------------------------------------------
(* The commits under way, after each queue operation.                      *)

LEMMA CommitTypes ==
  ASSUME NEW q \in Seq(Request), NEW c \in CommitsIn(q)
  PROVE  c \in Commit
<1>1. PICK k \in DOMAIN q : q[k] = c /\ q[k].type = "commit"
  BY DEF CommitsIn
<1>2. c \in Request
  BY <1>1, LenProperties, ElementOfSeq
<1> QED BY <1>1, <1>2 DEF Request, FrameRequest

LEMMA HeldIsRequests == Seq(Commit) \subseteq Seq(Request)
  BY SeqMonotonic DEF Request

\* An appended request joins the queue, at its end.
LEMMA CommitsAppend ==
  ASSUME NEW q \in Seq(Request), NEW r \in Request,
         NEW c \in CommitsIn(Append(q, r))
  PROVE  c \in CommitsIn(q) \/ (c = r /\ r.type = "commit")
<1>1. PICK k \in DOMAIN Append(q, r) :
        Append(q, r)[k] = c /\ Append(q, r)[k].type = "commit"
  BY DEF CommitsIn
<1>2. k \in 1 .. Len(q) + 1
  BY <1>1, AppendProperties
<1>3. CASE k \in 1 .. Len(q)
  BY <1>1, <1>3, AppendProperties, LenProperties DEF CommitsIn
<1>4. CASE k = Len(q) + 1
  BY <1>1, <1>4, AppendProperties
<1> QED BY <1>2, <1>3, <1>4, LenProperties

LEMMA CommitsConcat ==
  ASSUME NEW q \in Seq(Request), NEW r \in Seq(Request),
         NEW c \in CommitsIn(q \o r)
  PROVE  c \in CommitsIn(q) \cup CommitsIn(r)
<1>0. /\ q \o r \in Seq(Request)
      /\ Len(q \o r) = Len(q) + Len(r)
      /\ Len(q) \in Nat /\ Len(r) \in Nat
      /\ DOMAIN q = 1 .. Len(q) /\ DOMAIN r = 1 .. Len(r)
      /\ DOMAIN (q \o r) = 1 .. Len(q) + Len(r)
  BY ConcatProperties, LenProperties
<1>1. PICK k \in 1 .. Len(q) + Len(r) :
        (q \o r)[k] = c /\ (q \o r)[k].type = "commit"
  BY <1>0 DEF CommitsIn
<1>2. CASE k <= Len(q)
  <2>1. k \in DOMAIN q /\ q[k] = c
    BY <1>0, <1>1, <1>2, ConcatProperties
  <2> QED BY <1>1, <2>1 DEF CommitsIn
<1>3. CASE ~(k <= Len(q))
  <2>1. k - Len(q) \in DOMAIN r
    BY <1>0, <1>3
  <2>2. r[k - Len(q)] = c
    BY <1>0, <1>1, <1>3, ConcatProperties
  <2> QED BY <1>1, <2>1, <2>2 DEF CommitsIn
<1> QED BY <1>2, <1>3

LEMMA CommitsTail ==
  ASSUME NEW q \in Seq(Request), q # <<>>, NEW c \in CommitsIn(Tail(q))
  PROVE  c \in CommitsIn(q)
<1>0. /\ Len(q) \in Nat /\ DOMAIN q = 1 .. Len(q)
      /\ DOMAIN Tail(q) = 1 .. Len(q) - 1
      /\ \A j \in 1 .. Len(q) - 1 : Tail(q)[j] = q[j + 1]
  BY HeadTailProperties, LenProperties
<1>1. PICK k \in 1 .. Len(q) - 1 : Tail(q)[k] = c /\ Tail(q)[k].type = "commit"
  BY <1>0 DEF CommitsIn
<1>2. k + 1 \in DOMAIN q /\ q[k + 1] = c
  BY <1>0, <1>1
<1> QED BY <1>1, <1>2 DEF CommitsIn

LEMMA CommitsHead ==
  ASSUME NEW q \in Seq(Request), q # <<>>, Head(q).type = "commit"
  PROVE  Head(q) \in CommitsIn(q)
<1>1. 1 \in DOMAIN q /\ Head(q) = q[1]
  BY EmptySeq, LenProperties
<1> QED BY <1>1 DEF CommitsIn

LEMMA CommitsRemove ==
  ASSUME NEW q \in Seq(Request), NEW i \in 1 .. Len(q),
         NEW c \in CommitsIn(RemoveAt(q, i))
  PROVE  \E k \in 1 .. Len(q) : k # i /\ q[k] = c /\ c.type = "commit"
<1>0. /\ Len(q) \in Nat
      /\ DOMAIN RemoveAt(q, i) = 1 .. Len(q) - 1
  BY RemoveAtProperties, LenProperties
<1>1. PICK j \in 1 .. Len(q) - 1 :
        RemoveAt(q, i)[j] = c /\ RemoveAt(q, i)[j].type = "commit"
  BY <1>0 DEF CommitsIn
<1>2. RemoveAt(q, i)[j] = IF j < i THEN q[j] ELSE q[j + 1]
  BY RemoveAtProperties
<1>3. CASE j < i
  BY <1>0, <1>1, <1>2, <1>3
<1>4. CASE ~(j < i)
  <2>1. j + 1 \in 1 .. Len(q) /\ j + 1 # i
    BY <1>0, <1>4
  <2> QED BY <1>1, <1>2, <1>4, <2>1
<1> QED BY <1>3, <1>4

----------------------------------------------------------------------------
(* Distinct and Apart, after each queue operation.                         *)

LEMMA ApartSymmetric ==
  ASSUME NEW q, NEW r
  PROVE  Apart(q, r) <=> Apart(r, q)
BY DEF Apart, BothCommitsOf

LEMMA EmptyApart ==
  ASSUME NEW q
  PROVE  Distinct(<<>>) /\ Apart(<<>>, q) /\ Apart(q, <<>>)
<1>1. DOMAIN <<>> = {}
  OBVIOUS
<1> QED BY <1>1, Zenon DEF Distinct, Apart

LEMMA DistinctConcat ==
  ASSUME NEW q \in Seq(Request), NEW r \in Seq(Request),
         Distinct(q), Distinct(r), Apart(q, r)
  PROVE  Distinct(q \o r)
<1>0. /\ Len(q) \in Nat /\ Len(r) \in Nat
      /\ DOMAIN q = 1 .. Len(q) /\ DOMAIN r = 1 .. Len(r)
      /\ DOMAIN (q \o r) = 1 .. Len(q) + Len(r)
      /\ \A j \in 1 .. Len(q) + Len(r) :
           (q \o r)[j] = IF j <= Len(q) THEN q[j] ELSE r[j - Len(q)]
  BY ConcatProperties, LenProperties
<1> SUFFICES ASSUME NEW j \in 1 .. Len(q) + Len(r), NEW k \in 1 .. Len(q) + Len(r),
                    BothCommitsOf((q \o r)[j], (q \o r)[k])
             PROVE  j = k
  BY <1>0 DEF Distinct
<1>1. CASE j <= Len(q) /\ k <= Len(q)
  BY <1>0, <1>1 DEF Distinct
<1>2. CASE ~(j <= Len(q)) /\ ~(k <= Len(q))
  <2>1. j - Len(q) \in DOMAIN r /\ k - Len(q) \in DOMAIN r
    BY <1>0, <1>2
  <2>2. BothCommitsOf(r[j - Len(q)], r[k - Len(q)])
    BY <1>0, <1>2
  <2>3. j - Len(q) = k - Len(q)
    BY <2>1, <2>2 DEF Distinct
  <2> QED BY <1>0, <2>3
<1>3. CASE j <= Len(q) /\ ~(k <= Len(q))
  <2>1. j \in DOMAIN q /\ k - Len(q) \in DOMAIN r
    BY <1>0, <1>3
  <2>2. BothCommitsOf(q[j], r[k - Len(q)])
    BY <1>0, <1>3
  <2> QED BY <2>1, <2>2 DEF Apart
<1>4. CASE ~(j <= Len(q)) /\ k <= Len(q)
  <2>1. k \in DOMAIN q /\ j - Len(q) \in DOMAIN r
    BY <1>0, <1>4
  <2>2. BothCommitsOf(q[k], r[j - Len(q)])
    BY <1>0, <1>4 DEF BothCommitsOf
  <2> QED BY <2>1, <2>2 DEF Apart
<1> QED BY <1>1, <1>2, <1>3, <1>4

LEMMA ApartConcat ==
  ASSUME NEW q \in Seq(Request), NEW r \in Seq(Request), NEW t,
         Apart(q, t), Apart(r, t)
  PROVE  Apart(q \o r, t)
<1>0. /\ Len(q) \in Nat /\ Len(r) \in Nat
      /\ DOMAIN q = 1 .. Len(q) /\ DOMAIN r = 1 .. Len(r)
      /\ DOMAIN (q \o r) = 1 .. Len(q) + Len(r)
      /\ \A j \in 1 .. Len(q) + Len(r) :
           (q \o r)[j] = IF j <= Len(q) THEN q[j] ELSE r[j - Len(q)]
  BY ConcatProperties, LenProperties
<1> SUFFICES ASSUME NEW j \in 1 .. Len(q) + Len(r), NEW k \in DOMAIN t
             PROVE  ~BothCommitsOf((q \o r)[j], t[k])
  BY <1>0 DEF Apart
<1>1. CASE j <= Len(q)
  BY <1>0, <1>1 DEF Apart
<1>2. CASE ~(j <= Len(q))
  <2>1. j - Len(q) \in DOMAIN r
    BY <1>0, <1>2
  <2> QED BY <1>0, <1>2, <2>1 DEF Apart
<1> QED BY <1>1, <1>2

LEMMA TailApart ==
  ASSUME NEW q \in Seq(Request), q # <<>>, NEW t
  PROVE  /\ Distinct(q) => Distinct(Tail(q))
         /\ Apart(q, t) => Apart(Tail(q), t)
<1>0. /\ Len(q) \in Nat /\ DOMAIN q = 1 .. Len(q)
      /\ DOMAIN Tail(q) = 1 .. Len(q) - 1
      /\ \A j \in 1 .. Len(q) - 1 : Tail(q)[j] = q[j + 1] /\ j + 1 \in 1 .. Len(q)
  BY HeadTailProperties, LenProperties
<1>1. ASSUME Distinct(q) PROVE Distinct(Tail(q))
  BY <1>0, <1>1 DEF Distinct
<1>2. ASSUME Apart(q, t) PROVE Apart(Tail(q), t)
  BY <1>0, <1>2 DEF Apart
<1> QED BY <1>1, <1>2

\* An appended request keeps the queues apart if its slot is new to them.
LEMMA AppendApart ==
  ASSUME NEW q \in Seq(Request), NEW r \in Request, NEW t,
         \A j \in DOMAIN q : ~BothCommitsOf(r, q[j])
  PROVE  /\ Distinct(q) => Distinct(Append(q, r))
         /\ (Apart(q, t) /\ \A k \in DOMAIN t : ~BothCommitsOf(r, t[k])) =>
              Apart(Append(q, r), t)
<1>0. /\ Len(q) \in Nat /\ DOMAIN q = 1 .. Len(q)
      /\ DOMAIN Append(q, r) = 1 .. Len(q) + 1
      /\ \A j \in 1 .. Len(q) : Append(q, r)[j] = q[j]
      /\ Append(q, r)[Len(q) + 1] = r
      /\ \A j \in 1 .. Len(q) + 1 : j \in 1 .. Len(q) \/ j = Len(q) + 1
  BY AppendProperties, LenProperties
<1>1. ASSUME Distinct(q) PROVE Distinct(Append(q, r))
  BY <1>0, <1>1 DEF Distinct, BothCommitsOf
<1>2. ASSUME Apart(q, t), \A k \in DOMAIN t : ~BothCommitsOf(r, t[k])
      PROVE  Apart(Append(q, r), t)
  BY <1>0, <1>2 DEF Apart
<1> QED BY <1>1, <1>2

LEMMA RemoveApart ==
  ASSUME NEW q \in Seq(Request), NEW i \in 1 .. Len(q), NEW t
  PROVE  /\ Distinct(q) => Distinct(RemoveAt(q, i))
         /\ Apart(q, t) => Apart(RemoveAt(q, i), t)
<1> DEFINE from(j) == IF j < i THEN j ELSE j + 1
<1>0. /\ Len(q) \in Nat /\ DOMAIN q = 1 .. Len(q)
      /\ DOMAIN RemoveAt(q, i) = 1 .. Len(q) - 1
      /\ \A j \in 1 .. Len(q) - 1 : RemoveAt(q, i)[j] = q[from(j)]
                                    /\ from(j) \in 1 .. Len(q)
      /\ \A j, k \in 1 .. Len(q) - 1 : from(j) = from(k) => j = k
  <2>1. Len(q) \in Nat /\ DOMAIN q = 1 .. Len(q)
    BY LenProperties
  <2>2. RemoveAt(q, i) \in Seq(Request) /\ Len(RemoveAt(q, i)) = Len(q) - 1
    BY RemoveAtProperties
  <2>3. DOMAIN RemoveAt(q, i) = 1 .. Len(q) - 1
    BY <2>2, LenProperties
  <2>4. \A j \in 1 .. Len(q) - 1 : RemoveAt(q, i)[j] = q[from(j)]
    BY RemoveAtProperties
  <2>5. \A j \in 1 .. Len(q) - 1 : from(j) \in 1 .. Len(q)
    BY <2>1
  <2>6. \A j, k \in 1 .. Len(q) - 1 : from(j) = from(k) => j = k
    BY <2>1
  <2> QED BY <2>1, <2>3, <2>4, <2>5, <2>6
<1> HIDE DEF from
<1>1. ASSUME Distinct(q) PROVE Distinct(RemoveAt(q, i))
  BY <1>0, <1>1 DEF Distinct
<1>2. ASSUME Apart(q, t) PROVE Apart(RemoveAt(q, i), t)
  BY <1>0, <1>2 DEF Apart
<1> QED BY <1>1, <1>2

----------------------------------------------------------------------------
(* How a step moves requests between the library, the socket and the       *)
(* compositor.                                                             *)

\* The steps that leave the three queues alone.
Still ==
  \/ WaitFrame \/ ReapEntry \/ ReapDone \/ PollReturn \/ HandleResize
  \/ HandOut \/ DrainReturn \/ Handler \/ Submit
  \/ SkipFrame \/ Quit \/ Fail \/ Resume \/ GpuFinish
  \/ FireFrame \/ AnswerFeedback \/ SendConfigure \/ SendClose \/ Terminated

LEMMA StillStep == Still => UNCHANGED <<out, wire, held>>
BY DEF Still, WaitFrame, ReapEntry, ReapDone, PollReturn, HandleResize, HandOut,
   DrainReturn, Handler, FrameDone, ToplevelConfigure, ToplevelClose,
   PresentationAnswered, Dispatch, Submit, SkipFrame, Quit, Fail, Resume, GpuFinish,
   FireFrame, AnswerFeedback, SendConfigure, SendClose, Terminated, vars,
   ring, window, present, control, kernel, remote, socket

LEMMA NextByQueues ==
  Next => \/ Still \/ Gate \/ AwaitRelease \/ ArmFrame \/ CommitFrame
          \/ ReceiveFrame \/ ReceiveCommit \/ \E k \in DOMAIN held : Release(k)
BY DEF Next, Client, Compositor, Still

\* A request that is not a commit keeps the queues apart.
LEMMA FrameRequestStep ==
  /\ [type |-> "frame"] \in Request
  /\ \A r : ~BothCommitsOf([type |-> "frame"], r)
BY DEF Request, FrameRequest, BothCommitsOf

LEMMA FlushStep == Gate \/ AwaitRelease =>
  /\ UNCHANGED held
  /\ \/ wire' = wire /\ out' = out
     \/ wire' = wire \o out /\ out' = <<>>
BY DEF Gate, AwaitRelease, Flush, remote

LEMMA ArmStep == ArmFrame =>
  /\ UNCHANGED held
  /\ \/ wire' = wire /\ out' = out
     \/ wire' = wire \o Append(out, [type |-> "frame"]) /\ out' = <<>>
     \/ wire' = wire /\ out' = Append(out, [type |-> "frame"])
BY DEF ArmFrame, remote

\* Only present() adds to the commits under way.
LEMMA InFlightStep ==
  ASSUME TypeOK, Next, ~CommitFrame
  PROVE  InFlight' \subseteq InFlight
<1>0. out \in Seq(Request) /\ wire \in Seq(Request) /\ held \in Seq(Request)
      /\ held \in Seq(Commit)
  BY HeldIsRequests DEF TypeOK, QueueTypes
<1>1. CommitsIn(<<>>) = {}
  BY DEF CommitsIn
<1>2. CASE Still
  BY <1>2, StillStep DEF InFlight
<1>3. CASE Gate \/ AwaitRelease
  BY <1>0, <1>1, <1>3, FlushStep, CommitsConcat DEF InFlight
<1>4. CASE ArmFrame
  <2> DEFINE asked == Append(out, [type |-> "frame"])
  <2>1. asked \in Seq(Request)
    <3>1. [type |-> "frame"] \in Request
      BY FrameRequestStep
    <3> QED BY <1>0, <3>1, AppendProperties
  <2>a. CommitsIn(asked) \subseteq CommitsIn(out)
    <3>1. [type |-> "frame"].type # "commit"
      OBVIOUS
    <3>2. [type |-> "frame"] \in Request
      BY FrameRequestStep
    <3>3. ASSUME NEW c \in CommitsIn(asked)
          PROVE  c \in CommitsIn(out)
      BY <1>0, <3>1, <3>2, <3>3, CommitsAppend
    <3> QED BY <3>3
  <2>2. CommitsIn(wire \o asked) \subseteq CommitsIn(wire) \cup CommitsIn(out)
    BY <1>0, <2>1, <2>a, CommitsConcat
  <2> HIDE DEF asked
  <2>3. /\ UNCHANGED held
        /\ \/ wire' = wire /\ out' = out
           \/ wire' = wire \o asked /\ out' = <<>>
           \/ wire' = wire /\ out' = asked
    BY <1>4, ArmStep DEF asked
  <2> QED BY <1>1, <2>a, <2>2, <2>3 DEF InFlight
<1>5. CASE ReceiveFrame
  <2>1. wire # <<>> /\ wire' = Tail(wire) /\ UNCHANGED <<out, held>>
    BY <1>5 DEF ReceiveFrame
  <2> QED BY <1>0, <2>1, CommitsTail DEF InFlight
<1>6. CASE ReceiveCommit
  <2>1. /\ wire # <<>> /\ wire' = Tail(wire) /\ UNCHANGED out
        /\ held' = Append(held, Head(wire))
        /\ Head(wire) \in CommitsIn(wire)
    BY <1>0, <1>6, CommitsHead DEF ReceiveCommit
  <2>2. Head(wire) \in Request
    BY <1>0, <2>1, HeadTailProperties
  <2>3. CommitsIn(held') \subseteq CommitsIn(held) \cup {Head(wire)}
    BY <1>0, <2>1, <2>2, CommitsAppend
  <2>4. CommitsIn(wire') \subseteq CommitsIn(wire)
    BY <1>0, <2>1, CommitsTail
  <2> QED BY <2>1, <2>3, <2>4 DEF InFlight
<1>7. CASE \E k \in DOMAIN held : Release(k)
  <2>1. PICK k \in DOMAIN held : held' = RemoveAt(held, k) /\ UNCHANGED <<out, wire>>
    BY <1>7 DEF Release, socket
  <2>2. k \in 1 .. Len(held) /\ DOMAIN held = 1 .. Len(held)
    BY <1>0, LenProperties
  <2>3. CommitsIn(held') \subseteq CommitsIn(held)
    <3> SUFFICES ASSUME NEW c \in CommitsIn(RemoveAt(held, k))
                 PROVE  c \in CommitsIn(held)
      BY <2>1
    <3>1. \E j \in 1 .. Len(held) : j # k /\ held[j] = c /\ c.type = "commit"
      BY <1>0, <2>2, CommitsRemove
    <3> QED BY <2>2, <3>1 DEF CommitsIn
  <2> QED BY <2>1, <2>3 DEF InFlight
<1> QED BY <1>2, <1>3, <1>4, <1>5, <1>6, <1>7, NextByQueues

\* The commit that is released is its slot's only one.
LEMMA ReleaseStep ==
  ASSUME TypeOK, OneCommitPerSlot, NEW k \in DOMAIN held, Release(k)
  PROVE  /\ held[k] \in InFlight
         /\ \A c \in InFlight' : c \in InFlight /\ c.slot # held[k].slot
<1>0. out \in Seq(Request) /\ wire \in Seq(Request) /\ held \in Seq(Request)
      /\ held \in Seq(Commit)
  BY HeldIsRequests DEF TypeOK, QueueTypes
<1>1. k \in 1 .. Len(held) /\ DOMAIN held = 1 .. Len(held)
  BY <1>0, LenProperties
<1>2. held[k].type = "commit"
  <2>1. held[k] \in Commit
    BY <1>0, <1>1, ElementOfSeq
  <2> QED BY <2>1 DEF Commit
<1>3. held[k] \in InFlight
  BY <1>2 DEF InFlight, CommitsIn
<1>4. held' = RemoveAt(held, k) /\ out' = out /\ wire' = wire
  BY DEF Release, socket
<1>5. ASSUME NEW c \in CommitsIn(held')
      PROVE  c \in InFlight /\ c.slot # held[k].slot
  <2>1. PICK j \in 1 .. Len(held) : j # k /\ held[j] = c /\ c.type = "commit"
    BY <1>0, <1>1, <1>4, <1>5, CommitsRemove
  <2>2. c \in InFlight
    BY <1>1, <2>1 DEF InFlight, CommitsIn
  <2> QED BY <1>1, <1>2, <2>1, <2>2 DEF OneCommitPerSlot, Distinct, BothCommitsOf
<1>6. ASSUME NEW c \in CommitsIn(out) \cup CommitsIn(wire)
      PROVE  c \in InFlight /\ c.slot # held[k].slot
  BY <1>2, <1>6 DEF InFlight, CommitsIn, OneCommitPerSlot, Apart, BothCommitsOf
<1> QED BY <1>3, <1>4, <1>5, <1>6 DEF InFlight

----------------------------------------------------------------------------
(* The inductive invariant.                                                *)

\* A step of the client changes no release timeline; only present() moves a
\* counter or the turn.
LEMMA RingFrame ==
  ASSUME Next, ~CommitFrame, ~(\E k \in DOMAIN held : Release(k))
  PROVE  UNCHANGED <<counter, released, next_frame>>
BY DEF Next, Client, Compositor, Handler, WaitFrame, ReapEntry, ReapDone, Gate,
   PollReturn, HandleResize, ArmFrame, HandOut, AwaitRelease, DrainReturn,
   FrameDone, ToplevelConfigure, ToplevelClose, PresentationAnswered, Dispatch,
   Submit, SkipFrame, Quit, Fail, Resume, GpuFinish, ReceiveFrame, ReceiveCommit,
   FireFrame, AnswerFeedback, SendConfigure, SendClose, Terminated, vars,
   ring, window, present, control, kernel, remote, socket

LEMMA HandedFrame ==
  ASSUME Next, ~CommitFrame, ~HandOut, ~HandleResize
  PROVE  UNCHANGED handed_index
BY DEF Next, Client, Compositor, Handler, WaitFrame, ReapEntry, ReapDone, Gate,
   PollReturn, ArmFrame, AwaitRelease, DrainReturn,
   FrameDone, ToplevelConfigure, ToplevelClose, PresentationAnswered, Dispatch,
   Submit, SkipFrame, Quit, Fail, Resume, GpuFinish, ReceiveFrame, ReceiveCommit, Release,
   FireFrame, AnswerFeedback, SendConfigure, SendClose, Terminated, vars,
   ring, window, present, control, kernel, remote, socket

LEMMA ImagesFrame ==
  ASSUME Next, ~HandleResize, ~ReapEntry
  PROVE  UNCHANGED <<image, retired>>
BY DEF Next, Client, Compositor, Handler, WaitFrame, ReapDone, Gate, CommitFrame,
   PollReturn, ArmFrame, AwaitRelease, DrainReturn, HandOut,
   FrameDone, ToplevelConfigure, ToplevelClose, PresentationAnswered, Dispatch,
   Submit, SkipFrame, Quit, Fail, Resume, GpuFinish, ReceiveFrame, ReceiveCommit, Release,
   FireFrame, AnswerFeedback, SendConfigure, SendClose, Terminated, vars,
   ring, window, present, control, kernel, remote, socket

\* What present() does to the ring.
LEMMA CommitFrameStep ==
  ASSUME TypeOK, TurnInv, CommitFrame
  PROVE  /\ handed_index = next_frame /\ handed_index \in Slots
         /\ released[handed_index] = counter[handed_index]
         /\ counter' = [counter EXCEPT ![handed_index] = counter[handed_index] + 1]
         /\ UNCHANGED <<released, image, retired, gpu, wire, held>>
         /\ handed_index' = NoFrame
         /\ [type |-> "commit", slot |-> handed_index,
             point |-> counter[handed_index] + 1,
             image |-> Attached(handed_index)] \in Commit
         /\ out' = Append(out, [type |-> "commit", slot |-> handed_index,
                                point |-> counter[handed_index] + 1,
                                image |-> Attached(handed_index)])
<1>1. handed_index \in Slots
  BY DEF CommitFrame, TypeOK, PlaceTypes
<1>2. handed_index # NoFrame
  BY <1>1, LoopAssumption DEF Slots, NoFrame
<1>3. handed_index = next_frame /\ released[handed_index] = counter[handed_index]
  BY <1>2 DEF TurnInv
<1>4. counter[handed_index] + 1 \in Nat /\ Attached(handed_index) \in Nat
  BY <1>1 DEF TypeOK, SlotTypes, Attached, NoImage
<1>5. [type |-> "commit", slot |-> handed_index, point |-> counter[handed_index] + 1,
       image |-> Attached(handed_index)] \in Commit
  BY <1>1, <1>4 DEF Commit
<1>6. /\ counter' = [counter EXCEPT ![handed_index] = counter[handed_index] + 1]
      /\ UNCHANGED <<released, image, retired, gpu, wire, held>>
      /\ handed_index' = NoFrame
      /\ out' = Append(out, [type |-> "commit", slot |-> handed_index,
                             point |-> counter[handed_index] + 1,
                             image |-> Attached(handed_index)])
  BY DEF CommitFrame, kernel, remote
<1> QED BY <1>1, <1>3, <1>5, <1>6

LEMMA TurnStep == TypeOK /\ Inv /\ Next => TurnInv'
<1> SUFFICES ASSUME TypeOK, Inv, Next PROVE TurnInv'
  OBVIOUS
<1>0. /\ TurnInv /\ CommitInv /\ OneCommitPerSlot
      /\ counter \in [Slots -> Nat] /\ released \in [Slots -> Nat]
      /\ next_frame \in Slots /\ handed_index \in Slots \cup {NoFrame}
      /\ \A i \in Slots : i # NoFrame
  BY LoopAssumption DEF Inv, TypeOK, SlotTypes, Slots, NoFrame
<1>1. CASE CommitFrame
  <2>1. /\ released[handed_index] = counter[handed_index] /\ handed_index \in Slots
        /\ counter' = [counter EXCEPT ![handed_index] = counter[handed_index] + 1]
        /\ released' = released /\ handed_index' = NoFrame
    BY <1>0, <1>1, CommitFrameStep
  <2>2. \A i \in Slots : released'[i] <= counter'[i] /\ counter'[i] <= released'[i] + 1
    BY <1>0, <2>1 DEF TurnInv
  <2> QED BY <2>1, <2>2 DEF TurnInv, NoFrame
<1>2. CASE \E k \in DOMAIN held : Release(k)
  <2>1. PICK k \in DOMAIN held : Release(k)
    BY <1>2
  <2>2. held[k] \in InFlight /\ held[k].slot \in Slots /\ held[k].point \in Nat
    <3>1. held[k] \in Commit
      BY <2>1, LenProperties, ElementOfSeq DEF TypeOK, QueueTypes
    <3> QED BY <1>0, <2>1, <3>1, ReleaseStep DEF Commit
  <2>3. held[k].point = counter[held[k].slot] /\ released[held[k].slot] < held[k].point
    BY <1>0, <2>2 DEF CommitInv
  <2>4. /\ released' = [released EXCEPT ![held[k].slot] = held[k].point]
        /\ UNCHANGED <<counter, next_frame, handed_index>>
    BY <2>1 DEF Release, ring
  <2> QED BY <1>0, <2>2, <2>3, <2>4 DEF TurnInv
<1>3. CASE HandOut
  <2>1. /\ UNCHANGED <<counter, released, next_frame>>
        /\ handed_index' = next_frame
        /\ counter[next_frame] = 0 \/ released[next_frame] >= counter[next_frame]
    BY <1>3 DEF HandOut, SlotReady, WaitReleasePoint, kernel
  <2> QED BY <1>0, <2>1 DEF TurnInv
<1>4. CASE HandleResize
  <2>1. UNCHANGED <<counter, released, next_frame>> /\ handed_index' = NoFrame
    BY <1>4 DEF HandleResize, kernel
  <2> QED BY <1>0, <2>1 DEF TurnInv, NoFrame
<1>5. CASE ~CommitFrame /\ ~HandOut /\ ~HandleResize
           /\ ~(\E k \in DOMAIN held : Release(k))
  BY <1>0, <1>5, RingFrame, HandedFrame DEF TurnInv, NoFrame
<1> QED BY <1>1, <1>2, <1>3, <1>4, <1>5

LEMMA CommitStep == TypeOK /\ Inv /\ Next => CommitInv'
<1> SUFFICES ASSUME TypeOK, Inv, Next, NEW c \in InFlight'
             PROVE  /\ c.point = counter'[c.slot]
                    /\ released'[c.slot] < c.point
                    /\ \/ c.image \in {NoImage, image'[c.slot]}
                       \/ \E k \in DOMAIN retired' :
                            /\ retired'[k].slot = c.slot
                            /\ retired'[k].counter = c.point
                            /\ retired'[k].image = c.image
  BY DEF CommitInv
<1>0. /\ TurnInv /\ CommitInv /\ OneCommitPerSlot
      /\ counter \in [Slots -> Nat] /\ released \in [Slots -> Nat]
      /\ image \in [Slots -> Nat] /\ retired \in Seq(Retired)
      /\ out \in Seq(Request) /\ wire \in Seq(Request) /\ held \in Seq(Request)
      /\ BufferCount \in Nat \ {0}
  BY HeldIsRequests, LoopAssumption DEF Inv, TypeOK, SlotTypes, QueueTypes
<1>a. ASSUME NEW d \in InFlight
      PROVE  d \in Commit /\ d.slot \in Slots /\ d.point \in Nat
  <2>1. d \in Commit
    BY <1>0, <1>a, CommitTypes DEF InFlight
  <2> QED BY <2>1 DEF Commit
<1>1. CASE CommitFrame
  <2> DEFINE new == [type |-> "commit", slot |-> handed_index,
                     point |-> counter[handed_index] + 1,
                     image |-> Attached(handed_index)]
  <2>1. /\ handed_index \in Slots
        /\ released[handed_index] = counter[handed_index]
        /\ counter' = [counter EXCEPT ![handed_index] = counter[handed_index] + 1]
        /\ UNCHANGED <<released, image, retired, wire, held>>
        /\ out' = Append(out, new) /\ new \in Request
    BY <1>0, <1>1, CommitFrameStep DEF Request
  <2>2. /\ new.slot = handed_index /\ new.point = counter[handed_index] + 1
        /\ new.image \in {NoImage, image[handed_index]}
    BY DEF Attached
  <2> HIDE DEF new
  <2>3. c \in InFlight \/ c = new
    BY <1>0, <2>1, CommitsAppend DEF InFlight
  <2>4. CASE c = new
    BY <1>0, <2>1, <2>2, <2>4
  <2>5. CASE c \in InFlight
    <3>1. c.slot \in Slots /\ c.point = counter[c.slot] /\ released[c.slot] < c.point
      BY <1>0, <1>a, <2>5 DEF CommitInv
    <3>2. c.slot # handed_index
      BY <1>0, <2>1, <3>1
    <3> QED BY <1>0, <2>1, <2>5, <3>1, <3>2 DEF CommitInv
  <2> QED BY <2>3, <2>4, <2>5
<1>b. ASSUME ~CommitFrame
      PROVE  /\ c \in InFlight /\ c.slot \in Slots /\ c.point \in Nat
             /\ c.point = counter[c.slot] /\ released[c.slot] < c.point
             /\ \/ c.image \in {NoImage, image[c.slot]}
                \/ \E k \in DOMAIN retired :
                     /\ retired[k].slot = c.slot
                     /\ retired[k].counter = c.point
                     /\ retired[k].image = c.image
  <2>1. c \in InFlight
    BY <1>b, InFlightStep
  <2> QED BY <1>0, <1>a, <2>1 DEF CommitInv
<1>2. CASE \E k \in DOMAIN held : Release(k)
  <2>1. PICK k \in DOMAIN held : Release(k)
    BY <1>2
  <2>2. c.slot # held[k].slot
    BY <1>0, <2>1, ReleaseStep
  <2>3. /\ released' = [released EXCEPT ![held[k].slot] = held[k].point]
        /\ UNCHANGED <<counter, image, retired>>
    BY <2>1 DEF Release, ring
  <2>4. ~CommitFrame
    BY <2>1 DEF Release, CommitFrame, control
  <2> QED BY <1>0, <1>b, <2>2, <2>3, <2>4
<1>3. CASE HandleResize
  <2> DEFINE batch == [k \in 1 .. BufferCount |->
               [slot |-> k - 1, counter |-> counter[k - 1], image |-> image[k - 1]]]
  <2>1. batch \in Seq(Retired) /\ Len(batch) = BufferCount
    BY <1>0 DEF Retired, Slots
  <2>2. retired' = retired \o batch /\ UNCHANGED <<counter, released>> /\ ~CommitFrame
    BY <1>3 DEF HandleResize, CommitFrame, kernel
  <2>3. /\ DOMAIN retired' = 1 .. Len(retired) + BufferCount
        /\ Len(retired) \in Nat /\ DOMAIN retired = 1 .. Len(retired)
        /\ \A k \in 1 .. Len(retired) : retired'[k] = retired[k]
        /\ \A k \in 1 .. BufferCount : retired'[Len(retired) + k] = batch[k]
    <3>1. Len(retired) \in Nat /\ DOMAIN retired = 1 .. Len(retired)
      BY <1>0, LenProperties
    <3>2. /\ retired \o batch \in Seq(Retired)
          /\ Len(retired \o batch) = Len(retired) + Len(batch)
          /\ \A k \in 1 .. Len(retired) + Len(batch) : (retired \o batch)[k] =
                IF k <= Len(retired) THEN retired[k] ELSE batch[k - Len(retired)]
      BY <1>0, <2>1, ConcatProperties
    <3> HIDE DEF batch
    <3>3. DOMAIN (retired \o batch) = 1 .. Len(retired) + BufferCount
      BY <2>1, <3>2, LenProperties
    <3> QED BY <1>0, <2>1, <2>2, <3>1, <3>2, <3>3
  <2>6. CASE c.image = NoImage
    BY <1>b, <2>2, <2>6
  <2>4. CASE c.image = image[c.slot]
    <3>1. PICK i \in Slots : c.slot = i
      BY <1>b, <2>2
    <3>2. i + 1 \in 1 .. BufferCount /\ (i + 1) - 1 = i
      BY <1>0 DEF Slots
    <3>3. batch[i + 1] = [slot |-> i, counter |-> counter[i], image |-> image[i]]
      BY <3>2
    <3> HIDE DEF batch
    <3>4. Len(retired) + (i + 1) \in DOMAIN retired'
      BY <1>0, <2>3, <3>2
    <3>5. retired'[Len(retired) + (i + 1)] = batch[i + 1]
      BY <2>3, <3>2
    <3>6. c.point = counter[i] /\ c.image = image[i]
      BY <1>b, <2>2, <2>4, <3>1
    <3>7. \E k \in DOMAIN retired' : /\ retired'[k].slot = c.slot
                                     /\ retired'[k].counter = c.point
                                     /\ retired'[k].image = c.image
      BY <3>1, <3>3, <3>4, <3>5, <3>6
    <3> QED BY <1>b, <2>2, <3>7
  <2>5. CASE c.image \notin {NoImage, image[c.slot]}
    <3> HIDE DEF batch
    <3>1. PICK k \in DOMAIN retired : /\ retired[k].slot = c.slot
                                      /\ retired[k].counter = c.point
                                      /\ retired[k].image = c.image
      BY <1>b, <2>2, <2>5
    <3>2. k \in DOMAIN retired' /\ retired'[k] = retired[k]
      BY <1>0, <2>3, <3>1
    <3> QED BY <1>b, <2>2, <3>1, <3>2
  <2> QED BY <2>4, <2>5, <2>6
<1>4. CASE ReapEntry
  <2>1. /\ UNCHANGED <<counter, released, image>> /\ ~CommitFrame
        /\ it \in Nat \ {0} /\ it <= Len(retired) /\ Len(retired) \in Nat
        /\ DOMAIN retired = 1 .. Len(retired)
        /\ \/ UNCHANGED retired
           \/ /\ retired' = RemoveAt(retired, it)
              /\ retired[it].counter = 0
                   \/ released[retired[it].slot] >= retired[it].counter
    BY <1>0, <1>4, LenProperties DEF ReapEntry, Reapable, CommitFrame,
       WaitReleasePoint, kernel, TypeOK, SlotTypes
  <2>2. CASE UNCHANGED retired
    BY <1>b, <2>1, <2>2
  <2>3. CASE c.image \in {NoImage, image[c.slot]}
    BY <1>b, <2>1, <2>3
  <2>4. CASE ~UNCHANGED retired /\ c.image \notin {NoImage, image[c.slot]}
    <3>1. PICK k \in DOMAIN retired : /\ retired[k].slot = c.slot
                                      /\ retired[k].counter = c.point
                                      /\ retired[k].image = c.image
      BY <1>b, <2>1, <2>4
    <3>2. k # it
      BY <1>0, <1>b, <2>1, <2>4, <3>1
    <3>3. /\ DOMAIN retired' = 1 .. Len(retired) - 1
          /\ \A j \in 1 .. Len(retired) - 1 :
               retired'[j] = IF j < it THEN retired[j] ELSE retired[j + 1]
      <4>1. it \in 1 .. Len(retired) /\ retired' = RemoveAt(retired, it)
        BY <2>1, <2>4
      <4>2. /\ retired' \in Seq(Retired) /\ Len(retired') = Len(retired) - 1
            /\ \A j \in 1 .. Len(retired) - 1 :
                 retired'[j] = IF j < it THEN retired[j] ELSE retired[j + 1]
        BY <1>0, <4>1, RemoveAtProperties
      <4> QED BY <4>2, LenProperties
    <3>4. \E j \in DOMAIN retired' : retired'[j] = retired[k]
      <4>1. CASE k < it
        BY <2>1, <3>1, <3>3, <4>1
      <4>2. CASE it < k
        <5>1. k - 1 \in DOMAIN retired' /\ ~(k - 1 < it) /\ (k - 1) + 1 = k
          BY <2>1, <3>1, <3>3, <4>2
        <5> QED BY <3>3, <5>1
      <4> QED BY <2>1, <3>1, <3>2, <4>1, <4>2
    <3> QED BY <1>b, <2>1, <3>1, <3>4
  <2> QED BY <2>2, <2>3, <2>4
<1>5. CASE ~CommitFrame /\ ~HandleResize /\ ~ReapEntry
           /\ ~(\E k \in DOMAIN held : Release(k))
  BY <1>b, <1>5, RingFrame, ImagesFrame
<1> QED BY <1>1, <1>2, <1>3, <1>4, <1>5

LEMMA OneCommitStep == TypeOK /\ Inv /\ Next => OneCommitPerSlot'
<1> SUFFICES ASSUME TypeOK, Inv, Next PROVE OneCommitPerSlot'
  OBVIOUS
<1>0. /\ TurnInv /\ CommitInv /\ OneCommitPerSlot
      /\ counter \in [Slots -> Nat] /\ released \in [Slots -> Nat]
      /\ out \in Seq(Request) /\ wire \in Seq(Request) /\ held \in Seq(Request)
  BY HeldIsRequests DEF Inv, TypeOK, SlotTypes, QueueTypes
<1>a. /\ Distinct(out) /\ Distinct(wire) /\ Distinct(held)
      /\ Apart(out, wire) /\ Apart(out, held) /\ Apart(wire, held)
      /\ Apart(wire, out) /\ Apart(held, out) /\ Apart(held, wire)
  BY <1>0, ApartSymmetric DEF OneCommitPerSlot
<1>b. \A q : Distinct(<<>>) /\ Apart(<<>>, q) /\ Apart(q, <<>>)
  BY EmptyApart
<1>1. CASE Still
  BY <1>1, <1>a, StillStep DEF OneCommitPerSlot
<1>2. CASE Gate \/ AwaitRelease
  <2>1. Distinct(wire \o out) /\ Apart(wire \o out, held)
    BY <1>0, <1>a, DistinctConcat, ApartConcat
  <2>2. /\ UNCHANGED held
        /\ \/ wire' = wire /\ out' = out
           \/ wire' = wire \o out /\ out' = <<>>
    BY <1>2, FlushStep
  <2> QED BY <1>a, <1>b, <2>1, <2>2 DEF OneCommitPerSlot
<1>3. CASE ArmFrame
  <2> DEFINE asked == Append(out, [type |-> "frame"])
  <2>1. asked \in Seq(Request)
    <3>1. [type |-> "frame"] \in Request
      BY FrameRequestStep
    <3> QED BY <1>0, <3>1, AppendProperties
  <2>2. Distinct(asked) /\ Apart(asked, wire) /\ Apart(asked, held)
    BY <1>0, <1>a, FrameRequestStep, AppendApart
  <2> HIDE DEF asked
  <2>3. Apart(wire, asked)
    BY <2>2, ApartSymmetric
  <2>4. Distinct(wire \o asked) /\ Apart(wire \o asked, held)
    BY <1>0, <1>a, <2>1, <2>2, <2>3, DistinctConcat, ApartConcat
  <2>5. /\ UNCHANGED held
        /\ \/ wire' = wire /\ out' = out
           \/ wire' = wire \o asked /\ out' = <<>>
           \/ wire' = wire /\ out' = asked
    BY <1>3, ArmStep DEF asked
  <2> QED BY <1>a, <1>b, <2>2, <2>4, <2>5 DEF OneCommitPerSlot
<1>4. CASE CommitFrame
  <2> DEFINE new == [type |-> "commit", slot |-> handed_index,
                     point |-> counter[handed_index] + 1,
                     image |-> Attached(handed_index)]
  <2>1. /\ handed_index \in Slots
        /\ released[handed_index] = counter[handed_index]
        /\ UNCHANGED <<wire, held>>
        /\ out' = Append(out, new) /\ new \in Request /\ new.slot = handed_index
    BY <1>0, <1>4, CommitFrameStep DEF Request
  <2> HIDE DEF new
  <2>2. \A c \in InFlight : c.slot # handed_index
    BY <1>0, <2>1 DEF CommitInv
  <2>3. \A k \in DOMAIN out : ~BothCommitsOf(new, out[k])
    BY <2>1, <2>2 DEF BothCommitsOf, InFlight, CommitsIn
  <2>4. \A k \in DOMAIN wire : ~BothCommitsOf(new, wire[k])
    BY <2>1, <2>2 DEF BothCommitsOf, InFlight, CommitsIn
  <2>5. \A k \in DOMAIN held : ~BothCommitsOf(new, held[k])
    BY <2>1, <2>2 DEF BothCommitsOf, InFlight, CommitsIn
  <2>6. /\ Distinct(Append(out, new))
        /\ Apart(Append(out, new), wire) /\ Apart(Append(out, new), held)
    BY <1>0, <1>a, <2>1, <2>3, <2>4, <2>5, AppendApart
  <2> QED BY <1>a, <2>1, <2>6 DEF OneCommitPerSlot
<1>5. CASE ReceiveFrame
  <2>1. wire # <<>> /\ wire' = Tail(wire) /\ UNCHANGED <<out, held>>
    BY <1>5 DEF ReceiveFrame
  <2>2. Distinct(Tail(wire)) /\ Apart(Tail(wire), held) /\ Apart(Tail(wire), out)
    BY <1>0, <1>a, <2>1, TailApart
  <2> QED BY <1>a, <2>1, <2>2, ApartSymmetric DEF OneCommitPerSlot
<1>6. CASE ReceiveCommit
  <2>1. /\ wire # <<>> /\ wire' = Tail(wire) /\ UNCHANGED out
        /\ held' = Append(held, Head(wire))
    BY <1>6 DEF ReceiveCommit
  <2>2. /\ Head(wire) = wire[1] /\ Head(wire) \in Request /\ Tail(wire) \in Seq(Request)
        /\ Len(wire) \in Nat /\ DOMAIN wire = 1 .. Len(wire) /\ 1 \in DOMAIN wire
        /\ DOMAIN Tail(wire) = 1 .. Len(wire) - 1
        /\ \A j \in 1 .. Len(wire) - 1 : Tail(wire)[j] = wire[j + 1]
    BY <1>0, <2>1, HeadTailProperties, LenProperties, EmptySeq
  <2>3. Distinct(Tail(wire)) /\ Apart(Tail(wire), held) /\ Apart(Tail(wire), out)
    BY <1>0, <1>a, <2>1, TailApart
  <2>4. \A k \in DOMAIN held : ~BothCommitsOf(Head(wire), held[k])
    BY <1>a, <2>2 DEF Apart
  <2>5. \A k \in DOMAIN out : ~BothCommitsOf(Head(wire), out[k])
    BY <1>a, <2>2 DEF Apart
  <2>6. \A k \in DOMAIN Tail(wire) : ~BothCommitsOf(Head(wire), Tail(wire)[k])
    <3> SUFFICES ASSUME NEW k \in 1 .. Len(wire) - 1,
                        BothCommitsOf(wire[1], wire[k + 1])
                 PROVE  FALSE
      BY <2>2
    <3>1. k + 1 \in DOMAIN wire /\ k + 1 # 1
      BY <2>2
    <3> QED BY <1>a, <2>2, <3>1 DEF Distinct
  <2>7. /\ Distinct(Append(held, Head(wire)))
        /\ Apart(Append(held, Head(wire)), Tail(wire))
        /\ Apart(Append(held, Head(wire)), out)
    <3>1. Apart(held, Tail(wire))
      BY <2>3, ApartSymmetric
    <3> QED BY <1>0, <1>a, <2>2, <2>4, <2>5, <2>6, <3>1, AppendApart
  <2> QED BY <1>a, <2>1, <2>3, <2>7, ApartSymmetric DEF OneCommitPerSlot
<1>7. CASE \E k \in DOMAIN held : Release(k)
  <2>1. PICK k \in DOMAIN held : held' = RemoveAt(held, k) /\ UNCHANGED <<out, wire>>
    BY <1>7 DEF Release, socket
  <2>2. k \in 1 .. Len(held)
    BY <1>0, LenProperties
  <2>3. /\ Distinct(RemoveAt(held, k))
        /\ Apart(RemoveAt(held, k), out) /\ Apart(RemoveAt(held, k), wire)
    BY <1>0, <1>a, <2>2, RemoveApart
  <2> QED BY <1>a, <2>1, <2>3, ApartSymmetric DEF OneCommitPerSlot
<1> QED BY <1>1, <1>2, <1>3, <1>4, <1>5, <1>6, <1>7, NextByQueues

\* The steps that neither touch what JobInv speaks of nor submit.
LEMMA JobFrame ==
  ASSUME Next, ~CommitFrame, ~HandleResize, ~Submit, ~GpuFinish,
         ~(\E k \in DOMAIN held : Release(k))
  PROVE  /\ UNCHANGED <<gpu, image, counter, released>>
         /\ pc \in {"submitted", "failed"} =>
              pc' \in {"submitted", "failed"} /\ UNCHANGED handed_index
<1>1. UNCHANGED <<counter, released>>
  BY RingFrame
<1>2. UNCHANGED image
  <2>1. CASE ReapEntry
    BY <2>1 DEF ReapEntry
  <2>2. CASE ~ReapEntry
    BY <2>2, ImagesFrame
  <2> QED BY <2>1, <2>2
<1>3. UNCHANGED gpu
  BY DEF Next, Client, Compositor, Handler, WaitFrame, ReapEntry, ReapDone, Gate,
     PollReturn, ArmFrame, HandOut, AwaitRelease, DrainReturn, FrameDone,
     ToplevelConfigure, ToplevelClose, PresentationAnswered, Dispatch, SkipFrame,
     Quit, Fail, Resume, ReceiveFrame, ReceiveCommit, FireFrame, AnswerFeedback,
     SendConfigure, SendClose, Terminated, vars, kernel
<1>4. ASSUME pc \in {"submitted", "failed"}
      PROVE  pc' \in {"submitted", "failed"} /\ UNCHANGED handed_index
  <2>1. ~HandOut
    BY <1>4 DEF HandOut
  <2>2. UNCHANGED handed_index
    BY <2>1, HandedFrame
  <2>3. pc' \in {"submitted", "failed"}
    BY <1>4 DEF Next, Client, Compositor, Handler, WaitFrame, ReapEntry, ReapDone,
       Gate, PollReturn, ArmFrame, HandOut, AwaitRelease, DrainReturn, FrameDone,
       ToplevelConfigure, ToplevelClose, PresentationAnswered, Dispatch, SkipFrame,
       Quit, Fail, Resume, ReceiveFrame, ReceiveCommit, FireFrame, AnswerFeedback,
       SendConfigure, SendClose, Terminated, vars, control
  <2> QED BY <2>2, <2>3
<1> QED BY <1>1, <1>2, <1>3, <1>4

LEMMA JobStep == TypeOK /\ Inv /\ Next => JobInv'
<1> SUFFICES ASSUME TypeOK, Inv, Next PROVE JobInv'
  OBVIOUS
<1>0. /\ TurnInv /\ CommitInv /\ OneCommitPerSlot /\ JobInv
      /\ counter \in [Slots -> Nat] /\ released \in [Slots -> Nat]
      /\ image \in [Slots -> Nat]
      /\ gpu \in Seq(Job) /\ Len(gpu) \in Nat /\ DOMAIN gpu = 1 .. Len(gpu)
  <2>1. /\ counter \in [Slots -> Nat] /\ released \in [Slots -> Nat]
        /\ image \in [Slots -> Nat] /\ gpu \in Seq(Job)
    BY DEF TypeOK, SlotTypes, QueueTypes
  <2>2. Len(gpu) \in Nat /\ DOMAIN gpu = 1 .. Len(gpu)
    BY <2>1, LenProperties
  <2> QED BY <2>1, <2>2 DEF Inv
<1>a. \A k \in DOMAIN gpu :
        gpu[k] \in Job /\ gpu[k].slot \in Slots /\ gpu[k].point \in Nat
  <2>1. \A k \in DOMAIN gpu : gpu[k] \in Job
    BY <1>0, ElementOfSeq
  <2> QED BY <2>1 DEF Job
<1>1. CASE CommitFrame
  <2>1. /\ handed_index \in Slots /\ released[handed_index] = counter[handed_index]
        /\ counter' = [counter EXCEPT ![handed_index] = counter[handed_index] + 1]
        /\ UNCHANGED <<released, image, gpu>>
    BY <1>0, <1>1, CommitFrameStep
  <2>2. ASSUME NEW k \in DOMAIN gpu, ReleaseWaitsAcquire
        PROVE  /\ gpu[k].point = counter'[gpu[k].slot]
               /\ released[gpu[k].slot] < gpu[k].point
    <3>1. PICK i \in Slots : i = gpu[k].slot
      BY <1>a
    <3>2. PICK p \in Nat : p = gpu[k].point
      BY <1>a
    <3>3. \/ p = counter[i] /\ released[i] < p
          \/ i = handed_index /\ p = counter[i] + 1
      BY <1>0, <2>2, <3>1, <3>2 DEF JobInv
    <3>4. CASE i = handed_index
      <4>1. counter'[i] = counter[i] + 1 /\ released[i] = counter[i]
        BY <1>0, <2>1, <3>4
      <4>2. counter[i] \in Nat
        BY <1>0
      <4> QED BY <3>1, <3>2, <3>3, <4>1, <4>2
    <3>5. CASE i # handed_index
      <4>1. counter'[i] = counter[i]
        BY <1>0, <2>1, <3>5
      <4> QED BY <3>1, <3>2, <3>3, <3>5, <4>1
    <3> QED BY <3>4, <3>5
  <2> QED BY <1>0, <2>1, <2>2 DEF JobInv
<1>2. CASE HandleResize
  <2>1. gpu' = <<>>
    BY <1>2 DEF HandleResize, kernel
  <2> QED BY <2>1 DEF JobInv
<1>3. CASE Submit
  <2> DEFINE new == [slot |-> handed_index, point |-> counter[handed_index] + 1,
                     image |-> image[handed_index]]
  <2>1. /\ gpu' = Append(gpu, new) /\ UNCHANGED <<counter, image, released>>
        /\ pc = "handed" /\ pc' = "submitted" /\ UNCHANGED handed_index
    BY <1>3 DEF Submit
  <2>2. handed_index \in Slots
    BY <2>1 DEF TypeOK, PlaceTypes
  <2>3. /\ new \in Job /\ new.slot = handed_index
        /\ new.point = counter[handed_index] + 1
        /\ new.image = image[handed_index]
    BY <1>0, <2>2 DEF Job
  <2> HIDE DEF new
  <2>4. /\ Len(Append(gpu, new)) = Len(gpu) + 1
        /\ DOMAIN Append(gpu, new) = 1 .. Len(gpu) + 1
        /\ \A k \in 1 .. Len(gpu) : Append(gpu, new)[k] = gpu[k]
        /\ Append(gpu, new)[Len(gpu) + 1] = new
    <3>1. /\ Append(gpu, new) \in Seq(Job)
          /\ Len(Append(gpu, new)) = Len(gpu) + 1
          /\ \A k \in 1 .. Len(gpu) : Append(gpu, new)[k] = gpu[k]
          /\ Append(gpu, new)[Len(gpu) + 1] = new
      BY <1>0, <2>3, AppendProperties
    <3> QED BY <3>1, LenProperties
  <2>5. \A k \in DOMAIN gpu : 
          /\ gpu[k].image = image[gpu[k].slot]
          /\ ReleaseWaitsAcquire =>
               gpu[k].point = counter[gpu[k].slot] /\ released[gpu[k].slot] < gpu[k].point
    BY <1>0, <2>1 DEF JobInv
  <2>6. SUFFICES ASSUME NEW k \in 1 .. Len(gpu) + 1
                 PROVE  LET job == Append(gpu, new)[k]
                        IN  /\ job.image = image[job.slot]
                            /\ ReleaseWaitsAcquire =>
                                 \/ job.point = counter[job.slot]
                                    /\ released[job.slot] < job.point
                                 \/ /\ job.slot = handed_index
                                    /\ job.point = counter[job.slot] + 1
    BY <2>1, <2>4 DEF JobInv
  <2>7. CASE k = Len(gpu) + 1
    BY <2>3, <2>4, <2>7
  <2>8. CASE k # Len(gpu) + 1
    <3>1. k \in DOMAIN gpu /\ Append(gpu, new)[k] = gpu[k]
      BY <1>0, <2>4, <2>8
    <3> QED BY <2>5, <3>1
  <2> QED BY <2>7, <2>8
<1>4. CASE GpuFinish
  <2>1. /\ gpu # <<>> /\ gpu' = Tail(gpu)
        /\ UNCHANGED <<counter, image, released, pc, handed_index>>
    BY <1>4 DEF GpuFinish, ring, control
  <2>2. /\ DOMAIN Tail(gpu) = 1 .. Len(gpu) - 1
        /\ \A k \in 1 .. Len(gpu) - 1 : Tail(gpu)[k] = gpu[k + 1]
    BY <1>0, <2>1, HeadTailProperties, LenProperties, EmptySeq
  <2>3. \A k \in 1 .. Len(gpu) - 1 : k + 1 \in DOMAIN gpu
    BY <1>0
  <2> QED BY <1>0, <2>1, <2>2, <2>3 DEF JobInv
<1>5. CASE \E h \in DOMAIN held : Release(h)
  <2>1. PICK h \in DOMAIN held :
          /\ ReleaseWaitsAcquire => AcquireSignalled(held[h].slot, held[h].point)
          /\ released' = [released EXCEPT ![held[h].slot] = held[h].point]
          /\ UNCHANGED <<gpu, counter, image, pc, handed_index>>
    BY <1>5 DEF Release, ring, control
  <2>2. held[h] \in InFlight /\ held[h].slot \in Slots
    <3>1. held \in Seq(Commit)
      BY DEF TypeOK, QueueTypes
    <3>2. h \in 1 .. Len(held)
      BY <2>1, <3>1, LenProperties
    <3>3. held[h] \in Commit
      BY <3>1, <3>2, ElementOfSeq
    <3> QED BY <2>1, <3>3 DEF InFlight, CommitsIn, Commit
  <2>3. held[h].point = counter[held[h].slot]
    BY <1>0, <2>2 DEF CommitInv
  <2>4. ASSUME NEW k \in DOMAIN gpu, ReleaseWaitsAcquire,
               gpu[k].point = counter[gpu[k].slot]
        PROVE  released'[gpu[k].slot] = released[gpu[k].slot]
    <3>1. ~(gpu[k].slot = held[h].slot /\ gpu[k].point = held[h].point)
      BY <2>1, <2>4 DEF AcquireSignalled
    <3>2. gpu[k].slot # held[h].slot
      BY <2>3, <2>4, <3>1
    <3> QED BY <1>0, <1>a, <2>1, <2>2, <3>2
  <2> QED BY <1>0, <2>1, <2>4 DEF JobInv
<1>6. CASE ~CommitFrame /\ ~HandleResize /\ ~Submit /\ ~GpuFinish
             /\ ~(\E h \in DOMAIN held : Release(h))
  BY <1>0, <1>6, JobFrame DEF JobInv
<1> QED BY <1>1, <1>2, <1>3, <1>4, <1>5, <1>6

LEMMA FenceStep == TypeOK /\ Inv /\ Next => FenceInv'
<1> SUFFICES ASSUME TypeOK, FenceInv, Next PROVE FenceInv'
  BY DEF Inv
<1>0. /\ fence \in [Slots -> BOOLEAN]
      /\ pc \in {"handed", "submitted"} => handed_index \in Slots
  BY DEF TypeOK, WindowTypes, PlaceTypes
<1>1. CASE Submit
  <2>1. /\ fence' = [fence EXCEPT ![handed_index] = TRUE]
        /\ pc = "handed" /\ pc' = "submitted" /\ UNCHANGED handed_index
    BY <1>1 DEF Submit
  <2>2. \A i \in Slots : fence'[i] => i = handed_index
    BY <1>0, <2>1 DEF FenceInv
  <2> QED BY <2>1, <2>2 DEF FenceInv
<1>2. CASE CommitFrame
  <2>1. fence' = [fence EXCEPT ![handed_index] = FALSE] /\ handed_index \in Slots
    BY <1>0, <1>2 DEF CommitFrame
  <2>2. \A i \in Slots : ~fence'[i]
    BY <1>0, <2>1 DEF FenceInv
  <2> QED BY <2>2 DEF FenceInv
<1>3. CASE HandleResize
  <2>1. UNCHANGED fence /\ pc = "resize"
    BY <1>3 DEF HandleResize
  <2> QED BY <2>1 DEF FenceInv
<1>4. CASE GpuFinish \/ \E k \in DOMAIN held : Release(k)
  <2>1. UNCHANGED <<fence, pc, handed_index>>
    BY <1>4 DEF GpuFinish, Release, ring, control
  <2> QED BY <2>1 DEF FenceInv
<1>5. CASE /\ ~Submit /\ ~CommitFrame /\ ~HandleResize /\ ~GpuFinish
           /\ ~(\E k \in DOMAIN held : Release(k))
  <2>1. UNCHANGED fence
    BY <1>5 DEF Next, Client, Compositor, Handler, WaitFrame, ReapEntry, ReapDone,
       Gate, PollReturn, ArmFrame, HandOut, AwaitRelease, DrainReturn, FrameDone,
       ToplevelConfigure, ToplevelClose, PresentationAnswered, Dispatch, SkipFrame,
       Quit, Fail, Resume, ReceiveFrame, ReceiveCommit, FireFrame, AnswerFeedback,
       SendConfigure, SendClose, Terminated, vars, ring
  <2>2. pc \in {"submitted", "failed"} =>
          pc' \in {"submitted", "failed"} /\ UNCHANGED handed_index
    BY <1>5, JobFrame
  <2> QED BY <2>1, <2>2 DEF FenceInv
<1> QED BY <1>1, <1>2, <1>3, <1>4, <1>5

----------------------------------------------------------------------------
(* The invariant and what follows from it.                                 *)

LEMMA InvInit == Init => Inv
<1> SUFFICES ASSUME Init PROVE Inv
  OBVIOUS
<1>1. /\ out = <<>> /\ wire = <<>> /\ held = <<>> /\ gpu = <<>>
      /\ counter = [i \in Slots |-> 0] /\ released = [i \in Slots |-> 0]
      /\ handed_index = NoFrame /\ fence = [i \in Slots |-> FALSE]
  BY DEF Init
<1>2. InFlight = {}
  BY <1>1 DEF InFlight, CommitsIn
<1>3. OneCommitPerSlot
  BY <1>1, EmptyApart DEF OneCommitPerSlot, Distinct, Apart
<1> QED BY <1>1, <1>2, <1>3 DEF Inv, TurnInv, CommitInv, JobInv, FenceInv

LEMMA InvStep == TypeOK /\ Inv /\ [Next]_vars => Inv'
<1> SUFFICES ASSUME TypeOK, Inv, [Next]_vars PROVE Inv'
  OBVIOUS
<1>1. CASE Next
  BY <1>1, TurnStep, CommitStep, OneCommitStep, JobStep, FenceStep DEF Inv
<1>2. CASE UNCHANGED vars
  BY <1>2 DEF vars, ring, control, kernel, remote, socket, Inv, TurnInv, CommitInv,
     InFlight, CommitsIn, OneCommitPerSlot, Distinct, Apart, JobInv, FenceInv
<1> QED BY <1>1, <1>2

\* The inductive invariant holds for every buffer count, with and without
\* failures, skipped frames and a compositor that releases early.
THEOREM Invariance == Spec => []Inv
<1>1. TypeOK /\ Inv /\ [Next]_vars => (TypeOK /\ Inv)'
  BY TypeStep, InvStep
<1> QED BY <1>1, TypeInit, InvInit, PTL DEF Spec

\* A frame that wait_frame lends can be rendered into at once, for every buffer
\* count: its slot has no unreleased commit and no pending GPU work.
THEOREM HandedFrameSafety == Spec => []HandedFrameIdle
<1>1. TypeOK /\ Inv => HandedFrameIdle
  <2> SUFFICES ASSUME TypeOK, Inv, pc = "handed"
               PROVE  /\ \A c \in InFlight : c.slot # handed_index
                      /\ ~fence[handed_index]
                      /\ ReleaseWaitsAcquire =>
                           \A k \in DOMAIN gpu : gpu[k].slot # handed_index
    BY DEF HandedFrameIdle
  <2>1. /\ handed_index \in Slots /\ handed_index # NoFrame
        /\ counter \in [Slots -> Nat] /\ released \in [Slots -> Nat]
        /\ gpu \in Seq(Job)
    <3>1. handed_index \in Slots
      BY DEF TypeOK, PlaceTypes
    <3>2. handed_index # NoFrame
      BY <3>1, LoopAssumption DEF Slots, NoFrame
    <3> QED BY <3>1, <3>2 DEF TypeOK, SlotTypes, QueueTypes
  <2>2. released[handed_index] = counter[handed_index]
    BY <2>1 DEF Inv, TurnInv
  <2>3. counter[handed_index] \in Nat
    BY <2>1
  <2>4. ASSUME NEW c \in InFlight, c.slot = handed_index
        PROVE  FALSE
    <3>1. c.point = counter[handed_index] /\ released[handed_index] < c.point
      BY <2>4 DEF Inv, CommitInv
    <3> QED BY <2>2, <2>3, <3>1
  <2>5. ASSUME NEW k \in DOMAIN gpu, ReleaseWaitsAcquire, gpu[k].slot = handed_index
        PROVE  FALSE
    <3>1. gpu[k].point = counter[handed_index] /\ released[handed_index] < gpu[k].point
      BY <2>5 DEF Inv, JobInv
    <3> QED BY <2>2, <2>3, <3>1
  <2>6. ~fence[handed_index]
    BY <2>1 DEF Inv, FenceInv
  <2> QED BY <2>4, <2>5, <2>6
<1> QED BY <1>1, TypeCorrect, Invariance, PTL

\* No image the compositor or the GPU may still read is destroyed, for every
\* buffer count and any number of resizes, even if releases come early.
THEOREM ScanoutSafety == Spec => []ScanoutImageAlive
<1>1. Inv => ScanoutImageAlive
  BY DEF Inv, CommitInv, JobInv, ScanoutImageAlive
<1> QED BY <1>1, Invariance, PTL

----------------------------------------------------------------------------
(* Refinement: with the owner of a slot read off handed_index, counter and *)
(* the release timeline, every step of the loop is a step of the pool or   *)
(* none at all.                                                            *)

Owners == [i \in Slots |-> Owner(i)]

LEMMA PoolOperators ==
  /\ Pool!Slots = Slots
  /\ Pool!vars = <<Owners, next_frame>>
  /\ \A i : Pool!Successor(i) = (i + 1) % BufferCount
BY DEF Pool!Slots, Slots, Pool!vars, Owners, Pool!Successor

LEMMA PoolInit == Init => Pool!Init
<1> SUFFICES ASSUME Init PROVE Pool!Init
  OBVIOUS
<1>1. \A i \in Slots : Owner(i) = "free"
  <2> SUFFICES ASSUME NEW i \in Slots PROVE Owner(i) = "free"
    OBVIOUS
  <2>1. handed_index = NoFrame /\ i # NoFrame
    BY LoopAssumption DEF Init, Slots, NoFrame
  <2>2. released[i] = 0 /\ counter[i] = 0
    BY DEF Init
  <2> QED BY <2>1, <2>2 DEF Owner
<1>2. next_frame = 0
  BY DEF Init
<1> QED BY <1>1, <1>2 DEF Pool!Init, Pool!Slots, Slots

\* When one slot changes hands the map of the owners changes there only.
LEMMA OwnersExcept ==
  ASSUME NEW s \in Slots, \A i \in Slots : i # s => Owner(i)' = Owner(i)
  PROVE  Owners' = [Owners EXCEPT ![s] = Owner(s)']
BY DEF Owners, Slots

LEMMA PoolStep ==
  ASSUME TypeOK, Inv, [Next]_vars
  PROVE  [Pool!Next]_(Pool!vars)
<1>0. /\ TurnInv
      /\ counter \in [Slots -> Nat] /\ released \in [Slots -> Nat]
      /\ next_frame \in Slots
      /\ handed_index \in {NoFrame, next_frame}
      /\ \A i \in Slots : i # NoFrame
  <2>1. /\ counter \in [Slots -> Nat] /\ released \in [Slots -> Nat]
        /\ next_frame \in Slots
    BY DEF TypeOK, SlotTypes
  <2>2. \A i \in Slots : i # NoFrame
    BY LoopAssumption DEF Slots, NoFrame
  <2> QED BY <2>1, <2>2 DEF Inv, TurnInv
<1>s. PICK s \in Slots : s = next_frame
  BY <1>0
<1>1. CASE HandOut
  <2>1. /\ UNCHANGED <<counter, released, next_frame>> /\ handed_index' = s
        /\ counter[s] = 0 \/ released[s] >= counter[s]
    BY <1>1, <1>s DEF HandOut, SlotReady, WaitReleasePoint, kernel
  <2>2. ~(released[s] < counter[s])
    BY <1>0, <2>1
  <2>3. \A i \in Slots : i # s => Owner(i)' = Owner(i)
    BY <1>0, <1>s, <2>1 DEF Owner
  <2>4. Owner(s)' = "app"
    BY <2>1 DEF Owner
  <2>5. CASE handed_index = s
    <3>1. Owner(s) = "app"
      BY <2>5 DEF Owner
    <3>2. \A i \in Slots : Owner(i)' = Owner(i)
      BY <2>3, <2>4, <3>1
    <3>3. Owners' = Owners
      BY <3>2 DEF Owners, Slots
    <3> QED BY <2>1, <3>3, PoolOperators DEF Pool!vars, Owners
  <2>6. CASE handed_index = NoFrame
    <3>1. Owner(s) = "free"
      BY <1>0, <2>2, <2>6 DEF Owner
    <3>2. Owners' = [Owners EXCEPT ![s] = "app"]
      BY <2>3, <2>4, OwnersExcept
    <3>3. Pool!Acquire(s)
      BY <1>s, <2>1, <3>1, <3>2 DEF Pool!Acquire, Owners
    <3> QED BY <3>3, PoolOperators DEF Pool!Next
  <2> QED BY <1>0, <1>s, <2>5, <2>6
<1>2. CASE CommitFrame
  <2>1. /\ handed_index = s
        /\ released[s] = counter[s]
        /\ counter' = [counter EXCEPT ![s] = counter[s] + 1]
        /\ released' = released /\ handed_index' = NoFrame
    BY <1>0, <1>2, <1>s, CommitFrameStep
  <2>2. next_frame' = (next_frame + 1) % BufferCount
    BY <1>2 DEF CommitFrame, Successor
  <2>3. Owner(s) = "app"
    BY <2>1 DEF Owner
  <2>4. \A i \in Slots : i # s => Owner(i)' = Owner(i)
    BY <1>0, <2>1 DEF Owner
  <2>5. Owner(s)' = "display"
    <3>1. counter'[s] = counter[s] + 1 /\ counter[s] \in Nat
      BY <1>0, <2>1
    <3>2. released'[s] < counter'[s] /\ handed_index' # s
      BY <1>0, <2>1, <3>1
    <3> QED BY <3>2 DEF Owner
  <2>6. Owners' = [Owners EXCEPT ![s] = "display"]
    BY <2>4, <2>5, OwnersExcept
  <2>7. Pool!Present(s)
    BY <1>s, <2>2, <2>3, <2>6, PoolOperators DEF Pool!Present, Owners
  <2> QED BY <2>7, PoolOperators DEF Pool!Next
<1>3. CASE HandleResize
  <2>1. UNCHANGED <<counter, released, next_frame>> /\ handed_index' = NoFrame
    BY <1>3 DEF HandleResize, kernel
  <2>2. \A i \in Slots : i # s => Owner(i)' = Owner(i)
    BY <1>0, <1>s, <2>1 DEF Owner
  <2>3. CASE handed_index = s
    <3>1. released[s] = counter[s]
      BY <1>0, <1>s, <2>3 DEF TurnInv
    <3>2. counter[s] \in Nat
      BY <1>0
    <3>3. Owner(s) = "app"
      BY <2>3 DEF Owner
    <3>4. Owner(s)' = "free"
      BY <1>0, <2>1, <3>1, <3>2 DEF Owner
    <3>5. Owners' = [Owners EXCEPT ![s] = "free"]
      BY <2>2, <3>4, OwnersExcept
    <3>6. Pool!Revoke(s)
      BY <2>1, <3>3, <3>5 DEF Pool!Revoke, Owners
    <3> QED BY <3>6, PoolOperators DEF Pool!Next
  <2>4. CASE handed_index = NoFrame
    <3>1. \A i \in Slots : Owner(i)' = Owner(i)
      BY <1>0, <2>1, <2>4 DEF Owner
    <3>2. Owners' = Owners
      BY <3>1 DEF Owners, Slots
    <3> QED BY <2>1, <3>2, PoolOperators DEF Pool!vars, Owners
  <2> QED BY <1>0, <1>s, <2>3, <2>4
<1>4. CASE \E k \in DOMAIN held : Release(k)
  <2>1. PICK k \in DOMAIN held : Release(k)
    BY <1>4
  <2>2. held[k] \in InFlight /\ held[k] \in Commit
    <3>1. held[k] \in InFlight
      BY <2>1, ReleaseStep DEF Inv
    <3>2. held \in Seq(Commit) /\ k \in 1 .. Len(held)
      BY LenProperties DEF TypeOK, QueueTypes
    <3> QED BY <3>1, <3>2, ElementOfSeq
  <2>3. PICK r \in Slots : r = held[k].slot
    BY <2>2 DEF Commit
  <2>4. held[k].point = counter[r] /\ released[r] < counter[r]
    BY <2>2, <2>3 DEF Inv, CommitInv
  <2>5. /\ released' = [released EXCEPT ![r] = counter[r]]
        /\ UNCHANGED <<counter, handed_index, next_frame>>
    BY <2>1, <2>3, <2>4 DEF Release, ring
  <2>6. handed_index # r
    <3>1. counter[r] \in Nat
      BY <1>0
    <3> QED BY <1>0, <2>4, <3>1 DEF TurnInv
  <2>7. Owner(r) = "display"
    BY <2>4, <2>6 DEF Owner
  <2>8. Owner(r)' = "free"
    <3>1. released'[r] = counter[r] /\ counter[r] \in Nat
      BY <1>0, <2>5
    <3> QED BY <2>5, <2>6, <3>1 DEF Owner
  <2>9. \A i \in Slots : i # r => Owner(i)' = Owner(i)
    BY <1>0, <2>5 DEF Owner
  <2>10. Owners' = [Owners EXCEPT ![r] = "free"]
    BY <2>8, <2>9, OwnersExcept
  <2>11. Pool!Release(r)
    BY <2>5, <2>7, <2>10 DEF Pool!Release, Owners
  <2> QED BY <2>11, PoolOperators DEF Pool!Next
<1>5. CASE \/ Next /\ ~HandOut /\ ~CommitFrame /\ ~HandleResize
                   /\ ~(\E k \in DOMAIN held : Release(k))
           \/ UNCHANGED vars
  <2>1. UNCHANGED <<counter, released, next_frame, handed_index>>
    <3>1. CASE UNCHANGED vars
      BY <3>1 DEF vars, ring, kernel
    <3>2. CASE ~UNCHANGED vars
      BY <1>5, <3>2, RingFrame, HandedFrame
    <3> QED BY <3>1, <3>2
  <2>2. \A i \in Slots : Owner(i)' = Owner(i)
    BY <2>1 DEF Owner
  <2>3. Owners' = Owners
    BY <2>2 DEF Owners, Slots
  <2> QED BY <2>1, <2>3, PoolOperators DEF Pool!vars, Owners
<1> QED BY <1>1, <1>2, <1>3, <1>4, <1>5

\* The loop implements the pool for every buffer count, with skipped frames,
\* failures and releases in any order.
THEOREM Refinement == Spec => PoolSpec
<1> QED BY PoolInit, PoolStep, TypeCorrect, Invariance, PTL DEF Spec, PoolSpec, Pool!Spec

----------------------------------------------------------------------------
(* The bound of retired_.                                                  *)

\* How many turns after that of the slot turn the turn of slot i comes.
Distance(i, turn) == IF i >= turn THEN i - turn ELSE i - turn + BufferCount

\* The slot whose turn came last.
Previous == IF next_frame = 0 THEN BufferCount - 1 ELSE next_frame - 1

\* The later the turn of its slot, the fewer resizes an entry has seen.
Ages(turn, most) ==
  \A k \in DOMAIN retired :
    (generation - retired[k].image) + Distance(retired[k].slot, turn) <= most

\* An entry was built before the current images and its point was committed.
EntryInv ==
  \A k \in DOMAIN retired :
    /\ retired[k].image < generation
    /\ retired[k].counter <= counter[retired[k].slot]

\* A slot retires one image of a generation.
EntryOnce ==
  \A j, k \in DOMAIN retired :
    retired[j].slot = retired[k].slot /\ retired[j].image = retired[k].image => j = k

\* What the slot presented last has retired is free, and reap_retired finds it.
FreedInv ==
  pc \in {"app", "reap"} =>
    /\ Ages(Previous, BufferCount)
    /\ \A k \in DOMAIN retired : retired[k].slot = Previous =>
         /\ retired[k].counter <= released[Previous]
         /\ pc = "reap" => k >= it

Waiting == {"gate", "poll", "resize"}
Served  == {"arm", "release", "drain", "handed", "submitted", "failed"}

AgesInv ==
  /\ pc \in Waiting => Ages(next_frame, BufferCount - 1)
  /\ pc \in Served => Ages(next_frame, BufferCount)
  /\ pc = "done" => \E turn \in Slots : Ages(turn, BufferCount)

\* The inductive invariant when no call fails and every frame is presented.
RetiredInv ==
  /\ \A i \in Slots : image[i] = generation
  /\ generation # 0
  /\ pc # "threw"
  /\ EntryInv /\ EntryOnce /\ FreedInv /\ AgesInv

RetiredTypes ==
  /\ BufferCount \in Nat \ {0} /\ Slots = 0 .. BufferCount - 1
  /\ generation \in Nat /\ next_frame \in Slots
  /\ counter \in [Slots -> Nat] /\ released \in [Slots -> Nat]
  /\ retired \in Seq(Retired) /\ Len(retired) \in Nat
  /\ DOMAIN retired = 1 .. Len(retired)
  /\ \A k \in DOMAIN retired :
       /\ retired[k].slot \in Slots
       /\ retired[k].counter \in Nat /\ retired[k].image \in Nat

LEMMA RetiredTypesHold == TypeOK => RetiredTypes
<1> SUFFICES ASSUME TypeOK PROVE RetiredTypes
  OBVIOUS
<1>1. retired \in Seq(Retired)
  BY DEF TypeOK, SlotTypes
<1>2. Len(retired) \in Nat /\ DOMAIN retired = 1 .. Len(retired)
  BY <1>1, LenProperties
<1>3. ASSUME NEW k \in DOMAIN retired
      PROVE  retired[k].slot \in Slots /\ retired[k].counter \in Nat
               /\ retired[k].image \in Nat
  <2>1. retired[k] \in Retired
    BY <1>1, <1>2, ElementOfSeq
  <2> QED BY <2>1 DEF Retired
<1> QED BY <1>1, <1>2, <1>3, LoopAssumption DEF TypeOK, SlotTypes, RetiredTypes, Slots

\* The steps that leave the ring where it is, less the releases.
LEMMA RetiredFrame ==
  ASSUME [Next]_vars, ~CommitFrame, ~HandleResize, ~ReapEntry
  PROVE  UNCHANGED <<image, counter, retired, generation, next_frame>>
BY DEF Next, Client, Compositor, Handler, WaitFrame, ReapDone, Gate, PollReturn,
   ArmFrame, HandOut, AwaitRelease, DrainReturn, FrameDone, ToplevelConfigure,
   ToplevelClose, PresentationAnswered, Dispatch, Submit, SkipFrame, Quit, Fail,
   Resume, GpuFinish, ReceiveFrame, ReceiveCommit, Release, FireFrame,
   AnswerFeedback, SendConfigure, SendClose, Terminated, vars, ring

\* Release timelines only advance.
LEMMA ReleasedGrows ==
  ASSUME TypeOK, Inv, [Next]_vars
  PROVE  \A i \in Slots : released[i] <= released'[i]
<1>0. released \in [Slots -> Nat]
  BY DEF TypeOK, SlotTypes
<1>1. CASE \E k \in DOMAIN held : Release(k)
  <2>1. PICK k \in DOMAIN held : Release(k)
    BY <1>1
  <2>2. held[k] \in InFlight /\ held[k].slot \in Slots /\ held[k].point \in Nat
    <3>1. held[k] \in Commit
      BY <2>1, LenProperties, ElementOfSeq DEF TypeOK, QueueTypes
    <3>2. held[k] \in InFlight
      BY <2>1, ReleaseStep DEF Inv
    <3> QED BY <3>1, <3>2 DEF Commit
  <2>3. released[held[k].slot] < held[k].point
    BY <2>2 DEF Inv, CommitInv
  <2>4. released' = [released EXCEPT ![held[k].slot] = held[k].point]
    BY <2>1 DEF Release
  <2> QED BY <1>0, <2>2, <2>3, <2>4
<1>2. CASE CommitFrame
  BY <1>0, <1>2 DEF CommitFrame, kernel
<1>3. CASE ~(\E k \in DOMAIN held : Release(k)) /\ ~CommitFrame
  <2>1. released' = released
    BY <1>3, RingFrame DEF vars, kernel
  <2> QED BY <1>0, <2>1
<1> QED BY <1>1, <1>2, <1>3

\* The client's place moves within a phase of wait_frame, or as these steps say.
LEMMA RetiredPlaces ==
  ASSUME ~MayFail, ~SkipAllowed, TypeOK, RetiredInv, [Next]_vars,
         ~CommitFrame, ~HandleResize, ~ReapEntry
  PROVE  \/ UNCHANGED <<pc, it>>
         \/ pc = "app" /\ pc' = "reap" /\ it' = 1
         \/ pc = "app" /\ pc' = "done"
         \/ pc = "reap" /\ pc' = "gate" /\ it > Len(retired)
         \/ pc \in Waiting /\ pc' \in Waiting \cup Served \cup {"done"}
         \/ pc \in Served /\ pc' \in Served \cup {"done"}
<1>1. CASE SkipFrame
  <2>1. image[handed_index] = generation /\ image[handed_index] = NoImage
    BY <1>1 DEF SkipFrame, RetiredInv, TypeOK, PlaceTypes
  <2> QED BY <2>1 DEF NoImage, RetiredInv
<1>2. CASE WaitFrame \/ ReapDone \/ Gate \/ PollReturn
  BY <1>2 DEF WaitFrame, ReapDone, Gate, PollReturn, Waiting, Served
<1>3. CASE ArmFrame \/ HandOut \/ AwaitRelease \/ DrainReturn \/ Submit
  BY <1>3 DEF ArmFrame, HandOut, AwaitRelease, DrainReturn, AfterDrain, Submit,
     Waiting, Served
<1>4. CASE Quit \/ Fail \/ Resume
  BY <1>4 DEF Quit, Fail, Resume, RetiredInv
<1>5. CASE Handler \/ GpuFinish \/ Compositor \/ UNCHANGED vars
  BY <1>5 DEF Handler, FrameDone, ToplevelConfigure, ToplevelClose,
     PresentationAnswered, Dispatch, GpuFinish, Compositor, ReceiveFrame,
     ReceiveCommit, Release, FireFrame, AnswerFeedback, SendConfigure, SendClose,
     vars, control
<1> QED BY <1>1, <1>2, <1>3, <1>4, <1>5 DEF Next, Client, Terminated

\* Turning the ring on by one brings every other slot's turn one nearer.
LEMMA DistanceTurn ==
  ASSUME RetiredTypes, NEW i \in Slots
  PROVE  /\ Distance(i, next_frame) \in 0 .. BufferCount - 1
         /\ Previous \in Slots
         /\ Distance(i, Previous) =
              IF i = Previous THEN 0 ELSE Distance(i, next_frame) + 1
BY DEF RetiredTypes, Distance, Previous

LEMMA FrameRetired ==
  ASSUME ~MayFail, ~SkipAllowed, TypeOK, Inv, RetiredInv, [Next]_vars,
         ~CommitFrame, ~HandleResize, ~ReapEntry
  PROVE  RetiredInv'
<1>0. RetiredTypes /\ released' \in [Slots -> Nat]
  BY TypeStep, RetiredTypesHold DEF TypeOK, SlotTypes
<1>1. UNCHANGED <<image, counter, retired, generation, next_frame>>
  BY RetiredFrame
<1>2. /\ UNCHANGED Previous
      /\ \A turn, most : Ages(turn, most)' = Ages(turn, most)
  BY <1>1 DEF Previous, Ages, Distance
<1>3. (\A i \in Slots : image[i] = generation)' /\ (generation # 0)' /\ EntryInv' /\ EntryOnce'
  BY <1>1 DEF RetiredInv, EntryInv, EntryOnce
<1>4. /\ pc' # "threw"
      /\ pc' \in {"app", "reap"} => pc \in {"app", "reap"}
      /\ pc' = "reap" => it' = 1 \/ (pc = "reap" /\ it' = it)
  <2>1. pc # "threw"
    BY DEF RetiredInv
  <2>2. \/ pc' = pc /\ it' = it
        \/ pc = "app" /\ pc' = "reap" /\ it' = 1
        \/ pc' \notin {"app", "reap", "threw"}
    BY RetiredPlaces DEF Waiting, Served
  <2> QED BY <2>1, <2>2
<1>5. FreedInv'
  <2> SUFFICES ASSUME pc' \in {"app", "reap"}
               PROVE  /\ Ages(Previous, BufferCount)'
                      /\ \A k \in DOMAIN retired' : retired'[k].slot = Previous' =>
                           /\ retired'[k].counter <= released'[Previous']
                           /\ pc' = "reap" => k >= it'
    BY DEF FreedInv
  <2>1. FreedInv /\ pc \in {"app", "reap"}
    BY <1>4 DEF RetiredInv
  <2>2. ASSUME NEW k \in DOMAIN retired, retired[k].slot = Previous
        PROVE  /\ retired[k].counter <= released'[Previous]
               /\ pc' = "reap" => k >= it'
    <3>1. retired[k].counter <= released[Previous] /\ (pc = "reap" => k >= it)
      BY <2>1, <2>2 DEF FreedInv
    <3>2. /\ Previous \in Slots /\ k \in Nat /\ k >= 1
          /\ retired[k].counter \in Nat
          /\ released[Previous] \in Nat /\ released'[Previous] \in Nat
      <4>1. Previous \in Slots
        BY <1>0, SMTT(30) DEF RetiredTypes, Previous
      <4> QED BY <1>0, <2>2, <4>1 DEF RetiredTypes
    <3>3. released[Previous] <= released'[Previous]
      BY <3>2, ReleasedGrows
    <3> QED BY <1>4, <3>1, <3>2, <3>3
  <2> QED BY <1>1, <1>2, <2>1, <2>2 DEF FreedInv
<1>6. AgesInv'
  <2>1. \A turn \in Slots : Ages(turn, BufferCount - 1) => Ages(turn, BufferCount)
    <3> SUFFICES ASSUME NEW turn \in Slots, Ages(turn, BufferCount - 1), NEW k \in DOMAIN retired
                 PROVE  (generation - retired[k].image)
                           + Distance(retired[k].slot, turn) <= BufferCount
      BY DEF Ages
    <3> DEFINE a == (generation - retired[k].image) + Distance(retired[k].slot, turn)
    <3>1. a <= BufferCount - 1
      BY DEF Ages
    <3>2. a \in Int /\ BufferCount \in Nat
      <4>1. /\ generation \in Nat /\ retired[k].image \in Nat
            /\ retired[k].slot \in Int /\ turn \in Int /\ BufferCount \in Nat
        BY <1>0 DEF RetiredTypes
      <4> QED BY <4>1 DEF Distance
    <3> QED BY <3>1, <3>2
  <2>2. CASE UNCHANGED <<pc, it>>
    BY <1>1, <1>2, <2>2 DEF RetiredInv, AgesInv
  <2>3. CASE pc = "app" /\ pc' = "reap"
    BY <2>3 DEF AgesInv, Waiting, Served
  <2>4. CASE pc = "app" /\ pc' = "done"
    <3>1. Ages(Previous, BufferCount) /\ Previous \in Slots
      BY <1>0, <2>4, DistanceTurn DEF RetiredInv, FreedInv, RetiredTypes
    <3> QED BY <1>2, <2>4, <3>1 DEF AgesInv, Waiting, Served
  <2>5. CASE pc = "reap" /\ pc' = "gate" /\ it > Len(retired)
    <3>1. Ages(next_frame, BufferCount - 1)
      <4> SUFFICES ASSUME NEW k \in DOMAIN retired
                   PROVE  (generation - retired[k].image)
                             + Distance(retired[k].slot, next_frame) <= BufferCount - 1
        BY DEF Ages
      <4>1. retired[k].slot # Previous
        <5>1. ~(k >= it)
          BY <1>0, <2>5 DEF RetiredTypes, TypeOK, SlotTypes
        <5> QED BY <2>5, <5>1 DEF RetiredInv, FreedInv
      <4>2. (generation - retired[k].image) + Distance(retired[k].slot, Previous)
              <= BufferCount
        BY <2>5 DEF RetiredInv, FreedInv, Ages
      <4>3. /\ Distance(retired[k].slot, Previous) = Distance(retired[k].slot, next_frame) + 1
            /\ Distance(retired[k].slot, next_frame) \in Nat
        <5>1. retired[k].slot \in Slots /\ BufferCount \in Nat
          BY <1>0 DEF RetiredTypes
        <5> QED BY <1>0, <4>1, <5>1, DistanceTurn
      <4>4. generation \in Nat /\ retired[k].image \in Nat /\ BufferCount \in Nat
        BY <1>0 DEF RetiredTypes
      <4> HIDE DEF Distance
      <4> QED BY <4>2, <4>3, <4>4
    <3> QED BY <1>1, <1>2, <2>5, <3>1 DEF AgesInv, Waiting, Served
  <2>6. CASE pc \in Waiting /\ pc' \in Waiting \cup Served \cup {"done"}
    <3>1. next_frame \in Slots
      BY <1>0 DEF RetiredTypes
    <3>2. Ages(next_frame, BufferCount - 1) /\ Ages(next_frame, BufferCount)
      BY <2>1, <2>6, <3>1 DEF RetiredInv, AgesInv
    <3> QED BY <1>1, <1>2, <3>1, <3>2 DEF AgesInv
  <2>7. CASE pc \in Served /\ pc' \in Served \cup {"done"}
    <3>1. Ages(next_frame, BufferCount) /\ next_frame \in Slots
      BY <1>0, <2>7 DEF RetiredInv, AgesInv, RetiredTypes
    <3>2. pc' \notin Waiting
      BY <2>7 DEF Waiting, Served
    <3> QED BY <1>1, <1>2, <3>1, <3>2 DEF AgesInv
  <2> QED BY <2>2, <2>3, <2>4, <2>5, <2>6, <2>7, RetiredPlaces
<1> QED BY <1>3, <1>4, <1>5, <1>6 DEF RetiredInv

LEMMA PresentRetired ==
  ASSUME TypeOK, Inv, RetiredInv, CommitFrame
  PROVE  RetiredInv'
<1>0. RetiredTypes
  BY RetiredTypesHold
<1>1. /\ handed_index = next_frame
      /\ released[next_frame] = counter[next_frame]
      /\ counter' = [counter EXCEPT ![next_frame] = counter[next_frame] + 1]
      /\ UNCHANGED <<image, retired, released, generation>>
      /\ pc = "submitted" /\ pc' = "app"
      /\ next_frame' = Successor(next_frame)
  BY CommitFrameStep DEF Inv, CommitFrame
<1>2. Previous' = next_frame
  <2>1. /\ BufferCount \in Nat \ {0} /\ next_frame \in 0 .. BufferCount - 1
        /\ next_frame' = (next_frame + 1) % BufferCount
    BY <1>0, <1>1 DEF Successor, RetiredTypes
  <2>2. CASE next_frame = BufferCount - 1
    <3>1. next_frame' = 0
      BY <2>1, <2>2
    <3> QED BY <2>1, <2>2, <3>1 DEF Previous
  <2>3. CASE next_frame # BufferCount - 1
    <3>1. next_frame' = next_frame + 1
      BY <2>1, <2>3
    <3> QED BY <2>1, <3>1 DEF Previous
  <2> QED BY <2>2, <2>3
<1>3. EntryInv'
  BY <1>0, <1>1 DEF RetiredInv, EntryInv, RetiredTypes
<1>4. EntryOnce' /\ (\A i \in Slots : image[i] = generation)' /\ (generation # 0)'
  BY <1>1 DEF RetiredInv, EntryOnce
<1>5. FreedInv'
  <2>1. Ages(next_frame, BufferCount)
    BY <1>1 DEF RetiredInv, AgesInv, Served
  <2>2. Ages(Previous, BufferCount)'
    BY <1>1, <1>2, <2>1 DEF Ages, Distance
  <2>3. \A k \in DOMAIN retired : retired[k].slot = next_frame =>
          retired[k].counter <= released[next_frame]
    BY <1>1 DEF RetiredInv, EntryInv
  <2> QED BY <1>1, <1>2, <2>2, <2>3 DEF FreedInv
<1>6. AgesInv' /\ pc' # "threw"
  BY <1>1 DEF AgesInv, Waiting, Served
<1> QED BY <1>3, <1>4, <1>5, <1>6 DEF RetiredInv

LEMMA ReapRetired ==
  ASSUME TypeOK, RetiredInv, ReapEntry
  PROVE  RetiredInv'
<1>0. RetiredTypes /\ it \in Nat \ {0}
  BY RetiredTypesHold DEF TypeOK, SlotTypes
<1>1. /\ UNCHANGED <<image, counter, generation, next_frame, released, pc>>
      /\ pc = "reap" /\ it <= Len(retired) /\ it \in 1 .. Len(retired)
      /\ UNCHANGED Previous
  BY <1>0 DEF ReapEntry, kernel, Previous, RetiredTypes
<1>2. CASE ~Reapable(retired[it]) /\ retired' = retired /\ it' = it + 1
  <2>1. retired[it].slot # Previous
    BY <1>1, <1>2 DEF RetiredInv, FreedInv, Reapable, WaitReleasePoint, RetiredTypes
  <2>2. FreedInv'
    <3>1. ASSUME NEW k \in DOMAIN retired, retired[k].slot = Previous
          PROVE  k >= it + 1
      <4>1. k >= it /\ k # it /\ k \in Nat
        BY <1>0, <1>1, <2>1, <3>1 DEF RetiredInv, FreedInv, RetiredTypes
      <4> QED BY <1>0, <4>1
    <3> QED BY <1>1, <1>2, <3>1 DEF RetiredInv, FreedInv, Ages, Distance
  <2>3. EntryInv' /\ EntryOnce' /\ AgesInv'
    BY <1>1, <1>2 DEF RetiredInv, EntryInv, EntryOnce, AgesInv, Waiting, Served
  <2> QED BY <1>1, <2>2, <2>3 DEF RetiredInv
<1>3. CASE retired' = RemoveAt(retired, it) /\ it' = it
  <2> DEFINE old(k) == IF k < it THEN k ELSE k + 1
  <2>1. /\ DOMAIN retired' = 1 .. Len(retired) - 1
        /\ \A k \in 1 .. Len(retired) - 1 : retired'[k] = retired[old(k)]
    <3>1. /\ Len(retired') = Len(retired) - 1
          /\ \A k \in 1 .. Len(retired) - 1 :
               retired'[k] = IF k < it THEN retired[k] ELSE retired[k + 1]
      BY <1>0, <1>1, <1>3, RemoveAtProperties DEF RetiredTypes
    <3> QED BY <1>0, <3>1 DEF RetiredTypes
  <2>2. \A k \in 1 .. Len(retired) - 1 : old(k) \in DOMAIN retired
    BY <1>0, <1>1 DEF RetiredTypes
  <2>3. \A j, k \in 1 .. Len(retired) - 1 : old(j) = old(k) => j = k
    BY <1>0, <1>1 DEF RetiredTypes
  <2>4. \A k \in 1 .. Len(retired) - 1 : old(k) >= it => k >= it
    BY <1>0, <1>1 DEF RetiredTypes
  <2> HIDE DEF old
  <2>5. EntryInv'
    BY <1>1, <2>1, <2>2 DEF RetiredInv, EntryInv
  <2>6. EntryOnce'
    <3> SUFFICES ASSUME NEW j \in 1 .. Len(retired) - 1, NEW k \in 1 .. Len(retired) - 1,
                        retired'[j].slot = retired'[k].slot,
                        retired'[j].image = retired'[k].image
                 PROVE  j = k
      BY <2>1 DEF EntryOnce
    <3>1. retired'[j] = retired[old(j)] /\ retired'[k] = retired[old(k)]
      BY <2>1
    <3>2. old(j) = old(k)
      BY <2>2, <3>1 DEF RetiredInv, EntryOnce
    <3> QED BY <2>3, <3>2
  <2>7. FreedInv'
    <3>1. Ages(Previous, BufferCount)
      BY <1>1 DEF RetiredInv, FreedInv
    <3>2. Ages(Previous, BufferCount)'
      BY <1>1, <2>1, <2>2, <3>1 DEF Ages, Distance
    <3>3. ASSUME NEW k \in 1 .. Len(retired) - 1, retired'[k].slot = Previous
          PROVE  retired'[k].counter <= released[Previous] /\ k >= it
      <4>1. retired[old(k)].slot = Previous /\ old(k) \in DOMAIN retired
            /\ retired'[k] = retired[old(k)]
        BY <2>1, <2>2, <3>3
      <4>2. retired[old(k)].counter <= released[Previous] /\ old(k) >= it
        BY <1>1, <4>1 DEF RetiredInv, FreedInv
      <4> QED BY <2>4, <4>1, <4>2
    <3> QED BY <1>1, <1>3, <2>1, <3>2, <3>3 DEF FreedInv
  <2>8. AgesInv'
    BY <1>1 DEF AgesInv, Waiting, Served
  <2> QED BY <1>1, <2>5, <2>6, <2>7, <2>8 DEF RetiredInv
<1> QED BY <1>2, <1>3 DEF ReapEntry

\* handle_resize adds an entry per slot, of the generation it ends.
LEMMA RetiredBatch ==
  ASSUME RetiredTypes, HandleResize, \A i \in Slots : image[i] = generation
  PROVE  /\ DOMAIN retired' = 1 .. Len(retired) + BufferCount
         /\ \A k \in DOMAIN retired : retired'[k] = retired[k]
         /\ \A k \in Len(retired) + 1 .. Len(retired) + BufferCount :
              /\ retired'[k].slot = k - Len(retired) - 1
              /\ retired'[k].slot \in Slots
              /\ retired'[k].counter = counter[retired'[k].slot]
              /\ retired'[k].image = generation
<1> DEFINE n == Len(retired)
           batch == [k \in 1 .. BufferCount |->
             [slot |-> k - 1, counter |-> counter[k - 1], image |-> image[k - 1]]]
<1>0. /\ retired \in Seq(Retired) /\ n \in Nat /\ DOMAIN retired = 1 .. n
      /\ BufferCount \in Nat \ {0} /\ Slots = 0 .. BufferCount - 1
      /\ counter \in [Slots -> Nat]
      /\ generation \in Nat
  BY DEF RetiredTypes
<1>1. retired' = retired \o batch
  BY DEF HandleResize
<1>2. \A k \in 1 .. BufferCount :
        /\ k - 1 \in Slots
        /\ batch[k] = [slot |-> k - 1, counter |-> counter[k - 1], image |-> generation]
        /\ batch[k] \in Retired
  <2> SUFFICES ASSUME NEW k \in 1 .. BufferCount
               PROVE  /\ k - 1 \in Slots
                      /\ batch[k] = [slot |-> k - 1, counter |-> counter[k - 1],
                                    image |-> generation]
                      /\ batch[k] \in Retired
    OBVIOUS
  <2>1. k - 1 \in Slots
    BY <1>0
  <2>2. image[k - 1] = generation /\ counter[k - 1] \in Nat
    BY <1>0, <2>1
  <2> QED BY <1>0, <2>1, <2>2 DEF Retired
<1>3. batch \in Seq(Retired) /\ Len(batch) = BufferCount
  BY <1>0, <1>2
<1> HIDE DEF n, batch
<1>4. /\ retired \o batch \in Seq(Retired)
      /\ Len(retired \o batch) = n + BufferCount
      /\ \A k \in 1 .. n + BufferCount :
           (retired \o batch)[k] = IF k <= n THEN retired[k] ELSE batch[k - n]
  BY <1>0, <1>3, ConcatProperties DEF n
<1>5. DOMAIN retired' = 1 .. n + BufferCount
  BY <1>1, <1>4, LenProperties
<1>6. \A k \in 1 .. n : retired'[k] = retired[k]
  BY <1>0, <1>1, <1>4
<1>7. ASSUME NEW k \in n + 1 .. n + BufferCount
      PROVE  /\ retired'[k].slot = k - n - 1
             /\ retired'[k].slot \in Slots
             /\ retired'[k].counter = counter[retired'[k].slot]
             /\ retired'[k].image = generation
  <2>1. PICK m \in 1 .. BufferCount : m = k - n
    BY <1>0
  <2>2. retired'[k] = batch[m]
    BY <1>0, <1>1, <1>4, <2>1
  <2>3. k - n - 1 = m - 1 /\ m - 1 \in Slots
    BY <1>0, <2>1
  <2>4. retired'[k] = [slot |-> m - 1, counter |-> counter[m - 1], image |-> generation]
    BY <1>2, <2>2
  <2> QED BY <2>3, <2>4
<1> QED BY <1>0, <1>5, <1>6, <1>7 DEF n

LEMMA ResizeRetired ==
  ASSUME ~MayFail, TypeOK, RetiredInv, HandleResize
  PROVE  RetiredInv'
<1> DEFINE n == Len(retired)
<1>0. /\ RetiredTypes /\ RetiredInv
      /\ generation \in Nat /\ next_frame \in Slots /\ n \in Nat
      /\ BufferCount \in Nat \ {0} /\ DOMAIN retired = 1 .. n
      /\ \A k \in 1 .. n : retired[k].image \in Nat /\ retired[k].slot \in Slots
  BY RetiredTypesHold DEF RetiredTypes
<1>1. /\ UNCHANGED <<counter, next_frame, released>>
      /\ generation' = generation + 1
      /\ image' = [i \in Slots |-> generation + 1]
      /\ pc = "resize" /\ pc' = "arm"
  BY DEF HandleResize, kernel
<1>2. /\ DOMAIN retired' = 1 .. n + BufferCount
      /\ \A k \in 1 .. n : retired'[k] = retired[k]
      /\ \A k \in n + 1 .. n + BufferCount :
           /\ retired'[k].slot = k - n - 1
           /\ retired'[k].slot \in Slots
           /\ retired'[k].counter = counter[retired'[k].slot]
           /\ retired'[k].image = generation
  <2>1. \A i \in Slots : image[i] = generation
    BY DEF RetiredInv
  <2> QED BY <1>0, <2>1, RetiredBatch
<1>3. \A k \in DOMAIN retired' : k \in 1 .. n \/ k \in n + 1 .. n + BufferCount
  BY <1>0, <1>2
<1> HIDE DEF n
<1>4. EntryInv'
  <2> SUFFICES ASSUME NEW k \in DOMAIN retired'
               PROVE  /\ retired'[k].image < generation'
                      /\ retired'[k].counter <= counter'[retired'[k].slot]
    BY DEF EntryInv
  <2>1. CASE k \in 1 .. n
    <3>1. /\ retired[k].image < generation
          /\ retired[k].counter <= counter[retired[k].slot]
      BY <1>0, <2>1 DEF RetiredInv, EntryInv
    <3> QED BY <1>0, <1>1, <1>2, <2>1, <3>1
  <2>2. CASE k \in n + 1 .. n + BufferCount
    <3>1. retired'[k].slot \in Slots /\ counter \in [Slots -> Nat]
      BY <1>0, <1>2, <2>2 DEF RetiredTypes
    <3> QED BY <1>0, <1>1, <1>2, <2>2, <3>1
  <2> QED BY <1>3, <2>1, <2>2
<1>5. EntryOnce'
  <2> SUFFICES ASSUME NEW j \in DOMAIN retired', NEW k \in DOMAIN retired',
                      retired'[j].slot = retired'[k].slot,
                      retired'[j].image = retired'[k].image
               PROVE  j = k
    BY DEF EntryOnce
  <2>1. \A h \in 1 .. n : retired'[h].image # generation
    BY <1>0, <1>2 DEF RetiredInv, EntryInv
  <2>2. CASE j \in 1 .. n /\ k \in 1 .. n
    BY <1>0, <1>2, <2>2 DEF RetiredInv, EntryOnce
  <2>3. CASE j \in n + 1 .. n + BufferCount /\ k \in n + 1 .. n + BufferCount
    <3>1. j - n - 1 = k - n - 1
      BY <1>2, <2>3
    <3> QED BY <1>0, <2>3, <3>1
  <2> QED BY <1>2, <1>3, <2>1, <2>2, <2>3
<1>6. Ages(next_frame, BufferCount)'
  <2> SUFFICES ASSUME NEW k \in DOMAIN retired'
               PROVE  (generation' - retired'[k].image)
                         + Distance(retired'[k].slot, next_frame) <= BufferCount
    BY <1>1 DEF Ages, Distance
  <2>1. \A i \in Slots : Distance(i, next_frame) \in 0 .. BufferCount - 1
    BY <1>0, DistanceTurn
  <2>2. CASE k \in 1 .. n
    <3>1. (generation - retired[k].image) + Distance(retired[k].slot, next_frame)
            <= BufferCount - 1
      BY <1>0, <1>1, <2>2 DEF RetiredInv, AgesInv, Waiting, Ages
    <3>2. Distance(retired[k].slot, next_frame) \in Int /\ retired[k].image \in Nat
      BY <1>0, <2>1, <2>2
    <3>3. retired'[k] = retired[k]
      BY <1>2, <2>2
    <3> HIDE DEF Distance
    <3> QED BY <1>0, <1>1, <3>1, <3>2, <3>3
  <2>3. CASE k \in n + 1 .. n + BufferCount
    <3>1. retired'[k].image = generation /\ retired'[k].slot \in Slots
      BY <1>2, <2>3
    <3>2. Distance(retired'[k].slot, next_frame) \in 0 .. BufferCount - 1
      BY <2>1, <3>1
    <3> QED BY <1>0, <1>1, <3>1, <3>2
  <2> QED BY <1>3, <2>2, <2>3
<1>7. FreedInv' /\ AgesInv'
  BY <1>1, <1>6 DEF FreedInv, AgesInv, Waiting, Served
<1>8. (\A i \in Slots : image[i] = generation)' /\ (generation # 0)' /\ pc' # "threw"
  BY <1>0, <1>1
<1> QED BY <1>4, <1>5, <1>7, <1>8 DEF RetiredInv

----------------------------------------------------------------------------
(* The entries fit in a triangle: as many places as BufferCount and its    *)
(* predecessors add up to.                                                 *)

Triangle == {p \in (0 .. BufferCount - 1) \X (1 .. BufferCount + 1) :
               p[1] + p[2] <= BufferCount}

LEMMA TriangleSize ==
  /\ IsFiniteSet(Triangle)
  /\ Cardinality(Triangle) = (BufferCount * (BufferCount + 1)) \div 2
<1> DEFINE N == BufferCount
           A == 0 .. N - 1
           B == 1 .. N + 1
           Rest == {p \in A \X B : ~(p[1] + p[2] <= N)}
           turn == [p \in Triangle |-> <<(N - 1) - p[1], (N + 2) - p[2]>>]
<1>0. N \in Nat \ {0}
  BY LoopAssumption
<1>1. /\ IsFiniteSet(A) /\ Cardinality(A) = N
      /\ IsFiniteSet(B) /\ Cardinality(B) = N + 1
  <2>1. IsFiniteSet(A) /\ Cardinality(A) = IF 0 > N - 1 THEN 0 ELSE (N - 1) - 0 + 1
    BY <1>0, FS_Interval
  <2>2. IsFiniteSet(B) /\ Cardinality(B) = IF 1 > N + 1 THEN 0 ELSE (N + 1) - 1 + 1
    BY <1>0, FS_Interval
  <2> QED BY <1>0, <2>1, <2>2
<1>2. IsFiniteSet(A \X B) /\ Cardinality(A \X B) = N * (N + 1)
  BY <1>1, FS_Product
<1>3. IsFiniteSet(Triangle) /\ IsFiniteSet(Rest)
  <2>1. Triangle \in SUBSET (A \X B) /\ Rest \in SUBSET (A \X B)
    BY DEF Triangle
  <2> QED BY <1>2, <2>1, FS_Subset
<1>4. turn \in Bijection(Triangle, Rest)
  <2>1. \A p \in Triangle : /\ p = <<p[1], p[2]>> /\ p[1] \in A /\ p[2] \in B
                            /\ p[1] + p[2] <= N
    BY DEF Triangle
  <2>2. \A p \in Rest : /\ p = <<p[1], p[2]>> /\ p[1] \in A /\ p[2] \in B
                        /\ ~(p[1] + p[2] <= N)
    OBVIOUS
  <2>3. ASSUME NEW p \in Triangle
        PROVE  turn[p] \in Rest
    <3>1. p[1] \in A /\ p[2] \in B /\ p[1] + p[2] <= N
      BY <2>1
    <3>2. (N - 1) - p[1] \in A /\ (N + 2) - p[2] \in B
      BY <1>0, <3>1
    <3>3. ~(((N - 1) - p[1]) + ((N + 2) - p[2]) <= N)
      BY <1>0, <3>1
    <3> QED BY <3>2, <3>3
  <2>4. ASSUME NEW p \in Triangle, NEW q \in Triangle, turn[p] = turn[q]
        PROVE  p = q
    <3>1. (N - 1) - p[1] = (N - 1) - q[1] /\ (N + 2) - p[2] = (N + 2) - q[2]
      BY <2>4
    <3>2. p[1] \in Int /\ q[1] \in Int /\ p[2] \in Int /\ q[2] \in Int
      BY <2>1
    <3>3. p[1] = q[1] /\ p[2] = q[2]
      BY <1>0, <3>1, <3>2
    <3> QED BY <2>1, <3>3
  <2>5. ASSUME NEW q \in Rest
        PROVE  \E p \in Triangle : turn[p] = q
    <3> DEFINE p == <<(N - 1) - q[1], (N + 2) - q[2]>>
    <3>1. q[1] \in A /\ q[2] \in B /\ ~(q[1] + q[2] <= N) /\ q = <<q[1], q[2]>>
      BY <2>2
    <3>2. (N - 1) - q[1] \in A /\ (N + 2) - q[2] \in B
      BY <1>0, <3>1
    <3>3. ((N - 1) - q[1]) + ((N + 2) - q[2]) <= N
      BY <1>0, <3>1
    <3>4. p \in Triangle
      BY <3>2, <3>3 DEF Triangle
    <3>5. (N - 1) - p[1] = q[1] /\ (N + 2) - p[2] = q[2]
      BY <1>0, <3>1
    <3>6. turn[p] = <<(N - 1) - p[1], (N + 2) - p[2]>>
      BY <3>4
    <3> QED BY <3>1, <3>4, <3>5, <3>6
  <2>6. turn \in Injection(Triangle, Rest)
    BY <2>3, <2>4 DEF Injection, IsInjective
  <2>7. turn \in Surjection(Triangle, Rest)
    BY <2>3, <2>5 DEF Surjection
  <2> QED BY <2>6, <2>7 DEF Bijection
<1>5. Cardinality(Rest) = Cardinality(Triangle)
  <2>1. ExistsBijection(Triangle, Rest)
    BY <1>4 DEF ExistsBijection
  <2> QED BY <1>3, <2>1, FS_Bijection
<1>6. Triangle \cup Rest = A \X B /\ Triangle \cap Rest = {}
  BY DEF Triangle
<1>7. Cardinality(Triangle \cup Rest) =
        Cardinality(Triangle) + Cardinality(Rest) - Cardinality(Triangle \cap Rest)
  BY <1>3, FS_Union
<1>8. Cardinality(Triangle) \in Nat /\ Cardinality({}) = 0
  BY <1>3, FS_CardinalityType, FS_EmptySet
<1>9. N * (N + 1) = Cardinality(Triangle) + Cardinality(Triangle)
  <2>1. Cardinality(A \X B) = Cardinality(Triangle) + Cardinality(Triangle)
    <3> HIDE DEF A, B, Rest
    <3>1. Cardinality(A \X B) = Cardinality(Triangle) + Cardinality(Triangle) - 0
      BY <1>5, <1>6, <1>7, <1>8, Zenon
    <3> QED BY <1>8, <3>1
  <2> QED BY <1>2, <2>1
<1> QED BY <1>3, <1>8, <1>9

LEMMA EntriesFit ==
  ASSUME RetiredTypes, EntryInv, EntryOnce, NEW turn \in Slots, Ages(turn, BufferCount)
  PROVE  RetiredBound
<1> DEFINE place == [k \in 1 .. Len(retired) |->
             <<Distance(retired[k].slot, turn), generation - retired[k].image>>]
<1>0. /\ BufferCount \in Nat \ {0} /\ Slots = 0 .. BufferCount - 1
      /\ generation \in Nat /\ Len(retired) \in Nat /\ DOMAIN retired = 1 .. Len(retired)
      /\ \A k \in 1 .. Len(retired) : retired[k].slot \in Slots /\ retired[k].image \in Nat
  BY DEF RetiredTypes
<1>1. \A i \in Slots : Distance(i, turn) \in 0 .. BufferCount - 1
  BY <1>0 DEF Distance
<1>2. \A i, j \in Slots : Distance(i, turn) = Distance(j, turn) => i = j
  BY <1>0 DEF Distance
<1>3. ASSUME NEW k \in 1 .. Len(retired)
      PROVE  place[k] \in Triangle
  <2>1. /\ retired[k].slot \in Slots /\ retired[k].image \in Nat
        /\ retired[k].image < generation
        /\ (generation - retired[k].image) + Distance(retired[k].slot, turn) <= BufferCount
    BY <1>0 DEF EntryInv, Ages
  <2>2. Distance(retired[k].slot, turn) \in 0 .. BufferCount - 1
    BY <1>1, <2>1
  <2>3. PICK d \in 0 .. BufferCount - 1 : d = Distance(retired[k].slot, turn)
    BY <2>2
  <2>4. PICK a \in Int : a = generation - retired[k].image
    BY <1>0, <2>1
  <2>5. a \in 1 .. BufferCount + 1 /\ d + a <= BufferCount
    BY <1>0, <2>1, <2>3, <2>4
  <2>6. place[k] = <<d, a>>
    BY <2>3, <2>4
  <2> QED BY <2>5, <2>6 DEF Triangle
<1>4. ASSUME NEW j \in 1 .. Len(retired), NEW k \in 1 .. Len(retired),
             place[j] = place[k]
      PROVE  j = k
  <2>1. /\ Distance(retired[j].slot, turn) = Distance(retired[k].slot, turn)
        /\ generation - retired[j].image = generation - retired[k].image
    BY <1>4
  <2>2. retired[j].slot = retired[k].slot
    BY <1>0, <1>2, <2>1
  <2>3. retired[j].image = retired[k].image
    BY <1>0, <2>1
  <2> QED BY <1>0, <2>2, <2>3 DEF EntryOnce
<1>5. place \in Injection(1 .. Len(retired), Triangle)
  BY <1>3, <1>4 DEF Injection, IsInjective
<1>6. Cardinality(1 .. Len(retired)) <= Cardinality(Triangle)
  BY <1>5, TriangleSize, FS_Injection
<1>7. Cardinality(1 .. Len(retired)) = Len(retired)
  <2>1. Cardinality(1 .. Len(retired)) =
          IF 1 > Len(retired) THEN 0 ELSE Len(retired) - 1 + 1
    <3> HIDE DEF place
    <3>1. 1 \in Int /\ Len(retired) \in Int
      BY <1>0
    <3> QED BY <3>1, FS_Interval
  <2> QED BY <1>0, <2>1
<1> QED BY <1>6, <1>7, TriangleSize DEF RetiredBound

LEMMA RetiredInvBounds ==
  ASSUME TypeOK, RetiredInv
  PROVE  RetiredBound
<1>1. RetiredTypes /\ Previous \in Slots /\ next_frame \in Slots
  BY RetiredTypesHold DEF RetiredTypes, Previous
<1>2. pc \in {"app", "reap", "done"} \/ pc \in Waiting \/ pc \in Served
  BY DEF TypeOK, WindowTypes, Places, RetiredInv, Waiting, Served
<1>3. \E turn \in Slots : Ages(turn, BufferCount)
  <2>1. CASE pc \in {"app", "reap"}
    BY <1>1, <2>1 DEF RetiredInv, FreedInv
  <2>2. CASE pc = "done" \/ pc \in Served
    BY <1>1, <2>2 DEF RetiredInv, AgesInv
  <2>3. CASE pc \in Waiting
    <3>1. Ages(next_frame, BufferCount - 1)
      BY <2>3 DEF RetiredInv, AgesInv
    <3>2. ASSUME NEW k \in DOMAIN retired
          PROVE  (generation - retired[k].image)
                    + Distance(retired[k].slot, next_frame) <= BufferCount
      <4>1. (generation - retired[k].image) + Distance(retired[k].slot, next_frame)
              <= BufferCount - 1
        BY <3>1 DEF Ages
      <4>2. /\ Distance(retired[k].slot, next_frame) \in Int
            /\ generation \in Nat /\ retired[k].image \in Nat /\ BufferCount \in Nat
        <5>1. /\ retired[k].slot \in Int /\ next_frame \in Int /\ BufferCount \in Nat
              /\ generation \in Nat /\ retired[k].image \in Nat
          BY <1>1 DEF RetiredTypes
        <5> QED BY <5>1 DEF Distance
      <4> QED BY <4>1, <4>2
    <3> QED BY <1>1, <3>2 DEF Ages
  <2> QED BY <1>2, <2>1, <2>2, <2>3
<1> QED BY <1>1, <1>3, EntriesFit DEF RetiredInv

\* Where no call fails and every frame lent is presented, retired_ holds at most
\* BufferCount * (BufferCount + 1) / 2 entries, however many resizes come in a row.
THEOREM RetiredSafety ==
  ASSUME ~MayFail, ~SkipAllowed
  PROVE  Spec => []RetiredBound
<1> DEFINE I == TypeOK /\ Inv /\ RetiredInv
<1>1. Init => I
  <2> SUFFICES ASSUME Init PROVE RetiredInv
    BY TypeInit, InvInit
  <2>1. /\ image = [i \in Slots |-> 1] /\ generation = 1 /\ retired = <<>> /\ pc = "app"
    BY DEF Init
  <2>2. DOMAIN retired = {}
    BY <2>1
  <2> QED BY <2>1, <2>2 DEF RetiredInv, EntryInv, EntryOnce, FreedInv, AgesInv, Ages,
                            Waiting, Served
<1>2. I /\ [Next]_vars => I'
  <2> SUFFICES ASSUME TypeOK, Inv, RetiredInv, [Next]_vars
               PROVE  RetiredInv'
    BY TypeStep, InvStep
  <2> QED BY FrameRetired, PresentRetired, ReapRetired, ResizeRetired
<1>3. I => RetiredBound
  BY RetiredInvBounds
<1> HIDE DEF I
<1> QED BY <1>1, <1>2, <1>3, PTL DEF Spec

============================================================================
