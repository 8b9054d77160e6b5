-------------------------- MODULE VideoPlayerProofs --------------------------
(***************************************************************************)
(* For every number of buffers, packets and resizes and every delay of the *)
(* codec, whatever the order in which the GPU, the display and the player  *)
(* move.                                                                   *)
(***************************************************************************)
EXTENDS VideoPlayer, SequenceFacts, FiniteSetTheorems, TLAPS

----------------------------------------------------------------------------
(* Packets.                                                                *)

\* How often a value occurs in a sequence.
Count(s, v) == Cardinality({k \in DOMAIN s : s[k] = v})

\* Taking the head of a sequence takes it from the count of its value.
LEMMA CountTail ==
  ASSUME NEW S, NEW s \in Seq(S), s # <<>>, NEW v
  PROVE  Count(s, v) = Count(Tail(s), v) + (IF Head(s) = v THEN 1 ELSE 0)
<1> DEFINE A == {k \in DOMAIN s : s[k] = v}
           t == Tail(s)
           B == {k \in DOMAIN t : t[k] = v}
<1>1. /\ Len(s) \in Nat \ {0} /\ DOMAIN s = 1 .. Len(s)
      /\ t \in Seq(S) /\ Len(t) = Len(s) - 1 /\ DOMAIN t = 1 .. Len(t)
      /\ Head(s) = s[1]
      /\ \A k \in 1 .. Len(t) : t[k] = s[k + 1]
  <2>1. /\ Len(s) \in Nat \ {0} /\ DOMAIN s = 1 .. Len(s)
    BY EmptySeq, LenProperties
  <2>2. t \in Seq(S) /\ Len(t) = Len(s) - 1 /\ \A k \in 1 .. Len(t) : t[k] = s[k + 1]
    BY HeadTailProperties
  <2>3. DOMAIN t = 1 .. Len(t)
    BY <2>2, LenProperties
  <2> QED BY <2>1, <2>2, <2>3
<1> HIDE DEF t
<1>2. IsFiniteSet(1 .. Len(s)) /\ IsFiniteSet(1 .. Len(t))
  BY <1>1, FS_Interval
<1>3. IsFiniteSet(A) /\ IsFiniteSet(B) /\ Cardinality(A) \in Nat /\ Cardinality(B) \in Nat
  <2>1. A \in SUBSET (1 .. Len(s)) /\ B \in SUBSET (1 .. Len(t))
    BY <1>1
  <2>2. IsFiniteSet(A) /\ IsFiniteSet(B)
    BY <1>2, <2>1, FS_Subset
  <2> QED BY <2>2, FS_CardinalityType
<1>4. Cardinality(A \ {1}) = Cardinality(B)
  <2> DEFINE f == [k \in B |-> k + 1]
  <2>1. f \in [B -> A \ {1}]
    BY <1>1
  <2>2. \A j, k \in B : f[j] = f[k] => j = k
    BY <1>1
  <2>3. ASSUME NEW k \in A \ {1}
        PROVE  \E j \in B : f[j] = k
    <3>1. k - 1 \in 1 .. Len(t) /\ k - 1 + 1 = k
      BY <1>1
    <3>2. k - 1 \in B
      BY <1>1, <3>1
    <3> QED BY <3>1, <3>2
  <2>4. f \in Bijection(B, A \ {1})
    BY <2>1, <2>2, <2>3 DEF Bijection, Injection, Surjection, IsInjective
  <2>5. ExistsBijection(B, A \ {1})
    BY <2>4 DEF ExistsBijection
  <2> QED BY <1>3, <2>5, FS_Bijection
<1>5. Cardinality(A \ {1}) = IF 1 \in A THEN Cardinality(A) - 1 ELSE Cardinality(A)
  BY <1>3, FS_RemoveElement
<1>6. 1 \in A <=> Head(s) = v
  BY <1>1
<1>7. Cardinality(A) = Cardinality(B) + (IF Head(s) = v THEN 1 ELSE 0)
  BY <1>3, <1>4, <1>5, <1>6
<1> QED BY <1>7 DEF t, Count

LEMMA LeftType ==
  ASSUME file \in Seq({"video", "other"})
  PROVE  /\ Left \in Nat
         /\ file = <<>> => Left = 0
<1>1. DOMAIN file = 1 .. Len(file) /\ Len(file) \in Nat
  BY LenProperties
<1> DEFINE A == {k \in DOMAIN file : file[k] = "video"}
<1>2. IsFiniteSet(1 .. Len(file)) /\ A \in SUBSET (1 .. Len(file))
  BY <1>1, FS_Interval
<1>3. IsFiniteSet(A)
  BY <1>2, FS_Subset
<1>4. Left \in Nat
  BY <1>3, FS_CardinalityType DEF Left
<1>5. ASSUME file = <<>>
      PROVE  Left = 0
  <2>1. A = {}
    BY <1>5
  <2> QED BY <2>1, FS_EmptySet DEF Left
<1> QED BY <1>4, <1>5

----------------------------------------------------------------------------
(* Types.                                                                  *)

\* No packet is lost on the way to the codec; the player waits for a frame only
\* with a picture, and a view that is valid is one of the image.
CountInv == total \in Nat /\ fed + Left = total
FrameInv == pc \in {"wait", "lent", "submitted"} => frame # None
ViewInv  == \A i \in Slots : view_valid[i] => view[i] = image

Typed == TypeOK /\ CountInv /\ FrameInv /\ ViewInv

PoolTypes == Pool!PoolTypeOK

LEMMA PoolTypesMean ==
  PoolTypes <=> owner \in [Slots -> {"free", "app", "display"}] /\ turn \in Slots
BY DEF PoolTypes, Pool!PoolTypeOK, Pool!Slots, Slots

LEMMA PoolMoves ==
  ASSUME Pool!PoolTypeOK, NEW i \in Slots
  PROVE  /\ Pool!Acquire(i) => Pool!PoolTypeOK' /\ owner[i] = "free" /\ turn' = turn
                               /\ i = turn /\ owner' = [owner EXCEPT ![i] = "app"]
         /\ Pool!Present(i) => Pool!PoolTypeOK' /\ owner[i] = "app" /\ i = turn
                               /\ owner' = [owner EXCEPT ![i] = "display"]
                               /\ turn' = (turn + 1) % BufferCount
         /\ Pool!Release(i) => Pool!PoolTypeOK' /\ owner[i] = "display" /\ turn' = turn
                               /\ owner' = [owner EXCEPT ![i] = "free"]
<1> USE DEF Pool!PoolTypeOK, Pool!Slots, Slots
<1>1. Pool!Acquire(i) => Pool!PoolTypeOK' /\ owner[i] = "free" /\ turn' = turn
                         /\ i = turn /\ owner' = [owner EXCEPT ![i] = "app"]
  BY DEF Pool!Acquire
<1>2. Pool!Release(i) => Pool!PoolTypeOK' /\ owner[i] = "display" /\ turn' = turn
                         /\ owner' = [owner EXCEPT ![i] = "free"]
  BY DEF Pool!Release
<1>3. (turn + 1) % BufferCount \in 0 .. BufferCount - 1
  BY VideoAssumption
<1>4. Pool!Present(i) => Pool!PoolTypeOK' /\ owner[i] = "app" /\ i = turn
                         /\ owner' = [owner EXCEPT ![i] = "display"]
                         /\ turn' = (turn + 1) % BufferCount
  BY <1>3 DEF Pool!Present, Pool!Successor
<1> QED BY <1>1, <1>2, <1>4

LEMMA TypeInit == Init => Typed
<1> SUFFICES ASSUME Init
             PROVE  Typed
  OBVIOUS
<1>1. file \in Seq({"video", "other"})
  BY BoundedSeqType, VideoAssumption DEF Init
<1>2. Left \in Nat
  BY <1>1, LeftType
<1>3. Pool!PoolTypeOK
  <2>1. 0 \in 0 .. BufferCount - 1
    BY VideoAssumption
  <2> QED BY <2>1 DEF Init, Pool!Init, Pool!PoolTypeOK, Pool!Slots
<1>4. <<>> \in Seq(Nat \ {None}) /\ <<>> \in Seq(Job)
  BY EmptySeq
<1>5. /\ image \in 0 .. MaxResizes
      /\ fed \in 0 .. total /\ frame \in 0 .. fed
      /\ view \in [Slots -> 0 .. NoView]
      /\ view_valid \in [Slots -> BOOLEAN]
      /\ staging \in [Slots -> Nat]
  BY <1>2, VideoAssumption DEF Init, NoView, None
<1>6. flushed \in BOOLEAN /\ eof \in BOOLEAN /\ pc \in Places
      /\ yuv_layout \in Layouts /\ yuv \in [layout : Layouts, picture : Nat]
      /\ shown \in [Slots -> Nat]
  BY DEF Init, Places, Layouts, None
<1>7. TypeOK
  BY <1>1, <1>3, <1>4, <1>5, <1>6 DEF Init, TypeOK
<1>8. CountInv
  BY <1>2 DEF Init, CountInv
<1>9. FrameInv /\ ViewInv
  BY DEF Init, FrameInv, ViewInv
<1> QED BY <1>7, <1>8, <1>9 DEF Typed

\* The calls of the decoder.
LEMMA CodecTypes ==
  ASSUME Typed,
         ReceiveFrame \/ ReceiveAgain \/ ReceiveEof \/ DecodedNone \/ ReadPacket \/ ReadEnd
  PROVE  Typed'
<1>1. UNCHANGED <<window, socket, total, slots, yuv_layout, device>>
  BY DEF ReceiveFrame, ReceiveAgain, ReceiveEof, DecodedNone, ReadPacket, ReadEnd, codec
<1>2. pc' \in Places /\ eof' \in BOOLEAN /\ flushed' \in BOOLEAN
  BY DEF ReceiveFrame, ReceiveAgain, ReceiveEof, DecodedNone, ReadPacket, ReadEnd, codec,
     Places, Typed, TypeOK, AfterEnd, Draining
<1>3. /\ total \in Nat /\ fed \in 0 .. total /\ frame \in 0 .. fed
      /\ file \in Seq({"video", "other"}) /\ fed + Left = total
  BY DEF Typed, TypeOK, CountInv
<1>4. /\ fed' \in 0 .. total /\ frame' \in 0 .. fed'
      /\ file' \in Seq({"video", "other"}) /\ fed' + Left' = total
  <2>1. CASE ReceiveFrame
    <3>1. UNCHANGED <<file, fed>> /\ frame' = frame + 1 /\ frame < fed
      BY <2>1 DEF ReceiveFrame
    <3> QED BY <1>3, <3>1 DEF Left
  <2>2. CASE ReceiveAgain \/ ReceiveEof \/ DecodedNone \/ ReadEnd
    <3>1. UNCHANGED <<file, fed, frame>>
      BY <2>2 DEF ReceiveAgain, ReceiveEof, DecodedNone, ReadEnd, codec
    <3> QED BY <1>3, <3>1 DEF Left
  <2>3. CASE ReadPacket
    <3>1. file # <<>> /\ file' = Tail(file) /\ fed' = Fed(Head(file)) /\ frame' = frame
      BY <2>3 DEF ReadPacket
    <3>2. Left = Left' + (IF Head(file) = "video" THEN 1 ELSE 0)
      <4>1. Count(file, "video") =
              Count(Tail(file), "video") + (IF Head(file) = "video" THEN 1 ELSE 0)
        BY <1>3, <3>1, CountTail
      <4>2. Left = Count(file, "video") /\ Left' = Count(file', "video")
        BY DEF Left, Count
      <4> QED BY <3>1, <4>1, <4>2
    <3>3. file' \in Seq({"video", "other"})
      BY <1>3, <3>1, HeadTailProperties
    <3>4. Left' \in Nat
      <4>1. DOMAIN file' = 1 .. Len(file') /\ Len(file') \in Nat
        BY <3>3, LenProperties
      <4> DEFINE A == {k \in DOMAIN file' : file'[k] = "video"}
      <4>2. IsFiniteSet(1 .. Len(file')) /\ A \in SUBSET (1 .. Len(file'))
        BY <4>1, FS_Interval
      <4>3. IsFiniteSet(A)
        BY <4>2, FS_Subset
      <4> QED BY <4>3, FS_CardinalityType DEF Left
    <3>5. PICK n \in Nat : n = Left
      BY <1>3, LeftType
    <3>6. PICK m \in Nat : m = Left'
      BY <3>4
    <3>7. CASE Head(file) = "video"
      <4>1. fed' = fed + 1 /\ n = m + 1
        BY <3>1, <3>2, <3>5, <3>6, <3>7 DEF Fed
      <4>2. fed + n = total /\ fed' + m = total
        BY <1>3, <3>5, <4>1
      <4> QED BY <1>3, <3>1, <3>3, <3>6, <4>1, <4>2
    <3>8. CASE Head(file) # "video"
      <4>1. fed' = fed /\ n = m
        <5>1. (IF Head(file) = "video" THEN 1 ELSE 0) = 0
          BY <3>8
        <5>2. n = m + 0
          BY <3>2, <3>5, <3>6, <5>1
        <5>3. fed' = fed
          BY <3>1, <3>8 DEF Fed
        <5> QED BY <5>2, <5>3
      <4> QED BY <1>3, <3>1, <3>3, <3>5, <3>6, <4>1
    <3> QED BY <3>7, <3>8
  <2> QED BY <2>1, <2>2, <2>3
<1>5. FrameInv'
  <2>1. pc' \in {"wait", "lent", "submitted"} => ReceiveFrame
    BY DEF ReceiveFrame, ReceiveAgain, ReceiveEof, DecodedNone, ReadPacket, ReadEnd, AfterEnd
  <2>2. ReceiveFrame => frame' # None
    BY <1>3 DEF ReceiveFrame, None
  <2> QED BY <2>1, <2>2 DEF FrameInv
<1>6. TypeOK'
  <2>1. Pool!PoolTypeOK'
    BY <1>1 DEF window, Typed, TypeOK, Pool!PoolTypeOK
  <2> QED BY <1>1, <1>2, <1>4, <2>1 DEF window, socket, slots, device, Typed, TypeOK
<1>7. CountInv' /\ ViewInv'
  BY <1>1, <1>4 DEF window, slots, Typed, CountInv, ViewInv
<1> QED BY <1>5, <1>6, <1>7 DEF Typed

\* What a job is when it is submitted.
LEMMA JobType ==
  ASSUME Typed, pc = "lent"
  PROVE  /\ [slot |-> turn, picture |-> frame, view |-> CurrentView(turn),
             old |-> yuv_layout, waits |-> WaitsForSampling, uploaded |-> FALSE] \in Job
         /\ CurrentView(turn) = image
<1>1. turn \in Slots
  BY DEF Typed, TypeOK, Pool!PoolTypeOK, Pool!Slots, Slots
<1>2. CurrentView(turn) = image
  BY <1>1 DEF CurrentView, Typed, ViewInv
<1>3. frame \in Nat \ {None}
  BY DEF Typed, TypeOK, FrameInv, CountInv, None
<1>4. WaitsForSampling \in BOOLEAN
  BY DEF WaitsForSampling
<1> QED BY <1>1, <1>2, <1>3, <1>4 DEF Job, Typed, TypeOK

LEMMA TypeStep == Typed /\ [Next]_vars => Typed'
<1> SUFFICES ASSUME Typed, [Next]_vars
             PROVE  Typed'
  OBVIOUS
<1>0. /\ TypeOK /\ CountInv /\ FrameInv /\ ViewInv
      /\ total \in Nat /\ frame \in Nat
      /\ turn \in Slots
  BY DEF Typed, TypeOK, CountInv, Pool!PoolTypeOK, Pool!Slots, Slots
<1>1. CASE UNCHANGED vars
  BY <1>0, <1>1 DEF vars, window, socket, codec, slots, device, Typed, TypeOK, CountInv,
     FrameInv, ViewInv, Pool!PoolTypeOK, Left
<1>2. CASE ReceiveFrame \/ ReceiveAgain \/ ReceiveEof \/ DecodedNone \/ ReadPacket \/ ReadEnd
  BY <1>2, CodecTypes
<1>3. CASE WindowClosed \/ Throw
  <2>1. UNCHANGED <<window, codec, eof, slots, yuv_layout, device>>
    BY <1>3 DEF WindowClosed, Throw
  <2>2. pc' \in Places /\ pc' \notin {"wait", "lent", "submitted"}
    BY <1>3 DEF WindowClosed, Throw, Places
  <2>3. out' \in Seq(Nat \ {None}) /\ sent' \in Seq(Nat \ {None})
    <3>1. <<>> \in Seq(Nat \ {None}) /\ sent \o out \in Seq(Nat \ {None})
      BY <1>0, EmptySeq, ConcatProperties DEF TypeOK
    <3> QED BY <1>0, <1>3, <3>1 DEF WindowClosed, Throw, socket, TypeOK
  <2>4. Pool!PoolTypeOK'
    BY <1>0, <2>1 DEF window, TypeOK, Pool!PoolTypeOK
  <2>5. TypeOK'
    BY <1>0, <2>1, <2>2, <2>3, <2>4 DEF window, codec, slots, device, TypeOK
  <2>6. CountInv' /\ FrameInv' /\ ViewInv'
    BY <1>0, <2>1, <2>2 DEF window, codec, slots, CountInv, FrameInv, ViewInv, Left
  <2> QED BY <2>5, <2>6 DEF Typed
<1>4. CASE Resize
  <2>1. /\ UNCHANGED <<owner, turn, socket, codec, pc, eof, view, staging, yuv_layout, device>>
        /\ image' \in 0 .. MaxResizes
        /\ view_valid' = [i \in Slots |-> FALSE]
    BY <1>0, <1>4, VideoAssumption DEF Resize, TypeOK
  <2>2. Pool!PoolTypeOK'
    BY <1>0, <2>1 DEF TypeOK, Pool!PoolTypeOK
  <2>3. TypeOK'
    BY <1>0, <2>1, <2>2 DEF socket, codec, device, TypeOK
  <2>4. CountInv' /\ FrameInv' /\ ViewInv'
    BY <1>0, <2>1 DEF codec, CountInv, FrameInv, ViewInv, Left
  <2> QED BY <2>3, <2>4 DEF Typed
<1>5. CASE WaitFrame
  <2>1. /\ UNCHANGED <<image, codec, eof, slots, yuv_layout, device>>
        /\ Pool!Acquire(turn) /\ pc = "wait" /\ pc' = "lent"
        /\ sent' = sent \o out /\ out' = <<>>
    BY <1>5 DEF WaitFrame
  <2>2. Pool!PoolTypeOK'
    BY <1>0, <2>1, PoolMoves DEF TypeOK
  <2>3. out' \in Seq(Nat \ {None}) /\ sent' \in Seq(Nat \ {None})
    BY <1>0, <2>1, EmptySeq, ConcatProperties DEF TypeOK
  <2>4. TypeOK'
    BY <1>0, <2>1, <2>2, <2>3 DEF codec, slots, device, TypeOK, Places
  <2>5. CountInv' /\ FrameInv' /\ ViewInv'
    BY <1>0, <2>1 DEF codec, slots, CountInv, FrameInv, ViewInv, Left
  <2> QED BY <2>4, <2>5 DEF Typed
<1>6. CASE Render
  <2>1. /\ UNCHANGED <<window, socket, codec, eof, yuv, shown>>
        /\ pc = "lent" /\ pc' = "submitted"
        /\ view' = [view EXCEPT ![turn] = CurrentView(turn)]
        /\ view_valid' = [view_valid EXCEPT ![turn] = TRUE]
        /\ staging' = [staging EXCEPT ![turn] = frame]
        /\ yuv_layout' \in Layouts
    BY <1>6 DEF Render, Layouts
  <2>2. gpu' \in Seq(Job)
    <3> DEFINE job == [slot |-> turn, picture |-> frame, view |-> CurrentView(turn),
                       old |-> yuv_layout, waits |-> WaitsForSampling, uploaded |-> FALSE]
    <3>1. job \in Job
      BY <2>1, JobType
    <3>2. gpu' = Append(gpu, job)
      BY <1>6 DEF Render
    <3> HIDE DEF job
    <3>3. gpu \in Seq(Job)
      BY <1>0 DEF TypeOK
    <3> QED BY <3>1, <3>2, <3>3, AppendProperties
  <2>3. CurrentView(turn) = image /\ image \in 0 .. NoView
    BY <1>0, <2>1, JobType, VideoAssumption DEF TypeOK, NoView
  <2>4. /\ view' \in [Slots -> 0 .. NoView]
        /\ view_valid' \in [Slots -> BOOLEAN]
        /\ staging' \in [Slots -> Nat]
    BY <1>0, <2>1, <2>3 DEF TypeOK
  <2>5. Pool!PoolTypeOK'
    BY <1>0, <2>1 DEF window, TypeOK, Pool!PoolTypeOK
  <2>6. TypeOK'
    BY <1>0, <2>1, <2>2, <2>4, <2>5 DEF window, socket, codec, TypeOK, Places
  <2>7. ViewInv'
    BY <1>0, <2>1, <2>3 DEF window, ViewInv, TypeOK
  <2>8. CountInv' /\ FrameInv'
    BY <1>0, <2>1 DEF codec, CountInv, FrameInv, Left
  <2> QED BY <2>6, <2>7, <2>8 DEF Typed
<1>7. CASE Present
  <2>1. /\ UNCHANGED <<image, sent, codec, eof, slots, yuv_layout, device>>
        /\ Pool!Present(turn) /\ pc = "submitted" /\ pc' = "receive"
        /\ out' = Append(out, frame)
    BY <1>7 DEF Present
  <2>2. Pool!PoolTypeOK'
    BY <1>0, <2>1, PoolMoves DEF TypeOK
  <2>3. frame \in Nat \ {None} /\ out \in Seq(Nat \ {None})
    BY <1>0, <2>1 DEF FrameInv, TypeOK
  <2>4. out' \in Seq(Nat \ {None})
    BY <2>1, <2>3, AppendProperties
  <2>5. TypeOK'
    BY <1>0, <2>1, <2>2, <2>4 DEF codec, slots, device, TypeOK, Places
  <2>6. CountInv' /\ FrameInv' /\ ViewInv'
    BY <1>0, <2>1 DEF codec, slots, CountInv, FrameInv, ViewInv, Left
  <2> QED BY <2>5, <2>6 DEF Typed
<1>8. CASE Finish
  <2>1. /\ UNCHANGED <<window, socket, codec, eof, yuv_layout, device>>
        /\ pc' = "ended"
        /\ view' = [i \in Slots |-> NoView]
        /\ view_valid' = [i \in Slots |-> FALSE]
        /\ staging' = [i \in Slots |-> None]
    BY <1>8 DEF Finish
  <2>2. Pool!PoolTypeOK'
    BY <1>0, <2>1 DEF window, TypeOK, Pool!PoolTypeOK
  <2>3. NoView \in 0 .. NoView /\ None \in Nat
    BY VideoAssumption DEF NoView, None
  <2>4. TypeOK'
    BY <1>0, <2>1, <2>2, <2>3 DEF window, socket, codec, device, TypeOK, Places
  <2>5. CountInv' /\ FrameInv' /\ ViewInv'
    BY <1>0, <2>1 DEF codec, CountInv, FrameInv, ViewInv, Left
  <2> QED BY <2>4, <2>5 DEF Typed
<1>9. ASSUME NEW k \in DOMAIN gpu, Upload(k) \/ Draw(k)
      PROVE  Typed'
  <2>1. UNCHANGED <<window, socket, codec, pc, eof, slots, yuv_layout>>
    BY <1>9 DEF Upload, Draw
  <2>2. gpu \in Seq(Job) /\ k \in 1 .. Len(gpu)
    BY <1>0, LenProperties DEF TypeOK
  <2>3. gpu' \in Seq(Job)
    <3>1. CASE Upload(k)
      <4> DEFINE job == [gpu[k] EXCEPT !.uploaded = TRUE]
      <4>1. gpu[k] \in Job
        BY <2>2, ElementOfSeq
      <4>2. job \in Job
        BY <4>1 DEF Job
      <4>3. gpu' = [gpu EXCEPT ![k] = job]
        BY <3>1 DEF Upload
      <4> HIDE DEF job
      <4> QED BY <2>2, <4>2, <4>3, ExceptSeq
    <3>2. CASE Draw(k)
      BY <2>2, <3>2, RemoveAtProperties DEF Draw
    <3> QED BY <1>9, <3>1, <3>2
  <2>4. yuv' \in [layout : Layouts, picture : Nat] /\ shown' \in [Slots -> Nat]
    <3>1. gpu[k] \in Job
      BY <2>2, ElementOfSeq
    <3>2. CASE Upload(k)
      <4>1. staging[gpu[k].slot] \in Nat
        BY <1>0, <3>1 DEF TypeOK, Job
      <4> QED BY <1>0, <3>2, <4>1 DEF Upload, TypeOK, Layouts
    <3>3. CASE Draw(k)
      <4>1. yuv.picture \in Nat
        BY <1>0 DEF TypeOK
      <4> QED BY <1>0, <3>3, <4>1 DEF Draw, TypeOK
    <3> QED BY <1>9, <3>2, <3>3
  <2>5. Pool!PoolTypeOK'
    BY <1>0, <2>1 DEF window, TypeOK, Pool!PoolTypeOK
  <2>6. TypeOK'
    BY <1>0, <2>1, <2>3, <2>4, <2>5 DEF window, socket, codec, slots, TypeOK
  <2>7. CountInv' /\ FrameInv' /\ ViewInv'
    BY <1>0, <2>1 DEF window, codec, slots, CountInv, FrameInv, ViewInv, Left
  <2> QED BY <2>6, <2>7 DEF Typed
<1>10. ASSUME NEW i \in Slots, Release(i)
       PROVE  Typed'
  <2>1. /\ UNCHANGED <<image, socket, codec, pc, eof, slots, yuv_layout, device>>
        /\ Pool!Release(i)
    BY <1>10 DEF Release
  <2>2. Pool!PoolTypeOK'
    BY <1>0, <2>1, PoolMoves DEF TypeOK
  <2>3. TypeOK'
    BY <1>0, <2>1, <2>2 DEF socket, codec, slots, device, TypeOK
  <2>4. CountInv' /\ FrameInv' /\ ViewInv'
    BY <1>0, <2>1 DEF codec, slots, CountInv, FrameInv, ViewInv, Left
  <2> QED BY <2>3, <2>4 DEF Typed
<1> QED BY <1>1, <1>2, <1>3, <1>4, <1>5, <1>6, <1>7, <1>8, <1>9, <1>10
        DEF Next, Main, Gpu, Ended

\* Every reachable state of the player is well typed: no packet is lost, and
\* the codec returns no picture it was not fed.
THEOREM PlayerTypes == Spec => []TypeOK
<1>1. Typed => TypeOK
  BY DEF Typed
<1> QED BY <1>1, TypeInit, TypeStep, PTL DEF Spec

----------------------------------------------------------------------------
(* The order of the pictures.                                              *)

\* The pictures committed so far.
Presented == sent \o out

\* What the frame at hand is next to them, and what waits to be flushed: the
\* picture of the last present, while the decoder works on the next one.
OrderInv ==
  /\ \A k \in DOMAIN Presented : Presented[k] = k
  /\ pc \in {"receive", "read", "none"} => frame = Len(Presented)
  /\ pc \in {"wait", "lent", "submitted"} => frame = Len(Presented) + 1
  /\ pc \in {"lent", "submitted"} => out = <<>>
  /\ pc \in {"receive", "read", "none", "wait"} /\ Len(Presented) # 0 =>
       out = <<Len(Presented)>>
  /\ pc = "none" => frame = fed
  /\ eof => /\ pc \in {"finish", "ended", "fatal"}
            /\ pc # "fatal" => /\ frame = fed /\ frame = Len(Presented)
                               /\ out = <<Len(Presented)>>

LEMMA PresentedType ==
  ASSUME TypeOK
  PROVE  /\ Presented \in Seq(Nat \ {None})
         /\ Len(Presented) \in Nat
         /\ DOMAIN Presented = 1 .. Len(Presented)
BY ConcatProperties, LenProperties DEF Presented, TypeOK

LEMMA OrderInit == Init => OrderInv
<1> SUFFICES ASSUME Init
             PROVE  OrderInv
  OBVIOUS
<1>1. sent = <<>> /\ out = <<>> /\ pc = "receive" /\ frame = 0 /\ eof = FALSE
  BY DEF Init, None
<1>2. <<>> \in Seq(Nat) /\ Len(<<>>) = 0
  BY EmptySeq
<1>3. <<>> \o <<>> = <<>>
  BY <1>2, ConcatEmptySeq
<1>4. Presented = <<>>
  BY <1>1, <1>3 DEF Presented
<1>5. Len(Presented) = 0 /\ DOMAIN Presented = {}
  BY <1>4
<1> QED BY <1>1, <1>5 DEF OrderInv

\* Flushing moves what was committed, and keeps its order.
LEMMA FlushKeeps ==
  ASSUME TypeOK, sent' = sent \o out, out' = <<>>
  PROVE  Presented' = Presented
<1>1. Presented \in Seq(Nat \ {None})
  BY PresentedType
<1>2. Presented \o <<>> = Presented
  BY <1>1, ConcatEmptySeq
<1> QED BY <1>2 DEF Presented

\* A present adds the frame at hand behind what was presented.
LEMMA PresentAppends ==
  ASSUME Typed, OrderInv, Present
  PROVE  /\ Presented' = Append(Presented, frame)
         /\ out' = <<frame>>
         /\ frame \in Nat \ {None} /\ frame = Len(Presented) + 1
<1>1. /\ pc = "submitted" /\ out' = Append(out, frame) /\ sent' = sent
      /\ out = <<>> /\ frame = Len(Presented) + 1
  BY DEF Present, OrderInv
<1>2. frame \in Nat \ {None} /\ sent \in Seq(Nat \ {None}) /\ out \in Seq(Nat \ {None})
  BY <1>1 DEF Typed, TypeOK, FrameInv, CountInv
<1>3. <<>> \in Seq(Nat \ {None})
  BY EmptySeq
<1>4. Append(<<>>, frame) = <<>> \o <<frame>>
  BY <1>2, <1>3, AppendIsConcat
<1>5. <<frame>> \in Seq(Nat \ {None})
  BY <1>2
<1>6. <<>> \o <<frame>> = <<frame>>
  BY <1>5, ConcatEmptySeq
<1>7. out' = <<frame>>
  BY <1>1, <1>4, <1>6
<1>8. Append(sent, frame) = sent \o <<frame>>
  BY <1>2, AppendIsConcat
<1>9. sent \o <<>> = sent
  BY <1>2, ConcatEmptySeq
<1>10. Presented' = Append(Presented, frame)
  BY <1>1, <1>7, <1>8, <1>9 DEF Presented
<1> QED BY <1>1, <1>2, <1>7, <1>10

LEMMA OrderStep == Typed /\ OrderInv /\ [Next]_vars => OrderInv'
<1> SUFFICES ASSUME Typed, OrderInv, [Next]_vars
             PROVE  OrderInv'
  OBVIOUS
<1>0. /\ Len(Presented) \in Nat /\ DOMAIN Presented = 1 .. Len(Presented)
      /\ TypeOK /\ frame \in Nat
  BY PresentedType DEF Typed, TypeOK, CountInv
<1>1. CASE ReceiveFrame \/ ReceiveAgain \/ ReceiveEof \/ DecodedNone \/ ReadPacket \/ ReadEnd
  <2>1. UNCHANGED <<sent, out>>
    BY <1>1 DEF ReceiveFrame, ReceiveAgain, ReceiveEof, DecodedNone, ReadPacket, ReadEnd,
       socket
  <2>2. Presented' = Presented
    BY <2>1 DEF Presented
  <2>3. CASE ReceiveFrame
    BY <1>0, <2>1, <2>2, <2>3 DEF ReceiveFrame, OrderInv
  <2>4. CASE ReceiveAgain \/ ReceiveEof
    BY <2>1, <2>2, <2>4 DEF ReceiveAgain, ReceiveEof, codec, OrderInv
  <2>5. CASE DecodedNone
    <3>1. /\ pc = "none" /\ UNCHANGED <<fed, frame>>
          /\ eof' => frame # 0 /\ pc' = "finish"
          /\ pc' \in {"fatal", "finish"}
      BY <2>5 DEF DecodedNone, codec, None
    <3>2. frame = fed /\ frame = Len(Presented) /\ (frame # 0 => out = <<Len(Presented)>>)
      BY <3>1 DEF OrderInv
    <3> QED BY <2>1, <2>2, <3>1, <3>2 DEF OrderInv
  <2>6. CASE ReadPacket \/ ReadEnd
    BY <2>1, <2>2, <2>6 DEF ReadPacket, ReadEnd, AfterEnd, OrderInv
  <2> QED BY <1>1, <2>3, <2>4, <2>5, <2>6
<1>2. CASE WaitFrame
  <2>1. /\ sent' = sent \o out /\ out' = <<>> /\ pc = "wait" /\ pc' = "lent"
        /\ UNCHANGED <<fed, frame, eof>>
    BY <1>2 DEF WaitFrame, codec
  <2>2. Presented' = Presented
    BY <1>0, <2>1, FlushKeeps
  <2> QED BY <2>1, <2>2 DEF OrderInv
<1>3. CASE WindowClosed
  <2>1. /\ pc = "wait" /\ pc' = "finish" /\ UNCHANGED <<fed, frame, eof>>
        /\ \/ sent' = sent \o out /\ out' = <<>>
           \/ UNCHANGED <<sent, out>>
    BY <1>3 DEF WindowClosed, codec, socket
  <2>2. Presented' = Presented
    <3>1. CASE sent' = sent \o out /\ out' = <<>>
      BY <1>0, <3>1, FlushKeeps
    <3>2. CASE UNCHANGED <<sent, out>>
      BY <3>2 DEF Presented
    <3> QED BY <2>1, <3>1, <3>2
  <2>3. ~eof
    BY <2>1 DEF OrderInv
  <2> QED BY <2>1, <2>2, <2>3 DEF OrderInv
<1>4. CASE Present
  <2>1. /\ pc = "submitted" /\ pc' = "receive"
        /\ UNCHANGED <<fed, frame, eof>>
    BY <1>4 DEF Present, codec
  <2>2. PICK n \in Nat : n = Len(Presented)
    BY <1>0
  <2>3. /\ Presented' = Append(Presented, frame) /\ out' = <<frame>> /\ frame = n + 1
        /\ frame \in Nat \ {None} /\ Presented \in Seq(Nat \ {None})
    BY <1>0, <1>4, <2>2, PresentAppends, PresentedType
  <2>4. /\ Len(Presented') = n + 1
        /\ \A k \in 1 .. n : Presented'[k] = Presented[k]
        /\ Presented'[n + 1] = frame
    BY <2>2, <2>3, AppendProperties
  <2>5. DOMAIN Presented' = 1 .. n + 1
    <3>1. Presented' \in Seq(Nat \ {None})
      BY <2>3, AppendProperties
    <3> QED BY <2>4, <3>1, LenProperties
  <2>6. \A k \in 1 .. n : Presented[k] = k
    BY <1>0, <2>2 DEF OrderInv
  <2>7. \A k \in 1 .. n + 1 : Presented'[k] = k
    BY <2>3, <2>4, <2>6
  <2>8. ~eof
    BY <2>1 DEF OrderInv
  <2> QED BY <2>1, <2>3, <2>4, <2>5, <2>7, <2>8 DEF OrderInv
<1>5. CASE \/ UNCHANGED vars \/ Resize \/ Render \/ Finish \/ Throw
           \/ (\E k \in DOMAIN gpu : Upload(k) \/ Draw(k))
           \/ (\E i \in Slots : Release(i))
  <2>1. UNCHANGED <<sent, out, fed, frame, eof>>
    BY <1>5 DEF vars, Resize, Render, Finish, Throw, Upload, Draw, Release, codec, socket
  <2>2. Presented' = Presented
    BY <2>1 DEF Presented
  <2>3. \/ pc' = pc \/ pc' = "fatal"
        \/ pc = "lent" /\ pc' = "submitted"
        \/ pc = "finish" /\ pc' = "ended"
    BY <1>5 DEF vars, Resize, Render, Finish, Throw, Upload, Draw, Release
  <2>4. CASE pc' = pc
    BY <2>1, <2>2, <2>4 DEF OrderInv
  <2>5. CASE pc' = "fatal"
    BY <2>1, <2>2, <2>5 DEF OrderInv
  <2>6. CASE pc = "lent" /\ pc' = "submitted"
    BY <2>1, <2>2, <2>6 DEF OrderInv
  <2>7. CASE pc = "finish" /\ pc' = "ended"
    BY <2>1, <2>2, <2>7 DEF OrderInv
  <2> QED BY <2>3, <2>4, <2>5, <2>6, <2>7
<1> QED BY <1>1, <1>2, <1>3, <1>4, <1>5 DEF Next, Main, Gpu, Ended

\* Every picture is committed once, in order, to the last of the file.
THEOREM OrderSafety == Spec => []EveryPictureOnce
<1>1. Typed /\ OrderInv => EveryPictureOnce
  <2> SUFFICES ASSUME Typed, OrderInv
               PROVE  EveryPictureOnce
    OBVIOUS
  <2>1. \A k \in DOMAIN Presented : Presented[k] = k
    BY DEF OrderInv
  <2>2. ASSUME pc = "ended", eof
        PROVE  /\ file = <<>> => Len(Presented) = total
               /\ out = <<Len(Presented)>>
    <3>1. frame = fed /\ frame = Len(Presented) /\ out = <<Len(Presented)>>
      BY <2>2 DEF OrderInv
    <3>2. ASSUME file = <<>>
          PROVE  fed = total
      <4>1. Left = 0
        BY <3>2, LeftType DEF Typed, TypeOK
      <4> QED BY <4>1 DEF Typed, TypeOK, CountInv
    <3> QED BY <3>1, <3>2
  <2> QED BY <2>1, <2>2 DEF EveryPictureOnce, Presented
<1> QED BY <1>1, TypeInit, TypeStep, OrderInit, OrderStep, PTL DEF Spec

----------------------------------------------------------------------------
(* Pending work.                                                           *)

Idle(i) == \A k \in DOMAIN gpu : gpu[k].slot # i

\* A slot has one submission at most, and none while it is free or lent.
SlotInv ==
  /\ \A j, k \in DOMAIN gpu : gpu[j].slot = gpu[k].slot => j = k
  /\ \A i \in Slots : owner[i] = "free" => Idle(i)
  /\ pc = "lent" => Idle(turn)
  /\ pc \in {"lent", "submitted"} => owner[turn] = "app"

\* No image is rebuilt, and no view with it, under pending work.
LiveViews == \A k \in DOMAIN gpu : gpu[k].view = image /\ view[gpu[k].slot] = image

\* Every upload but the first ever waits for the sampling before it, so only the
\* oldest submission may have uploaded; the player's record of the layout is
\* what the submissions will leave.
LayoutInv ==
  /\ \A k \in DOMAIN gpu :
       /\ ~gpu[k].waits => k = 1
       /\ gpu[k].uploaded => k = 1 /\ yuv.layout = "shader_read"
       /\ ~gpu[k].uploaded =>
            gpu[k].old = IF k = 1 THEN yuv.layout ELSE "shader_read"
  /\ yuv_layout = IF gpu = <<>> THEN yuv.layout ELSE "shader_read"

WorkInv == SlotInv /\ LiveViews /\ LayoutInv

LEMMA WorkInit == Init => WorkInv
<1> SUFFICES ASSUME Init
             PROVE  WorkInv
  OBVIOUS
<1>1. gpu = <<>> /\ pc = "receive" /\ yuv_layout = "undefined" /\ yuv.layout = "undefined"
  BY DEF Init
<1>2. DOMAIN gpu = {}
  BY <1>1
<1> QED BY <1>1, <1>2 DEF WorkInv, SlotInv, LiveViews, LayoutInv, Idle

\* The members of the queue behind a submission, and behind one removed.
LEMMA QueueAppend ==
  ASSUME gpu \in Seq(Job), NEW job \in Job, gpu' = Append(gpu, job)
  PROVE  /\ Len(gpu) \in Nat /\ DOMAIN gpu = 1 .. Len(gpu)
         /\ DOMAIN gpu' = 1 .. Len(gpu) + 1
         /\ \A k \in DOMAIN gpu : gpu'[k] = gpu[k]
         /\ gpu'[Len(gpu) + 1] = job
         /\ gpu' # <<>>
<1>1. Len(gpu) \in Nat /\ DOMAIN gpu = 1 .. Len(gpu)
  BY LenProperties
<1>2. /\ gpu' \in Seq(Job) /\ gpu' # <<>> /\ Len(gpu') = Len(gpu) + 1
      /\ \A k \in 1 .. Len(gpu) : gpu'[k] = gpu[k]
      /\ gpu'[Len(gpu) + 1] = job
  BY AppendProperties
<1>3. DOMAIN gpu' = 1 .. Len(gpu')
  BY <1>2, LenProperties
<1> QED BY <1>1, <1>2, <1>3

\* Only the first of the queue has uploaded, so it is the one that draws.
LEMMA QueueDraw ==
  ASSUME gpu \in Seq(Job), LayoutInv, NEW k \in DOMAIN gpu, Draw(k)
  PROVE  /\ k = 1 /\ gpu[1].uploaded /\ gpu[1] \in Job
         /\ Len(gpu) \in Nat \ {0} /\ DOMAIN gpu = 1 .. Len(gpu)
         /\ DOMAIN gpu' = 1 .. Len(gpu) - 1
         /\ \A j \in DOMAIN gpu' : gpu'[j] = gpu[j + 1] /\ j + 1 \in DOMAIN gpu
<1>1. k = 1 /\ gpu[1].uploaded /\ gpu' = RemoveAt(gpu, 1)
  BY DEF Draw, LayoutInv
<1>2. Len(gpu) \in Nat /\ DOMAIN gpu = 1 .. Len(gpu) /\ 1 \in 1 .. Len(gpu)
  BY <1>1, LenProperties
<1>3. /\ gpu' \in Seq(Job) /\ Len(gpu') = Len(gpu) - 1
      /\ \A j \in 1 .. Len(gpu) - 1 : gpu'[j] = IF j < 1 THEN gpu[j] ELSE gpu[j + 1]
  BY <1>1, <1>2, RemoveAtProperties
<1>4. DOMAIN gpu' = 1 .. Len(gpu')
  BY <1>3, LenProperties
<1>5. gpu[1] \in Job
  BY <1>2, ElementOfSeq
<1> QED BY <1>1, <1>2, <1>3, <1>4, <1>5

\* Only the first of the queue may upload.
LEMMA QueueUpload ==
  ASSUME gpu \in Seq(Job), LayoutInv, NEW k \in DOMAIN gpu, Upload(k)
  PROVE  /\ k = 1 /\ ~gpu[1].uploaded /\ gpu[1] \in Job
         /\ Len(gpu) \in Nat \ {0} /\ DOMAIN gpu = 1 .. Len(gpu) /\ DOMAIN gpu' = DOMAIN gpu
         /\ \A j \in DOMAIN gpu : j # 1 => gpu'[j] = gpu[j]
         /\ gpu'[1].slot = gpu[1].slot /\ gpu'[1].picture = gpu[1].picture
         /\ gpu'[1].view = gpu[1].view /\ gpu'[1].waits = gpu[1].waits
         /\ gpu'[1].uploaded
<1>1. /\ ~gpu[k].uploaded /\ (gpu[k].waits => k = 1)
      /\ gpu' = [gpu EXCEPT ![k].uploaded = TRUE]
  BY DEF Upload
<1>2. k = 1
  BY <1>1 DEF LayoutInv
<1>3. Len(gpu) \in Nat /\ DOMAIN gpu = 1 .. Len(gpu) /\ 1 \in 1 .. Len(gpu)
  BY <1>2, LenProperties
<1>4. gpu[1] \in Job
  BY <1>3, ElementOfSeq
<1> DEFINE job == [gpu[1] EXCEPT !.uploaded = TRUE]
<1>5. /\ job.slot = gpu[1].slot /\ job.picture = gpu[1].picture /\ job.view = gpu[1].view
      /\ job.waits = gpu[1].waits /\ job.uploaded
  BY <1>4 DEF Job
<1>6. gpu' = [gpu EXCEPT ![1] = job]
  BY <1>1, <1>2
<1> HIDE DEF job
<1>7. /\ DOMAIN gpu' = DOMAIN gpu /\ gpu'[1] = job
      /\ \A j \in DOMAIN gpu : j # 1 => gpu'[j] = gpu[j]
  BY <1>3, <1>6
<1> QED BY <1>1, <1>2, <1>3, <1>4, <1>5, <1>7

LEMMA WorkStep == Typed /\ WorkInv /\ [Next]_vars => WorkInv'
<1> SUFFICES ASSUME Typed, WorkInv, [Next]_vars
             PROVE  WorkInv'
  OBVIOUS
<1>0. /\ TypeOK /\ SlotInv /\ LiveViews /\ LayoutInv
      /\ gpu \in Seq(Job) /\ turn \in Slots
      /\ owner \in [Slots -> {"free", "app", "display"}]
  BY DEF Typed, TypeOK, WorkInv, Pool!PoolTypeOK, Pool!Slots, Slots
<1>1. CASE Render
  <2> DEFINE job == [slot |-> turn, picture |-> frame, view |-> CurrentView(turn),
                     old |-> yuv_layout, waits |-> WaitsForSampling, uploaded |-> FALSE]
  <2>1. /\ job \in Job /\ gpu' = Append(gpu, job) /\ pc = "lent"
        /\ pc' = "submitted" /\ UNCHANGED <<owner, turn, image, yuv>>
        /\ view' = [view EXCEPT ![turn] = CurrentView(turn)]
        /\ yuv_layout' = "shader_read"
        /\ CurrentView(turn) = image
    BY <1>1, JobType DEF Render, window
  <2>2. /\ job.slot = turn /\ job.view = image /\ job.old = yuv_layout
        /\ job.waits = (yuv_layout # "undefined") /\ job.uploaded = FALSE
    BY <2>1 DEF WaitsForSampling
  <2> HIDE DEF job
  <2>3. /\ Len(gpu) \in Nat /\ DOMAIN gpu = 1 .. Len(gpu)
        /\ DOMAIN gpu' = 1 .. Len(gpu) + 1
        /\ \A k \in DOMAIN gpu : gpu'[k] = gpu[k]
        /\ gpu'[Len(gpu) + 1] = job
        /\ gpu' # <<>>
    BY <1>0, <2>1, QueueAppend
  <2>4. Idle(turn) /\ owner[turn] = "app"
    BY <1>0, <2>1 DEF SlotInv
  <2>5. SlotInv'
    <3>1. \A j, k \in DOMAIN gpu' : gpu'[j].slot = gpu'[k].slot => j = k
      BY <1>0, <2>2, <2>3, <2>4 DEF SlotInv, Idle
    <3>2. ASSUME NEW i \in Slots, owner'[i] = "free"
          PROVE  Idle(i)'
      <4>1. i # turn /\ Idle(i)
        BY <1>0, <2>1, <2>4, <3>2 DEF SlotInv
      <4> QED BY <2>2, <2>3, <4>1 DEF Idle
    <3> QED BY <2>1, <2>4, <3>1, <3>2 DEF SlotInv
  <2>6. LiveViews'
    <3>1. \A k \in DOMAIN gpu : gpu[k].slot # turn /\ view'[gpu[k].slot] = view[gpu[k].slot]
      BY <1>0, <2>1, <2>4 DEF Idle, TypeOK
    <3>2. view'[turn] = image
      BY <1>0, <2>1 DEF TypeOK
    <3> QED BY <1>0, <2>1, <2>2, <2>3, <3>1, <3>2 DEF LiveViews
  <2>7. LayoutInv'
    <3>1. CASE gpu = <<>>
      <4>1. Len(gpu) = 0
        BY <3>1
      <4> QED BY <1>0, <2>1, <2>2, <2>3, <3>1, <4>1 DEF LayoutInv
    <3>2. CASE gpu # <<>>
      <4>1. Len(gpu) # 0 /\ yuv_layout = "shader_read"
        BY <1>0, <3>2, EmptySeq DEF LayoutInv
      <4>2. job.waits /\ job.old = "shader_read" /\ Len(gpu) + 1 # 1
        <5>1. yuv_layout # "undefined"
          BY <4>1
        <5>2. job.waits
          BY <2>2, <5>1
        <5>3. Len(gpu) + 1 # 1
          BY <2>3, <4>1
        <5> QED BY <2>2, <4>1, <5>2, <5>3
      <4> QED BY <1>0, <2>1, <2>2, <2>3, <4>2 DEF LayoutInv
    <3> QED BY <3>1, <3>2
  <2> QED BY <2>5, <2>6, <2>7 DEF WorkInv
<1>2. ASSUME NEW k \in DOMAIN gpu, Upload(k)
      PROVE  WorkInv'
  <2>1. /\ UNCHANGED <<owner, turn, image, pc, view, yuv_layout>>
        /\ yuv'.layout = "shader_read"
    BY <1>2 DEF Upload, window, slots
  <2>2. /\ k = 1 /\ ~gpu[1].uploaded /\ gpu[1] \in Job
        /\ Len(gpu) \in Nat \ {0} /\ DOMAIN gpu = 1 .. Len(gpu) /\ DOMAIN gpu' = DOMAIN gpu
        /\ \A j \in DOMAIN gpu : j # 1 => gpu'[j] = gpu[j]
        /\ gpu'[1].slot = gpu[1].slot /\ gpu'[1].picture = gpu[1].picture
        /\ gpu'[1].view = gpu[1].view /\ gpu'[1].waits = gpu[1].waits
        /\ gpu'[1].uploaded
    BY <1>0, <1>2, QueueUpload
  <2>3. \A j \in DOMAIN gpu : gpu'[j].slot = gpu[j].slot /\ gpu'[j].view = gpu[j].view
                              /\ gpu'[j].waits = gpu[j].waits
    BY <2>2
  <2>4. SlotInv'
    BY <1>0, <2>1, <2>2, <2>3 DEF SlotInv, Idle
  <2>5. LiveViews'
    BY <1>0, <2>1, <2>2, <2>3 DEF LiveViews
  <2>6. gpu # <<>> /\ gpu' # <<>>
    BY <2>2
  <2>7. LayoutInv'
    BY <1>0, <2>1, <2>2, <2>3, <2>6 DEF LayoutInv
  <2> QED BY <2>4, <2>5, <2>7 DEF WorkInv
<1>3. ASSUME NEW k \in DOMAIN gpu, Draw(k)
      PROVE  WorkInv'
  <2>1. UNCHANGED <<owner, turn, image, pc, view, yuv_layout, yuv>>
    BY <1>3 DEF Draw, window, slots
  <2>2. /\ k = 1 /\ gpu[1].uploaded /\ gpu[1] \in Job
        /\ Len(gpu) \in Nat \ {0} /\ DOMAIN gpu = 1 .. Len(gpu)
        /\ DOMAIN gpu' = 1 .. Len(gpu) - 1
        /\ \A j \in DOMAIN gpu' : gpu'[j] = gpu[j + 1] /\ j + 1 \in DOMAIN gpu
    BY <1>0, <1>3, QueueDraw
  <2>3. SlotInv'
    <3>1. ASSUME NEW i \in DOMAIN gpu', NEW j \in DOMAIN gpu', gpu'[i].slot = gpu'[j].slot
          PROVE  i = j
      <4>1. i + 1 = j + 1
        BY <1>0, <2>2, <3>1 DEF SlotInv
      <4> QED BY <2>2, <4>1
    <3>2. \A i \in Slots : Idle(i) => Idle(i)'
      BY <2>2 DEF Idle
    <3>3. Idle(turn) => Idle(turn)'
      BY <2>1, <2>2 DEF Idle
    <3> QED BY <1>0, <2>1, <3>1, <3>2, <3>3 DEF SlotInv
  <2>4. LiveViews'
    BY <1>0, <2>1, <2>2 DEF LiveViews
  <2>5. gpu # <<>> /\ yuv.layout = "shader_read" /\ yuv_layout = "shader_read"
    BY <1>0, <2>2 DEF LayoutInv
  <2>6. ASSUME NEW j \in DOMAIN gpu'
        PROVE  /\ gpu'[j].waits /\ ~gpu'[j].uploaded
               /\ gpu'[j].old = "shader_read"
    <3>1. j + 1 # 1 /\ gpu'[j] = gpu[j + 1] /\ j + 1 \in DOMAIN gpu
      BY <2>2
    <3> QED BY <1>0, <3>1 DEF LayoutInv
  <2>7. LayoutInv'
    BY <2>1, <2>5, <2>6 DEF LayoutInv
  <2> QED BY <2>3, <2>4, <2>7 DEF WorkInv
<1>4. CASE WaitFrame
  <2>1. /\ Pool!Acquire(turn) /\ UNCHANGED <<image, view, yuv_layout, gpu, yuv>>
        /\ pc' = "lent"
    BY <1>4 DEF WaitFrame, slots, device
  <2>2. owner[turn] = "free" /\ owner' = [owner EXCEPT ![turn] = "app"] /\ turn' = turn
    BY <1>0, <2>1, PoolMoves DEF TypeOK
  <2>3. Idle(turn)
    BY <1>0, <2>2 DEF SlotInv
  <2>4. SlotInv'
    BY <1>0, <2>1, <2>2, <2>3 DEF SlotInv, Idle
  <2>5. LiveViews' /\ LayoutInv'
    BY <1>0, <2>1 DEF LiveViews, LayoutInv
  <2> QED BY <2>4, <2>5 DEF WorkInv
<1>5. CASE Present \/ (\E i \in Slots : Release(i))
  <2>1. /\ UNCHANGED <<image, view, yuv_layout, gpu, yuv>>
        /\ pc' \notin {"lent", "submitted"} \/ (pc' = pc /\ turn' = turn)
    BY <1>5, PoolMoves, <1>0 DEF Present, Release, slots, device, TypeOK
  <2>2. \A i \in Slots : owner'[i] = "free" => owner[i] = "free" \/ Idle(i)
    <3>1. CASE Present
      <4>1. owner' = [owner EXCEPT ![turn] = "display"]
        BY <1>0, <3>1, PoolMoves DEF Present, TypeOK
      <4> QED BY <1>0, <4>1
    <3>2. ASSUME NEW s \in Slots, Release(s)
          PROVE  \A i \in Slots : owner'[i] = "free" => owner[i] = "free" \/ Idle(i)
      <4>1. owner' = [owner EXCEPT ![s] = "free"] /\ Idle(s)
        BY <1>0, <3>2, PoolMoves DEF Release, TypeOK, Idle
      <4> QED BY <1>0, <4>1
    <3> QED BY <1>5, <3>1, <3>2
  <2>3. pc' \in {"lent", "submitted"} => owner'[turn] = "app"
    <3>1. CASE Present
      BY <3>1 DEF Present
    <3>2. ASSUME NEW s \in Slots, Release(s), pc' \in {"lent", "submitted"}
          PROVE  owner'[turn] = "app"
      <4>1. owner' = [owner EXCEPT ![s] = "free"] /\ owner[s] = "display" /\ pc' = pc
        BY <1>0, <3>2, PoolMoves DEF Release, TypeOK
      <4>2. owner[turn] = "app"
        BY <1>0, <3>2, <4>1 DEF SlotInv
      <4> QED BY <1>0, <4>1, <4>2
    <3> QED BY <1>5, <3>1, <3>2
  <2>4. SlotInv'
    BY <1>0, <2>1, <2>2, <2>3 DEF SlotInv, Idle
  <2>5. LiveViews' /\ LayoutInv'
    BY <1>0, <2>1 DEF LiveViews, LayoutInv
  <2> QED BY <2>4, <2>5 DEF WorkInv
<1>6. CASE Resize \/ Finish
  <2>1. /\ gpu = <<>> /\ UNCHANGED <<gpu, yuv, yuv_layout, owner, turn>>
        /\ pc' \notin {"lent", "submitted"}
    BY <1>6 DEF Resize, Finish, window, device
  <2>2. DOMAIN gpu = {}
    BY <2>1
  <2> QED BY <1>0, <2>1, <2>2 DEF WorkInv, SlotInv, LiveViews, LayoutInv, Idle
<1>7. CASE \/ UNCHANGED vars \/ WindowClosed \/ Throw
           \/ ReceiveFrame \/ ReceiveAgain \/ ReceiveEof \/ DecodedNone \/ ReadPacket \/ ReadEnd
  <2>1. UNCHANGED <<owner, turn, image, view, yuv_layout, gpu, yuv>>
    BY <1>7 DEF vars, WindowClosed, Throw, ReceiveFrame, ReceiveAgain, ReceiveEof,
       DecodedNone, ReadPacket, ReadEnd, window, slots, device
  <2>2. pc' \in {"lent", "submitted"} => pc' = pc
    BY <1>7 DEF vars, WindowClosed, Throw, ReceiveFrame, ReceiveAgain, ReceiveEof,
       DecodedNone, ReadPacket, ReadEnd, AfterEnd
  <2>3. SlotInv'
    BY <1>0, <2>1, <2>2 DEF SlotInv, Idle
  <2>4. LiveViews' /\ LayoutInv'
    BY <1>0, <2>1 DEF LiveViews, LayoutInv
  <2> QED BY <2>3, <2>4 DEF WorkInv
<1> QED BY <1>1, <1>2, <1>3, <1>4, <1>5, <1>6, <1>7 DEF Next, Main, Gpu, Ended

\* Nothing the GPU still has to do meets a view, a command buffer or a layout
\* that changed since it was submitted.
THEOREM WorkSafety == Spec => []PendingWorkSound
<1>1. WorkInv => PendingWorkSound
  BY DEF WorkInv, SlotInv, LiveViews, LayoutInv, Idle, PendingWorkSound
<1> QED BY <1>1, TypeInit, TypeStep, WorkInit, WorkStep, PTL DEF Spec

----------------------------------------------------------------------------
(* The pictures.                                                           *)

\* How many pictures were presented since a slot was, as LastOf counts them.
Since(i) == (turn + BufferCount - 1 - i) % BufferCount

\* Slots with a picture to show: those on display, and the one about to be.
Settled(i) == owner[i] = "display" \/ (pc = "submitted" /\ i = turn)

Due(i) == IF owner[i] = "display" THEN LastOf(i) ELSE frame

\* The staging buffer of a pending submission, and the shared image once it has
\* uploaded, hold its picture.
CarryInv ==
  \A k \in DOMAIN gpu :
    /\ staging[gpu[k].slot] = gpu[k].picture
    /\ gpu[k].uploaded => yuv.picture = gpu[k].picture

\* What a slot is due is on its way to it, or has arrived.
DueInv ==
  \A i \in Slots :
    Settled(i) =>
      /\ \A k \in DOMAIN gpu : gpu[k].slot = i => gpu[k].picture = Due(i)
      /\ Idle(i) => shown[i] = Due(i)

\* A slot on display was presented, no longer ago than a turn of the ring.
SinceInv == \A i \in Slots : owner[i] = "display" => Since(i) < Len(Presented)

PictureInv == CarryInv /\ DueInv /\ SinceInv

LEMMA PictureInit == Init => PictureInv
<1> SUFFICES ASSUME Init
             PROVE  PictureInv
  OBVIOUS
<1>1. gpu = <<>> /\ pc = "receive"
  BY DEF Init
<1>2. DOMAIN gpu = {}
  BY <1>1
<1>3. \A i \in Slots : owner[i] = "free"
  BY DEF Init, Pool!Init, Pool!Slots, Slots
<1> QED BY <1>1, <1>2, <1>3 DEF PictureInv, CarryInv, DueInv, SinceInv, Settled

LEMMA SinceType ==
  ASSUME turn \in Slots, NEW i \in Slots
  PROVE  /\ Since(i) \in 0 .. BufferCount - 1
         /\ Since(i) = IF i < turn THEN turn - 1 - i ELSE turn + BufferCount - 1 - i
<1> DEFINE n == BufferCount
           x == turn + BufferCount - 1 - i
<1>1. n \in Nat \ {0} /\ turn \in 0 .. n - 1 /\ i \in 0 .. n - 1
  BY VideoAssumption DEF Slots
<1>2. x \in Nat
  BY <1>1
<1>3. CASE i < turn
  <2>1. n <= x /\ x < 2 * n /\ x - n = turn - 1 - i
    BY <1>1, <1>3
  <2> HIDE DEF x, n
  <2>2. x % n = x - n
    BY <1>1, <1>2, <2>1
  <2> QED BY <1>1, <1>2, <1>3, <2>1, <2>2 DEF Since, x, n
<1>4. CASE ~(i < turn)
  <2>1. x < n
    BY <1>1, <1>4
  <2> HIDE DEF x, n
  <2>2. x % n = x
    BY <1>1, <1>2, <2>1
  <2> QED BY <1>1, <1>2, <1>4, <2>1, <2>2 DEF Since, x, n
<1> QED BY <1>3, <1>4

\* A present makes its slot the last one, and every other slot one older.
LEMMA SinceMoves ==
  ASSUME turn \in Slots, NEW i \in Slots, turn' = (turn + 1) % BufferCount
  PROVE  Since(i)' = IF i = turn THEN 0 ELSE Since(i) + 1
<1> DEFINE n == BufferCount
<1>1. n \in Nat \ {0} /\ turn \in 0 .. n - 1 /\ i \in 0 .. n - 1
  BY VideoAssumption DEF Slots
<1>2. turn' = IF turn = n - 1 THEN 0 ELSE turn + 1
  <2>1. CASE turn = n - 1
    BY <1>1, <2>1
  <2>2. CASE turn # n - 1
    BY <1>1, <2>2
  <2> QED BY <2>1, <2>2
<1>3. turn' \in 0 .. n - 1
  BY <1>1, <1>2
<1>4. Since(i)' = IF i < turn' THEN turn' - 1 - i ELSE turn' + n - 1 - i
  <2> DEFINE x == turn' + n - 1 - i
  <2>1. x \in Nat
    BY <1>1, <1>3
  <2>2. Since(i)' = x % n
    BY DEF Since
  <2>3. CASE i < turn'
    <3>1. n <= x /\ x < 2 * n /\ x - n = turn' - 1 - i
      BY <1>1, <1>3, <2>3
    <3> HIDE DEF x, n
    <3>2. x % n = x - n
      BY <1>1, <2>1, <3>1
    <3> QED BY <2>2, <2>3, <3>1, <3>2
  <2>4. CASE ~(i < turn')
    <3>1. x < n
      BY <1>1, <1>3, <2>4
    <3> HIDE DEF x, n
    <3>2. x % n = x
      BY <1>1, <2>1, <3>1
    <3> QED BY <2>2, <2>4, <3>2 DEF x
  <2> QED BY <2>3, <2>4
<1>5. Since(i) = IF i < turn THEN turn - 1 - i ELSE turn + n - 1 - i
  BY SinceType
<1> HIDE DEF n
<1> QED BY <1>1, <1>2, <1>4, <1>5

\* What is presented moves only with a present.
LEMMA LastKept ==
  ASSUME Presented' = Presented, turn' = turn, NEW i \in Slots
  PROVE  LastOf(i)' = LastOf(i) /\ Since(i)' = Since(i)
BY DEF LastOf, Presented, Since


\* A step that leaves the GPU's side alone, settles no slot and changes nothing
\* a settled slot is due.
LEMMA PictureKept ==
  ASSUME PictureInv, UNCHANGED <<staging, gpu, yuv, shown>>,
         \A i \in Slots : Settled(i)' => Settled(i) /\ Due(i)' = Due(i),
         SinceInv'
  PROVE  PictureInv'
<1>1. CarryInv'
  BY DEF PictureInv, CarryInv
<1>2. DueInv'
  BY DEF PictureInv, DueInv, Idle
<1> QED BY <1>1, <1>2 DEF PictureInv

\* A present hands the frame at hand to its slot, and what the other slots were
\* presented stays where they find it.
LEMMA PresentDue ==
  ASSUME Typed, OrderInv, WorkInv, PictureInv, Present
  PROVE  /\ \A i \in Slots : Settled(i)' => Settled(i) /\ Due(i)' = Due(i)
         /\ SinceInv'
<1>0. /\ TypeOK /\ turn \in Slots
      /\ owner \in [Slots -> {"free", "app", "display"}]
      /\ pc = "submitted" /\ pc' = "receive" /\ owner[turn] = "app"
  BY DEF Typed, TypeOK, WorkInv, SlotInv, Present, Pool!PoolTypeOK, Pool!Slots, Slots
<1>1. owner' = [owner EXCEPT ![turn] = "display"] /\ turn' = (turn + 1) % BufferCount
  BY <1>0, PoolMoves DEF Present, TypeOK
<1>2. PICK n \in Nat : n = Len(Presented)
  BY <1>0, PresentedType
<1>3. /\ Len(Presented') = n + 1
      /\ \A k \in 1 .. n : Presented'[k] = Presented[k]
      /\ Presented'[n + 1] = frame
  <2>1. Presented' = Append(Presented, frame) /\ frame \in Nat \ {None}
        /\ Presented \in Seq(Nat \ {None})
    BY <1>0, PresentAppends, PresentedType
  <2> QED BY <1>2, <2>1, AppendProperties
<1>4. \A i \in Slots : LastOf(i)' = Presented'[Len(Presented') - Since(i)']
                       /\ LastOf(i) = Presented[Len(Presented) - Since(i)]
  BY DEF LastOf, Presented, Since
<1>5. ASSUME NEW i \in Slots, Settled(i)'
      PROVE  Settled(i) /\ Due(i)' = Due(i) /\ Since(i)' < Len(Presented')
  <2>1. owner'[i] = "display" /\ Due(i)' = LastOf(i)'
    BY <1>0, <1>5 DEF Settled, Due
  <2>2. CASE i = turn
    <3>1. Since(i)' = 0
      BY <1>0, <1>1, <2>2, SinceMoves
    <3>2. LastOf(i)' = frame
      BY <1>2, <1>3, <1>4, <3>1
    <3>3. Settled(i) /\ Due(i) = frame
      BY <1>0, <2>2 DEF Settled, Due
    <3> QED BY <1>2, <1>3, <2>1, <3>1, <3>2, <3>3
  <2>3. CASE i # turn
    <3>1. owner[i] = "display"
      BY <1>0, <1>1, <2>1, <2>3
    <3>2. Since(i)' = Since(i) + 1
      BY <1>0, <1>1, <2>3, SinceMoves
    <3>3. PICK d \in Nat : d = Since(i)
      BY <1>0, SinceType, VideoAssumption
    <3>4. d < n
      BY <1>2, <3>1, <3>3 DEF PictureInv, SinceInv
    <3>5. n + 1 - (d + 1) = n - d /\ n - d \in 1 .. n
      BY <3>4
    <3>6. LastOf(i)' = LastOf(i)
      BY <1>2, <1>3, <1>4, <3>2, <3>3, <3>5
    <3>7. Settled(i) /\ Due(i) = LastOf(i)
      BY <3>1 DEF Settled, Due
    <3> QED BY <1>3, <2>1, <3>2, <3>3, <3>4, <3>6, <3>7
  <2> QED BY <2>2, <2>3
<1>6. SinceInv'
  BY <1>5 DEF SinceInv, Settled
<1> QED BY <1>5, <1>6

LEMMA PictureStep ==
  Typed /\ OrderInv /\ WorkInv /\ PictureInv /\ [Next]_vars => PictureInv'
<1> SUFFICES ASSUME Typed, OrderInv, WorkInv, PictureInv, [Next]_vars
             PROVE  PictureInv'
  OBVIOUS
<1>0. /\ TypeOK /\ SlotInv /\ LayoutInv /\ CarryInv /\ DueInv /\ SinceInv
      /\ gpu \in Seq(Job) /\ turn \in Slots
      /\ owner \in [Slots -> {"free", "app", "display"}]
      /\ staging \in [Slots -> Nat]
  BY DEF Typed, TypeOK, WorkInv, PictureInv, Pool!PoolTypeOK, Pool!Slots, Slots
<1>1. CASE Render
  <2> DEFINE job == [slot |-> turn, picture |-> frame, view |-> CurrentView(turn),
                     old |-> yuv_layout, waits |-> WaitsForSampling, uploaded |-> FALSE]
  <2>1. /\ job \in Job /\ gpu' = Append(gpu, job) /\ pc = "lent" /\ pc' = "submitted"
        /\ UNCHANGED <<owner, turn, sent, out, frame, yuv, shown>>
        /\ staging' = [staging EXCEPT ![turn] = frame]
    BY <1>1, JobType DEF Render, window, socket, codec
  <2>2. job.slot = turn /\ job.picture = frame /\ job.uploaded = FALSE
    BY <2>1
  <2> HIDE DEF job
  <2>3. /\ Len(gpu) \in Nat /\ DOMAIN gpu = 1 .. Len(gpu)
        /\ DOMAIN gpu' = 1 .. Len(gpu) + 1
        /\ \A k \in DOMAIN gpu : gpu'[k] = gpu[k]
        /\ gpu'[Len(gpu) + 1] = job
    BY <1>0, <2>1, QueueAppend
  <2>4. Idle(turn) /\ owner[turn] = "app" /\ Presented' = Presented
    BY <1>0, <2>1 DEF SlotInv, Presented
  <2>5. CarryInv'
    <3>1. staging'[turn] = frame
      BY <1>0, <2>1
    <3>2. \A k \in DOMAIN gpu : staging'[gpu[k].slot] = staging[gpu[k].slot]
      BY <1>0, <2>1, <2>4 DEF Idle
    <3> QED BY <1>0, <2>1, <2>2, <2>3, <3>1, <3>2 DEF CarryInv
  <2>6. DueInv'
    <3>1. ASSUME NEW i \in Slots, i # turn, Settled(i)'
          PROVE  /\ \A k \in DOMAIN gpu' : gpu'[k].slot = i => gpu'[k].picture = Due(i)'
                 /\ Idle(i)' => shown'[i] = Due(i)'
      <4>1. owner[i] = "display" /\ owner'[i] = "display"
        BY <2>1, <3>1 DEF Settled
      <4>2. Due(i) = LastOf(i) /\ Due(i)' = LastOf(i)
        BY <2>1, <2>4, <4>1, LastKept DEF Due
      <4>3. Settled(i)
        BY <4>1 DEF Settled
      <4>4. Idle(i)' => Idle(i)
        BY <2>3 DEF Idle
      <4> QED BY <1>0, <2>1, <2>2, <2>3, <3>1, <4>2, <4>3, <4>4 DEF DueInv
    <3>2. Due(turn)' = frame
      BY <2>1, <2>4 DEF Due
    <3>3. ~Idle(turn)'
      BY <2>1, <2>2, <2>3 DEF Idle
    <3>4. \A k \in DOMAIN gpu' : gpu'[k].slot = turn => gpu'[k].picture = frame
      BY <2>2, <2>3, <2>4 DEF Idle
    <3> QED BY <2>1, <3>1, <3>2, <3>3, <3>4 DEF DueInv
  <2>7. SinceInv'
    BY <1>0, <2>1, <2>4, LastKept DEF SinceInv
  <2> QED BY <2>5, <2>6, <2>7 DEF PictureInv
<1>2. CASE Present
  <2>1. UNCHANGED <<staging, gpu, yuv, shown>>
    BY <1>2 DEF Present, slots, device
  <2> QED BY <1>2, <2>1, PresentDue, PictureKept
<1>3. CASE WaitFrame
  <2>1. /\ UNCHANGED <<staging, gpu, yuv, shown, frame>> /\ pc' = "lent"
        /\ sent' = sent \o out /\ out' = <<>>
        /\ owner' = [owner EXCEPT ![turn] = "app"] /\ turn' = turn
    BY <1>0, <1>3, PoolMoves DEF WaitFrame, slots, device, codec, TypeOK
  <2>2. Presented' = Presented
    BY <1>0, <2>1, FlushKeeps
  <2>3. \A i \in Slots : owner'[i] = "display" => owner[i] = "display"
    BY <1>0, <2>1
  <2>4. \A i \in Slots : LastOf(i)' = LastOf(i) /\ Since(i)' = Since(i)
    BY <2>1, <2>2, LastKept
  <2>5. \A i \in Slots : Settled(i)' => Settled(i) /\ Due(i)' = Due(i)
    BY <2>1, <2>3, <2>4 DEF Settled, Due
  <2>6. SinceInv'
    BY <1>0, <2>2, <2>3, <2>4 DEF SinceInv
  <2> QED BY <2>1, <2>5, <2>6, PictureKept
<1>4. ASSUME NEW s \in Slots, Release(s)
      PROVE  PictureInv'
  <2>1. /\ UNCHANGED <<staging, gpu, yuv, shown, frame, sent, out, pc>>
        /\ owner[s] = "display"
        /\ owner' = [owner EXCEPT ![s] = "free"] /\ turn' = turn
    BY <1>0, <1>4, PoolMoves DEF Release, slots, device, codec, socket, TypeOK
  <2>2. Presented' = Presented
    BY <2>1 DEF Presented
  <2>3. \A i \in Slots : owner'[i] = "display" => owner[i] = "display"
    BY <1>0, <2>1
  <2>4. \A i \in Slots : LastOf(i)' = LastOf(i) /\ Since(i)' = Since(i)
    BY <2>1, <2>2, LastKept
  <2>5. pc = "submitted" => owner[turn] = "app" /\ owner'[turn] = "app"
    BY <1>0, <2>1 DEF SlotInv
  <2>6. \A i \in Slots : Settled(i)' => Settled(i) /\ Due(i)' = Due(i)
    <3>1. ASSUME NEW i \in Slots, owner'[i] = "display"
          PROVE  Settled(i) /\ Due(i)' = Due(i)
      BY <2>3, <2>4, <3>1 DEF Settled, Due
    <3>2. ASSUME pc = "submitted"
          PROVE  Settled(turn) /\ Due(turn)' = Due(turn)
      BY <2>1, <2>5, <3>2 DEF Settled, Due
    <3> QED BY <2>1, <3>1, <3>2 DEF Settled
  <2>7. SinceInv'
    BY <1>0, <2>2, <2>3, <2>4 DEF SinceInv
  <2> QED BY <2>1, <2>6, <2>7, PictureKept
<1>5. ASSUME NEW k \in DOMAIN gpu, Upload(k)
      PROVE  PictureInv'
  <2>1. /\ UNCHANGED <<owner, turn, sent, out, frame, pc, staging, shown>>
        /\ yuv'.picture = staging[gpu[k].slot]
    BY <1>5 DEF Upload, window, socket, codec, slots
  <2>2. /\ k = 1 /\ ~gpu[1].uploaded /\ gpu[1] \in Job
        /\ Len(gpu) \in Nat \ {0} /\ DOMAIN gpu = 1 .. Len(gpu) /\ DOMAIN gpu' = DOMAIN gpu
        /\ \A j \in DOMAIN gpu : j # 1 => gpu'[j] = gpu[j]
        /\ gpu'[1].slot = gpu[1].slot /\ gpu'[1].picture = gpu[1].picture
    BY <1>0, <1>5, QueueUpload
  <2>3. \A j \in DOMAIN gpu : gpu'[j].slot = gpu[j].slot /\ gpu'[j].picture = gpu[j].picture
    BY <2>2
  <2>4. Presented' = Presented
    BY <2>1 DEF Presented
  <2>5. \A i \in Slots : LastOf(i)' = LastOf(i) /\ Since(i)' = Since(i)
    BY <2>1, <2>4, LastKept
  <2>6. CarryInv'
    <3>1. yuv'.picture = gpu'[1].picture
      BY <1>0, <2>1, <2>2 DEF CarryInv
    <3>2. \A j \in DOMAIN gpu' : gpu'[j].uploaded => j = 1
      BY <1>0, <2>2 DEF LayoutInv
    <3> QED BY <1>0, <2>1, <2>2, <2>3, <3>1, <3>2 DEF CarryInv
  <2>7. DueInv'
    <3>1. \A i \in Slots : (Settled(i)' <=> Settled(i)) /\ Due(i)' = Due(i)
      BY <2>1, <2>5 DEF Settled, Due
    <3>2. \A i \in Slots : Idle(i)' <=> Idle(i)
      BY <2>2, <2>3 DEF Idle
    <3> QED BY <1>0, <2>1, <2>2, <2>3, <3>1, <3>2 DEF DueInv
  <2>8. SinceInv'
    BY <1>0, <2>1, <2>4, <2>5 DEF SinceInv
  <2> QED BY <2>6, <2>7, <2>8 DEF PictureInv
<1>6. ASSUME NEW k \in DOMAIN gpu, Draw(k)
      PROVE  PictureInv'
  <2>1. /\ UNCHANGED <<owner, turn, sent, out, frame, pc, staging, yuv>>
        /\ shown' = [shown EXCEPT ![gpu[k].slot] = yuv.picture]
    BY <1>6 DEF Draw, window, socket, codec, slots
  <2>2. /\ k = 1 /\ gpu[1].uploaded /\ gpu[1] \in Job
        /\ Len(gpu) \in Nat \ {0} /\ DOMAIN gpu = 1 .. Len(gpu)
        /\ DOMAIN gpu' = 1 .. Len(gpu) - 1
        /\ \A j \in DOMAIN gpu' : gpu'[j] = gpu[j + 1] /\ j + 1 \in DOMAIN gpu
    BY <1>0, <1>6, QueueDraw
  <2>3. Presented' = Presented
    BY <2>1 DEF Presented
  <2>4. \A i \in Slots : LastOf(i)' = LastOf(i) /\ Since(i)' = Since(i)
    BY <2>1, <2>3, LastKept
  <2>5. CarryInv'
    <3>1. ASSUME NEW j \in DOMAIN gpu'
          PROVE  staging'[gpu'[j].slot] = gpu'[j].picture /\ ~gpu'[j].uploaded
      <4>1. gpu'[j] = gpu[j + 1] /\ j + 1 \in DOMAIN gpu /\ j + 1 # 1
        BY <2>2
      <4> QED BY <1>0, <2>1, <4>1 DEF CarryInv, LayoutInv
    <3> QED BY <3>1 DEF CarryInv
  <2>6. DueInv'
    <3>1. \A i \in Slots : (Settled(i)' <=> Settled(i)) /\ Due(i)' = Due(i)
      BY <2>1, <2>4 DEF Settled, Due
    <3>2. ASSUME NEW i \in Slots, Settled(i)
          PROVE  \A j \in DOMAIN gpu' : gpu'[j].slot = i => gpu'[j].picture = Due(i)
      BY <1>0, <2>2, <3>2 DEF DueInv
    <3>3. ASSUME NEW i \in Slots, Settled(i), Idle(i)'
          PROVE  shown'[i] = Due(i)
      <4>1. CASE i = gpu[1].slot
        <5>1. shown'[i] = gpu[1].picture
          BY <1>0, <2>1, <2>2, <4>1 DEF CarryInv, TypeOK, Job
        <5> QED BY <1>0, <2>2, <3>3, <4>1, <5>1 DEF DueInv
      <4>2. CASE i # gpu[1].slot
        <5>1. Idle(i)
          <6>1. ASSUME NEW j \in DOMAIN gpu, j # 1
                PROVE  gpu[j].slot # i
            <7>1. j - 1 \in DOMAIN gpu' /\ j - 1 + 1 = j
              BY <2>2, <6>1
            <7> QED BY <2>2, <3>3, <7>1 DEF Idle
          <6> QED BY <4>2, <6>1 DEF Idle
        <5>2. shown'[i] = shown[i]
          BY <2>1, <2>2, <4>2
        <5> QED BY <1>0, <3>3, <5>1, <5>2 DEF DueInv
      <4> QED BY <4>1, <4>2
    <3> QED BY <3>1, <3>2, <3>3 DEF DueInv
  <2>7. SinceInv'
    BY <1>0, <2>1, <2>3, <2>4 DEF SinceInv
  <2> QED BY <2>5, <2>6, <2>7 DEF PictureInv
<1>7. CASE Resize \/ Finish
  <2>1. /\ gpu = <<>> /\ UNCHANGED <<gpu, shown, owner, turn, sent, out, frame>>
        /\ pc \notin {"submitted"} /\ pc' \notin {"submitted"}
    BY <1>7 DEF Resize, Finish, window, device, socket, codec
  <2>2. DOMAIN gpu = {} /\ DOMAIN gpu' = {}
    BY <2>1
  <2>3. Presented' = Presented
    BY <2>1 DEF Presented
  <2>4. \A i \in Slots : LastOf(i)' = LastOf(i) /\ Since(i)' = Since(i)
    BY <2>1, <2>3, LastKept
  <2>5. \A i \in Slots : (Settled(i)' <=> Settled(i)) /\ Due(i)' = Due(i)
    BY <2>1, <2>4 DEF Settled, Due
  <2>6. CarryInv' /\ DueInv'
    BY <1>0, <2>1, <2>2, <2>5 DEF CarryInv, DueInv, Idle
  <2>7. SinceInv'
    BY <1>0, <2>1, <2>3, <2>4 DEF SinceInv
  <2> QED BY <2>6, <2>7 DEF PictureInv
<1>8. CASE \/ UNCHANGED vars \/ WindowClosed \/ Throw
           \/ ReceiveFrame \/ ReceiveAgain \/ ReceiveEof \/ DecodedNone \/ ReadPacket \/ ReadEnd
  <2>1. /\ UNCHANGED <<owner, turn, staging, gpu, yuv, shown>>
        /\ \/ UNCHANGED <<sent, out>>
           \/ sent' = sent \o out /\ out' = <<>>
    BY <1>8 DEF vars, WindowClosed, Throw, ReceiveFrame, ReceiveAgain, ReceiveEof,
       DecodedNone, ReadPacket, ReadEnd, window, socket, slots, device
  <2>2. Presented' = Presented
    <3>1. CASE sent' = sent \o out /\ out' = <<>>
      BY <1>0, <3>1, FlushKeeps
    <3>2. CASE UNCHANGED <<sent, out>>
      BY <3>2 DEF Presented
    <3> QED BY <2>1, <3>1, <3>2
  <2>3. \A i \in Slots : LastOf(i)' = LastOf(i) /\ Since(i)' = Since(i)
    BY <2>1, <2>2, LastKept
  <2>4. pc' = "submitted" => pc = "submitted" /\ frame' = frame
    BY <1>8 DEF vars, codec, WindowClosed, Throw, ReceiveFrame, ReceiveAgain, ReceiveEof,
       DecodedNone, ReadPacket, ReadEnd, AfterEnd
  <2>5. \A i \in Slots : Settled(i)' => Settled(i) /\ Due(i)' = Due(i)
    BY <2>1, <2>3, <2>4 DEF Settled, Due
  <2>6. SinceInv'
    BY <1>0, <2>1, <2>2, <2>3 DEF SinceInv
  <2> QED BY <2>1, <2>5, <2>6, PictureKept
<1> QED BY <1>1, <1>2, <1>3, <1>4, <1>5, <1>6, <1>7, <1>8 DEF Next, Main, Gpu, Ended

\* The display reads the picture that was committed, though one shared image and
\* the reused staging buffers carry them all.
THEOREM PictureSafety == Spec => []DrawsOwnPicture
<1>1. PictureInv => DrawsOwnPicture
  BY DEF PictureInv, DueInv, Settled, Due, Idle, DrawsOwnPicture
<1> QED BY <1>1, TypeInit, TypeStep, OrderInit, OrderStep, WorkInit, WorkStep,
          PictureInit, PictureStep, PTL DEF Spec

============================================================================
