---------------------------- MODULE VideoPlayer ----------------------------
(***************************************************************************)
(* examples/video: a player that decodes pictures, uploads each into one   *)
(* shared image and draws that into the frames a wlvk::Window lends it.    *)
(* The window is its promise, FramePool, with the resizes and the close it *)
(* reports; the GPU runs what was submitted, earlier work no further ahead *)
(* than barriers ask for.  The loops of examples/clear and examples/static *)
(* are this one without decoder, upload and views.                         *)
(*                                                                         *)
(* A picture is its number in decoding order, an image or a view the       *)
(* number of resizes when it was built.                                    *)
(***************************************************************************)
EXTENDS Naturals, Sequences, FiniteSets, SequencesExt

CONSTANTS
  BufferCount,      \* kBufferCount
  CodecDelay,       \* pictures the codec may keep back
  MayFail,          \* a call may fail
  MaxPackets,       \* bound: packets of a file
  MaxResizes        \* bound: resizes

ASSUME VideoAssumption ==
  /\ BufferCount \in Nat \ {0}
  /\ CodecDelay \in Nat
  /\ MayFail \in BOOLEAN
  /\ MaxPackets \in Nat
  /\ MaxResizes \in Nat

Slots == 0 .. BufferCount - 1
None  == 0                      \* no picture
NoView == MaxResizes + 1        \* VK_NULL_HANDLE in a Slot's view

VARIABLES
  \* ---- the window
  owner, turn,      \* the frame pool
  image,            \* which resize the images were built for
  out,              \* pictures committed and not flushed
  sent,             \* pictures the socket took
  \* ---- demultiplexer and decoder
  file,             \* the packets left: "video" or another stream's
  fed,              \* video packets the codec was sent
  frame,            \* the last picture it returned, the one in frame
  flushed,
  \* ---- main
  pc, eof,
  view, view_valid, \* the Slot members
  staging,          \* the picture in the slot's staging buffer
  yuv_layout,
  \* ---- the GPU
  gpu,              \* submitted work: [slot, picture, view, old, waits, uploaded]
  yuv,              \* the shared image: [layout, picture]
  shown,            \* the picture in the slot's image
  total             \* history: the video packets of the file

window == <<owner, turn, image>>
socket == <<out, sent>>
codec  == <<file, fed, frame, flushed, total>>
slots  == <<view, view_valid, staging>>
device == <<gpu, yuv, shown>>
vars   == <<window, socket, codec, pc, eof, slots, yuv_layout, device>>

Pool == INSTANCE FramePool

\* The video packets that are left.
Left == Cardinality({k \in DOMAIN file : file[k] = "video"})

Init ==
  /\ Pool!Init
  /\ image = 0
  /\ out = <<>>
  /\ sent = <<>>
  /\ file \in BoundedSeq({"video", "other"}, MaxPackets)
  /\ fed = 0
  /\ frame = None
  /\ flushed = FALSE
  /\ pc = "receive"
  /\ eof = FALSE
  /\ view = [i \in Slots |-> NoView]
  /\ view_valid = [i \in Slots |-> FALSE]
  /\ staging = [i \in Slots |-> None]
  /\ yuv_layout = "undefined"
  /\ gpu = <<>>
  /\ yuv = [layout |-> "undefined", picture |-> None]
  /\ shown = [i \in Slots |-> None]
  /\ total = Left

----------------------------------------------------------------------------
(* decode_next.                                                            *)

\* avcodec_receive_frame returns a picture, the first before the loop.
ReceiveFrame ==
  /\ pc = "receive"
  /\ frame < fed
  /\ frame' = frame + 1
  /\ pc' = "wait"
  /\ UNCHANGED <<window, socket, file, fed, flushed, total, eof, slots,
                 yuv_layout, device>>

\* It wants another packet: EAGAIN.
ReceiveAgain ==
  /\ pc = "receive"
  /\ ~flushed
  /\ fed - frame <= CodecDelay
  /\ pc' = "read"
  /\ UNCHANGED <<window, socket, codec, eof, slots, yuv_layout, device>>

\* It has returned everything: AVERROR_EOF.
ReceiveEof ==
  /\ pc = "receive"
  /\ flushed
  /\ frame = fed
  /\ pc' = "none"
  /\ UNCHANGED <<window, socket, codec, eof, slots, yuv_layout, device>>

\* decode_next returns false.  A file without any picture is an error.
DecodedNone ==
  /\ pc = "none"
  /\ eof' = (frame # None)
  /\ pc' = IF frame = None THEN "fatal" ELSE "finish"
  /\ UNCHANGED <<window, socket, codec, slots, yuv_layout, device>>

FedAny(packet) == fed + 1                                           \* mutant

Fed(packet) == IF packet = "video" THEN fed + 1 ELSE fed

ReadPacket ==
  /\ pc = "read"
  /\ file # <<>>
  /\ fed' = Fed(Head(file))
  /\ file' = Tail(file)
  /\ pc' = "receive"
  /\ UNCHANGED <<window, socket, frame, flushed, total, eof, slots, yuv_layout,
                 device>>

DrainForgotten == flushed                                           \* mutant

Draining == TRUE

NoMoreAtEnd == "none"                                               \* mutant

AfterEnd == "receive"

\* Nothing more can be read; an error counts as the end of the file.  The codec
\* is told to drain.
ReadEnd ==
  /\ pc = "read"
  /\ file = <<>> \/ MayFail
  /\ flushed' = Draining
  /\ pc' = AfterEnd
  /\ UNCHANGED <<window, socket, file, fed, frame, total, eof, slots, yuv_layout,
                 device>>

----------------------------------------------------------------------------
(* wait_frame, as FrameLoop implements it.                                 *)

\* The size changed: with the device idle the images are rebuilt, and on_resize
\* invalidates every view.
Resize ==
  /\ pc = "wait"
  /\ gpu = <<>>
  /\ image < MaxResizes
  /\ image' = image + 1
  /\ view_valid' = [i \in Slots |-> FALSE]
  /\ UNCHANGED <<owner, turn, socket, codec, pc, eof, view, staging, yuv_layout,
                 device>>

\* It lends the slot whose turn it is, and has flushed what was committed.
WaitFrame ==
  /\ pc = "wait"
  /\ Pool!Acquire(turn)
  /\ sent' = sent \o out
  /\ out' = <<>>
  /\ pc' = "lent"
  /\ UNCHANGED <<image, codec, eof, slots, yuv_layout, device>>

\* It returns false; the close may have been known before anything was flushed.
WindowClosed ==
  /\ pc = "wait"
  /\ \/ sent' = sent \o out /\ out' = <<>>
     \/ UNCHANGED socket
  /\ pc' = "finish"
  /\ UNCHANGED <<window, codec, eof, slots, yuv_layout, device>>

----------------------------------------------------------------------------
(* The body of the loop.                                                   *)

ViewKept(i) == IF view[i] = NoView THEN image ELSE view[i]          \* mutant

\* The slot's view: the old one, or one of the lent image in its place.
CurrentView(i) == IF view_valid[i] THEN view[i] ELSE image

NeverWaits == FALSE                                                 \* mutant

\* The upload's barrier waits for the sampling of earlier frames.
WaitsForSampling == yuv_layout # "undefined"

\* From the view to vkQueueSubmit.
Render ==
  /\ pc = "lent"
  /\ view' = [view EXCEPT ![turn] = CurrentView(turn)]
  /\ view_valid' = [view_valid EXCEPT ![turn] = TRUE]
  /\ staging' = [staging EXCEPT ![turn] = frame]
  /\ gpu' = Append(gpu, [slot |-> turn, picture |-> frame, view |-> CurrentView(turn),
                         old |-> yuv_layout, waits |-> WaitsForSampling,
                         uploaded |-> FALSE])
  /\ yuv_layout' = "shader_read"
  /\ pc' = "submitted"
  /\ UNCHANGED <<window, socket, codec, eof, yuv, shown>>

Present ==
  /\ pc = "submitted"
  /\ Pool!Present(turn)
  /\ out' = Append(out, frame)
  /\ pc' = "receive"
  /\ UNCHANGED <<image, sent, codec, eof, slots, yuv_layout, device>>

\* After vkDeviceWaitIdle views, buffers and the shared image are destroyed, and
\* the window with what was not flushed.
Finish ==
  /\ pc = "finish"
  /\ gpu = <<>>
  /\ view' = [i \in Slots |-> NoView]
  /\ view_valid' = [i \in Slots |-> FALSE]
  /\ staging' = [i \in Slots |-> None]
  /\ pc' = "ended"
  /\ UNCHANGED <<window, socket, codec, eof, yuv_layout, device>>

\* A call throws, and main returns 1 without destroying anything but the window.
Throw ==
  /\ MayFail
  /\ pc \notin {"ended", "fatal"}
  /\ pc' = "fatal"
  /\ UNCHANGED <<window, socket, codec, eof, slots, yuv_layout, device>>

----------------------------------------------------------------------------
(* The GPU and the display.                                                *)

\* The k-th submission copies its staging buffer into the shared image.
Upload(k) ==
  /\ ~gpu[k].uploaded
  /\ gpu[k].waits => k = 1
  /\ gpu' = [gpu EXCEPT ![k].uploaded = TRUE]
  /\ yuv' = [layout |-> "shader_read", picture |-> staging[gpu[k].slot]]
  /\ UNCHANGED <<window, socket, codec, pc, eof, slots, yuv_layout, shown>>

\* It draws the shared image, and with that it is done.
Draw(k) ==
  /\ gpu[k].uploaded
  /\ shown' = [shown EXCEPT ![gpu[k].slot] = yuv.picture]
  /\ gpu' = RemoveAt(gpu, k)
  /\ UNCHANGED <<window, socket, codec, pc, eof, slots, yuv_layout, yuv>>

\* The picture last committed with a slot.
LastOf(i) == LET presented == sent \o out
             IN  presented[Len(presented) - ((turn + BufferCount - 1 - i) % BufferCount)]

\* The display releases a buffer it was sent and whose acquire point it has
\* waited for.
Release(i) ==
  /\ Pool!Release(i)
  /\ LastOf(i) \in ToSet(sent)
  /\ \A k \in DOMAIN gpu : gpu[k].slot # i
  /\ UNCHANGED <<image, socket, codec, pc, eof, slots, yuv_layout, device>>

----------------------------------------------------------------------------

Main ==
  \/ ReceiveFrame \/ ReceiveAgain \/ ReceiveEof \/ DecodedNone \/ ReadPacket \/ ReadEnd
  \/ WaitFrame \/ Render \/ Present \/ Finish

Gpu == \E k \in DOMAIN gpu : Upload(k) \/ Draw(k)

Ended == pc \in {"ended", "fatal"} /\ UNCHANGED vars

Next ==
  \/ Main \/ Resize \/ WindowClosed \/ Throw \/ Gpu
  \/ \E i \in Slots : Release(i)
  \/ Ended

Spec == Init /\ [][Next]_vars

\* The player runs when it can, submitted work ends, and the display releases
\* the slot whose turn it is, as FrameLoop's ShownReturns says of a window that
\* is shown.
FairSpec ==
  Spec /\ WF_vars(Main) /\ WF_vars(Gpu) /\ WF_vars(Release(turn))

----------------------------------------------------------------------------
(* Properties.                                                             *)

Places == {"receive", "read", "none", "wait", "lent", "submitted", "finish", "ended",
           "fatal"}
Layouts == {"undefined", "shader_read"}

Job == [slot : Slots, picture : Nat \ {None}, view : 0 .. MaxResizes, old : Layouts,
        waits : BOOLEAN, uploaded : BOOLEAN]

\* The pool is one, pictures are numbered, jobs are complete.
TypeOK ==
  /\ Pool!PoolTypeOK
  /\ image \in 0 .. MaxResizes
  /\ out \in Seq(Nat \ {None}) /\ sent \in Seq(Nat \ {None})
  /\ file \in Seq({"video", "other"})
  /\ fed \in 0 .. total /\ frame \in 0 .. fed
  /\ flushed \in BOOLEAN /\ eof \in BOOLEAN
  /\ pc \in Places
  /\ view \in [Slots -> 0 .. NoView]
  /\ view_valid \in [Slots -> BOOLEAN]
  /\ staging \in [Slots -> Nat]
  /\ yuv_layout \in Layouts /\ yuv \in [layout : Layouts, picture : Nat]
  /\ gpu \in Seq(Job)
  /\ shown \in [Slots -> Nat]

\* What the display reads is the picture that was committed, though one image
\* carries all pictures to the GPU and staging buffers are written while earlier
\* frames are still drawn: no upload overtakes the sampling of an earlier
\* picture, and no staging buffer is reused too early.
DrawsOwnPicture ==
  \A i \in Slots :
    owner[i] = "display" /\ (\A k \in DOMAIN gpu : gpu[k].slot # i)
      => shown[i] = LastOf(i)

\* Pending work draws through a view that exists and is of the slot's image as
\* it is now, whatever the resizes; a slot has no more than one submission
\* pending, so that its command buffer may be reset; and the layout its upload
\* starts from is the one the submission before it leaves.
PendingWorkSound ==
  /\ \A k \in DOMAIN gpu :
       /\ gpu[k].view = image /\ view[gpu[k].slot] = image
       /\ ~gpu[k].uploaded =>
            gpu[k].old = IF k = 1 THEN yuv.layout ELSE "shader_read"
  /\ \A j, k \in DOMAIN gpu : gpu[j].slot = gpu[k].slot => j = k
  /\ pc = "lent" => \A k \in DOMAIN gpu : gpu[k].slot # turn

\* Pictures are committed once each and in order, through the delay of the
\* codec and its draining, up to the last of the file unless the window was
\* closed or reading failed; and all of them are sent but the last one, whose
\* commit nothing flushes.
EveryPictureOnce ==
  LET presented == sent \o out
  IN  /\ \A k \in DOMAIN presented : presented[k] = k
      /\ pc = "ended" /\ eof =>
           /\ file = <<>> => Len(presented) = total
           /\ out = <<Len(presented)>>

\* Playback comes to an end.
PlaybackEnds == <>(pc \in {"ended", "fatal"})

============================================================================
