----------------------------- MODULE FrameLoop -----------------------------
(***************************************************************************)
(* The frame loop of a wlvk::Window: next_frame (wait_frame), commit_frame *)
(* (present), the event dispatch both rely on, handle_resize and           *)
(* reap_retired, as one client thread, together with what surrounds it:    *)
(* the Vulkan queue, the compositor at the other end of the Wayland socket *)
(* and the release timelines the kernel keeps.                             *)
(*                                                                         *)
(* A FrameSlot of frames_ is one index of the functions image, counter,    *)
(* fence and feedback.  pc is the place of the client thread; every other  *)
(* client variable is the Impl member of the same name, less its           *)
(* underscore.                                                             *)
(***************************************************************************)
EXTENDS Integers, Sequences, FiniteSets, SequencesExt, WindowReady, PresentTiming

CONSTANTS
  BufferCount,          \* WindowConfig::buffer_count
  CollectStats,         \* collect_present_stats, and wp_presentation is bound
  MayFail,              \* a Wayland or Vulkan call may fail
  SkipAllowed,          \* the application may not present a frame it was lent
  ReleaseWaitsAcquire,  \* the compositor never signals a release point before
                        \* the commit's acquire point
  MaxPoint,             \* bound: commits per slot
  MaxConfigures         \* bound: configures sent after construction

ASSUME LoopAssumption ==
  /\ BufferCount \in Nat \ {0}
  /\ Sizes \subseteq Nat \ {0}
  /\ CollectStats \in BOOLEAN
  /\ MayFail \in BOOLEAN
  /\ SkipAllowed \in BOOLEAN
  /\ ReleaseWaitsAcquire \in BOOLEAN
  /\ MaxPoint \in Nat
  /\ MaxConfigures \in Nat

Slots   == 0 .. BufferCount - 1
NoFrame == BufferCount          \* UINT32_MAX in handed_index_
NoImage == 0                    \* VK_NULL_HANDLE: images are numbered from 1;
                                \* in a commit, no buffer attached

VARIABLES
  \* ---- the frames_ ring
  image,            \* the generation of the slot's image
  bufferless,       \* the slots left with an image and no wl_buffer
  counter,          \* the last timeline point the slot was committed with
  fence,            \* render_fence: TRUE from the submit until its reset
  feedback,         \* the point whose wp_presentation_feedback it refers to
  retired,          \* retired_: [slot, counter, image], oldest first
  generation,       \* how many times the images were built
  next_frame, handed_index, presented_once,
  \* ---- window state set by event handlers
  frame_due, frame_callback, closed, resize_pending, pending, width,
  \* ---- wp_presentation
  proxies,          \* the feedback objects the client has not destroyed
  stats,            \* stats_, a StatsAccum
  \* ---- control of the client thread
  pc, it,
  \* ---- the Vulkan queue and the release timelines
  gpu,              \* submitted work, in order: [slot, point, image]
  released,         \* the last point signalled on the slot's release timeline
  \* ---- the socket and the compositor
  out,              \* requests in libwayland's buffer
  wire,             \* requests flushed and not received
  events,           \* events sent and not dispatched
  pendingCb,        \* frame callbacks of the uncommitted surface state
  committedCb,      \* frame callbacks a commit carried, not yet done
  held,             \* commits received and not released, in order
  owed,             \* feedback objects not yet answered
  configures        \* configures sent so far

ring    == <<image, bufferless, counter, fence, retired, generation, next_frame,
             handed_index, presented_once>>
window  == <<frame_due, frame_callback, closed, resize_pending, pending, width>>
present == <<feedback, proxies, stats>>
control == <<pc, it>>
kernel  == <<gpu, released>>
remote  == <<pendingCb, committedCb, held, owed, configures>>
socket  == <<out, wire, events>>
vars    == <<ring, window, present, control, kernel, remote, socket>>

----------------------------------------------------------------------------
(* Requests and events.                                                    *)

FrameRequest == [type : {"frame"}]
Commit  == [type : {"commit"}, slot : Slots, point : Nat, image : Nat]
Request == FrameRequest \cup Commit

Event ==
  [type : {"frame_done", "close"}]
    \cup [type : {"configure"}, size : Sizes \cup {None}]
    \cup [type : {"presented", "discarded"}, slot : Slots, point : Nat]

Retired == [slot : Slots, counter : Nat, image : Nat]
Job     == [slot : Slots, point : Nat, image : Nat]

Places == {"app", "reap", "gate", "poll", "resize", "arm", "release", "drain",
           "handed", "submitted", "threw", "done", "failed"}

Init ==
  /\ image = [i \in Slots |-> 1]
  /\ bufferless = {}
  /\ counter = [i \in Slots |-> 0]
  /\ fence = [i \in Slots |-> FALSE]
  /\ feedback = [i \in Slots |-> None]
  /\ retired = <<>>
  /\ generation = 1
  /\ next_frame = 0
  /\ handed_index = NoFrame
  /\ presented_once = FALSE
  /\ frame_due = FALSE
  /\ frame_callback = FALSE
  /\ closed \in BOOLEAN
  /\ width \in Sizes
  /\ pending \in Sizes \cup {None}
  /\ resize_pending \in BOOLEAN
  /\ WindowReady(closed, width, pending, resize_pending)
  /\ proxies = {}
  /\ stats = NoStats
  /\ pc = "app"
  /\ it = 1
  /\ gpu = <<>>
  /\ released = [i \in Slots |-> 0]
  /\ out = <<>>
  /\ wire = <<>>
  /\ events = <<>>
  /\ pendingCb = 0
  /\ committedCb = 0
  /\ held = <<>>
  /\ owed = {}
  /\ configures = 0

----------------------------------------------------------------------------
(* Operators shared by the actions.                                        *)

\* wait_release_point: whether the point is signalled.  The timeout handed to
\* the kernel is an absolute time long past, so the call never sleeps.
WaitReleasePoint(slot, point) == released[slot] >= point

\* wl_display_flush.
FlushForgotten == UNCHANGED <<out, wire>>                           \* mutant

Flush ==
  /\ wire' = wire \o out
  /\ out' = <<>>

\* The acquire point of a commit is signalled once its GPU work is done.
AcquireSignalled(slot, point) ==
  \A k \in DOMAIN gpu : ~(gpu[k].slot = slot /\ gpu[k].point = point)

----------------------------------------------------------------------------
(* next_frame.                                                             *)

\* The application calls wait_frame().
WaitFrame ==
  /\ pc = "app"
  /\ counter[next_frame] < MaxPoint
  /\ pc' = "reap"
  /\ it' = 1
  /\ UNCHANGED <<ring, window, present, kernel, remote, socket>>

\* A retired image may go once its slot's release timeline has reached the point
\* the image was last committed with.
ReapableEarly(fb) ==                                                \* mutant
  fb.counter = 0 \/ WaitReleasePoint(fb.slot, fb.counter - 1)

ReapableLate(fb) ==                                                 \* mutant
  WaitReleasePoint(fb.slot, fb.counter + 1)

Reapable(fb) == fb.counter = 0 \/ WaitReleasePoint(fb.slot, fb.counter)

\* One turn of the loop of reap_retired.  (The `released` flag of an entry is
\* set on the way to its erasure only.)
ReapEntry ==
  /\ pc = "reap"
  /\ it <= Len(retired)
  /\ IF Reapable(retired[it])
     THEN retired' = RemoveAt(retired, it) /\ UNCHANGED it
     ELSE it' = it + 1 /\ UNCHANGED retired
  /\ UNCHANGED <<image, bufferless, counter, fence, generation, next_frame,
                 handed_index, presented_once, window, present, pc, kernel, remote, socket>>

ReapDone ==
  /\ pc = "reap"
  /\ it > Len(retired)
  /\ pc' = "gate"
  /\ it' = 1
  /\ UNCHANGED <<ring, window, present, kernel, remote, socket>>

NothingDueEver == FALSE                                             \* mutant

\* What the frame gate and poll_and_dispatch wait for has not happened.
NothingDueButClose == ~frame_due                                    \* mutant

NothingDue == ~frame_due /\ ~closed

\* The frame gate: wait for the frame callback, unless nothing was presented
\* yet; then leave, resize or go on.  Entering poll_and_dispatch flushes.
Gate ==
  /\ pc = "gate"
  /\ \/ /\ presented_once /\ NothingDue
        /\ pc' = "poll"
        /\ Flush
     \/ /\ presented_once /\ ~NothingDue /\ closed
        /\ pc' = "done"
        /\ UNCHANGED <<out, wire>>
     \/ /\ presented_once => ~NothingDue /\ ~closed
        /\ pc' = IF resize_pending THEN "resize" ELSE "arm"
        /\ UNCHANGED <<out, wire>>
  /\ UNCHANGED <<ring, window, present, it, kernel, remote, events>>

\* poll_and_dispatch returns for good once a frame is due or the window is
\* closed; what has not been read from the socket by then stays in events.
PollReturn ==
  /\ pc = "poll"
  /\ ~NothingDue
  /\ pc' = "gate"
  /\ UNCHANGED <<ring, window, present, it, kernel, remote, socket>>

\* handle_resize.  The device is idle first; the images and wl_buffers are
\* retired with the point that frees them, while timelines, counters and
\* fences stay with the slots.  create_dmabuf_resources may fail at any slot,
\* before its image is created or between it and the wl_buffer, and on_resize
\* after it; the slots behind a failure have nothing.
HandleResize ==
  /\ pc = "resize"
  /\ gpu = <<>>
  /\ retired' = retired \o
       [k \in 1 .. BufferCount |->
         [slot |-> k - 1, counter |-> counter[k - 1], image |-> image[k - 1]]]
  /\ proxies' = proxies \ {<<i, feedback[i]>> : i \in Slots}
  /\ feedback' = [i \in Slots |-> None]
  /\ width' = pending
  /\ resize_pending' = FALSE
  /\ handed_index' = NoFrame
  /\ generation' = generation + 1
  /\ \/ /\ image' = [i \in Slots |-> generation + 1]
        /\ bufferless' = {}
        /\ pc' = "arm"
     \/ /\ MayFail
        /\ \E j \in 0 .. BufferCount :
             /\ bufferless' \in {{}, {j} \cap Slots}
             /\ image' = [i \in Slots |-> IF i < j \/ i \in bufferless'
                                         THEN generation + 1 ELSE NoImage]
        /\ pc' = "threw"
  /\ UNCHANGED <<counter, fence, next_frame, presented_once, frame_due,
                 frame_callback, closed, pending, stats, it, kernel, remote,
                 socket>>

CallbackWantedAgain == ~closed                                      \* mutant

CallbackWanted == ~frame_callback /\ ~closed

\* The frame event is consumed and arm_frame asks for the next one, unless one
\* is outstanding; it flushes.
ArmFrame ==
  /\ pc = "arm"
  /\ frame_due' = FALSE
  /\ \/ /\ CallbackWanted
        /\ frame_callback' = TRUE
        /\ \/ /\ wire' = wire \o Append(out, [type |-> "frame"])
              /\ out' = <<>>
              /\ pc' = "release"
           \/ /\ MayFail
              /\ out' = Append(out, [type |-> "frame"])
              /\ pc' = "threw"
              /\ UNCHANGED wire
     \/ /\ ~CallbackWanted
        /\ pc' = "release"
        /\ UNCHANGED <<frame_callback, out, wire>>
  /\ UNCHANGED <<ring, closed, resize_pending, pending, width, present, it,
                 kernel, remote, events>>

SlotReadyLate ==                                                    \* mutant
  counter[next_frame] = 0 \/ WaitReleasePoint(next_frame, counter[next_frame] - 1)

SlotReady ==
  counter[next_frame] = 0 \/ WaitReleasePoint(next_frame, counter[next_frame])

\* The slot is lent if it was never committed or its last commit is released.
HandOut ==
  /\ pc = "release"
  /\ SlotReady
  /\ handed_index' = next_frame
  /\ pc' = "handed"
  /\ UNCHANGED <<image, bufferless, counter, fence, retired, generation,
                 next_frame, presented_once, window, present, it, kernel, remote, socket>>

\* Otherwise drain_events: flush, then dispatch what has arrived.
AwaitRelease ==
  /\ pc = "release"
  /\ ~SlotReady
  /\ Flush
  /\ pc' = "drain"
  /\ UNCHANGED <<ring, window, present, it, kernel, remote, events>>

AfterDrainUnchecked == "release"                                    \* mutant

AfterDrain == IF closed THEN "done" ELSE "release"

\* drain_events returns when it has dispatched what it found.  An event it does
\* not find counts as sent later.
DrainReturn ==
  /\ pc = "drain"
  /\ events = <<>>
  /\ pc' = AfterDrain
  /\ UNCHANGED <<ring, window, present, it, kernel, remote, socket>>

----------------------------------------------------------------------------
(* Event dispatch, from poll_and_dispatch and from drain_events.           *)

\* The client takes the oldest event, of one of the given types.
Dispatch(types) ==
  /\ pc \in {"poll", "drain"}
  /\ events # <<>>
  /\ Head(events).type \in types
  /\ events' = Tail(events)
  /\ UNCHANGED <<ring, control, kernel, remote, out, wire>>

FrameDone ==
  /\ Dispatch({"frame_done"})
  /\ frame_callback' = FALSE
  /\ frame_due' = TRUE
  /\ UNCHANGED <<closed, resize_pending, pending, width, present>>

ResizeNeededToGrow(size) == size > width                            \* mutant

ResizeNeeded(size) == size # width

\* A configure without a size leaves everything as it is.
ToplevelConfigure ==
  /\ Dispatch({"configure"})
  /\ LET size == Head(events).size
     IN  IF size = None
         THEN UNCHANGED <<pending, resize_pending>>
         ELSE /\ pending' = size
              /\ resize_pending' = (resize_pending \/ ResizeNeeded(size))
  /\ UNCHANGED <<frame_due, frame_callback, closed, width, present>>

ToplevelClose ==
  /\ Dispatch({"close"})
  /\ closed' = TRUE
  /\ UNCHANGED <<frame_due, frame_callback, resize_pending, pending, width,
                 present>>

\* The slots' references once the object is destroyed.
ReferencesKept(pfb) == feedback                                     \* mutant

References(pfb) ==
  [i \in Slots |-> IF <<i, feedback[i]>> = pfb THEN None ELSE feedback[i]]

DestroyForgotten(pfb) == proxies                                    \* mutant

Destroy(pfb) == proxies \ {pfb}

\* What the event makes of the statistics.  The compositor's clock does not go
\* backwards; it may be too coarse to tell two frames apart.
Count(type) ==
  \/ /\ type = "presented"
     /\ \E tv \in Times, refresh \in Refreshes :
          tv >= stats.last_tv /\ stats' = Presented(stats, tv, refresh)
  \/ /\ type = "discarded"
     /\ stats' = Discarded(stats)

\* presentation_presented and presentation_discarded: count, forget the slot's
\* reference, destroy the object.  libwayland drops the event of an object the
\* client has destroyed.
PresentationAnswered ==
  /\ Dispatch({"presented", "discarded"})
  /\ LET e == Head(events)
         pfb == <<e.slot, e.point>>
     IN  IF pfb \in proxies
         THEN /\ Count(e.type)
              /\ feedback' = References(pfb)
              /\ proxies' = Destroy(pfb)
         ELSE UNCHANGED present
  /\ UNCHANGED window

----------------------------------------------------------------------------
(* The application and commit_frame.                                       *)

\* The application submits its rendering with render_fence, if it was lent an
\* image: after a rebuild that failed it may not be.
Submit ==
  /\ pc = "handed"
  /\ image[handed_index] # NoImage
  /\ gpu' = Append(gpu, [slot |-> handed_index,
                         point |-> counter[handed_index] + 1,
                         image |-> image[handed_index]])
  /\ fence' = [fence EXCEPT ![handed_index] = TRUE]
  /\ pc' = "submitted"
  /\ UNCHANGED <<image, bufferless, counter, retired, generation, next_frame,
                 handed_index, presented_once, window, present, it, released, remote, socket>>

SuccessorUnwrapped(i) == i + 1                                      \* mutant

SuccessorStuck(i) == i                                              \* mutant

Successor(i) == (i + 1) % BufferCount

\* The image behind what present() attaches: of a slot whose rebuild failed half
\* way, nothing.
Attached(i) == IF i \in bufferless THEN NoImage ELSE image[i]

\* present(): the acquire point is materialised from the fence, the fence is
\* reset and the commit is written to libwayland's buffer, not flushed.
CommitFrame ==
  /\ pc = "submitted"
  /\ LET i     == handed_index
         point == counter[i] + 1
     IN  /\ out' = Append(out, [type |-> "commit", slot |-> i, point |-> point,
                                image |-> Attached(i)])
         /\ fence' = [fence EXCEPT ![i] = FALSE]
         /\ counter' = [counter EXCEPT ![i] = point]
         /\ IF CollectStats
            THEN /\ feedback' = [feedback EXCEPT ![i] = point]
                 /\ proxies' = proxies \cup {<<i, point>>}
            ELSE UNCHANGED <<feedback, proxies>>
  /\ handed_index' = NoFrame
  /\ presented_once' = TRUE
  /\ next_frame' = Successor(next_frame)
  /\ pc' = "app"
  /\ UNCHANGED <<image, bufferless, retired, generation, window, stats, it, kernel, remote,
                 wire, events>>

\* The application calls wait_frame() again without presenting, as it must if
\* it was lent no image.
SkipFrame ==
  /\ pc = "handed"
  /\ SkipAllowed \/ image[handed_index] = NoImage
  /\ pc' = "app"
  /\ UNCHANGED <<ring, window, present, it, kernel, remote, socket>>

\* The application leaves its loop.
Quit ==
  /\ pc \in {"app", "threw"}
  /\ pc' = "done"
  /\ UNCHANGED <<ring, window, present, it, kernel, remote, socket>>

\* A flush, a poll, a dispatch or the export of the fence fails: wait_frame or
\* present throws before it has changed anything more.  The failure of present
\* is final, as the export may have taken the fence's signal with it.
Fail ==
  /\ MayFail
  /\ \/ pc \in {"poll", "drain", "resize", "submitted"}
     \/ pc = "gate" /\ presented_once /\ NothingDue
     \/ pc = "release" /\ ~SlotReady
  /\ pc' = IF pc = "submitted" THEN "failed" ELSE "threw"
  /\ UNCHANGED <<ring, window, present, it, kernel, remote, socket>>

\* The application catches what wait_frame threw and goes on with its loop.
Resume ==
  /\ pc = "threw"
  /\ pc' = "app"
  /\ UNCHANGED <<ring, window, present, it, kernel, remote, socket>>

----------------------------------------------------------------------------
(* The Vulkan queue.                                                       *)

\* Submitted work completes in order and signals its fence.
GpuFinish ==
  /\ gpu # <<>>
  /\ gpu' = Tail(gpu)
  /\ UNCHANGED <<ring, window, present, control, released, remote, socket>>

----------------------------------------------------------------------------
(* The compositor.                                                         *)

ReceiveFrame ==
  /\ wire # <<>>
  /\ Head(wire).type = "frame"
  /\ wire' = Tail(wire)
  /\ pendingCb' = pendingCb + 1
  /\ UNCHANGED <<ring, window, present, control, kernel, out, events,
                 committedCb, held, owed, configures>>

\* A commit carries the frame callbacks asked for since the last one.  One with
\* sync points and no buffer is a protocol error: the compositor reads no further.
ReceiveCommit ==
  /\ wire # <<>>
  /\ Head(wire).type = "commit" /\ Head(wire).image # NoImage
  /\ wire' = Tail(wire)
  /\ committedCb' = committedCb + pendingCb
  /\ pendingCb' = 0
  /\ held' = Append(held, Head(wire))
  /\ owed' = IF CollectStats
             THEN owed \cup {<<Head(wire).slot, Head(wire).point>>}
             ELSE owed
  /\ UNCHANGED <<ring, window, present, control, kernel, out, events, configures>>

\* It has finished with the k-th commit it holds: it signals the release point.
Release(k) ==
  /\ k \in DOMAIN held
  /\ ReleaseWaitsAcquire => AcquireSignalled(held[k].slot, held[k].point)
  /\ released' = [released EXCEPT ![held[k].slot] = held[k].point]
  /\ held' = RemoveAt(held, k)
  /\ UNCHANGED <<ring, window, present, control, gpu, socket, pendingCb,
                 committedCb, owed, configures>>

Send(event) == events' = Append(events, event)

FireFrame ==
  /\ committedCb > 0
  /\ committedCb' = committedCb - 1
  /\ Send([type |-> "frame_done"])
  /\ UNCHANGED <<ring, window, present, control, kernel, out, wire, pendingCb,
                 held, owed, configures>>

\* It answers the feedback of a commit, once.
AnswerFeedback ==
  \E pfb \in owed, answer \in {"presented", "discarded"} :
    /\ owed' = owed \ {pfb}
    /\ Send([type |-> answer, slot |-> pfb[1], point |-> pfb[2]])
    /\ UNCHANGED <<ring, window, present, control, kernel, out, wire,
                   pendingCb, committedCb, held, configures>>

SendConfigure ==
  /\ configures < MaxConfigures
  /\ configures' = configures + 1
  /\ \E size \in Sizes \cup {None} :
       Send([type |-> "configure", size |-> size])
  /\ UNCHANGED <<ring, window, present, control, kernel, out, wire, pendingCb,
                 committedCb, held, owed>>

\* The user closes the window; a second request adds nothing.
SendClose ==
  /\ ~closed
  /\ \A k \in DOMAIN events : events[k].type # "close"
  /\ Send([type |-> "close"])
  /\ UNCHANGED <<ring, window, present, control, kernel, out, wire, remote>>

----------------------------------------------------------------------------
(* The specification.                                                      *)

Handler == FrameDone \/ ToplevelConfigure \/ ToplevelClose \/ PresentationAnswered

\* Every step of the client thread but those of an error or of a choice of the
\* application.
Client ==
  \/ WaitFrame \/ ReapEntry \/ ReapDone \/ Gate \/ PollReturn \/ HandleResize
  \/ ArmFrame \/ HandOut \/ AwaitRelease \/ DrainReturn
  \/ Handler \/ Submit \/ CommitFrame

Compositor ==
  \/ ReceiveFrame \/ ReceiveCommit \/ \E k \in DOMAIN held : Release(k)
  \/ FireFrame \/ AnswerFeedback \/ SendConfigure \/ SendClose

\* The client has left the loop and nothing is under way.
Terminated ==
  /\ pc \in {"done", "failed"}
  /\ UNCHANGED vars

Next == Client \/ SkipFrame \/ Quit \/ Fail \/ Resume \/ GpuFinish \/ Compositor \/ Terminated

Spec == Init /\ [][Next]_vars

----------------------------------------------------------------------------
(* Safety.                                                                 *)

CommitsIn(requests) ==
  {requests[k] : k \in {j \in DOMAIN requests : requests[j].type = "commit"}}

\* Where a queue has requests, or events, of a type.
Positions(q, type) == {k \in DOMAIN q : q[k].type = type}

\* The commits whose buffer the compositor may still read.
InFlight == CommitsIn(out) \cup CommitsIn(wire) \cup CommitsIn(held)

SlotTypes ==
  /\ image \in [Slots -> Nat]
  /\ bufferless \subseteq Slots
  /\ counter \in [Slots -> Nat]
  /\ feedback \in [Slots -> Nat]
  /\ released \in [Slots -> Nat]
  /\ retired \in Seq(Retired)
  /\ generation \in Nat
  /\ next_frame \in Slots
  /\ handed_index \in Slots \cup {NoFrame}
  /\ it \in Nat \ {0}
  /\ proxies \subseteq Slots \X Nat
  /\ owed \subseteq Slots \X Nat
  /\ stats \in StatsAccum

WindowTypes ==
  /\ fence \in [Slots -> BOOLEAN]
  /\ presented_once \in BOOLEAN
  /\ frame_due \in BOOLEAN
  /\ frame_callback \in BOOLEAN
  /\ closed \in BOOLEAN
  /\ resize_pending \in BOOLEAN
  /\ pending \in Sizes \cup {None}
  /\ width \in Sizes
  /\ pc \in Places

QueueTypes ==
  /\ gpu \in Seq(Job)
  /\ out \in Seq(Request)
  /\ wire \in Seq(Request)
  /\ events \in Seq(Event)
  /\ held \in Seq(Commit)
  /\ pendingCb \in Nat
  /\ committedCb \in Nat
  /\ configures \in Nat

\* A lent frame has a slot, a resize has a size.
PlaceTypes ==
  /\ pc \in {"handed", "submitted"} => handed_index \in Slots
  /\ resize_pending => pending \in Sizes
  /\ pc = "resize" => resize_pending

\* Every variable has its type: indices stay in the ring, windows have a size,
\* queues hold what their readers expect.
TypeOK == SlotTypes /\ WindowTypes /\ QueueTypes /\ PlaceTypes

\* A frame that was lent can be rendered into at once: no commit of its slot is
\* unreleased, whatever image it showed, its fence is unsignalled, also when a
\* resize moved it to a fresh slot, and, from a compositor that signals releases
\* after acquires, none of the slot's earlier GPU work is pending.
HandedFrameIdle ==
  pc = "handed" =>
    /\ \A c \in InFlight : c.slot # handed_index
    /\ ~fence[handed_index]
    /\ ReleaseWaitsAcquire => \A k \in DOMAIN gpu : gpu[k].slot # handed_index

\* Nothing the compositor or the GPU may still read is destroyed: the image of
\* an unreleased commit, or of pending GPU work, is its slot's current image or
\* is still in retired_, across any number of resizes.
ScanoutImageAlive ==
  /\ \A c \in InFlight :
       \/ c.image \in {NoImage, image[c.slot]}
       \/ \E k \in DOMAIN retired :
            retired[k].slot = c.slot /\ retired[k].image = c.image
  /\ \A k \in DOMAIN gpu : gpu[k].image = image[gpu[k].slot]

\* Frame callbacks are neither lost nor doubled: as long as the client holds
\* frame_callback_ exactly one request, callback or done event is under way,
\* otherwise none is.
CallbackConserved ==
  Cardinality(Positions(out, "frame")) + Cardinality(Positions(wire, "frame"))
    + pendingCb + committedCb + Cardinality(Positions(events, "frame_done"))
  = IF frame_callback THEN 1 ELSE 0

\* The size last configured is the size of the images, or a resize is due, and
\* none is due once wait_frame is past the frame gate: handle_resize discards no
\* configure that came after the one it serves, and only a configure dispatched
\* by the release wait itself can find its frame built for an older size.
ResizeNotForgotten ==
  /\ pending \notin {None, width} => resize_pending
  /\ pc = "arm" => pending \in {None, width}

\* Once something was presented no frame is lent after a close was dispatched,
\* wherever in wait_frame the close arrived.
NoFrameAfterClose == pc = "handed" /\ presented_once => ~closed

\* When a frame is lent every earlier one has left the process, though present()
\* does not flush: the flush of the frame gate or of the release wait cannot be
\* missed.
CommitsSentWhenLent == pc = "handed" => CommitsIn(out) = {}

\* However many resizes come in a row, retired_ stays within a triangular
\* number of generations, provided every frame lent is presented: a slot cannot
\* be reused, hence the ring not advance, before what it retired is free.
RetiredBound == Len(retired) <= (BufferCount * (BufferCount + 1)) \div 2

\* A slot's reference to a feedback object is null or to a live object: neither
\* the presented and discarded handlers, nor a resize, nor the reuse of the
\* slot leaves one that a later resize would destroy a second time.
NoDanglingFeedback ==
  \A i \in Slots : feedback[i] # None => <<i, feedback[i]>> \in proxies

\* Every commit made so far, by its slot and its point.
Commits == UNION {{i} \X (1 .. counter[i]) : i \in Slots}

\* The statistics count every commit at most once, and miss only the ones whose
\* feedback object is still live or was destroyed by a resize.
StatsAccounted ==
  LET counted == stats.presented + stats.discarded + Cardinality(proxies)
  IN  /\ counted <= Cardinality(Commits)
      /\ (generation = 1 /\ CollectStats) => counted = Cardinality(Commits)

\* The maximum and the late count are those of all gaps between presented frames,
\* the minimum that of the gaps since the last tie (two frames at one time, which
\* presentation_presented takes for no gap yet).  Discarded, unanswered or
\* destroyed feedback between two frames only widens their gap.
TimingExact == GapsSummarised(stats) /\ LateCounted(stats)

----------------------------------------------------------------------------
(* The inductive invariant: what makes HandedFrameIdle and                 *)
(* ScanoutImageAlive hold.                                                 *)

\* A slot is at most one commit ahead of its release timeline, and level with
\* it while its frame is lent; only the slot whose turn it is can be lent.
TurnInv ==
  /\ \A i \in Slots : released[i] <= counter[i] /\ counter[i] <= released[i] + 1
  /\ handed_index # NoFrame =>
       handed_index = next_frame /\ released[next_frame] = counter[next_frame]

\* An unreleased commit is its slot's last, and its image, if it has one, is the
\* slot's own or retired with the commit's point.
CommitInv ==
  \A c \in InFlight :
    /\ c.point = counter[c.slot]
    /\ released[c.slot] < c.point
    /\ \/ c.image \in {NoImage, image[c.slot]}
       \/ \E k \in DOMAIN retired :
            /\ retired[k].slot = c.slot
            /\ retired[k].counter = c.point
            /\ retired[k].image = c.image

BothCommitsOf(r1, r2) ==
  r1.type = "commit" /\ r2.type = "commit" /\ r1.slot = r2.slot

Distinct(q) == \A j, k \in DOMAIN q : BothCommitsOf(q[j], q[k]) => j = k

Apart(q1, q2) ==
  \A j \in DOMAIN q1, k \in DOMAIN q2 : ~BothCommitsOf(q1[j], q2[k])

\* No slot has two unreleased commits anywhere between the library and the
\* compositor.
OneCommitPerSlot ==
  /\ Distinct(out) /\ Distinct(wire) /\ Distinct(held)
  /\ Apart(out, wire) /\ Apart(out, held) /\ Apart(wire, held)

\* GPU work renders into current images, and with a compositor that waits for
\* acquire points it belongs to the slot's unreleased commit or to the frame
\* submitted and not presented.
JobInv ==
  \A k \in DOMAIN gpu :
    LET job == gpu[k]
    IN  /\ job.image = image[job.slot]
        /\ ReleaseWaitsAcquire =>
             \/ job.point = counter[job.slot] /\ released[job.slot] < job.point
             \/ /\ pc \in {"submitted", "failed"}
                /\ job.slot = handed_index
                /\ job.point = counter[job.slot] + 1

\* A fence is signalled, or about to be, between the submit and present() only.
FenceInv ==
  \A i \in Slots : fence[i] => pc \in {"submitted", "failed"} /\ i = handed_index

\* The bookkeeping of the ring agrees with the release timelines, the commits
\* on their way, the retired images and the queue.  The conjunction is inductive
\* together with TypeOK.
Inv == TurnInv /\ CommitInv /\ OneCommitPerSlot /\ JobInv /\ FenceInv

----------------------------------------------------------------------------
(* Refinement.                                                             *)

Owner(i) ==
  IF handed_index = i THEN "app"
  ELSE IF released[i] < counter[i] THEN "display"
  ELSE "free"

Pool == INSTANCE FramePool WITH
          owner <- [i \in Slots |-> Owner(i)],
          turn  <- next_frame

\* The loop implements the pool: slots are lent in strict rotation, none while
\* the display owns it, and a lent frame leaves the application by present() or
\* by a resize only.
PoolSpec == Pool!Spec

----------------------------------------------------------------------------
(* Liveness.                                                               *)

\* The client is one thread that runs when it can, and submitted work ends.
ClientFairness == WF_vars(Client) /\ WF_vars(Quit) /\ WF_vars(GpuFinish)

\* The commit that follows c in the rotation was received.
Superseded(c) ==
  LET slot  == (c.slot + 1) % BufferCount
      point == IF slot = 0 THEN c.point + 1 ELSE c.point
  IN  /\ counter[slot] >= point
      /\ \A r \in CommitsIn(out) \cup CommitsIn(wire) : r.slot # slot

\* A compositor that shows the surface reads the socket, fires frame callbacks
\* and releases a commit once another replaces it.  It is not obliged to send a
\* configure or a close.
CompositorFairness ==
  /\ WF_vars(ReceiveFrame \/ ReceiveCommit)
  /\ WF_vars(\E k \in DOMAIN held : Superseded(held[k]) /\ Release(k))
  /\ WF_vars(FireFrame)

\* A window on display, and one whose compositor may stop at any time.
FairSpec   == Spec /\ ClientFairness /\ CompositorFairness
HiddenSpec == Spec /\ ClientFairness

InWaitFrame == pc \in {"reap", "gate", "poll", "resize", "arm", "release", "drain"}

\* wait_frame always returns while the window is on display: no interleaving of
\* callbacks, releases, resizes and unflushed requests leaves it blocked or
\* spinning.
WaitFrameReturns == InWaitFrame ~> ~InWaitFrame

\* Under a compositor that shows the window: ring's specification does not
\* oblige the compositor to anything, so the same run checks CloseEndsLoop for
\* one that may stop at any time.
ShownReturns == CompositorFairness => WaitFrameReturns

\* Once a close is dispatched the application's loop ends, whether or not the
\* compositor fires another callback, releases a buffer or reads a request.
CloseEndsLoop == closed ~> pc \in {"done", "failed"}

\* wait_frame returns false once the window was closed, as it is documented.
FalseOnceClosed == pc = "handed" => ~closed

============================================================================
