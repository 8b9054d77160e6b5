# TLA+ verification of wlvk

wlvk is a small C++ library that puts a Vulkan window on Wayland without a
swapchain: it owns a ring of dmabuf images, hands them to the application one at
a time (`wait_frame`), commits them with explicit synchronisation points
(`present`) and follows the compositor's resizes. This directory holds a TLA+
model of that library, the TLC configurations that check it on small instances,
and theorems about it that TLAPS checks for every instance. Paths are relative
to the repository; `window.cpp`, `context.cpp`, `detail.hpp` and `wlvk.hpp` are
in `lib/wlvk`.

* [1. The system](#1-the-system): the inventory
* [2. The modules](#2-the-modules): how they correspond to the code
* [3. The runs](#3-the-runs): what TLC checks, and the bounds
* [4. Fairness](#4-fairness)
* [5. Where code and documentation disagree](#5-where-code-and-documentation-disagree)
* [6. The proofs](#6-the-proofs)
* [7. Not modelled, and the plan](#7-not-modelled-and-the-plan)

To check a run: `tlc -config ring.cfg MC_FrameLoop`. To check a proof:
`tlapm FrameLoopProofs.tla`.

## 1. The system

One `Impl` (`detail.hpp`) is a window. Everything in it runs on the thread of
the application: `wait_frame`, `present` and the constructor call libwayland,
which calls the static functions of `Callbacks` back. What is concurrent is
around it: the Vulkan queue executes what the application submitted, the kernel
keeps two timelines per slot, and the compositor reads requests and sends events
at the other end of a socket, in its own time. libwayland buffers requests until
a flush, and a dispatch runs the handlers of whatever has arrived.

| Component | State | Operations | Interacts with |
|---|---|---|---|
| Startup and registry (`Impl::Impl`, `init_wayland`, `registry_global`, `create_window`) | the bound globals, `configured_`, `width_`, `pending_width_` | bind globals, create the toplevel, wait for the first configure, then the round trips of `init_vulkan` | the registry and the compositor; leaves the window the frame loop starts from |
| Frame loop (`next_frame`, `commit_frame`, `arm_frame`) | `frames_` with one timeline `counter` per slot, `next_frame_`, `handed_index_`, `presented_once_`, `frame_due_`, `frame_callback_` | `wait_frame`, `present` | everything below |
| Event dispatch (`poll_and_dispatch`, `drain_events`, `Callbacks`) | `closed_`, `frame_due_`, `resize_pending_`, `pending_width_` | poll, flush, dispatch; one handler per event | called in the middle of `wait_frame`, changes what it tests |
| Resize and retired buffers (`handle_resize`, `reap_retired`) | `retired_`, `width_`, images of `frames_` | retire all images and build new ones; destroy those that were released | shares the timelines of the slots that live on |
| Explicit synchronisation (`materialize_acquire_point`, `wait_release_point`, `share_syncobj`) | an acquire and a release timeline per slot | turn a fence into an acquire point, test a release point | kernel, Vulkan, compositor |
| Presentation feedback (`presentation_presented`, `presentation_discarded`) | `present_feedback` per slot, `stats_` | create an object per commit, count and time its answer, destroy it | present, resize |
| Format negotiation (`query_default_feedback`, `feedback_*`, `modifier_support`, `resolve_format`) | `format_table_`, `offers_`, `driver_ok_`, `modifier_cache_` | collect tranches, intersect with the driver, choose | compositor, driver, `choose_format` |
| Device set-up (`create_instance`, `pick_physical_device`, `create_device`, `DeviceBuilder`, `create_allocator`, `open_drm_node`) | instance, device, queue families, `budget_ext_`, `main_device_`, `drm_fd_` | choose a device, add extensions, chain features, open the compositor's node | driver, `select_device`, `configure_device` |
| Buffer creation (`create_framebuffers`, `create_dmabuf_resources`) | image, dmabuf, `wl_buffer`, timelines, fence of each slot | allocate, export, import | driver, DRM, compositor |
| Teardown (`~Impl`) | all of it | destroy in order | driver, compositor |
| Examples (`examples/clear`, `static`, `video`) | command buffers per slot; for video a decoder, staging buffers and views per slot, one image all pictures go through | decode, upload, draw, present; `on_resize` | `wait_frame`, `present`, `on_resize` |

Hard behaviours, and what correctness means for each component:

* **Frame loop.** A slot comes round while its previous commit is still
  somewhere between libwayland's buffer, the socket and the screen, or while its
  GPU work still runs. A lent frame must be idle (`HandedFrameIdle`), slots go
  round in strict rotation (`PoolSpec`), exactly one frame callback is under way
  although request, commit and answer are handled in different calls
  (`CallbackConserved`). `present` does not flush: what it committed must be sent
  before another frame is lent (`CommitsSentWhenLent`), and `wait_frame` must
  return all the same (`ShownReturns`).
* **Event dispatch.** Handlers run at three places of `wait_frame` (frame gate,
  release wait, and the round trips of the constructor), between a test of a flag
  and its use. No configure may be forgotten (`ResizeNotForgotten`), no frame
  lent once the close was seen (`NoFrameAfterClose`), and a close must end the
  loop even if the compositor stops talking (`CloseEndsLoop`).
* **Resize and retired buffers.** A retired image is judged by the timeline of a
  slot that goes on counting. Nothing in use may be destroyed
  (`ScanoutImageAlive`), and a burst of resizes must not pile up images
  (`RetiredBound`).
* **Explicit synchronisation.** Counters, timelines, commits under way, retired
  images, GPU work and fences must agree at every step (`Inv`).
* **Presentation feedback.** Answers come after the slot was reused or its object
  destroyed by a resize (`NoDanglingFeedback`, `StatsAccounted`); gaps are measured
  across what was discarded or never answered, and 0 stands for "none yet" as well
  as for two frames with one timestamp (`TimingExact`).
* **Startup.** A configure or a close may be dispatched by any round trip of the
  constructor (`HandsOverWindow`), globals come in any order and version
  (`ReadyComplete`), and the first answer may be a close (`StartupEnds`).
* **Format negotiation.** Three listeners fill one list from a table that may be
  read short and that later indices refer to; then two sources are intersected.
  What the application chooses from is the compositor's order
  (`OffersInPriorityOrder`), nothing usable is passed over (`DefaultChoice`,
  `FailsOnlyIfNone`), and the application's answer is not trusted
  (`ChosenAnnounced`).
* **Device set-up.** Two callbacks of the application decide in the middle of it. The
  index `select_device` returns counts the capable devices only, not all that were
  enumerated (`ChosenDeviceFits`),
  `configure_device` may repeat itself (`ExtensionsEnabledOnce`) and hands over
  structures that keep their `pNext` from one window to the next (`ChainInOrder`);
  layers of the application alone lead to a null function pointer
  (`ConstructorThrows`, which fails: section 5); and the node the compositor names may be any
  node of a device (`NodeOfMainDevice`).
* **Video player.** The GPU draws earlier frames while the next picture is uploaded
  into the image they all share (`DrawsOwnPicture`); staging buffers, command buffers
  and views are reused per slot, across resizes, with no wait of their own
  (`PendingWorkSound`); and the codec keeps pictures back (`EveryPictureOnce`,
  `PlaybackEnds`).
* **Resources.** A retired entry shares its syncobj with a living slot, a rebuild
  may stop at any call and leave the window open, and `~Impl` must cope with what
  is left (`OwnedOnce`, `ReleasedOnce`, `ParentsOutlive`, `TeardownComplete`). It
  destroys the toplevel before the decoration that was made from it, the one
  exception `ParentsOutlive` names.

`PROJECT.json` lists the hazards of the code line by line, with the properties
that would catch each.

## 2. The modules

    WindowReady           the contract between constructor and frame loop
      Startup             the constructor              MC_Startup
      FrameLoop           wait_frame and present       MC_FrameLoop
    PresentTiming         what FrameLoop's handlers make of timestamps
    FramePool             what the frame loop promises, abstractly
      VideoPlayer         an application of it         MC_VideoPlayer
    DeviceSetup           from instance to DRM node    MC_DeviceSetup
    FormatNegotiation     from feedback to a format    MC_FormatNegotiation
    Resources             handles, from Impl to ~Impl  MC_Resources
    SequenceFacts         lemmas about sequences, least numbers and recursion
    StartupProofs  FrameLoopProofs  FrameLoopEventProofs  DeviceSetupProofs
    FormatNegotiationProofs  VideoPlayerProofs  ResourcesProofs

### FrameLoop

The client thread's control is `pc`, its place in `next_frame`, `commit_frame` or
the application; each other client variable is the `Impl` member of its name
without the underscore. `frames_` is a set of functions over `Slots`.

| `pc` | the thread is | actions that leave it | code |
|---|---|---|---|
| `app` | in the application, without a frame | `WaitFrame`, `Quit` | `window.cpp:613` |
| `reap` | in `reap_retired`, at entry `it` | `ReapEntry`, `ReapDone` | `window.cpp:581-609` |
| `gate` | at the tests of the frame gate | `Gate` | `window.cpp:618-633` |
| `poll` | in `poll_and_dispatch` | `Handler`, `PollReturn` | `window.cpp:239-262` |
| `resize` | about to `handle_resize` | `HandleResize` | `window.cpp:525-579` |
| `arm` | past the gate, about to `arm_frame` | `ArmFrame` | `window.cpp:634-637`, `281-287` |
| `release` | at the test of the release wait | `HandOut`, `AwaitRelease` | `window.cpp:639-659` |
| `drain` | in `drain_events` | `Handler`, `DrainReturn` | `window.cpp:264-279`, `643-645` |
| `handed` | in the application, with a frame | `Submit`, `SkipFrame` | `examples/clear/main.cpp:147-161` |
| `submitted` | about to `present` | `CommitFrame` | `window.cpp:661-695` |
| `threw` | in the application, which caught what `wait_frame` threw | `Resume`, `Quit` | |
| `done`, `failed` | out of the loop, or `present` threw | `Terminated` | |

The environment: `gpu` is the Vulkan queue (`GpuFinish`), `released` the release
timelines, `out` libwayland's request buffer, `wire` the socket towards the
compositor (`ReceiveFrame`, `ReceiveCommit`), `events` the socket back. Of the
compositor the model keeps what the protocols let a client rely on: a commit
carries the frame callbacks requested before it (`pendingCb`, `committedCb`,
`FireFrame`), a commit is held until its release point is signalled, in any
order (`held`, `Release`), each feedback object is answered at most once
(`owed`, `AnswerFeedback`), and a configure or a close comes at any time.

What the model abstracts, and why that loses nothing the properties see:

* A size is one number; the two dimensions are compared and copied together.
  `None` is 0: the suggestion 0x0, and `pending_width_` before any suggestion.
* An image is the generation it was built in. A retired entry keeps the slot, the
  counter and the image; the other members travel with them.
* A dispatch runs handlers one by one; a batch is several steps. `poll_and_dispatch`
  may return with events unread as soon as one flag is set (`PollReturn`), which
  covers every way of splitting what arrives over reads. `drain_events` returns
  when nothing is left: an event it does not find is one that was sent later.
* libwayland drops an event whose proxy the client has destroyed; that is the
  `ELSE` of `PresentationAnswered`.
* `fb.released` of a retired entry is set only on the way to its erasure, so it
  is no variable.
* `wait_release_point` is a test: the timeout it hands to the kernel is an
  absolute time that is long past, so the ioctl returns at once.
* `ping`, `ack_configure` and the decoration's mode change no state the loop reads.
* `Fail` stands for a flush, poll, dispatch, idle wait or export that fails; a
  failing `arm_frame`, rebuild or `on_resize` leaves the half-done state it leaves in
  the code. After an exception of `wait_frame` the application may call it again
  (`Resume`). The slots behind the one a rebuild failed at have no image; the failing
  one may have an image and no `wl_buffer`, if the failing call came after the image
  was created (`window.cpp:441`, `457`, `511`): `bufferless`. Its image is lent like
  any other, and `present` attaches a null buffer (`Attached`). A slot without an image
  the application does not submit.
  A failure of `present` is final, since the export may have consumed the fence.
* `ReleaseWaitsAcquire` says that the compositor signals no release point before
  the acquire point of the same commit. Linux-drm-syncobj does not oblige it to;
  with `FALSE` the invariant is checked and proved for compositors that do not.

`Init` is any window state the constructor can leave (`WindowReady`). Before the
first `present` the code neither pumps events nor tests `closed_`; `Gate` keeps
that path.

### FramePool

The abstract promise: each slot belongs to the pool, the application or the
display; the pool lends only the slot whose turn it is and only when it is free;
a present passes it to the display and moves the turn; the display frees slots in
any order; a resize revokes a lent frame. `FrameLoop` implements it under

    turn  <- next_frame
    owner[i] <- "app" if handed_index = i, "display" if released[i] < counter[i],
                "free" otherwise

### PresentTiming

Operators on a `StatsAccum`, which `FrameLoop` applies when it dispatches a
`presented` or `discarded` event (`window.cpp:713-732`, `749`). The fields are the
members of `StatsAccum`; `gaps` is a history the properties compare them with. The
presentation clock does not go backwards but may be coarse, so that equal timestamps
are allowed; 0 is no timestamp. `CountType` is the lemma of its types.

### VideoPlayer

`wlvk-video`, against `FramePool` (an `INSTANCE` over its own `owner` and `turn`)
instead of the loop behind it: the refinement `FrameLoop => FramePool` is what allows
that. `pc` is the place of `main`: in `decode_next` (`receive`, `read`, `none`), in
`wait_frame` (`wait`), in the loop's body (`lent`, `submitted`), in the clean-up
(`finish`). `view`, `view_valid` and `staging` are the members of `Slot`.

| Action | Code (`examples/video/main.cpp`) |
|---|---|
| `ReceiveFrame`, `ReceiveAgain`, `ReceiveEof`, `ReadPacket`, `ReadEnd` | `decode_next`, `38-62` |
| `DecodedNone` | `159-161`, `621-623` |
| `Resize` | `on_resize`, `140-144`, called by a rebuild |
| `WaitFrame`, `WindowClosed` | `454` |
| `Render` | `455-617`: view, staging copy, command buffer, submission |
| `Present` | `619` |
| `Finish`, `Throw` | `626-649`, `650-653` |
| `Upload`, `Draw` | what the recorded commands do, `509-610` |

A picture is its number in decoding order. Of two submissions the GPU may run the
upload of the later before the drawing of the earlier unless a barrier forbids it
(`waits`). The codec returns pictures in order and may keep `CodecDelay` of them back.
Streams other than video are packets it skips. The pipeline, the sampler and the
conversion are made once and never change; they are left out.

### DeviceSetup

`stage` is the place in `init_vulkan` (`window.cpp:289-299`, less the format, which is
`FormatNegotiation`, and the buffers, which are `Resources`). Devices go by their
place in the enumeration; a queue family is the set of what it can do. The loop over
the devices keeps what it needs of each suitable one in `capable` (`at` is the device it
comes to next); the index of `select_device` counts these candidates, and `ChosenOf`
turns it into a device and its families. `next` is the
`pNext` of each structure and belongs to the application: it survives a construction,
so that a second window meets it (`ConstructAgain`). A walk along a chain that is a
cycle never ends (`hung`), in `chain_next` as in the driver.

| Action | Code (`context.cpp`) |
|---|---|
| `CreateInstance`, `CreateMessenger` | `122-182` |
| `ConsiderDevice` | `204-261`, one turn of the loop |
| `PickPhysicalDevice` | `263-294` |
| `QueryDefaultFeedback` | `feedback_main_device`, `518-527` |
| `StartDevice`, `AddExtension`, `ChainNext`, `ConfigureDone`, `CreateDevice` | `359-421`, `574-596` |
| `OpenDrmNode`, `OpenFallback` | `423-464` |

`/dev/dri/renderD128` is the first render node there is; of DRM devices more than 16
nothing is said. A node whose `stat` fails counts as one that does not open.

### Startup

`stage` is the place of the constructor. `RegistryGlobal` binds globals in any
order and at versions before, at and after the one the code asks for;
`CreateWindow` to `TakeSize` are `init_wayland` (`window.cpp:190-219`); in the
stages `feedback` and `buffers` the round trips of `query_default_feedback`
(`context.cpp:302`) and `create_framebuffers` (`window.cpp:373`) dispatch what the
compositor sent meanwhile. Asking a `zwp_linux_dmabuf_v1` older than version 4 for
feedback is a protocol error, which the round trip reports. `Fail` is any Vulkan,
DRM or Wayland call that throws. A round trip ends with all events dispatched; one
that arrives later counts for the next round trip or for the frame loop.

### FormatNegotiation

Fills in what `Startup` leaves out of its stage `feedback`. `table`, `candidates`,
`offers`, `cache` and `driver_ok` are the `Impl` members; `it` is the place in the
filter loop of `resolve_format`. An entry of the table is a record instead of 16
bytes, and an index beyond it is skipped as in the code.

| Action | Code (`context.cpp`) |
|---|---|
| `FormatTable`, `TrancheFormats`, `TrancheDone` | `529-568`, one per listener |
| `FeedbackDone` | the empty listener, `detail.hpp:86` |
| `RoundTripsDone` | the end of the second round trip, `302-311` |
| `ModifierSupport`, `FilterOffer` | `85-111` and the loop `313-326` |
| `ChooseFormat`, `CheckChoice` | `328-356` |

The compositor's side (`sent`, `tranche`, `announced`) records what it meant to
say, independently of what the client could read. A table read short keeps, behind
what was read, the bytes of the last table or zeroes, which is what
`std::vector::resize` leaves. `driver` is what the driver reports of each format,
fixed from the start, whether the code asks for it or not; the blind trust in a driver
that reports nothing is `Support`. A
`choose_format` may return any offer, none, or one that nobody made.

### Resources

A handle is a tuple: its kind, its slot, and for the parts a resize replaces the
build they belong to. `todo` is the list of calls still to come: those of the
constructor in the order of `init_wayland` and `init_vulkan`, then those of
`~Impl`. `Acquire` and `Release` do one call each; `Throw` is the failure of any
call of the constructor, after which no destructor runs. A `HandleResize` retires
every slot and acquires the new parts up to a call that fails, if one does; the
window then stays open, because the exception leaves `wait_frame`.

When a frame is committed, an image released or a feedback object answered is not
this module's question: `CommitFrame`, `ReapEntry` and `PresentationAnswered` may
happen for any slot, entry or object at any time. `FrameLoop` allows fewer orders,
so what holds here holds there.

`Parents` says what a handle was made from. The decoration has two parents, its manager
and the toplevel (`window.cpp:227-229`), and `~Impl` destroys the toplevel first
(`window.cpp:158-163`), against the order xdg-decoration asks for, just before it
disconnects. `ParentsOutlive` names that pair as its exception and has no other.

Handles of one call that are never apart are one handle (an image and its
allocation, a device and its queues); what `create_dmabuf_resources` opens and
closes again within one call is left out.

### WindowReady

`WindowReady` is the contract: `Startup` establishes it (`HandsOverWindow`, proved)
and `FrameLoop`'s `Init` is every state that satisfies it. The composition is this
assumption and guarantee: the frame loop begins where the constructor ends.

## 3. The runs

| Run | Instance | Checks | Distinct states |
|---|---|---|---|
| `ring` | 2 slots, 3 commits per slot, 2 configures | `TypeOK`, `HandedFrameIdle`, `NoFrameAfterClose`, `CommitsSentWhenLent`, `ScanoutImageAlive`, `ResizeNotForgotten`, `RetiredBound`, `CloseEndsLoop`, `ShownReturns` | 446 696 |
| `faults` | 2 slots, 2 commits, 1 configure; calls fail and the application goes on, frames are skipped, releases do not wait for acquires | `Inv`, `CallbackConserved`, `PoolSpec` | 362 444 |
| `feedback` | 1 slot, 3 commits, 1 configure, feedback on, timestamps 1, 5, 6, refresh 0 or 3 | `NoDanglingFeedback`, `StatsAccounted`, `TimingExact` | 668 854 |
| `devices` | up to 2 devices of 4 kinds, up to 2 DRM devices, 2 calls of each `DeviceBuilder` operation, 2 windows | `TypeOK`, `ChosenDeviceFits`, `ExtensionsEnabledOnce`, `ChainInOrder`, `NodeOfMainDevice` | 758 028 |
| `video` | 3 slots, up to 6 packets, codec delay 2, 2 resizes, failures | `TypeOK`, `DrawsOwnPicture`, `PendingWorkSound`, `EveryPictureOnce`, `PlaybackEnds` | 176 512 |
| `startup` | 2 sizes, 5 globals, 2 configures | `TypeOK`, `HandsOverWindow`, `ReadyComplete`, `StartupEnds` | 9 498 |
| `formats` | 4 entries, tables of 2, 2 tranches, one batch | `TypeOK`, `OffersInPriorityOrder`, `DefaultChoice`, `FailsOnlyIfNone`, `ChosenAnnounced` | 1 285 794 |
| `resources` | 2 slots, 3 builds, 2 feedback objects | `TypeOK`, `OwnedOnce`, `ReleasedOnce`, `ParentsOutlive`, `TeardownComplete` | 1 760 000 |
| `closed_before_first_frame` | 2 slots, 1 commit | `FalseOnceClosed` is violated | |
| `frame_not_presented` | 2 slots, 2 commits, fair compositor | `WaitFrameReturns` is violated | |
| `feedback_sent_again` | as `formats` with fewer entries, two batches | `OffersInPriorityOrder` is violated | |
| `null_messenger` | as `devices` | `ConstructorThrows` is violated | |

**Bounds.** `MaxPoint` bounds the commits per slot (the guard of `WaitFrame`),
`MaxConfigures` the configures sent, `MaxGlobals` the globals announced; two sizes
suffice to change the size and to change it back. Two commits per slot let the ring
wrap and reuse every slot; a hazard of a slot needs its previous commit and the
next, and `ring` has one more. Two configures, at any time, let two generations of
retired images overlap on slots that have moved on, and one size be suggested and taken
back. One slot is the harshest case for
feedback: each commit overwrites the reference of the last. The timestamps 1, 5, 6
give gaps of 0, 1, 4 and 5 against a limit of 4.5 nanoseconds, cut down to 4: equal
to the limit, above it and a tie. In `devices` the kinds are one
that fits with an extension more and its families apart, one that fits with one family,
one without a required extension, one that cannot present; two DRM devices with or
without a render node let the named one come first or second; two structures and two
windows are enough for a chain that closes on itself. The two structures are
interchangeable, and no property is about one of them: they are a symmetry set. In
`video` six packets
are twice the ring, and a delay of two makes the codec ask for more packets before the
first picture and be drained at the end. In `startup` five
globals are enough to announce all four required interfaces, and one more, twice or
at the wrong version; two configures let one be dispatched before the size is taken
and one after. In `formats` two tranches show what one leaves for the next; of the
four entries two share a Vulkan format (so that the cache is used), one has none,
and the index lists name the first, a reversed pair and one past the table. In
`resources` three builds are two rebuilds, the second of which meets what a failed
first one left; two feedback objects let a slot lose its reference to the first. The
invariants proved in section 6 need none of these bounds: the safety properties of
`ring` hold for any number of buffers, the default of three among them, and any number
of commits and configures.

**What each run shows.** In `ring`, whatever the order
of callbacks, releases, GPU completions, a resize and a close, a lent image is in
nobody's hands; a close ends the loop without any help from the compositor; and with a
compositor that shows the window the loop never blocks or spins for ever, although
`present` leaves its commit in libwayland's buffer, because frame gate and release
wait flush before they sleep. Also in `ring`,
no image is destroyed under its reader, no suggestion of a size is lost, and
`retired_` holds at most `N(N+1)/2` images for `N` slots, because a slot cannot be
used again, hence the ring not move, before what it retired is free (this needs an
application that presents what it is lent). In `faults` the bookkeeping agrees and
the loop implements the pool also when calls fail at any place, the application goes on
after it with slots that were not rebuilt, and frames are skipped. In `feedback`, the statistics count each commit at most
once, measure the gaps between the presented ones exactly, and a slot never refers to a
destroyed object. In `devices`, whatever index the policy returns the device and the families kept
belong together and fit, the chain
ends as long as no structure is chained twice or brings an old `pNext` (nothing
documented forbids that: the walk then never ends, a state the model reaches and no
property objects to), and of the node the compositor named the device's render node is
tried first. In `video`, no picture is lost,
repeated or overwritten before it was drawn; all are sent but the last, whose commit
nothing flushes before the window is destroyed. In `formats`, one complete
feedback reaches `choose_format` in the compositor's order and the default is its
favourite among what the driver can do; however short a table was
read, the choice is one of the offers made from it. In `resources`, after any sequence of complete and
half-done rebuilds each image, descriptor and `wl_buffer` has one owner, and the
destructor releases everything once and children before parents, but for the decoration
and its toplevel. It leaves four
proxies of globals, the default feedback object, and presentation feedback whose slot
was committed again before it was answered.

Each property of a passing run comes with a mutant of the code (marked `\* mutant`
in the modules and listed in `PROJECT.json`) that breaks it: a release point tested
one early, a flush left out, a reference kept, a close not tested, and so on.

Deadlock is checked in every run: the only states without another step are those
in which the application has left its loop, the constructor or destructor has ended,
the device is set up, playback has ended, or the format is decided.

## 4. Fairness

* `ClientFairness`: the application's thread runs whenever it can, submitted GPU
  work ends. `Quit` is fair because the runs bound the commits: an application that
  was stopped by `MaxPoint` leaves its loop. `Fail` and `SkipFrame` are never fair.
* `CompositorFairness`, for a window that is shown: the compositor reads its
  socket, fires the callbacks of committed frames, and releases a commit once a
  later one replaces it (`Superseded`). It need never release the commit on screen,
  and it owes no configure, close or feedback.
* `HiddenSpec` drops `CompositorFairness`: compositors fire no callbacks for
  windows nobody sees, so only a close can end the wait. `ring` is run under it:
  `CloseEndsLoop` needs no more, and `ShownReturns` has the compositor's part as its
  hypothesis.
* `VideoPlayer`'s `FairSpec`: the player runs, submitted work ends, and the display
  releases the slot whose turn it is. The last is what `ShownReturns` says of a window
  that is shown with at least two slots; the player has three.
* `Startup`'s `FairSpec`: the thread runs, and the compositor answers the first
  commit with a configure or a close.

Under these, `ShownReturns` needs `BufferCount >= 2`: with one slot
`wait_frame` waits for the release of the only buffer on screen.

## 5. Where code and documentation disagree

* **A close before the first frame** (run `closed_before_first_frame`).
  `wlvk.hpp:180` and `README.md:104` say that `wait_frame` returns false once the
  window was closed. `closed_` is tested behind `presented_once_` and inside the
  release wait only (`window.cpp:621-627`, `643`). If a round trip of the
  constructor dispatches the close, the first `wait_frame` lends a frame and returns
  true; the second call returns false. `NoFrameAfterClose` is what does hold.
* **A frame that is not presented** (run `frame_not_presented`). `wlvk.hpp:151-153`
  and `README.md:100` call a frame valid until the next `wait_frame` call, and
  `wlvk.hpp:176` says the call pumps events until a slot is free. After the first
  `present`, calling `wait_frame` twice in a row blocks: the first call asked for a
  frame callback, no commit carries it, so it never fires, and `poll` waits without
  a timeout (`window.cpp:622-624`, `246-247`). The slot itself is free.

* **Feedback sent again** (run `feedback_sent_again`). `wlvk.hpp:114` says that
  `choose_format` gets the offers in the compositor's priority order, and
  `wlvk.hpp:41` that an offer is one of its feedback. `feedback_tranche_done` appends
  to `offers_`, which nothing clears, and `feedback_done` is empty
  (`context.cpp:565`, `detail.hpp:86`). A compositor that sends its feedback a second
  time before the second round trip of `query_default_feedback` ends has its
  withdrawn preferences ranked above the current ones.

* **Layers without debug utils** (run `null_messenger`). `wlvk.hpp:170` says that the
  constructor throws `std::runtime_error` on any failure. `create_instance` creates a
  debug messenger as soon as any layer is enabled (`context.cpp:169-181`), but enables
  `VK_EXT_debug_utils` only with its own validation layer. With
  `extra_instance_layers` alone, `vkCreateDebugUtilsMessengerEXT` is a null pointer
  (unless the application also added the extension), and the constructor calls it.

## 6. The proofs

TLAPS checks every step. The theorems hold for all values of the constants that the
named assumptions allow, which give the constants their types and say nothing of the
bounds of section 3:

* `LoopAssumption`, `TimingAssumption` (`FrameLoop`): any `BufferCount >= 1`, any set
  of sizes, any timestamps, any of the switches;
* `StartupAssumption`: any set of sizes, any number of globals and configures;
* `DeviceAssumption`, `StructAssumption`: any kinds of devices and DRM devices (one has
  a node at least), finitely many required extensions and structures;
* `NegotiationAssumption`: any entries, index lists and tables;
* `VideoAssumption`: any ring, file and codec delay;
* `ResourcesAssumption`: any number of buffers, of builds and of feedback objects.

| Theorem | Says |
|---|---|
| `FrameLoopProofs!TypeCorrect` | `Spec => []TypeOK` |
| `FrameLoopProofs!Invariance` | `Spec => []Inv` |
| `FrameLoopProofs!HandedFrameSafety` | `Spec => []HandedFrameIdle` |
| `FrameLoopProofs!ScanoutSafety` | `Spec => []ScanoutImageAlive` |
| `FrameLoopProofs!Refinement` | `Spec => PoolSpec` |
| `FrameLoopProofs!RetiredSafety` | `Spec => []RetiredBound`, if no call fails and every lent frame is presented |
| `FrameLoopEventProofs!ResizeSafety` | `Spec => []ResizeNotForgotten` |
| `FrameLoopEventProofs!CloseSafety` | `Spec => []NoFrameAfterClose` |
| `FrameLoopEventProofs!CallbackSafety` | `Spec => []CallbackConserved` |
| `FrameLoopEventProofs!SentSafety` | `Spec => []CommitsSentWhenLent` |
| `FrameLoopEventProofs!FeedbackSafety` | `Spec => []NoDanglingFeedback` |
| `FrameLoopEventProofs!AccountSafety` | `Spec => []StatsAccounted` |
| `FrameLoopEventProofs!TimingSafety` | `Spec => []TimingExact` |
| `StartupProofs!StartupTypes` | `Spec => []TypeOK` |
| `StartupProofs!WindowHandedOver` | `Spec => []HandsOverWindow` |
| `StartupProofs!CompleteWhenReady` | `Spec => []ReadyComplete` |
| `DeviceSetupProofs!DeviceTypes` | `Spec => []TypeOK` |
| `DeviceSetupProofs!DeviceSafety` | `Spec => []ChosenDeviceFits` |
| `DeviceSetupProofs!ExtensionsSafety` | `Spec => []ExtensionsEnabledOnce` |
| `DeviceSetupProofs!NodeSafety` | `Spec => []NodeOfMainDevice` |
| `DeviceSetupProofs!ChainSafety` | `Spec => []ChainInOrder` |
| `FormatNegotiationProofs!FormatTypes` | `Spec => []TypeOK` |
| `FormatNegotiationProofs!OfferOrder` | `OffersInPriorityOrder`, always while feedback was sent at most once |
| `FormatNegotiationProofs!ChoiceSafety` | `DefaultChoice`, likewise |
| `FormatNegotiationProofs!FailureSafety` | `FailsOnlyIfNone`, likewise |
| `FormatNegotiationProofs!AnnouncedSafety` | `ChosenAnnounced`, likewise |
| `VideoPlayerProofs!PlayerTypes` | `Spec => []TypeOK` |
| `VideoPlayerProofs!OrderSafety` | `Spec => []EveryPictureOnce` |
| `VideoPlayerProofs!WorkSafety` | `Spec => []PendingWorkSound` |
| `VideoPlayerProofs!PictureSafety` | `Spec => []DrawsOwnPicture` |
| `ResourcesProofs!ResourceTypes` | `Spec => []TypeOK` |
| `ResourcesProofs!OwnedSafety` | `Spec => []OwnedOnce` |
| `ResourcesProofs!ReleaseSafety` | `Spec => []ReleasedOnce` |
| `ResourcesProofs!ParentSafety` | `Spec => []ParentsOutlive` |
| `ResourcesProofs!TeardownSafety` | `Spec => []TeardownComplete` |

**The inductive invariant of the frame loop.** `HandedFrameIdle` says nothing about
where commits are while no frame is lent, so it is not inductive. `Inv` adds what
the code relies on without saying it:

* `TurnInv`: a slot's counter is at most one ahead of its release timeline, and
  level with it while the slot is lent. A slot is committed only after it was lent,
  and lent only after the release of its last commit.
* `CommitInv`: a commit that is anywhere between libwayland's buffer and the screen
  and not released is its slot's last one, and its image is the slot's current one
  or is retired with exactly that point. This is why judging a retired image by the
  slot's living timeline is sound: the timeline cannot pass the point without the
  commit being released.
* `OneCommitPerSlot`: a slot has no second such commit, so that a release removes
  the only one and a level timeline means there is none.
* `JobInv`: GPU work renders into current images (`handle_resize` waits for the
  device before it retires them) and, if releases wait for acquires, belongs to the
  slot's unreleased commit or to the frame about to be presented.
* `FenceInv`: a fence is signalled, or about to be, only between submit and present.

`Inv` is an invariant of the run `faults` as well; its preservation is proved one
conjunct and one action at a time. `HandedFrameIdle` follows from `TurnInv`,
`CommitInv`, `JobInv`, `FenceInv` and the fact that a lent frame has a slot;
`ScanoutImageAlive` from `CommitInv` and `JobInv`.

`ResizeNotForgotten` and `NoFrameAfterClose` have small invariants of their own: the
gate is the last place that tests the flags, and no handler runs between it and the
places `arm` and `handed`, except in the release wait, which tests `closed_` again.

**Refinement.** Initial states map to initial states; of the actions only `HandOut`,
`CommitFrame`, `HandleResize` and `Release` change `Owner` or the turn, and map to
`Acquire`, `Present`, `Revoke` (or a stutter if no frame was lent) and `Release`; the
others stutter. The proof uses `TypeOK` and `Inv`: that the lent slot is the one
whose turn it is, and that a released commit was its slot's last.

**Frame callbacks.** `CallbackConserved` is inductive as it stands: it adds up the
places a callback can be in, four of which are queues counted by `Positions`. The
lemmas say what `Append`, `Tail` and `\o` do to such a count.

**Commits that were not flushed.** That `present` need not flush rests on the
callback: a commit that is still in libwayland's buffer has not been seen by the
compositor, so the callback that goes with it cannot have been answered, `frame_due_`
is false, and the frame gate must poll, which flushes. `SentInv` is that argument:
`UnsentInv` says where the thread may be and that nothing is due while a commit is
unsent; `LendingInv` that from `arm_frame` to `present` the callback is asked for and
unanswered, and its request comes after every commit in the queues; `GateInv`,
`DueInv` and `FirstInv` carry the flag through the gate and cover the first frame,
which passes it without one. It uses `CallbackConserved` and the invariant behind
`NoFrameAfterClose`.

**Feedback and statistics.** `NoDanglingFeedback` is inductive. `StatsAccounted`
compares three numbers with a fourth; its invariant adds that each live object belongs
to a commit that was made (`Commits`, the set of slots and points), so that an answer
moves one commit from pending to counted, and a new object is a new commit. For
`TimingExact`, `TimingInv` says the same of every `StatsAccum` the handlers can make,
of which the history `gaps` is a part: `min` and `late` are recomputed when one more
gap is appended.

**The bound of `retired_`.** An entry's age is the number of resizes since it was
built; its distance is how many turns away its slot is. `AgesInv` bounds their sum by
the number of buffers (by one less while the gate waits): a resize adds one to all
ages; a turn brings all slots one nearer; and the slot whose turn it was has just been
released, hence what it retired is free and `reap_retired`, which every `wait_frame`
begins with, removes it (`FreedInv`). As a slot retires one image per generation
(`EntryOnce`), the entries are an injection into a triangle of `N(N+1)/2` pairs of
slot and age. A call that fails, or a frame that is lent and not presented, breaks the
argument: after `arm_frame` or `on_resize` threw, `wait_frame` can be called and fail
again, and each round may retire images while the ring stands still. Hence the two
hypotheses, `~MayFail` and `~SkipAllowed`; `ring` is such an instance.

**Startup.** `SizeInv` says that the size, once taken, is the pending one or a resize
is pending: `toplevel_configure` compares with `width_` only after `configured_` is
set, and before that nothing has been compared yet because `TakeSize` follows.
`GlobalsInv` carries what the registry test established to the end of the constructor.
`ReadyComplete` says of one version only, that of linux-dmabuf: a `wl_compositor` bound
below 4 passes, although `damage_buffer` (`window.cpp:688`) needs version 4.

**Device set-up.** For `ChosenDeviceFits`, `DeviceInv` says what the loop has kept: a
suitable device and its families per candidate (`CandidateFits`), in the order of the
enumeration (`Passed`), and once it has passed a suitable device, a first candidate that
comes no later (`FirstComesFirst`), which is what the library takes without a policy. `ExtensionsInv` follows the list from the library's own
entries through each call of the builder; `NodeInv` counts the nodes that were tried.
`ChainInv` says where each `pNext` may lead: into structures that were chained, now
or earlier, and nowhere for one that never was. While nothing was chained twice
(`Fresh`), the walk `Link` is then the list of structures and ends.

**Format negotiation.** `HeldInv` says that the client holds what the compositor sent:
its table, the tranche under way, the tranches before. `FilterInv` says that the
modifiers of every format the loop has passed were asked for, and that `driver_ok_`
begins with the first offer the driver can back. Both speak of feedback that was sent
once (`batches <= 1`), as section 5 shows that they fail otherwise; the order holds
for any table that was read in full, the other three properties say themselves which
tables they are about.

**Video player.** `OrderInv` relates the picture at hand to those committed, in and
behind libwayland's buffer. `WorkInv` says that a slot has at most one submission and
none when it is lent (from the pool), that views under pending work are those of the
current image, and that only the oldest submission may have uploaded, because all but
the first ever begin with a barrier against the sampling before. `PictureInv` adds
what is in the staging buffers and in the shared image (`CarryInv`), that a slot which
was presented is due the picture counted back from the last one by its distance in the
ring (`DueInv`), and that this distance is no more than what was presented
(`SinceInv`).

**Resources.** `OwnerInv` has a part for each stage of a window. `ConstructInv`: what was
acquired and what is still to acquire make up the handles of such a window (`Built`), so
that the last call leaves an open window with all of them. `OpenInv`: the handles that
stay as long as the window are live (`FixedInv`); every reference of a slot or a retired
entry is to a live part, no two are to the same, and no live part is without one
(`PartInv`), wherever a rebuild stopped; feedback likewise (`FeedbackInv`). The build
number separates the parts a rebuild adds from all there were. `TeardownInv`: the list
of `~Impl` names each handle once (`Lists`), only live ones, never one after what was
made from it (`Orderly`, with the one exception `Outliving` allows), and what it does not name is left over; each release keeps
that for the rest of the list. `ReleaseListed` builds it from the lists of entries,
slots, Vulkan and Wayland, one concatenation at a time: lists are apart if their kinds
are, or, for retired entries and slots, by `PartInv`; the order is that no kind is made
from one that is released before it (`ReleaseKindOrder`).

**Recursion.** No operator is declared `RECURSIVE` in these modules. `Link`, `Listed` and
the community modules' `FlattenSeq` are recursive functions: that a function exists which
satisfies such an equation is proved (`RecursionExists` in `SequenceFacts`, `WalkExists`,
`FlattenSteps`), and
what holds for each of its values is shown by the least counterexample
(`LeastNatural`), since the induction theorems of the library cannot be instantiated.

**Only model-checked.** `ShownReturns`, `CloseEndsLoop`, `StartupEnds` and
`PlaybackEnds` are liveness properties under fairness, which TLAPS does not reach. Every
other property of a passing run is a theorem.

## 7. Not modelled, and the plan

Done: the frame loop with all its handlers and failures, its abstract pool, the timing
statistics, the constructor's globals, events and window, the negotiation of the
format, the choice and creation of the device, the ownership of every handle, the video
player on top, and the proofs of every safety property the runs check.

Planned: action properties of the components that have invariants only (what a step of
the constructor, of a rebuild or of the player may never do), and their proofs.

Left out for good:

* the vendored Vulkan Memory Allocator, build files and shaders (no behaviour of this
  program to check), and what Vulkan and DRM calls compute (plane layouts, memory types);
* the set-up of pipelines, samplers and descriptors in the examples, which happens once
  and in order, and the resize test of `wlvk-clear`, which only sends requests;
* the capacity of the socket (a full one is a failing flush), and signals during `poll`:
  they add a return of `poll`, which `PollReturn` allows anyway;
* processor time, so that the release wait spins instead of sleeping is stated but not
  measured;
* an application that presents a stale `Frame`: `commit_frame` refuses it by its index
  (`window.cpp:662-664`), and the frame it presents instead of a stale one of the same
  index is the one that is lent;
* what a failed `present` leaves behind: the fence's payload may be gone, and if it was
  the first `present`, the next `wait_frame` would lend the frame again without waiting
  for the work already submitted. `Fail` ends the loop there.
