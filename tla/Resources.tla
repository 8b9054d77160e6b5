----------------------------- MODULE Resources -----------------------------
(***************************************************************************)
(* What a wlvk::Window owns: the Wayland, Vulkan, DRM and file handles the *)
(* constructor acquires one after the other, those that resizes, frames    *)
(* and presentation feedback add and drop, and their release by ~Impl.     *)
(*                                                                         *)
(* A handle is a tuple that begins with its kind, followed by the slot and *)
(* the build it belongs to where it has one.                               *)
(***************************************************************************)
EXTENDS Naturals, Sequences, FiniteSets, SequencesExt

CONSTANTS
  BufferCount,      \* WindowConfig::buffer_count
  MaxBuilds,        \* bound: how often the images are built
  MaxFeedback       \* bound: feedback objects asked for

ASSUME ResourcesAssumption ==
  /\ BufferCount \in Nat \ {0}
  /\ MaxBuilds \in Nat \ {0}
  /\ MaxFeedback \in Nat

Slots   == 0 .. BufferCount - 1
None    == 0
Parts   == {"image", "dma_buf_fd", "buffer"}        \* what a resize replaces
Options == {"presentation", "decoration", "debug_messenger"}

VARIABLES
  options,      \* the optional handles this window has
  live,         \* the handles acquired and not released
  stage,        \* "construct", "open", "teardown", "destroyed" or "threw"
  slots,        \* frames_: for each slot the build of each part, or None
  retired,      \* retired_: [slot, image, dma_buf_fd, buffer]
  feedback,     \* present_feedback: the object a slot refers to, or None
  builds, asked,    \* builds begun and feedback objects asked for so far
  todo          \* the handles still to acquire, or still to release, in order

vars == <<options, live, stage, slots, retired, feedback, builds, asked, todo>>

----------------------------------------------------------------------------
(* Construction.                                                           *)

If(option, handles) == IF option \in options THEN handles ELSE <<>>

PerSlot(handles) == FlattenSeq([k \in 1 .. BufferCount |-> handles[k - 1]])

PartsOfSlot(i, build) ==
  << <<"image", i, build>>, <<"dma_buf_fd", i, build>>, <<"buffer", i, build>> >>

BuildOrderOneMore(build) ==                                         \* mutant
  FlattenSeq([k \in 1 .. BufferCount + 1 |-> PartsOfSlot(k - 1, build)])

\* The parts of all slots in the order create_dmabuf_resources builds them.
BuildOrder(build) == PerSlot([i \in Slots |-> PartsOfSlot(i, build)])

\* The handles of a slot that live as long as the window; the two descriptors
\* are closed when the timelines were imported.
SetupOrder(i) ==
  << <<"acquire_syncobj", i>>, <<"acquire_fd", i>>, <<"acquire_timeline", i>>,
     <<"release_syncobj", i>>, <<"release_fd", i>>, <<"release_timeline", i>>,
     <<"render_fence", i>> >>

Transient == {"acquire_fd", "release_fd"}

\* init_wayland and init_vulkan.
ConstructionOrder ==
  << <<"display">>, <<"registry">>, <<"compositor">>, <<"wm_base">>, <<"dmabuf">>,
     <<"syncobj_manager">> >>
  \o If("presentation", << <<"presentation">> >>)
  \o If("decoration", << <<"decoration_manager">> >>)
  \o << <<"surface">>, <<"xdg_surface">>, <<"toplevel">> >>
  \o If("decoration", << <<"decoration">> >>)
  \o << <<"instance">> >>
  \o If("debug_messenger", << <<"debug_messenger">> >>)
  \o << <<"default_feedback">>, <<"device">>, <<"allocator">>, <<"drm_fd">>,
        <<"dmabuf_pool">> >>
  \o BuildOrder(1)
  \o PerSlot([i \in Slots |-> SetupOrder(i)])
  \o << <<"syncobj_surface">> >>

Init ==
  /\ options \in SUBSET Options
  /\ live = {}
  /\ stage = "construct"
  /\ slots = [i \in Slots |-> [p \in Parts |-> None]]
  /\ retired = <<>>
  /\ feedback = [i \in Slots |-> None]
  /\ builds = 1
  /\ asked = 0
  /\ todo = ConstructionOrder

\* What the slot members refer to once these handles of a build were acquired.
Refers(s, handles, build) ==
  [i \in Slots |->
     [p \in Parts |-> IF <<p, i, build>> \in handles THEN build ELSE s[i][p]]]

\* The next call of the constructor succeeds.  The last one follows the round
\* trip after which the transient descriptors are closed.
Acquire ==
  /\ stage = "construct"
  /\ LET h == Head(todo)
         kept == IF h = <<"syncobj_surface">>
                 THEN {x \in live : x[1] \notin Transient}
                 ELSE live
     IN  /\ live' = kept \cup {h}
         /\ slots' = Refers(slots, {h}, builds)
  /\ todo' = Tail(todo)
  /\ stage' = IF Len(todo) = 1 THEN "open" ELSE "construct"
  /\ UNCHANGED <<options, retired, feedback, builds, asked>>

\* It fails: the constructor throws, and as there is no complete Impl no
\* destructor runs.
Throw ==
  /\ stage = "construct"
  /\ stage' = "threw"
  /\ UNCHANGED <<options, live, slots, retired, feedback, builds, asked, todo>>

----------------------------------------------------------------------------
(* The open window.                                                        *)

EntryPart(entry, p) ==
  IF entry.parts[p] = None THEN <<>> ELSE << <<p, entry.slot, entry.parts[p]>> >>

NoRetiredEntry(entry) == <<>>                                       \* mutant

RetiredEntryAndSyncobj(entry) ==                                    \* mutant
  EntryPart(entry, "buffer") \o EntryPart(entry, "image")
    \o EntryPart(entry, "dma_buf_fd") \o << <<"release_syncobj", entry.slot>> >>

\* The parts an entry of retired_ owns: it shares release_syncobj with its slot.
RetiredEntry(entry) ==
  EntryPart(entry, "buffer") \o EntryPart(entry, "image")
    \o EntryPart(entry, "dma_buf_fd")

KeptParts(s) == s                                                   \* mutant

\* Once retired, a slot has no parts until the rebuild gets to it.
Emptied(s) == [i \in Slots |-> [p \in Parts |-> None]]

\* The feedback objects a resize destroys.
Dropped(f) == {<<"feedback", f[i]>> : i \in {j \in Slots : f[j] # None}}

\* handle_resize: all slots are retired, then create_dmabuf_resources acquires
\* new parts in order and throws at the first call that fails.  The window
\* stays open: the exception leaves wait_frame, not the destructor.
HandleResize ==
  /\ stage = "open"
  /\ builds < MaxBuilds
  /\ builds' = builds + 1
  /\ retired' = retired \o
       [k \in 1 .. BufferCount |-> [slot |-> k - 1, parts |-> slots[k - 1]]]
  /\ feedback' = [i \in Slots |-> None]
  /\ \E acquired \in 0 .. Len(BuildOrder(builds + 1)) :
       LET new == ToSet(SubSeq(BuildOrder(builds + 1), 1, acquired))
       IN  /\ slots' = Refers(Emptied(slots), new, builds + 1)
           /\ live' = (live \ Dropped(feedback)) \cup new
  /\ UNCHANGED <<options, stage, asked, todo>>

\* reap_retired destroys the parts of an entry whose point is signalled.
ReapEntry ==
  /\ stage = "open"
  /\ \E k \in DOMAIN retired :
       /\ live' = live \ ToSet(RetiredEntry(retired[k]))
       /\ retired' = RemoveAt(retired, k)
  /\ UNCHANGED <<options, stage, slots, feedback, builds, asked, todo>>

\* arm_frame, and frame_done.
ArmFrame ==
  /\ stage = "open"
  /\ <<"frame_callback">> \notin live
  /\ live' = live \cup {<<"frame_callback">>}
  /\ UNCHANGED <<options, stage, slots, retired, feedback, builds, asked, todo>>

FrameDone ==
  /\ stage = "open"
  /\ <<"frame_callback">> \in live
  /\ live' = live \ {<<"frame_callback">>}
  /\ UNCHANGED <<options, stage, slots, retired, feedback, builds, asked, todo>>

\* commit_frame asks for feedback; the slot forgets the object it referred to.
CommitFrame(i) ==
  /\ stage = "open"
  /\ "presentation" \in options
  /\ asked < MaxFeedback
  /\ asked' = asked + 1
  /\ feedback' = [feedback EXCEPT ![i] = asked + 1]
  /\ live' = live \cup {<<"feedback", asked + 1>>}
  /\ UNCHANGED <<options, stage, slots, retired, builds, todo>>

\* presentation_presented and presentation_discarded.
PresentationAnswered ==
  /\ stage = "open"
  /\ \E n \in 1 .. asked :
       /\ <<"feedback", n>> \in live
       /\ live' = live \ {<<"feedback", n>>}
       /\ feedback' = [i \in Slots |-> IF feedback[i] = n THEN None ELSE feedback[i]]
  /\ UNCHANGED <<options, stage, slots, retired, builds, asked, todo>>

----------------------------------------------------------------------------
(* ~Impl.                                                                  *)

\* A handle the window may be without.
Held(h) == IF h \in live THEN <<h>> ELSE <<>>

PartOf(i, p) == IF slots[i][p] = None THEN <<>> ELSE << <<p, i, slots[i][p]>> >>

RetiredOrder == FlattenSeq([k \in DOMAIN retired |-> RetiredEntry(retired[k])])

SlotOrder(i) ==
  (IF feedback[i] = None THEN <<>> ELSE << <<"feedback", feedback[i]>> >>)
  \o PartOf(i, "buffer")
  \o << <<"acquire_timeline", i>>, <<"release_timeline", i>> >>
  \o << <<"acquire_syncobj", i>>, <<"release_syncobj", i>> >>
  \o PartOf(i, "dma_buf_fd")
  \o << <<"render_fence", i>> >>
  \o PartOf(i, "image")

VulkanOrderPoolLast ==                                              \* mutant
  << <<"allocator">>, <<"dmabuf_pool">>, <<"device">> >>
  \o Held(<<"debug_messenger">>)
  \o << <<"instance">>, <<"drm_fd">> >>

VulkanOrder ==
  << <<"dmabuf_pool">>, <<"allocator">>, <<"device">> >>
  \o Held(<<"debug_messenger">>)
  \o << <<"instance">>, <<"drm_fd">> >>

WaylandOrder ==
  Held(<<"frame_callback">>)
  \o << <<"toplevel">> >>
  \o Held(<<"decoration">>) \o Held(<<"decoration_manager">>)
  \o << <<"xdg_surface">>, <<"wm_base">>, <<"surface">>, <<"registry">>, <<"display">> >>

\* The application destroys the window, also after an exception.
Destroy ==
  /\ stage = "open"
  /\ stage' = "teardown"
  /\ todo' = RetiredOrder \o << <<"syncobj_surface">> >> \o PerSlot([i \in Slots |-> SlotOrder(i)])
               \o VulkanOrder \o WaylandOrder
  /\ UNCHANGED <<options, live, slots, retired, feedback, builds, asked>>

Release ==
  /\ stage = "teardown"
  /\ live' = live \ {Head(todo)}
  /\ todo' = Tail(todo)
  /\ stage' = IF Len(todo) = 1 THEN "destroyed" ELSE "teardown"
  /\ UNCHANGED <<options, slots, retired, feedback, builds, asked>>

Ended == stage \in {"destroyed", "threw"} /\ UNCHANGED vars

----------------------------------------------------------------------------
(* The specification.                                                      *)

Next ==
  \/ Acquire \/ Throw
  \/ HandleResize \/ ReapEntry \/ ArmFrame \/ FrameDone
  \/ \E i \in Slots : CommitFrame(i)
  \/ PresentationAnswered
  \/ Destroy \/ Release \/ Ended

Spec == Init /\ [][Next]_vars

----------------------------------------------------------------------------
(* Properties.                                                             *)

WindowKinds ==
  {"display", "registry", "compositor", "wm_base", "dmabuf", "syncobj_manager",
   "presentation", "decoration_manager", "surface", "xdg_surface", "toplevel",
   "decoration", "instance", "debug_messenger", "default_feedback", "device",
   "allocator", "drm_fd", "dmabuf_pool", "syncobj_surface", "frame_callback"}

SlotKinds == {"acquire_syncobj", "acquire_fd", "acquire_timeline",
              "release_syncobj", "release_fd", "release_timeline", "render_fence"}

Handles ==
  {<<kind>> : kind \in WindowKinds}
    \cup {<<kind, i>> : kind \in SlotKinds, i \in Slots}
    \cup {<<p, i, build>> : p \in Parts, i \in Slots, build \in 1 .. MaxBuilds}
    \cup {<<"feedback", n>> : n \in 1 .. MaxFeedback}

PartRefs == [Parts -> 0 .. MaxBuilds]

\* Handles are handles, references are to builds and objects there were.
TypeOK ==
  /\ options \subseteq Options
  /\ live \subseteq Handles
  /\ stage \in {"construct", "open", "teardown", "destroyed", "threw"}
  /\ slots \in [Slots -> PartRefs]
  /\ retired \in Seq([slot : Slots, parts : PartRefs])
  /\ feedback \in [Slots -> 0 .. MaxFeedback]
  /\ builds \in 1 .. MaxBuilds
  /\ asked \in 0 .. MaxFeedback
  /\ todo \in Seq(Handles)

\* The members that refer to a part: a slot, or an entry of retired_.
Owners(p, i, build) ==
  {<<"slot", i>> : x \in {y \in {i} : slots[i][p] = build}}
    \cup {<<"retired", k>> : k \in {j \in DOMAIN retired :
            retired[j].slot = i /\ retired[j].parts[p] = build}}

\* While the window is open, also after any number of rebuilds that failed part
\* way, every image, descriptor and wl_buffer has exactly one owner among slots
\* and retired entries, and no member refers to one that is gone.
OwnedOnce ==
  stage = "open" =>
    /\ \A p \in Parts, i \in Slots, build \in 1 .. builds :
         Cardinality(Owners(p, i, build)) = IF <<p, i, build>> \in live THEN 1 ELSE 0
    /\ \A i \in Slots : feedback[i] # None => <<"feedback", feedback[i]>> \in live

\* ~Impl releases nothing twice, whatever resizes, failed rebuilds, reaps and
\* unanswered feedback came before it.
ReleasedOnce == stage = "teardown" => Head(todo) \in live

\* What a handle was made from and must not be gone when it is released, as far
\* as ~Impl releases it at all.
Parents(kind) ==
  CASE kind \in {"registry", "wm_base", "decoration_manager", "surface",
                 "acquire_timeline", "release_timeline", "buffer"} -> {"display"}
    [] kind \in {"frame_callback", "syncobj_surface", "feedback"} -> {"surface"}
    [] kind = "xdg_surface" -> {"surface", "wm_base"}
    [] kind = "toplevel" -> {"xdg_surface"}
    [] kind = "decoration" -> {"toplevel", "decoration_manager"}
    [] kind \in {"acquire_syncobj", "release_syncobj"} -> {"drm_fd"}
    [] kind \in {"debug_messenger", "device"} -> {"instance"}
    [] kind \in {"allocator", "render_fence"} -> {"device"}
    [] kind = "dmabuf_pool" -> {"allocator"}
    [] kind = "image" -> {"dmabuf_pool"}
    [] OTHER -> {}

\* Nothing is released after what it was made from, retired images and their
\* pool included, with one exception: ~Impl destroys the toplevel before the
\* decoration that was made from it.
ParentsOutlive ==
  stage = "teardown" =>
    \A kind \in Parents(Head(todo)[1]) :
      <<kind>> \in live \/ (Head(todo) = <<"decoration">> /\ kind = "toplevel")

\* After ~Impl only the proxies of globals it does not destroy are left, and
\* feedback objects no slot refers to: no descriptor, no Vulkan or DRM object.
TeardownComplete ==
  stage = "destroyed" =>
    /\ \A h \in live : h[1] \in {"compositor", "dmabuf", "syncobj_manager", "presentation",
                                 "default_feedback", "feedback"}
    /\ \A i \in Slots : <<"feedback", feedback[i]>> \notin live

=============================================================================
