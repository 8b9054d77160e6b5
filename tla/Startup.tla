------------------------------ MODULE Startup ------------------------------
(***************************************************************************)
(* The constructor of a wlvk::Window: init_wayland with the registry, the  *)
(* creation of the surface and the wait for its first configure, then the  *)
(* round trips of init_vulkan, which dispatch whatever the compositor has  *)
(* sent meanwhile.  It ends in a window that wait_frame can serve, or in   *)
(* an exception.                                                           *)
(***************************************************************************)
EXTENDS Naturals, Sequences, WindowReady

CONSTANTS
  DefaultSize,      \* WindowConfig::width and height
  PreferDecoration, \* WindowConfig::prefer_server_decoration
  MaxGlobals,       \* bound: globals announced
  MaxConfigures     \* bound: configures sent

ASSUME StartupAssumption ==
  /\ Sizes \subseteq Nat \ {0}
  /\ DefaultSize \in Sizes
  /\ PreferDecoration \in BOOLEAN
  /\ MaxGlobals \in Nat
  /\ MaxConfigures \in Nat

Required   == {"wl_compositor", "xdg_wm_base", "zwp_linux_dmabuf_v1",
               "wp_linux_drm_syncobj_manager_v1"}
Optional   == {"wp_presentation", "zxdg_decoration_manager_v1"}
Interfaces == Required \cup Optional
Versions   == {3, 4, 5}     \* before, at and after the version the code wants

VARIABLES
  bound,            \* the version an interface is bound at, 0 if it is not
  globals,          \* globals announced so far
  decorated,        \* decoration_ was created
  configured, closed, resize_pending, pending, width,
  events,           \* sent by the compositor and not dispatched
  configures,       \* configures sent so far
  stage             \* where the constructor is

registry == <<bound, globals, decorated>>
window   == <<configured, closed, resize_pending, pending, width>>
vars     == <<registry, window, events, configures, stage>>

Stages == {"registry", "check", "create", "configure", "size", "device",
           "feedback", "buffers", "ready", "failed"}

Event == [type : {"configure"}, size : Sizes \cup {None}]
           \cup [type : {"surface", "close"}]

Init ==
  /\ bound = [i \in Interfaces |-> 0]
  /\ globals = 0
  /\ decorated = FALSE
  /\ configured = FALSE
  /\ closed = FALSE
  /\ resize_pending = FALSE
  /\ pending = None
  /\ width = None
  /\ events = <<>>
  /\ configures = 0
  /\ stage = "registry"

----------------------------------------------------------------------------
(* The registry.                                                           *)

VersionAnnounced(interface, version) == version                     \* mutant

\* The version an announced global is bound at; the others are bound at 1.
BoundVersion(interface, version) ==
  IF interface \in {"wl_compositor", "zwp_linux_dmabuf_v1"}
  THEN IF version < 4 THEN version ELSE 4
  ELSE 1

\* A decoration manager is used only if the application asked for it.
Wanted(interface) ==
  interface = "zxdg_decoration_manager_v1" => PreferDecoration

\* registry_global: the first global of each interface is bound.
RegistryGlobal(interface, version) ==
  /\ stage = "registry"
  /\ globals < MaxGlobals
  /\ globals' = globals + 1
  /\ bound' = IF bound[interface] = 0 /\ Wanted(interface)
              THEN [bound EXCEPT ![interface] = BoundVersion(interface, version)]
              ELSE bound
  /\ UNCHANGED <<decorated, window, events, configures, stage>>

\* The round trip ends: every global there is was announced.
RegistryDone ==
  /\ stage = "registry"
  /\ stage' = "check"
  /\ UNCHANGED <<registry, window, events, configures>>

WindowGlobalsBound ==                                               \* mutant
  bound["wl_compositor"] # 0 /\ bound["xdg_wm_base"] # 0

RequiredBound == \A interface \in Required : bound[interface] # 0

CheckGlobals ==
  /\ stage = "check"
  /\ stage' = IF RequiredBound THEN "create" ELSE "failed"
  /\ UNCHANGED <<registry, window, events, configures>>

----------------------------------------------------------------------------
(* The window.                                                             *)

\* create_window.  Its commit asks for the first configure.
CreateWindow ==
  /\ stage = "create"
  /\ decorated' = (bound["zxdg_decoration_manager_v1"] # 0)
  /\ stage' = "configure"
  /\ UNCHANGED <<bound, globals, window, events, configures>>

\* The stages that dispatch: the wait for the first configure, and the round
\* trips of query_default_feedback and create_framebuffers.  A batch of several
\* events is several steps.
Dispatching == stage \in {"configure", "feedback", "buffers"}

Take(type) ==
  /\ Dispatching
  /\ events # <<>>
  /\ Head(events).type = type
  /\ events' = Tail(events)
  /\ UNCHANGED <<registry, configures, stage>>

ResizeNeededAtFirst(size) == ~configured /\ size # width            \* mutant

ResizeNeeded(size) == configured /\ size # width

ToplevelConfigure ==
  /\ Take("configure")
  /\ LET size == Head(events).size
     IN  IF size = None
         THEN UNCHANGED <<pending, resize_pending>>
         ELSE /\ pending' = size
              /\ resize_pending' = (resize_pending \/ ResizeNeeded(size))
  /\ UNCHANGED <<configured, closed, width>>

\* xdg_surface_configure acknowledges.
SurfaceConfigure ==
  /\ Take("surface")
  /\ configured' = TRUE
  /\ UNCHANGED <<closed, resize_pending, pending, width>>

ToplevelClose ==
  /\ Take("close")
  /\ closed' = TRUE
  /\ UNCHANGED <<configured, resize_pending, pending, width>>

LoopEndsConfigured == configured                                    \* mutant

LoopEnds == configured \/ closed

\* The dispatch loop of init_wayland ends.  wl_display_dispatch may have gone
\* on with events behind the one that ends the loop.
Configured ==
  /\ stage = "configure"
  /\ LoopEnds
  /\ stage' = IF configured THEN "size" ELSE "failed"
  /\ UNCHANGED <<registry, window, events, configures>>

InitialSize == IF pending # None THEN pending ELSE DefaultSize

TakeSize ==
  /\ stage = "size"
  /\ width' = InitialSize
  /\ stage' = "device"
  /\ UNCHANGED <<registry, configured, closed, resize_pending, pending, events,
                 configures>>

----------------------------------------------------------------------------
(* init_vulkan, as far as it concerns the window.                          *)

\* create_instance and pick_physical_device.
PickDevice ==
  /\ stage = "device"
  /\ stage' = "feedback"
  /\ UNCHANGED <<registry, window, events, configures>>

\* query_default_feedback.  The request exists since version 4: on an older
\* object it is a protocol error, which the round trip reports.
QueryDefaultFeedback ==
  /\ stage = "feedback"
  /\ events = <<>>
  /\ stage' = IF bound["zwp_linux_dmabuf_v1"] >= 4 THEN "buffers" ELSE "failed"
  /\ UNCHANGED <<registry, window, events, configures>>

\* create_device to create_framebuffers.
CreateFramebuffers ==
  /\ stage = "buffers"
  /\ events = <<>>
  /\ stage' = "ready"
  /\ UNCHANGED <<registry, window, events, configures>>

\* Any call may fail: the constructor throws.
Fail ==
  /\ stage \notin {"check", "create", "size", "ready", "failed"}
  /\ stage' = "failed"
  /\ UNCHANGED <<registry, window, events, configures>>

----------------------------------------------------------------------------
(* The compositor: it configures the window once it was created, and may do *)
(* so again or close it at any time.                                        *)

Created == stage \notin {"registry", "check", "create", "ready", "failed"}

SendConfigure ==
  /\ Created
  /\ configures < MaxConfigures
  /\ configures' = configures + 1
  /\ \E size \in Sizes \cup {None} :
       events' = events \o <<[type |-> "configure", size |-> size],
                             [type |-> "surface"]>>
  /\ UNCHANGED <<registry, window, stage>>

SendClose ==
  /\ Created
  /\ ~closed
  /\ \A k \in DOMAIN events : events[k].type # "close"
  /\ events' = Append(events, [type |-> "close"])
  /\ UNCHANGED <<registry, window, configures, stage>>

----------------------------------------------------------------------------
(* The specification.                                                      *)

Constructor ==
  \/ RegistryDone \/ CheckGlobals \/ CreateWindow
  \/ ToplevelConfigure \/ SurfaceConfigure \/ ToplevelClose
  \/ Configured \/ TakeSize \/ PickDevice \/ QueryDefaultFeedback
  \/ CreateFramebuffers

\* The constructor has returned or thrown.
Ended == stage \in {"ready", "failed"} /\ UNCHANGED vars

Next ==
  \/ Constructor \/ Fail \/ SendConfigure \/ SendClose \/ Ended
  \/ \E interface \in Interfaces, version \in Versions :
       RegistryGlobal(interface, version)

Spec == Init /\ [][Next]_vars

\* The compositor's answer to the first commit, whichever it is.
Answer ==
  /\ configures = 0 /\ ~closed
  /\ \A k \in DOMAIN events : events[k].type # "close"
  /\ SendConfigure \/ SendClose

\* The thread runs, and the compositor answers.
FairSpec == Spec /\ WF_vars(Constructor) /\ WF_vars(Answer)

----------------------------------------------------------------------------
(* Properties.                                                             *)

\* Versions are those bound, sizes are sizes, events are events.
TypeOK ==
  /\ bound \in [Interfaces -> 0 .. 4]
  /\ globals \in 0 .. MaxGlobals
  /\ configures \in 0 .. MaxConfigures
  /\ decorated \in BOOLEAN
  /\ configured \in BOOLEAN
  /\ closed \in BOOLEAN
  /\ resize_pending \in BOOLEAN
  /\ pending \in Sizes \cup {None}
  /\ width \in Sizes \cup {None}
  /\ events \in Seq(Event)
  /\ stage \in Stages

\* What the constructor leaves is what the frame loop starts from: no configure
\* it dispatched, before or after the size was taken, is lost on the window.
HandsOverWindow ==
  stage = "ready" => WindowReady(closed, width, pending, resize_pending)

\* A window that comes up has bound every global its frames need and asked for
\* dmabuf feedback at the version that has it, has acknowledged a configure, and
\* has decorations from the compositor only if they were wanted.  The version of
\* wl_compositor may be below the 4 that damage_buffer needs.
ReadyComplete ==
  stage = "ready" =>
    /\ \A interface \in Required : bound[interface] # 0
    /\ bound["zwp_linux_dmabuf_v1"] = 4
    /\ configured
    /\ decorated => PreferDecoration

\* The constructor returns or throws: it waits for nothing that does not come,
\* also if the answer to its first commit is a close.
StartupEnds == <>(stage \in {"ready", "failed"})

============================================================================
