---------------------------- MODULE DeviceSetup ----------------------------
(***************************************************************************)
(* init_vulkan up to the DRM node: create_instance, pick_physical_device,  *)
(* create_device with the application's DeviceBuilder, create_allocator    *)
(* and open_drm_node, in a process that may construct one Window after     *)
(* another with the same WindowConfig.                                     *)
(*                                                                         *)
(* Devices and DRM devices go by their place in the enumeration.  A queue  *)
(* family is the set of what it can do, an extension or a pNext structure  *)
(* of the application is a model value.                                    *)
(***************************************************************************)
EXTENDS Naturals, Sequences, FiniteSets, SequencesExt

CONSTANTS
  Required,       \* kRequiredDeviceExts
  Budget,         \* VK_EXT_memory_budget
  Configs,        \* the configurations under study
  Extras,         \* extensions the application may add
  Structs,        \* pNext structures of the application, Features apart
  DeviceKinds,    \* [extensions, families] of a physical device
  NodeKinds,      \* the nodes a DRM device has
  MaxDevices,     \* bound: physical devices, and DRM devices
  MaxCalls,       \* bound: calls of DeviceBuilder in one construction
  MaxWindows      \* bound: constructions

\* The members of WindowConfig that matter here.
Config == [enable_validation : BOOLEAN, extra_layers : BOOLEAN,
           extra_debug_utils : BOOLEAN, select_device : BOOLEAN]

ASSUME DeviceAssumption ==
  /\ Configs \subseteq Config
  /\ Required # {} /\ IsFiniteSet(Required) /\ Budget \notin Required
  /\ IsFiniteSet(Structs)
  /\ \A d \in DeviceKinds : d.families \in Seq(SUBSET {"graphics", "present"})
  /\ \A n \in NodeKinds : n # {} /\ n \subseteq {"primary", "render"}
  /\ MaxDevices \in Nat /\ MaxCalls \in Nat /\ MaxWindows \in Nat \ {0}

Features == "dynamic_features"    \* the structure create_device chains first
Null     == "NULL"
None     == <<>>

ASSUME StructAssumption == Features \notin Structs /\ Null \notin Structs

VARIABLES
  \* ---- the application and the machine
  config,
  devices,        \* physical devices, as enumerated
  drm,            \* DRM devices, as enumerated: their nodes
  next,           \* pNext of every structure, across constructions
  \* ---- the loop of pick_physical_device
  capable,        \* the candidates select_device is shown, in this order
  at,             \* the device that is considered next
  \* ---- Impl and the locals of init_vulkan
  chosen,         \* [device, graphics, present, budget], or None
  extensions,     \* the device extensions to be enabled
  main_device,    \* the node the compositor named, or None
  drm_fd,         \* the node that is open, or None
  \* ---- control and history
  stage,
  chained,        \* what this construction chained, in order of the calls
  earlier,        \* what earlier constructions chained
  tried,          \* the nodes open_drm_node tried
  windows

machine == <<config, devices, drm>>
picking == <<capable, at>>
device  == <<chosen, extensions, next, chained, earlier>>
node    == <<main_device, drm_fd, tried>>
vars    == <<machine, picking, device, node, stage, windows>>

Stages == {"instance", "messenger", "pick", "feedback", "device", "configure", "create",
           "drm", "fallback", "ready", "failed", "hung", "crashed"}

Nodes == UNION {{i} \X drm[i] : i \in DOMAIN drm}

Init ==
  /\ config \in Configs
  /\ devices \in BoundedSeq(DeviceKinds, MaxDevices)
  /\ drm \in BoundedSeq(NodeKinds, MaxDevices)
  /\ next = [s \in Structs \cup {Features} |-> Null]
  /\ capable = <<>> /\ at = 1
  /\ chosen = None
  /\ extensions = <<>>
  /\ main_device = None
  /\ drm_fd = None
  /\ stage = "instance"
  /\ chained = <<>>
  /\ earlier = {}
  /\ tried = <<>>
  /\ windows = 1

----------------------------------------------------------------------------
(* create_instance.                                                        *)

Layers == config.enable_validation \/ config.extra_layers

\* VK_EXT_debug_utils is among the instance's extensions.
DebugUtils == config.extra_debug_utils \/ config.enable_validation

\* The validation layer may be missing.
CreateInstance ==
  /\ stage = "instance"
  /\ \/ stage' = IF Layers THEN "messenger" ELSE "pick"
     \/ config.enable_validation /\ stage' = "failed"
  /\ UNCHANGED <<machine, picking, device, node, windows>>

\* The loader has no vkCreateDebugUtilsMessengerEXT unless the extension is
\* enabled: volk leaves a null pointer, and the call goes through it.
CreateMessenger ==
  /\ stage = "messenger"
  /\ stage' = IF DebugUtils THEN "pick" ELSE "crashed"
  /\ UNCHANGED <<machine, picking, device, node, windows>>

----------------------------------------------------------------------------
(* pick_physical_device.                                                   *)

HasFamily(d, capability) ==
  \E f \in DOMAIN d.families : capability \in d.families[f]

FirstFamily(d, capability) ==
  CHOOSE f \in DOMAIN d.families :
    /\ capability \in d.families[f]
    /\ \A g \in 1 .. f - 1 : capability \notin d.families[g]

Suitable(d) ==
  /\ Required \subseteq d.extensions
  /\ HasFamily(d, "graphics") /\ HasFamily(d, "present")

\* What is kept of a suitable device.
CandidateOf(i) ==
  [device   |-> i,
   graphics |-> FirstFamily(devices[i], "graphics"),
   present  |-> FirstFamily(devices[i], "present"),
   budget   |-> Budget \in devices[i].extensions]

\* One turn of the loop: a device that lacks something is passed over.
ConsiderDevice ==
  /\ stage = "pick" /\ at <= Len(devices)
  /\ at' = at + 1
  /\ \/ Suitable(devices[at]) /\ capable' = Append(capable, CandidateOf(at))
     \/ ~Suitable(devices[at]) /\ UNCHANGED capable
  /\ UNCHANGED <<machine, device, node, stage, windows>>

ChosenUnmapped(index) == [capable[index] EXCEPT !.device = index]   \* mutant

\* The index counts the candidates, not the devices.
ChosenOf(index) == capable[index]

\* Without select_device the first candidate is taken; the policy may return any
\* index, and one past the end rejects them all.
PickPhysicalDevice ==
  /\ stage = "pick" /\ at > Len(devices)
  /\ \/ /\ \E index \in DOMAIN capable :
             /\ config.select_device \/ index = 1
             /\ chosen' = ChosenOf(index)
        /\ stage' = "feedback"
     \/ /\ config.select_device \/ capable = <<>>
        /\ stage' = "failed"
        /\ UNCHANGED chosen
  /\ UNCHANGED <<machine, picking, extensions, next, chained, earlier, node, windows>>

\* query_default_feedback: the compositor names a node of a listed DRM device,
\* none, or one that is not listed.
QueryDefaultFeedback ==
  /\ stage = "feedback"
  /\ main_device' \in Nodes \cup {None, <<Len(drm) + 1, "primary">>}
  /\ stage' = "device"
  /\ UNCHANGED <<machine, picking, device, drm_fd, tried, windows>>

----------------------------------------------------------------------------
(* create_device: configure_device and its DeviceBuilder.                  *)

\* The library's extensions, and a chain of one structure.
StartDevice ==
  /\ stage = "device"
  /\ extensions' = SetToSeq(Required) \o (IF chosen.budget THEN <<Budget>> ELSE <<>>)
  /\ next' = [next EXCEPT ![Features] = Null]
  /\ stage' = "configure"
  /\ UNCHANGED <<machine, picking, chosen, chained, earlier, node, windows>>

\* The n-th structure behind the head of the chain.
Link[n \in 0 .. Cardinality(Structs) + 1] ==
  IF n = 0 THEN Features
  ELSE IF Link[n - 1] = Null THEN Null ELSE next[Link[n - 1]]

\* A walk that passes more structures than there are never ends.
Endless == Link[Cardinality(Structs) + 1] # Null

ChainLength ==
  CHOOSE n \in 1 .. Cardinality(Structs) + 1 : Link[n - 1] # Null /\ Link[n] = Null

Chain == [n \in 1 .. ChainLength |-> Link[n - 1]]

AddedAgain(extension) == Append(extensions, extension)              \* mutant

Added(extension) ==
  IF extension \in ToSet(extensions) THEN extensions
  ELSE Append(extensions, extension)

\* add_extensions of one extension.
AddExtension(extension) ==
  /\ stage = "configure"
  /\ Len(extensions) < Cardinality(Required) + 1 + MaxCalls
  /\ extensions' = Added(extension)
  /\ UNCHANGED <<machine, picking, chosen, next, chained, earlier, node, stage, windows>>

FirstLink == Link[0]                                                \* mutant

LastLink == Link[ChainLength - 1]

\* chain_next: the structure goes behind the last one, with whatever its own
\* pNext still points to.
ChainNext(s) ==
  /\ stage = "configure"
  /\ Len(chained) < MaxCalls
  /\ IF Endless
     THEN stage' = "hung" /\ UNCHANGED <<next, chained>>
     ELSE /\ next' = [next EXCEPT ![LastLink] = s]
          /\ chained' = Append(chained, s)
          /\ UNCHANGED stage
  /\ UNCHANGED <<machine, picking, chosen, extensions, earlier, node, windows>>

ConfigureDone ==
  /\ stage = "configure"
  /\ stage' = "create"
  /\ UNCHANGED <<machine, picking, device, node, windows>>

\* vkCreateDevice walks the chain and refuses what the device does not have;
\* create_allocator enables the budget flag as budget_ext_ says.
CreateDevice ==
  /\ stage = "create"
  /\ stage' = IF Endless THEN "hung"
              ELSE IF ToSet(extensions) \subseteq devices[chosen.device].extensions
              THEN "drm" ELSE "failed"
  /\ UNCHANGED <<machine, picking, device, node, windows>>

----------------------------------------------------------------------------
(* open_drm_node.                                                          *)

MatchesRender(i) == main_device = <<i, "render">>                   \* mutant

\* One of the device's nodes is main_device.
Matches(i) == main_device \in {i} \X drm[i]

NodeAssumed(i) == <<i, "render">>                                   \* mutant

\* The node to open of a device that matches.
NodeOf(i) == IF "render" \in drm[i] THEN <<i, "render">> ELSE main_device

Open(nd, after) ==
  /\ tried' = Append(tried, nd)
  /\ \/ drm_fd' = nd /\ stage' = "ready"
     \/ stage' = after /\ UNCHANGED drm_fd

\* The device main_device belongs to; only one does.  A node that cannot be
\* examined counts as one that cannot be opened.
OpenDrmNode ==
  /\ stage = "drm"
  /\ \/ \E i \in DOMAIN drm : Matches(i) /\ Open(NodeOf(i), "fallback")
     \/ /\ \A i \in DOMAIN drm : ~Matches(i)
        /\ stage' = "fallback"
        /\ UNCHANGED <<drm_fd, tried>>
  /\ UNCHANGED <<machine, picking, device, main_device, windows>>

\* /dev/dri/renderD128, the first render node there is.
FirstRender ==
  CHOOSE nd \in Nodes : nd[2] = "render" /\ \A j \in 1 .. nd[1] - 1 : "render" \notin drm[j]

OpenFallback ==
  /\ stage = "fallback"
  /\ \/ /\ \E nd \in Nodes : nd[2] = "render"
        /\ Open(FirstRender, "failed")
     \/ /\ \A nd \in Nodes : nd[2] # "render"
        /\ stage' = "failed"
        /\ UNCHANGED <<drm_fd, tried>>
  /\ UNCHANGED <<machine, picking, device, main_device, windows>>

----------------------------------------------------------------------------

\* A Vulkan call or a round trip fails.
Fail ==
  /\ stage \in {"instance", "messenger", "pick", "feedback", "create", "drm"}
  /\ stage' = "failed"
  /\ UNCHANGED <<machine, picking, device, node, windows>>

\* The application constructs another Window, with the same configuration and
\* the same structures.
ConstructAgain ==
  /\ stage \in {"ready", "failed"}
  /\ windows < MaxWindows
  /\ windows' = windows + 1
  /\ stage' = "instance"
  /\ chosen' = None
  /\ extensions' = <<>>
  /\ chained' = <<>>
  /\ earlier' = earlier \cup ToSet(chained)
  /\ main_device' = None
  /\ drm_fd' = None
  /\ tried' = <<>>
  /\ capable' = <<>> /\ at' = 1
  /\ UNCHANGED <<machine, next>>

Ended ==
  /\ stage \in {"ready", "failed", "hung", "crashed"}
  /\ UNCHANGED vars

Next ==
  \/ CreateInstance \/ CreateMessenger \/ ConsiderDevice \/ PickPhysicalDevice
  \/ QueryDefaultFeedback
  \/ StartDevice \/ \E e \in Extras \cup Required \cup {Budget} : AddExtension(e)
  \/ \E s \in Structs : ChainNext(s)
  \/ ConfigureDone \/ CreateDevice \/ OpenDrmNode \/ OpenFallback
  \/ Fail \/ ConstructAgain \/ Ended

Spec == Init /\ [][Next]_vars

----------------------------------------------------------------------------
(* Properties.                                                             *)

Created == {"drm", "fallback", "ready"}

Candidates == {CandidateOf(i) : i \in {j \in DOMAIN devices : Suitable(devices[j])}}

\* Indices point at devices and families that exist, nodes at listed nodes.
TypeOK ==
  /\ config \in Configs
  /\ stage \in Stages
  /\ next \in [Structs \cup {Features} -> Structs \cup {Null}]
  /\ capable \in Seq(Candidates) /\ at \in 1 .. Len(devices) + 1
  /\ chosen # None =>
       /\ chosen.device \in DOMAIN devices
       /\ {chosen.graphics, chosen.present} \subseteq
            DOMAIN devices[chosen.device].families
  /\ extensions \in Seq(Required \cup Extras \cup {Budget})
  /\ chained \in Seq(Structs) /\ earlier \subseteq Structs
  /\ drm_fd \in Nodes \cup {None}
  /\ tried \in Seq(Nodes)
  /\ windows \in 1 .. MaxWindows

\* wlvk.hpp says that the constructor throws on any failure: it never runs into
\* anything else, whichever of its options the application sets.
ConstructorThrows == stage # "crashed"

\* Whatever index select_device returns, the device taken has every extension
\* the library needs, and the families kept for it can do what they were picked
\* for on that device; left to itself the library takes the first such device.
ChosenDeviceFits ==
  chosen # None =>
    LET d == devices[chosen.device]
    IN  /\ Required \subseteq d.extensions
        /\ "graphics" \in d.families[chosen.graphics]
        /\ "present" \in d.families[chosen.present]
        /\ ~config.select_device =>
             \A i \in 1 .. chosen.device - 1 :
               \/ ~(Required \subseteq devices[i].extensions)
               \/ \E capability \in {"graphics", "present"} :
                    capability \notin UNION ToSet(devices[i].families)

\* However configure_device repeats extensions, its own or the library's, the
\* device is created with each at most once, with all the library relies on,
\* and with the memory budget the allocator is told of.
ExtensionsEnabledOnce ==
  stage \in Created =>
    /\ IsInjective(extensions)
    /\ Required \subseteq ToSet(extensions)
    /\ chosen.budget => Budget \in ToSet(extensions)
    /\ ToSet(extensions) \subseteq devices[chosen.device].extensions

\* Structures come in the order of the calls, behind the library's own, and the
\* chain ends, as long as every structure is chained once only: one left from an
\* earlier window brings its old pNext with it.
ChainInOrder ==
  /\ stage \in Created \cup {"configure", "create", "hung"}
  /\ IsInjective(chained)
  /\ ToSet(chained) \cap earlier = {}
  => ~Endless /\ stage # "hung" /\ Chain = <<Features>> \o chained

\* If the compositor named a node of a listed device, whichever of its nodes that
\* is, the first node tried is that device's, its render node if it has one (the
\* node that was named if it has none); where another device's node is open, it is
\* the fallback, after that first one did not open or could not be examined.
NodeOfMainDevice ==
  stage = "ready" /\ main_device \in Nodes =>
    LET own == main_device[1]
    IN  /\ tried[1][1] = own
        /\ "render" \in drm[own] => tried[1][2] = "render"
        /\ drm_fd[1] # own => Len(tried) = 2

============================================================================
