--------------------------- MODULE StartupProofs ---------------------------
(* For every set of sizes and any number of globals and configures, the     *)
(* constructor hands the frame loop a window it can start from.             *)
EXTENDS Startup, SequenceTheorems, TLAPS

LEMMA TypeInit == Init => TypeOK
<1> SUFFICES ASSUME Init
             PROVE  TypeOK
  OBVIOUS
<1>1. bound \in [Interfaces -> 0 .. 4]
  BY DEF Init
<1>2. globals \in 0 .. MaxGlobals /\ configures \in 0 .. MaxConfigures
  BY StartupAssumption DEF Init
<1>3. /\ decorated \in BOOLEAN /\ configured \in BOOLEAN /\ closed \in BOOLEAN
      /\ resize_pending \in BOOLEAN
  BY DEF Init
<1>4. pending \in Sizes \cup {None} /\ width \in Sizes \cup {None}
  BY DEF Init
<1>5. events \in Seq(Event)
  BY EmptySeq DEF Init
<1>6. stage \in Stages
  BY DEF Init, Stages
<1> QED BY <1>1, <1>2, <1>3, <1>4, <1>5, <1>6 DEF TypeOK

\* The events the compositor sends, and what the client takes from them.
LEMMA EventTypes ==
  /\ [type |-> "close"] \in Event /\ [type |-> "surface"] \in Event
  /\ \A size \in Sizes \cup {None} : [type |-> "configure", size |-> size] \in Event
  /\ \A e \in Event : e.type = "configure" => e.size \in Sizes \cup {None}
BY DEF Event

LEMMA TakeStep ==
  ASSUME TypeOK, NEW type, Take(type)
  PROVE  /\ Head(events) \in Event /\ Head(events).type = type
         /\ events' \in Seq(Event)
         /\ Dispatching
         /\ UNCHANGED <<bound, globals, decorated, configures, stage>>
<1>1. events \in Seq(Event) /\ events # <<>> /\ events' = Tail(events)
  BY DEF TypeOK, Take
<1>2. Head(events) \in Event /\ Tail(events) \in Seq(Event)
  BY <1>1, HeadTailProperties
<1> QED BY <1>1, <1>2 DEF Take, registry

LEMMA TypeStep == TypeOK /\ [Next]_vars => TypeOK'
<1> SUFFICES ASSUME TypeOK, [Next]_vars
             PROVE  TypeOK'
  OBVIOUS
<1>1. CASE UNCHANGED vars
  BY <1>1 DEF vars, registry, window, TypeOK
<1>2. CASE RegistryDone \/ CheckGlobals \/ PickDevice \/ QueryDefaultFeedback
           \/ CreateFramebuffers \/ Fail \/ Configured
  <2>1. UNCHANGED <<bound, globals, decorated, configured, closed, resize_pending,
                    pending, width, events, configures>>
    BY <1>2 DEF RegistryDone, CheckGlobals, PickDevice, QueryDefaultFeedback,
       CreateFramebuffers, Fail, Configured, registry, window
  <2>2. stage' \in Stages
    BY <1>2 DEF RegistryDone, CheckGlobals, PickDevice, QueryDefaultFeedback,
       CreateFramebuffers, Fail, Configured, Stages
  <2> QED BY <2>1, <2>2 DEF TypeOK
<1>3. ASSUME NEW interface \in Interfaces, NEW version \in Versions,
             RegistryGlobal(interface, version)
      PROVE  TypeOK'
  <2>1. BoundVersion(interface, version) \in 0 .. 4
    BY DEF BoundVersion, Versions
  <2>2. bound' \in [Interfaces -> 0 .. 4]
    BY <1>3, <2>1 DEF RegistryGlobal, TypeOK
  <2>3. globals' \in 0 .. MaxGlobals
    BY <1>3, StartupAssumption DEF RegistryGlobal, TypeOK
  <2>4. UNCHANGED <<decorated, configured, closed, resize_pending, pending, width,
                    events, configures, stage>>
    BY <1>3 DEF RegistryGlobal, window
  <2> QED BY <2>2, <2>3, <2>4 DEF TypeOK
<1>4. CASE CreateWindow
  <2>1. decorated' \in BOOLEAN /\ stage' \in Stages
    BY <1>4 DEF CreateWindow, Stages
  <2>2. UNCHANGED <<bound, globals, configured, closed, resize_pending, pending,
                    width, events, configures>>
    BY <1>4 DEF CreateWindow, window
  <2> QED BY <2>1, <2>2 DEF TypeOK
<1>5. CASE TakeSize
  <2>1. width' \in Sizes \cup {None} /\ stage' \in Stages
    BY <1>5, StartupAssumption DEF TakeSize, InitialSize, TypeOK, Stages
  <2>2. UNCHANGED <<bound, globals, decorated, configured, closed, resize_pending,
                    pending, events, configures>>
    BY <1>5 DEF TakeSize, registry
  <2> QED BY <2>1, <2>2 DEF TypeOK
<1>6. CASE ToplevelConfigure
  <2>1. /\ Head(events).size \in Sizes \cup {None} /\ events' \in Seq(Event)
        /\ UNCHANGED <<bound, globals, decorated, configures, stage>>
    BY <1>6, TakeStep, EventTypes DEF ToplevelConfigure
  <2>2. pending' \in Sizes \cup {None} /\ resize_pending' \in BOOLEAN
    BY <1>6, <2>1 DEF ToplevelConfigure, TypeOK
  <2>3. UNCHANGED <<configured, closed, width>>
    BY <1>6 DEF ToplevelConfigure
  <2> QED BY <2>1, <2>2, <2>3 DEF TypeOK
<1>7. CASE SurfaceConfigure \/ ToplevelClose
  <2>1. /\ events' \in Seq(Event)
        /\ UNCHANGED <<bound, globals, decorated, configures, stage>>
    BY <1>7, TakeStep DEF SurfaceConfigure, ToplevelClose
  <2>2. /\ configured' \in BOOLEAN /\ closed' \in BOOLEAN
        /\ UNCHANGED <<resize_pending, pending, width>>
    BY <1>7 DEF SurfaceConfigure, ToplevelClose, TypeOK
  <2> QED BY <2>1, <2>2 DEF TypeOK
<1>8. CASE SendConfigure
  <2>1. PICK size \in Sizes \cup {None} :
          events' = events \o <<[type |-> "configure", size |-> size],
                                [type |-> "surface"]>>
    BY <1>8 DEF SendConfigure
  <2>2. <<[type |-> "configure", size |-> size], [type |-> "surface"]>> \in Seq(Event)
    BY EventTypes
  <2>3. events \in Seq(Event)
    BY DEF TypeOK
  <2>4. events' \in Seq(Event)
    BY <2>1, <2>2, <2>3, ConcatProperties
  <2>5. configures' \in 0 .. MaxConfigures
    BY <1>8, StartupAssumption DEF SendConfigure, TypeOK
  <2>6. UNCHANGED <<bound, globals, decorated, configured, closed, resize_pending,
                    pending, width, stage>>
    BY <1>8 DEF SendConfigure, registry, window
  <2> QED BY <2>4, <2>5, <2>6 DEF TypeOK
<1>9. CASE SendClose
  <2>1. events' = Append(events, [type |-> "close"]) /\ events \in Seq(Event)
    BY <1>9 DEF SendClose, TypeOK
  <2>2. events' \in Seq(Event)
    BY <2>1, EventTypes, AppendProperties
  <2>3. UNCHANGED <<bound, globals, decorated, configured, closed, resize_pending,
                    pending, width, configures, stage>>
    BY <1>9 DEF SendClose, registry, window
  <2> QED BY <2>2, <2>3 DEF TypeOK
<1> QED BY <1>1, <1>2, <1>3, <1>4, <1>5, <1>6, <1>7, <1>8, <1>9
        DEF Next, Constructor, Ended

\* Every reachable state of the constructor is well typed.
THEOREM StartupTypes == Spec => []TypeOK
<1> QED BY TypeInit, TypeStep, PTL DEF Spec

----------------------------------------------------------------------------
(* The size.                                                               *)

\* Once the size was taken the window is configured, and differs from the size
\* last configured only if a resize is pending.
SizeInv ==
  /\ pending = None => ~resize_pending
  /\ stage \in {"size", "device", "feedback", "buffers", "ready"} => configured
  /\ stage \in {"device", "feedback", "buffers", "ready"} =>
       /\ width \in Sizes
       /\ pending \notin {None, width} => resize_pending

LEMMA SizeInit == Init => SizeInv
BY DEF Init, SizeInv

LEMMA SizeStep == TypeOK /\ SizeInv /\ [Next]_vars => SizeInv'
<1> SUFFICES ASSUME TypeOK, SizeInv, [Next]_vars
             PROVE  SizeInv'
  OBVIOUS
<1>1. CASE UNCHANGED vars
  BY <1>1 DEF vars, window, SizeInv
<1>2. CASE RegistryDone \/ CheckGlobals \/ CreateWindow \/ Fail \/ Configured
           \/ PickDevice \/ QueryDefaultFeedback \/ CreateFramebuffers
           \/ SendConfigure \/ SendClose
           \/ \E interface \in Interfaces, version \in Versions :
                RegistryGlobal(interface, version)
  <2>1. UNCHANGED <<configured, resize_pending, pending, width>>
    BY <1>2 DEF RegistryDone, CheckGlobals, CreateWindow, Fail, Configured, PickDevice,
       QueryDefaultFeedback, CreateFramebuffers, SendConfigure, SendClose,
       RegistryGlobal, window
  <2>2. \/ stage' = stage
        \/ stage' \in {"check", "create", "configure", "failed"}
        \/ stage' = "size" /\ configured
        \/ /\ stage \in {"device", "feedback", "buffers"}
           /\ stage' \in {"feedback", "buffers", "ready"}
    BY <1>2 DEF RegistryDone, CheckGlobals, CreateWindow, Fail, Configured, PickDevice,
       QueryDefaultFeedback, CreateFramebuffers, SendConfigure, SendClose,
       RegistryGlobal
  <2> QED BY <2>1, <2>2 DEF SizeInv
<1>3. CASE TakeSize
  <2>1. /\ stage = "size" /\ stage' = "device" /\ width' = InitialSize
        /\ UNCHANGED <<configured, resize_pending, pending>>
    BY <1>3 DEF TakeSize
  <2>2. InitialSize \in Sizes /\ (pending # None => InitialSize = pending)
    BY StartupAssumption DEF InitialSize, TypeOK
  <2> QED BY <2>1, <2>2 DEF SizeInv
<1>4. CASE ToplevelConfigure
  <2>1. /\ UNCHANGED <<configured, width, stage>>
        /\ stage \in {"configure", "feedback", "buffers"}
    BY <1>4, TakeStep DEF ToplevelConfigure, Dispatching
  <2>2. \/ UNCHANGED <<pending, resize_pending>>
        \/ /\ pending' # None
           /\ resize_pending' = (resize_pending \/ (configured /\ pending' # width))
    BY <1>4 DEF ToplevelConfigure, ResizeNeeded
  <2>3. pending' = None => ~resize_pending'
    BY <2>2 DEF SizeInv
  <2>4. stage' \in {"size", "device", "feedback", "buffers", "ready"} => configured'
    BY <2>1 DEF SizeInv
  <2>5. ASSUME stage' \in {"device", "feedback", "buffers", "ready"}
        PROVE  width' \in Sizes /\ (pending' \notin {None, width'} => resize_pending')
    <3>1. configured /\ width \in Sizes
      BY <2>1, <2>5 DEF SizeInv
    <3>2. CASE UNCHANGED <<pending, resize_pending>>
      BY <2>1, <2>5, <3>1, <3>2 DEF SizeInv
    <3>3. CASE resize_pending' = (resize_pending \/ (configured /\ pending' # width))
      BY <2>1, <3>1, <3>3
    <3> QED BY <2>2, <3>2, <3>3
  <2> QED BY <2>3, <2>4, <2>5 DEF SizeInv
<1>5. CASE SurfaceConfigure \/ ToplevelClose
  <2>1. UNCHANGED <<stage, resize_pending, pending, width>>
    BY <1>5 DEF SurfaceConfigure, ToplevelClose, Take
  <2>2. configured' = TRUE \/ UNCHANGED configured
    BY <1>5 DEF SurfaceConfigure, ToplevelClose
  <2> QED BY <2>1, <2>2 DEF SizeInv
<1> QED BY <1>1, <1>2, <1>3, <1>4, <1>5 DEF Next, Constructor, Ended

\* No configure the constructor dispatches is lost on the window it returns,
\* whichever round trip dispatches it.
THEOREM WindowHandedOver == Spec => []HandsOverWindow
<1>1. TypeOK /\ SizeInv => HandsOverWindow
  BY DEF TypeOK, SizeInv, HandsOverWindow, WindowReady
<1>2. TypeOK /\ SizeInv /\ [Next]_vars => (TypeOK /\ SizeInv)'
  BY TypeStep, SizeStep
<1> QED BY <1>1, <1>2, TypeInit, SizeInit, PTL DEF Spec

----------------------------------------------------------------------------
(* The globals.                                                            *)

\* A decoration manager is bound only if wanted; a window is created only once
\* the required globals are bound, and built only once dmabuf feedback came.
GlobalsInv ==
  /\ bound["zxdg_decoration_manager_v1"] # 0 => PreferDecoration
  /\ decorated => PreferDecoration
  /\ stage \notin {"registry", "check", "failed"} => RequiredBound
  /\ stage \in {"buffers", "ready"} => bound["zwp_linux_dmabuf_v1"] >= 4

LEMMA GlobalsInit == Init => GlobalsInv
BY DEF Init, GlobalsInv, Interfaces, Required, Optional

LEMMA GlobalsStep == TypeOK /\ GlobalsInv /\ [Next]_vars => GlobalsInv'
<1> SUFFICES ASSUME TypeOK, GlobalsInv, [Next]_vars
             PROVE  GlobalsInv'
  OBVIOUS
<1>1. ASSUME NEW interface \in Interfaces, NEW version \in Versions,
             RegistryGlobal(interface, version)
      PROVE  GlobalsInv'
  <2>1. UNCHANGED <<decorated, stage>> /\ stage = "registry"
    BY <1>1 DEF RegistryGlobal
  <2>2. /\ "zxdg_decoration_manager_v1" \in Interfaces
        /\ bound \in [Interfaces -> 0 .. 4]
    BY DEF Interfaces, Optional, TypeOK
  <2>3. bound'["zxdg_decoration_manager_v1"] # 0 => PreferDecoration
    <3>1. CASE UNCHANGED bound
      BY <3>1 DEF GlobalsInv
    <3>2. CASE Wanted(interface)
               /\ bound' = [bound EXCEPT ![interface] = BoundVersion(interface, version)]
      BY <2>2, <3>2 DEF GlobalsInv, Wanted
    <3> QED BY <1>1, <3>1, <3>2 DEF RegistryGlobal
  <2> QED BY <2>1, <2>3 DEF GlobalsInv
<1>2. CASE CheckGlobals
  BY <1>2 DEF CheckGlobals, GlobalsInv, RequiredBound, registry
<1>3. CASE CreateWindow
  BY <1>3 DEF CreateWindow, GlobalsInv, RequiredBound
<1>4. CASE QueryDefaultFeedback
  BY <1>4 DEF QueryDefaultFeedback, GlobalsInv, RequiredBound, registry
<1>5. CASE CreateFramebuffers
  BY <1>5 DEF CreateFramebuffers, GlobalsInv, RequiredBound, registry
<1>6. CASE RegistryDone \/ Fail \/ Configured \/ TakeSize \/ PickDevice
  <2>1. /\ UNCHANGED <<bound, decorated>>
        /\ \/ stage' \in {"check", "failed"}
           \/ /\ stage \in {"configure", "size", "device"}
              /\ stage' \in {"size", "device", "feedback"}
    BY <1>6 DEF RegistryDone, Fail, Configured, TakeSize, PickDevice, registry
  <2> QED BY <2>1 DEF GlobalsInv, RequiredBound
<1>7. CASE ToplevelConfigure \/ SurfaceConfigure \/ ToplevelClose \/ SendConfigure
           \/ SendClose \/ UNCHANGED vars
  <2>1. UNCHANGED <<bound, decorated, stage>>
    BY <1>7 DEF ToplevelConfigure, SurfaceConfigure, ToplevelClose, Take, SendConfigure,
       SendClose, vars, registry
  <2> QED BY <2>1 DEF GlobalsInv, RequiredBound
<1> QED BY <1>1, <1>2, <1>3, <1>4, <1>5, <1>6, <1>7 DEF Next, Constructor, Ended

\* A constructor that returns has bound every interface its frames need, dmabuf at
\* the version that can be asked for feedback (of the others' versions nothing is
\* said), and got its first configure.
THEOREM CompleteWhenReady == Spec => []ReadyComplete
<1> DEFINE I == TypeOK /\ SizeInv /\ GlobalsInv
<1>1. Init => I
  BY TypeInit, SizeInit, GlobalsInit
<1>2. I /\ [Next]_vars => I'
  BY TypeStep, SizeStep, GlobalsStep
<1>3. I => ReadyComplete
  <2> SUFFICES ASSUME TypeOK, SizeInv, GlobalsInv, stage = "ready"
               PROVE  /\ \A interface \in Required : bound[interface] # 0
                      /\ bound["zwp_linux_dmabuf_v1"] = 4
                      /\ configured
                      /\ decorated => PreferDecoration
    BY DEF ReadyComplete
  <2>1. bound["zwp_linux_dmabuf_v1"] \in 0 .. 4
    BY DEF TypeOK, Interfaces, Required
  <2> QED BY <2>1 DEF SizeInv, GlobalsInv, RequiredBound
<1> HIDE DEF I
<1> QED BY <1>1, <1>2, <1>3, PTL DEF Spec

============================================================================
