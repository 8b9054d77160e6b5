------------------------- MODULE DeviceSetupProofs -------------------------
(***************************************************************************)
(* For every list of physical devices and of DRM devices, every number of  *)
(* windows constructed one after another and every sequence of calls of    *)
(* DeviceBuilder: which device is taken, what it is created with, and      *)
(* which node is opened.                                                   *)
(***************************************************************************)
EXTENDS DeviceSetup, SequenceFacts, FiniteSetTheorems, TLAPS

----------------------------------------------------------------------------
(* Types.                                                                  *)

\* The lists the machine enumerates, and the node the compositor names: one of
\* a listed DRM device, none, or one of a device that is not listed.
MachineOK ==
  /\ devices \in Seq(DeviceKinds)
  /\ drm \in Seq(NodeKinds)
  /\ main_device \in Nodes \cup {None, <<Len(drm) + 1, "primary">>}

Typed == TypeOK /\ MachineOK

LEMMA Families ==
  ASSUME MachineOK, NEW i \in DOMAIN devices
  PROVE  /\ devices[i].families \in Seq(SUBSET {"graphics", "present"})
         /\ i \in Nat \ {0}
<1>1. devices \in Seq(DeviceKinds) /\ i \in 1 .. Len(devices)
  BY LenProperties DEF MachineOK
<1>2. devices[i] \in DeviceKinds
  BY <1>1, ElementOfSeq
<1> QED BY <1>1, <1>2, LenProperties, DeviceAssumption

\* The family picked for a capability exists, has it, and is the first to.
LEMMA FirstFamilyType ==
  ASSUME NEW d, d.families \in Seq(SUBSET {"graphics", "present"}),
         NEW capability, HasFamily(d, capability)
  PROVE  /\ FirstFamily(d, capability) \in DOMAIN d.families
         /\ capability \in d.families[FirstFamily(d, capability)]
<1> DEFINE S == {f \in DOMAIN d.families : capability \in d.families[f]}
<1>1. DOMAIN d.families = 1 .. Len(d.families) /\ Len(d.families) \in Nat
  BY LenProperties
<1>2. S \in SUBSET Nat /\ S # {}
  BY <1>1 DEF HasFamily
<1>3. PICK f \in S : \A g \in S : f <= g
  BY <1>2, LeastNatural
<1>4. f \in 1 .. Len(d.families)
  BY <1>1, <1>3
<1>5. ASSUME NEW g \in 1 .. f - 1
      PROVE  capability \notin d.families[g]
  <2>1. g \in DOMAIN d.families /\ g < f
    BY <1>1, <1>4
  <2>2. g \notin S
    BY <1>1, <1>3, <1>4, <2>1
  <2> QED BY <2>1, <2>2
<1>6. /\ capability \in d.families[f]
      /\ \A g \in 1 .. f - 1 : capability \notin d.families[g]
      /\ f \in DOMAIN d.families
  BY <1>3, <1>5
<1> QED BY <1>6 DEF FirstFamily

LEMMA NodeType ==
  /\ \A nd \in Nodes : nd[1] \in DOMAIN drm /\ nd[2] \in drm[nd[1]] /\ nd = <<nd[1], nd[2]>>
  /\ \A i \in DOMAIN drm : \A kind \in drm[i] : <<i, kind>> \in Nodes
BY DEF Nodes

LEMMA NodeOfType ==
  ASSUME NEW i \in DOMAIN drm, Matches(i)
  PROVE  /\ NodeOf(i) \in Nodes
         /\ main_device \in Nodes
         /\ main_device[1] = i /\ NodeOf(i)[1] = i
         /\ "render" \in drm[i] => NodeOf(i)[2] = "render"
<1>1. PICK kind \in drm[i] : main_device = <<i, kind>>
  BY DEF Matches
<1> QED BY <1>1, NodeType DEF NodeOf

\* The render node the fallback opens exists.
LEMMA FirstRenderType ==
  ASSUME MachineOK, \E nd \in Nodes : nd[2] = "render"
  PROVE  FirstRender \in Nodes
<1> DEFINE S == {i \in DOMAIN drm : "render" \in drm[i]}
<1>1. DOMAIN drm = 1 .. Len(drm) /\ Len(drm) \in Nat
  BY LenProperties DEF MachineOK
<1>2. S \in SUBSET Nat /\ S # {}
  BY <1>1, NodeType
<1>3. PICK i \in S : \A j \in S : i <= j
  BY <1>2, LeastNatural
<1>4. i \in 1 .. Len(drm)
  BY <1>1, <1>3
<1>5. ASSUME NEW j \in 1 .. i - 1
      PROVE  "render" \notin drm[j]
  <2>1. j \in DOMAIN drm /\ j < i
    BY <1>1, <1>4
  <2>2. j \notin S
    BY <1>1, <1>3, <1>4, <2>1
  <2> QED BY <2>1, <2>2
<1> DEFINE first == <<i, "render">>
<1>6. first \in Nodes /\ first[1] = i /\ first[2] = "render"
  BY <1>3, NodeType
<1>7. \A j \in 1 .. first[1] - 1 : "render" \notin drm[j]
  BY <1>5, <1>6
<1> HIDE DEF first
<1> QED BY <1>6, <1>7 DEF FirstRender

LEMMA AddedType ==
  ASSUME TypeOK, NEW e \in Extras \cup Required \cup {Budget}
  PROVE  Added(e) \in Seq(Required \cup Extras \cup {Budget})
<1>1. /\ extensions \in Seq(Required \cup Extras \cup {Budget})
      /\ e \in Required \cup Extras \cup {Budget}
  BY DEF TypeOK
<1> QED BY <1>1, AppendProperties DEF Added

\* What create_device starts from: the library's extensions, each once.
LEMMA LibraryExtensions ==
  ASSUME NEW b
  PROVE  LET list == SetToSeq(Required) \o (IF b THEN <<Budget>> ELSE <<>>)
         IN  /\ list \in Seq(Required \cup Extras \cup {Budget})
             /\ IsInjective(list)
             /\ Required \subseteq ToSet(list)
             /\ b => Budget \in ToSet(list)
<1> DEFINE r == SetToSeq(Required)
           All == Required \cup Extras \cup {Budget}
<1>1. r \in Seq(Required) /\ IsInjective(r) /\ ToSet(r) = Required
  BY SetToSeqProperties, DeviceAssumption
<1> HIDE DEF r
<1>2. r \in Seq(All)
  BY <1>1, SeqMonotonic
<1>3. CASE ~b
  <2>1. r \o <<>> = r
    BY <1>2, ConcatEmptySeq
  <2> QED BY <1>1, <1>2, <1>3, <2>1 DEF r
<1>4. CASE b
  <2>1. r \o <<Budget>> = Append(r, Budget)
    BY <1>2, AppendIsConcat
  <2>2. Append(r, Budget) \in Seq(All)
    BY <1>2, AppendProperties
  <2>3. Budget \notin ToSet(r)
    BY <1>1, DeviceAssumption
  <2>4. IsInjective(Append(r, Budget))
    BY <1>1, <1>2, <2>3, AppendKeepsApart
  <2>5. ToSet(Append(r, Budget)) = Required \cup {Budget}
    BY <1>1, <1>2, AppendSet
  <2> QED BY <1>4, <2>1, <2>2, <2>4, <2>5 DEF r
<1> QED BY <1>3, <1>4

\* The part of TypeOK that speaks of the loop over the devices.
PickingType ==
  capable \in Seq(Candidates) /\ at \in 1 .. Len(devices) + 1

LEMMA SameCandidates ==
  ASSUME UNCHANGED devices
  PROVE  Candidates' = Candidates
BY DEF Candidates, CandidateOf

\* Every candidate is what the loop keeps of some suitable device.
LEMMA CandidateFits ==
  ASSUME MachineOK, NEW c \in Candidates
  PROVE  /\ c.device \in DOMAIN devices /\ Suitable(devices[c.device])
         /\ c = CandidateOf(c.device)
         /\ {c.graphics, c.present} \subseteq DOMAIN devices[c.device].families
         /\ "graphics" \in devices[c.device].families[c.graphics]
         /\ "present" \in devices[c.device].families[c.present]
<1>1. PICK i \in DOMAIN devices : Suitable(devices[i]) /\ c = CandidateOf(i)
  BY DEF Candidates
<1>2. /\ c.device = i
      /\ c.graphics = FirstFamily(devices[i], "graphics")
      /\ c.present = FirstFamily(devices[i], "present")
  BY <1>1 DEF CandidateOf
<1>3. HasFamily(devices[i], "graphics") /\ HasFamily(devices[i], "present")
  BY <1>1 DEF Suitable
<1>4. /\ c.graphics \in DOMAIN devices[i].families
      /\ "graphics" \in devices[i].families[c.graphics]
      /\ c.present \in DOMAIN devices[i].families
      /\ "present" \in devices[i].families[c.present]
  BY <1>2, <1>3, Families, FirstFamilyType
<1> QED BY <1>1, <1>2, <1>4

LEMMA PickingStep == Typed /\ [Next]_vars => PickingType'
<1> SUFFICES ASSUME Typed, [Next]_vars
             PROVE  PickingType'
  OBVIOUS
<1>1. capable \in Seq(Candidates) /\ at \in 1 .. Len(devices) + 1
  BY DEF Typed, TypeOK
<1>2. Len(devices) \in Nat /\ DOMAIN devices = 1 .. Len(devices)
  BY LenProperties DEF Typed, MachineOK
<1>3. CASE ConsiderDevice
  <2>1. UNCHANGED devices /\ at' = at + 1 /\ at <= Len(devices)
    BY <1>3 DEF ConsiderDevice, machine
  <2>2. at \in DOMAIN devices /\ at' \in 1 .. Len(devices') + 1
    BY <1>1, <1>2, <2>1
  <2>3. capable' \in Seq(Candidates)
    <3>1. CASE UNCHANGED capable
      BY <1>1, <3>1
    <3>2. CASE Suitable(devices[at]) /\ capable' = Append(capable, CandidateOf(at))
      <4>1. CandidateOf(at) \in Candidates
        BY <2>2, <3>2 DEF Candidates
      <4> QED BY <1>1, <3>2, <4>1, AppendProperties
    <3> QED BY <1>3, <3>1, <3>2 DEF ConsiderDevice
  <2> QED BY <2>1, <2>2, <2>3, SameCandidates DEF PickingType
<1>4. CASE ConstructAgain
  <2>1. capable' = <<>> /\ at' = 1 /\ UNCHANGED devices
    BY <1>4 DEF ConstructAgain, machine
  <2>2. <<>> \in Seq(Candidates') /\ 1 \in 1 .. Len(devices) + 1
    BY <1>2, EmptySeq
  <2> QED BY <2>1, <2>2 DEF PickingType
<1>5. CASE ~ConsiderDevice /\ ~ConstructAgain
  <2>1. UNCHANGED <<capable, at, devices>>
    BY <1>5 DEF Next, vars, machine, picking, CreateInstance, CreateMessenger,
       PickPhysicalDevice, QueryDefaultFeedback, StartDevice, AddExtension, ChainNext,
       ConfigureDone, CreateDevice, OpenDrmNode, OpenFallback, Fail, Ended
  <2> QED BY <1>1, <2>1, SameCandidates DEF PickingType
<1> QED BY <1>3, <1>4, <1>5

LEMMA TypeInit == Init => Typed
<1> SUFFICES ASSUME Init
             PROVE  Typed
  OBVIOUS
<1>1. devices \in Seq(DeviceKinds) /\ drm \in Seq(NodeKinds)
  BY BoundedSeqType, DeviceAssumption DEF Init
<1>2. MachineOK
  BY <1>1 DEF Init, MachineOK
<1>3. <<>> \in Seq(Required \cup Extras \cup {Budget}) /\ <<>> \in Seq(Structs)
      /\ <<>> \in Seq(Nodes)
  BY EmptySeq
<1>4. TypeOK
  <2>1. config \in Configs /\ stage \in Stages
    BY DEF Init, Stages
  <2>2. next \in [Structs \cup {Features} -> Structs \cup {Null}]
    BY DEF Init
  <2>3. windows \in 1 .. MaxWindows
    BY DeviceAssumption DEF Init
  <2>4. capable \in Seq(Candidates) /\ at \in 1 .. Len(devices) + 1
    BY <1>1, LenProperties, EmptySeq DEF Init
  <2> QED BY <1>3, <2>1, <2>2, <2>3, <2>4 DEF Init, TypeOK
<1> QED BY <1>2, <1>4 DEF Typed

LEMMA TypeStep == Typed /\ [Next]_vars => Typed'
<1> SUFFICES ASSUME Typed, [Next]_vars
             PROVE  Typed'
  OBVIOUS
<1> USE DEF Typed
<1>0. capable' \in Seq(Candidates') /\ at' \in 1 .. Len(devices') + 1
  BY PickingStep DEF PickingType
<1>1. CASE UNCHANGED vars
  BY <1>0, <1>1 DEF vars, machine, device, node, TypeOK, MachineOK, Nodes
<1>2. CASE CreateInstance \/ CreateMessenger \/ ConfigureDone \/ CreateDevice \/ Fail
  <2>1. stage' \in Stages
    BY <1>2 DEF CreateInstance, CreateMessenger, ConfigureDone, CreateDevice, Fail, Stages
  <2>2. UNCHANGED <<machine, picking, device, node, windows>>
    BY <1>2 DEF CreateInstance, CreateMessenger, ConfigureDone, CreateDevice, Fail
  <2> QED BY <1>0, <2>1, <2>2 DEF machine, device, node, TypeOK, MachineOK, Nodes
<1>3. CASE PickPhysicalDevice
  <2>1. UNCHANGED <<machine, picking, extensions, next, chained, earlier, node, windows>>
        /\ stage' \in Stages
    BY <1>3 DEF PickPhysicalDevice, Stages
  <2>2. ASSUME chosen' # None
        PROVE  /\ chosen'.device \in DOMAIN devices
               /\ {chosen'.graphics, chosen'.present} \subseteq
                    DOMAIN devices[chosen'.device].families
    <3>1. CASE UNCHANGED chosen
      BY <2>2, <3>1 DEF TypeOK
    <3>2. CASE ~UNCHANGED chosen
      <4>1. PICK index \in DOMAIN capable : chosen' = capable[index]
        BY <1>3, <3>2 DEF PickPhysicalDevice, ChosenOf
      <4>2. chosen' \in Candidates
        BY <4>1, LenProperties, ElementOfSeq DEF TypeOK
      <4> QED BY <4>2, CandidateFits
    <3> QED BY <3>1, <3>2
  <2> QED BY <1>0, <2>1, <2>2 DEF machine, node, TypeOK, MachineOK, Nodes
<1>4. CASE QueryDefaultFeedback
  <2>1. stage' \in Stages
    BY <1>4 DEF QueryDefaultFeedback, Stages
  <2> QED BY <1>0, <1>4, <2>1 DEF QueryDefaultFeedback, machine, device, TypeOK, MachineOK, Nodes
<1>5. CASE StartDevice
  <2>1. stage' \in Stages
        /\ UNCHANGED <<machine, picking, chosen, chained, earlier, node, windows>>
    BY <1>5 DEF StartDevice, Stages
  <2>2. extensions' \in Seq(Required \cup Extras \cup {Budget})
    BY <1>5, LibraryExtensions DEF StartDevice
  <2>3. next' \in [Structs \cup {Features} -> Structs \cup {Null}]
    BY <1>5 DEF StartDevice, TypeOK
  <2> QED BY <1>0, <2>1, <2>2, <2>3 DEF machine, node, TypeOK, MachineOK, Nodes
<1>6. ASSUME NEW e \in Extras \cup Required \cup {Budget}, AddExtension(e)
      PROVE  Typed'
  <2>1. extensions' \in Seq(Required \cup Extras \cup {Budget})
    BY <1>6, AddedType DEF AddExtension
  <2>2. UNCHANGED <<machine, picking, chosen, next, chained, earlier, node, stage,
                    windows>>
    BY <1>6 DEF AddExtension
  <2> QED BY <1>0, <2>1, <2>2 DEF machine, node, TypeOK, MachineOK, Nodes
<1>7. ASSUME NEW s \in Structs, ChainNext(s)
      PROVE  Typed'
  <2>1. stage' \in Stages /\ UNCHANGED <<machine, picking, chosen, extensions, earlier, node, windows>>
    BY <1>7 DEF ChainNext, Stages, TypeOK
  <2>2. next' \in [Structs \cup {Features} -> Structs \cup {Null}]
    BY <1>7 DEF ChainNext, TypeOK
  <2>3. chained' \in Seq(Structs)
    <3>1. Append(chained, s) \in Seq(Structs)
      BY AppendProperties DEF TypeOK
    <3> QED BY <1>7, <3>1 DEF ChainNext, TypeOK
  <2> QED BY <1>0, <2>1, <2>2, <2>3 DEF machine, node, TypeOK, MachineOK, Nodes
<1>8. CASE OpenDrmNode \/ OpenFallback
  <2>1. UNCHANGED <<machine, picking, device, main_device, windows>>
    BY <1>8 DEF OpenDrmNode, OpenFallback
  <2>2. \/ /\ UNCHANGED <<drm_fd, tried>>
           /\ stage' \in {"fallback", "failed"}
        \/ \E nd \in Nodes, after \in {"fallback", "failed"} : Open(nd, after)
    <3>1. CASE OpenDrmNode
      BY <3>1, NodeOfType DEF OpenDrmNode
    <3>2. CASE OpenFallback
      BY <3>2, FirstRenderType DEF OpenFallback
    <3> QED BY <1>8, <3>1, <3>2
  <2>3. /\ drm_fd' \in Nodes \cup {None}
        /\ tried' \in Seq(Nodes)
        /\ stage' \in Stages
    <3>1. CASE UNCHANGED <<drm_fd, tried>> /\ stage' \in {"fallback", "failed"}
      BY <3>1 DEF TypeOK, Stages
    <3>2. ASSUME NEW nd \in Nodes, NEW after \in {"fallback", "failed"}, Open(nd, after)
          PROVE  drm_fd' \in Nodes \cup {None} /\ tried' \in Seq(Nodes) /\ stage' \in Stages
      <4>1. Append(tried, nd) \in Seq(Nodes)
        BY AppendProperties DEF TypeOK
      <4> QED BY <3>2, <4>1 DEF Open, TypeOK, Stages
    <3> QED BY <2>2, <3>1, <3>2
  <2>4. Nodes' = Nodes
    BY <2>1 DEF machine, Nodes
  <2> QED BY <1>0, <2>1, <2>3, <2>4 DEF machine, device, TypeOK, MachineOK
<1>9. CASE ConstructAgain
  <2>1. <<>> \in Seq(Required \cup Extras \cup {Budget}) /\ <<>> \in Seq(Structs)
        /\ <<>> \in Seq(Nodes)
    BY EmptySeq
  <2>2. ToSet(chained) \subseteq Structs
    BY LenProperties, ElementOfSeq DEF ToSet, TypeOK
  <2>3. windows' \in 1 .. MaxWindows
    BY <1>9, DeviceAssumption DEF ConstructAgain, TypeOK
  <2>4. /\ chosen' = None /\ main_device' = None /\ drm_fd' = None
        /\ extensions' = <<>> /\ chained' = <<>> /\ tried' = <<>>
        /\ earlier' \subseteq Structs /\ stage' \in Stages
        /\ UNCHANGED <<machine, next>>
    BY <1>9, <2>2 DEF ConstructAgain, TypeOK, Stages
  <2> QED BY <1>0, <2>1, <2>3, <2>4 DEF machine, TypeOK, MachineOK, Nodes
<1>10. CASE ConsiderDevice
  <2>1. UNCHANGED <<machine, device, node, stage, windows>>
    BY <1>10 DEF ConsiderDevice
  <2> QED BY <1>0, <2>1 DEF machine, device, node, TypeOK, MachineOK, Nodes
<1> QED BY <1>1, <1>2, <1>3, <1>4, <1>5, <1>6, <1>7, <1>8, <1>9, <1>10 DEF Next, Ended

\* Every reachable state of the set-up is well typed: indices point at devices
\* and families that exist, and only nodes of listed devices are opened.
THEOREM DeviceTypes == Spec => []TypeOK
<1> QED BY TypeInit, TypeStep, PTL DEF Spec, Typed

----------------------------------------------------------------------------
(* The device.                                                             *)

\* The candidates are devices the loop has passed, and the first of them comes no
\* later than any suitable device it has passed.
Passed == \A k \in 1 .. Len(capable) : capable[k].device < at

FirstComesFirst ==
  \A i \in 1 .. at - 1 :
    Suitable(devices[i]) => Len(capable) # 0 /\ capable[1].device <= i

DeviceInv == Passed /\ FirstComesFirst /\ ChosenDeviceFits

LEMMA DeviceInit == Init => DeviceInv
<1> SUFFICES ASSUME Init
             PROVE  DeviceInv
  OBVIOUS
<1>1. Len(capable) = 0 /\ at = 1 /\ chosen = None
  BY EmptySeq DEF Init
<1> QED BY <1>1 DEF DeviceInv, Passed, FirstComesFirst, ChosenDeviceFits

\* One turn of the loop.
LEMMA ConsiderKeeps ==
  ASSUME Typed, Passed, FirstComesFirst, ConsiderDevice
  PROVE  Passed' /\ FirstComesFirst'
<1>1. UNCHANGED devices /\ at' = at + 1 /\ at <= Len(devices)
  BY DEF ConsiderDevice, machine
<1>2. capable \in Seq(Candidates) /\ at \in 1 .. Len(devices) + 1
      /\ Len(devices) \in Nat /\ DOMAIN devices = 1 .. Len(devices)
      /\ Len(capable) \in Nat
  BY LenProperties DEF Typed, TypeOK, MachineOK
<1>3. \A k \in 1 .. Len(capable) : capable[k].device \in Nat /\ capable[k].device < at
  BY <1>2, ElementOfSeq, CandidateFits DEF Typed, Passed
<1>4. CASE ~Suitable(devices[at]) /\ UNCHANGED capable
  <2>1. ASSUME NEW i \in 1 .. at, Suitable(devices[i])
        PROVE  Len(capable) # 0 /\ capable[1].device <= i
    <3>1. i \in 1 .. at - 1
      BY <1>2, <1>4, <2>1
    <3> QED BY <2>1, <3>1 DEF FirstComesFirst
  <2>2. FirstComesFirst'
    BY <1>1, <1>2, <1>4, <2>1 DEF FirstComesFirst, Suitable, HasFamily
  <2> QED BY <1>1, <1>2, <1>3, <1>4, <2>2 DEF Passed
<1>5. CASE Suitable(devices[at]) /\ capable' = Append(capable, CandidateOf(at))
  <2>1. CandidateOf(at) \in Candidates /\ CandidateOf(at).device = at
    BY <1>1, <1>2, <1>5 DEF Candidates, CandidateOf
  <2>2. /\ Len(capable') = Len(capable) + 1
        /\ \A k \in 1 .. Len(capable) : capable'[k] = capable[k]
        /\ capable'[Len(capable) + 1] = CandidateOf(at)
    BY <1>2, <1>5, <2>1, AppendProperties
  <2>3. \A k \in 1 .. Len(capable') : capable'[k].device \in Nat /\ capable'[k].device <= at
    <3>1. ASSUME NEW k \in 1 .. Len(capable) + 1
          PROVE  capable'[k].device \in Nat /\ capable'[k].device <= at
      <4>1. CASE k = Len(capable) + 1
        BY <1>2, <2>1, <2>2, <4>1
      <4>2. CASE k \in 1 .. Len(capable)
        BY <1>2, <1>3, <2>2, <4>2
      <4> QED BY <1>2, <4>1, <4>2
    <3> QED BY <2>2, <3>1
  <2>4. Passed'
    BY <1>1, <1>2, <2>3 DEF Passed
  <2>5. ASSUME NEW i \in 1 .. at, Suitable(devices[i])
        PROVE  Len(capable') # 0 /\ capable'[1].device <= i
    <3>1. CASE i = at
      BY <1>2, <2>2, <2>3, <3>1
    <3>2. CASE i # at
      <4>1. i \in 1 .. at - 1
        BY <1>2, <3>2
      <4>2. Len(capable) # 0 /\ capable[1].device <= i
        BY <2>5, <4>1 DEF FirstComesFirst
      <4> QED BY <1>2, <2>2, <4>2
    <3> QED BY <3>1, <3>2
  <2>6. FirstComesFirst'
    BY <1>1, <1>2, <2>5 DEF FirstComesFirst, Suitable, HasFamily
  <2> QED BY <2>4, <2>6
<1> QED BY <1>4, <1>5 DEF ConsiderDevice

\* The index counts the candidates: what is taken fits, and so does every
\* capability it was kept for; without a policy nothing before it would do.
LEMMA PickedFits ==
  ASSUME Typed, DeviceInv, PickPhysicalDevice, ~UNCHANGED chosen
  PROVE  ChosenDeviceFits'
<1>1. PICK index \in DOMAIN capable :
        (config.select_device \/ index = 1) /\ chosen' = capable[index]
  BY DEF PickPhysicalDevice, ChosenOf
<1>2. UNCHANGED <<config, devices>> /\ at > Len(devices)
  BY DEF PickPhysicalDevice, machine
<1>3. chosen' \in Candidates
  BY <1>1, LenProperties, ElementOfSeq DEF Typed, TypeOK
<1>4. /\ chosen'.device \in DOMAIN devices
      /\ Required \subseteq devices[chosen'.device].extensions
      /\ "graphics" \in devices[chosen'.device].families[chosen'.graphics]
      /\ "present" \in devices[chosen'.device].families[chosen'.present]
  BY <1>3, CandidateFits DEF Typed, Suitable
<1>5. ASSUME ~config.select_device, NEW k \in 1 .. chosen'.device - 1
      PROVE  \/ ~(Required \subseteq devices[k].extensions)
             \/ \E capability \in {"graphics", "present"} :
                  capability \notin UNION ToSet(devices[k].families)
  <2>1. DOMAIN devices = 1 .. Len(devices) /\ Len(devices) \in Nat
        /\ at \in 1 .. Len(devices) + 1
    BY LenProperties DEF Typed, MachineOK, TypeOK
  <2>2. k \in 1 .. at - 1 /\ ~(chosen'.device <= k)
    BY <1>2, <1>4, <2>1
  <2>3. chosen' = capable[1]
    BY <1>1, <1>5
  <2>4. ~Suitable(devices[k])
    BY <2>2, <2>3 DEF DeviceInv, FirstComesFirst
  <2> QED BY <2>4 DEF Suitable, HasFamily, ToSet
<1> QED BY <1>2, <1>4, <1>5 DEF ChosenDeviceFits

LEMMA DeviceStep == Typed /\ DeviceInv /\ [Next]_vars => DeviceInv'
<1> SUFFICES ASSUME Typed, DeviceInv, [Next]_vars
             PROVE  DeviceInv'
  OBVIOUS
<1>1. CASE ConsiderDevice
  <2>1. UNCHANGED <<chosen, config, devices>>
    BY <1>1 DEF ConsiderDevice, machine, device
  <2> QED BY <1>1, <2>1, ConsiderKeeps DEF DeviceInv, ChosenDeviceFits
<1>2. CASE PickPhysicalDevice
  <2>1. UNCHANGED <<capable, at, config, devices>>
    BY <1>2 DEF PickPhysicalDevice, machine, picking
  <2>2. Passed' /\ FirstComesFirst'
    BY <2>1 DEF DeviceInv, Passed, FirstComesFirst, Suitable, HasFamily
  <2>3. CASE UNCHANGED chosen
    BY <2>1, <2>2, <2>3 DEF DeviceInv, ChosenDeviceFits
  <2> QED BY <1>2, <2>2, <2>3, PickedFits DEF DeviceInv
<1>3. CASE ConstructAgain
  <2>1. capable' = <<>> /\ at' = 1 /\ chosen' = None
    BY <1>3 DEF ConstructAgain
  <2> QED BY <2>1 DEF DeviceInv, Passed, FirstComesFirst, ChosenDeviceFits
<1>4. CASE ~ConsiderDevice /\ ~PickPhysicalDevice /\ ~ConstructAgain
  <2>1. UNCHANGED <<capable, at, chosen, config, devices>>
    BY <1>4 DEF Next, vars, machine, picking, device, CreateInstance, CreateMessenger,
       QueryDefaultFeedback, StartDevice, AddExtension, ChainNext, ConfigureDone,
       CreateDevice, OpenDrmNode, OpenFallback, Fail, Ended
  <2> QED BY <2>1 DEF DeviceInv, Passed, FirstComesFirst, Suitable, HasFamily,
             ChosenDeviceFits
<1> QED BY <1>1, <1>2, <1>3, <1>4

\* Whatever index select_device returns among the candidates, the device it
\* stands for has what the library needs, and the families kept with it are that
\* device's; without select_device it is the first such device there is.
THEOREM DeviceSafety == Spec => []ChosenDeviceFits
<1>1. DeviceInv => ChosenDeviceFits
  BY DEF DeviceInv
<1> QED BY <1>1, DeviceInit, DeviceStep, TypeInit, TypeStep, PTL DEF Spec

----------------------------------------------------------------------------
(* The extensions.                                                         *)

\* From the library's list on, through every call of the builder, no extension
\* is listed twice and none the library needs is missing; a created device has
\* them all.
ListInv ==
  stage \in Created \cup {"configure", "create"} =>
    /\ IsInjective(extensions)
    /\ Required \subseteq ToSet(extensions)
    /\ chosen.budget => Budget \in ToSet(extensions)

CreatedInv ==
  stage \in Created => ToSet(extensions) \subseteq devices[chosen.device].extensions

ExtensionsInv == ListInv /\ CreatedInv

LEMMA ExtensionsInit == Init => ExtensionsInv
BY DEF Init, ExtensionsInv, ListInv, CreatedInv, Created

\* add_extensions skips what is listed already.
LEMMA AddedOnce ==
  ASSUME TypeOK, IsInjective(extensions), NEW e \in Extras \cup Required \cup {Budget}
  PROVE  IsInjective(Added(e)) /\ ToSet(extensions) \subseteq ToSet(Added(e))
<1>1. /\ extensions \in Seq(Required \cup Extras \cup {Budget})
      /\ e \in Required \cup Extras \cup {Budget}
  BY DEF TypeOK
<1>2. CASE e \in ToSet(extensions)
  BY <1>2 DEF Added
<1>3. CASE e \notin ToSet(extensions)
  BY <1>1, <1>3, AppendKeepsApart, AppendSet DEF Added
<1> QED BY <1>2, <1>3

LEMMA ExtensionsStep == Typed /\ ExtensionsInv /\ [Next]_vars => ExtensionsInv'
<1> SUFFICES ASSUME Typed, ExtensionsInv, [Next]_vars
             PROVE  ExtensionsInv'
  OBVIOUS
<1>1. CASE StartDevice
  <2>1. stage' = "configure" /\ chosen' = chosen
        /\ extensions' = SetToSeq(Required) \o (IF chosen.budget THEN <<Budget>> ELSE <<>>)
    BY <1>1 DEF StartDevice
  <2>2. /\ IsInjective(extensions')
        /\ Required \subseteq ToSet(extensions')
        /\ chosen.budget => Budget \in ToSet(extensions')
    BY <2>1, LibraryExtensions
  <2> QED BY <2>1, <2>2 DEF ExtensionsInv, ListInv, CreatedInv, Created
<1>2. ASSUME NEW e \in Extras \cup Required \cup {Budget}, AddExtension(e)
      PROVE  ExtensionsInv'
  <2>1. /\ stage = "configure" /\ stage' = stage /\ chosen' = chosen
        /\ extensions' = Added(e)
    BY <1>2 DEF AddExtension
  <2>2. IsInjective(extensions') /\ ToSet(extensions) \subseteq ToSet(extensions')
    BY <2>1, AddedOnce DEF ExtensionsInv, ListInv, Typed
  <2> QED BY <2>1, <2>2 DEF ExtensionsInv, ListInv, CreatedInv, Created
<1>3. CASE CreateDevice
  <2>1. stage = "create" /\ UNCHANGED <<extensions, chosen, devices>>
    BY <1>3 DEF CreateDevice, machine, device
  <2>2. stage' \in Created => ToSet(extensions) \subseteq devices[chosen.device].extensions
    BY <1>3 DEF CreateDevice, Created
  <2> QED BY <2>1, <2>2 DEF ExtensionsInv, ListInv, CreatedInv
<1>4. CASE \/ CreateInstance \/ CreateMessenger \/ ConsiderDevice \/ PickPhysicalDevice
           \/ QueryDefaultFeedback \/ Fail \/ ConstructAgain
  <2>1. stage' \notin Created \cup {"configure", "create"}
    BY <1>4 DEF CreateInstance, CreateMessenger, ConsiderDevice, PickPhysicalDevice,
       QueryDefaultFeedback, Fail, ConstructAgain, Created
  <2> QED BY <2>1 DEF ExtensionsInv, ListInv, CreatedInv
<1>5. CASE \/ UNCHANGED vars \/ ConfigureDone \/ OpenDrmNode \/ OpenFallback
           \/ \E s \in Structs : ChainNext(s)
  <2>1. UNCHANGED <<extensions, chosen, devices>>
    BY <1>5 DEF vars, ConfigureDone, OpenDrmNode, OpenFallback, ChainNext, machine, device
  <2>2. /\ stage' \in Created \cup {"configure", "create"}
             => stage \in Created \cup {"configure", "create"}
        /\ stage' \in Created => stage \in Created
    BY <1>5 DEF vars, ConfigureDone, OpenDrmNode, OpenFallback, Open, ChainNext, Created
  <2> QED BY <2>1, <2>2 DEF ExtensionsInv, ListInv, CreatedInv
<1> QED BY <1>1, <1>2, <1>3, <1>4, <1>5 DEF Next, Ended

\* However configure_device repeats extensions, a created device was asked for
\* each once, and for all the library relies on.
THEOREM ExtensionsSafety == Spec => []ExtensionsEnabledOnce
<1>1. ExtensionsInv => ExtensionsEnabledOnce
  BY DEF ExtensionsInv, ListInv, CreatedInv, ExtensionsEnabledOnce
<1> QED BY <1>1, ExtensionsInit, ExtensionsStep, TypeInit, TypeStep, PTL DEF Spec

----------------------------------------------------------------------------
(* The node.                                                               *)

\* Nothing is tried before open_drm_node; the fallback comes after the one node
\* of the device the compositor named, if it is listed.
OwnTried ==
  /\ tried # <<>> /\ tried[1] \in Nodes
  /\ tried[1][1] = main_device[1]
  /\ "render" \in drm[main_device[1]] => tried[1][2] = "render"

NodeInv ==
  /\ stage \in {"instance", "messenger", "pick", "feedback", "device", "configure",
                "create", "drm"} => tried = <<>>
  /\ stage = "fallback" /\ main_device \in Nodes => OwnTried /\ Len(tried) = 1
  /\ stage = "ready" /\ main_device \in Nodes =>
       OwnTried /\ (drm_fd[1] # main_device[1] => Len(tried) = 2)

LEMMA NodeInit == Init => NodeInv
BY DEF Init, NodeInv

LEMMA NodeStep == Typed /\ NodeInv /\ [Next]_vars => NodeInv'
<1> SUFFICES ASSUME Typed, NodeInv, [Next]_vars
             PROVE  NodeInv'
  OBVIOUS
<1>1. CASE OpenDrmNode
  <2>1. stage = "drm" /\ tried = <<>> /\ UNCHANGED <<drm, main_device>>
    BY <1>1 DEF OpenDrmNode, NodeInv, machine
  <2>2. Nodes' = Nodes
    BY <2>1 DEF Nodes
  <2>3. CASE \E i \in DOMAIN drm : Matches(i) /\ Open(NodeOf(i), "fallback")
    <3>1. PICK i \in DOMAIN drm : Matches(i) /\ Open(NodeOf(i), "fallback")
      BY <2>3
    <3> DEFINE nd == NodeOf(i)
    <3>2. nd \in Nodes /\ main_device[1] = i /\ nd[1] = i
          /\ ("render" \in drm[i] => nd[2] = "render")
      BY <3>1, NodeOfType
    <3> HIDE DEF nd
    <3>3. tried' = <<nd>>
      BY <2>1, <3>1 DEF Open, nd
    <3>4. tried' # <<>> /\ tried'[1] = nd /\ Len(tried') = 1
      BY <3>3
    <3>5. \/ stage' = "ready" /\ drm_fd' = nd
          \/ stage' = "fallback"
      BY <3>1 DEF Open, nd
    <3>6. OwnTried'
      BY <2>1, <2>2, <3>2, <3>4 DEF OwnTried
    <3> QED BY <2>1, <3>2, <3>4, <3>5, <3>6 DEF NodeInv
  <2>4. CASE (\A i \in DOMAIN drm : ~Matches(i)) /\ stage' = "fallback"
    <3>1. main_device \notin Nodes
      BY <2>4 DEF Matches, Nodes
    <3> QED BY <2>1, <2>2, <2>4, <3>1 DEF NodeInv
  <2> QED BY <1>1, <2>3, <2>4 DEF OpenDrmNode
<1>2. CASE OpenFallback
  <2>1. stage = "fallback" /\ UNCHANGED <<drm, main_device>>
    BY <1>2 DEF OpenFallback, machine
  <2>2. Nodes' = Nodes
    BY <2>1 DEF Nodes
  <2>3. CASE stage' = "failed"
    BY <2>3 DEF NodeInv
  <2>4. CASE stage' # "failed" /\ main_device \in Nodes
    <3>1. FirstRender \in Nodes /\ Open(FirstRender, "failed") /\ stage' = "ready"
      BY <1>2, <2>4, FirstRenderType DEF OpenFallback, Open, Typed
    <3>2. OwnTried /\ Len(tried) = 1 /\ tried \in Seq(Nodes)
      BY <2>1, <2>4 DEF NodeInv, Typed, TypeOK
    <3>3. tried' = Append(tried, FirstRender)
      BY <3>1 DEF Open
    <3> DEFINE nd == FirstRender
    <3> HIDE DEF nd
    <3>4. tried' # <<>> /\ Len(tried') = 2 /\ tried'[1] = tried[1]
      <4>1. nd \in Nodes /\ tried' = Append(tried, nd)
        BY <3>1, <3>3 DEF nd
      <4>2. /\ Append(tried, nd) # <<>> /\ Len(Append(tried, nd)) = Len(tried) + 1
            /\ \A i \in 1 .. Len(tried) : Append(tried, nd)[i] = tried[i]
        BY <3>2, <4>1, AppendProperties
      <4>3. 1 \in 1 .. Len(tried) /\ Len(tried) + 1 = 2
        BY <3>2
      <4> QED BY <4>1, <4>2, <4>3
    <3>5. OwnTried'
      BY <2>1, <2>2, <3>2, <3>4 DEF OwnTried
    <3> QED BY <3>1, <3>4, <3>5 DEF NodeInv
  <2>5. CASE stage' # "failed" /\ main_device \notin Nodes
    <3>1. stage' = "ready"
      BY <1>2, <2>5 DEF OpenFallback, Open
    <3> QED BY <2>1, <2>2, <2>5, <3>1 DEF NodeInv
  <2> QED BY <2>3, <2>4, <2>5
<1>3. CASE ConstructAgain
  BY <1>3 DEF ConstructAgain, NodeInv
<1>4. CASE UNCHANGED vars
  <2>1. UNCHANGED <<drm, main_device, tried, drm_fd, stage>>
    BY <1>4 DEF vars, machine, node
  <2> QED BY <2>1 DEF NodeInv, OwnTried, Nodes
<1>5. CASE ~OpenDrmNode /\ ~OpenFallback /\ ~ConstructAgain /\ ~UNCHANGED vars
  <2>1. /\ tried' = tried
        /\ stage \in {"instance", "messenger", "pick", "feedback", "device", "configure",
                      "create", "drm"}
        /\ stage' \notin {"fallback", "ready"}
    BY <1>5 DEF Next, node, CreateInstance, CreateMessenger, ConsiderDevice,
       PickPhysicalDevice, QueryDefaultFeedback, StartDevice, AddExtension, ChainNext, ConfigureDone,
       CreateDevice, Fail, Ended
  <2> QED BY <2>1 DEF NodeInv
<1> QED BY <1>1, <1>2, <1>3, <1>4, <1>5

\* If the compositor named a node of a listed device, the first node tried is one
\* of that device, its render node if it has one; where another device's node is
\* open, it is the fallback, tried after that one did not open.
THEOREM NodeSafety == Spec => []NodeOfMainDevice
<1>1. NodeInv => NodeOfMainDevice
  BY DEF NodeInv, OwnTried, NodeOfMainDevice
<1> QED BY <1>1, NodeInit, NodeStep, TypeInit, TypeStep, PTL DEF Spec

----------------------------------------------------------------------------
(* The chain.  Link is defined by recursion; a set of counterexamples has a *)
(* least member, which serves where an induction would.                    *)

Walk == 0 .. Cardinality(Structs) + 1

\* f is the walk of the chain as far as n.
Walks(f, n) ==
  /\ f[0] = Features
  /\ \A m \in 1 .. n : f[m] = IF f[m - 1] = Null THEN Null ELSE next[f[m - 1]]

LEMMA StructCount == Cardinality(Structs) \in Nat
BY FS_CardinalityType, DeviceAssumption

\* The walk exists as far as any n, so Link is the function its equation
\* describes.
LEMMA WalkExists ==
  ASSUME NEW n \in Nat
  PROVE  \E f : f = [m \in 0 .. n |-> f[m]] /\ Walks(f, n)
<1> DEFINE Good(k) == \E f : f = [m \in 0 .. k |-> f[m]] /\ Walks(f, k)
           Bad == {k \in Nat : ~Good(k)}
<1>1. SUFFICES ASSUME Bad # {}
               PROVE  FALSE
  OBVIOUS
<1>2. PICK k \in Bad : \A j \in Bad : k <= j
  BY <1>1, LeastNatural
<1>3. k # 0
  <2> DEFINE g == [m \in 0 .. 0 |-> Features]
  <2>1. g = [m \in 0 .. 0 |-> g[m]] /\ g[0] = Features /\ 1 .. 0 = {}
    OBVIOUS
  <2> HIDE DEF g
  <2>2. Good(0)
    BY <2>1 DEF Walks
  <2> QED BY <1>2, <2>2
<1>4. k - 1 \in Nat /\ ~(k <= k - 1) /\ k \in Nat
  BY <1>2, <1>3
<1>5. Good(k - 1)
  BY <1>2, <1>4
<1>6. PICK f : f = [m \in 0 .. k - 1 |-> f[m]] /\ Walks(f, k - 1)
  BY <1>5
<1> DEFINE last == IF f[k - 1] = Null THEN Null ELSE next[f[k - 1]]
           g == [m \in 0 .. k |-> IF m = k THEN last ELSE f[m]]
<1>7. g = [m \in 0 .. k |-> g[m]]
  OBVIOUS
<1>8. g[0] = Features
  BY <1>4, <1>6 DEF Walks
<1>9. ASSUME NEW m \in 1 .. k
      PROVE  g[m] = IF g[m - 1] = Null THEN Null ELSE next[g[m - 1]]
  <2>1. m \in 0 .. k /\ m - 1 \in 0 .. k /\ m - 1 # k
    BY <1>4
  <2>2. g[m - 1] = f[m - 1]
    BY <2>1
  <2>3. CASE m = k
    BY <2>1, <2>2, <2>3
  <2>4. CASE m # k
    <3>1. m \in 1 .. k - 1
      BY <1>4, <2>4
    <3>2. f[m] = IF f[m - 1] = Null THEN Null ELSE next[f[m - 1]]
      BY <1>6, <3>1 DEF Walks
    <3>3. g[m] = f[m]
      BY <2>1, <2>4
    <3> QED BY <2>2, <3>2, <3>3
  <2> QED BY <2>3, <2>4
<1> HIDE DEF g, last
<1>10. Good(k)
  BY <1>7, <1>8, <1>9 DEF Walks
<1> QED BY <1>2, <1>10

LEMMA LinkWalks ==
  /\ Link[0] = Features
  /\ \A n \in 1 .. Cardinality(Structs) + 1 :
       Link[n] = IF Link[n - 1] = Null THEN Null ELSE next[Link[n - 1]]
<1> DEFINE K == Cardinality(Structs) + 1
           Equation(f) ==
             f = [n \in 0 .. K |-> IF n = 0 THEN Features
                                   ELSE IF f[n - 1] = Null THEN Null ELSE next[f[n - 1]]]
<1>1. K \in Nat
  BY StructCount
<1>2. PICK f : f = [m \in 0 .. K |-> f[m]] /\ Walks(f, K)
  BY <1>1, WalkExists
<1>3. ASSUME NEW n \in 0 .. K
      PROVE  f[n] = IF n = 0 THEN Features
                    ELSE IF f[n - 1] = Null THEN Null ELSE next[f[n - 1]]
  <2>1. CASE n = 0
    BY <1>2, <2>1 DEF Walks
  <2>2. CASE n # 0
    <3>1. n \in 1 .. K
      BY <1>1, <2>2
    <3> QED BY <1>2, <2>2, <3>1 DEF Walks
  <2> QED BY <2>1, <2>2
<1>4. Equation(f)
  <2> DEFINE g == [n \in 0 .. K |-> IF n = 0 THEN Features
                                    ELSE IF f[n - 1] = Null THEN Null ELSE next[f[n - 1]]]
             h == [m \in 0 .. K |-> f[m]]
  <2> HIDE DEF K
  <2>1. h = g
    BY <1>3
  <2> QED BY <1>2, <2>1
<1>5. Equation(Link)
  BY <1>4 DEF Link
<1> HIDE DEF K
<1>6. ASSUME NEW n \in 0 .. K
      PROVE  Link[n] = IF n = 0 THEN Features
                       ELSE IF Link[n - 1] = Null THEN Null ELSE next[Link[n - 1]]
  BY <1>5
<1>7. Link[0] = Features
  BY <1>1, <1>6
<1>8. ASSUME NEW n \in 1 .. K
      PROVE  Link[n] = IF Link[n - 1] = Null THEN Null ELSE next[Link[n - 1]]
  BY <1>1, <1>6
<1> QED BY <1>7, <1>8 DEF K

\* No structure was chained twice, in this construction or an earlier one.
Fresh == IsInjective(chained) /\ ToSet(chained) \cap earlier = {}

\* Where the chain should lead after n structures.
At(n) ==
  IF n = 0 THEN Features ELSE IF n <= Len(chained) THEN chained[n] ELSE Null

Pointers == \A n \in 0 .. Len(chained) : next[At(n)] = At(n + 1)

\* A structure points only at structures that were chained, and one that never
\* was points nowhere; while all are chained for the first time, the chain is
\* what the calls asked for.
ChainInv ==
  /\ stage \in {"instance", "messenger", "pick", "feedback", "device"} => chained = <<>>
  /\ \A s \in Structs \cup {Features} : next[s] \in {Null} \cup ToSet(chained) \cup earlier
  /\ \A s \in Structs \ (ToSet(chained) \cup earlier) : next[s] = Null
  /\ stage \in Created \cup {"configure", "create", "hung"} /\ Fresh =>
       stage # "hung" /\ Pointers

\* The walk meets the head, structures that were chained, and the end.
LEMMA LinkType ==
  ASSUME Typed, ChainInv, NEW n \in Walk
  PROVE  Link[n] \in {Features, Null} \cup ToSet(chained) \cup earlier
<1> DEFINE T == {Features, Null} \cup ToSet(chained) \cup earlier
           Bad == {k \in Walk : Link[k] \notin T}
<1>1. SUFFICES ASSUME Bad # {}
               PROVE  FALSE
  OBVIOUS
<1>2. Bad \in SUBSET Nat
  BY StructCount DEF Walk
<1>3. PICK k \in Bad : \A j \in Bad : k <= j
  BY <1>1, <1>2, LeastNatural
<1>4. k # 0
  BY <1>3, LinkWalks
<1>5. k \in 1 .. Cardinality(Structs) + 1 /\ k - 1 \in Walk /\ ~(k <= k - 1)
  BY <1>3, <1>4, StructCount DEF Walk
<1>6. Link[k - 1] \in T
  BY <1>3, <1>5
<1>7. ToSet(chained) \subseteq Structs /\ earlier \subseteq Structs
  BY LenProperties, ElementOfSeq DEF ToSet, Typed, TypeOK
<1>8. Link[k - 1] = Null \/ next[Link[k - 1]] \in T
  BY <1>6, <1>7 DEF ChainInv
<1>9. Link[k] \in T
  BY <1>5, <1>8, LinkWalks
<1> QED BY <1>3, <1>9

LEMMA FreshFits ==
  ASSUME Typed, Fresh
  PROVE  /\ Len(chained) \in 0 .. Cardinality(Structs)
         /\ \A i \in 1 .. Len(chained) : chained[i] \in Structs
         /\ \A i, j \in 1 .. Len(chained) : chained[i] = chained[j] => i = j
<1>1. /\ chained \in [1 .. Len(chained) -> Structs]
      /\ Len(chained) \in Nat
      /\ DOMAIN chained = 1 .. Len(chained)
  BY LenProperties DEF Typed, TypeOK
<1>2. chained \in Injection(1 .. Len(chained), Structs)
  BY <1>1 DEF Fresh, Injection
<1>3. Cardinality(1 .. Len(chained)) <= Cardinality(Structs)
  BY <1>2, FS_Injection, DeviceAssumption
<1>4. Cardinality(1 .. Len(chained)) = Len(chained)
  <2> DEFINE n == Len(chained)
  <2> HIDE DEF n
  <2>1. 1 \in Int /\ n \in Int /\ n \in Nat
    BY <1>1 DEF n
  <2>2. Cardinality(1 .. n) = IF 1 > n THEN 0 ELSE n - 1 + 1
    BY <2>1, FS_Interval
  <2> QED BY <2>1, <2>2 DEF n
<1> QED BY <1>1, <1>3, <1>4, StructCount DEF Fresh, IsInjective

\* Following the pointers visits the structures in the order of the calls.
LEMMA LinkOrder ==
  ASSUME Typed, Fresh, Pointers, NEW n \in Walk
  PROVE  Link[n] = At(n)
<1> DEFINE Bad == {k \in Walk : Link[k] # At(k)}
<1>1. SUFFICES ASSUME Bad # {}
               PROVE  FALSE
  OBVIOUS
<1>2. Bad \in SUBSET Nat
  BY StructCount DEF Walk
<1>3. PICK k \in Bad : \A j \in Bad : k <= j
  BY <1>1, <1>2, LeastNatural
<1>4. k # 0
  BY <1>3, LinkWalks DEF At
<1>5. k \in 1 .. Cardinality(Structs) + 1 /\ k - 1 \in Walk /\ ~(k <= k - 1)
      /\ k \in Nat /\ k - 1 \in Nat
  BY <1>3, <1>4, StructCount DEF Walk
<1>6. Link[k - 1] = At(k - 1)
  BY <1>3, <1>5
<1>7. Link[k] = IF At(k - 1) = Null THEN Null ELSE next[At(k - 1)]
  BY <1>5, <1>6, LinkWalks
<1>8. Len(chained) \in Nat /\ \A i \in 1 .. Len(chained) : chained[i] \in Structs
  BY FreshFits
<1>9. CASE k - 1 <= Len(chained)
  <2>1. At(k - 1) # Null
    BY <1>5, <1>8, <1>9, StructAssumption DEF At, Features, Null
  <2>2. next[At(k - 1)] = At(k - 1 + 1)
    BY <1>5, <1>8, <1>9 DEF Pointers
  <2>3. k - 1 + 1 = k
    BY <1>5
  <2> QED BY <1>3, <1>7, <2>1, <2>2, <2>3
<1>10. CASE ~(k - 1 <= Len(chained))
  <2>1. At(k - 1) = Null /\ At(k) = Null
    BY <1>5, <1>8, <1>10 DEF At
  <2> QED BY <1>3, <1>7, <2>1
<1> QED BY <1>9, <1>10

\* A walk that is over at the end was over for the first time somewhere.
LEMMA WalkEnds ==
  ASSUME Link[Cardinality(Structs) + 1] = Null
  PROVE  \E n \in 1 .. Cardinality(Structs) + 1 : Link[n - 1] # Null /\ Link[n] = Null
<1> DEFINE Ends == {n \in Walk : Link[n] = Null}
<1>1. Ends \in SUBSET Nat /\ Ends # {}
  BY StructCount DEF Walk
<1>2. PICK n \in Ends : \A m \in Ends : n <= m
  BY <1>1, LeastNatural
<1>3. n # 0
  BY <1>2, LinkWalks DEF Features, Null
<1>4. n \in 1 .. Cardinality(Structs) + 1 /\ n - 1 \in Walk /\ ~(n <= n - 1)
  BY <1>2, <1>3, StructCount DEF Walk
<1>5. Link[n - 1] # Null
  BY <1>2, <1>4
<1> QED BY <1>2, <1>4, <1>5

\* So the walk ends, right behind the last structure chained.
LEMMA ChainEnds ==
  ASSUME Typed, Fresh, Pointers
  PROVE  /\ ~Endless
         /\ ChainLength = Len(chained) + 1
         /\ LastLink = At(Len(chained))
<1> DEFINE L == Len(chained)
           K == Cardinality(Structs) + 1
<1>1. L \in Nat /\ L + 1 \in 1 .. K /\ K \in Nat
  BY FreshFits, StructCount
<1>2. \A n \in 0 .. K : Link[n] = At(n)
  BY LinkOrder DEF Walk
<1>3. \A n \in 0 .. K : At(n) = Null <=> n > L
  <2>1. \A i \in 1 .. L : chained[i] # Null
    BY FreshFits, StructAssumption
  <2> QED BY <1>1, <2>1 DEF At, Features, Null
<1>4. ~Endless
  BY <1>1, <1>2, <1>3 DEF Endless
<1>5. Link[L + 1 - 1] # Null /\ Link[L + 1] = Null
  BY <1>1, <1>2, <1>3
<1>6. ASSUME NEW n \in 1 .. K, Link[n - 1] # Null, Link[n] = Null
      PROVE  n = L + 1
  <2>1. n - 1 \in 0 .. K /\ n \in 0 .. K
    BY <1>1
  <2>2. ~(n - 1 > L) /\ n > L
    BY <1>2, <1>3, <1>6, <2>1
  <2> QED BY <1>1, <2>2
<1>7. ChainLength = L + 1
  BY <1>1, <1>5, <1>6 DEF ChainLength
<1>8. LastLink = At(L)
  BY <1>1, <1>2, <1>7 DEF LastLink
<1> QED BY <1>4, <1>7, <1>8

LEMMA ChainInit == Init => ChainInv
<1> SUFFICES ASSUME Init
             PROVE  ChainInv
  OBVIOUS
<1>1. chained = <<>> /\ stage = "instance"
      /\ next = [s \in Structs \cup {Features} |-> Null]
  BY DEF Init
<1> QED BY <1>1 DEF ChainInv, Created

\* chain_next hangs the structure behind the last one.
LEMMA ChainNextKeeps ==
  ASSUME Typed, ChainInv, NEW s \in Structs, ChainNext(s)
  PROVE  ChainInv'
<1>1. stage = "configure" /\ earlier' = earlier
  BY DEF ChainNext
<1>2. chained \in Seq(Structs)
      /\ next \in [Structs \cup {Features} -> Structs \cup {Null}]
  BY DEF Typed, TypeOK
<1>3. CASE Endless
  <2>1. UNCHANGED <<next, chained>> /\ stage' = "hung"
    BY <1>3 DEF ChainNext
  <2>2. ~Fresh
    BY <1>1, <1>3, ChainEnds DEF ChainInv
  <2>3. ~Fresh'
    BY <1>1, <2>1, <2>2 DEF Fresh
  <2> QED BY <1>1, <2>1, <2>3 DEF ChainInv
<1>4. CASE ~Endless
  <2>1. /\ next' = [next EXCEPT ![LastLink] = s]
        /\ chained' = Append(chained, s) /\ stage' = stage
    BY <1>4 DEF ChainNext
  <2>2. ToSet(chained') = ToSet(chained) \cup {s}
    BY <1>2, <2>1, AppendSet
  <2>3. \A x \in Structs \cup {Features} :
          next'[x] \in {Null} \cup ToSet(chained') \cup earlier'
    BY <1>1, <1>2, <2>1, <2>2 DEF ChainInv
  <2>4. ASSUME NEW x \in Structs \ (ToSet(chained') \cup earlier')
        PROVE  next'[x] = Null
    <3>1. next[x] = Null /\ x \notin ToSet(chained) \cup earlier /\ x \in Structs
      BY <1>1, <2>2 DEF ChainInv
    <3>2. CASE x = LastLink
      <4>1. ~(LastLink \in {Features, Null} \cup ToSet(chained) \cup earlier)
        BY <3>1, <3>2, StructAssumption
      <4>2. ChainLength - 1 \notin Walk
        BY <4>1, LinkType DEF LastLink
      <4>3. Link[Cardinality(Structs) + 1] = Null
        BY <1>4 DEF Endless
      <4>4. \E n \in 1 .. Cardinality(Structs) + 1 : Link[n - 1] # Null /\ Link[n] = Null
        BY <4>3, WalkEnds
      <4>5. ChainLength \in 1 .. Cardinality(Structs) + 1
        BY <4>4 DEF ChainLength
      <4> QED BY <4>2, <4>5, StructCount DEF Walk
    <3>3. CASE x # LastLink
      BY <1>2, <2>1, <3>1, <3>3
    <3> QED BY <3>2, <3>3
  <2>5. ASSUME Fresh'
        PROVE  Pointers'
    <3>0. PICK L \in Nat : L = Len(chained)
      BY <1>2, LenProperties
    <3>1. /\ L \in Nat
          /\ DOMAIN chained = 1 .. L /\ DOMAIN chained' = 1 .. L + 1
          /\ Len(chained') = L + 1
          /\ \A i \in 1 .. L : chained'[i] = chained[i]
          /\ chained'[L + 1] = s
      BY <1>2, <2>1, <3>0, AppendProperties, LenProperties
    <3>2. \A i, j \in 1 .. L + 1 : chained'[i] = chained'[j] => i = j
      BY <2>5, <3>1 DEF Fresh, IsInjective
    <3>3. Fresh
      <4>1. ToSet(chained) \cap earlier = {}
        BY <1>1, <2>2, <2>5 DEF Fresh
      <4>2. \A i, j \in DOMAIN chained : chained[i] = chained[j] => i = j
        BY <3>1, <3>2
      <4> QED BY <4>1, <4>2 DEF Fresh, IsInjective
    <3>4. Pointers /\ LastLink = At(L)
      BY <1>1, <3>0, <3>3, ChainEnds DEF ChainInv
    <3>5. s \notin ToSet(chained) /\ s \notin earlier
      <4>1. \A i \in 1 .. L : chained[i] # s
        BY <3>1, <3>2
      <4>2. s \in ToSet(chained')
        BY <2>2
      <4> QED BY <1>1, <2>5, <3>1, <4>1, <4>2 DEF Fresh, ToSet
    <3>6. next[s] = Null
      BY <3>5 DEF ChainInv
    <3>7. /\ \A i \in 1 .. L : chained[i] \in Structs
          /\ \A i, j \in 1 .. L : chained[i] = chained[j] => i = j
      BY <3>0, <3>3, FreshFits
    <3>8. \A n \in 0 .. L : At(n)' = At(n) /\ At(n) \in Structs \cup {Features}
      BY <3>0, <3>1, <3>7 DEF At
    <3>9. At(L + 1)' = s /\ At(L + 2)' = Null
      BY <3>1 DEF At
    <3>10. \A n \in 0 .. L : At(n) # s
      BY <3>0, <3>1, <3>5, StructAssumption DEF At, ToSet
    <3>11. ASSUME NEW n \in 0 .. L + 1
           PROVE  next'[At(n)'] = At(n + 1)'
      <4>1. CASE n = L + 1
        <5>1. next'[s] = Null
          BY <1>2, <2>1, <3>1, <3>4, <3>6, <3>10
        <5>2. n + 1 = L + 2
          BY <3>1, <4>1
        <5> QED BY <3>9, <4>1, <5>1, <5>2
      <4>2. CASE n = L
        <5>1. next'[At(L)] = s
          BY <1>2, <2>1, <3>1, <3>4, <3>8
        <5> QED BY <3>1, <3>8, <3>9, <4>2, <5>1
      <4>3. CASE n < L
        <5>1. n \in 0 .. L /\ n + 1 \in 0 .. L /\ L \in 0 .. L
          BY <3>1, <4>3
        <5>2. At(n) # At(L)
          BY <3>0, <3>1, <3>7, <4>3, StructAssumption DEF At
        <5>3. next'[At(n)] = next[At(n)]
          BY <1>2, <2>1, <3>4, <3>8, <5>1, <5>2
        <5>4. next[At(n)] = At(n + 1)
          BY <3>0, <3>4, <5>1 DEF Pointers
        <5> QED BY <3>8, <5>1, <5>3, <5>4
      <4> QED BY <3>1, <4>1, <4>2, <4>3
    <3> QED BY <3>1, <3>11 DEF Pointers
  <2> QED BY <1>1, <2>1, <2>3, <2>4, <2>5 DEF ChainInv, Created
<1> QED BY <1>3, <1>4

LEMMA ChainStep == Typed /\ ChainInv /\ [Next]_vars => ChainInv'
<1> SUFFICES ASSUME Typed, ChainInv, [Next]_vars
             PROVE  ChainInv'
  OBVIOUS
<1>1. ASSUME NEW s \in Structs, ChainNext(s)
      PROVE  ChainInv'
  BY <1>1, ChainNextKeeps
<1>2. CASE StartDevice
  <2>1. /\ stage = "device" /\ stage' = "configure" /\ chained = <<>>
        /\ UNCHANGED <<chained, earlier>>
        /\ next' = [next EXCEPT ![Features] = Null]
    BY <1>2 DEF StartDevice, ChainInv
  <2>2. next \in [Structs \cup {Features} -> Structs \cup {Null}]
    BY DEF Typed, TypeOK
  <2>3. /\ \A s \in Structs : next'[s] = next[s]
        /\ next'[Features] = Null
    BY <2>1, <2>2, StructAssumption
  <2>4. Len(chained) = 0
    BY <2>1
  <2>5. Pointers'
    BY <2>1, <2>3, <2>4 DEF Pointers, At
  <2> QED BY <2>1, <2>3, <2>5 DEF ChainInv
<1>3. CASE CreateDevice
  <2>1. stage = "create" /\ UNCHANGED <<next, chained, earlier>>
    BY <1>3 DEF CreateDevice, device
  <2>2. Fresh => Pointers /\ stage' # "hung"
    BY <1>3, <2>1, ChainEnds DEF CreateDevice, ChainInv
  <2>3. stage' \notin {"instance", "messenger", "pick", "feedback", "device"}
    BY <1>3 DEF CreateDevice
  <2> QED BY <2>1, <2>2, <2>3 DEF ChainInv, Fresh, Pointers, At
<1>4. CASE ConstructAgain
  <2>1. /\ chained' = <<>> /\ earlier' = earlier \cup ToSet(chained)
        /\ next' = next /\ stage' = "instance"
    BY <1>4 DEF ConstructAgain
  <2>2. ToSet(chained') = {}
    BY <2>1 DEF ToSet
  <2> QED BY <2>1, <2>2 DEF ChainInv, Created
<1>5. CASE \/ UNCHANGED vars \/ CreateInstance \/ CreateMessenger \/ ConsiderDevice
           \/ PickPhysicalDevice \/ QueryDefaultFeedback \/ ConfigureDone \/ OpenDrmNode \/ OpenFallback \/ Fail
           \/ \E e \in Extras \cup Required \cup {Budget} : AddExtension(e)
  <2>1. UNCHANGED <<next, chained, earlier>>
    BY <1>5 DEF vars, device, CreateInstance, CreateMessenger, ConsiderDevice,
       PickPhysicalDevice, QueryDefaultFeedback, ConfigureDone, OpenDrmNode, OpenFallback, Fail, AddExtension
  <2>2. /\ stage' \in {"instance", "messenger", "pick", "feedback", "device"} =>
             stage \in {"instance", "messenger", "pick", "feedback", "device"}
        /\ stage' \in Created \cup {"configure", "create", "hung"} =>
             stage \in Created \cup {"configure", "create", "hung"}
        /\ stage' = "hung" => stage = "hung"
    BY <1>5 DEF vars, CreateInstance, CreateMessenger, ConsiderDevice,
       PickPhysicalDevice, QueryDefaultFeedback, ConfigureDone, OpenDrmNode, OpenFallback, Open, Fail,
       AddExtension, Created
  <2> QED BY <2>1, <2>2 DEF ChainInv, Fresh, Pointers, At
<1> QED BY <1>1, <1>2, <1>3, <1>4, <1>5 DEF Next, Ended

LEMMA ChainOrdered == Typed /\ ChainInv => ChainInOrder
<1> SUFFICES ASSUME Typed, ChainInv,
                    stage \in Created \cup {"configure", "create", "hung"}, Fresh
             PROVE  ~Endless /\ stage # "hung" /\ Chain = <<Features>> \o chained
  BY DEF ChainInOrder, Fresh
<1> DEFINE L == Len(chained)
           All == Structs \cup {Features}
<1>1. Pointers /\ stage # "hung"
  BY DEF ChainInv
<1>2. ~Endless /\ ChainLength = L + 1
  BY <1>1, ChainEnds
<1>3. L \in 0 .. Cardinality(Structs) /\ \A i \in 1 .. L : chained[i] \in Structs
  BY FreshFits
<1>4. ASSUME NEW n \in 1 .. L + 1
      PROVE  Link[n - 1] = IF n = 1 THEN Features ELSE chained[n - 1]
  <2>1. n - 1 \in Walk /\ n - 1 \in 0 .. L
    BY <1>3, StructCount DEF Walk
  <2>2. Link[n - 1] = At(n - 1)
    BY <1>1, <2>1, LinkOrder
  <2> QED BY <1>3, <2>1, <2>2 DEF At
<1>5. Chain = [n \in 1 .. L + 1 |-> Link[n - 1]]
  BY <1>2 DEF Chain
<1> DEFINE whole == <<Features>> \o chained
<1>6. /\ whole \in Seq(All)
      /\ Len(whole) = 1 + L
      /\ \A i \in 1 .. 1 + L : whole[i] = IF i <= 1 THEN Features ELSE chained[i - 1]
  <2>1. <<Features>> \in Seq(All) /\ Len(<<Features>>) = 1 /\ <<Features>>[1] = Features
    OBVIOUS
  <2>2. chained \in Seq(All)
    BY SeqMonotonic DEF Typed, TypeOK
  <2>3. /\ whole \in Seq(All)
        /\ Len(whole) = Len(<<Features>>) + Len(chained)
        /\ \A i \in 1 .. Len(<<Features>>) + Len(chained) :
             whole[i] = IF i <= Len(<<Features>>) THEN <<Features>>[i]
                        ELSE chained[i - Len(<<Features>>)]
    BY <2>1, <2>2, ConcatProperties
  <2> HIDE DEF whole
  <2>4. ASSUME NEW i \in 1 .. 1 + L
        PROVE  whole[i] = IF i <= 1 THEN Features ELSE chained[i - 1]
    <3>1. CASE i = 1
      BY <1>3, <2>1, <2>3, <3>1
    <3>2. CASE i # 1
      BY <1>3, <2>1, <2>3, <3>2
    <3> QED BY <3>1, <3>2
  <2> QED BY <2>1, <2>3, <2>4
<1>7. /\ Chain \in Seq(All)
      /\ Len(Chain) = L + 1
      /\ \A i \in 1 .. L + 1 : Chain[i] = IF i = 1 THEN Features ELSE chained[i - 1]
  <2>1. \A i \in 1 .. L + 1 : Chain[i] = IF i = 1 THEN Features ELSE chained[i - 1]
    BY <1>4, <1>5
  <2>2. \A i \in 1 .. L + 1 : Chain[i] \in All
    BY <1>3, <2>1
  <2>3. L + 1 \in Nat /\ Chain \in [1 .. L + 1 -> All]
    BY <1>3, <1>5, <2>2
  <2>4. Chain \in Seq(All)
    BY <2>3, SeqDef
  <2>5. DOMAIN Chain = 1 .. Len(Chain) /\ Len(Chain) \in Nat
    BY <2>4, LenProperties
  <2> QED BY <2>1, <2>3, <2>4, <2>5
<1> HIDE DEF whole
<1>8. \A i \in 1 .. Len(Chain) : Chain[i] = whole[i]
  BY <1>3, <1>6, <1>7
<1>9. Len(Chain) = Len(whole)
  BY <1>3, <1>6, <1>7
<1>10. Chain = whole
  BY <1>6, <1>7, <1>8, <1>9, SeqEqual
<1> QED BY <1>1, <1>2, <1>10 DEF whole

\* While every structure is chained for the first time, vkCreateDevice's walk
\* ends and meets them in the order of the calls, for any number of structures.
THEOREM ChainSafety == Spec => []ChainInOrder
<1> QED BY ChainOrdered, ChainInit, ChainStep, TypeInit, TypeStep, PTL DEF Spec

============================================================================
