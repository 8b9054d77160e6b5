--------------------------- MODULE MC_DeviceSetup ---------------------------
(* Devices with and without what the library needs, one or two queue        *)
(* families in either order, DRM devices with one node or both.             *)
EXTENDS DeviceSetup

CONSTANTS MemoryFd, Modifier, Extra, First, Second

MCRequired == {MemoryFd, Modifier}

MCDeviceKinds ==
  {[extensions |-> MCRequired \cup {Extra}, families |-> <<{"present"}, {"graphics"}>>],
   [extensions |-> MCRequired \cup {Budget}, families |-> <<{"graphics", "present"}>>],
   [extensions |-> {MemoryFd, Budget}, families |-> <<{"graphics", "present"}>>],
   [extensions |-> MCRequired, families |-> <<{"graphics"}, {}>>]}

\* Every instance that differs in its messenger, and a policy for a plain one.
MCConfigs ==
  {c \in Config :
     /\ c.enable_validation => ~c.extra_debug_utils /\ ~c.extra_layers
     /\ c.extra_debug_utils => c.extra_layers
     /\ c.select_device => ~c.enable_validation /\ ~c.extra_layers}

MCNodeKinds == {{"primary"}, {"primary", "render"}}

MCSymmetry == Permutations({First, Second})

=============================================================================
