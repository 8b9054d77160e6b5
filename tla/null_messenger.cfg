SPECIFICATION Spec
CONSTANTS
  MemoryFd = MemoryFd
  Modifier = Modifier
  Extra = Extra
  First = First
  Second = Second
  Budget = Budget
  Required <- MCRequired
  Configs <- MCConfigs
  Extras = {Extra}
  Structs = {First, Second}
  DeviceKinds <- MCDeviceKinds
  NodeKinds <- MCNodeKinds
  MaxDevices = 2
  MaxCalls = 2
  MaxWindows = 2
INVARIANT
  ConstructorThrows
