SPECIFICATION Spec
CONSTANTS
  BufferCount = 2
  Sizes = {1, 2}
  MaxPoint = 1
  MaxConfigures = 0
  CollectStats = FALSE
  SkipAllowed = FALSE
  ReleaseWaitsAcquire = TRUE
  Times = {1}
  Refreshes = {0}
  MayFail = FALSE
INVARIANT
  FalseOnceClosed
