SPECIFICATION Spec
CONSTANTS
  BufferCount = 2
  Sizes = {1, 2}
  MaxPoint = 2
  MaxConfigures = 1
  CollectStats = FALSE
  SkipAllowed = TRUE
  ReleaseWaitsAcquire = FALSE
  Times = {1}
  Refreshes = {0}
  MayFail = TRUE
INVARIANTS
  Inv
  CallbackConserved
PROPERTY
  PoolSpec
