SPECIFICATION FairSpec
CONSTANTS
  BufferCount = 2
  Sizes = {1, 2}
  MaxPoint = 2
  MaxConfigures = 0
  CollectStats = FALSE
  SkipAllowed = TRUE
  ReleaseWaitsAcquire = TRUE
  Times = {1}
  Refreshes = {0}
  MayFail = FALSE
PROPERTY
  WaitFrameReturns
