SPECIFICATION Spec
CONSTANTS
  BufferCount = 1
  Sizes = {1, 2}
  MaxPoint = 3
  MaxConfigures = 1
  CollectStats = TRUE
  SkipAllowed = FALSE
  ReleaseWaitsAcquire = TRUE
  MayFail = FALSE
  Times = {1, 5, 6}
  Refreshes = {0, 3}
INVARIANTS
  NoDanglingFeedback
  StatsAccounted
  TimingExact
