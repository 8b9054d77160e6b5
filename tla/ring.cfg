SPECIFICATION HiddenSpec
CONSTANTS
  BufferCount = 2
  Sizes = {1, 2}
  MaxPoint = 3
  MaxConfigures = 2
  CollectStats = FALSE
  SkipAllowed = FALSE
  ReleaseWaitsAcquire = TRUE
  Times = {1}
  Refreshes = {0}
  MayFail = FALSE
INVARIANTS
  TypeOK
  HandedFrameIdle
  NoFrameAfterClose
  CommitsSentWhenLent
  ScanoutImageAlive
  ResizeNotForgotten
  RetiredBound
PROPERTIES
  CloseEndsLoop
  ShownReturns
