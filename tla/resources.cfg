SPECIFICATION Spec
CONSTANTS
  BufferCount = 2
  MaxBuilds = 3
  MaxFeedback = 2
INVARIANTS
  TypeOK
  OwnedOnce
  ReleasedOnce
  ParentsOutlive
  TeardownComplete
