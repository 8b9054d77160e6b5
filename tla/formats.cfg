SPECIFICATION Spec
CONSTANTS
  Entries <- MCEntries
  Unlisted <- MCUnlisted
  Indices <- MCIndices
  MaxTable = 2
  MaxBatches = 1
  MaxTranches = 2
INVARIANTS
  TypeOK
  OffersInPriorityOrder
  DefaultChoice
  FailsOnlyIfNone
  ChosenAnnounced
