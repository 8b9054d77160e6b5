SPECIFICATION Spec
CONSTANTS
  Entries <- MCFewEntries
  Unlisted <- MCUnlisted
  Indices <- MCIndices
  MaxTable = 2
  MaxBatches = 2
  MaxTranches = 2
INVARIANT
  OffersInPriorityOrder
