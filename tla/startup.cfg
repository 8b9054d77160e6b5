SPECIFICATION FairSpec
CONSTANTS
  Sizes = {1, 2}
  DefaultSize = 1
  PreferDecoration = FALSE
  MaxGlobals = 5
  MaxConfigures = 2
INVARIANTS
  TypeOK
  HandsOverWindow
  ReadyComplete
PROPERTY
  StartupEnds
