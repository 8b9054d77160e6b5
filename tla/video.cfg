SPECIFICATION FairSpec
CONSTANTS
  BufferCount = 3
  CodecDelay = 2
  MayFail = TRUE
  MaxPackets = 6
  MaxResizes = 2
INVARIANTS
  TypeOK
  DrawsOwnPicture
  PendingWorkSound
  EveryPictureOnce
PROPERTY
  PlaybackEnds
