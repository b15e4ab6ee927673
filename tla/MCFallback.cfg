\* Lit and dark scenes, full packets and short ones; reads of two packets less two
\* slots, a damaged slot or a stall anywhere.
SPECIFICATION LiveSpec
CONSTANTS
  MaxChannels = 2
  Byte = {0, 1, 2, 3}
  InferBreaks = FALSE
  Packets <- AllPackets
  Sources <- Scenes
  FramesCap = 1
  ChunkMax = 4
  FaultsMax = 1
INVARIANTS
  TypeOK
PROPERTIES
  PublishesPackets
  HoldsSync
  KeepsStep
  PublishesInStep
  KeepsPublishing
\* Run returns when the port fails or the program ends: nothing moves then.
CHECK_DEADLOCK FALSE
