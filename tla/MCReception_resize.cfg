\* The source changes from three channels to one: the lock stays on three.
SPECIFICATION LiveSpec
CONSTANTS
  MaxChannels = 3
  Byte = {0, 1}
  InferBreaks = TRUE
  VoteWindow = 2
  FramesCap = 1
  Lengths = {1, 3}
  Packets <- DmxPacket
  Noisy = FALSE
PROPERTIES
  StaleLockReleased
\* Run returns when the port fails or the program ends: nothing moves then.
CHECK_DEADLOCK FALSE
