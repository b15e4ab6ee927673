\* A source with full packets of any start code: inferred breaks that are missed and
\* made up anywhere, errors, and a forwarder that goes on receiving.
SPECIFICATION LiveSpec
CONSTANTS
  MaxChannels = 3
  Byte = {0, 1}
  InferBreaks = TRUE
  VoteWindow = 2
  FramesCap = 1
  Lengths = {3}
  Packets <- AnyPacket
  Noisy = TRUE
INVARIANTS
  TypeOK
PROPERTIES
  PublishedIsPacket
  LengthKeepsStep
  KeepsPublishing
\* Run returns when the port fails or the program ends: nothing moves then.
CHECK_DEADLOCK FALSE
