\* Events at any time, before and after the driver is asked for them.
SPECIFICATION Spec
CONSTANTS
  MaxChannels = 2
  Byte = {0, 1}
  InferBreaks = FALSE
  VoteWindow = 1
  FramesCap = 1
  BufSize = 3
  QueueMax = 3
  SlotsMax = 4
  Packets = {}
INVARIANTS
  TypeOK
PROPERTIES
  TimelyIsPublished
\* Run returns when the port fails: nothing moves then.
CHECK_DEADLOCK FALSE
