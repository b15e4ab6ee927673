\* A first start or an edited file, both displays, and every way to end.
SPECIFICATION LiveSpec
CONSTANTS
  Malformed = Malformed
  BreakDetectSupported = TRUE
  Files <- FirstStart
  Flags <- NoFlags
  Ports = {"port"}
  FirstWarning = 2
  NextWarning = 3
  Rate <- RateOf
  FramesCap = 2
  ReceivedCap = 1
  OutputCap = 2
  ElapsedMax = 2
  Part = 2
  Patience = 1
INVARIANTS
  TypeOK
  FileMeansSettings
  SilenceIsReported
  ErrorIsReal
PROPERTIES
  StatusRecovers
  InterruptEnds
\* The program may have ended for good.
CHECK_DEADLOCK FALSE
