\* Two universes that feed each other, and a node that knows its address.
SPECIFICATION Spec
CONSTANTS
  desk = desk
  stage = stage
  ArtnetUniverse = 0
  MergeInputs <- EachOther
  OwnIP = own
  LocalIP = own
  Consoles <- TwoConsoles
  SeqBytes = 4
  ReceivedCap = 2
  SocketMax = 3
INVARIANTS
  TypeOK
  NeverMergesItself
  OwnUniversesKnown
  SequenceTellsApart
