\* Two channels of two levels, three sources in any order.
SPECIFICATION Spec
CONSTANTS
  MaxChannels = 2
  MaxLevel = 1
  Source = {1, 2, 3}
  outputUni <- MC_outputUni
  outputUniverse = "merged"
INVARIANTS
  TypeOK
  PartialMerge
  ReturnsHighest
