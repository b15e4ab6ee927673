\* Sources that never expire and share a universe, and consumers that go on
\* receiving.  The Events channel has room for one event of each source.
SPECIFICATION LiveSpec
CONSTANTS
  l = l
  a = a
  b = b
  x = x
  u1 = u1
  u2 = u2
  usb = usb
  net = net
  Ticker = ticker
  None = none
  MaxChannels = 2
  MaxLevel = 1
  SourceID = {l, a}
  Source = {l, a}
  Universe = {u1}
  outputUni <- OneUniverse
  Updater = {usb, net}
  feeds <- AllFeeds
  Frames <- ThreeFrames
  Timeout = 0
  OutputCap = 2
  EventsCap = 2
INVARIANTS
  Fresh
  StatusTruthful
PROPERTIES
  Settles
