\* The last frame of a silent source is still on the network for ever when the
\* Output channel, at its real capacity, is full as the source expires.
SPECIFICATION LiveSpec
CONSTANTS
  l = l
  a = a
  b = b
  x = x
  u1 = u1
  u2 = u2
  usb = usb
  net = net
  Ticker = ticker
  None = none
  MaxChannels = 2
  MaxLevel = 1
  SourceID = {l}
  Source = {l}
  Universe = {u1}
  outputUni <- OneUniverse
  Updater = {usb}
  feeds <- AllFeeds
  Frames <- OneFrame
  Timeout = 1
  OutputCap = 4
  EventsCap = 8
PROPERTIES
  SilentUniverseGoesDark
