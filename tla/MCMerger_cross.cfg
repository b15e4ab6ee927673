\* Two universes on one Output channel, at its real capacity, and sources that
\* never expire.
SPECIFICATION Spec
CONSTANTS
  l = l
  a = a
  b = b
  x = x
  u1 = u1
  u2 = u2
  usb = usb
  net = net
  Ticker = ticker
  None = none
  MaxChannels = 2
  MaxLevel = 1
  SourceID = {l, b}
  Source = {l, b}
  Universe = {u1, u2}
  outputUni <- Separate
  Updater = {usb, net}
  feeds <- AllFeeds
  Frames <- OneFrame
  Timeout = 0
  OutputCap = 4
  EventsCap = 8
INVARIANTS
  Fresh
