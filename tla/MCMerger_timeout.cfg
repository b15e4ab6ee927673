\* Two universes, an unmapped source, channels that are full most of the time and
\* consumers that may stop receiving: every step of two forwarders and the ticker.
SPECIFICATION FairSpec
CONSTANTS
  l = l
  a = a
  b = b
  x = x
  u1 = u1
  u2 = u2
  usb = usb
  net = net
  Ticker = ticker
  None = none
  MaxChannels = 2
  MaxLevel = 1
  SourceID = {l, b, x}
  Source = {l, b}
  Universe = {u1, u2}
  outputUni <- Separate
  Updater = {usb, net}
  feeds <- AllFeeds
  Frames <- OneFrame
  Timeout = 1
  OutputCap = 1
  EventsCap = 1
INVARIANTS
  TypeOK
  SendHasRoom
  IInv
PROPERTIES
  ExpiryNeedsSilence
  ImplementsService
  UpdateReturns
  SilentSourceExpires
