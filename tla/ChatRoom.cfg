SPECIFICATION FairSpec
CONSTANTS
  a = a
  b = b
  ch1 = ch1
  None = None
  Conns = {a, b}
  Channels = {ch1}
  ChannelOf <- SameChannel
  SlowPeers = {a}
  Leavers = {b}
  MaxMsgs <- ATwiceBOnce
  MaxPings <- OnlyA
INVARIANTS
  TypeOK
  RegistryIsClean
  ServedIsRegistered
  FramesNotTorn
PROPERTIES
  BroadcastReachesLive
  ImplementsDelivery
  BroadcastEnds
  VanishedIsReaped
