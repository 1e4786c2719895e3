SPECIFICATION Spec
CONSTANTS
  a = a
  b = b
  ch1 = ch1
  None = None
  Conns = {a, b}
  Channels = {ch1}
  ChannelOf <- SameChannel
  SlowPeers = {}
  Leavers = {}
  MaxMsgs <- AAndB
  MaxPings <- OnlyA
INVARIANT
  FramesWhole
