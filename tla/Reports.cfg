SPECIFICATION Spec
CONSTANTS
  MaxConnections = 2
  MaxFrames = 3
  Users = {}
  Passcodes = {}
  Channels = {ch1}
  SubIds = {1}
  CachedIds = {1}
  None = None
  Frames <- ChannelFrames
INVARIANT SenderOrder
INVARIANT BroadcastReachesSubscribers
INVARIANT DeliveredOnlyToSubscribers
