SPECIFICATION Spec
CONSTANTS
  MaxConnections = 1
  MaxFrames = 2
  Users = {}
  Passcodes = {}
  Channels = {ch1}
  SubIds = {1}
  CachedIds = {1}
  None = None
  Frames <- VisitFrames
INVARIANT LogoutDropsSubscriptions
