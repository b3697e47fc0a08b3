SPECIFICATION Spec
CONSTANTS
  MaxConnections = 2
  MaxFrames = 1
  Users = {}
  Passcodes = {}
  Channels = {ch1}
  SubIds = {1}
  CachedIds = {1}
  None = None
  Frames <- VisitFrames
INVARIANT ReceiptedSubscriptionStands
