SPECIFICATION FairSpec
CONSTANTS
  MaxConnections = 2
  MaxFrames = 2
  Users = {u1}
  Passcodes = {p1, p2}
  Channels = {ch1}
  SubIds = {1}
  CachedIds = {1}
  None = None
  Frames <- AllFrames
INVARIANT TypeOK
INVARIANT CleanLogout
PROPERTY SessionsImplemented
PROPERTY RequestsComplete
PROPERTY SessionEnds
