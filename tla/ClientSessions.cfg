SPECIFICATION FairPlatform
CONSTANTS
  MaxConnections = 2
  MaxFrames = 8
  Users = {u1}
  Passcodes = {p1}
  Channels = {ch1}
  SubIds = {0, 1, 2, 3}
  CachedIds = {}
  None = None
  Frames <- ClientFrames
  Files <- SomeFiles
  Lines <- SomeLines
  MaxLines = 3
INVARIANT OnlyLoginsRefused
PROPERTY LogoutReturns
PROPERTY LostSessionReturns
PROPERTY ServerImplemented
