SPECIFICATION PlatformSpec
CONSTANTS
  MaxConnections = 2
  MaxFrames = 8
  Users = {u1}
  Passcodes = {p1}
  Channels = {ch1}
  SubIds = {0, 1, 2, 3, 4}
  CachedIds = {0, 1}
  None = None
  Frames <- ClientFrames
  Files <- SomeFiles
  Lines <- SomeLines
  MaxLines = 4
INVARIANT PlatformTypeOK
INVARIANT ReceiptsMatch
INVARIANT SubscriptionsAgree
INVARIANT OnlyLoginsRefused
INVARIANT LogoutIsLast
INVARIANT OwnReportsStored
