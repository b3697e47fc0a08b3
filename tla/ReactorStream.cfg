SPECIFICATION FairSpec
CONSTANTS
  MaxConnections = 1
  MaxFrames = 2
  Kinds = {"DISCONNECT", "refused"}
  None = None
INVARIANT TypeOK
INVARIANT FramesIntact
PROPERTY LogoutCloses
