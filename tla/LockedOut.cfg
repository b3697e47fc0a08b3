SPECIFICATION Spec
CONSTANTS
  MaxConnections = 2
  MaxFrames = 1
  Users = {u1}
  Passcodes = {p1}
  Channels = {}
  SubIds = {}
  CachedIds = {}
  None = None
  Frames <- LoginFrames
PROPERTY RefusedOnlyIfConnectedElsewhere
