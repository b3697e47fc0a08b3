SPECIFICATION FairSpec
CONSTANTS
  MaxConnections = 2
  MaxFrames = 1
  Kinds = {"request", "SEND", "DISCONNECT", "refused", "malformed"}
  None = None
INVARIANT BuffersExclusive
INVARIANT NoForgottenReply
PROPERTY RepliesWritten
