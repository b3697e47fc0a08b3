SPECIFICATION Spec
CONSTANTS
  MaxConnections = 1
  MaxFrames = 1
  Kinds = {"request", "refused"}
  None = None
INVARIANT SelectorSurvives
