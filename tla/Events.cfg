SPECIFICATION EventSpec
CONSTANTS
  Clients = {"alice", "bob"}
  Channel = "police"
  Events <- SomeEvents
  Values <- SomeValues
  Time <- Times
  Place <- Places
  MaxReports = 2
INVARIANT EventsTypeOK
INVARIANT FramesReadable
INVARIANT ReportsIntact
INVARIANT FatalReportsEnd
PROPERTY SummaryExact
