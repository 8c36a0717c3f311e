\* One path, one redial, one packet: cancellation at any moment, every failure.
SPECIFICATION FairSpec
CONSTANTS
  NPaths = 1
  MaxStreams = 2
  MaxPackets = 1
  MaxRetries = 1
  Events = {"interrupt", "end", "inbound", "device error"}
INVARIANTS
  ErrorReportsFit
PROPERTIES
  ShutdownCompletes
CHECK_DEADLOCK FALSE
