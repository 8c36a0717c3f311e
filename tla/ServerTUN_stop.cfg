\* Two listeners, one connection, one packet: every error, and cancellation.
SPECIFICATION FairSpec
CONSTANTS
  NPaths = 2
  MaxConns = 1
  MaxPackets = 1
  MaxRetries = 1
  Events = {"interrupt", "end", "inbound", "device error", "listener error"}
INVARIANTS
  NoReportBlocks
PROPERTIES
  ServerStops
  StalePathLeaves
CHECK_DEADLOCK FALSE
