\* Two listeners, three connections, perhaps of one client, and three packets.
SPECIFICATION Spec
CONSTANTS
  NPaths = 2
  MaxConns = 3
  MaxPackets = 3
  MaxRetries = 0
  Events = {"end"}
INVARIANTS
  TypeOK
  PathsServed
  HealthyPathsServe
PROPERTIES
  RoundRobin
  ForwardsAtMostOnce
