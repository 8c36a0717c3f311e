\* One path, two redials, two packets: the Forwarder's promise and the redials.
SPECIFICATION ForwardSpec
CONSTANTS
  NPaths = 1
  MaxStreams = 3
  MaxPackets = 2
  MaxRetries = 0
  Events = {"end"}
PROPERTIES
  ForwardsAtMostOnce
  MissingPathReturns
