\* Two paths, frames of a header and two pieces, streams with room for one.
SPECIFICATION Spec
CONSTANTS
  NPaths = 2
  MaxStreams = 2
  MaxPackets <- MCPackets
  Parts = 2
  Window = 1
INVARIANTS
  TypeOK
  FramesIntact
PROPERTIES
  CarriesPackets
  NobodyStalls
CHECK_DEADLOCK FALSE
