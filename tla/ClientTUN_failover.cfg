\* Two paths, one redial, two packets: streams break and end under the sender.
SPECIFICATION Spec
CONSTANTS
  NPaths = 2
  MaxStreams = 3
  MaxPackets = 2
  MaxRetries = 0
  Events = {"end"}
INVARIANTS
  TypeOK
  UniquePaths
  ActivePathsWatched
  NoStreamLeaked
PROPERTIES
  OnlyBrokenPathsRemoved
  NoDropWithLivePath
