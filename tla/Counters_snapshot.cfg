\* Is a snapshot a point-in-time copy?
SPECIFICATION Spec
CONSTANTS
  Writers = {w1, w2}
  Readers = {r1}
  Sizes <- MCSizes
  MaxOps = 2
  Modulus = 16
INVARIANTS
  SnapshotIsPointInTime
