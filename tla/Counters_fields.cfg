\* Two goroutines count while a third takes snapshots.
SPECIFICATION Spec
CONSTANTS
  Writers = {w1, w2}
  Readers = {r1}
  Sizes <- MCSizes
  MaxOps = 2
  Modulus = 16
INVARIANTS
  SnapshotFieldsReal
