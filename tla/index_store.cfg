SPECIFICATION Spec
CONSTANTS
  w1 = w1
  w2 = w2
  r1 = r1
  r2 = r2
  Nil = Nil
  Writers = {w1, w2}
  Readers = {r1, r2}
  Repairing = {r1}
  Mismatched = {r2}
  Retention = 1
  MaxSaves = 3
INVARIANTS TypeOK ActiveComplete CoherentLoad RetentionMargin
PROPERTY ImplementsSnapshot
