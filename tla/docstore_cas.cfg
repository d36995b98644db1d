SPECIFICATION Spec
CONSTANTS
  m1 = m1
  m2 = m2
  c1 = c1
  c2 = c2
  Nil = Nil
  Torn = Torn
  Models = {m1, m2}
  Contents = {c1, c2}
  MaxFiles = 3
  Retention = 0
  MaxSaves = 3
  FailOpen = TRUE
INVARIANTS TypeOK EntriesWhole EntryAwaitsLink SharedIsEntry
PROPERTY ImplementsPrivate
SYMMETRY Symmetry
CHECK_DEADLOCK FALSE
