SPECIFICATION FairSpec
CONSTANTS
  s1 = s1
  c1 = c1
  c2 = c2
  k1 = k1
  f1 = f1
  f2 = f2
  a = a
  ab = ab
  b = b
  empty = empty
  Nil = Nil
  Managers = {s1}
  Warm = {s1}
  Models = {k1}
  ModelOf <- MCOneModel
  Files = {f1, f2}
  Scopes <- MCGlobal
  Contents = {a, ab, b, empty}
  ChunksOf <- MCChunksOf
  InitialFiles <- MCTwoFiles
  Quiesce = {s1}
  Forcing = {}
  Faults = {"load", "complete", "freshness", "corrupt"}
  Restores = FALSE
  MaxEdits = 2
  MaxFaults = 1
  MaxCrashes = 1
INVARIANTS TypeOK NoFalseUnchanged
PROPERTIES CommitsAreJournaled Converges
