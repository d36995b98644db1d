SPECIFICATION Spec
CONSTANTS
  k1 = k1
  p1 = p1
  p2 = p2
  Server = Server
  Nil = Nil
  Polls = {k1}
  Reindexers = {p1}
  Builds = {"esm"}
  MaxTouches = 2
  Remote = {}
  MaxKills = 1
  MaxStarts = 1
PROPERTY DefersToReindex
CHECK_DEADLOCK FALSE
