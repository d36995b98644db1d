SPECIFICATION MCSpec
CONSTANTS
  k1 = k1
  p1 = p1
  p2 = p2
  Server = Server
  Nil = Nil
  Polls = {k1}
  Reindexers = {p1, p2}
  Builds = {"esm", "commonjs"}
  MaxTouches = 2
  Remote = {p2}
  MaxKills = 1
  MaxStarts = 1
INVARIANTS TypeOK RunStateReleased RefreshPerTouch
PROPERTIES StopDrains TouchesAreServed
CHECK_DEADLOCK FALSE
