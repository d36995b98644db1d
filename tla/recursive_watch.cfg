SPECIFICATION FairSpec
CONSTANTS
  Depth = 2
  Inodes = {1, 2, 3}
  RootInode = 0
  MaxChanges = 3
  Nil = Nil
INVARIANTS TypeOK WatchesFollowTree
PROPERTIES StopReleases WritesAreServed
CHECK_DEADLOCK FALSE
