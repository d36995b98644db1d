------------------------ MODULE RecursiveWatchProps -------------------------
(* Properties of RecursiveWatch.                                           *)
EXTENDS RecursiveWatch

\* Every variable stays in its type: the tree, the map of watches, the
\* discoveries and the refresh of the knowledge base.
TypeOK ==
  /\ inode \in [Path -> Inodes \cup {RootInode, Nil}]
  /\ file \subseteq Path
  /\ watches \in [Path -> Watch \cup {Nil}]
  /\ events \subseteq Path
  /\ DOMAIN tasks \subseteq Task /\ tasks \in [DOMAIN tasks -> Nat \ {0}]
  /\ DOMAIN answers \subseteq Answer /\ answers \in [DOMAIN answers -> Nat \ {0}]
  /\ timers \subseteq Path
  /\ run \in {"none", "running"}
  /\ pending \in BOOLEAN
  /\ phase \in {"new", "starting", "up", "stopped"}
  /\ dirty \subseteq Path
  /\ misled \subseteq Path
  /\ changes \in 0 .. MaxChanges

\* No discovery waits for anything.
Settled == phase = "up" /\ events = {} /\ tasks = None /\ answers = None

\* The two ways in which a directory is left without a watch that hears it: an
\* answer of lstat that was out of date closed the watch and nothing has asked
\* since (closeDirectoryTree in discoverNewDirectory), or the directory was
\* made again under the number of the one its dead watch belonged to
\* (watchDirectory).
Lost(d) ==
  /\ inode[d] # Nil
  /\ \/ d \in misled
     \/ watches[d] # Nil /\ ~watches[d].live /\ watches[d].ino = inode[d]

Tracked(d) == IF inode[d] = Nil THEN watches[d] = Nil ELSE Hears(d) \/ Lost(d)

\* When the watcher has caught up, its map is the tree wherever it listens: in
\* a directory that is heard each subdirectory is heard too and no handle is
\* kept for one that is gone, however directories were removed and made again
\* between an event, its lstat, the answer and the attachment, in whatever
\* order answers come (discoverNewDirectory, watchDirectory); what is lost is
\* lost in one of the two ways of Lost.
WatchesFollowTree ==
  Settled => \A d \in Path : d = 0 \/ Hears(d - 1) => Tracked(d)

\* After stop() no watch is held and no timer is armed, although discoveries
\* that began before it still get their answers, and no refresh starts.
StopReleases ==
  /\ [](phase = "stopped" => timers = {} /\ \A d \in Path : watches[d] = Nil)
  /\ [][phase = "stopped" /\ run = "none" => run' = "none"]_vars

\* A file written while the watcher is up is followed by a refresh that
\* starts after the write, unless its directory is removed, the watcher is
\* stopped, or its directory or one above it stays lost for good: also one
\* written into a directory that is not watched yet, or during a refresh.
WritesAreServed ==
  \A d \in Path :
    d \in dirty ~> (d \notin dirty \/ phase = "stopped" \/ [](\E c \in 0 .. d : Lost(c)))

\* The header of recursive-fs-watch.ts: subdirectories made after the start
\* get watches, since a per-directory watch does not follow them.  So, once the
\* watcher has caught up, each subdirectory of a directory that is heard has an
\* entry in directoryWatches.
NewDirectoriesGetWatches ==
  Settled => \A d \in Path \ {0} : inode[d] # Nil /\ Hears(d - 1) => watches[d] # Nil

\* The comment on directoryWatches: the identity of a directory prevents that
\* a replacement keeps the watch of an old inode.  So, once the watcher has
\* caught up, an entry below a directory that is heard belongs to the
\* directory that is there.
ReplacementIsHeard ==
  Settled => \A d \in Path \ {0} : watches[d] # Nil /\ Hears(d - 1) => Hears(d)
=============================================================================
