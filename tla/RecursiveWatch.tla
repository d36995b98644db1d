--------------------------- MODULE RecursiveWatch ---------------------------
(***************************************************************************)
(* RecursiveKbWatcher (src/recursive-fs-watch.ts) over one knowledge base, *)
(* in the per-directory mode that Linux uses: one watch per directory,     *)
(* attached when an event of the parent directory names it.                *)
(*                                                                         *)
(* The tree is a chain of directories: path 0 is the root of the knowledge *)
(* base, path d + 1 the subdirectory of path d; each may hold one file     *)
(* that the ingest filter accepts.  Directories are made, removed with     *)
(* what is below them, and made again, beside the watcher.  A watch        *)
(* belongs to an inode: it is deaf once the directory it was attached to   *)
(* is gone, whatever the map of the watcher says.  A new directory may get *)
(* any number that no directory has, one just freed included.              *)
(*                                                                         *)
(* A discovery awaits lstat, which a pool of threads serves: answers are   *)
(* continued in any order, however the disk was read, and directories may  *)
(* have changed in between.  From the answer to the attached watch nothing *)
(* is awaited.  Discoveries and answers are bags, since two of one kind    *)
(* are two.  Events are a set: the handler reads the disk afresh, so that  *)
(* several waiting events of one directory are one.  A file event arms the *)
(* debounce timer at once.  A change counts until the next refresh of the  *)
(* knowledge base starts; deletions of files are not followed.             *)
(***************************************************************************)
EXTENDS Integers, BagsExt

CONSTANTS
  Depth,       \* the deepest path; the paths are 0 .. Depth
  Inodes,      \* inode numbers of the directories below the root
  RootInode,   \* that of the root, which is never removed
  MaxChanges,  \* bound: directories made or removed, files written
  Nil          \* no directory, no watch

ASSUME WatchAssumption ==
  /\ Depth \in Nat
  /\ MaxChanges \in Nat
  /\ Inodes \subseteq Nat
  /\ Nil \notin Inodes \cup {RootInode}
  /\ Nil \notin [ino : Inodes \cup {RootInode}, live : BOOLEAN]
  /\ RootInode \notin Inodes

VARIABLES
  inode,    \* [Path -> number of the directory there, or Nil]
  file,     \* paths whose directory holds the file
  watches,  \* directoryWatches: [Path -> [ino, live], or Nil]
  events,   \* paths named by directory events that wait for their handler
  tasks,    \* bag of the discoveries that wait for lstat or readdir
  answers,  \* bag of the answers of lstat that wait for their continuation
  timers,   \* paths whose debounce timer is armed
  run,      \* "none", or "running" while onChange is in flight
  pending,  \* the single-slot flag
  phase     \* "new", "starting", "up" or "stopped"

\* Observations that only the properties read.
VARIABLES
  dirty,    \* files written, while up, since the last refresh started
  misled,   \* directories whose watch was closed by an outdated answer
  changes   \* changes of the tree so far

disk == <<inode, file>>
refresh == <<run, pending>>
vars == <<inode, file, watches, events, tasks, answers, timers, run, pending, phase, dirty, misled, changes>>

Path == 0 .. Depth
Watch == [ino : Inodes \cup {RootInode}, live : BOOLEAN]
Task == [path : Path, pc : {"lstat", "list"}, emit : BOOLEAN]
Answer == [path : Path, emit : BOOLEAN, ino : Inodes \cup {RootInode, Nil}]
None == [x \in {} |-> 1]  \* the empty bag

\* The watch at path d hears what happens in its directory.
Hears(d) == watches[d] # Nil /\ watches[d].live

-----------------------------------------------------------------------------
(* The tree changes                                                        *)

Change == changes < MaxChanges /\ changes' = changes + 1

FreeInodes == Inodes \ {inode[d] : d \in Path}

MakeDir(d) ==
  /\ Change
  /\ d > 0
  /\ inode[d] = Nil /\ inode[d - 1] # Nil
  /\ \E i \in FreeInodes : inode' = [inode EXCEPT ![d] = i]
  /\ events' = IF Hears(d - 1) THEN events \cup {d} ELSE events
  /\ UNCHANGED <<file, watches, tasks, answers, timers, refresh, phase, dirty, misled>>

\* rm -r: the kernel drops the watches of the directories that go.
RemoveDir(d) ==
  /\ Change
  /\ d > 0
  /\ inode[d] # Nil
  /\ inode' = [c \in Path |-> IF c >= d THEN Nil ELSE inode[c]]
  /\ file' = {c \in file : c < d}
  /\ dirty' = {c \in dirty : c < d}
  /\ misled' = {c \in misled : c < d}
  /\ watches' = [c \in Path |-> IF c >= d /\ watches[c] # Nil
                                  THEN [watches[c] EXCEPT !.live = FALSE] ELSE watches[c]]
  /\ events' = events \cup {c \in d .. Depth : inode[c] # Nil /\ Hears(c - 1)}
  /\ UNCHANGED <<tasks, answers, timers, refresh, phase>>

\* A write is an event of the watched directory, and arms its timer.
WriteFile(d) ==
  /\ Change
  /\ inode[d] # Nil
  /\ file' = file \cup {d}
  /\ dirty' = IF phase = "up" THEN dirty \cup {d} ELSE dirty
  /\ timers' = IF Hears(d) /\ phase # "stopped" THEN timers \cup {d} ELSE timers
  /\ UNCHANGED <<inode, watches, events, tasks, answers, refresh, phase, misled>>

-----------------------------------------------------------------------------
(* Discovery                                                               *)

\* closeDirectoryTree.
Closed(w, d) == [c \in Path |-> IF c >= d THEN Nil ELSE w[c]]

\* start() attaches to what exists and reports none of it.
Start ==
  /\ phase = "new"
  /\ phase' = "starting"
  /\ tasks' = BagAdd(tasks, [path |-> 0, pc |-> "lstat", emit |-> FALSE])
  /\ UNCHANGED <<disk, watches, events, answers, timers, refresh, dirty, misled, changes>>

\* onPerDirectoryFsEvent.
HandleEvent(d) ==
  /\ d \in events
  /\ events' = events \ {d}
  /\ tasks' = IF phase = "stopped" THEN tasks
              ELSE BagAdd(tasks, [path |-> d, pc |-> "lstat", emit |-> TRUE])
  /\ UNCHANGED <<disk, watches, answers, timers, refresh, phase, dirty, misled, changes>>

\* lstat reads the path.
Lstat(t) ==
  /\ t \in DOMAIN tasks
  /\ t.pc = "lstat"
  /\ tasks' = BagRemove(tasks, t)
  /\ answers' = BagAdd(answers, [path |-> t.path, emit |-> t.emit, ino |-> inode[t.path]])
  /\ UNCHANGED <<disk, watches, events, timers, refresh, phase, dirty, misled, changes>>

\* The discovery of the start is over: start() returns.
Started(emit) == phase' = IF ~emit /\ phase = "starting" THEN "up" ELSE phase

\* What a discovery does next to the watches: nothing, close those of the
\* path and below it, or attach one anew and list the directory.
LeaveWatch(a) == Started(a.emit) /\ UNCHANGED <<watches, tasks, misled>>

CloseWatch(a) ==
  /\ watches' = Closed(watches, a.path)
  /\ misled' = IF inode[a.path] # Nil /\ watches[a.path] # Nil THEN misled \cup {a.path} ELSE misled
  /\ Started(a.emit)
  /\ tasks' = tasks

AttachWatch(a) ==
  /\ watches' = [Closed(watches, a.path) EXCEPT ![a.path] = [ino |-> a.ino, live |-> TRUE]]
  /\ misled' = misled \ {a.path}
  /\ tasks' = BagAdd(tasks, [path |-> a.path, pc |-> "list", emit |-> a.emit])
  /\ phase' = phase

\* The directory is watched under the identity that lstat found.
Known(a) == watches[a.path] # Nil /\ watches[a.path].ino = a.ino

\* Mutant: a directory that has a watch is taken for watched.
ContinueWithoutIdentity(a) ==
  /\ a \in DOMAIN answers
  /\ answers' = BagRemove(answers, a)
  /\ \/ a.ino = Nil /\ CloseWatch(a)
     \/ /\ a.ino # Nil
        /\ phase = "stopped" \/ watches[a.path] # Nil \/ inode[a.path] = Nil
        /\ LeaveWatch(a)
     \/ /\ a.ino # Nil /\ phase # "stopped" /\ watches[a.path] = Nil /\ inode[a.path] # Nil
        /\ AttachWatch(a)
  /\ UNCHANGED <<disk, events, timers, refresh, dirty, changes>>

\* Mutant: a discovery that outlives stop() attaches its watch.
ContinueAfterStop(a) ==
  /\ a \in DOMAIN answers
  /\ answers' = BagRemove(answers, a)
  /\ \/ a.ino = Nil /\ CloseWatch(a)
     \/ a.ino # Nil /\ Known(a) /\ LeaveWatch(a)
     \/ a.ino # Nil /\ ~Known(a) /\ inode[a.path] # Nil /\ AttachWatch(a)
  /\ UNCHANGED <<disk, events, timers, refresh, dirty, changes>>

\* The continuation of lstat, with watchDirectory: a path that was gone loses
\* its watches, and those below, whatever is there by now; one that is watched
\* under the same identity is left alone; for any other the watch is replaced.
\* fs.watch opens the path anew: it throws when the directory has gone since,
\* and attaches to what is there when it was replaced.
Continue(a) ==
  /\ a \in DOMAIN answers
  /\ answers' = BagRemove(answers, a)
  /\ \/ a.ino = Nil /\ CloseWatch(a)
     \/ a.ino # Nil /\ (phase = "stopped" \/ Known(a)) /\ LeaveWatch(a)
     \/ a.ino # Nil /\ phase # "stopped" /\ ~Known(a) /\ inode[a.path] = Nil /\ CloseWatch(a)
     \/ a.ino # Nil /\ phase # "stopped" /\ ~Known(a) /\ inode[a.path] # Nil /\ AttachWatch(a)
  /\ UNCHANGED <<disk, events, timers, refresh, dirty, changes>>

\* Mutant: the directory is attached and not listed.
ListNothing(t) ==
  /\ t \in DOMAIN tasks
  /\ t.pc = "list"
  /\ tasks' = BagRemove(tasks, t)
  /\ Started(t.emit)
  /\ UNCHANGED <<disk, watches, events, answers, timers, refresh, dirty, misled, changes>>

\* Mutant: the listing goes on below a directory that has none.
ListDeeper(t) ==
  /\ t \in DOMAIN tasks
  /\ t.pc = "list"
  /\ tasks' = BagAdd(BagRemove(tasks, t), [path |-> t.path + 1, pc |-> "lstat", emit |-> t.emit])
  /\ UNCHANGED <<disk, watches, events, answers, timers, refresh, phase, dirty, misled, changes>>

\* scanDirectory: report the file, go on with the subdirectory.
List(t) ==
  /\ t \in DOMAIN tasks
  /\ t.pc = "list"
  /\ LET below == phase # "stopped" /\ t.path < Depth /\ inode[t.path] # Nil /\ inode[t.path + 1] # Nil
         rest == BagRemove(tasks, t)
     IN /\ tasks' = IF below
                     THEN BagAdd(rest, [path |-> t.path + 1, pc |-> "lstat", emit |-> t.emit])
                     ELSE rest
        /\ IF below THEN phase' = phase ELSE Started(t.emit)
  /\ timers' = IF phase # "stopped" /\ t.emit /\ t.path \in file THEN timers \cup {t.path} ELSE timers
  /\ UNCHANGED <<disk, watches, events, answers, refresh, dirty, misled, changes>>

-----------------------------------------------------------------------------
(* Debounce and refresh                                                    *)

\* A debounce timer fires; requestRun.
Timer(d) ==
  /\ d \in timers
  /\ timers' = timers \ {d}
  /\ \/ /\ run = "running"
        /\ pending' = TRUE
        /\ UNCHANGED <<run, dirty>>
     \/ /\ run = "none"
        /\ run' = "running"
        /\ dirty' = {}
        /\ pending' = pending
  /\ UNCHANGED <<disk, watches, events, tasks, answers, phase, misled, changes>>

\* onChange has returned or thrown; one more run if some timer fired meanwhile.
RunEnds ==
  /\ run = "running"
  /\ IF pending /\ phase # "stopped"
     THEN /\ pending' = FALSE
          /\ dirty' = {}
          /\ run' = run
     ELSE /\ run' = "none"
          /\ UNCHANGED <<pending, dirty>>
  /\ UNCHANGED <<disk, watches, events, tasks, answers, timers, phase, misled, changes>>

\* stop() clears the timers and closes the watches before it waits.
Stop ==
  /\ phase \in {"starting", "up"}
  /\ phase' = "stopped"
  /\ timers' = {}
  /\ watches' = [d \in Path |-> Nil]
  /\ UNCHANGED <<disk, events, tasks, answers, refresh, dirty, misled, changes>>

-----------------------------------------------------------------------------
\* The directories there are before the watcher starts.
Trees ==
  {t \in [Path -> Inodes \cup {RootInode, Nil}] :
     /\ t[0] = RootInode
     /\ \A d \in Path : t[d] # Nil => \A c \in 0 .. (d - 1) : t[c] \notin {t[d], Nil}}

Init ==
  /\ inode \in Trees
  /\ file = {}
  /\ watches = [d \in Path |-> Nil]
  /\ events = {} /\ tasks = None /\ answers = None /\ timers = {}
  /\ run = "none" /\ pending = FALSE
  /\ phase = "new"
  /\ dirty = {} /\ misled = {} /\ changes = 0

Discover == \E t \in DOMAIN tasks : Lstat(t) \/ List(t)
Answered == \E a \in DOMAIN answers : Continue(a)

Next ==
  \/ \E d \in Path : MakeDir(d) \/ RemoveDir(d) \/ WriteFile(d)
  \/ \E d \in Path : HandleEvent(d) \/ Timer(d)
  \/ Start \/ Discover \/ Answered \/ RunEnds \/ Stop

Spec == Init /\ [][Next]_vars

\* Handlers run, the file system answers, timers fire and refreshes return;
\* which of those that wait goes first is left open.
Fairness ==
  /\ WF_vars(\E d \in Path : HandleEvent(d))
  /\ WF_vars(Discover) /\ WF_vars(Answered)
  /\ WF_vars(\E d \in Path : Timer(d))
  /\ WF_vars(RunEnds)

FairSpec == Spec /\ Fairness
=============================================================================
