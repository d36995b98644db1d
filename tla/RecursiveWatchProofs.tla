------------------------ MODULE RecursiveWatchProofs ------------------------
(***************************************************************************)
(* Proofs about RecursiveWatch.tla for any depth of the tree, any supply   *)
(* of inode numbers and any number of changes beside the watcher.          *)
(***************************************************************************)
EXTENDS RecursiveWatchProps, TLAPS

\* One more of x.
LEMMA AddFacts ==
  ASSUME NEW B, NEW x, B \in [DOMAIN B -> Nat \ {0}]
  PROVE  /\ DOMAIN BagAdd(B, x) = DOMAIN B \cup {x}
         /\ BagAdd(B, x) \in [DOMAIN BagAdd(B, x) -> Nat \ {0}]
  BY DEF BagAdd

\* One less of x: the others stay.
LEMMA RemoveFacts ==
  ASSUME NEW B, NEW x, B \in [DOMAIN B -> Nat \ {0}]
  PROVE  /\ DOMAIN BagRemove(B, x) \subseteq DOMAIN B
         /\ DOMAIN B \ {x} \subseteq DOMAIN BagRemove(B, x)
         /\ BagRemove(B, x) \in [DOMAIN BagRemove(B, x) -> Nat \ {0}]
  BY DEF BagRemove

-----------------------------------------------------------------------------
(* Types                                                                   *)

Bag(S, B) == DOMAIN B \subseteq S /\ B \in [DOMAIN B -> Nat \ {0}]

\* Bags of one kind of thing stay so.
LEMMA BagTyped ==
  ASSUME NEW S, NEW B, Bag(S, B), NEW x
  PROVE  /\ x \in S => Bag(S, BagAdd(B, x))
         /\ Bag(S, BagRemove(B, x))
<1>1. B \in [DOMAIN B -> Nat \ {0}] /\ DOMAIN B \subseteq S
  BY DEF Bag
<1>2. x \in S => Bag(S, BagAdd(B, x))
  BY <1>1, AddFacts DEF Bag
<1>3. Bag(S, BagRemove(B, x))
  BY <1>1, RemoveFacts DEF Bag
<1>4. QED  BY <1>2, <1>3

\* Changes of the tree keep the types.
LEMMA TreeTyped ==
  ASSUME TypeOK, NEW d \in Path, MakeDir(d) \/ RemoveDir(d) \/ WriteFile(d)
  PROVE  TypeOK'
<1>0. changes' \in 0 .. MaxChanges
  BY WatchAssumption DEF TypeOK, MakeDir, RemoveDir, WriteFile, Change
<1>1. CASE MakeDir(d)
  <2>1. inode' \in [Path -> Inodes \cup {RootInode, Nil}]
    BY <1>1 DEF TypeOK, MakeDir, FreeInodes
  <2>2. QED  BY <1>0, <1>1, <2>1 DEF TypeOK, MakeDir, refresh
<1>2. CASE RemoveDir(d)
  <2>1. inode' \in [Path -> Inodes \cup {RootInode, Nil}]
    BY <1>2 DEF TypeOK, RemoveDir
  <2>2. watches' \in [Path -> Watch \cup {Nil}]
    <3>1. ASSUME NEW w \in Watch PROVE [w EXCEPT !.live = FALSE] \in Watch
      BY DEF Watch
    <3>2. QED  BY <1>2, <3>1 DEF TypeOK, RemoveDir
  <2>3. events' \subseteq Path /\ file' \subseteq Path /\ dirty' \subseteq Path /\ misled' \subseteq Path
    BY <1>2, WatchAssumption DEF TypeOK, RemoveDir, Path
  <2>4. QED  BY <1>0, <1>2, <2>1, <2>2, <2>3 DEF TypeOK, RemoveDir, refresh
<1>3. CASE WriteFile(d)
  BY <1>0, <1>3 DEF TypeOK, WriteFile, refresh
<1>4. QED  BY <1>1, <1>2, <1>3

\* Events, lstat and readdir keep the types.
LEMMA DiscoveryTyped ==
  ASSUME TypeOK, Start \/ Stop \/ Discover \/ \E d \in Path : HandleEvent(d)
  PROVE  TypeOK'
<1>0. 0 \in Path /\ Bag(Task, tasks) /\ Bag(Answer, answers)
  BY WatchAssumption DEF Path, TypeOK, Bag
<1>1. CASE Start
  <2>1. [path |-> 0, pc |-> "lstat", emit |-> FALSE] \in Task
    BY <1>0 DEF Task
  <2>2. Bag(Task, tasks')
    BY <1>0, <1>1, <2>1, BagTyped DEF Start
  <2>3. QED  BY <1>1, <2>2 DEF TypeOK, Bag, Start, disk, refresh
<1>2. CASE Stop
  BY <1>2 DEF TypeOK, Stop, disk, refresh
<1>3. CASE \E d \in Path : HandleEvent(d)
  <2>1. PICK d \in Path : HandleEvent(d)
    BY <1>3
  <2>2. [path |-> d, pc |-> "lstat", emit |-> TRUE] \in Task
    BY DEF Task
  <2>3. Bag(Task, tasks')
    BY <1>0, <2>1, <2>2, BagTyped DEF HandleEvent
  <2>4. QED  BY <2>1, <2>3 DEF TypeOK, Bag, HandleEvent, disk, refresh
<1>4. CASE \E t \in DOMAIN tasks : Lstat(t)
  <2>1. PICK t \in DOMAIN tasks : Lstat(t)
    BY <1>4
  <2>2. [path |-> t.path, emit |-> t.emit, ino |-> inode[t.path]] \in Answer
    BY DEF TypeOK, Task, Answer
  <2>3. Bag(Answer, answers') /\ Bag(Task, tasks')
    BY <1>0, <2>1, <2>2, BagTyped DEF Lstat
  <2>4. QED  BY <2>1, <2>3 DEF TypeOK, Bag, Lstat, disk, refresh
<1>5. CASE \E t \in DOMAIN tasks : List(t)
  <2>1. PICK t \in DOMAIN tasks : List(t)
    BY <1>5
  <2>2. t.path \in Path /\ t.emit \in BOOLEAN
    BY DEF TypeOK, Task
  <2>3. t.path < Depth => [path |-> t.path + 1, pc |-> "lstat", emit |-> t.emit] \in Task
    BY <2>2, WatchAssumption DEF Task, Path
  <2>4. Bag(Task, BagRemove(tasks, t))
    BY <1>0, BagTyped
  <2>5. Bag(Task, tasks')
    BY <2>1, <2>3, <2>4, BagTyped DEF List
  <2>6. phase' \in {"new", "starting", "up", "stopped"}
    BY <2>1 DEF TypeOK, List, Started
  <2>7. timers' \subseteq Path
    BY <2>1, <2>2 DEF TypeOK, List
  <2>8. QED  BY <2>1, <2>5, <2>6, <2>7 DEF TypeOK, Bag, List, disk, refresh
<1>6. QED  BY <1>1, <1>2, <1>3, <1>4, <1>5 DEF Discover

\* What the continuation of an answer does to the watches, in three cases.
LEMMA ContinueCases ==
  ASSUME NEW a, Continue(a)
  PROVE  \/ a.ino # Nil /\ (phase = "stopped" \/ Known(a)) /\ LeaveWatch(a)
         \/ (a.ino = Nil \/ inode[a.path] = Nil) /\ CloseWatch(a)
         \/ a.ino # Nil /\ phase # "stopped" /\ inode[a.path] # Nil /\ AttachWatch(a)
  BY DEF Continue

\* The continuation of lstat keeps the types.
LEMMA ContinueTyped ==
  ASSUME TypeOK, NEW a \in DOMAIN answers, Continue(a)
  PROVE  TypeOK'
<1>1. a.path \in Path /\ a.emit \in BOOLEAN /\ a.ino \in Inodes \cup {RootInode, Nil}
  BY DEF TypeOK, Answer
<1>2. Bag(Answer, answers')
  BY BagTyped DEF TypeOK, Bag, Continue
<1>3. Closed(watches, a.path) \in [Path -> Watch \cup {Nil}]
  BY DEF TypeOK, Closed
<1>4. CASE LeaveWatch(a)
  BY <1>2, <1>4 DEF TypeOK, Bag, Continue, LeaveWatch, Started, disk, refresh
<1>5. CASE CloseWatch(a)
  BY <1>1, <1>2, <1>3, <1>5 DEF TypeOK, Bag, Continue, CloseWatch, Started, disk, refresh
<1>6. CASE a.ino # Nil /\ AttachWatch(a)
  <2>1. [ino |-> a.ino, live |-> TRUE] \in Watch
    BY <1>1, <1>6 DEF Watch
  <2>2. watches' \in [Path -> Watch \cup {Nil}]
    BY <1>1, <1>3, <1>6, <2>1 DEF AttachWatch
  <2>3. [path |-> a.path, pc |-> "list", emit |-> a.emit] \in Task
    BY <1>1 DEF Task
  <2>4. Bag(Task, tasks')
    <3>1. Bag(Task, tasks)
      BY DEF TypeOK, Bag
    <3>2. QED  BY <1>6, <2>3, <3>1, BagTyped DEF AttachWatch
  <2>5. misled' \subseteq Path /\ phase' = phase
    BY <1>6 DEF TypeOK, AttachWatch
  <2>6. QED  BY <1>2, <2>2, <2>4, <2>5 DEF TypeOK, Bag, Continue, disk, refresh
<1>7. QED  BY <1>4, <1>5, <1>6, ContinueCases

\* Timers and refreshes keep the types.
LEMMA RefreshTyped ==
  ASSUME TypeOK, RunEnds \/ \E d \in Path : Timer(d)
  PROVE  TypeOK'
<1>1. CASE RunEnds
  BY <1>1 DEF TypeOK, RunEnds, disk
<1>2. CASE \E d \in Path : Timer(d)
  BY <1>2 DEF TypeOK, Timer, disk
<1>3. QED  BY <1>1, <1>2

\* The types hold at the start and after every step.
LEMMA TypesInductive == (Init => TypeOK) /\ (TypeOK /\ [Next]_vars => TypeOK')
<1>1. ASSUME Init PROVE TypeOK
  <2>1. None \in [DOMAIN None -> Nat \ {0}] /\ DOMAIN None = {} /\ 0 \in 0 .. MaxChanges
    BY WatchAssumption DEF None
  <2>2. QED  BY <1>1, <2>1 DEF Init, TypeOK, Trees
<1>2. ASSUME TypeOK, [Next]_vars PROVE TypeOK'
  <2>1. CASE UNCHANGED vars
    BY <1>2, <2>1 DEF vars, TypeOK
  <2>2. CASE Next
    BY <1>2, <2>2, TreeTyped, DiscoveryTyped, ContinueTyped, RefreshTyped DEF Next, Answered
  <2>3. QED  BY <1>2, <2>1, <2>2
<1>3. QED  BY <1>1, <1>2

\* Every variable of the watcher of src/recursive-fs-watch.ts keeps its type,
\* for any tree and any number of changes.
THEOREM TypeCorrect == Spec => []TypeOK
  BY TypesInductive, PTL DEF Spec

-----------------------------------------------------------------------------
(* stop()                                                                  *)

Released == phase = "stopped" => timers = {} /\ \A d \in Path : watches[d] = Nil

\* What still runs after stop() attaches no watch and arms no timer.
LEMMA StaysReleased ==
  ASSUME TypeOK, Released, [Next]_vars
  PROVE  Released'
<1>1. CASE UNCHANGED vars
  BY <1>1 DEF vars, Released
<1>2. ASSUME NEW d \in Path, MakeDir(d) \/ WriteFile(d) \/ HandleEvent(d) PROVE Released'
  BY <1>2 DEF MakeDir, WriteFile, HandleEvent, Released, Hears
<1>3. ASSUME NEW d \in Path, RemoveDir(d) PROVE Released'
  BY <1>3 DEF RemoveDir, Released
<1>4. ASSUME NEW d \in Path, Timer(d) PROVE Released'
  BY <1>4 DEF Timer, Released
<1>5. CASE Start \/ Stop \/ RunEnds
  BY <1>5 DEF Start, Stop, RunEnds, Released
<1>6. ASSUME NEW t \in DOMAIN tasks, Lstat(t) PROVE Released'
  BY <1>6 DEF Lstat, Released
<1>7. ASSUME NEW t \in DOMAIN tasks, List(t) PROVE Released'
  <2>1. phase' = "stopped" => phase = "stopped"
    BY <1>7 DEF List, Started
  <2>2. QED  BY <1>7, <2>1 DEF List, Released
<1>8. ASSUME NEW a \in DOMAIN answers, Continue(a) PROVE Released'
  <2>1. phase' = "stopped" => phase = "stopped"
    BY <1>8, ContinueCases DEF LeaveWatch, CloseWatch, AttachWatch, Started
  <2>2. phase = "stopped" => watches' = watches \/ watches' = Closed(watches, a.path)
    BY <1>8, ContinueCases DEF LeaveWatch, CloseWatch
  <2>3. timers' = timers
    BY <1>8 DEF Continue
  <2>4. QED  BY <2>1, <2>2, <2>3 DEF Released, Closed
<1>9. QED
  BY <1>1, <1>2, <1>3, <1>4, <1>5, <1>6, <1>7, <1>8 DEF Next, Discover, Answered

\* stop() of RecursiveKbWatcher holds nothing back: no handle stays open and no
\* refresh starts, whatever lstat, readdir and event handlers come after it.
THEOREM StopIsFinal == Spec => StopReleases
<1>1. Init => Released
  BY DEF Init, Released
<1>2. Released /\ [Next]_vars => [phase = "stopped" /\ run = "none" => run' = "none"]_vars
  <2>1. SUFFICES ASSUME Released, Next, phase = "stopped", run = "none" PROVE run' = "none"
    OBVIOUS
  <2>2. \A d \in Path : ~Timer(d)
    BY <2>1 DEF Timer, Released
  <2>3. QED
    BY <2>1, <2>2 DEF Next, Discover, Answered, MakeDir, RemoveDir, WriteFile, HandleEvent,
       Start, Stop, Lstat, List, Continue, RunEnds, refresh
<1>3. Released /\ [Next]_vars /\ TypeOK => Released'
  BY StaysReleased
<1>4. Spec => []Released
  BY <1>1, <1>3, TypeCorrect, PTL DEF Spec
<1>5. Released => (phase = "stopped" => timers = {} /\ \A d \in Path : watches[d] = Nil)
  BY DEF Released
<1>6. QED  BY <1>2, <1>4, <1>5, PTL DEF Spec, StopReleases

-----------------------------------------------------------------------------
(* The map follows the tree                                                *)

Live == phase \in {"starting", "up"}

\* A waiting event or lstat of path d; a listing of its parent that will find
\* it; an answer of lstat that saw d as it is now.
Asked(d) == d \in events \/ \E t \in DOMAIN tasks : t.path = d /\ t.pc = "lstat"
Listed(d) == inode[d] # Nil /\ \E t \in DOMAIN tasks : t.path = d - 1 /\ t.pc = "list"
Read(d) == \E a \in DOMAIN answers : a.path = d /\ a.ino = inode[d]

\* The watcher will look at d again, or has looked at it as it is now.
Work(d) == Asked(d) \/ Listed(d) \/ Read(d)

\* A path that should be heard of, under a watch that hears.
Reached(d) == d = 0 \/ Hears(d - 1)

Followed(d) == Reached(d) => Tracked(d) \/ Work(d)

\* Wherever the watcher listens, what it has not got right it will look at.
FollowInv == Live => \A d \in Path : Followed(d)

\* A directory lies in a directory.
ChainInv ==
  /\ inode[0] = RootInode
  /\ \A d \in Path : inode[d] # Nil => \A c \in 0 .. d : inode[c] # Nil

\* Before start() nothing is watched, and nothing waits.
NewInv ==
  phase = "new" => /\ \A d \in Path : watches[d] = Nil
                   /\ events = {} /\ DOMAIN tasks = {} /\ DOMAIN answers = {}

TreeInv == TypeOK /\ ChainInv /\ NewInv /\ FollowInv

\* The parts of a path.
LEMMA PathFacts ==
  /\ 0 \in Path
  /\ \A d \in Path : d \in Nat /\ 0 .. d \subseteq Path
  /\ \A d \in Path : d > 0 => d - 1 \in Path
  BY WatchAssumption DEF Path

\* What the types say of the bags.
LEMMA Bags ==
  ASSUME TypeOK
  PROVE  /\ tasks \in [DOMAIN tasks -> Nat \ {0}]
         /\ answers \in [DOMAIN answers -> Nat \ {0}]
         /\ \A t \in DOMAIN tasks : t \in Task /\ t.path \in Path
         /\ \A a \in DOMAIN answers : a \in Answer /\ a.path \in Path
  BY DEF TypeOK, Task, Answer

\* A path whose directory, watches and work stay is followed as before.
LEMMA FollowedFrame ==
  ASSUME NEW d \in Path, Followed(d), Reached(d)' => Reached(d),
         inode'[d] = inode[d], watches'[d] = watches[d],
         d \in misled => d \in misled',
         Work(d) => Work(d)'
  PROVE  Followed(d)'
<1>1. Tracked(d) => Tracked(d)'
  BY DEF Tracked, Hears, Lost
<1>2. QED  BY <1>1 DEF Followed

\* Steps that leave the tree, the watches and the work alone.
LEMMA QuietStep ==
  ASSUME TreeInv, UNCHANGED <<inode, watches, events, tasks, answers, misled, phase>>
  PROVE  ChainInv' /\ NewInv' /\ FollowInv'
<1>1. ChainInv' /\ NewInv' /\ Live' = Live
  BY DEF TreeInv, ChainInv, NewInv, Live
<1>2. ASSUME NEW d \in Path, Followed(d) PROVE Followed(d)'
  <2>1. (Reached(d)' => Reached(d)) /\ (Work(d) => Work(d)')
    BY DEF Reached, Hears, Work, Asked, Listed, Read
  <2>2. QED  BY <1>2, <2>1, FollowedFrame
<1>3. QED  BY <1>1, <1>2 DEF TreeInv, FollowInv

\* A new directory is an event of a watched parent; other paths notice nothing.
LEMMA MakeDirStep ==
  ASSUME TreeInv, NEW d \in Path, MakeDir(d)
  PROVE  ChainInv' /\ NewInv' /\ FollowInv'
<1>1. PICK i \in FreeInodes : inode' = [inode EXCEPT ![d] = i]
  BY DEF MakeDir
<1>2. i # Nil /\ d > 0 /\ d \in Nat /\ inode[d] = Nil /\ inode[d - 1] # Nil
  BY <1>1, WatchAssumption, PathFacts DEF MakeDir, FreeInodes
<1>3. inode \in [Path -> Inodes \cup {RootInode, Nil}]
  BY DEF TreeInv, TypeOK
<1>4. ChainInv'
  <2>1. inode'[0] = RootInode
    BY <1>1, <1>2, <1>3, PathFacts DEF TreeInv, ChainInv
  <2>2. ASSUME NEW e \in Path, inode'[e] # Nil, NEW c \in 0 .. e PROVE inode'[c] # Nil
    <3>1. c \in Path /\ c \in Nat /\ e \in Nat
      BY PathFacts
    <3>2. CASE c = d
      BY <1>1, <1>2, <1>3, <3>1, <3>2
    <3>3. CASE c # d /\ e # d
      BY <1>1, <1>3, <2>2, <3>1, <3>3 DEF TreeInv, ChainInv
    <3>4. CASE c # d /\ e = d
      <4>1. d - 1 \in Path /\ c \in 0 .. (d - 1)
        BY <1>2, <3>1, <3>4, PathFacts
      <4>2. inode[c] # Nil
        BY <1>2, <4>1 DEF TreeInv, ChainInv
      <4>3. QED  BY <1>1, <1>3, <3>1, <3>4, <4>2
    <3>5. QED  BY <3>2, <3>3, <3>4
  <2>3. QED  BY <2>1, <2>2 DEF ChainInv
<1>5. NewInv'
  <2>1. phase = "new" => ~Hears(d - 1)
    BY <1>2, PathFacts DEF TreeInv, NewInv, Hears
  <2>2. QED  BY <2>1 DEF TreeInv, NewInv, MakeDir
<1>6. ASSUME Live, NEW e \in Path PROVE Followed(e)'
  <2>1. Followed(e) /\ UNCHANGED <<watches, tasks, answers, misled>> /\ events \subseteq events'
    BY <1>6 DEF TreeInv, FollowInv, MakeDir
  <2>2. (Reached(e)' => Reached(e)) /\ (Asked(e) => Asked(e)')
    BY <2>1 DEF Reached, Hears, Asked
  <2>3. CASE e = d
    <3>1. Reached(d)' => d \in events'
      BY <1>2, <2>1 DEF Reached, Hears, MakeDir
    <3>2. QED  BY <2>3, <3>1 DEF Followed, Work, Asked
  <2>4. CASE e # d
    <3>1. inode'[e] = inode[e]
      BY <1>1, <1>3, <2>4
    <3>2. Work(e) => Work(e)'
      BY <2>1, <2>2, <3>1 DEF Work, Listed, Read
    <3>3. QED  BY <2>1, <2>2, <3>1, <3>2, FollowedFrame
  <2>5. QED  BY <2>3, <2>4
<1>7. Live' = Live
  BY DEF MakeDir, Live
<1>8. QED  BY <1>4, <1>5, <1>6, <1>7 DEF FollowInv

\* A removed directory is an event of a watched parent; what was below it is
\* out of reach.
LEMMA RemoveDirStep ==
  ASSUME TreeInv, NEW d \in Path, RemoveDir(d)
  PROVE  ChainInv' /\ NewInv' /\ FollowInv'
<1>1. /\ d > 0 /\ d \in Nat /\ inode[d] # Nil
      /\ \A c \in Path : inode'[c] = IF c >= d THEN Nil ELSE inode[c]
      /\ \A c \in Path : c < d => watches'[c] = watches[c]
      /\ \A c \in Path : c >= d => ~Hears(c)'
  <2>1. d > 0 /\ d \in Nat /\ inode[d] # Nil
    BY PathFacts DEF RemoveDir
  <2>2. \A c \in Path : inode'[c] = IF c >= d THEN Nil ELSE inode[c]
    BY DEF RemoveDir
  <2>3. ASSUME NEW c \in Path
        PROVE  watches'[c] = IF c >= d /\ watches[c] # Nil
                               THEN [watches[c] EXCEPT !.live = FALSE] ELSE watches[c]
    BY DEF RemoveDir
  <2>4. ASSUME NEW c \in Path, c < d PROVE watches'[c] = watches[c]
    <3>1. ~(c >= d)
      BY <2>1, <2>4, PathFacts
    <3>2. QED  BY <2>3, <3>1
  <2>5. ASSUME NEW c \in Path, c >= d PROVE ~Hears(c)'
    <3>1. watches[c] \in Watch \cup {Nil}
      BY DEF TreeInv, TypeOK
    <3>2. CASE watches[c] = Nil
      BY <2>3, <3>2 DEF Hears
    <3>3. CASE watches[c] \in Watch /\ watches[c] # Nil
      <4>1. watches'[c] = [watches[c] EXCEPT !.live = FALSE]
        BY <2>3, <2>5, <3>3
      <4>2. watches'[c].live = FALSE
        BY <3>3, <4>1 DEF Watch
      <4>3. QED  BY <4>2 DEF Hears
    <3>4. QED  BY <3>1, <3>2, <3>3
  <2>6. QED  BY <2>1, <2>2, <2>4, <2>5
<1>2. ChainInv'
  <2>1. inode'[0] = RootInode
    BY <1>1, PathFacts DEF TreeInv, ChainInv
  <2>2. ASSUME NEW e \in Path, inode'[e] # Nil, NEW c \in 0 .. e PROVE inode'[c] # Nil
    <3>1. c \in Path /\ c <= e /\ c \in Nat /\ e \in Nat
      BY PathFacts
    <3>2. ~(e >= d) /\ inode[e] # Nil
      BY <1>1, <2>2
    <3>3. ~(c >= d) /\ inode[c] # Nil
      BY <1>1, <2>2, <3>1, <3>2 DEF TreeInv, ChainInv
    <3>4. QED  BY <1>1, <3>1, <3>3
  <2>3. QED  BY <2>1, <2>2 DEF ChainInv
<1>3. NewInv'
  <2>1. ASSUME phase = "new" PROVE watches' = [c \in Path |-> watches[c]] /\ events' = {}
    <3>1. \A c \in Path : watches[c] = Nil
      BY <2>1 DEF TreeInv, NewInv
    <3>2. \A c \in Path : c >= d => ~Hears(c - 1)
      <4>1. \A c \in Path : c >= d => c - 1 \in Path
        BY <1>1, PathFacts
      <4>2. QED  BY <3>1, <4>1 DEF Hears
    <3>3. QED  BY <2>1, <3>1, <3>2 DEF TreeInv, NewInv, RemoveDir, Path
  <2>2. QED  BY <2>1 DEF TreeInv, NewInv, RemoveDir
<1>4. ASSUME Live, NEW e \in Path PROVE Followed(e)'
  <2>1. Followed(e) /\ e \in Nat /\ tasks' = tasks /\ answers' = answers /\ events \subseteq events'
    BY <1>4, PathFacts DEF TreeInv, FollowInv, RemoveDir
  <2>2. CASE e > d
    <3>1. e - 1 \in Path /\ e - 1 >= d /\ e # 0
      BY <1>1, <2>1, <2>2, PathFacts
    <3>2. QED  BY <1>1, <3>1 DEF Followed, Reached
  <2>3. CASE e = d
    <3>1. d - 1 \in Path /\ d - 1 < d
      BY <1>1, PathFacts
    <3>2. Reached(d)' => d \in events'
      <4>1. Reached(d)' => Hears(d - 1)
        BY <1>1, <3>1 DEF Reached, Hears
      <4>2. d \in d .. Depth
        BY WatchAssumption DEF Path
      <4>3. QED  BY <1>1, <4>1, <4>2 DEF RemoveDir
    <3>3. QED  BY <2>3, <3>2 DEF Followed, Work, Asked
  <2>4. CASE e < d
    <3>1. inode'[e] = inode[e] /\ watches'[e] = watches[e] /\ (e \in misled => e \in misled')
      BY <1>1, <2>1, <2>4 DEF RemoveDir
    <3>2. Reached(e)' => Reached(e)
      <4>1. e = 0 \/ (e - 1 \in Path /\ e - 1 < d)
        BY <1>1, <2>1, <2>4, PathFacts
      <4>2. QED  BY <1>1, <4>1 DEF Reached, Hears
    <3>3. Work(e) => Work(e)'
      BY <2>1, <3>1 DEF Work, Asked, Listed, Read
    <3>4. QED  BY <2>1, <3>1, <3>2, <3>3, FollowedFrame
  <2>5. QED  BY <1>1, <2>1, <2>2, <2>3, <2>4
<1>5. Live' = Live
  BY DEF RemoveDir, Live
<1>6. QED  BY <1>2, <1>3, <1>4, <1>5 DEF FollowInv

\* start() asks for the root; nothing else is within reach.
LEMMA StartStep ==
  ASSUME TreeInv, Start
  PROVE  ChainInv' /\ NewInv' /\ FollowInv'
<1>1. ChainInv' /\ NewInv'
  BY DEF TreeInv, ChainInv, NewInv, Start, disk
<1>2. Asked(0)'
  <2> DEFINE t == [path |-> 0, pc |-> "lstat", emit |-> FALSE]
  <2>0. tasks' = BagAdd(tasks, t)
    BY DEF Start
  <2>1. DOMAIN BagAdd(tasks, t) = DOMAIN tasks \cup {t}
    BY Bags, AddFacts DEF TreeInv
  <2>2. t \in DOMAIN tasks'
    BY <2>0, <2>1
  <2>3. QED  BY <2>2 DEF Asked
<1>3. ASSUME NEW d \in Path, d # 0 PROVE ~Reached(d)'
  <2>1. watches'[d - 1] = Nil
    BY <1>3, PathFacts DEF TreeInv, NewInv, Start
  <2>2. QED  BY <1>3, <2>1 DEF Reached, Hears
<1>4. QED  BY <1>1, <1>2, <1>3 DEF FollowInv, Followed, Work

\* After stop() nothing is claimed.
LEMMA StopStep ==
  ASSUME TreeInv, Stop
  PROVE  ChainInv' /\ NewInv' /\ FollowInv'
<1>1. ChainInv' /\ phase' = "stopped"
  BY DEF TreeInv, ChainInv, Stop, disk
<1>2. QED  BY <1>1 DEF NewInv, FollowInv, Live

\* Steps that pass the work on: the tree and the watches stay.
LEMMA WorkStep ==
  ASSUME TreeInv, UNCHANGED <<inode, watches, misled>>, phase # "new", phase' # "new",
         Live' => Live,
         Live => \A c \in Path : Work(c) => Work(c)'
  PROVE  ChainInv' /\ NewInv' /\ FollowInv'
<1>1. ChainInv' /\ NewInv'
  BY DEF TreeInv, ChainInv, NewInv
<1>2. ASSUME Live, NEW d \in Path PROVE Followed(d)'
  <2>1. Followed(d) /\ (Reached(d)' => Reached(d))
    BY <1>2 DEF TreeInv, FollowInv, Reached, Hears
  <2>2. QED  BY <1>2, <2>1, FollowedFrame
<1>3. QED  BY <1>1, <1>2 DEF FollowInv

\* A handled event becomes an lstat of the same path.
LEMMA EventStep ==
  ASSUME TreeInv, NEW d \in Path, HandleEvent(d)
  PROVE  ChainInv' /\ NewInv' /\ FollowInv'
<1>1. UNCHANGED <<inode, watches, misled, answers, phase>> /\ events' = events \ {d} /\ d \in events
  BY DEF HandleEvent, disk
<1>2. phase # "new"
  BY <1>1 DEF TreeInv, NewInv
<1>3. ASSUME Live, NEW c \in Path, Work(c) PROVE Work(c)'
  <2>1. tasks' = BagAdd(tasks, [path |-> d, pc |-> "lstat", emit |-> TRUE])
    BY <1>3 DEF HandleEvent, Live
  <2>2. DOMAIN tasks' = DOMAIN tasks \cup {[path |-> d, pc |-> "lstat", emit |-> TRUE]}
    BY <2>1, Bags, AddFacts DEF TreeInv
  <2>3. Asked(d)'
    <3>1. [path |-> d, pc |-> "lstat", emit |-> TRUE] \in DOMAIN tasks'
      BY <2>2
    <3>2. QED  BY <3>1 DEF Asked
  <2>4. (Asked(c) => Asked(c)') /\ (Listed(c) => Listed(c)') /\ (Read(c) => Read(c)')
    BY <1>1, <2>2, <2>3 DEF Asked, Listed, Read
  <2>5. QED  BY <1>3, <2>4 DEF Work
<1>4. QED  BY <1>1, <1>2, <1>3, WorkStep DEF Live

\* lstat sees its path as it is now.
LEMMA LstatStep ==
  ASSUME TreeInv, NEW t \in DOMAIN tasks, Lstat(t)
  PROVE  ChainInv' /\ NewInv' /\ FollowInv'
<1> DEFINE a == [path |-> t.path, emit |-> t.emit, ino |-> inode[t.path]]
<1>1. /\ UNCHANGED <<inode, watches, misled, events, phase>> /\ t.pc = "lstat"
      /\ phase # "new"
  BY DEF Lstat, disk, TreeInv, NewInv
<1>2. DOMAIN tasks \ {t} \subseteq DOMAIN tasks' /\ DOMAIN answers' = DOMAIN answers \cup {a}
  BY Bags, AddFacts, RemoveFacts DEF TreeInv, Lstat
<1>3. ASSUME NEW c \in Path, Work(c) PROVE Work(c)'
  <2>1. c = t.path => Read(c)'
    <3>1. a \in DOMAIN answers' /\ a.path = t.path /\ a.ino = inode'[t.path]
      BY <1>1, <1>2
    <3>2. QED  BY <3>1 DEF Read
  <2>2. c # t.path /\ Asked(c) => Asked(c)'
    BY <1>1, <1>2 DEF Asked
  <2>3. (Listed(c) => Listed(c)') /\ (Read(c) => Read(c)')
    BY <1>1, <1>2 DEF Listed, Read
  <2>4. QED  BY <1>3, <2>1, <2>2, <2>3 DEF Work
<1>4. QED  BY <1>1, <1>3, WorkStep DEF Live

\* A listing asks for the directory it finds.
LEMMA ListStep ==
  ASSUME TreeInv, NEW t \in DOMAIN tasks, List(t)
  PROVE  ChainInv' /\ NewInv' /\ FollowInv'
<1> DEFINE u == [path |-> t.path + 1, pc |-> "lstat", emit |-> t.emit]
<1>1. /\ UNCHANGED <<inode, watches, misled, events, answers>> /\ t.pc = "list"
      /\ phase # "new" /\ t.path \in Path /\ t.path \in Nat
  BY Bags, PathFacts DEF List, disk, TreeInv, NewInv
<1>2. phase' # "new" /\ (Live' => Live)
  BY <1>1 DEF List, Started, Live
<1>3. PICK rest : /\ rest = BagRemove(tasks, t)
                  /\ DOMAIN tasks \ {t} \subseteq DOMAIN rest
                  /\ rest \in [DOMAIN rest -> Nat \ {0}]
  BY Bags, RemoveFacts DEF TreeInv
<1>4. DOMAIN rest \subseteq DOMAIN tasks'
  <2>1. DOMAIN BagAdd(rest, u) = DOMAIN rest \cup {u}
    BY <1>3, AddFacts
  <2>2. tasks' = rest \/ tasks' = BagAdd(rest, u)
    BY <1>3 DEF List
  <2>3. QED  BY <2>1, <2>2
<1>5. ASSUME Live, NEW c \in Path, Work(c) PROVE Work(c)'
  <2>1. Asked(c) => Asked(c)'
    BY <1>1, <1>3, <1>4 DEF Asked
  <2>2. Read(c) => Read(c)'
    BY <1>1 DEF Read
  <2>3. c # t.path + 1 /\ Listed(c) => Listed(c)'
    <3>1. c \in Nat
      BY PathFacts
    <3>2. QED  BY <1>1, <1>3, <1>4, <3>1 DEF Listed
  <2>4. c = t.path + 1 /\ Listed(c) => Asked(c)'
    <3>1. SUFFICES ASSUME c = t.path + 1, inode[c] # Nil PROVE Asked(c)'
      BY DEF Listed
    <3>2. t.path < Depth
      BY <1>1, <3>1, WatchAssumption DEF Path
    <3>3. inode[t.path] # Nil
      <4>1. t.path \in 0 .. c
        BY <1>1, <3>1
      <4>2. QED  BY <3>1, <4>1 DEF TreeInv, ChainInv
    <3>4. tasks' = BagAdd(rest, u)
      BY <1>3, <1>5, <3>1, <3>2, <3>3 DEF List, Live
    <3>5. u \in DOMAIN tasks'
      <4>1. DOMAIN BagAdd(rest, u) = DOMAIN rest \cup {u}
        BY <1>3, AddFacts
      <4>2. QED  BY <3>4, <4>1
    <3>6. QED  BY <3>1, <3>5 DEF Asked
  <2>5. QED  BY <1>5, <2>1, <2>2, <2>3, <2>4 DEF Work
<1>6. QED  BY <1>1, <1>2, <1>5, WorkStep

\* What the continuation of an answer leaves alone.
LEMMA TakeAnswer ==
  ASSUME TreeInv, NEW a \in DOMAIN answers, Continue(a)
  PROVE  /\ UNCHANGED <<inode, events>>
         /\ a.path \in Path /\ a.path \in Nat /\ a \in Answer
         /\ DOMAIN answers \ {a} \subseteq DOMAIN answers'
         /\ DOMAIN tasks \subseteq DOMAIN tasks'
         /\ phase # "new" /\ phase' # "new" /\ (Live' => Live)
<1>1. UNCHANGED <<inode, events>> /\ phase # "new"
  BY DEF Continue, disk, TreeInv, NewInv
<1>2. a.path \in Path /\ a.path \in Nat /\ a \in Answer
  BY Bags, PathFacts DEF TreeInv
<1>3. DOMAIN answers \ {a} \subseteq DOMAIN answers'
  BY Bags, RemoveFacts DEF TreeInv, Continue
<1>4. DOMAIN tasks \subseteq DOMAIN tasks'
  <2>1. tasks' = tasks \/ tasks' = BagAdd(tasks, [path |-> a.path, pc |-> "list", emit |-> a.emit])
    <3>1. LeaveWatch(a) \/ CloseWatch(a) \/ AttachWatch(a)
      BY ContinueCases
    <3>2. QED  BY <3>1 DEF LeaveWatch, CloseWatch, AttachWatch
  <2>2. \A x : DOMAIN BagAdd(tasks, x) = DOMAIN tasks \cup {x}
    BY Bags, AddFacts DEF TreeInv
  <2>3. QED  BY <2>1, <2>2
<1>5. phase' # "new" /\ (Live' => Live)
  BY <1>1, ContinueCases DEF LeaveWatch, CloseWatch, AttachWatch, Started, Live
<1>6. QED  BY <1>1, <1>2, <1>3, <1>4, <1>5

\* An answer takes away only the work of its own path, and only when it saw
\* the path as it is now.
LEMMA WorkAfter ==
  ASSUME TreeInv, NEW a \in DOMAIN answers, Continue(a),
         NEW c \in Path, Work(c), c # a.path \/ a.ino # inode[c]
  PROVE  Work(c)'
<1>1. (Asked(c) => Asked(c)') /\ (Listed(c) => Listed(c)')
  BY TakeAnswer DEF Asked, Listed
<1>2. Read(c) => Read(c)'
  BY TakeAnswer DEF Read
<1>3. QED  BY <1>1, <1>2 DEF Work

\* A path that is known, or stopped, is left alone, and rightly so.
LEMMA LeaveStep ==
  ASSUME TreeInv, NEW a \in DOMAIN answers, Continue(a), Live,
         a.ino # Nil, Known(a), LeaveWatch(a), NEW d \in Path
  PROVE  Followed(d)'
<1>1. UNCHANGED <<inode, watches, misled>> /\ Followed(d)
  BY TakeAnswer DEF LeaveWatch, TreeInv, FollowInv
<1>2. Reached(d)' => Reached(d)
  BY <1>1 DEF Reached, Hears
<1>3. CASE d # a.path \/ a.ino # inode[d]
  BY <1>1, <1>2, <1>3, WorkAfter, FollowedFrame
<1>4. CASE d = a.path /\ a.ino = inode[d]
  <2>1. Tracked(d)
    BY <1>4 DEF Known, Tracked, Hears, Lost
  <2>2. Tracked(d)'
    BY <1>1, <2>1 DEF Tracked, Hears, Lost
  <2>3. QED  BY <2>2 DEF Followed
<1>5. QED  BY <1>3, <1>4

\* Closing is right where the directory is gone; elsewhere the path is misled,
\* unless it was not watched: then the work that is due is still due.
LEMMA CloseStep ==
  ASSUME TreeInv, NEW a \in DOMAIN answers, Continue(a), Live,
         a.ino = Nil \/ inode[a.path] = Nil, CloseWatch(a), NEW d \in Path
  PROVE  Followed(d)'
<1>1. /\ inode' = inode /\ Followed(d) /\ d \in Nat /\ a.path \in Nat /\ a.path \in Path
      /\ \A c \in Path : watches'[c] = IF c >= a.path THEN Nil ELSE watches[c]
      /\ misled \subseteq misled'
  BY TakeAnswer, PathFacts DEF CloseWatch, Closed, TreeInv, FollowInv
<1>2. CASE d > a.path
  <2>1. d - 1 \in Path /\ d - 1 >= a.path /\ d # 0
    BY <1>1, <1>2, PathFacts
  <2>2. QED  BY <1>1, <2>1 DEF Followed, Reached, Hears
<1>3. CASE d < a.path
  <2>1. watches'[d] = watches[d]
    BY <1>1, <1>3
  <2>2. Reached(d)' => Reached(d)
    <3>1. d = 0 \/ (d - 1 \in Path /\ ~(d - 1 >= a.path))
      BY <1>1, <1>3, PathFacts
    <3>2. QED  BY <1>1, <3>1 DEF Reached, Hears
  <2>3. d # a.path
    BY <1>1, <1>3
  <2>4. QED  BY <1>1, <2>1, <2>2, <2>3, WorkAfter, FollowedFrame
<1>4. CASE d = a.path
  <2>1. watches'[d] = Nil
    BY <1>1, <1>4
  <2>2. CASE inode[d] = Nil
    BY <1>1, <2>1, <2>2 DEF Followed, Tracked
  <2>3. CASE inode[d] # Nil /\ watches[d] # Nil
    <3>1. d \in misled'
      BY <1>4, <2>3 DEF CloseWatch
    <3>2. QED  BY <1>1, <2>3, <3>1 DEF Followed, Tracked, Lost
  <2>4. CASE inode[d] # Nil /\ watches[d] = Nil
    <3>1. Reached(d)' => Reached(d)
      <4>1. d = 0 \/ (d - 1 \in Path /\ ~(d - 1 >= a.path))
        BY <1>1, <1>4, PathFacts
      <4>2. QED  BY <1>1, <4>1 DEF Reached, Hears
    <3>2. a.ino # inode[d]
      BY <1>4, <2>4
    <3>3. QED  BY <1>1, <2>1, <2>4, <3>1, <3>2, WorkAfter, FollowedFrame
  <2>5. QED  BY <2>2, <2>3, <2>4
<1>5. QED  BY <1>1, <1>2, <1>3, <1>4

\* An attached directory is heard; the one below it has lost its watch, and
\* will be found by the listing.
LEMMA AttachStep ==
  ASSUME TreeInv, NEW a \in DOMAIN answers, Continue(a), Live,
         a.ino # Nil, inode[a.path] # Nil, AttachWatch(a), NEW d \in Path
  PROVE  Followed(d)'
<1> DEFINE w == [ino |-> a.ino, live |-> TRUE]
<1>1. /\ inode' = inode /\ Followed(d) /\ d \in Nat /\ a.path \in Nat /\ a.path \in Path
      /\ \A c \in Path : watches'[c] = IF c = a.path THEN w
                                       ELSE IF c >= a.path THEN Nil ELSE watches[c]
      /\ \A c \in Path : c \in misled /\ c # a.path => c \in misled'
  BY TakeAnswer, PathFacts DEF AttachWatch, Closed, TreeInv, FollowInv
<1>2. CASE d = a.path
  <2>1. w \in Watch
    BY TakeAnswer DEF Answer, Watch
  <2>2. watches'[d] # Nil /\ watches'[d].live
    BY <1>1, <1>2, <2>1, WatchAssumption DEF Watch
  <2>3. QED  BY <1>1, <1>2, <2>2 DEF Followed, Tracked, Hears
<1>3. CASE d < a.path
  <2>1. watches'[d] = watches[d] /\ d # a.path
    BY <1>1, <1>3
  <2>2. Reached(d)' => Reached(d)
    <3>1. d = 0 \/ (d - 1 \in Path /\ ~(d - 1 >= a.path) /\ d - 1 # a.path)
      BY <1>1, <1>3, PathFacts
    <3>2. QED  BY <1>1, <3>1 DEF Reached, Hears
  <2>3. QED  BY <1>1, <2>1, <2>2, WorkAfter, FollowedFrame
<1>4. CASE d = a.path + 1
  <2>1. watches'[d] = Nil
    BY <1>1, <1>4
  <2>2. inode[d] # Nil => Listed(d)'
    <3>1. [path |-> a.path, pc |-> "list", emit |-> a.emit] \in DOMAIN tasks'
      BY Bags, AddFacts DEF TreeInv, AttachWatch
    <3>2. a.path = d - 1
      BY <1>1, <1>4
    <3>3. QED  BY <1>1, <3>1, <3>2 DEF Listed
  <2>3. QED  BY <1>1, <2>1, <2>2 DEF Followed, Tracked, Work
<1>5. CASE d > a.path + 1
  <2>1. d - 1 \in Path /\ d - 1 >= a.path /\ d - 1 # a.path /\ d # 0
    BY <1>1, <1>5, PathFacts
  <2>2. QED  BY <1>1, <2>1 DEF Followed, Reached, Hears
<1>6. QED  BY <1>1, <1>2, <1>3, <1>4, <1>5

\* In whatever order answers come, what the watcher has not got right it will
\* look at.
LEMMA ContinueStep ==
  ASSUME TreeInv, NEW a \in DOMAIN answers, Continue(a)
  PROVE  ChainInv' /\ NewInv' /\ FollowInv'
<1>1. ChainInv' /\ NewInv' /\ (Live' => Live)
  BY TakeAnswer DEF TreeInv, ChainInv, NewInv
<1>2. ASSUME Live, NEW d \in Path PROVE Followed(d)'
  <2>1. phase # "stopped"
    BY <1>2 DEF Live
  <2>2. \/ a.ino # Nil /\ Known(a) /\ LeaveWatch(a)
        \/ (a.ino = Nil \/ inode[a.path] = Nil) /\ CloseWatch(a)
        \/ a.ino # Nil /\ inode[a.path] # Nil /\ AttachWatch(a)
    BY <2>1, ContinueCases
  <2>3. QED  BY <1>2, <2>2, LeaveStep, CloseStep, AttachStep
<1>3. QED  BY <1>1, <1>2 DEF FollowInv

-----------------------------------------------------------------------------
(* The theorem                                                             *)

\* The invariant is inductive.
LEMMA TreeInductive ==
  ASSUME TreeInv, [Next]_vars
  PROVE  TreeInv'
<1>1. TypeOK'
  BY TypesInductive DEF TreeInv
<1>2. CASE UNCHANGED vars
  BY <1>1, <1>2, QuietStep DEF TreeInv, vars
<1>3. ASSUME NEW d \in Path, MakeDir(d) \/ RemoveDir(d) \/ WriteFile(d) PROVE TreeInv'
  <2>1. WriteFile(d) => UNCHANGED <<inode, watches, events, tasks, answers, misled, phase>>
    BY DEF WriteFile
  <2>2. QED  BY <1>1, <1>3, <2>1, MakeDirStep, RemoveDirStep, QuietStep DEF TreeInv
<1>4. CASE Start \/ Stop
  BY <1>1, <1>4, StartStep, StopStep DEF TreeInv
<1>5. ASSUME NEW d \in Path, HandleEvent(d) \/ Timer(d) PROVE TreeInv'
  <2>1. Timer(d) => UNCHANGED <<inode, watches, events, tasks, answers, misled, phase>>
    BY DEF Timer, disk
  <2>2. QED  BY <1>1, <1>5, <2>1, EventStep, QuietStep DEF TreeInv
<1>6. ASSUME NEW t \in DOMAIN tasks, Lstat(t) \/ List(t) PROVE TreeInv'
  BY <1>1, <1>6, LstatStep, ListStep DEF TreeInv
<1>7. ASSUME NEW a \in DOMAIN answers, Continue(a) PROVE TreeInv'
  BY <1>1, <1>7, ContinueStep DEF TreeInv
<1>8. CASE RunEnds
  <2>1. UNCHANGED <<inode, watches, events, tasks, answers, misled, phase>>
    BY <1>8 DEF RunEnds, disk
  <2>2. QED  BY <1>1, <2>1, QuietStep DEF TreeInv
<1>9. QED  BY <1>2, <1>3, <1>4, <1>5, <1>6, <1>7, <1>8 DEF Next, Discover, Answered

\* When RecursiveKbWatcher has caught up, each directory below one that is
\* heard is heard as well, or was lost in one of the two ways of Lost, and no
\* handle is kept for one that is gone: for any tree, answers of lstat in any
\* order, and inode numbers given again at once.
THEOREM MapFollowsTree == Spec => []WatchesFollowTree
<1>1. Init => TreeInv
  <2>1. SUFFICES ASSUME Init PROVE TreeInv
    OBVIOUS
  <2>2. ChainInv
    <3>1. /\ inode[0] = RootInode
          /\ \A d \in Path : inode[d] # Nil => \A c \in 0 .. (d - 1) : inode[c] # Nil
      BY <2>1 DEF Init, Trees
    <3>2. ASSUME NEW d \in Path, inode[d] # Nil, NEW c \in 0 .. d PROVE inode[c] # Nil
      <4>1. c = d \/ c \in 0 .. (d - 1)
        BY PathFacts
      <4>2. QED  BY <3>1, <3>2, <4>1
    <3>3. QED  BY <3>1, <3>2 DEF ChainInv
  <2>3. NewInv /\ ~Live
    BY <2>1 DEF Init, NewInv, Live, None
  <2>4. QED  BY <2>1, <2>2, <2>3, TypesInductive DEF TreeInv, FollowInv
<1>2. TreeInv /\ [Next]_vars => TreeInv'
  BY TreeInductive
<1>3. TreeInv => WatchesFollowTree
  <2>1. SUFFICES ASSUME TreeInv, Settled, NEW d \in Path, Reached(d) PROVE Tracked(d)
    BY DEF WatchesFollowTree, Reached
  <2>2. Live /\ events = {} /\ DOMAIN tasks = {} /\ DOMAIN answers = {}
    BY <2>1 DEF Settled, Live, None
  <2>3. ~Work(d)
    BY <2>2 DEF Work, Asked, Listed, Read
  <2>4. QED  BY <2>1, <2>2, <2>3 DEF TreeInv, FollowInv, Followed
<1>4. QED  BY <1>1, <1>2, <1>3, PTL DEF Spec
=============================================================================
