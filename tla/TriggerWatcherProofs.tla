------------------------ MODULE TriggerWatcherProofs ------------------------
(***************************************************************************)
(* Proofs about TriggerWatcher, for every number of reindex processes,     *)
(* overlapping ticks, touches and starts, and for both builds: types, the  *)
(* release of the run-state file, the bound on refreshes, and stop().      *)
(***************************************************************************)
EXTENDS TriggerWatcherProps, TLAPS

Place == {"down", "catchup", "lookup", "polling", "stopping"}

WatcherState ==
  [up : Place, last : Mtime \cup {Nil}, sawAbsent : BOOLEAN, pending : BOOLEAN,
   stopped : BOOLEAN, seen : Mtime \cup {Nil}]

RunType == [pc : {"none", "lock", "updating", "ending"}, from : 0 .. MaxTouches]

\* The types of what the reindex processes change.
ReindexTypes ==
  /\ index \in [covered : 0 .. MaxTouches, mtime : 0 .. MaxTouches]
  /\ lock \in Reindexers \cup {Server, Nil}
  /\ runState \in RunState \cup {Nil}
  /\ reindexer \in [Reindexers -> [pc : {"new", "reclaim", "announce", "lock", "updating",
                                         "caught", "finally", "done", "killed"},
                                   from : 0 .. MaxTouches]]
  /\ host \in [Reindexers -> {"here", "there"}]

\* The types of what the server and its environment change.
ServerTypes ==
  /\ touches \in 1 .. MaxTouches
  /\ build \in Builds
  /\ trigger \in Mtime \cup {Nil}
  /\ watcher \in WatcherState
  /\ poll \in [Polls -> Mtime \cup {Absent, Nil}]
  /\ run \in RunType
  /\ starts \in 0 .. MaxStarts
  /\ asked \in 0 .. MaxTouches /\ settled \in 0 .. MaxTouches
  /\ fired \in Nat

\* A server that is down refreshes nothing, and holds the lock only while it
\* updates.
RunInv ==
  /\ watcher.up = "down" => run.pc = "none"
  /\ lock = Server => run.pc = "updating"
  /\ watcher.up = "lookup" => watcher.seen # Nil

\* Until the timer is set no stat is outstanding, and there is no baseline.
StartInv ==
  /\ watcher.up \in {"catchup", "lookup"} => watcher.last = Nil
  /\ watcher.up \in {"down", "catchup", "lookup"} => \A k \in Polls : poll[k] = Nil

\* No mtime is from the future.
MtimesPast ==
  /\ trigger # Nil => trigger <= touches
  /\ watcher.last # Nil => watcher.last <= touches
  /\ watcher.seen # Nil => watcher.seen <= touches
  /\ \A k \in Polls : poll[k] # Nil => poll[k] <= touches

Owing(w) == IF w.pending THEN 1 ELSE 0
Baseline(w) == IF w.last = Nil THEN 0 ELSE w.last

\* Every refresh, and the one the flag stands for, has an mtime of its own
\* that the baseline has passed.
Credit == fired + Owing(watcher) <= Baseline(watcher)

ServerInv == RunInv /\ StartInv /\ MtimesPast /\ Credit
Inv == ReindexTypes /\ ServerTypes /\ RunStateReleased /\ ServerInv

LEMMA TypesSplit == TypeOK <=> ReindexTypes /\ ServerTypes
BY DEF TypeOK, ReindexTypes, ServerTypes, WatcherState, RunType, Place

LEMMA InvInit == Init => Inv
<1> SUFFICES ASSUME Init PROVE Inv
  OBVIOUS
<1>1. touches = 1 /\ 1 \in 1 .. MaxTouches /\ 1 \in Mtime /\ MaxTouches \in Nat \ {0}
  BY WatcherAssumption DEF Init, Mtime
<1>2. watcher \in WatcherState /\ watcher.up = "down" /\ watcher.last = Nil /\ ~watcher.pending
      /\ watcher.seen = Nil
  BY DEF Init, NewWatcher, WatcherState, Place
<1>3. run \in RunType /\ run.pc = "none"
  BY <1>1 DEF Init, NoRun, At, RunType
<1>4. poll \in [Polls -> Mtime \cup {Absent, Nil}] /\ \A k \in Polls : poll[k] = Nil
  BY DEF Init
<1>5. ServerTypes
  BY <1>1, <1>2, <1>3, <1>4, WatcherAssumption DEF Init, ServerTypes
<1>6. ReindexTypes
  <2>1. index \in [covered : 0 .. MaxTouches, mtime : 0 .. MaxTouches]
    <3>1. 1 .. touches = {1} /\ 1 \in 0 .. MaxTouches /\ 0 \in 0 .. MaxTouches
      BY <1>1
    <3>2. index \in {[covered |-> 0, mtime |-> 0], [covered |-> 1, mtime |-> 1]}
      BY <3>1 DEF Init, ReindexInit
    <3> QED BY <3>1, <3>2
  <2>2. reindexer \in [Reindexers -> [pc : {"new"}, from : 0 .. MaxTouches]]
    BY <1>1 DEF Init, ReindexInit, At
  <2> QED BY <2>1, <2>2 DEF Init, ReindexInit, ReindexTypes
<1>7. RunStateReleased
  BY DEF Init, ReindexInit, RunStateReleased
<1>8. ServerInv
  BY <1>1, <1>2, <1>3, <1>4, ReindexAssumption
     DEF Init, ReindexInit, ServerInv, RunInv, StartInv, MtimesPast, Credit, Owing, Baseline
<1> QED BY <1>5, <1>6, <1>7, <1>8 DEF Inv

-----------------------------------------------------------------------------
(* Steps of the reindex processes                                          *)

LEMMA BesideKeeps ==
  ASSUME Inv, Beside, lock' = Server => lock = Server
  PROVE  ServerTypes' /\ ServerInv'
<1>1. /\ touches' = touches /\ build' = build /\ trigger' = trigger /\ watcher' = watcher /\ poll' = poll
      /\ run' = run /\ starts' = starts /\ asked' = asked /\ settled' = settled /\ fired' = fired
  BY DEF Beside, serverVars
<1> QED BY <1>1 DEF Inv, ServerTypes, ServerInv, RunInv, StartInv, MtimesPast, Credit, Owing, Baseline

\* A reindex process moves to r, as an owner of the run-state file only where
\* it is past its announcement.
ReindexMoves(p, r) ==
  /\ r \in [pc : {"new", "reclaim", "announce", "lock", "updating",
                  "caught", "finally", "done", "killed"},
            from : 0 .. MaxTouches]
  /\ reindexer' = [reindexer EXCEPT ![p] = r]
  /\ \/ runState' = Nil
     \/ /\ runState' = [owner |-> p, pid |-> "live"]
        /\ r.pc = "lock"
     \/ /\ runState' = runState
        /\ \/ r.pc \in {"lock", "updating", "caught", "finally"}
           \/ reindexer[p].pc \notin {"lock", "updating", "caught", "finally"}
     \/ /\ runState # Nil /\ runState' = [runState EXCEPT !.pid = "dead"]
     \/ /\ runState' = runState /\ ~(runState # Nil /\ runState.owner = p)

LEMMA ReindexMoveKeeps ==
  ASSUME Inv, NEW p \in Reindexers, NEW r, ReindexMoves(p, r),
         index' \in [covered : 0 .. MaxTouches, mtime : 0 .. MaxTouches],
         lock' \in {p, Nil, lock}, host' = host, Beside
  PROVE  Inv'
<1>1. lock' = Server => lock = Server
  BY ReindexAssumption
<1>2. ServerTypes' /\ ServerInv'
  BY <1>1, BesideKeeps
<1>3. runState \in RunState \cup {Nil} /\ reindexer' = [reindexer EXCEPT ![p] = r]
  BY DEF Inv, ReindexTypes, ReindexMoves
<1>4. reindexer'[p] = r /\ \A q \in Reindexers : q # p => reindexer'[q] = reindexer[q]
  BY <1>3 DEF Inv, ReindexTypes
<1>5. runState' \in RunState \cup {Nil}
  BY <1>3 DEF ReindexMoves, RunState
<1>6. reindexer' \in [Reindexers -> [pc : {"new", "reclaim", "announce", "lock", "updating",
                                           "caught", "finally", "done", "killed"},
                                     from : 0 .. MaxTouches]]
  BY DEF Inv, ReindexTypes, ReindexMoves
<1>7. ReindexTypes'
  BY <1>5, <1>6 DEF Inv, ReindexTypes
<1>8. RunStateReleased'
  <2> SUFFICES ASSUME runState' # Nil, runState'.pid = "live"
               PROVE  reindexer'[runState'.owner].pc \in {"lock", "updating", "caught", "finally"}
    BY DEF RunStateReleased
  <2>1. CASE runState' = [owner |-> p, pid |-> "live"] /\ r.pc = "lock"
    BY <2>1, <1>4
  <2>2. CASE runState' = runState
    <3>1. runState \in RunState /\ runState.owner \in Reindexers
          /\ reindexer[runState.owner].pc \in {"lock", "updating", "caught", "finally"}
      BY <2>2, <1>3 DEF Inv, RunStateReleased, RunState
    <3>2. CASE runState.owner # p
      BY <2>2, <3>1, <3>2, <1>4
    <3>3. CASE runState.owner = p
      <4>1. runState' # [runState EXCEPT !.pid = "dead"]
        BY <3>1 DEF RunState
      <4>2. r.pc \in {"lock", "updating", "caught", "finally"}
        BY <2>2, <3>1, <3>3, <4>1 DEF ReindexMoves
      <4> QED BY <2>2, <3>3, <4>2, <1>4
    <3> QED BY <3>2, <3>3
  <2>3. CASE runState # Nil /\ runState' = [runState EXCEPT !.pid = "dead"]
    BY <2>3, <1>3 DEF RunState
  <2> QED BY <2>1, <2>2, <2>3 DEF ReindexMoves
<1> QED BY <1>2, <1>7, <1>8 DEF Inv

LEMMA ReindexingKeeps == ASSUME Inv, Reindexing PROVE Inv'
<1>1. ASSUME NEW p \in Reindexers, Beside, ReindexStep(p) \/ CheckRunState(p) \/ KillReindex(p)
      PROVE  Inv'
  <2>1. /\ reindexer[p] \in [pc : {"new", "reclaim", "announce", "lock", "updating",
                                   "caught", "finally", "done", "killed"}, from : 0 .. MaxTouches]
        /\ index \in [covered : 0 .. MaxTouches, mtime : 0 .. MaxTouches]
        /\ touches \in 0 .. MaxTouches /\ 0 \in 0 .. MaxTouches
    BY <1>1, WatcherAssumption DEF Inv, ReindexTypes, ServerTypes
  <2>2. index' \in [covered : 0 .. MaxTouches, mtime : 0 .. MaxTouches]
    <3>1. index' \in {index, Saved(reindexer[p].from)}
      BY <1>1 DEF ReindexStep, CheckRunState, KillReindex, ReclaimRunState, WriteRunState, ReindexLock,
                  ReindexContends, ReindexCommits, ReindexFails, DeleteRunState
    <3>2. Saved(reindexer[p].from) \in [covered : 0 .. MaxTouches, mtime : 0 .. MaxTouches]
      BY <2>1 DEF Saved
    <3> QED BY <2>1, <3>1, <3>2
  <2>3. lock' \in {p, Nil, lock} /\ host' = host
    BY <1>1 DEF ReindexStep, CheckRunState, KillReindex, ReclaimRunState, WriteRunState, ReindexLock,
                ReindexContends, ReindexCommits, ReindexFails, DeleteRunState
  <2>4. CASE CheckRunState(p)
    <3> DEFINE r == [reindexer[p] EXCEPT !.pc =
                       IF Active(host[p]) THEN "done"
                       ELSE IF runState = Nil THEN "announce" ELSE "reclaim"]
    <3>1. ReindexMoves(p, r)
      BY <2>1, <2>4 DEF CheckRunState, ReindexMoves
    <3> QED BY <1>1, <2>2, <2>3, <3>1, ReindexMoveKeeps
  <2>5. CASE ReclaimRunState(p)
    <3>1. ReindexMoves(p, [reindexer[p] EXCEPT !.pc = "announce"])
      BY <2>1, <2>5 DEF ReclaimRunState, ReindexMoves
    <3> QED BY <1>1, <2>2, <2>3, <3>1, ReindexMoveKeeps
  <2>6. CASE WriteRunState(p)
    <3>1. ReindexMoves(p, [reindexer[p] EXCEPT !.pc = "lock"])
      BY <2>1, <2>6 DEF WriteRunState, ReindexMoves
    <3> QED BY <1>1, <2>2, <2>3, <3>1, ReindexMoveKeeps
  <2>7. CASE ReindexLock(p)
    <3>1. ReindexMoves(p, [pc |-> "updating", from |-> touches])
      BY <2>1, <2>7 DEF ReindexLock, ReindexMoves
    <3> QED BY <1>1, <2>2, <2>3, <3>1, ReindexMoveKeeps
  <2>8. CASE ReindexContends(p)
    <3>1. ReindexMoves(p, [reindexer[p] EXCEPT !.pc = "caught"])
      BY <2>1, <2>8 DEF ReindexContends, ReindexMoves
    <3> QED BY <1>1, <2>2, <2>3, <3>1, ReindexMoveKeeps
  <2>9. CASE ReindexCommits(p)
    <3>1. ReindexMoves(p, At("finally"))
      BY <2>1, <2>9 DEF ReindexCommits, ReindexMoves, At
    <3> QED BY <1>1, <2>2, <2>3, <3>1, ReindexMoveKeeps
  <2>10. CASE ReindexFails(p)
    <3>1. ReindexMoves(p, At("caught"))
      BY <2>1, <2>10 DEF ReindexFails, ReindexMoves, At
    <3> QED BY <1>1, <2>2, <2>3, <3>1, ReindexMoveKeeps
  <2>11. CASE DeleteRunState(p)
    <3>1. PICK pc \in {"finally", "done"} : reindexer' = [reindexer EXCEPT ![p].pc = pc]
      BY <2>11 DEF DeleteRunState
    <3>2. ReindexMoves(p, [reindexer[p] EXCEPT !.pc = pc])
      BY <2>1, <2>11, <3>1 DEF DeleteRunState, ReindexMoves
    <3> QED BY <1>1, <2>2, <2>3, <3>2, ReindexMoveKeeps
  <2>12. CASE KillReindex(p)
    <3>1. ReindexMoves(p, At("killed"))
      BY <2>1, <2>12 DEF KillReindex, ReindexMoves, At
    <3> QED BY <1>1, <2>2, <2>3, <3>1, ReindexMoveKeeps
  <2> QED BY <1>1, <2>4, <2>5, <2>6, <2>7, <2>8, <2>9, <2>10, <2>11, <2>12 DEF ReindexStep
<1>2. CASE (RecyclePid \/ AgeOut) /\ Beside
  <2>1. ServerTypes' /\ ServerInv'
    BY <1>2, BesideKeeps DEF RecyclePid, AgeOut
  <2>2. PICK pid \in {"recycled", "aged"} : runState' = [runState EXCEPT !.pid = pid] /\ runState # Nil
    BY <1>2 DEF RecyclePid, AgeOut
  <2>3. runState' \in RunState /\ runState'.pid = pid
    BY <2>2 DEF Inv, ReindexTypes, RunState
  <2>4. ReindexTypes'
    BY <1>2, <2>3 DEF Inv, ReindexTypes, RecyclePid, AgeOut
  <2>5. RunStateReleased'
    BY <2>3 DEF RunStateReleased
  <2> QED BY <2>1, <2>4, <2>5 DEF Inv
<1> QED BY <1>1, <1>2 DEF Reindexing

-----------------------------------------------------------------------------
(* Steps of the server                                                     *)

\* What a step of the server leaves alone of the reindex processes.
LEMMA ServerStepKeeps ==
  ASSUME Inv, UNCHANGED <<runState, reindexer, host>>,
         index' \in [covered : 0 .. MaxTouches, mtime : 0 .. MaxTouches],
         lock' \in Reindexers \cup {Server, Nil}, ServerTypes', ServerInv'
  PROVE  Inv'
BY DEF Inv, ReindexTypes, RunStateReleased

LEMMA ReindexAloneKeeps ==
  ASSUME Inv, UNCHANGED reindexVars, ServerTypes', ServerInv'
  PROVE  Inv'
BY ServerStepKeeps DEF reindexVars, Inv, ReindexTypes

LEMMA TouchKeeps == ASSUME Inv, Touch \/ RemoveTrigger PROVE Inv'
<1>1. touches \in 1 .. MaxTouches /\ MaxTouches \in Nat
  BY WatcherAssumption DEF Inv, ServerTypes
<1>2. touches' \in 1 .. MaxTouches /\ touches <= touches' /\ trigger' \in Mtime \cup {Nil}
      /\ (trigger' # Nil => trigger' <= touches')
  BY <1>1 DEF Touch, RemoveTrigger, Mtime
<1>3. ServerTypes'
  BY <1>2 DEF Inv, ServerTypes, Touch, RemoveTrigger, serverVars
<1>4. MtimesPast'
  <2>1. /\ watcher.last # Nil => watcher.last \in Mtime
        /\ watcher.seen # Nil => watcher.seen \in Mtime
        /\ \A k \in Polls : poll[k] # Nil => poll[k] \in Mtime \cup {Absent}
    BY DEF Inv, ServerTypes, WatcherState
  <2> QED BY <1>1, <1>2, <2>1 DEF Inv, ServerInv, MtimesPast, Touch, RemoveTrigger, serverVars, Mtime, Absent
<1>5. RunInv' /\ StartInv' /\ Credit'
  BY DEF Inv, ServerInv, RunInv, StartInv, Credit, Owing, Baseline, Touch, RemoveTrigger, serverVars, reindexVars
<1> QED BY <1>3, <1>4, <1>5, ReindexAloneKeeps DEF ServerInv, Touch, RemoveTrigger

\* A request: it starts a refresh, leaves the flag, or does nothing.
LEMMA Request ==
  ASSUME Inv, NEW w \in WatcherState, RequestRun(w)
  PROVE  /\ watcher' \in WatcherState
         /\ watcher'.up = w.up /\ watcher'.last = w.last /\ watcher'.seen = w.seen
         /\ watcher'.stopped = w.stopped
         /\ run' \in RunType /\ asked' \in 0 .. MaxTouches /\ fired' \in Nat
         /\ run' = run \/ run.pc = "none"
         /\ fired' + Owing(watcher') <= fired + 1 + Owing(w)
         /\ ~w.pending => fired' + Owing(watcher') <= fired + 1
         /\ w.stopped => watcher' = w /\ fired' = fired
<1>1. touches \in 0 .. MaxTouches /\ fired \in Nat /\ run \in RunType /\ asked \in 0 .. MaxTouches
      /\ 0 \in 0 .. MaxTouches
  BY WatcherAssumption DEF Inv, ServerTypes
<1>2. CASE w.stopped \/ run.pc # "none" \/ ShouldDefer
  <2>1. watcher' = [w EXCEPT !.pending = w.pending \/ ~w.stopped] /\ UNCHANGED <<run, asked, fired>>
    BY <1>2 DEF RequestRun
  <2>2. /\ watcher'.up = w.up /\ watcher'.last = w.last /\ watcher'.seen = w.seen
        /\ watcher'.stopped = w.stopped /\ watcher'.pending = (w.pending \/ ~w.stopped)
        /\ watcher' \in WatcherState
    BY <2>1 DEF WatcherState
  <2>3. w.stopped => watcher' = w
    BY <2>1 DEF WatcherState
  <2> QED BY <1>1, <2>1, <2>2, <2>3 DEF Owing
<1>3. CASE ~(w.stopped \/ run.pc # "none" \/ ShouldDefer)
  <2>1. watcher' = w /\ run' = At("lock") /\ asked' = touches /\ fired' = fired + 1 /\ run.pc = "none"
    BY <1>3 DEF RequestRun
  <2> QED BY <1>1, <1>3, <2>1 DEF Owing, RunType, At
<1> QED BY <1>2, <1>3

LEMMA StartServerKeeps == ASSUME Inv, StartServer PROVE Inv'
<1>1. NewWatcher \in WatcherState
  BY DEF NewWatcher, WatcherState, Place
<1>2. 0 \in 0 .. MaxTouches /\ starts' \in 0 .. MaxStarts
  BY WatcherAssumption DEF Inv, ServerTypes, StartServer
<1>3. ServerTypes'
  BY <1>1, <1>2 DEF Inv, ServerTypes, StartServer
<1>4. ServerInv'
  BY DEF Inv, ServerInv, RunInv, StartInv, MtimesPast, Credit, Owing, Baseline, StartServer, NewWatcher,
         reindexVars
<1> QED BY <1>3, <1>4, ReindexAloneKeeps DEF StartServer

\* Steps that touch the watcher and the outstanding stats only.
LEMMA WatcherMoveKeeps ==
  ASSUME Inv, UNCHANGED <<touches, reindexVars, build, trigger, run, starts, asked, fired>>,
         watcher' \in WatcherState, settled' \in 0 .. MaxTouches,
         poll' \in [Polls -> Mtime \cup {Absent, Nil}],
         watcher'.up = "down" => watcher.up = "down" \/ run.pc = "none",
         watcher'.up = "lookup" => watcher'.seen # Nil, StartInv',
         watcher'.last # Nil => watcher'.last <= touches,
         watcher'.seen # Nil => watcher'.seen <= touches,
         \A k \in Polls : poll'[k] # Nil => poll'[k] <= touches,
         watcher'.pending = watcher.pending, Baseline(watcher') >= Baseline(watcher),
         Baseline(watcher') \in Nat, Baseline(watcher) \in Nat
  PROVE  Inv'
<1>1. ServerTypes'
  BY DEF Inv, ServerTypes
<1>2. RunInv' /\ MtimesPast'
  BY DEF Inv, ServerInv, RunInv, MtimesPast, reindexVars
<1>3. Credit'
  BY DEF Inv, ServerInv, ServerTypes, Credit, Owing
<1> QED BY <1>1, <1>2, <1>3, ReindexAloneKeeps DEF ServerInv

LEMMA WatcherFacts ==
  ASSUME Inv
  PROVE  /\ watcher \in WatcherState
         /\ touches \in 1 .. MaxTouches /\ Mtime \subseteq Nat /\ Mtime \subseteq 0 .. MaxTouches
         /\ Nil \notin Nat /\ MaxTouches \in Nat
         /\ Baseline(watcher) \in Nat
         /\ trigger \in Mtime \cup {Nil}
         /\ poll \in [Polls -> Mtime \cup {Absent, Nil}]
         /\ MtimesPast
<1>1. watcher \in WatcherState /\ touches \in 1 .. MaxTouches /\ MtimesPast
      /\ trigger \in Mtime \cup {Nil} /\ poll \in [Polls -> Mtime \cup {Absent, Nil}]
  BY DEF Inv, ServerTypes, ServerInv
<1>2. Mtime \subseteq Nat /\ Mtime \subseteq 0 .. MaxTouches /\ Nil \notin Nat /\ MaxTouches \in Nat
  BY WatcherAssumption DEF Mtime
<1>3. watcher.last \in Mtime \cup {Nil}
  BY <1>1 DEF WatcherState
<1>4. Baseline(watcher) \in Nat
  BY <1>2, <1>3 DEF Baseline
<1> QED BY <1>1, <1>2, <1>4

LEMMA CatchUpStatKeeps == ASSUME Inv, CatchUpStat PROVE Inv'
<1>1. watcher \in WatcherState /\ trigger \in Mtime \cup {Nil} /\ Baseline(watcher) \in Nat
      /\ poll \in [Polls -> Mtime \cup {Absent, Nil}] /\ MtimesPast
  BY WatcherFacts
<1>2. /\ watcher' \in WatcherState /\ watcher'.last = watcher.last /\ watcher'.pending = watcher.pending
      /\ watcher'.up # "down"
      /\ (watcher'.seen = watcher.seen /\ watcher'.up # "lookup")
           \/ (watcher'.seen = trigger /\ trigger # Nil)
  BY <1>1 DEF CatchUpStat, Timer, WatcherState, Place
<1>3. Baseline(watcher') = Baseline(watcher)
  BY <1>2 DEF Baseline
<1>4. settled \in 0 .. MaxTouches /\ poll' = poll /\ settled' = settled
  BY DEF Inv, ServerTypes, CatchUpStat
<1>5. UNCHANGED <<touches, reindexVars, build, trigger, run, starts, asked, fired>>
  BY DEF CatchUpStat
<1>6. Baseline(watcher') >= Baseline(watcher) /\ Baseline(watcher') \in Nat
  BY <1>1, <1>3
<1>7. StartInv'
  BY <1>2, <1>4 DEF Inv, ServerInv, StartInv, CatchUpStat
<1> QED BY <1>1, <1>2, <1>4, <1>5, <1>6, <1>7, WatcherMoveKeeps DEF MtimesPast

LEMMA PollStatKeeps == ASSUME Inv, NEW k \in Polls, PollStat(k) PROVE Inv'
<1>1. watcher \in WatcherState /\ trigger \in Mtime \cup {Nil} /\ Baseline(watcher) \in Nat
      /\ poll \in [Polls -> Mtime \cup {Absent, Nil}] /\ MtimesPast /\ touches \in 1 .. MaxTouches
      /\ MaxTouches \in Nat
  BY WatcherFacts
<1>2. \A j \in Polls : poll'[j] = IF j = k THEN (IF trigger = Nil THEN Absent ELSE trigger) ELSE poll[j]
  BY <1>1 DEF PollStat
<1>3. poll' \in [Polls -> Mtime \cup {Absent, Nil}]
  BY <1>1 DEF PollStat
<1>4. \A j \in Polls : poll'[j] # Nil => poll'[j] <= touches
  BY <1>1, <1>2 DEF MtimesPast, Absent
<1>5. settled \in 0 .. MaxTouches /\ settled' = settled /\ watcher' = watcher
  BY DEF Inv, ServerTypes, PollStat
<1>6. UNCHANGED <<touches, reindexVars, build, trigger, run, starts, asked, fired>>
  BY DEF PollStat
<1>7. Baseline(watcher) >= Baseline(watcher)
  BY <1>1
<1>8. watcher.up = "lookup" => watcher.seen # Nil
  BY DEF Inv, ServerInv, RunInv
<1>9. StartInv'
  BY DEF StartInv, PollStat
<1> QED BY <1>1, <1>3, <1>4, <1>5, <1>6, <1>7, <1>8, <1>9, WatcherMoveKeeps DEF MtimesPast

LEMMA StopKeeps == ASSUME Inv, Stop PROVE Inv'
<1>1. watcher \in WatcherState /\ Baseline(watcher) \in Nat
      /\ poll \in [Polls -> Mtime \cup {Absent, Nil}] /\ MtimesPast
  BY WatcherFacts
<1>2. /\ watcher' \in WatcherState /\ watcher'.last = watcher.last /\ watcher'.pending = watcher.pending
      /\ watcher'.seen = watcher.seen /\ watcher'.up # "down"
      /\ watcher'.up = "lookup" => watcher.up = "lookup"
  BY <1>1 DEF Stop, WatcherState, Place
<1>3. Baseline(watcher') = Baseline(watcher)
  BY <1>2 DEF Baseline
<1>4. settled \in 0 .. MaxTouches /\ poll' = poll /\ settled' = settled
  BY DEF Inv, ServerTypes, Stop
<1>5. UNCHANGED <<touches, reindexVars, build, trigger, run, starts, asked, fired>>
  BY DEF Stop
<1>6. Baseline(watcher') >= Baseline(watcher) /\ Baseline(watcher') \in Nat
  BY <1>1, <1>3
<1>7. watcher.up = "lookup" => watcher.seen # Nil
  BY DEF Inv, ServerInv, RunInv
<1>8. StartInv'
  <2>1. watcher'.up = watcher.up \/ watcher'.up = "stopping"
    BY <1>1 DEF Stop, WatcherState
  <2> QED BY <1>2, <1>4, <2>1 DEF Inv, ServerInv, StartInv
<1> QED BY <1>1, <1>2, <1>4, <1>5, <1>6, <1>7, <1>8, WatcherMoveKeeps DEF MtimesPast

\* The server is gone, and with it its stats and its refresh.
LEMMA DownKeeps == ASSUME Inv, Stopped \/ CrashServer PROVE Inv'
<1>1. watcher \in WatcherState
  BY WatcherFacts
<1>2. /\ watcher' \in WatcherState /\ watcher'.last = watcher.last /\ watcher'.pending = watcher.pending
      /\ watcher'.seen = watcher.seen /\ watcher'.up = "down"
  BY <1>1 DEF Stopped, CrashServer, WatcherState, Place
<1>3. poll' \in [Polls -> Mtime \cup {Absent, Nil}] /\ \A k \in Polls : poll'[k] = Nil
  BY DEF Stopped, CrashServer
<1>4. run' \in RunType /\ run'.pc = "none"
  BY WatcherAssumption DEF Inv, ServerTypes, Stopped, CrashServer, NoRun, At, RunType
<1>5. lock' \in {lock, Nil} /\ lock' # Server
  BY ReindexAssumption DEF Inv, ServerInv, RunInv, Stopped, CrashServer, reindexVars
<1>6. ServerTypes'
  BY <1>2, <1>3, <1>4 DEF Inv, ServerTypes, Stopped, CrashServer
<1>7. ServerInv'
  BY <1>2, <1>3, <1>4, <1>5
     DEF Inv, ServerInv, RunInv, StartInv, MtimesPast, Credit, Owing, Baseline, Stopped, CrashServer
<1> QED BY <1>5, <1>6, <1>7, ServerStepKeeps DEF Stopped, CrashServer, reindexVars, Inv, ReindexTypes

\* A step that may ask for a refresh, with the fields of the watcher at w.
LEMMA RequestKeeps ==
  ASSUME Inv, NEW w \in WatcherState, RequestRun(w),
         UNCHANGED <<touches, reindexVars, build, trigger, starts>>,
         settled' \in 0 .. MaxTouches, poll' \in [Polls -> Mtime \cup {Absent, Nil}],
         w.up \notin {"down", "catchup", "lookup"},
         w.last # Nil => w.last <= touches, w.seen # Nil => w.seen <= touches,
         \A k \in Polls : poll'[k] # Nil => poll'[k] <= touches,
         \/ fired + 1 + Owing(w) <= Baseline(w)
         \/ ~w.pending /\ fired + 1 <= Baseline(w)
  PROVE  Inv'
<1>1. /\ watcher' \in WatcherState
      /\ watcher'.up = w.up /\ watcher'.last = w.last /\ watcher'.seen = w.seen
      /\ run' \in RunType /\ asked' \in 0 .. MaxTouches /\ fired' \in Nat
      /\ run' = run \/ run.pc = "none"
      /\ fired' + Owing(watcher') <= fired + 1 + Owing(w)
      /\ ~w.pending => fired' + Owing(watcher') <= fired + 1
  BY Request
<1>2. ServerTypes'
  BY <1>1 DEF Inv, ServerTypes
<1>3. RunInv' /\ StartInv'
  BY <1>1 DEF Inv, ServerInv, RunInv, StartInv, reindexVars
<1>4. MtimesPast'
  BY <1>1 DEF Inv, ServerInv, MtimesPast
<1>5. Credit'
  <2>1. Baseline(watcher)' = Baseline(w)
    BY <1>1 DEF Baseline
  <2>2. fired \in Nat /\ fired' \in Nat /\ Owing(watcher)' \in Nat /\ Owing(w) \in Nat
    BY <1>1 DEF Inv, ServerTypes, Owing
  <2>3. Baseline(w) \in Nat
    <3>1. w.last \in Mtime \cup {Nil}
      BY DEF WatcherState
    <3> QED BY <3>1, WatcherFacts DEF Baseline
  <2>4. Owing(watcher)' = Owing(watcher')
    BY DEF Owing
  <2> HIDE DEF Owing, Baseline
  <2> QED BY <1>1, <2>1, <2>2, <2>3, <2>4 DEF Credit
<1> QED BY <1>2, <1>3, <1>4, <1>5, ReindexAloneKeeps DEF ServerInv

LEMMA CatchUpCompareKeeps == ASSUME Inv, CatchUpCompare PROVE Inv'
<1> DEFINE w == Timer([watcher EXCEPT !.last = watcher.seen, !.seen = Nil])
<1>1. watcher \in WatcherState /\ Mtime \subseteq Nat
      /\ poll \in [Polls -> Mtime \cup {Absent, Nil}] /\ MtimesPast /\ Mtime \subseteq 0 .. MaxTouches
      /\ touches \in 1 .. MaxTouches /\ Nil \notin Nat
  BY WatcherFacts
<1>2. watcher.up = "lookup" /\ watcher.seen # Nil /\ watcher.seen \in Mtime
  BY <1>1 DEF Inv, ServerInv, RunInv, CatchUpCompare, WatcherState
<1>3. w \in WatcherState /\ w.last = watcher.seen /\ w.seen = Nil /\ w.pending = watcher.pending
      /\ w.up \in {"polling", "stopping"}
  BY <1>1, <1>2 DEF Timer, WatcherState, Place
<1>4. watcher.last = Nil /\ ~watcher.pending /\ fired = 0 /\ Baseline(watcher) = 0
  <2>1. watcher.last = Nil
    BY <1>2 DEF Inv, ServerInv, StartInv
  <2>2. fired + Owing(watcher) <= 0 /\ fired \in Nat
    BY <2>1 DEF Inv, ServerInv, Credit, Baseline, ServerTypes
  <2> QED BY <2>1, <2>2 DEF Owing, Baseline
<1>5. Baseline(w) = watcher.seen /\ watcher.seen \in Nat /\ watcher.seen >= 1
  BY <1>1, <1>2, <1>3 DEF Baseline, Mtime
<1>6. UNCHANGED <<touches, reindexVars, build, trigger, starts, poll>>
  BY DEF CatchUpCompare
<1>7. w.last <= touches /\ settled \in 0 .. MaxTouches /\ watcher.seen \in 0 .. MaxTouches
  BY <1>1, <1>2, <1>3 DEF MtimesPast, Inv, ServerTypes
<1> HIDE DEF w
<1>8. CASE watcher' = w /\ settled' = watcher.seen /\ UNCHANGED <<run, asked, fired>>
  <2>1. StartInv'
    BY <1>3, <1>8 DEF StartInv
  <2>2. Baseline(watcher') \in Nat /\ Baseline(watcher') >= Baseline(watcher) /\ Baseline(watcher) \in Nat
    BY <1>4, <1>5, <1>8
  <2> QED BY <1>1, <1>3, <1>4, <1>6, <1>7, <1>8, <2>1, <2>2, WatcherMoveKeeps DEF MtimesPast
<1>9. CASE RequestRun(w) /\ settled' = settled
  <2>1. ~w.pending /\ fired + 1 <= Baseline(w)
    BY <1>3, <1>4, <1>5
  <2> QED BY <1>1, <1>3, <1>6, <1>7, <1>9, <2>1, RequestKeeps DEF MtimesPast
<1> QED BY <1>8, <1>9 DEF CatchUpCompare, w

LEMMA PollContinuesKeeps == ASSUME Inv, NEW k \in Polls, PollContinues(k) PROVE Inv'
<1>1. watcher \in WatcherState /\ Baseline(watcher) \in Nat /\ Mtime \subseteq Nat
      /\ poll \in [Polls -> Mtime \cup {Absent, Nil}] /\ MtimesPast /\ Mtime \subseteq 0 .. MaxTouches
      /\ touches \in 1 .. MaxTouches /\ Nil \notin Nat
  BY WatcherFacts
<1>2. poll' \in [Polls -> Mtime \cup {Absent, Nil}] /\ \A j \in Polls : poll'[j] # Nil => poll'[j] <= touches
  BY <1>1 DEF PollContinues, MtimesPast
<1>3. watcher.up \notin {"down", "catchup", "lookup"}
  BY DEF Inv, ServerInv, StartInv, PollContinues
<1>4. UNCHANGED <<touches, reindexVars, build, trigger, starts>>
  BY DEF PollContinues
<1>5. settled \in 0 .. MaxTouches /\ fired \in Nat /\ fired + Owing(watcher) <= Baseline(watcher)
      /\ Owing(watcher) \in {0, 1}
  BY DEF Inv, ServerTypes, ServerInv, Credit, Owing
<1>6. poll[k] # Nil /\ (poll[k] # Absent => poll[k] \in Mtime /\ poll[k] \in Nat /\ poll[k] <= touches)
  BY <1>1 DEF PollContinues, MtimesPast
<1> DEFINE w == [watcher EXCEPT !.last = poll[k]]
<1>7. poll[k] # Absent => /\ w \in WatcherState /\ w.last = poll[k] /\ w.up = watcher.up /\ w.seen = watcher.seen
                          /\ w.pending = watcher.pending /\ Baseline(w) = poll[k]
  BY <1>1, <1>6 DEF WatcherState, Baseline
<1> HIDE DEF w
<1>8. ASSUME UNCHANGED <<run, asked, fired>>, watcher' \in WatcherState, settled' \in 0 .. MaxTouches,
             watcher'.up = watcher.up, watcher'.seen = watcher.seen, watcher'.pending = watcher.pending,
             watcher'.last = watcher.last \/ (watcher.last = Nil /\ watcher'.last = poll[k] /\ poll[k] # Absent)
      PROVE  Inv'
  <2>1. StartInv'
    BY <1>3, <1>8 DEF StartInv
  <2>2. Baseline(watcher') \in Nat /\ Baseline(watcher') >= Baseline(watcher)
    BY <1>1, <1>6, <1>8 DEF Baseline
  <2>3. watcher'.last # Nil => watcher'.last <= touches
    BY <1>1, <1>6, <1>8 DEF MtimesPast
  <2>4. watcher'.seen # Nil => watcher'.seen <= touches
    BY <1>1, <1>8 DEF MtimesPast
  <2> QED BY <1>1, <1>2, <1>3, <1>4, <1>8, <2>1, <2>2, <2>3, <2>4, WatcherMoveKeeps
<1>9. CASE poll[k] = Absent
  <2>1. watcher' = [watcher EXCEPT !.sawAbsent = TRUE] /\ UNCHANGED <<run, asked, settled, fired>>
    BY <1>9 DEF PollContinues
  <2>2. watcher' \in WatcherState /\ watcher'.up = watcher.up /\ watcher'.seen = watcher.seen
        /\ watcher'.pending = watcher.pending /\ watcher'.last = watcher.last
    BY <1>1, <2>1 DEF WatcherState
  <2> QED BY <1>5, <1>8, <2>1, <2>2
<1>10. CASE UNCHANGED <<watcher, run, asked, settled, fired>>
  BY <1>1, <1>5, <1>8, <1>10
<1>11. CASE /\ poll[k] # Absent /\ watcher.last = Nil /\ watcher' = w /\ settled' = poll[k]
            /\ UNCHANGED <<run, asked, fired>>
  <2>1. settled' \in 0 .. MaxTouches
    BY <1>1, <1>6, <1>11
  <2> QED BY <1>7, <1>8, <1>11, <2>1
<1>12. CASE /\ poll[k] # Absent
            /\ IF watcher.last = Nil THEN watcher.sawAbsent ELSE poll[k] > watcher.last
            /\ RequestRun(w) /\ settled' = settled
  <2>1. poll[k] >= Baseline(watcher) + 1
    BY <1>1, <1>6, <1>12 DEF Baseline, Mtime
  <2>2. fired + 1 + Owing(w) <= Baseline(w)
    BY <1>1, <1>5, <1>6, <1>7, <1>12, <2>1 DEF Owing
  <2> QED BY <1>1, <1>2, <1>3, <1>4, <1>5, <1>6, <1>7, <1>12, <2>2, RequestKeeps DEF MtimesPast
<1>13. CASE /\ watcher.pending /\ RequestRun([watcher EXCEPT !.pending = FALSE]) /\ settled' = settled
  <2> DEFINE u == [watcher EXCEPT !.pending = FALSE]
  <2>1. u \in WatcherState /\ u.last = watcher.last /\ u.up = watcher.up /\ u.seen = watcher.seen
        /\ ~u.pending /\ Baseline(u) = Baseline(watcher)
    BY <1>1 DEF WatcherState, Baseline
  <2>2. fired + 1 <= Baseline(watcher)
    BY <1>5, <1>13 DEF Owing
  <2>3. RequestRun(u)
    BY <1>13
  <2> HIDE DEF u
  <2> QED BY <1>1, <1>2, <1>3, <1>4, <1>5, <1>13, <2>1, <2>2, <2>3, RequestKeeps DEF MtimesPast
<1> QED BY <1>9, <1>10, <1>11, <1>12, <1>13 DEF PollContinues, w

\* Steps of the refresh that leave the watcher alone.
LEMMA RunMoveKeeps ==
  ASSUME Inv, run.pc \in {"lock", "updating"}, run' \in RunType, run'.pc # "none",
         lock' \in {lock, Nil, Server}, lock' = Server => run'.pc = "updating",
         index' \in [covered : 0 .. MaxTouches, mtime : 0 .. MaxTouches],
         UNCHANGED <<touches, runState, reindexer, host, build, trigger,
                     watcher, poll, starts, asked, settled, fired>>
  PROVE  Inv'
<1>1. ServerTypes'
  BY DEF Inv, ServerTypes
<1>2. ServerInv'
  BY DEF Inv, ServerInv, RunInv, StartInv, MtimesPast, Credit, Owing, Baseline
<1> QED BY <1>1, <1>2, ServerStepKeeps DEF Inv, ReindexTypes

LEMMA RunKeeps == ASSUME Inv, RunLock \/ RunGivesUp \/ RunUpdates PROVE Inv'
<1>1. touches \in 0 .. MaxTouches /\ 0 \in 0 .. MaxTouches /\ run \in RunType
      /\ index \in [covered : 0 .. MaxTouches, mtime : 0 .. MaxTouches]
  BY WatcherAssumption DEF Inv, ServerTypes, ReindexTypes
<1>2. CASE RunLock
  <2>1. run' \in RunType /\ run'.pc = "updating"
    BY <1>1, <1>2 DEF RunLock, RunType
  <2> QED BY <1>1, <1>2, <2>1, RunMoveKeeps DEF RunLock
<1>3. CASE RunGivesUp
  <2>1. run' \in RunType /\ run'.pc = "ending" /\ lock # Server
    BY <1>1, <1>3 DEF RunGivesUp, RunType, At, Inv, ServerInv, RunInv
  <2> QED BY <1>1, <1>3, <2>1, RunMoveKeeps DEF RunGivesUp, reindexVars
<1>4. CASE RunUpdates
  <2>1. run' \in RunType /\ run'.pc = "ending" /\ Nil # Server
    BY <1>1, <1>4, ReindexAssumption DEF RunUpdates, RunType, At
  <2>2. Saved(run.from) \in [covered : 0 .. MaxTouches, mtime : 0 .. MaxTouches]
    BY <1>1 DEF Saved, RunType
  <2>3. index' \in [covered : 0 .. MaxTouches, mtime : 0 .. MaxTouches]
    BY <1>1, <1>4, <2>2 DEF RunUpdates
  <2> QED BY <1>4, <2>1, <2>3, RunMoveKeeps DEF RunUpdates
<1> QED BY <1>2, <1>3, <1>4

LEMMA RunEndsKeeps == ASSUME Inv, RunEnds PROVE Inv'
<1>1. watcher \in WatcherState /\ fired \in Nat /\ touches \in 0 .. MaxTouches /\ 0 \in 0 .. MaxTouches
      /\ fired + Owing(watcher) <= Baseline(watcher) /\ Baseline(watcher) \in Nat
  BY WatcherFacts, WatcherAssumption DEF Inv, ServerTypes, ServerInv, Credit
<1>2. run' \in RunType /\ run'.pc \in {"none", "lock"} /\ lock' = lock /\ lock # Server /\ watcher.up # "down"
  BY <1>1 DEF RunEnds, At, NoRun, RunType, reindexVars, Inv, ServerInv, RunInv
<1>3. /\ watcher' \in WatcherState /\ watcher'.up = watcher.up /\ watcher'.last = watcher.last
      /\ watcher'.seen = watcher.seen
  BY <1>1 DEF RunEnds, WatcherState
<1>4. fired' \in Nat /\ asked' \in 0 .. MaxTouches
  BY <1>1 DEF RunEnds, Inv, ServerTypes
<1>5. ServerTypes'
  BY <1>2, <1>3, <1>4 DEF Inv, ServerTypes, RunEnds
<1>6. Credit'
  <2>1. Baseline(watcher)' = Baseline(watcher)
    BY <1>3 DEF Baseline
  <2>2. fired' + Owing(watcher)' = fired + Owing(watcher)
    BY <1>1 DEF RunEnds, Owing, WatcherState
  <2> HIDE DEF Owing, Baseline
  <2> QED BY <1>1, <2>1, <2>2 DEF Credit
<1>7. RunInv' /\ StartInv' /\ MtimesPast'
  BY <1>2, <1>3 DEF Inv, ServerInv, RunInv, StartInv, MtimesPast, RunEnds
<1> QED BY <1>5, <1>6, <1>7, ReindexAloneKeeps DEF ServerInv, RunEnds

LEMMA Inductive == Inv /\ [Next]_vars => Inv'
<1> SUFFICES ASSUME Inv, [Next]_vars PROVE Inv'
  OBVIOUS
<1>1. CASE UNCHANGED vars
  <2>1. Beside /\ UNCHANGED reindexVars
    BY <1>1 DEF vars, Beside, serverVars
  <2>2. ServerTypes' /\ ServerInv'
    BY <2>1, BesideKeeps DEF reindexVars
  <2> QED BY <2>1, <2>2, ReindexAloneKeeps
<1>2. CASE Next
  BY <1>2, TouchKeeps, StartServerKeeps, CatchUpStatKeeps, CatchUpCompareKeeps, DownKeeps,
     PollStatKeeps, PollContinuesKeeps, RunKeeps, RunEndsKeeps, StopKeeps, ReindexingKeeps
     DEF Next, WatcherStep, RunStep
<1> QED BY <1>1, <1>2

LEMMA InvAlways == Spec => []Inv
BY InvInit, Inductive, PTL DEF Spec

-----------------------------------------------------------------------------
(* Theorems                                                                *)

\* Every variable keeps its type: what overlapping stats, the flag and the
\* runs beside the server leave is always a state of ReindexTriggerWatcher.
THEOREM TypeCorrect == Spec => []TypeOK
<1>1. Inv => TypeOK
  BY TypesSplit DEF Inv
<1> QED BY <1>1, InvAlways, PTL

\* However many reindex runs overwrite and unlink each other's run-state file
\* and whichever are killed, a file that names a live process names one that
\* has not ended: no run that ended makes the server or later runs wait (the
\* catch and finally clauses of runReindex).
THEOREM NoRunStateLeftBehind == Spec => []RunStateReleased
<1>1. Inv => RunStateReleased
  BY DEF Inv
<1> QED BY <1>1, InvAlways, PTL

\* However the ticks overlap and whatever is deferred or flagged, a server
\* starts no more refreshes than there were touches: each has an mtime that
\* the baseline has passed (lastMtimeMs and pending of requestRun).
THEOREM RefreshesAreCoalesced == Spec => []RefreshPerTouch
<1>1. Inv => RefreshPerTouch
  <2> SUFFICES ASSUME Inv PROVE fired <= touches
    BY DEF RefreshPerTouch
  <2>1. /\ fired \in Nat /\ Owing(watcher) \in Nat /\ fired + Owing(watcher) <= Baseline(watcher)
        /\ Baseline(watcher) \in Nat /\ touches \in Nat
    BY WatcherFacts DEF Inv, ServerTypes, ServerInv, Credit, Owing
  <2>2. Baseline(watcher) <= touches
    BY <2>1, WatcherFacts DEF Baseline, MtimesPast
  <2> HIDE DEF Baseline, Owing
  <2> QED BY <2>1, <2>2
<1> QED BY <1>1, InvAlways, PTL

\* After stop() no refresh starts, whatever late continuation of a stat, of
\* the catch-up or of a refresh still runs, and stop() returns only when none
\* is in flight and the write lock is not the server's.
THEOREM StopLeavesNothingRunning == Spec => StopDrains
<1> DEFINE Drains == /\ watcher.stopped /\ watcher'.stopped => fired' = fired
                     /\ watcher'.up = "down" => run'.pc = "none" /\ lock' # Server
<1>1. Inv /\ [Next]_vars => [Drains]_vars
  <2> SUFFICES ASSUME Inv, Next PROVE Drains
    OBVIOUS
  <2>1. watcher.stopped /\ watcher'.stopped => fired' = fired
    <3> SUFFICES ASSUME watcher.stopped, watcher'.stopped PROVE fired' = fired
      OBVIOUS
    <3>1. watcher \in WatcherState
      BY WatcherFacts
    <3>2. ASSUME NEW w, w.stopped, RequestRun(w)
          PROVE  fired' = fired
      BY <3>2 DEF RequestRun
    <3>3. CASE CatchUpCompare
      <4>1. Timer([watcher EXCEPT !.last = watcher.seen, !.seen = Nil]).stopped
        BY <3>1 DEF Timer, WatcherState
      <4> QED BY <3>2, <3>3, <4>1 DEF CatchUpCompare
    <3>4. ASSUME NEW k \in Polls, PollContinues(k)
          PROVE  fired' = fired
      BY <3>4 DEF PollContinues
    <3>5. CASE StartServer
      BY <3>5 DEF StartServer, NewWatcher
    <3>6. CASE RunEnds
      BY <3>6 DEF RunEnds
    <3>7. CASE \/ Touch \/ RemoveTrigger \/ CatchUpStat \/ Stopped \/ Stop \/ CrashServer
               \/ RunLock \/ RunGivesUp \/ RunUpdates \/ Reindexing
               \/ \E k \in Polls : PollStat(k)
      BY <3>7 DEF Touch, RemoveTrigger, CatchUpStat, Stopped, Stop, CrashServer,
                  RunLock, RunGivesUp, RunUpdates, Reindexing, Beside, serverVars, PollStat
    <3> QED BY <3>3, <3>4, <3>5, <3>6, <3>7 DEF Next, WatcherStep, RunStep
  <2>2. watcher'.up = "down" => run'.pc = "none" /\ lock' # Server
    <3>1. Inv'
      BY Inductive
    <3> QED BY <3>1 DEF Inv, ServerInv, RunInv
  <2> QED BY <2>1, <2>2
<1> QED BY <1>1, InvAlways, PTL DEF Spec, StopDrains
=============================================================================
