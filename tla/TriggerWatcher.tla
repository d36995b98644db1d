--------------------------- MODULE TriggerWatcher ---------------------------
(***************************************************************************)
(* The reindex trigger watcher of the MCP server (src/triggerWatcher.ts,   *)
(* wired in src/KnowledgeBaseServer.ts) beside the reindex runs of         *)
(* ReindexRun.  An interval timer stats one trigger file; when its mtime   *)
(* advances the server refreshes the index under the model's write lock.   *)
(* At most one refresh is in flight; a request that finds one, or that     *)
(* finds a reindex to wait for, leaves the single-slot flag `pending'.     *)
(* The stat is asynchronous: ticks overlap, and stop() can fall between a  *)
(* stat and its continuation.                                              *)
(*                                                                         *)
(* A touch has its own mtime, the number of the touch.  The deferral calls *)
(* require(), which exists where the sources are compiled to CommonJS (the *)
(* tests) and not in the ES modules of the build; `build' is which of the  *)
(* two runs.                                                               *)
(***************************************************************************)
EXTENDS ReindexRun

CONSTANTS
  Polls,       \* ticks whose stat can be outstanding together
  Builds,      \* subset of {"esm", "commonjs"}
  MaxTouches,  \* bound: changes of the corpus
  MaxStarts    \* bound: starts of the server

ASSUME WatcherAssumption ==
  /\ Builds \subseteq {"esm", "commonjs"}
  /\ MaxTouches \in Nat \ {0}
  /\ MaxStarts \in Nat
  /\ Nil \notin Nat

VARIABLES
  build,    \* which build of the sources the server runs
  trigger,  \* mtime of the trigger file, or Nil while it is absent
  watcher,  \* the fields of ReindexTriggerWatcher, and where start() stands
  poll,     \* [Polls -> the outcome of an outstanding stat, or Nil]
  run,      \* the onTrigger call in flight
  starts    \* starts of the server so far

\* Observations that only the properties read.
VARIABLES
  asked,    \* touches that preceded the last refresh this server started
  settled,  \* last touch this server took for indexed without a refresh
  fired     \* refreshes this server has started

serverVars == <<watcher, poll, run, starts, asked, settled, fired>>
vars == <<touches, reindexVars, build, trigger, serverVars>>

Mtime == 1 .. MaxTouches
Absent == 0
NoRun == At("none")

\* A watcher that has just been constructed.
NewWatcher == [up |-> "catchup", last |-> Nil, sawAbsent |-> FALSE,
               pending |-> FALSE, stopped |-> FALSE, seen |-> Nil]

-----------------------------------------------------------------------------
(* The corpus and its trigger file                                         *)

Touch ==
  /\ touches < MaxTouches
  /\ touches' = touches + 1
  /\ trigger' = touches + 1
  /\ UNCHANGED <<reindexVars, build, serverVars>>

RemoveTrigger ==
  /\ trigger # Nil
  /\ trigger' = Nil
  /\ UNCHANGED <<touches, reindexVars, build, serverVars>>

-----------------------------------------------------------------------------
(* Requesting a refresh                                                    *)

\* shouldDeferToReindex; without require() its catch clause answers false.
ShouldDefer == build = "commonjs" /\ Active("here")

\* Mutant: a refresh that is asked for during another one is dropped.
RequestDropped(w) ==
  IF w.stopped \/ run.pc # "none" \/ ShouldDefer
  THEN /\ watcher' = w
       /\ UNCHANGED <<run, asked, fired>>
  ELSE /\ watcher' = w
       /\ run' = At("lock")
       /\ asked' = touches
       /\ fired' = fired + 1

\* Mutant: a request does not look at stopped.
RequestAfterStop(w) ==
  IF run.pc # "none" \/ ShouldDefer
  THEN /\ watcher' = [w EXCEPT !.pending = TRUE]
       /\ UNCHANGED <<run, asked, fired>>
  ELSE /\ watcher' = w
       /\ run' = At("lock")
       /\ asked' = touches
       /\ fired' = fired + 1

\* requestRun, from a watcher whose fields were just set to w.
RequestRun(w) ==
  IF w.stopped \/ run.pc # "none" \/ ShouldDefer
  THEN /\ watcher' = [w EXCEPT !.pending = w.pending \/ ~w.stopped]
       /\ UNCHANGED <<run, asked, fired>>
  ELSE /\ watcher' = w
       /\ run' = At("lock")
       /\ asked' = touches
       /\ fired' = fired + 1

-----------------------------------------------------------------------------
(* start()                                                                 *)

StartServer ==
  /\ watcher.up = "down"
  /\ starts < MaxStarts
  /\ starts' = starts + 1
  /\ watcher' = NewWatcher
  /\ asked' = 0 /\ settled' = 0 /\ fired' = 0
  /\ UNCHANGED <<touches, reindexVars, build, trigger, poll, run>>

\* setInterval after the catch-up, unless stop() came meanwhile.
Timer(w) == [w EXCEPT !.up = IF w.stopped THEN "stopping" ELSE "polling"]

\* catchUpAtStart stats the trigger file; the stat may fail.
CatchUpStat ==
  /\ watcher.up = "catchup"
  /\ \/ /\ trigger = Nil
        /\ watcher' = Timer([watcher EXCEPT !.sawAbsent = TRUE])
     \/ /\ trigger # Nil
        /\ watcher' = [watcher EXCEPT !.seen = trigger, !.up = "lookup"]
     \/ watcher' = Timer(watcher)
  /\ UNCHANGED <<touches, reindexVars, build, trigger, poll, run, starts, asked, settled, fired>>

\* It compares the mtime it saw with that of the active index, which the
\* server looks up meanwhile; without one, or when the lookup fails, there is
\* nothing to catch up with.
CatchUpCompare ==
  /\ watcher.up = "lookup"
  /\ LET w == Timer([watcher EXCEPT !.last = watcher.seen, !.seen = Nil])
     IN \/ /\ watcher' = w
           /\ settled' = watcher.seen
           /\ UNCHANGED <<run, asked, fired>>
        \/ /\ index.mtime # 0 /\ watcher.seen > index.mtime
           /\ RequestRun(w)
           /\ settled' = settled
  /\ UNCHANGED <<touches, reindexVars, build, trigger, poll, starts>>

-----------------------------------------------------------------------------
(* poll()                                                                  *)

\* A tick; its stat is answered with what the file is now.  A stat that fails
\* for another reason than absence is logged and changes nothing.
PollStat(k) ==
  /\ watcher.up = "polling"
  /\ poll[k] = Nil
  /\ poll' = [poll EXCEPT ![k] = IF trigger = Nil THEN Absent ELSE trigger]
  /\ UNCHANGED <<touches, reindexVars, build, trigger, watcher, run, starts, asked, settled, fired>>

\* Mutant: the mtime that was seen is not remembered.
PollContinuesForgetful(k) ==
  /\ poll[k] # Nil
  /\ watcher.up # "down"
  /\ poll' = [poll EXCEPT ![k] = Nil]
  /\ \/ /\ watcher.stopped \/ poll[k] = Absent
        /\ UNCHANGED <<watcher, run, asked, fired>>
     \/ /\ ~watcher.stopped /\ poll[k] # Absent
        /\ RequestRun(watcher)
  /\ UNCHANGED <<touches, reindexVars, build, trigger, starts, settled>>

\* The continuation of the stat.
PollContinues(k) ==
  /\ poll[k] # Nil
  /\ watcher.up # "down"
  /\ poll' = [poll EXCEPT ![k] = Nil]
  /\ \/ /\ poll[k] = Absent
        /\ watcher' = [watcher EXCEPT !.sawAbsent = TRUE]
        /\ UNCHANGED <<run, asked, settled, fired>>
     \/ /\ poll[k] # Absent /\ watcher.stopped
        /\ UNCHANGED <<watcher, run, asked, settled, fired>>
     \/ /\ poll[k] # Absent /\ ~watcher.stopped
        /\ LET w == [watcher EXCEPT !.last = poll[k]]
           IN \/ /\ watcher.last = Nil /\ ~watcher.sawAbsent
                 /\ watcher' = w
                 /\ settled' = poll[k]
                 /\ UNCHANGED <<run, asked, fired>>
              \/ /\ IF watcher.last = Nil THEN watcher.sawAbsent ELSE poll[k] > watcher.last
                 /\ RequestRun(w)
                 /\ settled' = settled
              \/ /\ watcher.last # Nil /\ poll[k] <= watcher.last
                 /\ IF watcher.pending /\ run.pc = "none"
                    THEN RequestRun([watcher EXCEPT !.pending = FALSE])
                    ELSE UNCHANGED <<watcher, run, asked, fired>>
                 /\ settled' = settled
  /\ UNCHANGED <<touches, reindexVars, build, trigger, starts>>

-----------------------------------------------------------------------------
(* onTrigger: resolve the manager, then refresh under the write lock       *)

RunLock ==
  /\ run.pc = "lock"
  /\ LockFree
  /\ lock' = Server
  /\ run' = [pc |-> "updating", from |-> touches]
  /\ UNCHANGED <<touches, index, runState, reindexer, host, build, trigger,
                 watcher, poll, starts, asked, settled, fired>>

\* The retries end while another process holds the lock, or the active model
\* cannot be resolved: the error is logged and the request is over.
RunGivesUp ==
  /\ run.pc = "lock"
  /\ run' = At("ending")
  /\ UNCHANGED <<touches, reindexVars, build, trigger,
                 watcher, poll, starts, asked, settled, fired>>

\* updateIndex returns or throws and the lock is released; listing the
\* resources for the clients' notification comes after that.
RunUpdates ==
  /\ run.pc = "updating"
  /\ index' \in {Saved(run.from), index}
  /\ lock' = Nil
  /\ run' = At("ending")
  /\ UNCHANGED <<touches, runState, reindexer, host, build, trigger,
                 watcher, poll, starts, asked, settled, fired>>

\* The finally callback: one more request if some came meanwhile.
RunEnds ==
  /\ run.pc = "ending"
  /\ IF watcher.pending /\ ~watcher.stopped /\ ~ShouldDefer
     THEN /\ watcher' = [watcher EXCEPT !.pending = FALSE]
          /\ run' = At("lock")
          /\ asked' = touches
          /\ fired' = fired + 1
     ELSE /\ run' = NoRun
          /\ UNCHANGED <<watcher, asked, fired>>
  /\ UNCHANGED <<touches, reindexVars, build, trigger, poll, starts, settled>>

-----------------------------------------------------------------------------
(* stop() and crashes                                                      *)

Stop ==
  /\ watcher.up \notin {"down", "stopping"}
  /\ ~watcher.stopped
  /\ watcher' = [watcher EXCEPT !.stopped = TRUE,
                   !.up = IF watcher.up = "polling" THEN "stopping" ELSE watcher.up]
  /\ UNCHANGED <<touches, reindexVars, build, trigger, poll, run, starts, asked, settled, fired>>

\* stop() has awaited the refresh in flight; the server exits.
Stopped ==
  /\ watcher.stopped
  /\ watcher.up # "down"
  /\ run.pc = "none"
  /\ watcher' = [watcher EXCEPT !.up = "down"]
  /\ poll' = [k \in Polls |-> Nil]
  /\ UNCHANGED <<touches, reindexVars, build, trigger, run, starts, asked, settled, fired>>

\* The server process is killed; its lock is stale once its heartbeat stops.
CrashServer ==
  /\ watcher.up # "down"
  /\ watcher' = [watcher EXCEPT !.up = "down"]
  /\ poll' = [k \in Polls |-> Nil]
  /\ run' = NoRun
  /\ lock' = IF lock = Server THEN Nil ELSE lock
  /\ UNCHANGED <<touches, index, runState, reindexer, host, build, trigger,
                 starts, asked, settled, fired>>
-----------------------------------------------------------------------------
Init ==
  /\ touches = 1
  /\ trigger \in {Nil, touches}
  /\ build \in Builds
  /\ watcher = [NewWatcher EXCEPT !.up = "down"]
  /\ poll = [k \in Polls |-> Nil]
  /\ run = NoRun
  /\ starts = 0
  /\ asked = 0 /\ settled = 0 /\ fired = 0
  /\ ReindexInit

WatcherStep ==
  \/ CatchUpStat \/ CatchUpCompare \/ Stopped
  \/ \E k \in Polls : PollStat(k) \/ PollContinues(k)

RunStep == RunLock \/ RunGivesUp \/ RunUpdates \/ RunEnds

\* What the reindex processes do beside the server.
Beside == UNCHANGED <<touches, build, trigger, serverVars>>
Reindexing ==
  \/ \E p \in Reindexers : ReindexStep(p) /\ Beside
  \/ \E p \in Reindexers : (CheckRunState(p) \/ KillReindex(p)) /\ Beside
  \/ (RecyclePid \/ AgeOut) /\ Beside

Next ==
  \/ Touch \/ RemoveTrigger
  \/ StartServer \/ WatcherStep \/ RunStep
  \/ Stop \/ CrashServer
  \/ Reindexing

Spec == Init /\ [][Next]_vars

\* Timers fire, calls return, a run that is announced goes on or is killed,
\* and a day passes.  Nobody has to touch, start, stop or kill anything.
Fairness ==
  /\ WF_vars(CatchUpStat) /\ WF_vars(CatchUpCompare)
  /\ WF_vars(Stopped)
  /\ \A k \in Polls : WF_vars(PollStat(k)) /\ WF_vars(PollContinues(k))
  /\ WF_vars(RunStep)
  /\ \A p \in Reindexers : WF_vars(ReindexStep(p) /\ Beside)
  /\ WF_vars(AgeOut /\ Beside)

FairSpec == Spec /\ Fairness
=============================================================================
