------------------------ MODULE TriggerWatcherProps -------------------------
(* Properties of TriggerWatcher.                                           *)
EXTENDS TriggerWatcher

\* Every variable stays in its type: the fields of ReindexTriggerWatcher, the
\* stats it waits for, and the states of the reindex runs beside it.
TypeOK ==
  /\ touches \in 1 .. MaxTouches
  /\ index \in [covered : 0 .. MaxTouches, mtime : 0 .. MaxTouches]
  /\ lock \in Reindexers \cup {Server, Nil}
  /\ runState \in RunState \cup {Nil}
  /\ reindexer \in [Reindexers -> [pc : {"new", "reclaim", "announce", "lock", "updating",
                                         "caught", "finally", "done", "killed"},
                                   from : 0 .. MaxTouches]]
  /\ host \in [Reindexers -> {"here", "there"}]
  /\ build \in Builds
  /\ trigger \in Mtime \cup {Nil}
  /\ watcher \in [up : {"down", "catchup", "lookup", "polling", "stopping"},
                  last : Mtime \cup {Nil}, sawAbsent : BOOLEAN, pending : BOOLEAN,
                  stopped : BOOLEAN, seen : Mtime \cup {Nil}]
  /\ poll \in [Polls -> Mtime \cup {Absent, Nil}]
  /\ run \in [pc : {"none", "lock", "updating", "ending"}, from : 0 .. MaxTouches]
  /\ starts \in 0 .. MaxStarts
  /\ asked \in 0 .. MaxTouches /\ settled \in 0 .. MaxTouches
  /\ fired \in Nat

\* A run-state file that names a live process names one that is past its
\* announcement and has not ended: whichever runs overwrote or removed each
\* other's file, none that ended (refused, contended, failed or completed)
\* leaves a file behind that would make the watcher and later runs wait for
\* it (the catch and finally clauses of runReindex).
RunStateReleased ==
  runState # Nil /\ runState.pid = "live" =>
    reindexer[runState.owner].pc \in {"lock", "updating", "caught", "finally"}

\* A server never starts more refreshes than there were touches: requests
\* made by overlapping ticks, by the flag and by the catch-up at start are
\* coalesced (the single slot of requestRun and the baseline lastMtimeMs).
RefreshPerTouch == fired <= touches

\* Once stop() was called no refresh starts any more, whether asked for by a
\* late continuation of a stat, by the catch-up or by the flag, and stop()
\* returns only when none is in flight, so that shutdown never races a write.
StopDrains ==
  [][/\ watcher.stopped /\ watcher'.stopped => fired' = fired
     /\ watcher'.up = "down" => run'.pc = "none" /\ lock' # Server]_vars

\* A touch that is visible, that no refresh of this server followed and that
\* it has not taken for indexed.
Owed(t) ==
  /\ trigger # Nil /\ trigger >= t
  /\ watcher.up # "down"
  /\ asked < t /\ settled < t

\* Every touch is followed by a refresh that starts after it, unless the
\* server took the index for newer, the file is removed again or the server
\* goes down: no coalescing, deferral behind a live, killed or recycled
\* reindex, failed stat or failed refresh loses it.
TouchesAreServed == \A t \in 1 .. MaxTouches : Owed(t) ~> ~Owed(t)

\* No refresh starts while the run-state file names a live reindex of this
\* host (docs/reference/cli.md, --with-context).
DefersToReindex == [][fired' > fired => ~Active("here")]_vars
=============================================================================
