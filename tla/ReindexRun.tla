----------------------------- MODULE ReindexRun -----------------------------
(***************************************************************************)
(* `kb reindex --with-context' (src/reindex-runner.ts): processes that     *)
(* announce themselves in the run-state file .reindex.run.json and then    *)
(* refresh the whole index under the model's write lock.  The file names   *)
(* its writer's pid and host; a reader trusts it while the host is its own *)
(* and the pid answers.  An unclean kill leaves the file behind, its pid   *)
(* dead or, once the system has given it to another process, falsely alive *)
(* until the age bound of a day has passed.                                *)
(*                                                                         *)
(* The index is known by the trigger it covers: the corpus has been        *)
(* changed `touches' times, each change followed by a touch of the         *)
(* trigger file, and a refresh covers the changes made before it began.    *)
(* A refresh that finds no change saves nothing.  Estimating the work, the *)
(* hours in which a run refuses to start and the preface statistics leave  *)
(* this state alone and are left out.                                      *)
(*                                                                         *)
(* This module has no specification of its own: TriggerWatcher composes it *)
(* with the server that waits for these runs.                              *)
(***************************************************************************)
EXTENDS Integers, FiniteSets

CONSTANTS
  Reindexers,  \* reindex processes; each runs once
  Remote,      \* those that may run on another host than the server's
  MaxKills,    \* bound: reindex processes that are killed
  Server,      \* the server process as a holder of the write lock
  Nil          \* no file, no holder, no index

ASSUME ReindexAssumption ==
  /\ Remote \subseteq Reindexers
  /\ MaxKills \in Nat
  /\ Server \notin Reindexers
  /\ Nil \notin Reindexers \cup {Server}

VARIABLES
  touches,    \* changes of the corpus so far, each with its touch
  index,      \* [covered, mtime] of the active index; both 0 before the first
  lock,       \* holder of .kb-write.lock, or Nil
  runState,   \* contents of .reindex.run.json, or Nil
  reindexer,  \* [Reindexers -> [pc, from]]
  host        \* [Reindexers -> "here" or "there"]: the host it runs on

reindexVars == <<index, lock, runState, reindexer, host>>

At(pc) == [pc |-> pc, from |-> 0]

RunState == [owner : Reindexers, pid : {"live", "dead", "recycled", "aged"}]

-----------------------------------------------------------------------------
(* The run-state file                                                      *)

\* isRunStateActiveSync, as a process on host `at' evaluates it.
Active(at) ==
  /\ runState # Nil
  /\ runState.pid # "aged"
  /\ host[runState.owner] = at
  /\ runState.pid \in {"live", "recycled"}

\* checkReindexRunState: refuse beside a live run; otherwise go on, after
\* removing what could not be trusted.
CheckRunState(p) ==
  /\ reindexer[p].pc = "new"
  /\ reindexer' = [reindexer EXCEPT ![p].pc =
       IF Active(host[p]) THEN "done"
       ELSE IF runState = Nil THEN "announce" ELSE "reclaim"]
  /\ UNCHANGED <<index, lock, runState, host>>

\* reclaimRunState unlinks the file that is there now, whoever wrote it.
ReclaimRunState(p) ==
  /\ reindexer[p].pc = "reclaim"
  /\ runState' = Nil
  /\ reindexer' = [reindexer EXCEPT ![p].pc = "announce"]
  /\ UNCHANGED <<index, lock, host>>

\* Mutant: the file is written without the pid.
WriteRunStateAnonymous(p) ==
  /\ reindexer[p].pc = "announce"
  /\ runState' = [owner |-> p, pid |-> Nil]
  /\ reindexer' = [reindexer EXCEPT ![p].pc = "lock"]
  /\ UNCHANGED <<index, lock, host>>

\* writeRunState replaces the file atomically.
WriteRunState(p) ==
  /\ reindexer[p].pc = "announce"
  /\ runState' = [owner |-> p, pid |-> "live"]
  /\ reindexer' = [reindexer EXCEPT ![p].pc = "lock"]
  /\ UNCHANGED <<index, lock, host>>

-----------------------------------------------------------------------------
(* The refresh under the write lock                                        *)

\* A process that was killed keeps its lock file until the lock goes stale.
Dead(h) == h \in Reindexers /\ reindexer[h].pc = "killed"
LockFree == lock = Nil \/ Dead(lock)

\* withWriteLock around initialize and updateIndex.
ReindexLock(p) ==
  /\ reindexer[p].pc = "lock"
  /\ LockFree
  /\ lock' = p
  /\ reindexer' = [reindexer EXCEPT ![p] = [pc |-> "updating", from |-> touches]]
  /\ UNCHANGED <<index, runState, host>>

\* The retries end while another process holds the lock; runReindex reports
\* lock_held after the unlink of its catch clause.
ReindexContends(p) ==
  /\ reindexer[p].pc = "lock"
  /\ ~LockFree
  /\ reindexer' = [reindexer EXCEPT ![p].pc = "caught"]
  /\ UNCHANGED <<index, lock, runState, host>>

\* What a refresh that began after `from' changes leaves as the index.
Saved(from) ==
  IF from > index.covered THEN [covered |-> from, mtime |-> touches] ELSE index

ReindexCommits(p) ==
  /\ reindexer[p].pc = "updating"
  /\ index' = Saved(reindexer[p].from)
  /\ lock' = Nil
  /\ reindexer' = [reindexer EXCEPT ![p] = At("finally")]
  /\ UNCHANGED <<runState, host>>

ReindexFails(p) ==
  /\ reindexer[p].pc = "updating"
  /\ lock' = Nil
  /\ reindexer' = [reindexer EXCEPT ![p] = At("caught")]
  /\ UNCHANGED <<index, runState, host>>

\* Mutant: only the success path removes the run-state file.
DeleteOnSuccessOnly(p) ==
  /\ \/ /\ reindexer[p].pc = "caught"
        /\ runState' = runState
     \/ /\ reindexer[p].pc = "finally"
        /\ runState' = Nil
  /\ reindexer' = [reindexer EXCEPT ![p].pc = "done"]
  /\ UNCHANGED <<index, lock, host>>

\* deleteRunState in the catch clause and again in the finally clause: it
\* unlinks the file that is there, whoever wrote it.
DeleteRunState(p) ==
  /\ runState' = Nil
  /\ \/ /\ reindexer[p].pc = "caught"
        /\ reindexer' = [reindexer EXCEPT ![p].pc = "finally"]
     \/ /\ reindexer[p].pc = "finally"
        /\ reindexer' = [reindexer EXCEPT ![p].pc = "done"]
  /\ UNCHANGED <<index, lock, host>>

-----------------------------------------------------------------------------
(* Processes come and go                                                   *)

\* An unclean kill: no catch, no finally.
KillReindex(p) ==
  /\ reindexer[p].pc \in {"announce", "lock", "updating", "caught", "finally"}
  /\ Cardinality({q \in Reindexers : Dead(q)}) < MaxKills
  /\ reindexer' = [reindexer EXCEPT ![p] = At("killed")]
  /\ runState' = IF runState # Nil /\ runState.owner = p
                   THEN [runState EXCEPT !.pid = "dead"] ELSE runState
  /\ UNCHANGED <<index, lock, host>>

\* The system gives the pid of a dead run to another process.
RecyclePid ==
  /\ runState # Nil
  /\ runState.pid = "dead"
  /\ runState' = [runState EXCEPT !.pid = "recycled"]
  /\ UNCHANGED <<index, lock, reindexer, host>>

\* REINDEX_RUN_STALE_MS has passed since the run of a killed process began;
\* no run takes that long.
AgeOut ==
  /\ runState # Nil
  /\ runState.pid = "recycled"
  /\ runState' = [runState EXCEPT !.pid = "aged"]
  /\ UNCHANGED <<index, lock, reindexer, host>>

ReindexInit ==
  /\ \/ index = [covered |-> 0, mtime |-> 0]
     \/ index \in {[covered |-> c, mtime |-> m] : c, m \in 1 .. touches}
  /\ index.covered <= index.mtime
  /\ lock = Nil
  /\ runState = Nil
  /\ reindexer = [p \in Reindexers |-> At("new")]
  /\ host \in [Reindexers -> {"here", "there"}]
  /\ \A p \in Reindexers \ Remote : host[p] = "here"

ReindexStep(p) ==
  \/ ReclaimRunState(p) \/ WriteRunState(p)
  \/ ReindexLock(p) \/ ReindexContends(p)
  \/ ReindexCommits(p) \/ ReindexFails(p) \/ DeleteRunState(p)
=============================================================================
