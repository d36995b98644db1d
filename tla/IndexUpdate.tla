---------------------------- MODULE IndexUpdate ----------------------------
(***************************************************************************)
(* FaissIndexManager.initialize and updateIndex (src/FaissIndexManager.ts) *)
(* on the files of the knowledge bases: which vectors a refresh adds to    *)
(* the index in memory, when it saves the index, and how the per-file      *)
(* sidecars in <kb>/.index/ and the pending-sidecar-commit journal follow, *)
(* with edits in between and failures and crashes at every step.           *)
(*                                                                         *)
(* A manager is a process with one FaissIndexManager.  A warm one (server, *)
(* daemon) initializes once and refreshes the index it holds in memory for *)
(* the rest of its life.  A cold one (a CLI command) initializes and       *)
(* refreshes once, under one hold of the write lock, and exits.            *)
(*                                                                         *)
(* FAISS cannot delete, so an index is what was added, in order: for every *)
(* file the sequence of its chunks in the index.  The sidecars of a file   *)
(* are the hash of its bytes and the manifest of its chunks; they belong   *)
(* to the knowledge base, not to a model: every model shares them.  A hash *)
(* is the content it was taken of.  Whole scans are single steps: files    *)
(* are independent, and an edit between the scans of two files commutes    *)
(* with one of them.  Saves and loads of the index are single steps, which *)
(* is what IndexStore.tla shows of them.                                   *)
(***************************************************************************)
EXTENDS Integers, Sequences, FiniteSets

CONSTANTS
  Managers,     \* processes
  Warm,         \* those that keep their index in memory between refreshes
  Models,       \* embedding models, each with a directory of its own
  ModelOf,      \* [Managers -> Models]
  Files,        \* paths an ingest filter accepts, in all knowledge bases
  Scopes,       \* what a refresh may be asked for: sets of files
  Contents,     \* contents of a file
  ChunksOf,     \* [Contents -> Seq(chunk)]: splitter and loader
  InitialFiles, \* the files before the first start: a set of [Files -> Contents \cup {Nil}]
  Quiesce,      \* processes with KB_REFRESH_QUIESCE_MS > 0 (the default is 0)
  Forcing,      \* processes that may be asked for a forced rebuild
  Faults,       \* the operations that may fail
  Restores,     \* may a file get back a content it had, or any after deletion
  MaxEdits, MaxFaults, MaxCrashes,   \* bounds
  Nil           \* no file, no sidecar, no index, no journal, no holder

Fault == {"load", "embed", "save", "journal", "complete", "sidecar",
          "clear", "freshness", "corrupt"}

Chunk == UNION {{ChunksOf[c][i] : i \in DOMAIN ChunksOf[c]} : c \in Contents}

\* What an index may hold, the sidecars of a file, and what a journal says.
Indexes == [Files -> Seq(Chunk)]

Sidecar == [hash : Contents, chunks : {ChunksOf[c] : c \in Contents}]

Journal == [phase : {"save-started", "save-complete"}, owner : Managers \cup {Nil},
            writes : UNION {[S -> Sidecar] : S \in SUBSET Files}]

ASSUME UpdateAssumption ==
  /\ Warm \subseteq Managers
  /\ ModelOf \in [Managers -> Models]
  /\ Scopes \subseteq SUBSET Files
  /\ DOMAIN ChunksOf = Contents /\ \A c \in Contents : ChunksOf[c] \in Seq(Chunk)
  /\ InitialFiles \subseteq [Files -> Contents \cup {Nil}]
  /\ Quiesce \subseteq Managers /\ Forcing \subseteq Managers /\ Restores \in BOOLEAN
  /\ Faults \subseteq Fault
  /\ Nil \notin Contents /\ Nil \notin Managers /\ Nil \notin Journal
  /\ Nil \notin Seq(Chunk) /\ Nil \notin Indexes

VARIABLES
  file,      \* [Files -> Contents \cup {Nil}]
  hot,       \* files whose mtime is younger than the quiesce window
  hash,      \* hash sidecars     [Files -> Contents \cup {Nil}]
  chunks,    \* chunk manifests   [Files -> Seq(chunk) \cup {Nil}]
  disk,      \* [Models -> index \cup {Nil}]: the committed index
  fresh,     \* models whose freshness manifest matches their index
  journal,   \* [Models -> pending-manifest.json \cup {Nil}]
  lock,      \* [Models -> holder of the write lock]
  mgr,       \* [Managers -> [pc, mem]]
  job,       \* [Managers -> locals of the running updateIndex]
  had,       \* [Files -> contents the file has had]: what Restores is about
  budget     \* edits, faults and crashes so far

disks == <<disk, fresh, journal>>
sidecars == <<hash, chunks>>
world == <<file, hot, had>>
vars == <<file, hot, hash, chunks, disk, fresh, journal, lock, mgr, job, had, budget>>

-----------------------------------------------------------------------------
Empty == [f \in {} |-> Nil]   \* no entry at all

NoJob == [scope |-> {}, force |-> FALSE, hadIndex |-> FALSE, purgeIfEmpty |-> FALSE,
          skipFallback |-> FALSE, fromEmpty |-> FALSE, failed |-> FALSE,
          mutated |-> FALSE, listed |-> {}, scan |-> Empty, deferred |-> {}, touched |-> {},
          add |-> Empty, pending |-> Empty, left |-> {}]

Off == [pc |-> "off", mem |-> Nil]

Model(m) == ModelOf[m]

\* What an index holds of a file; no index holds nothing.
Held(index, f) == IF index = Nil THEN <<>> ELSE index[f]

Present(S) == {f \in S : file[f] # Nil}

Go(m, pc) == mgr' = [mgr EXCEPT ![m].pc = pc]

Become(m, pc, mem) == mgr' = [mgr EXCEPT ![m] = [pc |-> pc, mem |-> mem]]

Fails(op) ==
  /\ op \in Faults
  /\ budget.faults < MaxFaults
  /\ budget' = [budget EXCEPT !.faults = @ + 1]

\* The files of S that cannot be read this time: none without a fault.
UnreadableOf(S, U) ==
  \/ U = {} /\ UNCHANGED budget
  \/ U # {} /\ U \subseteq S /\ Fails("load")

Unlock(m) == lock' = [lock EXCEPT ![Model(m)] = Nil]

\* The journal of a process that is gone has a dead owner.
Orphaned(m) ==
  [k \in Models |-> IF journal[k] # Nil /\ journal[k].owner = m
                    THEN [journal[k] EXCEPT !.owner = Nil] ELSE journal[k]]

\* The refresh ends: a warm manager keeps what it has in memory, a cold one
\* exits.  With throw or without, withWriteLock releases the lock.
Rest(m, mem) ==
  /\ mgr' = [mgr EXCEPT ![m] = IF m \in Warm THEN [pc |-> "ready", mem |-> mem] ELSE Off]
  /\ job' = [job EXCEPT ![m] = NoJob]
  /\ Unlock(m)

Init ==
  /\ file \in InitialFiles
  /\ had = [f \in Files |-> {file[f]} \ {Nil}]
  /\ hot = {}
  /\ hash = [f \in Files |-> Nil]
  /\ chunks = [f \in Files |-> Nil]
  /\ disk = [k \in Models |-> Nil]
  /\ fresh = {}
  /\ journal = [k \in Models |-> Nil]
  /\ lock = [k \in Models |-> Nil]
  /\ mgr = [m \in Managers |-> Off]
  /\ job = [m \in Managers |-> NoJob]
  /\ budget = [edits |-> 0, faults |-> 0, crashes |-> 0]

-----------------------------------------------------------------------------
(* The world: edits by other programs, the quiesce window, crashes.        *)

Touch(f) ==
  /\ hot' = IF Quiesce = {} THEN hot ELSE hot \cup {f}
  /\ job' = [m \in Managers |->
               IF job[m] = NoJob THEN NoJob ELSE [job[m] EXCEPT !.touched = @ \cup {f}]]
  /\ budget.edits < MaxEdits
  /\ budget' = [budget EXCEPT !.edits = @ + 1]

\* The file had text once and has none now.
Withdrawn(f) ==
  IF file[f] = Nil THEN had[f] # {} ELSE ChunksOf[file[f]] = <<>>

Edit(f) ==
  /\ \E c \in Contents \ {file[f]} :
       /\ ~Restores => c \notin had[f] /\ ~Withdrawn(f)
       /\ file' = [file EXCEPT ![f] = c]
       /\ had' = [had EXCEPT ![f] = @ \cup {c}]
  /\ Touch(f)
  /\ UNCHANGED <<sidecars, disks, lock, mgr>>

Delete(f) ==
  /\ file[f] # Nil
  /\ file' = [file EXCEPT ![f] = Nil]
  /\ Touch(f)
  /\ UNCHANGED <<sidecars, disks, lock, mgr, had>>

Cool(f) ==
  /\ f \in hot
  /\ hot' = hot \ {f}
  /\ UNCHANGED <<file, had, sidecars, disks, lock, mgr, job, budget>>

Crash(m) ==
  /\ mgr[m].pc # "off"
  /\ budget.crashes < MaxCrashes
  /\ budget' = [budget EXCEPT !.crashes = @ + 1]
  /\ mgr' = [mgr EXCEPT ![m] = Off]
  /\ job' = [job EXCEPT ![m] = NoJob]
  /\ lock' = IF lock[Model(m)] = m THEN [lock EXCEPT ![Model(m)] = Nil] ELSE lock
  /\ journal' = Orphaned(m)
  /\ UNCHANGED <<world, sidecars, disk, fresh>>

-----------------------------------------------------------------------------
(* initialize: recover under the lock, load, purge sidecars of a lost store. *)

\* A warm manager gives the lock back before it loads.
ToLoad(m) ==
  /\ Go(m, "load")
  /\ lock' = [lock EXCEPT ![Model(m)] = IF m \in Warm THEN Nil ELSE m]

\* Mutant: the phase of the journal is not looked at.
RecoveryForward(k) == IF journal[k] = Nil THEN "none" ELSE "redo"

\* What the journal of model k calls for: a save that was interrupted is
\* undone, one that was committed is redone; a live owner is left alone.
Recovery(k) ==
  CASE journal[k] = Nil -> "none"
    [] journal[k] # Nil /\ journal[k].phase = "save-complete" -> "redo"
    [] journal[k] # Nil /\ journal[k].phase = "save-started" ->
         IF journal[k].owner = Nil THEN "undo" ELSE "none"

\* recoverPendingSidecarCommit.  With save-complete and no index on disk it
\* throws and leaves everything as it is: the process cannot start.
Start(m) ==
  LET recovery == Recovery(Model(m))
  IN /\ mgr[m].pc = "off"
     /\ lock[Model(m)] = Nil
     /\ recovery = "redo" => disk[Model(m)] # Nil
     /\ IF recovery = "none" THEN ToLoad(m)
        ELSE Go(m, recovery) /\ lock' = [lock EXCEPT ![Model(m)] = m]
     /\ UNCHANGED <<world, sidecars, disks, job, budget>>

\* Mutant: the store is dropped and its freshness manifest is left behind.
UndoStoreNotFreshness(m) ==
  /\ mgr[m].pc = "undo"
  /\ disk' = [disk EXCEPT ![Model(m)] = Nil]
  /\ Go(m, "undoSidecars")
  /\ UNCHANGED <<world, sidecars, fresh, journal, lock, job, budget>>

\* save-started by a dead owner: drop the store, then the sidecars.
UndoStore(m) ==
  /\ mgr[m].pc = "undo"
  /\ disk' = [disk EXCEPT ![Model(m)] = Nil]
  /\ fresh' = fresh \ {Model(m)}
  /\ Go(m, "undoSidecars")
  /\ UNCHANGED <<world, sidecars, journal, lock, job, budget>>

PurgeAllSidecars ==
  /\ hash' = [f \in Files |-> Nil]
  /\ chunks' = [f \in Files |-> Nil]

UndoSidecars(m) ==
  /\ mgr[m].pc = "undoSidecars"
  /\ PurgeAllSidecars
  /\ Go(m, "undone")
  /\ UNCHANGED <<world, disks, lock, job, budget>>

\* save-complete: the sidecars the journal lists, hashes first.
RedoHashes(m) ==
  /\ mgr[m].pc = "redo"
  /\ LET w == journal[Model(m)].writes
     IN hash' = [f \in Files |-> IF f \in DOMAIN w THEN w[f].hash ELSE hash[f]]
  /\ Go(m, "redoChunks")
  /\ UNCHANGED <<world, chunks, disks, lock, job, budget>>

RedoChunks(m) ==
  /\ mgr[m].pc = "redoChunks"
  /\ LET w == journal[Model(m)].writes
     IN chunks' = [f \in Files |-> IF f \in DOMAIN w THEN w[f].chunks ELSE chunks[f]]
  /\ Go(m, "undone")
  /\ UNCHANGED <<world, hash, disks, lock, job, budget>>

Recovered(m) ==
  /\ mgr[m].pc = "undone"
  /\ journal' = [journal EXCEPT ![Model(m)] = Nil]
  /\ ToLoad(m)
  /\ UNCHANGED <<world, sidecars, disk, fresh, job, budget>>

\* loadAtomic: an index that does not load is unlinked.
Load(m) ==
  /\ mgr[m].pc = "load"
  /\ \/ /\ Become(m, IF disk[Model(m)] = Nil THEN "lost" ELSE "loaded", disk[Model(m)])
        /\ UNCHANGED <<disk, fresh, budget>>
     \/ /\ disk[Model(m)] # Nil
        /\ Fails("corrupt")
        /\ disk' = [disk EXCEPT ![Model(m)] = Nil]
        /\ fresh' = fresh \ {Model(m)}
        /\ Become(m, "lost", Nil)
  /\ UNCHANGED <<world, sidecars, journal, lock, job>>

\* The store is missing: no sidecar can be trusted (issue #90).
PurgeForLostStore(m) ==
  /\ mgr[m].pc = "lost"
  /\ PurgeAllSidecars
  /\ Go(m, "loaded")
  /\ UNCHANGED <<world, disks, lock, job, budget>>

Initialized(m) ==
  /\ mgr[m].pc = "loaded"
  /\ Go(m, "ready")
  /\ UNCHANGED <<world, sidecars, disks, lock, job, budget>>

-----------------------------------------------------------------------------
(* updateIndex.                                                            *)

\* There is an index, and no freshness manifest that matches it.
Stale(m) == mgr[m].mem # Nil /\ disk[Model(m)] # Nil /\ Model(m) \notin fresh

\* A warm manager takes the lock here; a cold one has held it since Start.
HasLock(m) == lock[Model(m)] = m \/ (m \in Warm /\ lock[Model(m)] = Nil)

Begin(m, S) ==
  /\ mgr[m].pc = "ready"
  /\ HasLock(m)
  /\ lock' = [lock EXCEPT ![Model(m)] = m]
  /\ IF Stale(m) THEN Become(m, "invalidate", Nil) ELSE Go(m, "scan")
  /\ job' = [job EXCEPT ![m] =
       [NoJob EXCEPT !.scope = IF Stale(m) THEN Files ELSE S, !.purgeIfEmpty = Stale(m)]]
  /\ UNCHANGED <<world, sidecars, disks, budget>>

\* force: always global, from an empty index.
BeginForced(m) ==
  /\ m \in Forcing
  /\ mgr[m].pc = "ready"
  /\ HasLock(m)
  /\ lock' = [lock EXCEPT ![Model(m)] = m]
  /\ Become(m, "scan", Nil)
  /\ job' = [job EXCEPT ![m] = [NoJob EXCEPT !.scope = Files, !.purgeIfEmpty = TRUE,
               !.force = TRUE, !.hadIndex = disk[Model(m)] # Nil]]
  /\ UNCHANGED <<world, sidecars, disks, budget>>

\* The freshness manifest did not match: no sidecar can be trusted.
Invalidate(m) ==
  /\ mgr[m].pc = "invalidate"
  /\ PurgeAllSidecars
  /\ Go(m, "scan")
  /\ UNCHANGED <<world, disks, lock, job, budget>>

\* Hash every file in scope; a file in its quiesce window is put off.
Scan(m) ==
  /\ mgr[m].pc = "scan"
  /\ LET present == Present(job[m].scope)
         put_off == IF m \in Quiesce THEN present \cap hot ELSE {}
     IN \E bad \in SUBSET (present \ put_off) :
          /\ UnreadableOf(present \ put_off, bad)
          /\ job' = [job EXCEPT
               ![m].fromEmpty = mgr[m].mem = Nil,
               ![m].listed = present,
               ![m].deferred = put_off,
               ![m].failed = bad # {},
               ![m].touched = {},
               ![m].scan = [f \in present \ (put_off \cup bad) |->
                              [hash |-> file[f], stored |-> hash[f]]]]
  /\ Go(m, "extract")
  /\ UNCHANGED <<world, sidecars, disks, lock>>

-----------------------------------------------------------------------------
(* What a changed file calls for.                                          *)

Anew(j) == j.fromEmpty \/ j.force

\* Mutant: only files without a hash sidecar count as changed.
ChangedIfUnknown(j) == {f \in DOMAIN j.scan : Anew(j) \/ j.scan[f].stored = Nil}

Changed(j) == {f \in DOMAIN j.scan : Anew(j) \/ j.scan[f].hash # j.scan[f].stored}

\* Mutant: more chunks than before, whatever they are.
ExtendsByCount(next, prev) == Len(prev) <= Len(next)

\* countStableChunkPrefix: the manifest is a prefix of the new chunks.
Extends(next, prev) == Len(prev) <= Len(next) /\ SubSeq(next, 1, Len(prev)) = prev

\* Vectors of f may be in the index although no chunk manifest says which.
Committed(j, index, f) == j.scan[f].stored # Nil \/ Held(index, f) # <<>>

\* A changed file whose old vectors cannot stay.
NeedsRebuild(j, index, f) ==
  LET next == ChunksOf[file[f]]
      prev == chunks[f]
  IN /\ ~Anew(j)
     /\ CASE prev = Nil -> Committed(j, index, f)
          [] prev # Nil /\ next = <<>> -> prev # <<>>
          [] OTHER -> ~Extends(next, prev)

\* The chunks of f to embed: those after the manifest's.
ToAppend(j, f) ==
  LET next == ChunksOf[file[f]]
  IN IF Anew(j) \/ chunks[f] = Nil THEN next
     ELSE SubSeq(next, Len(chunks[f]) + 1, Len(next))

\* What is written to the sidecars of f: the scanned hash, the loaded chunks.
SidecarOf(j, f) == [hash |-> j.scan[f].hash, chunks |-> ChunksOf[file[f]]]

NonEmpty(S) == {f \in S : file[f] # Nil /\ ChunksOf[file[f]] # <<>>}

Plan(j, add, pending) == [j EXCEPT !.add = add, !.pending = pending]

-----------------------------------------------------------------------------
\* A file that changed after it was scanned: noticed only with a window.
Moved(m, S) == IF m \in Quiesce THEN S \cap job[m].touched ELSE {}

\* A file that is gone by now cannot be loaded.
Gone(S) == S \ Present(S)

\* Load and split the changed files and decide: append, rebuild or put off.
Extract(m) ==
  /\ mgr[m].pc = "extract"
  /\ \E bad \in SUBSET Present(Changed(job[m])) :
       /\ UnreadableOf(Present(Changed(job[m])), bad)
       /\ LET failing == bad \cup Gone(Changed(job[m]))
              moved == Moved(m, Changed(job[m]) \ failing)
              loaded == Changed(job[m]) \ (failing \cup moved)
              j == [job[m] EXCEPT !.deferred = @ \cup moved,
                                  !.failed = @ \/ failing # {}]
              index == mgr[m].mem
              rebuild == \E f \in loaded : NeedsRebuild(j, index, f)
          IN \/ \* a forced rebuild gives way to a file in its window
                /\ j.force /\ j.hadIndex /\ j.deferred # {}
                /\ Become(m, "embed", disk[Model(m)])
                /\ job' = [job EXCEPT ![m] =
                     [j EXCEPT !.purgeIfEmpty = FALSE, !.skipFallback = TRUE]]
             \/ \* and so does a full one
                /\ ~(j.force /\ j.hadIndex /\ j.deferred # {})
                /\ rebuild /\ index # Nil /\ j.deferred # {}
                /\ Go(m, "embed")
                /\ job' = [job EXCEPT ![m] = j]
             \/ /\ ~(j.force /\ j.hadIndex /\ j.deferred # {})
                /\ rebuild /\ ~(index # Nil /\ j.deferred # {})
                /\ Become(m, "rebuild", Nil)
                /\ job' = [job EXCEPT ![m] = j]
             \/ /\ ~(j.force /\ j.hadIndex /\ j.deferred # {})
                /\ ~rebuild
                /\ Go(m, "embed")
                /\ job' = [job EXCEPT ![m] =
                     Plan(j, [f \in {f \in NonEmpty(loaded) : ToAppend(j, f) # <<>>} |->
                                ToAppend(j, f)],
                             [f \in NonEmpty(loaded) |-> SidecarOf(j, f)])]
  /\ UNCHANGED <<world, sidecars, disks, lock>>

\* The full rebuild: every file this run scanned, from an empty index.
Rebuild(m) ==
  /\ mgr[m].pc = "rebuild"
  /\ LET scanned == DOMAIN job[m].scan
     IN \E bad \in SUBSET Present(scanned) :
          /\ UnreadableOf(Present(scanned), bad)
          /\ LET failing == bad \cup Gone(scanned)
                 moved == Moved(m, scanned \ failing) \ job[m].deferred
                 loaded == NonEmpty(scanned \ (failing \cup moved))
                 j == [job[m] EXCEPT !.deferred = @ \cup moved,
                                     !.failed = @ \/ failing # {}]
             IN \/ /\ moved # {}
                   /\ Become(m, "embed", disk[Model(m)])
                   /\ job' = [job EXCEPT ![m] = j]
                \/ /\ moved = {}
                   /\ Go(m, "embed")
                   /\ job' = [job EXCEPT ![m] =
                        Plan(j, [f \in loaded |-> ChunksOf[file[f]]],
                                [f \in loaded |-> SidecarOf(j, f)])]
  /\ UNCHANGED <<world, sidecars, disks, lock>>

\* An index with `add` appended, file by file.
Appended(index, add) ==
  [f \in Files |-> Held(index, f) \o (IF f \in DOMAIN add THEN add[f] ELSE <<>>)]

\* addDocumentsToIndex.
Embed(m) ==
  /\ mgr[m].pc = "embed"
  /\ LET add == job[m].add
     IN /\ Become(m, "fallback",
                  IF add = Empty THEN mgr[m].mem ELSE Appended(mgr[m].mem, add))
        /\ job' = [job EXCEPT ![m].add = Empty, ![m].mutated = add # Empty]
  /\ UNCHANGED <<world, sidecars, disks, lock, budget>>

\* Still no index although files were listed: build it from all of them.
NeedsFallback(m) == mgr[m].mem = Nil /\ job[m].listed # {} /\ ~job[m].skipFallback

Fallback(m) ==
  /\ mgr[m].pc = "fallback"
  /\ ~NeedsFallback(m)
  /\ Go(m, "persist")
  /\ UNCHANGED <<world, sidecars, disks, lock, job, budget>>

\* A file that cannot be loaded fails; one whose hash alone cannot be read is
\* indexed all the same, and gets no sidecars.
FallbackBuild(m) ==
  /\ mgr[m].pc = "fallback"
  /\ NeedsFallback(m)
  /\ LET candidates == job[m].listed \ job[m].deferred
     IN \E bad \in SUBSET Present(candidates), unhashed \in SUBSET Present(candidates) :
          /\ UnreadableOf(Present(candidates), bad \cup unhashed)
          /\ LET failing == bad \cup Gone(candidates)
                 built == NonEmpty(candidates \ failing)
                 added == [f \in built |-> ChunksOf[file[f]]]
             IN /\ Become(m, "persist", IF built = {} THEN Nil ELSE Appended(Nil, added))
                /\ job' = [job EXCEPT
                     ![m].failed = @ \/ failing # {},
                     ![m].mutated = @ \/ built # {},
                     ![m].pending = [f \in (built \ unhashed) \cup DOMAIN @ |->
                        IF f \in built \ unhashed
                        THEN [hash |-> file[f], chunks |-> ChunksOf[file[f]]]
                        ELSE @[f]]]
  /\ UNCHANGED <<world, sidecars, disks, lock>>

\* What this refresh is about to have embedded.
Batch(m) ==
  CASE mgr[m].pc = "embed" -> job[m].add
    [] mgr[m].pc = "fallback" /\ NeedsFallback(m) ->
         [f \in NonEmpty(job[m].listed \ job[m].deferred) |-> ChunksOf[file[f]]]
    [] OTHER -> Empty

\* The provider fails after some batches: their vectors stay in memory.
EmbedFails(m) ==
  /\ Batch(m) # Empty
  /\ Fails("embed")
  /\ \E done \in SUBSET DOMAIN Batch(m) :
       Rest(m, IF done = {} THEN mgr[m].mem
               ELSE Appended(mgr[m].mem, [f \in done |-> Batch(m)[f]]))
  /\ journal' = IF m \in Warm THEN journal ELSE Orphaned(m)
  /\ UNCHANGED <<world, sidecars, disk, fresh>>

-----------------------------------------------------------------------------
(* Save, journal and sidecars.                                             *)

\* A refresh keeps a journal if there are sidecars to write.
Journaled(m) == job[m].pending # Empty

\* The journal that a refresh writes before it saves.
Started(m) == [phase |-> "save-started", owner |-> m, writes |-> job[m].pending]

\* Mutant: no journal for the first index of a model.
PersistJournalsLater(m) ==
  LET j == job[m]
  IN /\ mgr[m].pc = "persist"
     /\ Go(m, IF j.mutated THEN "save" ELSE IF j.pending # Empty THEN "hashes" ELSE "finish")
     /\ journal' = IF j.mutated /\ Journaled(m) /\ disk[Model(m)] # Nil
                   THEN [journal EXCEPT ![Model(m)] = Started(m)]
                   ELSE journal
     /\ job' = [job EXCEPT ![m].left = DOMAIN j.pending, ![m].scan = Empty, ![m].listed = {}]
     /\ UNCHANGED <<world, sidecars, disk, fresh, lock, budget>>

\* save-started is durable before the save begins.
Persist(m) ==
  LET j == job[m]
  IN /\ mgr[m].pc = "persist"
     /\ Go(m, IF j.mutated THEN "save" ELSE IF j.pending # Empty THEN "hashes" ELSE "finish")
     /\ journal' = IF j.mutated /\ Journaled(m)
                   THEN [journal EXCEPT ![Model(m)] = Started(m)]
                   ELSE journal
     /\ job' = [job EXCEPT ![m].left = DOMAIN j.pending, ![m].scan = Empty, ![m].listed = {}]
     /\ UNCHANGED <<world, sidecars, disk, fresh, lock, budget>>

\* A failed save clears the journal; that may fail too and is ignored.
Abort(m) ==
  /\ Rest(m, mgr[m].mem)
  /\ \/ Journaled(m) /\ journal' = [journal EXCEPT ![Model(m)] = Nil]
     \/ /\ Journaled(m) => "clear" \in Faults
        /\ journal' = IF m \in Warm THEN journal ELSE Orphaned(m)

JournalFails(m) ==
  /\ mgr[m].pc = "persist"
  /\ job[m].mutated /\ Journaled(m)
  /\ Fails("journal")
  /\ Abort(m)
  /\ UNCHANGED <<world, sidecars, disk, fresh>>

\* atomicSave: the new index is active; its mtime is no longer the one the
\* freshness manifest names.
Save(m) ==
  /\ mgr[m].pc = "save"
  /\ disk' = [disk EXCEPT ![Model(m)] = mgr[m].mem]
  /\ fresh' = fresh \ {Model(m)}
  /\ Go(m, "complete")
  /\ UNCHANGED <<world, sidecars, journal, lock, job, budget>>

SaveFails(m) ==
  /\ mgr[m].pc = "save"
  /\ Fails("save")
  /\ Abort(m)
  /\ UNCHANGED <<world, sidecars, disk, fresh>>

\* onCommitted: the journal, if there is one, says save-complete.
Complete(m) ==
  /\ mgr[m].pc = "complete"
  /\ \/ /\ Journaled(m)
        /\ journal' = [journal EXCEPT ![Model(m)].phase = "save-complete"]
        /\ Go(m, "hashes")
     \/ /\ ~Journaled(m)
        /\ Go(m, "finish")
        /\ UNCHANGED journal
  /\ UNCHANGED <<world, sidecars, disk, fresh, lock, job, budget>>

\* It cannot be written: the index is committed, the journal is cleared.
CompleteFails(m) ==
  /\ mgr[m].pc = "complete"
  /\ Journaled(m)
  /\ Fails("complete")
  /\ Abort(m)
  /\ UNCHANGED <<world, sidecars, disk, fresh>>

WriteHash(m) ==
  /\ mgr[m].pc = "hashes"
  /\ \E f \in job[m].left :
       /\ hash' = [hash EXCEPT ![f] = job[m].pending[f].hash]
       /\ LET left == job[m].left \ {f}
          IN /\ job' = [job EXCEPT ![m].left =
                          IF left = {} THEN DOMAIN job[m].pending ELSE left]
             /\ Go(m, IF left = {} THEN "chunks" ELSE "hashes")
  /\ UNCHANGED <<world, chunks, disks, lock, budget>>

WriteChunks(m) ==
  /\ mgr[m].pc = "chunks"
  /\ \E f \in job[m].left :
       /\ chunks' = [chunks EXCEPT ![f] = job[m].pending[f].chunks]
       /\ LET left == job[m].left \ {f}
          IN /\ job' = [job EXCEPT ![m].left = left]
             /\ Go(m, IF left = {} THEN "clear" ELSE "chunks")
  /\ UNCHANGED <<world, hash, disks, lock, budget>>

ClearJournal(m) ==
  /\ mgr[m].pc = "clear"
  /\ journal' = IF job[m].mutated THEN [journal EXCEPT ![Model(m)] = Nil] ELSE journal
  /\ Go(m, "finish")
  /\ UNCHANGED <<world, sidecars, disk, fresh, lock, job, budget>>

\* A sidecar or the removal of the journal fails: updateIndex throws and the
\* journal, if there is one, stays at save-complete.
SidecarFails(m) ==
  /\ mgr[m].pc \in {"hashes", "chunks", "clear"}
  /\ Fails("sidecar")
  /\ Rest(m, mgr[m].mem)
  /\ journal' = IF m \in Warm THEN journal ELSE Orphaned(m)
  /\ UNCHANGED <<world, sidecars, disk, fresh>>

\* The models with a matching freshness manifest once m has written its own,
\* which it withholds when a file could not be indexed.
Certified(m) ==
  IF disk[Model(m)] # Nil /\ ~job[m].failed THEN fresh \cup {Model(m)} ELSE fresh

\* An empty index after a forced or invalidated run: purge the store.
\* Otherwise the freshness manifest follows the index, if nothing failed; it
\* may fail to be written and that is ignored.
Finish(m) ==
  LET k == Model(m)
      purge == mgr[m].mem = Nil /\ job[m].purgeIfEmpty
  IN /\ mgr[m].pc = "finish"
     /\ Rest(m, mgr[m].mem)
     /\ \/ /\ purge
           /\ disk' = [disk EXCEPT ![k] = Nil]
           /\ fresh' = fresh \ {k}
           /\ UNCHANGED budget
        \/ /\ ~purge
           /\ fresh' = Certified(m)
           /\ UNCHANGED <<disk, budget>>
        \/ /\ ~purge
           /\ Fails("freshness")
           /\ UNCHANGED <<disk, fresh>>
     /\ journal' = IF m \in Warm THEN journal ELSE Orphaned(m)
     /\ UNCHANGED <<world, sidecars>>

-----------------------------------------------------------------------------
Initialize(m) ==
  \/ Start(m) \/ UndoStore(m) \/ UndoSidecars(m) \/ RedoHashes(m)
  \/ RedoChunks(m) \/ Recovered(m) \/ Load(m) \/ PurgeForLostStore(m) \/ Initialized(m)

Refresh(m) ==
  \/ Invalidate(m) \/ Scan(m) \/ Extract(m) \/ Rebuild(m) \/ Embed(m) \/ Fallback(m)
  \/ FallbackBuild(m) \/ Persist(m) \/ Save(m) \/ Complete(m) \/ WriteHash(m)
  \/ WriteChunks(m) \/ ClearJournal(m) \/ Finish(m)

Failure(m) ==
  \/ EmbedFails(m) \/ JournalFails(m) \/ SaveFails(m) \/ CompleteFails(m) \/ SidecarFails(m)

Next ==
  \/ \E m \in Managers :
       \/ Initialize(m) \/ BeginForced(m) \/ Refresh(m) \/ Failure(m) \/ Crash(m)
       \/ \E S \in Scopes : Begin(m, S)
  \/ \E f \in Files : Edit(f) \/ Delete(f) \/ Cool(f)

Spec == Init /\ [][Next]_vars

\* A warm manager keeps running and is asked for refreshes of everything; the
\* clock takes files out of their quiesce window.
Fairness ==
  /\ \A m \in Managers : WF_vars(Initialize(m)) /\ WF_vars(Refresh(m)) /\ WF_vars(Begin(m, Files))
  /\ \A f \in Files : WF_vars(Cool(f))

FairSpec == Spec /\ Fairness
=============================================================================
