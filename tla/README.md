# Formal model of knowledge-base-mcp-server

TLA+ specifications, TLC model-checking runs and TLAPS proofs about the program
whose TypeScript sources are in `src/src/`. Paths below are relative to the
directory that holds `src/`. The machine-readable companion, `PROJECT.json`, lists
components, runs, mutants, the source lines of every definition, findings,
hazards and theorems.

* Part 1: the inventory - what the system is made of and what is hard about it.
* Part 2: the modules, and how their state and actions correspond to the code.
* Part 3: the runs - bounds, fairness, what each shows.
* Part 4: the proofs.
* Part 5: what is only model-checked, what is abstracted, what is left out.
* Part 6: the plan.

## 1. Inventory

The program indexes Markdown and other documents of several *knowledge bases*
(directories) with an embedding model, keeps one vector index per model on disk
and answers searches over it. The same code runs as an MCP server (stdio, SSE or
HTTP), as a command line tool `kb`, and as a resident daemon `kb serve` to which
the command line tool delegates. All of these processes share one file tree and
nothing else; what keeps them apart is a lock file per model, atomic renames, and
per-file sidecars. Within a process everything runs on one event loop: an
interleaving can occur at each `await` and nowhere else.

### Versioned index store - `faiss-store-layout.ts`

* State: per model directory, directories `index.v0`, `index.v1`, ..., each with
  `faiss.index`, `docstore.json` and an integrity manifest, and a symlink `index`.
* Operations: save (stage a version, seal it, rename the symlink, prune old
  versions), load (lock-free), repair (a load that fails unlinks the symlink),
  purge (remove the whole store).
* Hard: loads run beside saves with no lock; a writer may die between any two file
  operations; numbers restart once the symlink is gone.
* Correct when: the active version is always complete; an undisturbed load returns
  one save's files; commits look atomic; a load is not broken by few writes.

### Write lock - `write-lock.ts`

* State: a lock directory per model with a heartbeat; per-base sidecar lock.
* Operations: acquire with retry, refresh, release, takeover of a stale lock.
* Hard: a holder that is suspended longer than the stale threshold lives on beside
  its successor; the sidecar lock fails open after its retries (258-288).
* Correct when: at most one live process writes a model at a time.

### Index refresh - `FaissIndexManager.ts`, `file-ingest.ts`, `file-utils.ts`

* State: the index in memory; per file a hash sidecar and a chunk manifest in
  `<kb>/.index/`, shared by all models; the freshness manifest of each model.
* Operations: `initialize` (recover, load, purge sidecars of a lost store) and
  `updateIndex` (hash every file, load the changed ones, decide between appending
  and rebuilding, embed, save, write the sidecars).
* Hard: FAISS cannot delete, so a stale vector can only be removed by a rebuild;
  files change during the refresh; every write can fail; a process can die
  anywhere; a long-lived process holds an index that others replace on disk.
* Correct when: a file taken for unchanged has exactly its chunks in the index, and
  refreshes converge once the files rest.

### Pending sidecar commit - `pending-sidecar-commit.ts`

* State: one journal file per model: phase, owner's pid, sidecars to write.
* Operations: write at `save-started`, advance to `save-complete`, clear, recover.
* Hard: it must tell an interrupted save from a committed one after any crash.
* Correct when: no index is committed without a journal that says so.

### Resident daemon - `cli-serve.ts`, `daemon-admission.ts`, `cli-shared.ts`

* State: admission gate (slots, queue, closed flag), connections, idle timer, drain
  state, a cache of managers, the patched `process.stdout`.
* Operations: upload, admit, run, answer; SIGTERM with a drain budget and a
  force-exit timer; idle exit.
* Hard: overlapping jobs, hand-over of slots, a close between an upload and its
  admission, timers that race the drain, jobs that never end.
* Correct when: slots are accounted for, admitted requests are answered, the daemon
  stops, and a response carries the output of its own command.

### Provider breaker - `provider-breaker.ts`

* State: closed, open or half-open; consecutive failures; the probe flag; a clock.
* Operations: before-call, record success, record failure, for overlapping calls.
* Hard: answers of calls that began before the circuit opened arrive late.
* Correct when: the circuit never refuses every call without a probe under way, and
  closes again once the provider is well.

### Reindex trigger watcher - `triggerWatcher.ts`, wired in `KnowledgeBaseServer.ts`

* State: the last mtime seen, whether the file was absent, the single-slot flag
  `pending`, the refresh in flight, `stopped`; a poll timer.
* Operations: `start` (catch-up against the index's mtime, then the timer), `poll`,
  `requestRun`, `stop`.
* Hard: stats are asynchronous, so ticks overlap each other, a refresh and `stop`;
  a reindex of another process must be waited for, through a file that a killed run
  leaves behind.
* Correct when: every touch is followed by a refresh that starts after it, no touch
  costs more than one, and nothing runs after `stop`.

### Reindex runner - `reindex-runner.ts`

* State: `.reindex.run.json`, with pid and host of a run; the model's write lock.
* Operations: check and reclaim the file, write it, refresh under the lock, delete.
* Hard: runs overwrite, reclaim and delete one file without asking whose it is; a
  kill skips the `finally`; pids are reused; hosts share the directory.
* Correct when: no run that ended leaves a file that others would wait for.

### Recursive watcher - `recursive-fs-watch.ts`

* State: a map from directories to watches (identity and handle), debounce timers,
  the single-slot flag, `stopped`.
* Operations: `start`, one handler for directory events, discovery (`lstat`, attach,
  list), debounce, refresh, `stop`.
* Hard: a directory can be removed, made again or replaced between its event, its
  `lstat` and the attachment, perhaps under the same inode number; answers of `lstat`
  come in any order; files are written before the watch exists.
* Correct when: the watches follow the tree, a written file is followed by a refresh,
  and `stop` releases everything.

### Shared docstore - `docstore-cas.ts`, used by `faiss-store-layout.ts`

* State: a directory of canonical docstores named by their hash, hard links from the
  versions of all models, a lock file.
* Operations: canonicalize a staged docstore, find or write its entry, link and
  rename; collect entries that nothing links to.
* Hard: the lock fails open; entries are removed by name; processes die between any
  two steps; links may be refused.
* Correct when: each model keeps a docstore of its own, whatever is shared below.

### Lexical index - `lexical-index-cache.ts`, `lexical-index.ts`, `hybrid-retrieval.ts`, `cli-search.ts`

* State: `index.json` per knowledge base; in a long-lived process parsed indexes by
  path, parses in flight with a token each.
* Operations: load through the cache (hit, join, parse with retries), refresh and
  save under the write lock, invalidate.
* Hard: `index.json` is told apart by mtime and size; a parse can be displaced or
  invalidated while it runs; a refresh goes around files that fail; the lexical mode
  refreshes the cached object in place.
* Correct when: answers and entries are no older, of any file, than what the cache
  was told of, and no save puts an older entry over a newer one.

### Components not modelled

Manager registry, model directories and `active.txt`, document mutations, ingest
quarantine: stateful and planned (part 6). Query cache, answer-side caches, metadata
sidecar, backup and restore, feedback ledger, daemon client, bounded worker pool,
LLM client and service, retrieval and ranking, loaders and formatting, the command
line: `PROJECT.json` gives the reason for each - mostly that they are pure
computations of one request, or caches keyed by content whose miss costs only time.
The greater part of the source lines is in these (reports, argument parsing,
scoring, formatting), and keeps no state that two actors share.

### Interactions

    daemon job --> gate --> command --> manager --> updateIndex --> store --> shared docstore
                                           |             |   \-> sidecars, journal
                                        breaker          \--> write lock
    CLI process ----------------------> manager (cold: once, one lock hold)
    MCP server -----------------------> manager (warm: for its whole life)
    trigger file --> trigger watcher --> MCP server's refresh <-- recursive watcher
                         \--> run-state file <--> kb reindex --> write lock
    searches ---> lexical cache ---> index.json <--- refreshes under its write lock

## 2. Modules

| Module | Models | Composes / refines |
| --- | --- | --- |
| `SnapshotStore` | what a model directory promises: an atomic register with lock-free loads | abstract specification |
| `IndexStore`, `IndexStoreProps` | the versioned layout, writers, lock-free loads, crashes | implements `SnapshotStore` |
| `IndexUpdate`, `IndexUpdateProps` | `initialize` and `updateIndex` with journal and sidecars | uses saves and loads as the atomic steps `IndexStore` shows them to be |
| `AdmissionGate` | `DaemonAdmissionGate` | |
| `ProviderBreaker` | one circuit of `ProviderBreakerRegistry` | |
| `Daemon`, `DaemonProps` | `kb serve`: requests, drain, timers | instances of `AdmissionGate` and `ProviderBreaker` |
| `ResponseCapture` | `captureProcessOutput` under the gate | extends `AdmissionGate` |
| `ReindexRun` | `kb reindex --with-context` processes and their run-state file | composed by `TriggerWatcher` |
| `TriggerWatcher`, `TriggerWatcherProps` | `ReindexTriggerWatcher` as the server wires it | extends `ReindexRun` |
| `RecursiveWatch`, `RecursiveWatchProps` | `RecursiveKbWatcher`, one watch per directory | |
| `PrivateDocstores` | what the shared docstore promises: each model a docstore of its own | abstract specification |
| `DocstoreCas`, `DocstoreCasProps` | deduplication, links, collection, lock | implements `PrivateDocstores` |
| `LexicalCache`, `LexicalCacheProps` | `LexicalIndexCache` and the searches that refresh through it | |
| `MC...` | constants for TLC | |
| `...Proofs` | theorems | |

Mutants - plausible wrong versions of a definition, with which a property must
fail - stand beside the definition they vary, under a comment that begins with
"Mutant:". No specification uses them.

### IndexStore

`link` is the symlink, `dirs` the version directories, `lock` the write lock;
`writer` and `reader` hold a program counter and the locals of each process. A
*generation* is the number of a save, and a file is named by the save that wrote
it, so that "these two files belong together" is an equation. `SaveBegin`,
`WriteFaiss`, `WriteDocstore`, `WriteManifest`, `Swap` and `Prune` are the steps of
`saveFaissStoreAtomic` (and of `saveHnswIndexAtomic`) in the order of the code;
FaissStore writes its two files concurrently, hence in either order. `SaveFails`
and `Crash` may strike between any two. `PurgeLink` and `PurgeDirs` are
`purgePersistedIndexStore`. A load is `Open` (lstat), `Resolve` (realpath pins the
directory), `ReadManifest`, `ReadFaiss` and `ReadDocstore`, and after an error
`Repair` (unlink the symlink, whatever it names by then) or `GiveUp`.

`latest`, `leftover` and `seen` are observations: no guard reads them.

### IndexUpdate

A manager is a process. `disk`, `fresh` and `journal` are the files of a model,
`hash` and `chunks` the sidecars of a file, `mgr[m].mem` the index in memory and
`job[m]` the local variables of a running `updateIndex`. Because FAISS only
appends, an index maps each file to the sequence of chunks it holds of it; a hash
is the content it was taken of. One action stands for each phase between two
points at which the state on disk changes or other processes can act:

* `initialize`: `Start`, `UndoStore`, `UndoSidecars`, `RedoHashes`, `RedoChunks`,
  `Recovered`, `Load`, `PurgeForLostStore`, `Initialized`;
* `updateIndex`: `Begin`/`BeginForced`, `Invalidate`, `Scan`, `Extract`, `Rebuild`,
  `Embed`, `Fallback`/`FallbackBuild`, `Persist`, `Save`, `Complete`, `WriteHash`,
  `WriteChunks`, `ClearJournal`, `Finish`;
* faults: `EmbedFails` (the provider, in `Embed` or in the fallback build: `Batch` is what
  is being embedded), `JournalFails`, `SaveFails`, `CompleteFails`, `SidecarFails`, an unreadable file in any scan, a corrupt index in `Load`, an
  unwritten freshness manifest in `Finish`; and `Crash`;
* the world: `Edit`, `Delete`, and `Cool`, by which a file leaves its quiesce window.

`Extract` carries the decision at the heart of the code: which files changed,
whether the stored chunk manifest is a prefix of the new chunks (append the rest)
or not (rebuild from an empty index), and what is put off. `FallbackBuild` indexes every
listed file when there is still no index; a file whose hash cannot be read but whose
load succeeds is indexed without sidecars, and if no file has any, the index is saved
without a journal (`Journaled`).

### AdmissionGate, ProviderBreaker, Daemon

Each method of the gate is one step, since it runs on one event loop; a promise it
resolves continues in a later step, so a granted request is not yet running.
`Daemon` takes the steps of `Gate!...` and `Breaker!...` inside its own: `Submit`
is the end of the upload, where the code looks at `closed`, then at the load, then
enters the gate; `Begin` starts the job, whose provider call the breaker admits or
refuses; `Respond` settles the job. `Signal`, `Drained`, `DrainTimeout`,
`ForceExit`, `IdleTimeout` and `Closed` are the ends of a daemon. The outcomes 200,
429 and 503 all conclude a request and are not told apart.

### ResponseCapture

One `sink` (`process.stdout.write`), which each job replaces at its start and
restores at its end to what it found.

### ReindexRun, TriggerWatcher

A change of the corpus and the touch that follows it are one step, `Touch`, with an
mtime of its own; an index is known by the last touch it `covers` and by its mtime.
`CheckRunState`, `ReclaimRunState`, `WriteRunState`, `ReindexLock`,
`ReindexCommits`, `ReindexFails`, `ReindexContends` and `DeleteRunState` are the
steps of `runReindex` between its awaits; `KillReindex`, `RecyclePid` and `AgeOut` are
what makes a run-state file lie. In the server, `CatchUpStat` and `CatchUpCompare`
are `start`, `PollStat` and `PollContinues` the two halves of a tick around its stat
(`Polls` of them overlap), `RequestRun` is the operator `requestRun`, and `RunLock`,
`RunUpdates`, `RunGivesUp` and `RunEnds` are the callback of the server and the
`finally` after it. `build` tells the ES-module build, in which `require` does not
exist, from the CommonJS one.

### RecursiveWatch

The tree is a chain of directories. `MakeDir`, `RemoveDir` and `WriteFile` are other
programs together with the events the kernel sends; a new directory may get any number
that no directory has. A watch is the inode number it was attached under, and deaf
(`live = FALSE`) once that directory is gone. A discovery is `Lstat`, `Continue` and
`List`. The thread pool that serves `lstat` promises no order, so answers are a bag, of
which `Continue` takes any; from the answer to the attached watch nothing is awaited.
`Continue` leaves the watch (`LeaveWatch`, for a known identity), closes it and those
below (`CloseWatch`, for a path that was gone when it was read, whatever is there now),
or attaches anew (`AttachWatch`). `Timer` and `RunEnds` are the debounce and the single
slot. `misled` is an observation: the directories that are there and whose watch was
closed, by an answer from before they were made, since their last attachment.

### DocstoreCas

Names point at files: `dir` holds the docstore of each version and the temporary link
beside it, `cas` the entries. Sharing is that two names point at a file with the same
identity. `Save` and `FinishSave` write a private docstore; `Canonicalize`,
`DedupLock`, `CheckEntry`, `WriteEntry`, `LinkEntry`, `RenameLink`, `DedupUnlock` are
`dedupeDocstoreOnSave`; `Swap` and `Prune` are those of the versioned layout; `GcList`,
`GcStat`, `GcRemove`, `GcUnlock` are `gcDocstoreCas`. `TakeLock` may fail open,
`LinkRefused` and `DedupFails` are its error paths, `SaveFails` and `Crash` can strike
anywhere.

### LexicalCache

An index is, for each file of the knowledge base, the version its entry was built from
(0 without one); `file` has these and a stamp (mtime and size), and a save may keep the
stamp of the one before it when both fall into one grain of the clock. A parsed index is
an object, named by the request that parsed it, so that "the cached object is refreshed
in place" is a change that its other holders see. `Stat`, `LookupHits`, `LookupJoins`,
`LookupParses`, `Parse`, `SettleRetired`, `SettleAgain`, `Settle`, `Join` and
`LoadFails` are `LexicalIndexCache.load` and `loadStable`; `Lock`, `LoadFresh`,
`Refresh`, `RefreshInPlace`, `Save`, `Invalidate` and `Unlock` are the refresh of
`runLexicalLeg` (an index of its own) and of the lexical mode (the one it was given).
`Refreshed(i, skip)` is `LexicalIndex.refresh`: the files of `skip`, any set, fail to
hash, load or chunk and keep the entry they have in `i`.

Observations: `floor` is what the cache has been told that the file holds, by a stamp it
has not seen before or by `invalidate`; `need` is `floor` at the call of a search, less
what saves have put back since; `asked` is the corpus at the call of one that
refreshes; `skipped` are the files its refresh went around; `answer` is the index it was
answered from.

## 3. Runs

### Passing runs

**index_store** (650 thousand states). Two writers and two readers, three saves,
retention 1; one reader may repair, one is configured for another index type.
Three saves over retention 1 are the least with which a pinned version is pruned;
two writers let one die and another take over its half-staged directory; two
readers let one's repair disturb the other's load. Shows `ActiveComplete` (the
symlink never names a missing, partial or mixed version), `CoherentLoad` (an
undisturbed load returns the files of one save that was active since it began),
`RetentionMargin` (a load breaks only after more swaps than the retention keeps)
and `ImplementsSnapshot` (every step is a step of the atomic register or none). No
fairness; deadlock is checked: a released lock can always be taken again.

**index_update_warm** (260 thousand states). One long-lived process with a quiesce
window, two files, four contents - `a`, `ab` (a with a chunk appended), `b`
(another first chunk) and `empty` - two edits, one fault among unreadable file,
failed journal advance, failed freshness manifest and corrupt index, one crash.
Shows `NoFalseUnchanged`, `CommitsAreJournaled` and `Converges`.

Fairness: weak, for initialization, for the steps of a refresh, for `Begin` of all
files, and for `Cool`. A warm manager lives in a server that is asked for
refreshes by searches and by the watchers, its own steps are run by the event
loop, and the clock takes a file out of its window once it is left alone. Edits,
faults and crashes are not fair and are bounded by budgets, so "once they have
stopped" is every behaviour's tail. With one warm process nobody contends for the
lock, so weak fairness is enough.

**index_update_cold** (690 thousand states). Two command-line processes by turns,
one of which may force a rebuild and has a quiesce window, two edits, one fault
among failed embedding, save, journal, sidecar and journal removal (and corrupt
index), one crash. Shows `NoFalseUnchanged`, `SidecarsAgree`,
`CommitsAreJournaled`. Two edits let a file change during a refresh and again
after it; one fault and one crash let a crash follow a failure.

Both runs leave out, by their constants, what is known to break - by the violation
runs or by the observations below: refreshes scoped to one base (`Scopes`), files
that get old content back (`Restores`), another process beside a warm one
(`Managers`), save and embedding faults and a second fault in a warm one (`Faults`,
`MaxFaults`), and load faults of a process that both forces rebuilds and puts them off
(`Faults`, `Forcing`, `Quiesce`). Under these constants a provider can fail in the fallback
build only after a file could not be read, and no run has both faults; the theorems cover
it for commands (part 4). The cold instance with the faults `load` and `embed`, two of
them, one edit, and the window with the process that is not forced keeps
`NoFalseUnchanged` in its 176 thousand states; `SidecarsAgree` needs readable files.

**daemon** (170 thousand states). Four requests, of which one's job never ends, two
slots, one place in the queue, threshold 2, a provider that comes and goes. Four
requests fill slots and queue and leave one to be turned away; the threshold is
the least that tells one failure from enough. Shows `SlotsAccounted`, `NeverStuck`,
`AnswersAreKept` (only a drain that ran out of time cuts a waiting client),
`Answered`, `Stops` and `Recovers`. Deadlock is not checked because a daemon that
exited has no step.

Fairness: weak for the steps the event loop runs (`Begin`, `Respond`, `Drained`,
`Closed`), for provider calls, which `TimeoutEmbeddings` ends at their deadline,
and for timers that stay set (`CoolDown`, `DrainTimeout`, `ForceExit`). Nothing is
assumed of clients, of signals or of the idle timer; jobs in `Wedged` never end.
`Recovers` alone adds clients that keep connecting and complete their uploads
(`Clients`): a breaker moves only when it is called.

**trigger_watcher** (690 thousand states). The server beside two reindex processes, of
which `p2` may run on another host and one may be killed; two touches, one restart
of the server, one poll in flight; both builds. Two touches are the least with
which one is coalesced with another, two processes the least that overwrite each
other's run-state file. In the ES-module build the server never looks at that file,
so there `MCInit` fixes the hosts. Shows `RunStateReleased` (no run that ended leaves
a file that others wait for), `RefreshPerTouch` (no more refreshes than touches),
`StopDrains` (none starts after `stop()`, which returns only when none is in flight)
and `TouchesAreServed` (each touch is followed by a refresh that starts after it).

Fairness: weak for the continuations and the polling timer of the server, for the
steps of its refresh, for the reindex processes and for the clock (`AgeOut`). The
event loop runs what is due; a lock that is contended is given up after bounded
retries, so no step waits for ever. Nothing is assumed of touches, of starts, stops
and kills, or of the recycling of process ids. Deadlock is not checked: touches are
bounded and everything may have ended.

**recursive_watch** (377 thousand states). A tree two directories deep below the root,
three inode numbers that come back, three changes by other programs, answers in any
order. Three changes are the least with which a directory is made, removed and made
again while the discovery of the first is outstanding, or replaced and written into.
Shows `WatchesFollowTree`: when all discoveries are done, below every directory that is
heard the map of watches is the tree, but for a directory whose watch an outdated answer
closed (`misled`) or whose number is that of the dead watch it has (`Lost`). The two
exceptions do happen (observations below); that there is no third is what this run and
the theorem are for. Shows also `StopReleases` (after `stop()` no watch, no timer and no
new refresh, whatever comes back late) and `WritesAreServed` (each written file is followed by a refresh that starts after it, unless its directory or
one above it stays lost for good).
Fairness: weak for handlers, system calls, continuations, timers and the end of a
refresh, each for all that wait together, so that no order is assumed; nothing is
assumed of changes or of `stop`.

**docstore_cas** (406 thousand states, with symmetry). Two models, two contents, three
saves, retention 0, crashes, refused links and a lock that may fail open. Three saves
are the least with which one model collects what another links again; retention 0
makes collection come with the second save. Models and contents differ in name alone,
no property here is a liveness property, so the symmetry is sound. Shows
`EntriesWhole`, `ImplementsPrivate` (each model has a docstore of its own: no sharing,
collection, crash or failing lock changes a version that is active) and, while no lock
has failed open, `EntryAwaitsLink` (an entry found or written is still there when it
is linked) and `SharedIsEntry` (what is shared is shared once). No fairness.

**lexical_cache** (1.6 million states). `MCSpec` starts four situations over an index of
two files: three legs of hybrid searches, one of which refreshes; two searches of any kind
that refresh; two that read while another process replaces the index; one of any kind
over any index while others make and replace it. One parse before the last one (the
code makes three), one edit. Two searches meet in every pair of steps; the third lets a
parse be joined while another displaces it; two files are the least with which one fails
while the other is refreshed and makes the index dirty. Shows `NoStaleEntry`;
`AnswersAreFresh` (no answer has of any file less than what the cache had been told of when
the search was called, and one that refreshes has at least the corpus of its call, but for
files it went around); `FileAdvances` (no save puts an older entry over a newer one, except
that of a lexical search for a file it went around); and `SearchesEnd`. Fairness: weak for
each search, whose steps are system calls and continuations; no symmetry, since there is a
liveness property. Deadlock is not checked: searches run once and end.

### Violation runs

Each refutes one sentence of the repository's own documents or comments by a
behaviour of the code; `PROJECT.json` quotes them.

* **scoped_rebuild**: a refresh scoped to one base that turns into a rebuild saves an
  index of that base alone; the sidecars of the others stay.
* **two_writers**: a process appends to its in-memory index and saves it over one
  that another process committed meanwhile.
* **mixed_responses**: two overlapping jobs patch the one `process.stdout`; a response
  carries another request's output.
* **reindex_deferral**: in the ES-module build `shouldDeferToReindex` calls a
  `require` that does not exist, takes the error for "no reindex", and the watcher
  refreshes beside the reindex it should wait for.

### Observations without a run

Store and refresh:

* *Retention after a repair.* After a repair removed the symlink, numbering restarts at
  0 beside old directories (`src/src/faiss-store-layout.ts:572-574`), and the next prune
  deletes the version just left: one write breaks a pinned reader where
  `docs/rfcs/014-atomic-faiss-save.md:183` promises three. `RetentionMargin` states the
  margin with this exception.
* *A failed refresh that is retried.* A failed save leaves its vectors in memory
  (`src/src/FaissIndexManager.ts:2575`); the retry adds the same chunks again.
  `docs/rfcs/007-architecture-performance.md:225-227` wants no file in the index twice
  after a crash; here a failure is enough.
* *A restored file.* An emptied file keeps its sidecars through a rebuild that drops
  its vectors (`src/src/FaissIndexManager.ts:2290`), so that its restored content counts
  as unchanged (`docs/architecture/adr/0002-per-file-hash-sidecars.md:16`). With
  `Restores = TRUE`, one warm process and three edits `NoFalseUnchanged` finds it.
* *A second failure of a warm process.* A rebuild whose readable files all fail leaves no
  index in memory and the old sidecars on disk. The next build starts from empty and puts
  off a file in its window; it is saved and certified without that file, whose next edit
  appends only the chunks after its old manifest. With `MaxFaults = 2` in
  `index_update_warm` `NoFalseUnchanged` finds it.
* *A forced rebuild that is put off* certifies as fresh an index for which an earlier
  refresh had withheld the freshness manifest
  (`src/src/FaissIndexManager.ts:2193`, `2207-2210`, `2650-2664`).
* A journal at `save-complete` without an index makes every later start throw
  (`src/src/FaissIndexManager.ts:1053-1060`). `Start` is then disabled for ever; in
  `index_update_cold` other steps of the world remain possible until the budget
  ends. The hazard list keeps this one without a property.

Daemon and breaker:

* `Stops` has one exception, written into it: when the idle timer has closed the
  listener before a signal, `stop()` resolves at once and the force-exit timer is
  cleared (`src/src/cli-serve.ts:297-310`, `802-829`), so a client that does not
  finish its upload keeps the process alive.
* A late failure can reopen an open circuit, and a late success can close it; so a
  second probe may be sent while the first is in flight, where
  `docs/reference/configuration.md` speaks of a single half-open probe.
* The daemon records the metadata of an index after loading it
  (`src/src/cli-serve.ts:973-979`): a commit in between lets the older index count
  as current.

Watchers and reindex:

* A refresh that gives up on a contended lock is logged and counts as done, so a touch
  that arrives during a long reindex is served only if the reindex covers it
  (`docs/rfcs/017-contextual-retrieval.md:404` has a drain that catches up once the lock
  is free). `TouchesAreServed` speaks of
  refreshes that start, whatever becomes of them.
* A pending request is not drained while the trigger file is absent; the catch-up at
  start compares the mtime of the index, so a save that began before a touch and ended
  after it hides the touch; a catch-up whose stat fails takes the next mtime it sees
  as the baseline. `TouchesAreServed` excludes each by `settled` or by its guard.
* `deleteRunState` and `reclaimRunState` unlink whichever file is there, so of two
  overlapping runs one can be without a run-state file
  (`src/src/reindex-runner.ts:776`). `RunStateReleased` states the direction that holds.
* Deletions of files are not followed by a refresh of their own.
* *A late answer.* Of two `lstat` calls of one path the one that saw the directory gone may
  be continued last; it closes the watch of the directory made since
  (`src/src/recursive-fs-watch.ts:372-374`), and nothing attaches it again, although
  `src/src/recursive-fs-watch.ts:16-19` has new subdirectories get watches. The property is
  `NewDirectoriesGetWatches`.
* *A reused number.* A directory made again under the number just freed is taken for its
  predecessor and keeps the dead watch (`src/src/recursive-fs-watch.ts:272`), which
  `src/src/recursive-fs-watch.ts:90` says that identity prevents. The property is
  `ReplacementIsHeard`. With `Depth = 1`, `Inodes = {1, 2}`, `MaxChanges = 4` and `Spec` TLC
  refutes each of the two in a dozen steps. `Lost` is what they have in common.

Docstore and lexical index:

* When the lock fails open, a collection can remove an entry between the check and the
  link (`src/src/docstore-cas.ts:402-410`, against its comments at 17-20 and 313-316).
  The docstore then stays private and correct, only unshared; hence the condition
  `~opened` of two properties. A lock left by a dead process is stale after 30 s, the
  retries last about 4 s: until then every save fails open.
* Temporary files `*.kb-tmp.*` that a crash leaves beside the entries
  (`src/src/docstore-cas.ts:425`) are collected by nobody; a temporary link that it
  leaves in a version directory keeps its entry alive as long as the directory stays.
* The lexical mode refreshes the cached index object in place
  (`src/src/cli-search.ts:2735-2745`) where a hybrid leg takes a copy of its own
  (`src/src/hybrid-retrieval.ts:356-358`): a refresh that fails in the middle leaves the
  cached object changed.
* *A skipped file.* That index was parsed before the lock was taken. If another process
  has saved a newer one and the search cannot hash, load or chunk a file, it keeps the old
  entry of it (`src/src/lexical-index.ts:261-291`) and saves that over the newer one, while
  `src/src/lexical-index.ts:230-231` says that the index advances around such files. The
  property is `AdvancesAround`: with `Requests = {r1}`, `Files = {a, b}`, `MaxEdits = 1`,
  `MaxStamp = 1` TLC refutes it in ten steps. A leg, which loads under the lock, never does
  that.

## 4. Proofs

The theorems hold for every value of the constants that satisfies the named
assumptions, hence for any number of processes, requests, saves and slots.

The assumptions are what the constants are meant to be. Most are types; beyond
that, `Nil` is outside every set whose values share a variable with it (`UpdateAssumption`
says so of journals and indexes, `WatchAssumption` of watches), as `null` is in the code.

**IndexStoreProofs** - assumption `ConstantsAssumption`. `TypeCorrect`,
`ActiveAlwaysComplete` and `LoadsAreCoherent` follow from `IInv`, which `Inductive`
shows to be preserved. Neither property is inductive alone:

* `LockInv`: only the lock holder is past the lock, so at most one save stages;
* `StagingInv`: a save stages under the number after the active one, so it never
  clears or writes the active directory, and a sealed directory is complete and
  newer than `latest`;
* `LoadInv`: a load that no drop overlapped has a pin no greater than the active
  number. Saves go to higher numbers only, so its directory is not reused while
  it reads: what the directory holds, if it still exists, is what was pinned.

The proof has one lemma per action and frame lemmas for the parts an action leaves
alone. Two more theorems stand on `IInv`:

* `MarginHolds` (`RetentionMargin`) counts. While no repair or purge has left
  directories behind, no directory has a number above the one being staged
  (`NumbersBounded`), the link is as many versions past a pin as there were swaps
  since (`PinOk`), and a set of directories between two numbers has no more
  members than there are numbers between them (`DirsBetween`). A prune that takes
  a pinned directory keeps at least `Retention` others above it, hence more than that many
  swaps have happened.
* `LayoutImplementsSnapshot` (`ImplementsSnapshot`) maps the register's value to
  the generation behind the link. Of all file operations only the rename of the
  link is a commit and only its removal a drop; staging, sealing, pruning, failing
  and crashing are stutters, because by `StagingInv` they never touch the active
  directory; and the read that ends a load returns an offered generation by `LoadInv`.

**AdmissionGateProofs** - `GateKeepsAccount`, under `GateConstants`. The invariant
`GateInv` adds to `SlotsAccounted` that nobody is queued twice (`NobodyTwice`):
without it, taking the head from the queue could leave the same request in it,
queued and granted at once.

**DaemonProofs** - under `DaemonAssumption`. `BreakerNeverStuck` is about the breaker
alone: `NeverStuck` with the types is inductive; every answer, late or not, clears the
probe flag, but each answer also leaves the half-open state. Every step of the daemon is
a step of the gate and of the breaker or leaves it alone (`StepUsesGate`,
`StepUsesBreaker`), so `GateKeepsAccount` and `BreakerNeverStuck` carry over through
instances of their modules: `DaemonKeepsAccount`, `DaemonNeverStuck`. `TypeCorrect` and
`AnswersSurviveDrain` need an invariant of the daemon's own, `DaemonInv`: a drain
that ended in time left no request in the gate (`DrainInv`), and a client that waits
has its request in the gate (`ClientInv`). Together they say that the force-exit timer,
which `stop()` sets when the drain is over, finds nobody waiting unless the drain
ran out of time.

**TriggerWatcherProofs** - `TypeCorrect`, `NoRunStateLeftBehind`, `RefreshesAreCoalesced`
and `StopLeavesNothingRunning`, under `WatcherAssumption` and
`ReindexAssumption`. `Inv` joins to the types
and to `RunStateReleased`:

* `RunInv`: a server that is down refreshes nothing and holds the lock only while it
  updates;
* `StartInv`: until the polling timer is set no stat is outstanding and there is no
  baseline;
* `MtimesPast`: no mtime that the server has read is from the future;
* `Credit`: the refreshes that started and the pending one together are at most the
  baseline `lastMtimeMs`. Each request raises the baseline before it starts or
  coalesces one, which is why the count never exceeds the touches.

**DocstoreCasProofs** - `TypeCorrect`, `EntriesAlwaysWhole`, `SharedDocstoresArePrivate`,
`NoLinkToRemovedEntry`, `SharedOnce`, under `CasAssumption`. `EntriesWhole` is inductive
only together with `StagedInv` (what a saver stages is whole once it is written, and is
what it hashed), `EntriesShared` (an entry is never somebody's private file) and
`Budget` (each swap has a save of its own, which keeps version numbers in bounds). The
refinement `SharedDocstoresArePrivate` is proved from these alone,
one case per action: a step of deduplication replaces a docstore by another file of
the same content, a collection removes names of entries and no docstore. The last two
theorems need more: who is between check and link holds the lock, unless a lock has
failed open.

**RecursiveWatchProofs** - under `WatchAssumption`. `TypeCorrect`; `StopIsFinal`, whose
invariant is that a stopped watcher has no timer and no watch, which holds because
`Continue` looks at `stopped` after its `lstat` and `List` attaches nothing; and
`MapFollowsTree`, for answers in any order and numbers that come back. Its invariant
`TreeInv` says of a map that is wrong for now why it will come right:

* `FollowInv`: a path whose parent is heard is right or lost (`Tracked`), or the watcher
  will look at it: an event or an `lstat` of it waits (`Asked`), a listing of its parent
  that will find it (`Listed`), or an answer that saw it as it is now (`Read`). A change of
  the tree below a directory that is heard is an event, and an attachment lists. An answer
  that is out of date may come at any time: if it saw nothing and closes a watch, the
  directory is `misled`; if it saw another number, the watch is attached anew, to what is
  there. So no order of the answers has to be known.
* `ChainInv`, `NewInv`: a directory lies in a directory; nothing waits before `start`.

When nothing waits, every path below one that is heard is tracked.

**IndexUpdateProofs** - under `UpdateAssumption`, in two parts.

*Types and the journal.* `TypeCorrect` and `CommitsJournaled` hold for any processes, warm
or cold, any models, scopes, faults and budgets. The types are not inductive alone: a
process that saves writes what its locals and its journal say, so `TypeInv` adds that
who is past the lock holds it (`LockInv`), that nobody else therefore changes its
journal (`UnderInv`: between `Persist` and `Complete` the journal is the process's own, at
`save-started`, if there are sidecars to write), and that the sidecars left to write are
pending ones.

*No false "unchanged".* `NeverFalselyUnchanged` (`NoFalseUnchanged`) and `ManifestsAgree`
(`SidecarsAgree`) are about CLI commands, for any number of processes, files, contents,
splitters, edits, failures and crashes. They assume `Setting`: every process is cold, there
is one model, every refresh is of all files, and a content does not come back. Each of
these is needed, since the code breaks the property without it: the runs `two_writers` (a
warm process beside another) and `scoped_rebuild` (scopes), the observation on restored
files, and the sidecars that several models share (a listed hazard). The first theorem
assumes further that no process both puts files off and is asked for forced rebuilds, or
that files can be read and journals completed (`Careful`): otherwise a forced rebuild
that is put off certifies an index that nobody believed (part 3). The second assumes
`Careful`: a refresh that goes on without an unreadable file leaves its manifest behind.
`index_update_cold` satisfies these hypotheses, so TLC and the prover speak of the same thing.

The invariant `Inv` has to say what holds *while* a refresh is half done or dead:

* `Tied(x, f)`: the sidecars of `f` say what index `x` holds of it; `Fits(x, f, w)`: the
  sidecars `w`, once written, will. Writing one of the two sidecars of a file that
  fits keeps what is tied (`WritingTies`), in either order and for every prefix.
* `DiskInv`: an index that the next refresh will believe (`Believed`: its freshness
  manifest matches, or it is `Careful`) is tied to all sidecars whenever there is
  no journal. This is the property at rest, and it must hold at every crash.
* `JournalInv`: with a journal at `save-complete` the freshness manifest does not match,
  the listed sidecars fit the index on disk and the others are tied to it (`Completed`),
  so redoing them is safe however often and however far it got; a journal whose owner
  is alive belongs to a process that runs.
* `SidecarInv`, `History`: a hash is of a text that the file had, so a file without text
  is never taken for unchanged.
* `RunInv(m)`: what the one process at work knows at its place: what recovery has
  redone, what the scan has seen, that the index it plans fits the pending sidecars
  (`Good`, `Built`), which sidecars are written (`Written`, `Manifested`). `Basis` says what a
  refresh may start from: an index that is believed, or none and no sidecars.

A commit without a journal has no sidecars pending, so it must be of an index in which
every file that has sidecars is tied (`NothingPending`); a fallback build starts without an
index, where none has (`UnknownTied`).

`Alone` reduces every step to the one process that holds the lock, `WorldKeeps` shows that
an edit at any moment disturbs none of it (a changed file is no longer claimed, and
the append or rebuild decision was made on what was read), and there is one lemma per action.

**LexicalCacheProofs** - `TypeCorrect`, `EntryNeverStale`, `FileNeverGoesBack`,
`AnswersNeverGoBack`, under `LexicalAssumption`. Two layers:

* `InvA(f)`, for each file `f` of the knowledge base: an index is held by whoever parsed
  it or was handed it (`HoldInv`); saves happen under the lock, by a leg whose index was
  read under it and is therefore no older than the file, or by a lexical search whose
  index is no older of any file that its refresh did not go around (`LockInv`); a parse
  whose token is still valid is the one in flight, and what it read is no older than the
  cache was told if its stamp is the present one (`ParseInv`, `FlightInv`); so is the
  entry that is kept under the present stamp (`FileInv`, `EntryInv`, `NoStale`). Without
  the tokens a displaced parse could come back and be remembered. `FileNeverGoesBack` is
  read off `LockInv`.
* `InvB(E, f)`: each request `r` will be answered from an index with at least `E[r]` of
  `f`, and `need[r][f] <= E[r]`; one that refreshes and did not go around `f`, with at least
  `asked[r][f]`. The bound `E` exists for every reachable state (`InvAB`): it is chosen
  when a search is called, raised for the owner of a parse when somebody joins it, since
  a joined parse must be as new as the youngest who waits for it, and lowered for all
  when a save puts an older entry in place (`Told(E, F, f)` relates the bounds before
  and after).

## 5. Limits

### Only model-checked

Liveness (`Converges`, `Answered`, `Stops`, `Recovers`, `TouchesAreServed`,
`WritesAreServed`, `SearchesEnd`) is beyond the prover. `NoFalseUnchanged` of a warm
process (`index_update_warm`) is checked by TLC and not proved: the theorem is about
cold ones. Every other invariant, action property and refinement of the
passing runs is stated by a theorem.

### Abstractions

* Store: removing a directory is one step, since a load touches one file at a time;
  a partial file is a missing file; directory entries are durable once renamed (a
  process crash, not a power failure). The legacy layout `faiss.index/` and its
  migration are left out, and so a load that finds no symlink finds nothing.
* Refresh: a whole scan is one step, since files are independent; the fallback
  build reads and embeds in one step, so that a file is not edited between its hash and
  its load there; the purge of sidecars succeeds as a whole. A
  file that is written by other programs changes in one step. Quarantined files,
  changes of the ingest filter, the rollback of `add_document`, the metadata sidecar
  and the sidecar lock are left out. All runs have one model.
* Lock: a dead holder's lock is free at once; a living holder never loses it.
* Breaker: failures are counted up to the threshold, with which alone they are
  compared; the clock is the flag `cooled`. Statistics are left out, and so are
  those of the gate.
* Daemon: one provider call per job; timers fire at any moment once set, except
  that the force-exit timer, whose delay is longer than the drain budget, fires
  only after the drain has ended. Prewarming, `/health`, `/metrics` and the manager
  cache are left out.
* Trigger watcher and reindex: a change of the corpus and its touch are one step; a
  refresh covers every touch made before it holds the lock. The cost estimate, the
  guard window and the prefaces of `reindex-runner.ts` are left out: they happen
  before the run-state file or inside the refresh.
* Recursive watcher: the Linux mode, with a watch per directory; the tree is a chain,
  since siblings share nothing; the directory is read in one step with the end of its
  listing. Errors of a watch handle, `lstat` errors other than a missing path, and the
  native recursive mode of other platforms are left out.
* Docstore: the canonical form of a docstore is its content; a hash collision does not
  happen; removing a directory is one step.
* Lexical cache: two *processes* never save within one grain of the clock; a refresh reads
  all files in one step, so that none is edited in its middle; files are not removed;
  ranking and what an entry holds beyond its file's version are left out; one index file.

### Bounds

Budgets and sizes are CONSTANTS, given in the `.cfg` files: `MaxSaves` (saves
started), `MaxEdits`, `MaxFaults`, `MaxCrashes`, `MaxTouches`, `MaxStarts`, `MaxKills`,
`MaxChanges`, `MaxFiles` (files the shared docstore ever makes), `Attempts`. Every
passing run explores its instance completely. Each property is broken by the mutant
that `PROJECT.json` names for it, under the same bounds, so that the case it is about
does occur.

## 6. Plan

In this order, most important first:

1. `WriteLock`: acquisition with retries, heartbeat, stale takeover from a holder
   that is only suspended, the sidecar lock that fails open. Abstract
   specification: mutual exclusion; composed with `IndexStore`'s `Acquire` and
   `Release`. Bounds: two holders, one suspension.
2. `ManagerCache`: the manager registry and the daemon's resident manager with its
   staleness check. Abstract specification: a search sees an index no older than
   the one active when it began.
3. Extensions of `IndexUpdate`: quarantine, document mutations with rollback, two
   models that share sidecars.
4. Model directories: `.adding`, `active.txt`, removal.

Proofs, in this order: `NoFalseUnchanged` of a single warm process, whose memory may be
ahead of or behind the disk after a failure (the invariant of the cold ones, with the
place `ready` and with `mem` in the part of `disk`); what the fast paths of the scan
and of `ToAppend` compute, as lemmas over any splitter; the mutual exclusion of
`WriteLock` under a heartbeat that never stops.
