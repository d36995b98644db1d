----------------------------- MODULE IndexStore -----------------------------
(***************************************************************************)
(* One model directory $FAISS_INDEX_PATH/models/<id>/ with the versioned   *)
(* layout of src/faiss-store-layout.ts: directories index.v0, index.v1,    *)
(* ... that each hold faiss.index, docstore.json and an integrity          *)
(* manifest, and the symlink `index' that names the active one.            *)
(*                                                                         *)
(* Writers hold the per-model write lock (src/write-lock.ts) while they    *)
(* save or purge.  Readers load WITHOUT a lock, beside them; on a load     *)
(* error a reader that may repair removes the symlink.  A writer can crash *)
(* between any two file operations; its lock is then free again (the       *)
(* lockfile library takes over a lock whose heartbeat stopped).            *)
(*                                                                         *)
(* A generation is the number of a save: two files belong together exactly *)
(* when one save wrote both.  A file that is being written is NoFile: a    *)
(* reader fails on a partial file as it does on a missing one.  Removing a *)
(* directory is one step: a load's reads touch one file each, so a read    *)
(* during the removal is a read before it or after it.                     *)
(***************************************************************************)
EXTENDS Integers, FiniteSets

CONSTANTS
  Writers,     \* processes that may take the write lock
  Readers,     \* processes that load without it
  Repairing,   \* readers with repairCorrupt (all but strictReadOnly ones)
  Mismatched,  \* readers configured for another index type than the writers'
  Retention,   \* KB_INDEX_VERSION_RETENTION: inactive versions kept
  MaxSaves,    \* bound: saves started
  Nil          \* no lock holder, no active version, no file

ASSUME ConstantsAssumption ==
  /\ Repairing \subseteq Readers
  /\ Mismatched \subseteq Readers
  /\ Retention \in Nat
  /\ MaxSaves \in Nat
  /\ Nil \notin Writers
  /\ Nil \notin Int

VARIABLES
  link,      \* target of the symlink `index': a version number or Nil
  dirs,      \* contents of the index.vN directories that exist, by N
  lock,      \* holder of the per-model write lock, or Nil
  saves,     \* generations issued so far
  writer,    \* [Writers -> WriterState]
  reader     \* [Readers -> ReaderState]

\* Observations that only the properties read.
VARIABLES
  latest,    \* generation of the last swap
  leftover,  \* what removed the link and left its directories behind, or "none"
  seen       \* [Readers -> what happened since the load began]

store == <<link, dirs, lock, saves>>
observed == <<latest, leftover, seen>>
vars == <<link, dirs, lock, saves, writer, reader, latest, leftover, seen>>

-----------------------------------------------------------------------------
Version == Nat
Generation == Nat \ {0}

VersionDir == [faiss : Generation \cup {Nil}, docstore : Generation \cup {Nil},
               manifest : BOOLEAN]

EmptyDir == [faiss |-> Nil, docstore |-> Nil, manifest |-> FALSE]

\* pc of a writer: idle, locked (holds the lock, nothing staged), staging,
\* sealed (manifest written), swapped (symlink renamed), purging.
WriterState == [pc : {"idle", "locked", "staging", "sealed", "swapped", "purging"},
                target : Version, gen : Nat]

IdleWriter == [pc |-> "idle", target |-> 0, gen |-> 0]

LockedWriter == [IdleWriter EXCEPT !.pc = "locked"]

\* pc of a load: idle (never began, returned null or threw to its caller),
\* resolve (lstat saw the symlink), manifest (realpath done), reading, broken
\* (a read threw), loaded.
ReaderState == [pc : {"idle", "resolve", "manifest", "reading", "broken", "loaded"},
                pin : Version, faiss : Generation \cup {Nil},
                docstore : Generation \cup {Nil}]

At(pc) == [pc |-> pc, pin |-> 0, faiss |-> Nil, docstore |-> Nil]

Loading(r) == reader[r].pc \in {"resolve", "manifest", "reading", "broken"}

Seen == [offered : SUBSET Generation, dropped : BOOLEAN, swaps : Nat]

Unseen == [offered |-> {}, dropped |-> FALSE, swaps |-> 0]

Offer(s, gen) == [offered |-> s.offered \cup {gen}, dropped |-> s.dropped,
                  swaps |-> s.swaps + 1]

Complete(d) == d.faiss # Nil /\ d.docstore = d.faiss /\ d.manifest

-----------------------------------------------------------------------------
(* Version arithmetic and pruning.                                         *)

\* Mutants: the active number is staged again; a link that is gone keeps none.
NextVersionReused(v) == IF v = Nil THEN 0 ELSE v
NextVersionBelow(v) == IF v = Nil THEN -1 ELSE v + 1

NextVersionAfter(v) == IF v = Nil THEN 0 ELSE v + 1

\* Mutant: one inactive version too few is kept.
PruneVictimsOffByOne(existing, active, retention) ==
  {v \in existing \ {active} :
     Cardinality({u \in existing \ {active} : u > v}) + 1 >= retention}

\* `index.vN` directories other than `active`, newest number first, beyond
\* the first `retention` of them.
PruneVictims(existing, active, retention) ==
  {v \in existing \ {active} :
     Cardinality({u \in existing \ {active} : u > v}) >= retention}

-----------------------------------------------------------------------------
Init ==
  /\ link = Nil
  /\ dirs = [v \in {} |-> EmptyDir]
  /\ lock = Nil
  /\ saves = 0
  /\ writer = [w \in Writers |-> IdleWriter]
  /\ reader = [r \in Readers |-> At("idle")]
  /\ latest = 0
  /\ leftover = "none"
  /\ seen = [r \in Readers |-> Unseen]

Remove(vs) == dirs' = [v \in DOMAIN dirs \ vs |-> dirs[v]]

Put(v, d) == dirs' = [u \in DOMAIN dirs \cup {v} |-> IF u = v THEN d ELSE dirs[u]]

\* The link is gone: every load in progress may now meet a reused number.
NoteDrop(others) ==
  seen' = [r \in Readers |->
             IF Loading(r)
             THEN IF r \in others THEN [seen[r] EXCEPT !.dropped = TRUE] ELSE Unseen
             ELSE seen[r]]

-----------------------------------------------------------------------------
(* The write lock and saveFaissStoreAtomic / saveHnswIndexAtomic.          *)

Acquire(w) ==
  /\ lock = Nil
  /\ writer[w].pc = "idle"
  /\ lock' = w
  /\ writer' = [writer EXCEPT ![w] = LockedWriter]
  /\ UNCHANGED <<link, dirs, saves, reader, observed>>

\* readlink, next version, clear an orphan of a prior crash, mkdir.
SaveBegin(w) ==
  /\ writer[w].pc = "locked"
  /\ saves < MaxSaves
  /\ LET target == NextVersionAfter(link)
     IN /\ Put(target, EmptyDir)
        /\ writer' = [writer EXCEPT ![w] =
                        [pc |-> "staging", target |-> target, gen |-> saves + 1]]
  /\ saves' = saves + 1
  /\ UNCHANGED <<link, lock, reader, observed>>

\* FaissStore.save writes both files concurrently: in either order.
WriteFaiss(w) ==
  /\ writer[w].pc = "staging"
  /\ dirs[writer[w].target].faiss = Nil
  /\ Put(writer[w].target, [dirs[writer[w].target] EXCEPT !.faiss = writer[w].gen])
  /\ UNCHANGED <<link, lock, saves, writer, reader, observed>>

WriteDocstore(w) ==
  /\ writer[w].pc = "staging"
  /\ dirs[writer[w].target].docstore = Nil
  /\ Put(writer[w].target, [dirs[writer[w].target] EXCEPT !.docstore = writer[w].gen])
  /\ UNCHANGED <<link, lock, saves, writer, reader, observed>>

WriteManifest(w) ==
  /\ writer[w].pc = "staging"
  /\ dirs[writer[w].target].faiss # Nil
  /\ dirs[writer[w].target].docstore # Nil
  /\ Put(writer[w].target, [dirs[writer[w].target] EXCEPT !.manifest = TRUE])
  /\ writer' = [writer EXCEPT ![w].pc = "sealed"]
  /\ UNCHANGED <<link, lock, saves, reader, observed>>

\* Mutant: the link is renamed before the manifest seals the directory.
SwapUnsealed(w) ==
  /\ writer[w].pc \in {"staging", "sealed"}
  /\ dirs[writer[w].target].faiss # Nil
  /\ link' = writer[w].target
  /\ writer' = [writer EXCEPT ![w].pc = "swapped"]
  /\ latest' = writer[w].gen
  /\ seen' = [r \in Readers |->
                IF Loading(r) THEN Offer(seen[r], writer[w].gen) ELSE seen[r]]
  /\ UNCHANGED <<dirs, lock, saves, reader, leftover>>

\* symlink(nextVersion, tmp); rename(tmp, index).
Swap(w) ==
  /\ writer[w].pc = "sealed"
  /\ link' = writer[w].target
  /\ writer' = [writer EXCEPT ![w].pc = "swapped"]
  /\ latest' = writer[w].gen
  /\ seen' = [r \in Readers |->
                IF Loading(r) THEN Offer(seen[r], writer[w].gen) ELSE seen[r]]
  /\ UNCHANGED <<dirs, lock, saves, reader, leftover>>

\* pruneInactiveIndexVersions: skipped when the link is missing; a directory
\* whose removal fails is kept.
Prune(w) ==
  /\ writer[w].pc = "swapped"
  /\ writer' = [writer EXCEPT ![w] = LockedWriter]
  /\ \/ /\ link = Nil
        /\ UNCHANGED dirs
     \/ /\ link # Nil
        /\ \E removed \in SUBSET PruneVictims(DOMAIN dirs, link, Retention) :
             Remove(removed)
  /\ UNCHANGED <<link, lock, saves, reader, observed>>

\* Any step of the save throws (disk full, permissions, the onCommitted
\* callback): what is on disk stays and the error leaves withWriteLock.
SaveFails(w) ==
  /\ writer[w].pc \in {"staging", "sealed", "swapped"}
  /\ writer' = [writer EXCEPT ![w] = LockedWriter]
  /\ UNCHANGED <<store, reader, observed>>

\* purgePersistedIndexStore: `index' sorts before `index.vN', so the link goes
\* first; a directory whose removal fails stays behind.
PurgeLink(w) ==
  /\ writer[w].pc = "locked"
  /\ link' = Nil
  /\ writer' = [writer EXCEPT ![w].pc = "purging"]
  /\ NoteDrop(Readers)
  /\ leftover' = "purge"
  /\ UNCHANGED <<dirs, lock, saves, reader, latest>>

PurgeDirs(w) ==
  /\ writer[w].pc = "purging"
  /\ writer' = [writer EXCEPT ![w] = LockedWriter]
  /\ \E removed \in SUBSET DOMAIN dirs :
       /\ Remove(removed)
       /\ leftover' = IF removed = DOMAIN dirs THEN "none" ELSE leftover
  /\ UNCHANGED <<link, lock, saves, reader, latest, seen>>

Release(w) ==
  /\ writer[w].pc = "locked"
  /\ lock' = Nil
  /\ writer' = [writer EXCEPT ![w] = IdleWriter]
  /\ UNCHANGED <<link, dirs, saves, reader, observed>>

Crash(w) ==
  /\ writer[w].pc # "idle"
  /\ lock' = Nil
  /\ writer' = [writer EXCEPT ![w] = IdleWriter]
  /\ UNCHANGED <<link, dirs, saves, reader, observed>>

-----------------------------------------------------------------------------
(* loadFaissStoreAtomic / loadHnswIndexAtomic, without the lock.           *)

\* lstat: no symlink means no index (the legacy layout is not modelled).
Open(r) ==
  /\ ~Loading(r)
  /\ \/ /\ link = Nil
        /\ reader' = [reader EXCEPT ![r] = At("idle")]
        /\ seen' = [seen EXCEPT ![r] = Unseen]
     \/ /\ link # Nil
        /\ reader' = [reader EXCEPT ![r] = At("resolve")]
        /\ seen' = [seen EXCEPT ![r] =
                      [Unseen EXCEPT !.offered = {dirs[link].faiss}]]
  /\ UNCHANGED <<store, writer, latest, leftover>>

\* realpath pins the directory; a link that vanished or dangles is an error.
Resolve(r) ==
  /\ reader[r].pc = "resolve"
  /\ \/ /\ link \notin DOMAIN dirs
        /\ reader' = [reader EXCEPT ![r] = At("idle")]
        /\ seen' = [seen EXCEPT ![r] = Unseen]
     \/ /\ link \in DOMAIN dirs
        /\ reader' = [reader EXCEPT ![r] = [At("manifest") EXCEPT !.pin = link]]
        /\ seen' = [seen EXCEPT ![r].swaps = 0]
  /\ UNCHANGED <<store, writer, latest, leftover>>

Exists(v) == v \in DOMAIN dirs

\* A manifest that names another index type breaks the load; a missing
\* manifest is taken for the expected type.
ReadManifest(r) ==
  /\ reader[r].pc = "manifest"
  /\ LET mismatch == r \in Mismatched /\ Exists(reader[r].pin) /\ dirs[reader[r].pin].manifest
     IN reader' = [reader EXCEPT ![r].pc = IF mismatch THEN "broken" ELSE "reading"]
  /\ UNCHANGED <<store, writer, observed>>

Present(v, file) == Exists(v) /\ dirs[v][file] # Nil

ReadFaiss(r) ==
  /\ reader[r].pc = "reading"
  /\ reader[r].faiss = Nil
  /\ \/ /\ ~Present(reader[r].pin, "faiss")
        /\ reader' = [reader EXCEPT ![r].pc = "broken"]
     \/ /\ Present(reader[r].pin, "faiss")
        /\ reader' = [reader EXCEPT
             ![r].faiss = dirs[reader[r].pin].faiss,
             ![r].pc = IF reader[r].docstore = Nil THEN "reading" ELSE "loaded"]
  /\ UNCHANGED <<store, writer, observed>>

\* Mutant: docstore.json is opened through the link instead of the pin.
ReadDocstoreThroughLink(r) ==
  /\ reader[r].pc = "reading"
  /\ reader[r].docstore = Nil
  /\ link # Nil
  /\ Present(link, "docstore")
  /\ reader' = [reader EXCEPT
       ![r].docstore = dirs[link].docstore,
       ![r].pc = IF reader[r].faiss = Nil THEN "reading" ELSE "loaded"]
  /\ UNCHANGED <<store, writer, observed>>

ReadDocstore(r) ==
  /\ reader[r].pc = "reading"
  /\ reader[r].docstore = Nil
  /\ \/ /\ ~Present(reader[r].pin, "docstore")
        /\ reader' = [reader EXCEPT ![r].pc = "broken"]
     \/ /\ Present(reader[r].pin, "docstore")
        /\ reader' = [reader EXCEPT
             ![r].docstore = dirs[reader[r].pin].docstore,
             ![r].pc = IF reader[r].faiss = Nil THEN "reading" ELSE "loaded"]
  /\ UNCHANGED <<store, writer, observed>>

\* The catch block: rm(symlink) whatever it names by now, return null.
Repair(r) ==
  /\ reader[r].pc = "broken"
  /\ r \in Repairing
  /\ link' = Nil
  /\ reader' = [reader EXCEPT ![r] = At("idle")]
  /\ leftover' = IF link # Nil /\ leftover = "none" THEN "repair" ELSE leftover
  /\ NoteDrop(Readers \ {r})
  /\ UNCHANGED <<dirs, lock, saves, writer, latest>>

GiveUp(r) ==
  /\ reader[r].pc = "broken"
  /\ r \notin Repairing
  /\ reader' = [reader EXCEPT ![r] = At("idle")]
  /\ seen' = [seen EXCEPT ![r] = Unseen]
  /\ UNCHANGED <<store, writer, latest, leftover>>

-----------------------------------------------------------------------------
WriterStep(w) ==
  \/ Acquire(w) \/ SaveBegin(w) \/ WriteFaiss(w) \/ WriteDocstore(w)
  \/ WriteManifest(w) \/ Swap(w) \/ Prune(w) \/ SaveFails(w)
  \/ PurgeLink(w) \/ PurgeDirs(w) \/ Release(w) \/ Crash(w)

ReaderStep(r) ==
  \/ Open(r) \/ Resolve(r) \/ ReadManifest(r) \/ ReadFaiss(r)
  \/ ReadDocstore(r) \/ Repair(r) \/ GiveUp(r)

Next ==
  \/ \E w \in Writers : WriterStep(w)
  \/ \E r \in Readers : ReaderStep(r)

Spec == Init /\ [][Next]_vars
=============================================================================
