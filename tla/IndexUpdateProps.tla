-------------------------- MODULE IndexUpdateProps --------------------------
(***************************************************************************)
(* What refreshes must guarantee of the index (IndexUpdate.tla).           *)
(***************************************************************************)
EXTENDS IndexUpdate

IsIndex(x) == x = Nil \/ x \in Indexes

\* Every variable holds a value of its kind; a journal lists sidecars of files
\* (src/pending-sidecar-commit.ts, src/file-ingest.ts, src/FaissIndexManager.ts).
TypeOK ==
  /\ file \in [Files -> Contents \cup {Nil}]
  /\ hot \subseteq Files
  /\ hash \in [Files -> Contents \cup {Nil}]
  /\ chunks \in [Files -> {ChunksOf[c] : c \in Contents} \cup {Nil}]
  /\ DOMAIN disk = Models /\ \A k \in Models : IsIndex(disk[k])
  /\ fresh \subseteq {k \in Models : disk[k] # Nil}
  /\ journal \in [Models -> Journal \cup {Nil}]
  /\ lock \in [Models -> Managers \cup {Nil}]
  /\ DOMAIN mgr = Managers /\ \A m \in Managers : IsIndex(mgr[m].mem)

-----------------------------------------------------------------------------
AtRest(k) == lock[k] = Nil /\ \A m \in Managers : Model(m) = k => mgr[m].pc \in {"off", "ready"}

\* The index holds exactly the chunks of f, in order: none lost, none twice,
\* none stale.
Exact(index, f) == Held(index, f) = ChunksOf[file[f]]

Claimed(f) == file[f] # Nil /\ hash[f] = file[f]

\* The next refresh of the model will trust the index and the sidecars.
Trusted(k) == AtRest(k) /\ journal[k] = Nil /\ disk[k] # Nil /\ k \in fresh

\* The index on disk has exactly the chunks of every file that the next refresh
\* will take for unchanged (updateIndex, saveFaissStoreAtomic and withWriteLock
\* as processes share one model directory).
CommitsExact ==
  \A k \in Models : Trusted(k) => \A f \in Files : Claimed(f) => Exact(disk[k], f)

\* ADR 0002: no false negatives.  Whatever edits, failures and crashes came
\* before, a file that the next refresh will take for unchanged has exactly
\* its chunks in the committed index and in the memory of every warm manager.
NoFalseUnchanged ==
  /\ CommitsExact
  /\ \A m \in Managers :
       Trusted(Model(m)) /\ mgr[m].pc = "ready" /\ mgr[m].mem # Nil =>
         \A f \in Files : Claimed(f) => Exact(mgr[m].mem, f)

\* A file with text that the next refresh will take for unchanged has vectors:
\* no refresh of one knowledge base drops another (the comment on a scoped
\* force in updateIndex says why that would be wrong).
NoBaseDropped ==
  \A k \in Models : Trusted(k) =>
    \A f \in NonEmpty(Files) : Claimed(f) => disk[k][f] # <<>>

\* The journal is the recovery record of the gap between the save of the index
\* and the sidecars: at rest and without one, the chunk manifest of a file says
\* what the index holds of it, which is what the next append counts on.
SidecarsAgree ==
  \A k \in Models : AtRest(k) /\ journal[k] = Nil /\ disk[k] # Nil =>
    \A f \in NonEmpty(Files) : chunks[f] # Nil => disk[k][f] = chunks[f]

\* A refresh with sidecars to write commits its index only under a journal of
\* its own, whatever journal an earlier failure left: a crash right after the
\* swap of atomicSave is then never taken for a finished refresh.
CommitsAreJournaled ==
  [][\A k \in Models : disk'[k] \notin {disk[k], Nil} /\ job[lock[k]].pending # Empty =>
       /\ journal[k] # Nil
       /\ journal[k].phase = "save-started"
       /\ journal[k].owner = lock[k]]_vars

\* Refreshes converge: once edits, failures and crashes have stopped, a warm
\* manager that keeps being asked has every file exactly in its index, again
\* and again (deferrals by the quiesce window and rebuilds included).
Served(m) == mgr[m].pc = "ready" /\ \A f \in Files : file[f] # Nil => Exact(mgr[m].mem, f)

Converges == \A m \in Warm : []<>Served(m)
=============================================================================
