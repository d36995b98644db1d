-------------------------- MODULE IndexStoreProofs --------------------------
(***************************************************************************)
(* Proofs about IndexStore.tla for any number of writers and readers, any  *)
(* retention and any number of saves.                                      *)
(***************************************************************************)
EXTENDS IndexStoreProps, FiniteSetTheorems, TLAPS

-----------------------------------------------------------------------------
(* The inductive invariant.                                                *)

\* Only the lock holder is past the lock.
LockInv ==
  \A w \in Writers : writer[w].pc # "idle" <=> lock = w

\* A save stages under the number after the active one (or under 0 once the
\* link is gone), so it never touches the active directory, and the files it
\* has written are its own.
StagingOk(w) ==
  /\ writer[w].pc \in {"staging", "sealed"} =>
       /\ writer[w].target \in DOMAIN dirs
       /\ link # Nil => writer[w].target = link + 1
       /\ writer[w].gen \in Generation
       /\ writer[w].gen = saves
       /\ latest < writer[w].gen
       /\ dirs[writer[w].target].faiss \in {Nil, writer[w].gen}
       /\ dirs[writer[w].target].docstore \in {Nil, writer[w].gen}
  /\ writer[w].pc = "sealed" => Complete(dirs[writer[w].target])
  /\ writer[w].pc = "purging" => link = Nil

StagingInv == \A w \in Writers : StagingOk(w)

\* A load that no drop overlapped still has an active version at or after
\* its pin, and its pinned directory, while it exists, is the one it pinned.
LoadOk(r) ==
  /\ Loading(r) /\ ~seen[r].dropped =>
       /\ link # Nil
       /\ latest \in seen[r].offered
  /\ reader[r].pc \in {"manifest", "reading", "broken"} /\ ~seen[r].dropped =>
       /\ reader[r].pin <= link
       /\ reader[r].pin \in DOMAIN dirs =>
            /\ Complete(dirs[reader[r].pin])
            /\ dirs[reader[r].pin].faiss \in seen[r].offered
            /\ reader[r].faiss \in {Nil, dirs[reader[r].pin].faiss}
            /\ reader[r].docstore \in {Nil, dirs[reader[r].pin].faiss}
       /\ reader[r].faiss \in {Nil} \cup seen[r].offered
       /\ reader[r].docstore \in {Nil} \cup seen[r].offered

LoadInv == \A r \in Readers : LoadOk(r)

IInv ==
  /\ TypeOK
  /\ latest <= saves
  /\ LockInv
  /\ StagingInv
  /\ LoadInv
  /\ ActiveComplete
  /\ CoherentLoad

-----------------------------------------------------------------------------
(* Frames: a conjunct survives a step that leaves what it reads alone.     *)

\* The link and the directories it can name decide ActiveComplete.
LEMMA DiskFrame ==
  ASSUME ActiveComplete, UNCHANGED <<link, dirs, latest>>
  PROVE  ActiveComplete'
  BY DEF ActiveComplete, Complete

\* The state of a save decides what is known of the writers.
LEMMA WriterFrame ==
  ASSUME LockInv, StagingInv, UNCHANGED <<link, dirs, lock, saves, latest, writer>>
  PROVE  LockInv' /\ StagingInv'
  BY DEF LockInv, StagingInv, StagingOk

\* What a load has read and seen decides what is known of the readers.
LEMMA LoadFrame ==
  ASSUME LoadInv, CoherentLoad, UNCHANGED <<link, dirs, latest, reader, seen>>
  PROVE  LoadInv' /\ CoherentLoad'
  BY DEF LoadInv, LoadOk, CoherentLoad, Loading

\* Offering a generation to a load keeps what it has seen well-typed.
LEMMA OfferedSeen ==
  ASSUME NEW s \in Seen, NEW g \in Generation
  PROVE  Offer(s, g) \in Seen
  BY DEF Seen, Offer

\* A write above the active version is invisible to every load that no drop
\* overlapped: its pin is at or below the link.
LEMMA StagedWrite ==
  ASSUME TypeOK, LoadInv, NEW v \in Version, link # Nil => link < v,
         \A u \in DOMAIN dirs' : u # v => u \in DOMAIN dirs /\ dirs'[u] = dirs[u],
         UNCHANGED <<link, latest, reader, seen>>
  PROVE  LoadInv'
<1> SUFFICES ASSUME NEW r \in Readers PROVE LoadOk(r)'
  BY DEF LoadInv
<1>1. LoadOk(r) /\ reader[r].pin \in Nat /\ link \in Nat \cup {Nil} /\ v \in Nat
  BY DEF LoadInv, TypeOK, ReaderState, Version
<1>2. reader[r].pc \in {"manifest", "reading", "broken"} /\ ~seen[r].dropped => reader[r].pin # v
  BY <1>1 DEF LoadOk, Loading
<1>3. QED  BY <1>1, <1>2 DEF LoadOk, Loading, Complete

\* Put stores one well-typed directory and leaves the others.
LEMMA PutTyped ==
  ASSUME TypeOK, NEW v \in Version, NEW d \in VersionDir, Put(v, d)
  PROVE  DOMAIN dirs' \subseteq Version /\ dirs' \in [DOMAIN dirs' -> VersionDir]
  BY DEF TypeOK, Put

\* NoteDrop keeps what the loads have seen well-typed.
LEMMA NoteDropTyped ==
  ASSUME seen \in [Readers -> Seen], NEW others, NoteDrop(others)
  PROVE  seen' \in [Readers -> Seen]
<1>1. Unseen \in Seen /\ \A s \in Seen : [s EXCEPT !.dropped = TRUE] \in Seen
  BY DEF Unseen, Seen
<1>2. QED  BY <1>1 DEF NoteDrop

\* While one writer is past the lock, every other one is idle.
LEMMA OthersIdle ==
  ASSUME LockInv, NEW w \in Writers, writer[w].pc # "idle"
  PROVE  \A v \in Writers \ {w} : writer[v].pc = "idle"
  BY DEF LockInv

-----------------------------------------------------------------------------
(* Each action preserves the inductive invariant.                          *)

\* Taking the free lock (withWriteLock) stages nothing yet.
LEMMA AcquireStep == ASSUME IInv, NEW w \in Writers, Acquire(w) PROVE IInv'
<1> USE DEF IInv, Acquire, Version, Generation, observed
<1>1. TypeOK'
  BY ConstantsAssumption DEF TypeOK, WriterState, IdleWriter, LockedWriter
<1>2. (latest <= saves)'
  BY DEF TypeOK
<1>3. LockInv'
  BY ConstantsAssumption DEF TypeOK, LockInv, LockedWriter
<1>4. StagingInv'
  BY OthersIdle DEF StagingInv, StagingOk, LockedWriter
<1>5. LoadInv' /\ CoherentLoad'
  BY LoadFrame
<1>6. ActiveComplete'
  BY DiskFrame
<1>7. QED  BY <1>1, <1>2, <1>3, <1>4, <1>5, <1>6

\* A save clears and stages the number after the active one, so it takes no
\* file from the active version or from a directory a load has pinned and not
\* been warned about.
LEMMA SaveBeginStep == ASSUME IInv, NEW w \in Writers, SaveBegin(w) PROVE IInv'
<1> USE DEF IInv, SaveBegin, Version, Generation, observed
<1>1. TypeOK'
  BY ConstantsAssumption DEF TypeOK, VersionDir, WriterState, Put, EmptyDir, NextVersionAfter
<1>2. (latest <= saves)'
  BY DEF TypeOK
<1>3. LockInv'
  BY ConstantsAssumption DEF LockInv
<1>4. StagingInv'
  BY OthersIdle DEF TypeOK, StagingInv, StagingOk, Put, EmptyDir, NextVersionAfter
<1>5. LoadInv'
  <2>1. NextVersionAfter(link) \in Version /\ (link # Nil => link < NextVersionAfter(link))
    BY ConstantsAssumption DEF TypeOK, NextVersionAfter
  <2>2. \A u \in DOMAIN dirs' : u # NextVersionAfter(link) => u \in DOMAIN dirs /\ dirs'[u] = dirs[u]
    BY DEF Put
  <2>3. QED  BY <2>1, <2>2, StagedWrite
<1>6. ActiveComplete'
  BY ConstantsAssumption DEF TypeOK, ActiveComplete, Put, NextVersionAfter
<1>7. CoherentLoad'
  BY DEF CoherentLoad, Loading
<1>8. QED  BY <1>1, <1>2, <1>3, <1>4, <1>5, <1>6, <1>7

\* faiss.index is written into the staged directory only.
LEMMA WriteFaissStep == ASSUME IInv, NEW w \in Writers, WriteFaiss(w) PROVE IInv'
<1> USE DEF IInv, WriteFaiss, Version, Generation, observed
<1>1. TypeOK'
  <2>1. writer[w].target \in DOMAIN dirs /\ writer[w].target \in Version /\ writer[w].gen \in Generation
    BY DEF TypeOK, StagingInv, StagingOk, WriterState
  <2>2. [dirs[writer[w].target] EXCEPT !.faiss = writer[w].gen] \in VersionDir
    BY <2>1 DEF TypeOK, VersionDir
  <2>3. DOMAIN dirs' \subseteq Version /\ dirs' \in [DOMAIN dirs' -> VersionDir]
    BY <2>1, <2>2, PutTyped
  <2>4. QED  BY <2>3 DEF TypeOK
<1>2. (latest <= saves)'
  BY DEF TypeOK
<1>3. LockInv'
  BY ConstantsAssumption DEF LockInv
<1>4. StagingInv'
  BY OthersIdle DEF LockInv, StagingInv, StagingOk, Put
<1>5. LoadInv'
  <2>1. writer[w].target \in Version /\ (link # Nil => link < writer[w].target)
    BY DEF TypeOK, StagingInv, StagingOk, WriterState
  <2>2. \A u \in DOMAIN dirs' : u # writer[w].target => u \in DOMAIN dirs /\ dirs'[u] = dirs[u]
    BY DEF Put
  <2>3. QED  BY <2>1, <2>2, StagedWrite
<1>6. ActiveComplete'
  BY ConstantsAssumption DEF ActiveComplete, Complete, Put
<1>7. CoherentLoad'
  BY DEF CoherentLoad, Loading
<1>8. QED  BY <1>1, <1>2, <1>3, <1>4, <1>5, <1>6, <1>7

\* docstore.json is written into the staged directory only.
LEMMA WriteDocstoreStep == ASSUME IInv, NEW w \in Writers, WriteDocstore(w) PROVE IInv'
<1> USE DEF IInv, WriteDocstore, Version, Generation, observed
<1>1. TypeOK'
  <2>1. writer[w].target \in DOMAIN dirs /\ writer[w].target \in Version /\ writer[w].gen \in Generation
    BY DEF TypeOK, StagingInv, StagingOk, WriterState
  <2>2. [dirs[writer[w].target] EXCEPT !.docstore = writer[w].gen] \in VersionDir
    BY <2>1 DEF TypeOK, VersionDir
  <2>3. DOMAIN dirs' \subseteq Version /\ dirs' \in [DOMAIN dirs' -> VersionDir]
    BY <2>1, <2>2, PutTyped
  <2>4. QED  BY <2>3 DEF TypeOK
<1>2. (latest <= saves)'
  BY DEF TypeOK
<1>3. LockInv'
  BY ConstantsAssumption DEF LockInv
<1>4. StagingInv'
  BY OthersIdle DEF StagingInv, StagingOk, LockedWriter, Put
<1>5. LoadInv'
  <2>1. writer[w].target \in Version /\ (link # Nil => link < writer[w].target)
    BY DEF TypeOK, StagingInv, StagingOk, WriterState
  <2>2. \A u \in DOMAIN dirs' : u # writer[w].target => u \in DOMAIN dirs /\ dirs'[u] = dirs[u]
    BY DEF Put
  <2>3. QED  BY <2>1, <2>2, StagedWrite
<1>6. ActiveComplete'
  BY ConstantsAssumption DEF ActiveComplete, Complete, Put
<1>7. CoherentLoad'
  BY DEF CoherentLoad, Loading
<1>8. QED  BY <1>1, <1>2, <1>3, <1>4, <1>5, <1>6, <1>7

\* The manifest seals a directory that has both files of one save.
LEMMA WriteManifestStep == ASSUME IInv, NEW w \in Writers, WriteManifest(w) PROVE IInv'
<1> USE DEF IInv, WriteManifest, Version, Generation, observed
<1>1. TypeOK'
  <2>1. writer[w].target \in DOMAIN dirs /\ writer[w].target \in Version /\ writer[w].gen \in Generation
    BY DEF TypeOK, StagingInv, StagingOk, WriterState
  <2>2. [dirs[writer[w].target] EXCEPT !.manifest = TRUE] \in VersionDir
    BY <2>1 DEF TypeOK, VersionDir
  <2>3. DOMAIN dirs' \subseteq Version /\ dirs' \in [DOMAIN dirs' -> VersionDir]
    BY <2>1, <2>2, PutTyped
  <2>4. QED  BY <2>3 DEF TypeOK, WriterState
<1>2. (latest <= saves)'
  BY DEF TypeOK
<1>3. LockInv'
  BY ConstantsAssumption DEF LockInv
<1>4. StagingInv'
  <2> DEFINE t == writer[w].target
  <2>1. /\ t \in DOMAIN dirs
        /\ link # Nil => t = link + 1
        /\ writer[w].gen \in Generation /\ writer[w].gen = saves /\ latest < writer[w].gen
        /\ dirs[t].faiss = writer[w].gen /\ dirs[t].docstore = writer[w].gen
    BY DEF StagingInv, StagingOk
  <2>2. \A v \in Writers \ {w} : writer'[v].pc = "idle"
    BY OthersIdle DEF TypeOK
  <2>3. writer'[w] = [writer[w] EXCEPT !.pc = "sealed"]
    BY DEF TypeOK
  <2>4. writer'[w].pc = "sealed" /\ writer'[w].target = t /\ writer'[w].gen = writer[w].gen
    BY <2>3 DEF TypeOK, WriterState
  <2>5. t \in DOMAIN dirs' /\ dirs'[t] = [dirs[t] EXCEPT !.manifest = TRUE]
    BY <2>1 DEF Put
  <2>6. dirs[t] \in VersionDir
    BY <2>1 DEF TypeOK
  <2>7. /\ dirs'[t].faiss = dirs[t].faiss
        /\ dirs'[t].docstore = dirs[t].docstore
        /\ dirs'[t].manifest
    BY <2>5, <2>6 DEF VersionDir
  <2>8. Complete(dirs'[t])
    BY <2>1, <2>7, ConstantsAssumption DEF Complete
  <2> HIDE DEF t, IInv
  <2>9. link' = link /\ saves' = saves /\ latest' = latest
    OBVIOUS
  <2>10. SUFFICES ASSUME NEW v \in Writers PROVE StagingOk(v)'
    BY DEF StagingInv
  <2>11. CASE v = w
    <3>1. /\ writer'[v].target \in DOMAIN dirs'
          /\ link' # Nil => writer'[v].target = link' + 1
      BY <2>1, <2>4, <2>5, <2>9, <2>11
    <3>2. writer'[v].gen \in Generation /\ writer'[v].gen = saves' /\ latest' < writer'[v].gen
      BY <2>1, <2>4, <2>9, <2>11
    <3>3. /\ dirs'[writer'[v].target].faiss = writer'[v].gen
          /\ dirs'[writer'[v].target].docstore = writer'[v].gen
          /\ Complete(dirs'[writer'[v].target])
      BY <2>1, <2>4, <2>7, <2>8, <2>11
    <3>4. writer'[v].pc = "sealed"
      BY <2>4, <2>11
    <3> HIDE DEF WriteManifest, Complete, observed
    <3>5. QED  BY <3>1, <3>2, <3>3, <3>4 DEF StagingOk
  <2>12. CASE v # w
    BY <2>2, <2>12 DEF StagingOk
  <2>13. QED  BY <2>11, <2>12
<1>5. LoadInv'
  <2>1. writer[w].target \in Version /\ (link # Nil => link < writer[w].target)
    BY DEF TypeOK, StagingInv, StagingOk, WriterState
  <2>2. \A u \in DOMAIN dirs' : u # writer[w].target => u \in DOMAIN dirs /\ dirs'[u] = dirs[u]
    BY DEF Put
  <2>3. QED  BY <2>1, <2>2, StagedWrite
<1>6. ActiveComplete'
  BY ConstantsAssumption DEF ActiveComplete, Complete, Put
<1>7. CoherentLoad'
  BY DEF CoherentLoad, Loading
<1>8. QED  BY <1>1, <1>2, <1>3, <1>4, <1>5, <1>6, <1>7

\* The rename makes a sealed directory the active one and offers it to every
\* load in progress.
LEMMA SwapStep == ASSUME IInv, NEW w \in Writers, Swap(w) PROVE IInv'
<1> USE DEF IInv, Version, Generation
<1>1. /\ writer[w].gen = saves
      /\ writer[w].gen \in Generation
      /\ writer[w].target \in DOMAIN dirs
      /\ writer[w].target \in Version
      /\ link # Nil => writer[w].target = link + 1
      /\ Complete(dirs[writer[w].target])
      /\ dirs[writer[w].target].faiss = writer[w].gen
  BY DEF Swap, TypeOK, StagingInv, StagingOk, Complete
<1>2. /\ link' = writer[w].target
      /\ latest' = writer[w].gen
      /\ writer' = [writer EXCEPT ![w].pc = "swapped"]
      /\ UNCHANGED <<dirs, lock, saves, reader, leftover>>
  BY DEF Swap
<1>3. ASSUME NEW r \in Readers
      PROVE  /\ Loading(r) => seen'[r] = Offer(seen[r], writer[w].gen)
             /\ ~Loading(r) => seen'[r] = seen[r]
  BY DEF Swap
<1>4. TypeOK'
  <2>1. ASSUME NEW r \in Readers PROVE seen'[r] \in Seen
    BY <1>1, <1>3, OfferedSeen DEF TypeOK
  <2>2. seen' \in [Readers -> Seen]
    BY <2>1 DEF Swap
  <2>3. writer' \in [Writers -> WriterState]
    BY <1>2 DEF TypeOK, WriterState
  <2>4. QED  BY <1>1, <1>2, <2>2, <2>3 DEF TypeOK
<1>5. (latest <= saves)'
  BY <1>1, <1>2 DEF TypeOK
<1>6. LockInv'
  BY <1>2 DEF LockInv, Swap
<1>7. StagingInv'
  <2>1. \A v \in Writers \ {w} : writer'[v].pc = "idle"
    BY <1>2, OthersIdle DEF TypeOK, Swap
  <2>2. writer'[w].pc = "swapped"
    BY <1>2 DEF TypeOK, WriterState
  <2>3. QED  BY <2>1, <2>2 DEF StagingInv, StagingOk
<1>8. LoadInv'
  <2> SUFFICES ASSUME NEW r \in Readers PROVE LoadOk(r)'
    BY DEF LoadInv
  <2>1. LoadOk(r) /\ reader[r] \in ReaderState /\ seen[r] \in Seen
    BY DEF LoadInv, TypeOK
  <2>2. CASE ~Loading(r)
    BY <1>2, <2>2 DEF LoadOk, Loading
  <2>3. CASE Loading(r)
    <3>1. seen'[r].offered = seen[r].offered \cup {writer[w].gen}
          /\ seen'[r].dropped = seen[r].dropped
      <4>1. seen'[r] = Offer(seen[r], writer[w].gen)
        BY <1>3, <2>3
      <4>2. QED  BY <4>1 DEF Offer
    <3>2. ~seen[r].dropped => link # Nil
      BY <2>1, <2>3 DEF LoadOk
    <3>3. link' \in Version /\ link' # Nil /\ (link # Nil => link \in Version /\ link' = link + 1)
      BY <1>1, <1>2, ConstantsAssumption DEF TypeOK
    <3>4. reader[r].pc \in {"manifest", "reading", "broken"} /\ ~seen[r].dropped
            => reader[r].pin <= link'
      BY <2>1, <3>2, <3>3 DEF LoadOk, ReaderState
    <3>5. QED  BY <1>2, <2>1, <2>3, <3>1, <3>3, <3>4 DEF LoadOk
  <2>4. QED  BY <2>2, <2>3
<1>9. ActiveComplete'
  BY <1>1, <1>2 DEF ActiveComplete, Complete
<1>10. CoherentLoad'
  BY <1>2, <1>3 DEF CoherentLoad, Loading
<1>11. QED  BY <1>4, <1>5, <1>6, <1>7, <1>8, <1>9, <1>10

\* Pruning spares the active directory; a pinned one it removes is only missed.
LEMMA PruneStep == ASSUME IInv, NEW w \in Writers, Prune(w) PROVE IInv'
<1> USE DEF IInv, Prune, Version, Generation, observed
<1>1. TypeOK'
  <2>1. DOMAIN dirs' \subseteq DOMAIN dirs /\ dirs' \in [DOMAIN dirs' -> VersionDir]
    BY DEF TypeOK, Remove
  <2>2. writer' \in [Writers -> WriterState]
    BY DEF TypeOK, WriterState, IdleWriter, LockedWriter
  <2>3. QED  BY <2>1, <2>2 DEF TypeOK
<1>2. (latest <= saves)'
  BY DEF TypeOK
<1>3. LockInv'
  BY ConstantsAssumption DEF LockInv, LockedWriter
<1>4. StagingInv'
  BY OthersIdle DEF StagingInv, StagingOk, LockedWriter
<1>5. LoadInv'
  <2>1. DOMAIN dirs' \subseteq DOMAIN dirs /\ \A v \in DOMAIN dirs' : dirs'[v] = dirs[v]
    BY DEF TypeOK, Remove
  <2>2. link' = link /\ latest' = latest /\ reader' = reader /\ seen' = seen
    OBVIOUS
  <2>3. QED  BY <2>1, <2>2 DEF LoadInv, LoadOk, Loading
<1>6. ActiveComplete'
  BY DEF TypeOK, ActiveComplete, Complete, Remove, PruneVictims
<1>7. CoherentLoad'
  BY DEF CoherentLoad, Loading
<1>8. QED  BY <1>1, <1>2, <1>3, <1>4, <1>5, <1>6, <1>7

\* A save that throws leaves the disk as it is.
LEMMA SaveFailsStep == ASSUME IInv, NEW w \in Writers, SaveFails(w) PROVE IInv'
<1> USE DEF IInv, SaveFails, Version, Generation, store, observed
<1>1. TypeOK'
  BY ConstantsAssumption DEF TypeOK, WriterState, IdleWriter, LockedWriter
<1>2. (latest <= saves)'
  BY DEF TypeOK
<1>3. LockInv'
  BY ConstantsAssumption DEF LockInv, LockedWriter
<1>4. StagingInv'
  BY OthersIdle DEF StagingInv, StagingOk, LockedWriter
<1>5. LoadInv' /\ CoherentLoad'
  BY LoadFrame
<1>6. ActiveComplete'
  BY DiskFrame
<1>7. QED  BY <1>1, <1>2, <1>3, <1>4, <1>5, <1>6

\* Purging the link tells every load in progress that it was dropped.
LEMMA PurgeLinkStep == ASSUME IInv, NEW w \in Writers, PurgeLink(w) PROVE IInv'
<1> USE DEF IInv, PurgeLink, Version, Generation
<1>1. TypeOK'
  <2>1. link' \in Version \cup {Nil}
    BY DEF NextVersionAfter
  <2>2. DOMAIN dirs' \subseteq Version /\ dirs' \in [DOMAIN dirs' -> VersionDir]
    BY DEF TypeOK
  <2>3. writer' \in [Writers -> WriterState]
    BY DEF TypeOK, WriterState
  <2>4. reader' \in [Readers -> ReaderState]
    BY DEF TypeOK
  <2>5. seen' \in [Readers -> Seen]
    BY NoteDropTyped DEF TypeOK
  <2>6. latest' \in Nat /\ leftover' \in {"none", "repair", "purge"} /\ saves' \in Nat /\ lock' \in Writers \cup {Nil}
    BY DEF TypeOK
  <2>7. QED  BY <2>1, <2>2, <2>3, <2>4, <2>5, <2>6 DEF TypeOK
<1>2. (latest <= saves)'
  BY DEF TypeOK
<1>3. LockInv'
  BY ConstantsAssumption DEF LockInv
<1>4. StagingInv'
  BY OthersIdle DEF StagingInv, StagingOk
<1>5. LoadInv'
  BY ConstantsAssumption DEF LoadInv, LoadOk, Loading, NoteDrop
<1>6. ActiveComplete'
  BY ConstantsAssumption DEF ActiveComplete
<1>7. CoherentLoad'
  BY DEF CoherentLoad, NoteDrop
<1>8. QED  BY <1>1, <1>2, <1>3, <1>4, <1>5, <1>6, <1>7

\* The directories are removed only once no link names them.
LEMMA PurgeDirsStep == ASSUME IInv, NEW w \in Writers, PurgeDirs(w) PROVE IInv'
<1> USE DEF IInv, PurgeDirs, Version, Generation
<1>1. TypeOK'
  BY ConstantsAssumption DEF TypeOK, WriterState, IdleWriter, LockedWriter, Remove
<1>2. (latest <= saves)'
  BY DEF TypeOK
<1>3. LockInv'
  BY ConstantsAssumption DEF LockInv, LockedWriter
<1>4. StagingInv'
  BY OthersIdle DEF StagingInv, StagingOk, LockedWriter
<1>5. LoadInv'
  BY ConstantsAssumption DEF LoadInv, LoadOk, Loading, Remove
<1>6. ActiveComplete'
  BY ConstantsAssumption DEF StagingInv, StagingOk, ActiveComplete
<1>7. CoherentLoad'
  BY DEF CoherentLoad, Loading
<1>8. QED  BY <1>1, <1>2, <1>3, <1>4, <1>5, <1>6, <1>7

\* Releasing the lock changes nothing on disk.
LEMMA ReleaseStep == ASSUME IInv, NEW w \in Writers, Release(w) PROVE IInv'
<1> USE DEF IInv, Release, Version, Generation, observed
<1>1. TypeOK'
  BY ConstantsAssumption DEF TypeOK, WriterState, IdleWriter
<1>2. (latest <= saves)'
  BY DEF TypeOK
<1>3. LockInv'
  BY ConstantsAssumption DEF TypeOK, LockInv, IdleWriter
<1>4. StagingInv'
  BY OthersIdle DEF StagingInv, StagingOk, IdleWriter
<1>5. LoadInv' /\ CoherentLoad'
  BY LoadFrame
<1>6. ActiveComplete'
  BY DiskFrame
<1>7. QED  BY <1>1, <1>2, <1>3, <1>4, <1>5, <1>6

\* A crash changes nothing on disk, at whichever step it happens.
LEMMA CrashStep == ASSUME IInv, NEW w \in Writers, Crash(w) PROVE IInv'
<1> USE DEF IInv, Crash, Version, Generation, observed
<1>1. TypeOK'
  BY ConstantsAssumption DEF TypeOK, WriterState, IdleWriter
<1>2. (latest <= saves)'
  BY DEF TypeOK
<1>3. LockInv'
  BY ConstantsAssumption DEF TypeOK, LockInv, IdleWriter
<1>4. StagingInv'
  BY OthersIdle DEF StagingInv, StagingOk, IdleWriter
<1>5. LoadInv' /\ CoherentLoad'
  BY LoadFrame
<1>6. ActiveComplete'
  BY DiskFrame
<1>7. QED  BY <1>1, <1>2, <1>3, <1>4, <1>5, <1>6

\* A load begins with the active generation on offer.
LEMMA OpenStep == ASSUME IInv, NEW r \in Readers, Open(r) PROVE IInv'
<1> USE DEF IInv, Open, Version, Generation, store
<1>1. TypeOK'
  <2>1. link' \in Version \cup {Nil}
    BY DEF TypeOK
  <2>2. DOMAIN dirs' \subseteq Version /\ dirs' \in [DOMAIN dirs' -> VersionDir]
    BY DEF TypeOK
  <2>3. writer' \in [Writers -> WriterState]
    BY DEF TypeOK
  <2>4. reader' \in [Readers -> ReaderState]
    BY DEF TypeOK, ReaderState, At
  <2>5. seen' \in [Readers -> Seen]
    <3>1. link # Nil => dirs[link].faiss \in Generation
      BY DEF TypeOK, VersionDir, ActiveComplete, Complete
    <3>2. Unseen \in Seen /\ (link # Nil => [Unseen EXCEPT !.offered = {dirs[link].faiss}] \in Seen)
      BY <3>1 DEF Unseen, Seen
    <3>3. QED  BY <3>2 DEF TypeOK
  <2>6. latest' \in Nat /\ leftover' \in {"none", "repair", "purge"} /\ saves' \in Nat /\ lock' \in Writers \cup {Nil}
    BY DEF TypeOK
  <2>7. QED  BY <2>1, <2>2, <2>3, <2>4, <2>5, <2>6 DEF TypeOK
<1>2. (latest <= saves)'
  BY DEF TypeOK
<1>3. LockInv' /\ StagingInv'
  BY WriterFrame
<1>4. LoadInv'
  BY DEF TypeOK, LoadInv, LoadOk, StagingInv, StagingOk, ActiveComplete, Complete, VersionDir, Loading, At, Unseen
<1>5. ActiveComplete'
  BY DiskFrame
<1>6. CoherentLoad'
  <2> SUFFICES ASSUME NEW q \in Readers, reader'[q].pc = "loaded", ~seen'[q].dropped
              PROVE  reader'[q].faiss = reader'[q].docstore /\ reader'[q].faiss \in seen'[q].offered
    BY DEF CoherentLoad
  <2>1. CASE q # r
    <3>1. reader'[q] = reader[q] /\ seen'[q] = seen[q]
      BY <2>1 DEF TypeOK
    <3>2. QED  BY <3>1 DEF CoherentLoad
  <2>2. CASE q = r
    BY <2>2 DEF TypeOK, At
  <2>3. QED  BY <2>1, <2>2
<1>7. QED  BY <1>1, <1>2, <1>3, <1>4, <1>5, <1>6

\* realpath pins the active directory, which is complete.
LEMMA ResolveStep == ASSUME IInv, NEW r \in Readers, Resolve(r) PROVE IInv'
<1> USE DEF IInv, Resolve, Version, Generation, store
<1>1. TypeOK'
  <2>1. link' \in Version \cup {Nil}
    BY DEF TypeOK
  <2>2. DOMAIN dirs' \subseteq Version /\ dirs' \in [DOMAIN dirs' -> VersionDir]
    BY DEF TypeOK
  <2>3. writer' \in [Writers -> WriterState]
    BY DEF TypeOK
  <2>4. reader' \in [Readers -> ReaderState]
    BY DEF TypeOK, ReaderState, At
  <2>5. seen' \in [Readers -> Seen]
    <3>1. Unseen \in Seen /\ [seen[r] EXCEPT !.swaps = 0] \in Seen
      BY DEF Unseen, Seen, TypeOK
    <3>2. seen' = [seen EXCEPT ![r] = Unseen] \/ seen' = [seen EXCEPT ![r] = [seen[r] EXCEPT !.swaps = 0]]
      BY DEF TypeOK
    <3>3. QED  BY <3>1, <3>2 DEF TypeOK
  <2>6. latest' \in Nat /\ leftover' \in {"none", "repair", "purge"} /\ saves' \in Nat /\ lock' \in Writers \cup {Nil}
    BY DEF TypeOK
  <2>7. QED  BY <2>1, <2>2, <2>3, <2>4, <2>5, <2>6 DEF TypeOK
<1>2. (latest <= saves)'
  BY DEF TypeOK
<1>3. LockInv' /\ StagingInv'
  BY WriterFrame
<1>4. LoadInv'
  <2> SUFFICES ASSUME NEW q \in Readers
              PROVE LoadOk(q)'
    BY DEF LoadInv, LoadOk
  <2>1. CASE q # r
    <3>1. reader'[q] = reader[q] /\ seen'[q] = seen[q]
      BY <2>1 DEF TypeOK
    <3>2. QED  BY <3>1 DEF LoadInv, LoadOk, Loading
  <2>2. CASE q = r
    <3>1. CASE link \notin DOMAIN dirs
      BY <2>2, <3>1 DEF TypeOK, LoadOk, Loading, At
    <3>2. CASE link \in DOMAIN dirs
      <4> HIDE DEF IInv
      <4>a. TypeOK /\ LoadInv /\ ActiveComplete
        BY DEF IInv
      <4>b. reader' = [reader EXCEPT ![r] = [At("manifest") EXCEPT !.pin = link]]
        BY <3>2
      <4>c. seen' = [seen EXCEPT ![r] = [seen[r] EXCEPT !.swaps = 0]]
        BY <3>2, <4>a DEF TypeOK
      <4>d. reader'[r] = [At("manifest") EXCEPT !.pin = link]
        BY <4>a, <4>b DEF TypeOK
      <4>e. seen'[r] = [seen[r] EXCEPT !.swaps = 0]
        BY <4>a, <4>c DEF TypeOK
      <4>f. seen[r] \in Seen
        BY <4>a DEF TypeOK
      <4>1. seen'[r].offered = seen[r].offered /\ seen'[r].dropped = seen[r].dropped
        BY <4>e, <4>f DEF Seen
      <4>2. ~seen[r].dropped => link # Nil /\ latest \in seen[r].offered
        BY <4>a DEF LoadInv, LoadOk, Loading
      <4>3. link # Nil => Complete(dirs[link]) /\ dirs[link].faiss = latest /\ link <= link
        BY <4>a DEF ActiveComplete, TypeOK
      <4>4. QED  BY <2>2, <4>d, <4>1, <4>2, <4>3 DEF LoadOk, At
    <3>3. QED  BY <3>1, <3>2
  <2>3. QED  BY <2>1, <2>2
<1>5. ActiveComplete'
  BY DiskFrame
<1>6. CoherentLoad'
  BY DEF TypeOK, CoherentLoad, ReaderState, At
<1>7. QED  BY <1>1, <1>2, <1>3, <1>4, <1>5, <1>6

\* Reading the manifest settles only whether the load goes on.
LEMMA ReadManifestStep == ASSUME IInv, NEW r \in Readers, ReadManifest(r) PROVE IInv'
<1> USE DEF IInv, ReadManifest, Version, Generation, store, observed
<1>1. TypeOK'
  <2>1. link' \in Version \cup {Nil}
    BY DEF TypeOK
  <2>2. DOMAIN dirs' \subseteq Version /\ dirs' \in [DOMAIN dirs' -> VersionDir]
    BY DEF TypeOK
  <2>3. writer' \in [Writers -> WriterState]
    BY DEF TypeOK
  <2>4. reader' \in [Readers -> ReaderState]
    BY DEF TypeOK, ReaderState, VersionDir, At, Present, Exists
  <2>5. seen' \in [Readers -> Seen]
    BY DEF TypeOK
  <2>6. latest' \in Nat /\ leftover' \in {"none", "repair", "purge"} /\ saves' \in Nat /\ lock' \in Writers \cup {Nil}
    BY DEF TypeOK
  <2>7. QED  BY <2>1, <2>2, <2>3, <2>4, <2>5, <2>6 DEF TypeOK
<1>2. (latest <= saves)'
  BY DEF TypeOK
<1>3. LockInv' /\ StagingInv'
  BY WriterFrame
<1>4. LoadInv'
  BY ConstantsAssumption DEF LoadInv, LoadOk, Loading
<1>5. ActiveComplete'
  BY DiskFrame
<1>6. CoherentLoad'
  BY DEF CoherentLoad
<1>7. QED  BY <1>1, <1>2, <1>3, <1>4, <1>5, <1>6

\* A load reads faiss.index from its pin, which is intact or gone.
LEMMA ReadFaissStep == ASSUME IInv, NEW r \in Readers, ReadFaiss(r) PROVE IInv'
<1> USE DEF IInv, ReadFaiss, Version, Generation, store, observed
<1>1. TypeOK'
  <2>1. Present(reader[r].pin, "faiss") => dirs[reader[r].pin].faiss \in Generation
    BY DEF TypeOK, Present, Exists, VersionDir
  <2>2. reader' \in [Readers -> ReaderState]
    BY <2>1 DEF TypeOK, ReaderState
  <2>3. QED  BY <2>2 DEF TypeOK
<1>2. (latest <= saves)'
  BY DEF TypeOK
<1>3. LockInv' /\ StagingInv'
  BY WriterFrame
<1>4. LoadInv'
  <2> SUFFICES ASSUME NEW q \in Readers
              PROVE LoadOk(q)'
    BY DEF LoadInv, LoadOk
  <2>1. CASE q # r
    <3>1. reader'[q] = reader[q]
      BY <2>1 DEF TypeOK
    <3>2. QED  BY <3>1 DEF LoadInv, LoadOk, Loading
  <2>2. CASE q = r
    <3>1. reader[r] \in ReaderState /\ LoadOk(r) /\ reader[r].pc = "reading"
      BY DEF TypeOK, LoadInv
    <3>2. QED  BY <2>2, <3>1 DEF TypeOK, LoadOk, Loading, ReaderState, Present, Exists
  <2>3. QED  BY <2>1, <2>2
<1>5. ActiveComplete'
  BY DiskFrame
<1>6. CoherentLoad'
  <2> SUFFICES ASSUME NEW q \in Readers, reader'[q].pc = "loaded", ~seen'[q].dropped
              PROVE  reader'[q].faiss = reader'[q].docstore /\ reader'[q].faiss \in seen'[q].offered
    BY DEF CoherentLoad
  <2>1. CASE q # r
    <3>1. reader'[q] = reader[q] /\ seen'[q] = seen[q]
      BY <2>1 DEF TypeOK
    <3>2. QED  BY <3>1 DEF CoherentLoad
  <2>2. CASE q = r
    <3>1. reader[r] \in ReaderState /\ LoadOk(r) /\ reader[r].pc = "reading" /\ seen' = seen
      BY DEF TypeOK, LoadInv
    <3>2. CASE ~Present(reader[r].pin, "faiss")
      <4>1. reader'[r].pc = "broken"
        BY <3>1, <3>2 DEF TypeOK, ReaderState
      <4>2. QED  BY <2>2, <4>1
    <3>3. CASE Present(reader[r].pin, "faiss")
      <4>1. reader'[r] = [reader[r] EXCEPT !.faiss = dirs[reader[r].pin].faiss,
                            !.pc = IF reader[r].docstore = Nil THEN "reading" ELSE "loaded"]
        BY <3>3 DEF TypeOK
      <4>2. reader[r].docstore # Nil
        BY <2>2, <3>1, <4>1 DEF ReaderState
      <4>3. /\ reader'[r].faiss = dirs[reader[r].pin].faiss
            /\ reader'[r].docstore = reader[r].docstore
        BY <3>1, <4>1 DEF ReaderState
      <4>4. reader[r].docstore = dirs[reader[r].pin].faiss /\ dirs[reader[r].pin].faiss \in seen[r].offered
        BY <2>2, <3>1, <3>3, <4>2 DEF LoadOk, Present, Exists
      <4>5. QED  BY <2>2, <3>1, <4>3, <4>4
    <3>4. QED  BY <3>2, <3>3
  <2>3. QED  BY <2>1, <2>2
<1>7. QED  BY <1>1, <1>2, <1>3, <1>4, <1>5, <1>6

\* A load reads docstore.json from its pin, which is intact or gone.
LEMMA ReadDocstoreStep == ASSUME IInv, NEW r \in Readers, ReadDocstore(r) PROVE IInv'
<1> USE DEF IInv, ReadDocstore, Version, Generation, store, observed
<1>1. TypeOK'
  <2>1. link' \in Version \cup {Nil}
    BY DEF TypeOK
  <2>2. DOMAIN dirs' \subseteq Version /\ dirs' \in [DOMAIN dirs' -> VersionDir]
    BY DEF TypeOK
  <2>3. writer' \in [Writers -> WriterState]
    BY DEF TypeOK
  <2>4. reader' \in [Readers -> ReaderState]
    BY DEF TypeOK, ReaderState, VersionDir, Present, Exists
  <2>5. seen' \in [Readers -> Seen]
    BY DEF TypeOK
  <2>6. latest' \in Nat /\ leftover' \in {"none", "repair", "purge"} /\ saves' \in Nat /\ lock' \in Writers \cup {Nil}
    BY DEF TypeOK
  <2>7. QED  BY <2>1, <2>2, <2>3, <2>4, <2>5, <2>6 DEF TypeOK
<1>2. (latest <= saves)'
  BY DEF TypeOK
<1>3. LockInv' /\ StagingInv'
  BY WriterFrame
<1>4. LoadInv'
  <2> SUFFICES ASSUME NEW q \in Readers
              PROVE LoadOk(q)'
    BY DEF LoadInv, LoadOk
  <2>1. CASE q # r
    <3>1. reader'[q] = reader[q]
      BY <2>1 DEF TypeOK
    <3>2. QED  BY <3>1 DEF LoadInv, LoadOk, Loading
  <2>2. CASE q = r
    <3>1. reader[r] \in ReaderState /\ LoadOk(r) /\ reader[r].pc = "reading"
      BY DEF TypeOK, LoadInv
    <3>2. QED  BY <2>2, <3>1 DEF TypeOK, LoadOk, Loading, ReaderState, Present, Exists, Complete
  <2>3. QED  BY <2>1, <2>2
<1>5. ActiveComplete'
  BY DiskFrame
<1>6. CoherentLoad'
  <2> SUFFICES ASSUME NEW q \in Readers, reader'[q].pc = "loaded", ~seen'[q].dropped
              PROVE  reader'[q].faiss = reader'[q].docstore /\ reader'[q].faiss \in seen'[q].offered
    BY DEF CoherentLoad
  <2>1. CASE q # r
    <3>1. reader'[q] = reader[q] /\ seen'[q] = seen[q]
      BY <2>1 DEF TypeOK
    <3>2. QED  BY <3>1 DEF CoherentLoad
  <2>2. CASE q = r
    BY <2>2 DEF TypeOK, ReaderState
  <2>3. QED  BY <2>1, <2>2
<1>7. QED  BY <1>1, <1>2, <1>3, <1>4, <1>5, <1>6

\* A repair drops the link and tells the other loads in progress.
LEMMA RepairStep == ASSUME IInv, NEW r \in Readers, Repair(r) PROVE IInv'
<1> USE DEF IInv, Repair, Version, Generation
<1>1. TypeOK'
  <2>1. link' \in Version \cup {Nil}
    BY DEF NextVersionAfter
  <2>2. DOMAIN dirs' \subseteq Version /\ dirs' \in [DOMAIN dirs' -> VersionDir]
    BY DEF TypeOK
  <2>3. writer' \in [Writers -> WriterState]
    BY DEF TypeOK
  <2>4. reader' \in [Readers -> ReaderState]
    BY DEF TypeOK, ReaderState, At
  <2>5. seen' \in [Readers -> Seen]
    BY NoteDropTyped DEF TypeOK
  <2>6. latest' \in Nat /\ leftover' \in {"none", "repair", "purge"} /\ saves' \in Nat /\ lock' \in Writers \cup {Nil}
    BY DEF TypeOK
  <2>7. QED  BY <2>1, <2>2, <2>3, <2>4, <2>5, <2>6 DEF TypeOK
<1>2. (latest <= saves)'
  BY DEF TypeOK
<1>3. LockInv'
  BY ConstantsAssumption DEF LockInv
<1>4. StagingInv'
  BY OthersIdle DEF StagingInv, StagingOk
<1>5. LoadInv'
  BY ConstantsAssumption DEF TypeOK, LoadInv, LoadOk, Loading, At, NoteDrop
<1>6. ActiveComplete'
  BY ConstantsAssumption DEF ActiveComplete
<1>7. CoherentLoad'
  BY DEF CoherentLoad, At, NoteDrop
<1>8. QED  BY <1>1, <1>2, <1>3, <1>4, <1>5, <1>6, <1>7

\* A strict read-only load that broke throws and leaves the disk alone.
LEMMA GiveUpStep == ASSUME IInv, NEW r \in Readers, GiveUp(r) PROVE IInv'
<1> USE DEF IInv, GiveUp, Version, Generation, store
<1>1. TypeOK'
  BY ConstantsAssumption DEF TypeOK, ReaderState, Seen, At, Unseen
<1>2. (latest <= saves)'
  BY DEF TypeOK
<1>3. LockInv' /\ StagingInv'
  BY WriterFrame
<1>4. LoadInv'
  BY ConstantsAssumption DEF TypeOK, LoadInv, LoadOk, Loading, At
<1>5. ActiveComplete'
  BY DiskFrame
<1>6. CoherentLoad'
  BY DEF CoherentLoad, At
<1>7. QED  BY <1>1, <1>2, <1>3, <1>4, <1>5, <1>6

\* The empty model directory satisfies every conjunct.
LEMMA InitHolds == Init => IInv
<1> SUFFICES ASSUME Init PROVE IInv
  OBVIOUS
<1> USE DEF Init
<1>1. TypeOK
  <2>1. IdleWriter \in WriterState /\ At("idle") \in ReaderState /\ Unseen \in Seen
    BY DEF IdleWriter, WriterState, At, ReaderState, Unseen, Seen, Version
  <2>2. QED  BY <2>1 DEF TypeOK, Version
<1>2. latest <= saves /\ LockInv /\ StagingInv /\ ActiveComplete
  BY ConstantsAssumption DEF LockInv, StagingInv, StagingOk, ActiveComplete, IdleWriter
<1>3. LoadInv /\ CoherentLoad
  BY DEF LoadInv, LoadOk, CoherentLoad, Loading, At
<1>4. QED  BY <1>1, <1>2, <1>3 DEF IInv

\* A step that changes no variable keeps the invariant.
LEMMA StutterStep == IInv /\ UNCHANGED vars => IInv'
  BY DiskFrame, WriterFrame, LoadFrame DEF vars, IInv, TypeOK

\* The invariant is inductive: no step of a writer, of a reader or of a crash
\* leaves it.
THEOREM Inductive == IInv /\ [Next]_vars => IInv'
<1> SUFFICES ASSUME IInv, [Next]_vars PROVE IInv'
  OBVIOUS
<1>1. CASE UNCHANGED vars
  BY <1>1, StutterStep
<1>2. ASSUME NEW w \in Writers, WriterStep(w) PROVE IInv'
  BY <1>2, AcquireStep, SaveBeginStep, WriteFaissStep, WriteDocstoreStep,
     WriteManifestStep, SwapStep, PruneStep, SaveFailsStep, PurgeLinkStep,
     PurgeDirsStep, ReleaseStep, CrashStep
     DEF WriterStep
<1>3. ASSUME NEW r \in Readers, ReaderStep(r) PROVE IInv'
  BY <1>3, OpenStep, ResolveStep, ReadManifestStep, ReadFaissStep, ReadDocstoreStep,
     RepairStep, GiveUpStep
     DEF ReaderStep
<1>4. QED  BY <1>1, <1>2, <1>3 DEF Next

\* Every reachable state satisfies the inductive invariant.
LEMMA Invariance == Spec => []IInv
  BY InitHolds, Inductive, PTL DEF Spec

-----------------------------------------------------------------------------
(* The theorems.                                                           *)

\* Every variable of the model directory keeps its type, for any number of
\* processes, saves and retained versions (src/faiss-store-layout.ts).
THEOREM TypeCorrect == Spec => []TypeOK
  BY Invariance, PTL DEF IInv

\* The active symlink of saveFaissStoreAtomic always names a directory that
\* one save completed, through crashes, failed saves, prunes and repairs.
THEOREM ActiveAlwaysComplete == Spec => []ActiveComplete
  BY Invariance, PTL DEF IInv

\* A load of loadFaissStoreAtomic that no repair or purge overlapped never
\* mixes the files of two saves and returns an index that was active.
THEOREM LoadsAreCoherent == Spec => []CoherentLoad
  BY Invariance, PTL DEF IInv

-----------------------------------------------------------------------------
(* The retention margin.  A prune keeps a pinned directory unless more     *)
(* than Retention swaps moved the link past it.  To count them the proof   *)
(* needs the numbers of the directories: without a leftover there is none  *)
(* above the one a save stages, so between a pin and the link there are no *)
(* more directories than swaps.                                            *)

\* Until a repair or a purge leaves directories behind, the only number above
\* the active version is the staged one.
NumbersBounded ==
  leftover = "none" =>
    \A v \in DOMAIN dirs : IF link = Nil THEN v = 0 ELSE v <= link + 1

\* A prune runs right after the swap, when nothing is staged.
PruneReady(w) ==
  writer[w].pc = "swapped" /\ link # Nil /\ leftover = "none" =>
    \A v \in DOMAIN dirs : v <= link

\* A load that pinned a directory and met no drop.
Reading(r) == reader[r].pc \in {"manifest", "reading", "broken"} /\ ~seen[r].dropped

\* The link is as many versions past the pin as there were swaps; the pinned
\* directory goes only after more than Retention of them; and a load of the
\* right index type breaks only on a directory that is gone.
PinOk(r) ==
  Reading(r) =>
    /\ link = reader[r].pin + seen[r].swaps
    /\ leftover = "none" /\ reader[r].pin \notin DOMAIN dirs => seen[r].swaps > Retention
    /\ reader[r].pc = "broken" /\ r \notin Mismatched => reader[r].pin \notin DOMAIN dirs

MarginInv ==
  /\ NumbersBounded
  /\ \A w \in Writers : PruneReady(w)
  /\ \A r \in Readers : PinOk(r)

\* No more directories fit between two numbers than the numbers between them.
LEMMA DirsBetween ==
  ASSUME NEW lo \in Nat, NEW hi \in Nat, lo < hi, NEW S, S \subseteq (lo+1)..(hi-1)
  PROVE  IsFiniteSet(S) /\ Cardinality(S) \in Nat /\ Cardinality(S) <= hi - lo - 1
<1>1. IsFiniteSet((lo+1)..(hi-1)) /\ Cardinality((lo+1)..(hi-1)) = hi - lo - 1
  BY FS_Interval
<1>2. IsFiniteSet(S) /\ Cardinality(S) <= Cardinality((lo+1)..(hi-1))
  BY <1>1, FS_Subset
<1>3. Cardinality(S) \in Nat
  BY <1>2, FS_CardinalityType
<1>4. QED  BY <1>1, <1>2, <1>3

\* A load that no drop overlapped has an active version at or after its pin.
LEMMA ReadingPin ==
  ASSUME IInv, NEW r \in Readers, Reading(r)
  PROVE  /\ link \in Nat /\ link # Nil
         /\ reader[r].pin \in Nat /\ reader[r].pin <= link
         /\ seen[r].swaps \in Nat
         /\ reader[r].pin \in DOMAIN dirs => Complete(dirs[reader[r].pin])
<1>1. LoadOk(r) /\ TypeOK
  BY DEF IInv, LoadInv
<1>2. reader[r] \in ReaderState /\ seen[r] \in Seen /\ link \in Nat \cup {Nil}
  BY <1>1 DEF TypeOK, Version
<1>3. QED  BY <1>1, <1>2 DEF Reading, LoadOk, Loading, ReaderState, Seen, Version

\* Steps of a save that leave the link and the set of directories alone.
LEMMA SaveStepMargin ==
  ASSUME IInv, MarginInv, NEW w \in Writers,
         Acquire(w) \/ WriteFaiss(w) \/ WriteDocstore(w) \/ WriteManifest(w)
         \/ SaveFails(w) \/ Release(w) \/ Crash(w)
  PROVE  MarginInv'
<1>1. UNCHANGED <<link, leftover, reader, seen>>
  BY DEF Acquire, WriteFaiss, WriteDocstore, WriteManifest, SaveFails, Release, Crash,
         store, observed
<1>2. DOMAIN dirs' = DOMAIN dirs
  <2>1. CASE Acquire(w) \/ SaveFails(w) \/ Release(w) \/ Crash(w)
    BY <2>1 DEF Acquire, SaveFails, Release, Crash, store
  <2>2. CASE WriteFaiss(w) \/ WriteDocstore(w) \/ WriteManifest(w)
    <3>1. writer[w].target \in DOMAIN dirs
      BY <2>2 DEF IInv, StagingInv, StagingOk, WriteFaiss, WriteDocstore, WriteManifest
    <3>2. QED  BY <2>2, <3>1 DEF WriteFaiss, WriteDocstore, WriteManifest, Put
  <2>3. QED  BY <2>1, <2>2
<1>3. \A v \in Writers : writer'[v].pc = "swapped" => writer[v].pc = "swapped"
  <2>1. writer \in [Writers -> WriterState]
    BY DEF IInv, TypeOK
  <2>2. QED
    BY <2>1 DEF Acquire, WriteFaiss, WriteDocstore, WriteManifest, SaveFails, Release, Crash,
       WriterState, IdleWriter, LockedWriter
<1>4. NumbersBounded'
  BY <1>1, <1>2 DEF MarginInv, NumbersBounded
<1>5. \A v \in Writers : PruneReady(v)'
  BY <1>1, <1>2, <1>3 DEF MarginInv, PruneReady
<1>6. \A r \in Readers : PinOk(r)'
  BY <1>1, <1>2 DEF MarginInv, PinOk, Reading
<1>7. QED  BY <1>4, <1>5, <1>6 DEF MarginInv

\* A save stages the number after the active one, above every pin.
LEMMA SaveBeginMargin ==
  ASSUME IInv, MarginInv, NEW w \in Writers, SaveBegin(w)
  PROVE  MarginInv'
<1> DEFINE t == NextVersionAfter(link)
<1>1. UNCHANGED <<link, leftover, reader, seen>>
  BY DEF SaveBegin, observed
<1>2. DOMAIN dirs' = DOMAIN dirs \cup {t}
  BY DEF SaveBegin, Put
<1>3. link \in Nat \cup {Nil} /\ DOMAIN dirs \subseteq Nat
  BY DEF IInv, TypeOK, Version
<1>4. t = IF link = Nil THEN 0 ELSE link + 1
  BY DEF NextVersionAfter
<1> HIDE DEF t
<1>5. NumbersBounded'
  BY <1>1, <1>2, <1>3, <1>4 DEF MarginInv, NumbersBounded
<1>6. \A v \in Writers : PruneReady(v)'
  <2>1. \A v \in Writers : writer'[v].pc # "swapped"
    <3>1. writer[w].pc # "idle" /\ writer \in [Writers -> WriterState]
      BY DEF SaveBegin, IInv, TypeOK
    <3>2. writer'[w].pc = "staging" /\ \A v \in Writers \ {w} : writer'[v] = writer[v]
      BY <3>1 DEF SaveBegin
    <3>3. QED  BY <3>1, <3>2, OthersIdle DEF IInv
  <2>2. QED  BY <2>1 DEF PruneReady
<1>7. ASSUME NEW r \in Readers, Reading(r)' PROVE PinOk(r)'
  <2>1. Reading(r) /\ PinOk(r)
    BY <1>1, <1>7 DEF MarginInv, Reading
  <2>2. link # Nil /\ link \in Nat /\ reader[r].pin \in Nat /\ reader[r].pin <= link
    BY <2>1, ReadingPin
  <2>3. reader[r].pin # t
    BY <1>4, <2>2
  <2>4. QED  BY <1>1, <1>2, <2>1, <2>3 DEF PinOk, Reading
<1>8. QED  BY <1>5, <1>6, <1>7 DEF MarginInv, PinOk

\* A swap moves the link by one and counts once in every load in progress.
LEMMA SwapMargin ==
  ASSUME IInv, MarginInv, NEW w \in Writers, Swap(w)
  PROVE  MarginInv'
<1>1. /\ link' = writer[w].target
      /\ UNCHANGED <<dirs, leftover, reader>>
  BY DEF Swap
<1>2. /\ writer[w].target \in DOMAIN dirs
      /\ writer[w].target \in Nat
      /\ link # Nil => writer[w].target = link + 1
      /\ link \in Nat \cup {Nil}
      /\ DOMAIN dirs \subseteq Nat
  BY DEF Swap, IInv, TypeOK, StagingInv, StagingOk, Version
<1>3. link' # Nil /\ link' \in Nat
  BY <1>1, <1>2, ConstantsAssumption
<1>4. leftover = "none" => \A v \in DOMAIN dirs : v <= link'
  BY <1>1, <1>2 DEF MarginInv, NumbersBounded
<1>5. NumbersBounded'
  BY <1>1, <1>2, <1>3, <1>4 DEF NumbersBounded
<1>6. \A v \in Writers : PruneReady(v)'
  BY <1>1, <1>4 DEF PruneReady
<1>7. ASSUME NEW r \in Readers, Reading(r)' PROVE PinOk(r)'
  <2>1. Loading(r) /\ seen'[r] = Offer(seen[r], writer[w].gen)
    BY <1>1, <1>7 DEF Swap, Reading, Loading
  <2>2. seen'[r].dropped = seen[r].dropped /\ seen'[r].swaps = seen[r].swaps + 1
    BY <2>1 DEF Offer
  <2>3. Reading(r) /\ PinOk(r)
    BY <1>1, <1>7, <2>2 DEF MarginInv, Reading
  <2>4. /\ link \in Nat /\ link # Nil /\ reader[r].pin \in Nat /\ seen[r].swaps \in Nat
    BY <2>3, ReadingPin
  <2>5. link' = reader'[r].pin + seen'[r].swaps
    BY <1>1, <1>2, <2>2, <2>3, <2>4 DEF PinOk
  <2>6. leftover' = "none" /\ reader'[r].pin \notin DOMAIN dirs' => seen'[r].swaps > Retention
    BY <1>1, <2>2, <2>3, <2>4, ConstantsAssumption DEF PinOk
  <2>7. reader'[r].pc = "broken" /\ r \notin Mismatched => reader'[r].pin \notin DOMAIN dirs'
    BY <1>1, <2>3 DEF PinOk
  <2>8. QED  BY <2>5, <2>6, <2>7 DEF PinOk
<1>8. QED  BY <1>5, <1>6, <1>7 DEF MarginInv, PinOk

\* pruneInactiveIndexVersions takes a pinned directory only when at least
\* Retention others lie between it and the link.
LEMMA PruneMargin ==
  ASSUME IInv, MarginInv, NEW w \in Writers, Prune(w)
  PROVE  MarginInv'
<1>1. UNCHANGED <<link, leftover, reader, seen>>
  BY DEF Prune, observed
<1>2. DOMAIN dirs' \subseteq DOMAIN dirs
  BY DEF Prune, Remove
<1>3. DOMAIN dirs \subseteq Nat
  BY DEF IInv, TypeOK, Version
<1>4. NumbersBounded'
  BY <1>1, <1>2 DEF MarginInv, NumbersBounded
<1>5. \A v \in Writers : PruneReady(v)'
  <2>1. \A v \in Writers : writer'[v].pc = "swapped" => writer[v].pc = "swapped"
    BY DEF Prune, IInv, TypeOK, LockedWriter
  <2>2. QED  BY <1>1, <1>2, <2>1 DEF MarginInv, PruneReady
<1>6. ASSUME NEW r \in Readers, Reading(r)' PROVE PinOk(r)'
  <2> DEFINE p == reader[r].pin
  <2>1. Reading(r) /\ PinOk(r)
    BY <1>1, <1>6 DEF MarginInv, Reading
  <2>2. /\ link \in Nat /\ link # Nil /\ p \in Nat /\ p <= link /\ seen[r].swaps \in Nat
    BY <2>1, ReadingPin
  <2>3. link = p + seen[r].swaps
    BY <2>1 DEF PinOk
  <2>4. ASSUME leftover = "none", p \in DOMAIN dirs, p \notin DOMAIN dirs'
        PROVE  seen[r].swaps > Retention
    <3> DEFINE S == {u \in DOMAIN dirs \ {link} : u > p}
    <3>1. p \in PruneVictims(DOMAIN dirs, link, Retention)
      BY <2>2, <2>4 DEF Prune, Remove
    <3>2. p # link /\ Cardinality(S) >= Retention
      BY <3>1 DEF PruneVictims
    <3>3. \A v \in DOMAIN dirs : v <= link
      BY <2>2, <2>4 DEF Prune, MarginInv, PruneReady
    <3>4. S \subseteq (p+1)..(link-1) /\ p < link
      BY <1>3, <2>2, <3>2, <3>3
    <3> HIDE DEF S
    <3>5. Cardinality(S) \in Nat /\ Cardinality(S) <= link - p - 1
      BY <2>2, <3>4, DirsBetween
    <3>6. QED  BY <2>2, <2>3, <3>2, <3>5, ConstantsAssumption
  <2>5. QED  BY <1>1, <1>2, <2>1, <2>4 DEF PinOk
<1>7. QED  BY <1>4, <1>5, <1>6 DEF MarginInv, PinOk

\* A purge leaves no load undisturbed, and while it goes on no load is.
LEMMA PurgeMargin ==
  ASSUME IInv, MarginInv, NEW w \in Writers, PurgeLink(w) \/ PurgeDirs(w)
  PROVE  MarginInv'
<1>0. TypeOK /\ LockInv
  BY DEF IInv
<1>1. link' = Nil
  BY DEF PurgeLink, PurgeDirs, IInv, StagingInv, StagingOk
<1>2. NumbersBounded'
  <2>1. CASE PurgeLink(w)
    BY <2>1 DEF PurgeLink, NumbersBounded
  <2>2. CASE PurgeDirs(w)
    <3>1. link = Nil /\ DOMAIN dirs' \subseteq DOMAIN dirs
      BY <2>2 DEF PurgeDirs, Remove, IInv, StagingInv, StagingOk
    <3>2. leftover' = "none" => leftover = "none" \/ DOMAIN dirs' = {}
      BY <2>2 DEF PurgeDirs, Remove
    <3>3. QED  BY <1>1, <3>1, <3>2 DEF MarginInv, NumbersBounded
  <2>3. QED  BY <2>1, <2>2
<1>3. \A v \in Writers : PruneReady(v)'
  BY <1>1 DEF PruneReady
<1>4. ASSUME NEW r \in Readers PROVE ~Reading(r)'
  <2>1. CASE PurgeLink(w)
    <3>1. reader' = reader /\ NoteDrop(Readers)
      BY <2>1 DEF PurgeLink
    <3>2. Loading(r) => seen'[r] = [seen[r] EXCEPT !.dropped = TRUE]
      BY <3>1 DEF NoteDrop
    <3>3. seen[r] \in Seen
      BY <1>0 DEF TypeOK
    <3>4. Loading(r) => seen'[r].dropped
      BY <3>2, <3>3 DEF Seen
    <3>5. QED  BY <3>1, <3>4 DEF Reading, Loading
  <2>2. CASE PurgeDirs(w)
    <3>1. link = Nil /\ reader' = reader /\ seen' = seen
      BY <2>2, <1>1 DEF PurgeDirs
    <3>2. ~Reading(r)
      BY <3>1, ReadingPin
    <3>3. QED  BY <3>1, <3>2 DEF Reading
  <2>3. QED  BY <2>1, <2>2
<1>5. QED  BY <1>2, <1>3, <1>4 DEF MarginInv, PinOk

\* A step of one load that leaves the disk alone disturbs no other load.
LEMMA OtherLoads ==
  ASSUME MarginInv, NEW r \in Readers, PinOk(r)',
         UNCHANGED <<link, dirs, writer, leftover>>,
         \A q \in Readers \ {r} : reader'[q] = reader[q] /\ seen'[q] = seen[q]
  PROVE  MarginInv'
<1>1. NumbersBounded' /\ \A w \in Writers : PruneReady(w)'
  BY DEF MarginInv, NumbersBounded, PruneReady
<1>2. \A q \in Readers \ {r} : PinOk(q)'
  BY DEF MarginInv, PinOk, Reading
<1>3. QED  BY <1>1, <1>2 DEF MarginInv

\* The steps of a load: it pins the active version, and breaks only when the
\* pinned directory is gone or names another index type.
LEMMA LoadStepMargin ==
  ASSUME IInv, MarginInv, NEW r \in Readers,
         Open(r) \/ Resolve(r) \/ ReadManifest(r) \/ ReadFaiss(r) \/ ReadDocstore(r)
         \/ GiveUp(r)
  PROVE  MarginInv'
<1>1. UNCHANGED <<link, dirs, writer, leftover>>
  BY DEF Open, Resolve, ReadManifest, ReadFaiss, ReadDocstore, GiveUp, store, observed
<1>2. \A q \in Readers \ {r} : reader'[q] = reader[q] /\ seen'[q] = seen[q]
  BY DEF Open, Resolve, ReadManifest, ReadFaiss, ReadDocstore, GiveUp, observed,
         IInv, TypeOK
<1>3. reader[r] \in ReaderState /\ seen[r] \in Seen
      /\ reader \in [Readers -> ReaderState] /\ seen \in [Readers -> Seen]
  BY DEF IInv, TypeOK
<1>4. PinOk(r)'
  <2>1. CASE Open(r) \/ GiveUp(r)
    <3>1. reader'[r].pc \in {"idle", "resolve"}
      BY <2>1, <1>3 DEF Open, GiveUp, At
    <3>2. QED  BY <3>1 DEF PinOk, Reading
  <2>2. CASE Resolve(r)
    <3>1. CASE link \notin DOMAIN dirs
      BY <2>2, <3>1, <1>3 DEF Resolve, PinOk, Reading, At
    <3>2. CASE link \in DOMAIN dirs
      <4>1. reader'[r].pin = link /\ reader'[r].pc = "manifest"
        BY <2>2, <3>2, <1>3 DEF Resolve, At
      <4>2. seen'[r].swaps = 0
        BY <2>2, <3>2, <1>3 DEF Resolve, Seen
      <4>3. link \in Nat
        BY <3>2 DEF IInv, TypeOK, Version
      <4>4. QED  BY <1>1, <3>2, <4>1, <4>2, <4>3 DEF PinOk
    <3>3. QED  BY <3>1, <3>2
  <2>3. CASE ReadManifest(r) \/ ReadFaiss(r) \/ ReadDocstore(r)
    <3>1. SUFFICES ASSUME Reading(r)' PROVE PinOk(r)'
      BY DEF PinOk
    <3>2. seen'[r] = seen[r] /\ reader'[r].pin = reader[r].pin
      BY <2>3, <1>3 DEF ReadManifest, ReadFaiss, ReadDocstore, observed, ReaderState
    <3>3. Reading(r) /\ PinOk(r)
      BY <2>3, <3>1, <3>2 DEF MarginInv, Reading, ReadManifest, ReadFaiss, ReadDocstore
    <3>4. reader[r].pin \in DOMAIN dirs => Complete(dirs[reader[r].pin])
      BY <3>3, ReadingPin
    <3>5. reader[r].pin \in DOMAIN dirs => dirs[reader[r].pin].docstore # Nil
      BY <3>4 DEF Complete
    <3>6. ASSUME reader'[r].pc = "broken", r \notin Mismatched
          PROVE  reader[r].pin \notin DOMAIN dirs
      <4>1. CASE ReadManifest(r)
        BY <1>3, <3>6, <4>1 DEF ReadManifest, ReaderState
      <4>2. CASE ReadFaiss(r)
        <5>1. ~Present(reader[r].pin, "faiss")
          BY <1>3, <3>6, <4>2 DEF ReadFaiss, ReaderState
        <5>2. QED  BY <5>1, <3>4 DEF Present, Exists, Complete
      <4>3. CASE ReadDocstore(r)
        <5>1. ~Present(reader[r].pin, "docstore")
          BY <1>3, <3>6, <4>3 DEF ReadDocstore, ReaderState
        <5>2. QED  BY <5>1, <3>5 DEF Present, Exists
      <4>4. QED  BY <2>3, <4>1, <4>2, <4>3
    <3>7. QED  BY <1>1, <3>2, <3>3, <3>6 DEF PinOk
  <2>4. QED  BY <2>1, <2>2, <2>3
<1>5. QED  BY <1>1, <1>2, <1>4, OtherLoads

\* The rm(symlink) of a repair either leaves directories behind or found no
\* link; it disturbs every other load.
LEMMA RepairMargin ==
  ASSUME IInv, MarginInv, NEW r \in Readers, Repair(r)
  PROVE  MarginInv'
<1>1. link' = Nil /\ dirs' = dirs
  BY DEF Repair
<1>2. NumbersBounded'
  <2>1. leftover' = "none" => leftover = "none" /\ link = Nil
    BY DEF Repair
  <2>2. QED  BY <1>1, <2>1 DEF MarginInv, NumbersBounded
<1>3. \A v \in Writers : PruneReady(v)'
  BY <1>1 DEF PruneReady
<1>4. ASSUME NEW q \in Readers PROVE ~Reading(q)'
  <2>1. seen[q] \in Seen /\ reader \in [Readers -> ReaderState]
    BY DEF IInv, TypeOK
  <2>2. CASE q = r
    <3>1. reader'[q].pc = "idle"
      BY <2>1, <2>2 DEF Repair, At
    <3>2. QED  BY <3>1 DEF Reading
  <2>3. CASE q # r
    <3>1. reader'[q] = reader[q] /\ NoteDrop(Readers \ {r})
      BY <2>1, <2>3 DEF Repair
    <3>2. Loading(q) => seen'[q] = [seen[q] EXCEPT !.dropped = TRUE]
      BY <2>3, <3>1 DEF NoteDrop
    <3>3. Loading(q) => seen'[q].dropped
      BY <2>1, <3>2 DEF Seen
    <3>4. QED  BY <3>1, <3>3 DEF Reading, Loading
  <2>4. QED  BY <2>2, <2>3
<1>5. QED  BY <1>2, <1>3, <1>4 DEF MarginInv, PinOk

\* No step leaves the counting invariant.
LEMMA MarginInductive == IInv /\ MarginInv /\ [Next]_vars => MarginInv'
<1> SUFFICES ASSUME IInv, MarginInv, [Next]_vars PROVE MarginInv'
  OBVIOUS
<1>1. CASE UNCHANGED vars
  BY <1>1 DEF vars, MarginInv, NumbersBounded, PruneReady, PinOk, Reading
<1>2. ASSUME NEW w \in Writers, WriterStep(w) PROVE MarginInv'
  BY <1>2, SaveStepMargin, SaveBeginMargin, SwapMargin, PruneMargin, PurgeMargin
     DEF WriterStep
<1>3. ASSUME NEW r \in Readers, ReaderStep(r) PROVE MarginInv'
  BY <1>3, LoadStepMargin, RepairMargin DEF ReaderStep
<1>4. QED  BY <1>1, <1>2, <1>3 DEF Next

\* The retention of RFC 014 is a promise to the loads: in src/faiss-store-layout.ts
\* a load of an intact index whose directory was pruned away under it has been
\* overtaken by more swaps than there are retained versions, for any number of
\* concurrent writers, readers and crashes.
THEOREM MarginHolds == Spec => []RetentionMargin
<1>1. Init => MarginInv
  BY DEF Init, MarginInv, NumbersBounded, PruneReady, PinOk, Reading, At, IdleWriter
<1>2. MarginInv => RetentionMargin
  BY DEF MarginInv, RetentionMargin, PinOk, Reading
<1>3. QED  BY Invariance, MarginInductive, <1>1, <1>2, PTL DEF Spec

-----------------------------------------------------------------------------
(* The layout implements the snapshot register of SnapshotStore.tla: every *)
(* file operation is one step of the register or none.                     *)

\* The register's state in terms of the layout's, as IndexStoreProps maps it.
Current == IF link = Nil THEN Nil ELSE dirs[link].faiss

Loads == [r \in Readers |-> LoadOf(r)]

\* A load of the register, and what its steps do to it.
Entry(s, o, d, v) == [state |-> s, offered |-> o, dropped |-> d, value |-> v]
WithOffers(e, o) == [e EXCEPT !.offered = o]
WithOffer(e, g) == [e EXCEPT !.offered = @ \cup {g}]
WithDrop(e) == [e EXCEPT !.dropped = TRUE]
Dropped(s, o, v) == Entry(s, o, TRUE, v)
WithValue(e, g) == [e EXCEPT !.state = "done", !.value = g]

\* Each of them changes its own fields.
LEMMA EntryEdits ==
  ASSUME NEW s, NEW o, NEW d, NEW v, NEW h
  PROVE  /\ WithOffers(Entry(s, o, d, v), h) = Entry(s, h, d, v)
         /\ WithValue(Entry(s, o, d, v), h) = Entry("done", o, d, h)
<1>1. PICK x : x = Entry(s, o, d, v)
  OBVIOUS
<1>2. x = [state |-> s, offered |-> o, dropped |-> d, value |-> v]
  BY <1>1 DEF Entry
<1>3. [x EXCEPT !.offered = h] = [state |-> s, offered |-> h, dropped |-> d, value |-> v]
  BY <1>2, SMT
<1>5. PICK z : z = [x EXCEPT !.state = "done"]
  OBVIOUS
<1>6. z = [state |-> "done", offered |-> o, dropped |-> d, value |-> v]
  BY <1>2, <1>5, SMT
<1>7. [z EXCEPT !.value = h] = [state |-> "done", offered |-> o, dropped |-> d, value |-> h]
  BY <1>6, SMT
<1>8. [x EXCEPT !.state = "done", !.value = h] = [z EXCEPT !.value = h]
  BY <1>5, Zenon
<1>9. QED
  BY <1>1, <1>3, <1>7, <1>8, Zenon DEF WithOffers, WithValue, Entry

\* An offer adds one generation to those that are there.
LEMMA EntryOffer ==
  ASSUME NEW s, NEW o, NEW d, NEW v, NEW g
  PROVE  WithOffer(Entry(s, o, d, v), g) = Entry(s, o \cup {g}, d, v)
<1>1. Entry(s, o, d, v).offered = o
  BY DEF Entry
<1>2. WithOffer(Entry(s, o, d, v), g) = WithOffers(Entry(s, o, d, v), o \cup {g})
  BY <1>1, Zenon DEF WithOffer, WithOffers
<1>3. QED  BY <1>2, EntryEdits

\* A drop marks the load.
LEMMA EntryDrop ==
  ASSUME NEW s, NEW o, NEW d, NEW v
  PROVE  WithDrop(Entry(s, o, d, v)) = Dropped(s, o, v)
<1>1. PICK h : h = TRUE
  OBVIOUS
<1>2. PICK x : x = Entry(s, o, d, v)
  OBVIOUS
<1>3. [x EXCEPT !.dropped = h] = Entry(s, o, h, v)
  BY <1>2, SMT DEF Entry
<1>4. QED  BY <1>1, <1>2, <1>3, Zenon DEF WithDrop, Dropped

\* What the register sees of a load that is not over.
LEMMA BusyLoad ==
  ASSUME NEW r \in Readers, Loading(r)
  PROVE  LoadOf(r) = Entry("busy", seen[r].offered, seen[r].dropped, Nil)
<1>1. reader[r].pc # "loaded"
  BY DEF Loading
<1>2. QED  BY <1>1 DEF LoadOf, Entry

\* A load is busy in the register exactly while its reads go on.
LEMMA BusyMeansLoading ==
  ASSUME NEW r \in Readers
  PROVE  LoadOf(r).state = "busy" <=> Loading(r)
<1>1. CASE Loading(r)
  BY <1>1, BusyLoad DEF Entry
<1>2. CASE ~Loading(r)
  <2>1. CASE reader[r].pc = "loaded"
    BY <1>2, <2>1 DEF LoadOf
  <2>2. CASE reader[r].pc # "loaded"
    BY <1>2, <2>2 DEF LoadOf
  <2>3. QED  BY <2>1, <2>2
<1>3. QED  BY <1>1, <1>2

\* A load that never began, returned nothing or gave up.
LEMMA IdleLoad ==
  ASSUME NEW r \in Readers, reader[r].pc = "idle", seen[r] = Unseen
  PROVE  LoadOf(r) = Snapshot!Idle
  BY DEF LoadOf, Loading, Unseen, Snapshot!Idle

\* The step of a load whose phase, for the register, did not change.
LEMMA SameLoad ==
  ASSUME NEW r \in Readers, seen'[r] = seen[r],
         \/ reader'[r] = reader[r]
         \/ Loading(r) /\ Loading(r)'
  PROVE  LoadOf(r)' = LoadOf(r)
<1>1. CASE reader'[r] = reader[r]
  BY <1>1 DEF LoadOf, Loading
<1>2. CASE Loading(r) /\ Loading(r)'
  <2>1. reader[r].pc # "loaded" /\ reader'[r].pc # "loaded"
    BY <1>2 DEF Loading
  <2>2. QED  BY <1>2, <2>1 DEF LoadOf
<1>3. QED  BY <1>1, <1>2

\* A step that keeps the active index and every load is a stutter.
LEMMA Stutters ==
  ASSUME Current' = Current, latest' = latest, \A r \in Readers : LoadOf(r)' = LoadOf(r)
  PROVE  UNCHANGED Snapshot!vars
<1>1. Loads' = Loads
  BY DEF Loads
<1>2. QED  BY <1>1 DEF Snapshot!vars, Current, Loads

\* The empty directory is the empty register.
LEMMA InitIsInit == Init => Snapshot!Init
<1> SUFFICES ASSUME Init PROVE Snapshot!Init
  OBVIOUS
<1>1. \A r \in Readers : LoadOf(r) = Snapshot!Idle
  BY IdleLoad DEF Init, At
<1>2. Current = Nil /\ latest = 0
  BY DEF Init, Current
<1>3. QED  BY <1>1, <1>2 DEF Snapshot!Init, Current

\* Staging, sealing, pruning, failing and crashing never show: they leave the
\* active directory alone.
LEMMA HiddenSteps ==
  ASSUME IInv, NEW w \in Writers,
         Acquire(w) \/ SaveBegin(w) \/ WriteFaiss(w) \/ WriteDocstore(w) \/ WriteManifest(w)
         \/ Prune(w) \/ SaveFails(w) \/ PurgeDirs(w) \/ Release(w) \/ Crash(w)
  PROVE  UNCHANGED Snapshot!vars
<1>1. UNCHANGED <<link, latest, reader, seen>>
  BY DEF Acquire, SaveBegin, WriteFaiss, WriteDocstore, WriteManifest, Prune, SaveFails,
         PurgeDirs, Release, Crash, store, observed
<1>2. ASSUME link # Nil PROVE dirs'[link] = dirs[link]
  <2>1. link \in DOMAIN dirs /\ link \in Nat
    BY <1>2 DEF IInv, ActiveComplete, TypeOK, Version
  <2>2. CASE Acquire(w) \/ SaveFails(w) \/ Release(w) \/ Crash(w)
    BY <2>2 DEF Acquire, SaveFails, Release, Crash, store
  <2>3. CASE SaveBegin(w)
    BY <1>2, <2>1, <2>3 DEF SaveBegin, Put, NextVersionAfter
  <2>4. CASE WriteFaiss(w) \/ WriteDocstore(w) \/ WriteManifest(w)
    <3>1. writer[w].target = link + 1
      BY <1>2, <2>4 DEF IInv, StagingInv, StagingOk, WriteFaiss, WriteDocstore, WriteManifest
    <3>2. QED  BY <2>1, <2>4, <3>1 DEF WriteFaiss, WriteDocstore, WriteManifest, Put
  <2>5. CASE Prune(w)
    BY <1>2, <2>1, <2>5 DEF Prune, Remove, PruneVictims
  <2>6. CASE PurgeDirs(w)
    BY <1>2, <2>6 DEF PurgeDirs, IInv, StagingInv, StagingOk
  <2>7. QED  BY <2>2, <2>3, <2>4, <2>5, <2>6
<1>3. Current' = Current
  BY <1>1, <1>2 DEF Current
<1>4. \A r \in Readers : LoadOf(r)' = LoadOf(r)
  BY <1>1, SameLoad
<1>5. QED  BY <1>1, <1>3, <1>4, Stutters

\* The rename is the commit: the register takes the new generation, and every
\* load in progress is offered it.
LEMMA SwapCommits ==
  ASSUME IInv, NEW w \in Writers, Swap(w)
  PROVE  Snapshot!Commit
<1> DEFINE g == writer[w].gen
<1>1. g \in Nat \ {0} /\ latest \in Nat /\ latest < g /\ latest' = g
      /\ dirs[writer[w].target].faiss = g /\ writer[w].target \in Nat
  BY DEF Swap, IInv, TypeOK, StagingInv, StagingOk, Complete, Generation, Version
<1>2. Current' = g
  BY <1>1, ConstantsAssumption DEF Swap, Current
<1>3. ASSUME NEW r \in Readers, Loading(r)
      PROVE  LoadOf(r)' = WithOffer(LoadOf(r), g)
  <2>1. seen'[r] = Offer(seen[r], g) /\ Loading(r)'
    BY <1>3 DEF Swap, Loading
  <2>2. seen'[r].offered = seen[r].offered \cup {g} /\ seen'[r].dropped = seen[r].dropped
    BY <2>1 DEF Offer
  <2>3. LoadOf(r)' = Entry("busy", seen'[r].offered, seen'[r].dropped, Nil)
    <3>1. reader'[r].pc # "loaded"
      BY <2>1 DEF Loading
    <3>2. QED  BY <2>1, <3>1 DEF LoadOf, Loading, Entry
  <2>4. QED  BY <1>3, <2>2, <2>3, BusyLoad, EntryOffer
<1>4. ASSUME NEW r \in Readers, ~Loading(r)
      PROVE  LoadOf(r)' = LoadOf(r)
  <2>1. seen'[r] = seen[r] /\ reader' = reader
    BY <1>4 DEF Swap
  <2>2. QED  BY <2>1, SameLoad
<1> HIDE DEF g
<1>5. Loads' = [r \in Readers |->
                  IF Loads[r].state = "busy" THEN [Loads[r] EXCEPT !.offered = @ \cup {latest'}]
                  ELSE Loads[r]]
  <2>1. ASSUME NEW r \in Readers
        PROVE  LoadOf(r)' = IF LoadOf(r).state = "busy"
                            THEN WithOffer(LoadOf(r), latest')
                            ELSE LoadOf(r)
    BY <1>1, <1>3, <1>4, BusyMeansLoading
  <2>2. QED  BY <2>1 DEF Loads, WithOffer
<1>6. QED  BY <1>1, <1>2, <1>5 DEF Snapshot!Commit, Snapshot!Busy, Snapshot!Generation, Current, Loads

\* Removing the link drops the register; all loads in progress are told,
\* except the one whose own repair it was: that one returns nothing.
LEMMA DropStep ==
  ASSUME IInv, NEW others \in SUBSET Readers, link' = Nil, latest' = latest,
         NoteDrop(others),
         \A r \in others : reader'[r] = reader[r],
         \A r \in Readers \ others : \/ reader'[r] = reader[r] /\ ~Loading(r)
                                     \/ reader'[r] = At("idle") /\ Loading(r)
  PROVE  Snapshot!Drop
<1>1. Current' = Nil
  BY DEF Current
<1>2. ASSUME NEW r \in Readers
      PROVE  LoadOf(r)' = CASE LoadOf(r).state # "busy" -> LoadOf(r)
                            [] LoadOf(r).state = "busy" /\ r \in others ->
                                 WithDrop(LoadOf(r))
                            [] OTHER -> Snapshot!Idle
  <2>0. seen[r] \in Seen
    BY DEF IInv, TypeOK
  <2>1. CASE ~Loading(r)
    <3>1. seen'[r] = seen[r] /\ reader'[r] = reader[r]
      BY <2>1 DEF NoteDrop
    <3>2. QED  BY <2>1, <3>1, SameLoad, BusyMeansLoading
  <2>2. CASE Loading(r) /\ r \in others
    <3>1. seen'[r] = [seen[r] EXCEPT !.dropped = TRUE] /\ Loading(r)'
      BY <2>2 DEF NoteDrop, Loading
    <3>2. seen'[r].offered = seen[r].offered /\ seen'[r].dropped = TRUE
      BY <2>0, <3>1 DEF Seen
    <3>3. LoadOf(r)' = Entry("busy", seen'[r].offered, seen'[r].dropped, Nil)
      <4>1. reader'[r].pc # "loaded"
        BY <3>1 DEF Loading
      <4>2. QED  BY <3>1, <4>1 DEF LoadOf, Loading, Entry
    <3>4. LoadOf(r)' = WithDrop(LoadOf(r))
      <4>1. LoadOf(r) = Entry("busy", seen[r].offered, seen[r].dropped, Nil)
        BY <2>2, BusyLoad
      <4>2. WithDrop(LoadOf(r)) = Dropped("busy", seen[r].offered, Nil)
        BY <4>1, EntryDrop
      <4>3. LoadOf(r)' = Dropped("busy", seen[r].offered, Nil)
        BY <3>2, <3>3, Zenon DEF Dropped
      <4>4. QED  BY <4>2, <4>3
    <3>5. QED  BY <2>2, <3>4, BusyMeansLoading
  <2>3. CASE Loading(r) /\ r \notin others
    <3>1. seen'[r] = Unseen /\ reader'[r].pc = "idle"
      BY <2>3 DEF NoteDrop, At
    <3>2. LoadOf(r)' = Snapshot!Idle
      BY <3>1 DEF LoadOf, Loading, Unseen, Snapshot!Idle
    <3>3. QED  BY <2>3, <3>2, BusyMeansLoading
  <2>4. QED  BY <2>1, <2>2, <2>3
<1>3. Loads' = [r \in Readers |->
                  CASE ~(Loads[r].state = "busy") -> Loads[r]
                    [] Loads[r].state = "busy" /\ r \in others ->
                         [Loads[r] EXCEPT !.dropped = TRUE]
                    [] OTHER -> Snapshot!Idle]
  BY <1>2 DEF Loads, WithDrop
<1>4. QED  BY <1>1, <1>3 DEF Snapshot!Drop, Snapshot!Busy, Current, Loads

\* The store's own removals of the link are drops.
LEMMA PurgeDrops ==
  ASSUME IInv, NEW w \in Writers, PurgeLink(w)
  PROVE  Snapshot!Drop
  BY DropStep DEF PurgeLink

\* A reader that finds a store it cannot load removes the link: a drop.
LEMMA RepairDrops ==
  ASSUME IInv, NEW r \in Readers, Repair(r)
  PROVE  Snapshot!Drop
<1>1. reader \in [Readers -> ReaderState]
  BY DEF IInv, TypeOK
<1>2. Loading(r) /\ reader'[r] = At("idle") /\ \A q \in Readers \ {r} : reader'[q] = reader[q]
  BY <1>1 DEF Repair, Loading
<1>3. link' = Nil /\ latest' = latest /\ NoteDrop(Readers \ {r})
  BY DEF Repair
<1>4. QED  BY <1>2, <1>3, DropStep

\* The load of one reader moves and nothing else does.
LEMMA LoadsExcept ==
  ASSUME NEW r \in Readers, \A q \in Readers \ {r} : LoadOf(q)' = LoadOf(q)
  PROVE  Loads' = [Loads EXCEPT ![r] = LoadOf(r)']
  BY DEF Loads

\* A load that finds no link, a link that dangles, or that gives up after an
\* error, returns nothing.
LEMMA ReturnsNothing ==
  ASSUME IInv, NEW r \in Readers, UNCHANGED <<link, dirs, latest>>,
         reader' = [reader EXCEPT ![r] = At("idle")], seen' = [seen EXCEPT ![r] = Unseen]
  PROVE  Snapshot!ReturnNothing(r)
<1>1. reader'[r].pc = "idle" /\ seen'[r] = Unseen
      /\ \A q \in Readers \ {r} : reader'[q] = reader[q] /\ seen'[q] = seen[q]
  BY DEF IInv, TypeOK, At
<1>2. LoadOf(r)' = Snapshot!Idle
  <2>1. LoadOf(r)' = Entry("idle", seen'[r].offered, seen'[r].dropped, Nil)
    BY <1>1 DEF LoadOf, Loading, Entry
  <2>2. seen'[r].offered = {} /\ seen'[r].dropped = FALSE
    BY <1>1 DEF Unseen
  <2>3. QED  BY <2>1, <2>2, Zenon DEF Entry, Snapshot!Idle
<1>3. \A q \in Readers \ {r} : LoadOf(q)' = LoadOf(q)
  BY <1>1, SameLoad
<1>4. Loads' = [Loads EXCEPT ![r] = Snapshot!Idle]
  BY <1>2, <1>3, LoadsExcept
<1>5. Current' = Current
  BY DEF Current
<1>6. QED  BY <1>4, <1>5 DEF Snapshot!ReturnNothing, Loads, Current

\* A load that sees the link begins with the active generation on offer.
LEMMA OpenBegins ==
  ASSUME IInv, NEW r \in Readers, Open(r)
  PROVE  Snapshot!Begin(r) \/ Snapshot!ReturnNothing(r)
<1>1. CASE link = Nil
  BY <1>1, ReturnsNothing DEF Open, store, IInv, TypeOK
<1>2. CASE link # Nil
  <2>1. ~Loading(r) /\ UNCHANGED <<link, dirs, latest>>
    BY DEF Open, store
  <2>2. Current # Nil /\ Current = dirs[link].faiss
    BY <1>2 DEF Current, IInv, ActiveComplete, Complete
  <2>3. /\ reader'[r] = At("resolve")
        /\ seen'[r] = [Unseen EXCEPT !.offered = {dirs[link].faiss}]
        /\ \A q \in Readers \ {r} : reader'[q] = reader[q] /\ seen'[q] = seen[q]
    BY <1>2 DEF Open, IInv, TypeOK
  <2>4. reader'[r].pc = "resolve"
        /\ seen'[r].offered = {Current} /\ seen'[r].dropped = FALSE
    BY <2>2, <2>3 DEF At, Unseen
  <2>5. LoadOf(r)' = [state |-> "busy", offered |-> {Current}, dropped |-> FALSE, value |-> Nil]
    BY <2>4 DEF LoadOf, Loading
  <2>6. \A q \in Readers \ {r} : LoadOf(q)' = LoadOf(q)
    BY <2>3, SameLoad
  <2>7. Loads' = [Loads EXCEPT ![r] = [state |-> "busy", offered |-> {Current},
                                       dropped |-> FALSE, value |-> Nil]]
    BY <2>5, <2>6, LoadsExcept
  <2>8. Current' = Current
    BY <2>1 DEF Current
  <2>9. Loads[r].state # "busy"
    BY <2>1, BusyMeansLoading DEF Loads
  <2>10. Snapshot!Begin(r)
    BY <2>1, <2>2, <2>7, <2>8, <2>9 DEF Snapshot!Begin, Snapshot!Busy, Loads, Current
  <2>11. QED  BY <2>10
<1>3. QED  BY <1>1, <1>2

\* The read that completes a load returns one of the offers, unless a drop
\* overlapped the load.
LEMMA LoadedReturns ==
  ASSUME IInv, CoherentLoad', NEW r \in Readers, Loading(r), reader'[r].pc = "loaded",
         reader'[r].faiss \in Generation \cup {Nil},
         \A q \in Readers \ {r} : reader'[q] = reader[q],
         UNCHANGED <<link, dirs, latest, seen>>
  PROVE  Snapshot!Return(r) \/ Snapshot!ReturnDisturbed(r)
<1> DEFINE g == IF reader'[r].faiss = reader'[r].docstore THEN reader'[r].faiss ELSE Nil
<1>1. LoadOf(r)' = Entry("done", seen[r].offered, seen[r].dropped, g)
  BY DEF LoadOf, Loading, Entry
<1>2. LoadOf(r) = Entry("busy", seen[r].offered, seen[r].dropped, Nil)
  BY BusyLoad
<1>3. g \in Generation \cup {Nil}
  OBVIOUS
<1>3a. ~seen[r].dropped => g \in seen[r].offered
  BY DEF CoherentLoad
<1> HIDE DEF g
<1>4. LoadOf(r)' = WithValue(LoadOf(r), g)
  BY <1>1, <1>2, EntryEdits
<1>5. \A q \in Readers \ {r} : LoadOf(q)' = LoadOf(q)
  BY SameLoad
<1>6. Loads' = [Loads EXCEPT ![r] = WithValue(LoadOf(r), g)]
  BY <1>4, <1>5, LoadsExcept
<1>7. Loads[r] = LoadOf(r)
  BY DEF Loads
<1>8. Loads' = [Loads EXCEPT ![r].state = "done", ![r].value = g]
  BY <1>6, <1>7, Zenon DEF Loads, WithValue
<1>9. Current' = Current
  BY DEF Current
<1>10. Loads[r].state = "busy" /\ Loads[r].offered = seen[r].offered
       /\ (Loads[r].dropped <=> seen[r].dropped) /\ Loads'[r].value = g
  BY <1>1, <1>2, <1>7 DEF Loads, Entry
<1>11. CASE ~seen[r].dropped
  BY <1>3a, <1>8, <1>9, <1>10, <1>11 DEF Snapshot!Return, Snapshot!Busy, Loads, Current
<1>12. CASE seen[r].dropped
  BY <1>3, <1>8, <1>9, <1>10, <1>12
     DEF Snapshot!ReturnDisturbed, Snapshot!Busy, Snapshot!Generation, Generation, Loads, Current
<1>13. QED  BY <1>11, <1>12

\* The reads of a load: each is invisible but the one that completes it.
LEMMA ReadStep ==
  ASSUME IInv, IInv', NEW r \in Readers,
         ReadManifest(r) \/ ReadFaiss(r) \/ ReadDocstore(r)
  PROVE  UNCHANGED Snapshot!vars \/ Snapshot!Return(r) \/ Snapshot!ReturnDisturbed(r)
<1>1. UNCHANGED <<link, dirs, latest, seen>>
  BY DEF ReadManifest, ReadFaiss, ReadDocstore, store, observed
<1>2. reader \in [Readers -> ReaderState] /\ reader' \in [Readers -> ReaderState]
  BY DEF IInv, TypeOK
<1>3. Loading(r) /\ \A q \in Readers \ {r} : reader'[q] = reader[q]
  BY <1>2 DEF ReadManifest, ReadFaiss, ReadDocstore, Loading
<1>4. Loading(r)' \/ reader'[r].pc = "loaded"
  BY <1>2 DEF ReadManifest, ReadFaiss, ReadDocstore, Loading, ReaderState
<1>5. CASE Loading(r)'
  <2>1. \A q \in Readers : LoadOf(q)' = LoadOf(q)
    BY <1>1, <1>3, <1>5, SameLoad
  <2>2. Current' = Current
    BY <1>1 DEF Current
  <2>3. QED  BY <1>1, <2>1, <2>2, Stutters
<1>6. CASE reader'[r].pc = "loaded"
  <2>1. reader'[r].faiss \in Generation \cup {Nil} /\ CoherentLoad'
    BY <1>2 DEF ReaderState, IInv
  <2>2. QED  BY <1>1, <1>3, <1>6, <2>1, LoadedReturns
<1>7. QED  BY <1>4, <1>5, <1>6

\* realpath either pins the directory, which the register does not see, or
\* finds no directory and returns nothing.
LEMMA ResolvePins ==
  ASSUME IInv, NEW r \in Readers, Resolve(r)
  PROVE  UNCHANGED Snapshot!vars \/ Snapshot!ReturnNothing(r)
<1>1. UNCHANGED <<link, dirs, latest>>
  BY DEF Resolve, store
<1>2. CASE link \notin DOMAIN dirs
  BY <1>1, <1>2, ReturnsNothing DEF Resolve
<1>3. CASE link \in DOMAIN dirs
  <2>0. reader \in [Readers -> ReaderState] /\ seen \in [Readers -> Seen]
    BY DEF IInv, TypeOK
  <2>1. /\ Loading(r) /\ reader'[r].pc = "manifest"
        /\ seen'[r].offered = seen[r].offered /\ seen'[r].dropped = seen[r].dropped
    BY <1>3, <2>0 DEF Resolve, Loading, At, Seen
  <2>2. \A q \in Readers \ {r} : reader'[q] = reader[q] /\ seen'[q] = seen[q]
    BY <1>3, <2>0 DEF Resolve
  <2>3. LoadOf(r)' = LoadOf(r)
    <3>1. Loading(r)' /\ reader'[r].pc # "loaded" /\ reader[r].pc # "loaded"
      BY <2>1 DEF Loading
    <3>2. QED  BY <2>1, <3>1 DEF LoadOf
  <2>4. \A q \in Readers : LoadOf(q)' = LoadOf(q)
    BY <2>2, <2>3, SameLoad
  <2>5. Current' = Current
    BY <1>1 DEF Current
  <2>6. QED  BY <1>1, <2>4, <2>5, Stutters
<1>4. QED  BY <1>2, <1>3

\* Every step of the layout is a step of the register or leaves it alone.
LEMMA StepIsStep == IInv /\ IInv' /\ [Next]_vars => [Snapshot!Next]_(Snapshot!vars)
<1> SUFFICES ASSUME IInv, IInv', [Next]_vars PROVE Snapshot!Next \/ UNCHANGED Snapshot!vars
  OBVIOUS
<1>1. CASE UNCHANGED vars
  <2>1. UNCHANGED <<link, dirs, latest, reader, seen>>
    BY <1>1 DEF vars
  <2>2. Current' = Current /\ \A r \in Readers : LoadOf(r)' = LoadOf(r)
    BY <2>1, SameLoad DEF Current
  <2>3. QED  BY <2>1, <2>2, Stutters
<1>2. ASSUME NEW w \in Writers, WriterStep(w)
      PROVE  Snapshot!Next \/ UNCHANGED Snapshot!vars
  BY <1>2, HiddenSteps, SwapCommits, PurgeDrops DEF WriterStep, Snapshot!Next
<1>3. ASSUME NEW r \in Readers, ReaderStep(r)
      PROVE  Snapshot!Next \/ UNCHANGED Snapshot!vars
  <2>1. CASE Open(r)
    BY <2>1, OpenBegins DEF Snapshot!Next
  <2>2. CASE Resolve(r)
    BY <2>2, ResolvePins DEF Snapshot!Next
  <2>3. CASE ReadManifest(r) \/ ReadFaiss(r) \/ ReadDocstore(r)
    BY <2>3, ReadStep DEF Snapshot!Next
  <2>4. CASE Repair(r)
    BY <2>4, RepairDrops DEF Snapshot!Next
  <2>5. CASE GiveUp(r)
    <3>1. Snapshot!ReturnNothing(r)
      BY <2>5, ReturnsNothing DEF GiveUp, store
    <3>2. QED  BY <3>1 DEF Snapshot!Next
  <2>6. QED  BY <1>3, <2>1, <2>2, <2>3, <2>4, <2>5 DEF ReaderStep
<1>4. QED  BY <1>1, <1>2, <1>3 DEF Next

\* The versioned directories, the symlink and the unlocked loads of
\* src/faiss-store-layout.ts together are a register with atomic commits and
\* snapshot loads, whatever writers crash, fail, prune, purge or repair.
THEOREM LayoutImplementsSnapshot == Spec => ImplementsSnapshot
<1>1. IInv /\ [Next]_vars => [Snapshot!Next]_(Snapshot!vars)
  BY Inductive, StepIsStep
<1>2. QED  BY InitIsInit, Invariance, <1>1, PTL DEF Spec, ImplementsSnapshot, Snapshot!Spec
=============================================================================
