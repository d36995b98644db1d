---------------------------- MODULE DocstoreCas -----------------------------
(***************************************************************************)
(* The shared docstore (src/docstore-cas.ts) as saveFaissStoreAtomic uses  *)
(* it: one saver per model, which the model's write lock lets run alone,   *)
(* and for all of them one directory of canonical docstores, each under    *)
(* the hash of its contents.  After a save the staged docstore is replaced *)
(* by a hard link to the shared file; after the swap old versions are      *)
(* pruned and shared files without a link are collected.                   *)
(*                                                                         *)
(* Names point at files: the docstore of a version, a temporary link       *)
(* beside it, and the entry of a hash.  A file is what it says and its     *)
(* identity; one that a single name can ever point at needs none.  A hash  *)
(* is the contents it stands for: canonicalizeDocstore maps all docstores  *)
(* with the same contents to one, and leaves one in another form alone.    *)
(* The temporary file of an entry has a name of its own that nothing else  *)
(* opens, and becomes the entry when it is whole.                          *)
(*                                                                         *)
(* The lock of the shared directory fails open: a saver whose retries end  *)
(* goes on without it.  A saver can die between any two steps; its lock    *)
(* stays until it is stale.                                                *)
(***************************************************************************)
EXTENDS Integers, FiniteSets

CONSTANTS
  Models,       \* the models, one saver each
  Contents,     \* what a docstore may say
  Retention,    \* KB_INDEX_VERSION_RETENTION: inactive versions kept
  MaxSaves,     \* bound: saves started
  MaxFiles,     \* bound: shared files that exist together
  FailOpen,     \* TRUE: retries of the lock may end
  Torn,         \* contents of a file that is not whole
  Nil           \* no file, no lock holder

\* The lock file of a process that died.
Dead == "dead"

ASSUME CasAssumption ==
  /\ Retention \in Nat
  /\ MaxSaves \in Nat
  /\ FailOpen \in BOOLEAN
  /\ MaxFiles \in Nat
  /\ Nil \notin Models \cup Contents \cup {Torn}
  /\ Nil \notin [says : Contents \cup {Torn}, id : Nat]
  /\ Torn \notin Contents
  /\ Dead \notin Models \cup {Nil}

VARIABLES
  dir,      \* [Models -> [Version -> Dir]]: the names in index.v<N>
  active,   \* [Models -> target of the symlink `index', or -1]
  cas,      \* [Contents -> file of the entry <hash>.json, or Nil]
  casLock,  \* holder of the directory's lock, Dead, or Nil
  saver,    \* [Models -> SaverState]
  disabled, \* models whose process has given up hard links
  saves     \* saves started so far

\* Observation that only the properties read: a lock has failed open.
VARIABLE opened

names == <<dir, active, cas>>
vars == <<dir, active, cas, casLock, saver, disabled, saves, opened>>

Version == 0 .. MaxSaves
File == [says : Contents \cup {Torn}, id : 0 .. MaxFiles]
Dir == [doc : File \cup {Nil}, tmp : File \cup {Nil}]
NoDir == [doc |-> Nil, tmp |-> Nil]

\* A file under one name.
Own(c) == [says |-> c, id |-> 0]

\* pc of a saver, the hash it works on, and what is left of the listing of a
\* collection.
SaverState ==
  [pc : {"idle", "saving", "saved", "lock", "exists", "write", "link", "rename",
         "unlock", "seal", "prune", "gclock", "gc", "remove"},
   hash : Contents \cup {Nil}, todo : SUBSET Contents]

Idle == [pc |-> "idle", hash |-> Nil, todo |-> {}]

Goto(m, pc) == saver' = [saver EXCEPT ![m].pc = pc]

Staging(m) == active[m] + 1
Staged(m) == dir[m][Staging(m)]
SetStaged(m, d) == dir' = [dir EXCEPT ![m][Staging(m)] = d]

\* A shared file has a name beside its entry: st_nlink > 1.
Linked(f) == \E m \in Models, v \in Version : dir[m][v].doc = f \/ dir[m][v].tmp = f

\* New identities for a file that says c.
NewIds(c) == {i \in 1 .. MaxFiles : ~Linked([says |-> c, id |-> i]) /\ cas[c] # [says |-> c, id |-> i]}
NewFile(c) == [says |-> c, id |-> CHOOSE i \in NewIds(c) : TRUE]

-----------------------------------------------------------------------------
(* FaissStore.save                                                         *)

\* The staging directory of a save that died is cleared, and the docstore is
\* written with fresh random ids, a file of its own.
Save(m) ==
  /\ saver[m].pc = "idle"
  /\ saves < MaxSaves
  /\ saves' = saves + 1
  /\ SetStaged(m, [doc |-> Own(Torn), tmp |-> Nil])
  /\ Goto(m, "saving")
  /\ UNCHANGED <<active, cas, casLock, disabled, opened>>

FinishSave(m) ==
  /\ saver[m].pc = "saving"
  /\ \E c \in Contents : SetStaged(m, [doc |-> Own(c), tmp |-> Nil])
  /\ Goto(m, "saved")
  /\ UNCHANGED <<active, cas, casLock, disabled, saves, opened>>

-----------------------------------------------------------------------------
(* dedupeDocstoreOnSave                                                    *)

\* Mutant: the save is not awaited.
CanonicalizeEarly(m) ==
  /\ saver[m].pc \in {"saving", "saved"}
  /\ m \notin disabled
  /\ saver' = [saver EXCEPT ![m].pc = "lock", ![m].hash = Staged(m).doc.says]
  /\ UNCHANGED <<names, casLock, disabled, saves, opened>>

\* Disabled, no shared root, or a docstore that is not canonical.
SkipDedup(m) ==
  /\ saver[m].pc = "saved"
  /\ Goto(m, "seal")
  /\ UNCHANGED <<names, casLock, disabled, saves, opened>>

Canonicalize(m) ==
  /\ saver[m].pc = "saved"
  /\ m \notin disabled
  /\ saver' = [saver EXCEPT ![m].pc = "lock", ![m].hash = Staged(m).doc.says]
  /\ UNCHANGED <<names, casLock, disabled, saves, opened>>

\* withCasLock: the lock is taken, or the retries end and the work goes on.
TakeLock(m) ==
  \/ /\ casLock = Nil
     /\ casLock' = m
     /\ UNCHANGED opened
  \/ /\ FailOpen
     /\ casLock # Nil
     /\ opened' = TRUE
     /\ UNCHANGED casLock

ReleaseLock(m) == casLock' = IF casLock = m THEN Nil ELSE casLock

DedupLock(m) ==
  /\ saver[m].pc = "lock"
  /\ TakeLock(m)
  /\ Goto(m, "exists")
  /\ UNCHANGED <<names, disabled, saves>>

\* pathExists: a hit goes on to the link, a miss writes the entry first.
CheckEntry(m) ==
  /\ saver[m].pc = "exists"
  /\ Goto(m, IF cas[saver[m].hash] # Nil THEN "link" ELSE "write")
  /\ UNCHANGED <<names, casLock, disabled, saves, opened>>

\* Mutant: the entry is written in place, and is torn if the process dies.
WriteInPlace(m) ==
  /\ saver[m].pc = "write"
  /\ NewIds(saver[m].hash) # {}
  /\ \/ /\ cas' = [cas EXCEPT ![saver[m].hash] = NewFile(saver[m].hash)]
        /\ Goto(m, "link")
     \/ /\ cas' = [cas EXCEPT ![saver[m].hash] = [NewFile(saver[m].hash) EXCEPT !.says = Torn]]
        /\ saver' = [saver EXCEPT ![m] = Idle]
  /\ UNCHANGED <<dir, active, casLock, disabled, saves, opened>>

\* atomicWriteBytes: the temporary file is whole and synced when it is
\* renamed to the entry, over one that another saver may have put there.
WriteEntry(m) ==
  /\ saver[m].pc = "write"
  /\ NewIds(saver[m].hash) # {}
  /\ cas' = [cas EXCEPT ![saver[m].hash] = NewFile(saver[m].hash)]
  /\ Goto(m, "link")
  /\ UNCHANGED <<dir, active, casLock, disabled, saves, opened>>

LinkEntry(m) ==
  /\ saver[m].pc = "link"
  /\ cas[saver[m].hash] # Nil
  /\ SetStaged(m, [Staged(m) EXCEPT !.tmp = cas[saver[m].hash]])
  /\ Goto(m, "rename")
  /\ UNCHANGED <<active, cas, casLock, disabled, saves, opened>>

\* EXDEV, EPERM or EOPNOTSUPP: no more links in this process.
LinkRefused(m) ==
  /\ saver[m].pc = "link"
  /\ disabled' = disabled \cup {m}
  /\ Goto(m, "unlock")
  /\ UNCHANGED <<names, casLock, saves, opened>>

\* The entry is gone, or another error of the file system in any step under
\* the lock: the private docstore stays.  A temporary link may stay with it.
DedupFails(m) ==
  /\ saver[m].pc \in {"exists", "write", "link", "rename"}
  /\ Goto(m, "unlock")
  /\ UNCHANGED <<names, casLock, disabled, saves, opened>>

RenameLink(m) ==
  /\ saver[m].pc = "rename"
  /\ SetStaged(m, [doc |-> Staged(m).tmp, tmp |-> Nil])
  /\ Goto(m, "unlock")
  /\ UNCHANGED <<active, cas, casLock, disabled, saves, opened>>

DedupUnlock(m) ==
  /\ saver[m].pc = "unlock"
  /\ ReleaseLock(m)
  /\ saver' = [saver EXCEPT ![m] = [Idle EXCEPT !.pc = "seal"]]
  /\ UNCHANGED <<names, disabled, saves, opened>>

-----------------------------------------------------------------------------
(* The swap, and what follows it                                           *)

Swap(m) ==
  /\ saver[m].pc = "seal"
  /\ active' = [active EXCEPT ![m] = Staging(m)]
  /\ Goto(m, "prune")
  /\ UNCHANGED <<dir, cas, casLock, disabled, saves, opened>>

\* pruneInactiveIndexVersions.
Prune(m) ==
  /\ saver[m].pc = "prune"
  /\ dir' = [dir EXCEPT ![m] = [v \in Version |->
               IF v < active[m] - Retention THEN NoDir ELSE dir[m][v]]]
  /\ Goto(m, "gclock")
  /\ UNCHANGED <<active, cas, casLock, disabled, saves, opened>>

\* Mutant: the lock is not taken.
GcListUnlocked(m) ==
  /\ saver[m].pc = "gclock"
  /\ saver' = [saver EXCEPT ![m].pc = "gc", ![m].todo = {c \in Contents : cas[c] # Nil}]
  /\ UNCHANGED <<names, casLock, disabled, saves, opened>>

\* gcDocstoreCas lists the directory under the lock, or fails to.
GcList(m) ==
  /\ saver[m].pc = "gclock"
  /\ TakeLock(m)
  /\ \E listing \in {{}, {c \in Contents : cas[c] # Nil}} :
       saver' = [saver EXCEPT ![m].pc = "gc", ![m].todo = listing]
  /\ UNCHANGED <<names, disabled, saves>>

\* Mutant: the link count is not looked at.
GcStatBlind(m) ==
  /\ saver[m].pc = "gc"
  /\ \E c \in saver[m].todo :
       saver' = [saver EXCEPT ![m] =
                   [pc |-> "remove", hash |-> c, todo |-> saver[m].todo \ {c}]]
  /\ UNCHANGED <<names, casLock, disabled, saves, opened>>

\* lstat of a listed entry; one that nothing links to is removed next.
GcStat(m) ==
  /\ saver[m].pc = "gc"
  /\ \E c \in saver[m].todo :
       saver' = [saver EXCEPT ![m] =
         IF cas[c] # Nil /\ ~Linked(cas[c])
           THEN [pc |-> "remove", hash |-> c, todo |-> saver[m].todo \ {c}]
           ELSE [pc |-> "gc", hash |-> Nil, todo |-> saver[m].todo \ {c}]]
  /\ UNCHANGED <<names, casLock, disabled, saves, opened>>

\* The removal goes by name, and may fail.
GcRemove(m) ==
  /\ saver[m].pc = "remove"
  /\ cas' \in {cas, [cas EXCEPT ![saver[m].hash] = Nil]}
  /\ saver' = [saver EXCEPT ![m].pc = "gc", ![m].hash = Nil]
  /\ UNCHANGED <<dir, active, casLock, disabled, saves, opened>>

GcUnlock(m) ==
  /\ saver[m].pc = "gc"
  /\ saver[m].todo = {}
  /\ ReleaseLock(m)
  /\ saver' = [saver EXCEPT ![m] = Idle]
  /\ UNCHANGED <<names, disabled, saves, opened>>

-----------------------------------------------------------------------------
(* Failures                                                                *)

\* An error of a step outside the lock ends the save; what it staged, or the
\* versions it did not prune, stay.
SaveFails(m) ==
  /\ saver[m].pc \in {"saving", "saved", "seal", "prune"}
  /\ saver' = [saver EXCEPT ![m] = Idle]
  /\ UNCHANGED <<names, casLock, disabled, saves, opened>>

\* The process dies, and another saver of the model may start.
Crash(m) ==
  /\ saver[m].pc # "idle"
  /\ saver' = [saver EXCEPT ![m] = Idle]
  /\ disabled' = disabled \ {m}
  /\ casLock' = IF casLock = m THEN Dead ELSE casLock
  /\ UNCHANGED <<names, saves, opened>>

\* The lock of a process that died is taken over once it is stale.
LockGoesStale ==
  /\ casLock = Dead
  /\ casLock' = Nil
  /\ UNCHANGED <<names, saver, disabled, saves, opened>>
-----------------------------------------------------------------------------
Init ==
  /\ dir = [m \in Models |-> [v \in Version |-> NoDir]]
  /\ active = [m \in Models |-> -1]
  /\ cas = [c \in Contents |-> Nil]
  /\ casLock = Nil
  /\ saver = [m \in Models |-> Idle]
  /\ disabled = {}
  /\ saves = 0
  /\ opened = FALSE

Dedup(m) ==
  \/ SkipDedup(m) \/ Canonicalize(m)
  \/ DedupLock(m) \/ CheckEntry(m) \/ WriteEntry(m)
  \/ LinkEntry(m) \/ LinkRefused(m) \/ DedupFails(m) \/ RenameLink(m) \/ DedupUnlock(m)

Gc(m) == GcList(m) \/ GcStat(m) \/ GcRemove(m) \/ GcUnlock(m)

Next ==
  \/ \E m \in Models :
       \/ Save(m) \/ FinishSave(m) \/ Dedup(m) \/ Swap(m) \/ Prune(m) \/ Gc(m)
       \/ SaveFails(m) \/ Crash(m)
  \/ LockGoesStale

Spec == Init /\ [][Next]_vars
=============================================================================
