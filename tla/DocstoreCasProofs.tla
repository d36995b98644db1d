------------------------- MODULE DocstoreCasProofs --------------------------
(***************************************************************************)
(* Proofs about DocstoreCas, for every number of models, contents, saves   *)
(* and retained versions: types, the invariants of the shared directory,   *)
(* and the refinement of PrivateDocstores.                                 *)
(***************************************************************************)
EXTENDS DocstoreCasProps, TLAPS

\* Where a saver has staged a version that is not active yet.
PreSwap == {"saving", "saved", "lock", "exists", "write", "link", "rename", "unlock", "seal"}

\* Where a saver works on an entry, or on the listing, under the lock.
Locked == {"exists", "write", "link", "rename", "unlock", "gc", "remove"}

\* Every swap has a save of its own, so that version numbers stay in bounds.
Budget ==
  \A m \in Models : /\ active[m] + 1 <= saves
                    /\ saver[m].pc \in PreSwap => active[m] + 2 <= saves

\* A shared file says what its entry stands for, and is not a private one.
EntriesShared == \A c \in Contents : cas[c] # Nil => cas[c].id > 0

\* What a saver has staged: torn while it is written, then whole, and the
\* contents whose hash it works with, under both names.
StagedInv ==
  \A m \in Models :
    /\ saver[m].pc = "saving" => Staged(m).doc = Own(Torn)
    /\ saver[m].pc \in PreSwap \ {"saving"} =>
         Staged(m).doc # Nil /\ Staged(m).doc.says \in Contents
    /\ saver[m].pc \in {"lock", "exists", "write", "link", "rename"} =>
         saver[m].hash = Staged(m).doc.says
    /\ saver[m].pc = "rename" =>
         Staged(m).tmp # Nil /\ Staged(m).tmp.says = saver[m].hash
    /\ saver[m].pc = "remove" => saver[m].hash \in Contents

Inv1 == TypeOK /\ Budget /\ EntriesWhole /\ EntriesShared /\ StagedInv

LEMMA Inv1Init == Init => Inv1
<1> SUFFICES ASSUME Init PROVE Inv1
  OBVIOUS
<1>1. TypeOK
  <2>1. dir \in [Models -> [Version -> Dir]]
    BY DEF Init, Dir, NoDir
  <2>2. saver \in [Models -> SaverState]
    BY DEF Init, SaverState, Idle
  <2>3. active \in [Models -> -1 .. MaxSaves] /\ saves \in 0 .. MaxSaves
    BY CasAssumption DEF Init
  <2> QED BY <2>1, <2>2, <2>3 DEF Init, TypeOK
<1>2. Budget
  BY DEF Init, Budget, PreSwap, Idle
<1>3. EntriesWhole /\ EntriesShared
  BY DEF Init, EntriesWhole, EntriesShared
<1>4. StagedInv
  BY DEF Init, StagedInv, PreSwap, Idle
<1> QED BY <1>1, <1>2, <1>3, <1>4 DEF Inv1

\* A name that a saver stages, and the files behind it, are of their types.
LEMMA StagingInBounds ==
  ASSUME Inv1, NEW m \in Models, saver[m].pc \in PreSwap
  PROVE  /\ Staging(m) \in Version
         /\ Staging(m) <= MaxSaves
         /\ Staged(m) \in Dir
<1>1. active[m] \in -1 .. MaxSaves /\ saves \in 0 .. MaxSaves /\ dir[m] \in [Version -> Dir]
  BY DEF Inv1, TypeOK
<1>2. active[m] + 2 <= saves
  BY DEF Inv1, Budget
<1>3. Staging(m) \in Version /\ Staging(m) <= MaxSaves
  BY <1>1, <1>2, CasAssumption DEF Staging, Version
<1> QED BY <1>1, <1>3 DEF Staged

\* A new file is a shared one that says what it is to say.
LEMMA NewFileIsShared ==
  ASSUME NEW c \in Contents, NewIds(c) # {}
  PROVE  /\ NewFile(c) \in File
         /\ NewFile(c).says = c
         /\ NewFile(c).id > 0
<1>1. (CHOOSE i \in NewIds(c) : TRUE) \in NewIds(c)
  OBVIOUS
<1>2. NewIds(c) \subseteq 1 .. MaxFiles
  BY DEF NewIds
<1> QED BY <1>1, <1>2, CasAssumption DEF NewFile, File

-----------------------------------------------------------------------------
(* Steps that leave the names of all files alone                           *)

Quiet == UNCHANGED <<dir, active, cas, saves>>

LEMMA QuietFrame ==
  ASSUME Quiet
  PROVE  /\ (EntriesWhole => EntriesWhole') /\ (EntriesShared => EntriesShared')
         /\ \A q : Staged(q)' = Staged(q)
<1>1. dir' = dir /\ active' = active /\ cas' = cas
  BY DEF Quiet
<1> QED BY <1>1 DEF EntriesWhole, EntriesShared, Staged, Staging

\* A saver moves to s, which claims no more of what is staged than before.
Moves(m, s) ==
  /\ s \in SaverState
  /\ saver' = [saver EXCEPT ![m] = s]
  /\ s.pc \in PreSwap => saver[m].pc \in PreSwap
  /\ s.pc \in PreSwap => (s.pc = "saving" <=> saver[m].pc = "saving")
  /\ s.pc \in {"lock", "exists", "write", "link", "rename"} => s.hash = Staged(m).doc.says
  /\ s.pc = "rename" => saver[m].pc = "rename"
  /\ s.pc = "remove" => s.hash \in Contents

LEMMA QuietMove ==
  ASSUME Inv1, Quiet, NEW m \in Models, NEW s, Moves(m, s),
         casLock' \in Models \cup {Dead, Nil}, disabled' \subseteq Models, opened' \in BOOLEAN
  PROVE  Inv1'
<1> USE DEF Inv1
<1>1. dir' = dir /\ active' = active /\ cas' = cas /\ saves' = saves
  BY DEF Quiet
<1>2. saver \in [Models -> SaverState] /\ s \in SaverState /\ saver' = [saver EXCEPT ![m] = s]
  BY DEF TypeOK, Moves
<1>3. saver'[m] = s /\ \A q \in Models : q # m => saver'[q] = saver[q]
  BY <1>2
<1>4. TypeOK'
  BY <1>1, <1>2 DEF TypeOK
<1>5. Budget'
  BY <1>1, <1>3 DEF Budget, Moves
<1>6. EntriesWhole' /\ EntriesShared' /\ \A q : Staged(q)' = Staged(q)
  BY QuietFrame
<1>7. StagedInv'
  <2> SUFFICES ASSUME NEW q \in Models
               PROVE  /\ saver'[q].pc = "saving" => Staged(q).doc = Own(Torn)
                      /\ saver'[q].pc \in PreSwap \ {"saving"} =>
                           Staged(q).doc # Nil /\ Staged(q).doc.says \in Contents
                      /\ saver'[q].pc \in {"lock", "exists", "write", "link", "rename"} =>
                           saver'[q].hash = Staged(q).doc.says
                      /\ saver'[q].pc = "rename" =>
                           Staged(q).tmp # Nil /\ Staged(q).tmp.says = saver'[q].hash
                      /\ saver'[q].pc = "remove" => saver'[q].hash \in Contents
    BY <1>6 DEF StagedInv, Own
  <2>1. CASE q # m
    BY <2>1, <1>3 DEF StagedInv
  <2>2. CASE q = m
    BY <2>2, <1>3 DEF StagedInv, Moves, PreSwap
  <2> QED BY <2>1, <2>2
<1> QED BY <1>4, <1>5, <1>6, <1>7

LEMMA LockTypes ==
  ASSUME Inv1, NEW m \in Models
  PROVE  /\ TakeLock(m) => casLock' \in Models \cup {Dead, Nil} /\ opened' \in BOOLEAN
         /\ ReleaseLock(m) => casLock' \in Models \cup {Dead, Nil}
BY DEF Inv1, TypeOK, TakeLock, ReleaseLock

LEMMA QuietSteps ==
  ASSUME Inv1, NEW m \in Models,
         \/ SkipDedup(m) \/ Canonicalize(m) \/ DedupLock(m) \/ CheckEntry(m)
         \/ LinkRefused(m) \/ DedupFails(m) \/ DedupUnlock(m)
         \/ GcList(m) \/ GcStat(m) \/ GcUnlock(m) \/ SaveFails(m) \/ Crash(m)
  PROVE  Inv1'
<1> USE DEF Inv1, Goto, names
<1>1. saver \in [Models -> SaverState] /\ saver[m] \in SaverState
  BY DEF TypeOK
<1>2. casLock \in Models \cup {Dead, Nil} /\ disabled \subseteq Models /\ opened \in BOOLEAN
  BY DEF TypeOK
<1>3. saver[m].pc \in PreSwap => Staged(m) \in Dir
  BY StagingInBounds
<1>4. CASE SkipDedup(m)
  <2>1. Moves(m, [saver[m] EXCEPT !.pc = "seal"])
    BY <1>1, <1>4 DEF SkipDedup, Moves, SaverState, PreSwap
  <2> QED BY <2>1, <1>2, <1>4, QuietMove DEF SkipDedup, Quiet
<1>5. CASE Canonicalize(m)
  <2>1. Moves(m, [saver[m] EXCEPT !.pc = "lock", !.hash = Staged(m).doc.says])
    BY <1>1, <1>5 DEF Canonicalize, Moves, SaverState, PreSwap, StagedInv
  <2> QED BY <2>1, <1>2, <1>5, QuietMove DEF Canonicalize, Quiet
<1>6. CASE DedupLock(m)
  <2>1. Moves(m, [saver[m] EXCEPT !.pc = "exists"])
    BY <1>1, <1>6 DEF DedupLock, Moves, SaverState, PreSwap, StagedInv
  <2> QED BY <2>1, <1>2, <1>6, QuietMove, LockTypes DEF DedupLock, Quiet
<1>7. CASE CheckEntry(m)
  <2> DEFINE pc == IF cas[saver[m].hash] # Nil THEN "link" ELSE "write"
  <2>1. Moves(m, [saver[m] EXCEPT !.pc = pc])
    BY <1>1, <1>7 DEF CheckEntry, Moves, SaverState, PreSwap, StagedInv
  <2> QED BY <2>1, <1>2, <1>7, QuietMove DEF CheckEntry, Quiet
<1>8. CASE LinkRefused(m)
  <2>1. Moves(m, [saver[m] EXCEPT !.pc = "unlock"])
    BY <1>1, <1>8 DEF LinkRefused, Moves, SaverState, PreSwap
  <2> QED BY <2>1, <1>2, <1>8, QuietMove DEF LinkRefused, Quiet
<1>9. CASE DedupFails(m)
  <2>1. Moves(m, [saver[m] EXCEPT !.pc = "unlock"])
    BY <1>1, <1>9 DEF DedupFails, Moves, SaverState, PreSwap
  <2> QED BY <2>1, <1>2, <1>9, QuietMove DEF DedupFails, Quiet
<1>10. CASE DedupUnlock(m)
  <2>1. Moves(m, [Idle EXCEPT !.pc = "seal"])
    BY <1>1, <1>10 DEF DedupUnlock, Moves, SaverState, PreSwap, Idle
  <2> QED BY <2>1, <1>2, <1>10, QuietMove, LockTypes DEF DedupUnlock, Quiet
<1>11. CASE GcList(m)
  <2>1. PICK listing \in {{}, {c \in Contents : cas[c] # Nil}} :
          saver' = [saver EXCEPT ![m].pc = "gc", ![m].todo = listing]
    BY <1>11 DEF GcList
  <2>2. Moves(m, [saver[m] EXCEPT !.pc = "gc", !.todo = listing])
    BY <1>1, <2>1 DEF Moves, SaverState, PreSwap
  <2> QED BY <2>2, <1>2, <1>11, QuietMove, LockTypes DEF GcList, Quiet
<1>12. CASE GcStat(m)
  <2>1. PICK c \in saver[m].todo :
          saver' = [saver EXCEPT ![m] =
            IF cas[c] # Nil /\ ~Linked(cas[c])
              THEN [pc |-> "remove", hash |-> c, todo |-> saver[m].todo \ {c}]
              ELSE [pc |-> "gc", hash |-> Nil, todo |-> saver[m].todo \ {c}]]
    BY <1>12 DEF GcStat
  <2>2. c \in Contents /\ saver[m].todo \ {c} \in SUBSET Contents
    BY <1>1 DEF SaverState
  <2>3. CASE cas[c] # Nil /\ ~Linked(cas[c])
    <3>1. Moves(m, [pc |-> "remove", hash |-> c, todo |-> saver[m].todo \ {c}])
      BY <2>1, <2>2, <2>3 DEF Moves, SaverState, PreSwap
    <3> QED BY <3>1, <1>2, <1>12, QuietMove DEF GcStat, Quiet
  <2>4. CASE ~(cas[c] # Nil /\ ~Linked(cas[c]))
    <3>1. Moves(m, [pc |-> "gc", hash |-> Nil, todo |-> saver[m].todo \ {c}])
      BY <2>1, <2>2, <2>4 DEF Moves, SaverState, PreSwap
    <3> QED BY <3>1, <1>2, <1>12, QuietMove DEF GcStat, Quiet
  <2> QED BY <2>3, <2>4
<1>13. CASE GcUnlock(m)
  <2>1. Moves(m, Idle)
    BY <1>1, <1>13 DEF GcUnlock, Moves, SaverState, PreSwap, Idle
  <2> QED BY <2>1, <1>2, <1>13, QuietMove, LockTypes DEF GcUnlock, Quiet
<1>14. CASE SaveFails(m)
  <2>1. Moves(m, Idle)
    BY <1>1, <1>14 DEF SaveFails, Moves, SaverState, PreSwap, Idle
  <2> QED BY <2>1, <1>2, <1>14, QuietMove DEF SaveFails, Quiet
<1>15. CASE Crash(m)
  <2>1. Moves(m, Idle)
    BY <1>1, <1>15 DEF Crash, Moves, SaverState, PreSwap, Idle
  <2>2. casLock' \in Models \cup {Dead, Nil} /\ disabled' \subseteq Models
    BY <1>2, <1>15 DEF Crash
  <2> QED BY <2>1, <2>2, <1>2, <1>15, QuietMove DEF Crash, Quiet
<1> QED BY <1>4, <1>5, <1>6, <1>7, <1>8, <1>9, <1>10, <1>11, <1>12, <1>13, <1>14, <1>15

-----------------------------------------------------------------------------
(* Steps that change what a saver has staged                               *)

LEMMA SetStagedFrame ==
  ASSUME Inv1, NEW m \in Models, NEW d \in Dir, Staging(m) \in Version, SetStaged(m, d), active' = active
  PROVE  /\ dir' \in [Models -> [Version -> Dir]]
         /\ Staged(m)' = d
         /\ \A q \in Models : q # m => Staged(q)' = Staged(q)
         /\ \A q \in Models, v \in Version :
              dir'[q][v] = IF q = m /\ v = Staging(m) THEN d ELSE dir[q][v]
<1>1. dir \in [Models -> [Version -> Dir]]
  BY DEF Inv1, TypeOK
<1>2. dir' = [dir EXCEPT ![m] = [dir[m] EXCEPT ![Staging(m)] = d]]
  BY <1>1 DEF SetStaged
<1>3. [dir[m] EXCEPT ![Staging(m)] = d] \in [Version -> Dir]
  BY <1>1
<1>4. \A q \in Models : Staging(q)' = Staging(q)
  BY DEF Staging
<1>5. dir'[m] = [dir[m] EXCEPT ![Staging(m)] = d] /\ \A q \in Models : q # m => dir'[q] = dir[q]
  BY <1>1, <1>2
<1>6. dir' \in [Models -> [Version -> Dir]]
  BY <1>1, <1>2, <1>3
<1>7. dir'[m][Staging(m)] = d /\ \A v \in Version : v # Staging(m) => dir'[m][v] = dir[m][v]
  BY <1>1, <1>5
<1> QED BY <1>4, <1>5, <1>6, <1>7 DEF Staged

\* A step by which m stages d and goes on to s.
LEMMA StagingMove ==
  ASSUME Inv1, NEW m \in Models, NEW d \in Dir, NEW s \in SaverState,
         Staging(m) \in Version, SetStaged(m, d),
         active' = active, cas' = cas, casLock' = casLock, disabled' = disabled, opened' = opened,
         saves' \in 0 .. MaxSaves, saves' >= saves,
         s.pc \in PreSwap, active[m] + 2 <= saves',
         saver' = [saver EXCEPT ![m] = s],
         s.pc = "saving" => d.doc = Own(Torn),
         s.pc # "saving" => d.doc # Nil /\ d.doc.says \in Contents,
         s.pc \in {"lock", "exists", "write", "link", "rename"} => s.hash = d.doc.says,
         s.pc = "rename" => d.tmp # Nil /\ d.tmp.says = s.hash
  PROVE  Inv1'
<1> USE DEF Inv1
<1>1. saver \in [Models -> SaverState]
  BY DEF TypeOK
<1>2. saver'[m] = s /\ \A q \in Models : q # m => saver'[q] = saver[q]
  BY <1>1
<1>3. /\ dir' \in [Models -> [Version -> Dir]]
      /\ Staged(m)' = d
      /\ \A q \in Models : q # m => Staged(q)' = Staged(q)
  BY SetStagedFrame
<1>4. TypeOK'
  BY <1>1, <1>3 DEF TypeOK
<1>5. Budget'
  <2> SUFFICES ASSUME NEW q \in Models
               PROVE  active[q] + 1 <= saves' /\ (saver'[q].pc \in PreSwap => active[q] + 2 <= saves')
    BY DEF Budget
  <2>1. active[q] \in Int /\ saves \in Int /\ saves' \in Int
    BY CasAssumption DEF TypeOK
  <2>2. CASE q = m
    BY <2>1, <2>2
  <2>3. CASE q # m
    BY <2>1, <2>3, <1>2 DEF Budget
  <2> QED BY <2>2, <2>3
<1>6. EntriesWhole' /\ EntriesShared'
  BY DEF EntriesWhole, EntriesShared
<1>7. StagedInv'
  <2> SUFFICES ASSUME NEW q \in Models
               PROVE  /\ saver'[q].pc = "saving" => Staged(q)'.doc = Own(Torn)
                      /\ saver'[q].pc \in PreSwap \ {"saving"} =>
                           Staged(q)'.doc # Nil /\ Staged(q)'.doc.says \in Contents
                      /\ saver'[q].pc \in {"lock", "exists", "write", "link", "rename"} =>
                           saver'[q].hash = Staged(q)'.doc.says
                      /\ saver'[q].pc = "rename" =>
                           Staged(q)'.tmp # Nil /\ Staged(q)'.tmp.says = saver'[q].hash
                      /\ saver'[q].pc = "remove" => saver'[q].hash \in Contents
    BY DEF StagedInv, Own
  <2>1. CASE q # m
    BY <2>1, <1>2, <1>3 DEF StagedInv
  <2>2. CASE q = m
    BY <2>2, <1>2, <1>3 DEF PreSwap
  <2> QED BY <2>1, <2>2
<1> QED BY <1>4, <1>5, <1>6, <1>7

LEMMA OwnIsFile == ASSUME NEW c \in Contents \cup {Torn}
                   PROVE  /\ [doc |-> Own(c), tmp |-> Nil] \in Dir
                          /\ Own(c) # Nil /\ Own(c).says = c /\ Own(c).id = 0
<1>1. Own(c) \in File
  BY CasAssumption DEF Own, File
<1>2. [says |-> c, id |-> 0] # Nil
  BY CasAssumption
<1> QED BY <1>1, <1>2 DEF Own, Dir

LEMMA SaveKeeps == ASSUME Inv1, NEW m \in Models, Save(m) PROVE Inv1'
<1> USE DEF Inv1
<1>1. saver[m] \in SaverState /\ active[m] \in Int /\ saves \in Int /\ active[m] + 1 <= saves
  BY CasAssumption DEF TypeOK, Budget
<1>2. Staging(m) \in Version
  BY <1>1, CasAssumption DEF Save, Staging, Version, TypeOK
<1>3. [saver[m] EXCEPT !.pc = "saving"] \in SaverState
  BY <1>1 DEF SaverState
<1>4. saves' \in 0 .. MaxSaves /\ saves' >= saves /\ active[m] + 2 <= saves'
  BY <1>1, CasAssumption DEF Save, TypeOK
<1>5. SetStaged(m, [doc |-> Own(Torn), tmp |-> Nil])
  BY DEF Save
<1>6. [doc |-> Own(Torn), tmp |-> Nil] \in Dir
  BY OwnIsFile
<1> HIDE DEF Inv1
<1> QED BY <1>1, <1>2, <1>3, <1>4, <1>5, <1>6, StagingMove DEF Save, Goto, PreSwap, SaverState

LEMMA FinishSaveKeeps == ASSUME Inv1, NEW m \in Models, FinishSave(m) PROVE Inv1'
<1>1. saver[m] \in SaverState /\ saves \in 0 .. MaxSaves /\ saver[m].pc \in PreSwap
  BY DEF Inv1, TypeOK, FinishSave, PreSwap
<1>2. Staging(m) \in Version /\ active[m] + 2 <= saves
  BY <1>1, StagingInBounds DEF Inv1, Budget
<1>3. [saver[m] EXCEPT !.pc = "saved"] \in SaverState
  BY <1>1 DEF SaverState
<1>4. PICK c \in Contents : SetStaged(m, [doc |-> Own(c), tmp |-> Nil])
  BY DEF FinishSave
<1>5. [doc |-> Own(c), tmp |-> Nil] \in Dir /\ Own(c) # Nil /\ Own(c).says = c
  BY OwnIsFile
<1> DEFINE d == [doc |-> Own(c), tmp |-> Nil]
           s == [saver[m] EXCEPT !.pc = "saved"]
<1>6. s.pc = "saved" /\ saver' = [saver EXCEPT ![m] = s]
  BY <1>1 DEF FinishSave, Goto, SaverState
<1>7. d.doc = Own(c) /\ d \in Dir /\ SetStaged(m, d) /\ s \in SaverState
  BY <1>3, <1>4, <1>5
<1>8. saves' = saves /\ saves' \in 0 .. MaxSaves /\ saves' >= saves /\ active[m] + 2 <= saves'
  BY <1>1, <1>2, CasAssumption DEF FinishSave
<1> HIDE DEF d, s
<1> QED BY <1>2, <1>5, <1>6, <1>7, <1>8, StagingMove DEF FinishSave, PreSwap

LEMMA LinkEntryKeeps == ASSUME Inv1, NEW m \in Models, LinkEntry(m) PROVE Inv1'
<1>1. saver[m] \in SaverState /\ saves \in 0 .. MaxSaves /\ saver[m].pc \in PreSwap
  BY DEF Inv1, TypeOK, LinkEntry, PreSwap
<1>2. Staging(m) \in Version /\ active[m] + 2 <= saves /\ Staged(m) \in Dir
  BY <1>1, StagingInBounds DEF Inv1, Budget
<1>3. [saver[m] EXCEPT !.pc = "rename"] \in SaverState
  BY <1>1 DEF SaverState
<1>4. /\ Staged(m).doc # Nil /\ Staged(m).doc.says \in Contents
      /\ saver[m].hash = Staged(m).doc.says
  BY <1>1 DEF Inv1, StagedInv, LinkEntry, PreSwap
<1>5. cas[saver[m].hash] # Nil /\ cas[saver[m].hash].says = saver[m].hash /\ cas[saver[m].hash] \in File
  BY <1>4 DEF LinkEntry, Inv1, EntriesWhole, TypeOK
<1> DEFINE d == [Staged(m) EXCEPT !.tmp = cas[saver[m].hash]]
<1>6. d \in Dir /\ d.doc = Staged(m).doc /\ d.tmp = cas[saver[m].hash]
  BY <1>2, <1>5 DEF Dir
<1> DEFINE s == [saver[m] EXCEPT !.pc = "rename"]
<1>7. s.pc = "rename" /\ s.hash = saver[m].hash
  BY <1>1 DEF SaverState
<1>8. SetStaged(m, d) /\ saver' = [saver EXCEPT ![m] = s] /\ s \in SaverState
  BY <1>3 DEF LinkEntry, Goto
<1>9. saves' = saves /\ saves' \in 0 .. MaxSaves /\ saves' >= saves /\ active[m] + 2 <= saves'
  BY <1>1, <1>2, CasAssumption DEF LinkEntry
<1> HIDE DEF d, s
<1> QED BY <1>2, <1>4, <1>5, <1>6, <1>7, <1>8, <1>9, StagingMove DEF LinkEntry, PreSwap

LEMMA RenameLinkKeeps == ASSUME Inv1, NEW m \in Models, RenameLink(m) PROVE Inv1'
<1>1. saver[m] \in SaverState /\ saves \in 0 .. MaxSaves /\ saver[m].pc \in PreSwap
  BY DEF Inv1, TypeOK, RenameLink, PreSwap
<1>2. Staging(m) \in Version /\ active[m] + 2 <= saves /\ Staged(m) \in Dir
  BY <1>1, StagingInBounds DEF Inv1, Budget
<1>3. [saver[m] EXCEPT !.pc = "unlock"] \in SaverState
  BY <1>1 DEF SaverState
<1>4. /\ Staged(m).doc.says \in Contents
      /\ Staged(m).tmp # Nil /\ Staged(m).tmp.says = Staged(m).doc.says
  BY <1>1 DEF Inv1, StagedInv, RenameLink, PreSwap
<1> DEFINE d == [doc |-> Staged(m).tmp, tmp |-> Nil]
<1>5. d \in Dir /\ d.doc = Staged(m).tmp
  BY <1>2, <1>4 DEF Dir
<1> DEFINE s == [saver[m] EXCEPT !.pc = "unlock"]
<1>6. SetStaged(m, d) /\ saver' = [saver EXCEPT ![m] = s] /\ s \in SaverState
  BY <1>3 DEF RenameLink, Goto
<1>7. s.pc = "unlock"
  BY <1>1 DEF SaverState
<1>8. saves' = saves /\ saves' \in 0 .. MaxSaves /\ saves' >= saves /\ active[m] + 2 <= saves'
  BY <1>1, <1>2, CasAssumption DEF RenameLink
<1> HIDE DEF d, s
<1> QED BY <1>2, <1>4, <1>5, <1>6, <1>7, <1>8, StagingMove DEF RenameLink, PreSwap

\* A step that changes entries only.
LEMMA EntryMove ==
  ASSUME Inv1, NEW m \in Models, NEW s, Moves(m, s),
         dir' = dir, active' = active, saves' = saves,
         casLock' = casLock, disabled' = disabled, opened' = opened,
         cas' \in [Contents -> File \cup {Nil}], EntriesWhole', EntriesShared'
  PROVE  Inv1'
<1> USE DEF Inv1
<1>1. saver \in [Models -> SaverState] /\ s \in SaverState /\ saver' = [saver EXCEPT ![m] = s]
  BY DEF TypeOK, Moves
<1>2. saver'[m] = s /\ \A q \in Models : q # m => saver'[q] = saver[q]
  BY <1>1
<1>3. TypeOK'
  BY <1>1 DEF TypeOK
<1>4. Budget'
  BY <1>2 DEF Budget, Moves
<1>5. \A q : Staged(q)' = Staged(q)
  BY DEF Staged, Staging
<1>6. StagedInv'
  <2> SUFFICES ASSUME NEW q \in Models
               PROVE  /\ saver'[q].pc = "saving" => Staged(q).doc = Own(Torn)
                      /\ saver'[q].pc \in PreSwap \ {"saving"} =>
                           Staged(q).doc # Nil /\ Staged(q).doc.says \in Contents
                      /\ saver'[q].pc \in {"lock", "exists", "write", "link", "rename"} =>
                           saver'[q].hash = Staged(q).doc.says
                      /\ saver'[q].pc = "rename" =>
                           Staged(q).tmp # Nil /\ Staged(q).tmp.says = saver'[q].hash
                      /\ saver'[q].pc = "remove" => saver'[q].hash \in Contents
    BY <1>5 DEF StagedInv, Own
  <2>1. CASE q # m
    BY <2>1, <1>2 DEF StagedInv
  <2>2. CASE q = m
    BY <2>2, <1>2 DEF StagedInv, Moves, PreSwap
  <2> QED BY <2>1, <2>2
<1> QED BY <1>3, <1>4, <1>6

LEMMA WriteEntryKeeps == ASSUME Inv1, NEW m \in Models, WriteEntry(m) PROVE Inv1'
<1>1. saver[m] \in SaverState /\ saver[m].hash = Staged(m).doc.says /\ saver[m].hash \in Contents
  BY DEF Inv1, TypeOK, WriteEntry, StagedInv, PreSwap
<1>2. NewFile(saver[m].hash) \in File /\ NewFile(saver[m].hash).says = saver[m].hash
      /\ NewFile(saver[m].hash).id > 0
  BY <1>1, NewFileIsShared DEF WriteEntry
<1> DEFINE f == NewFile(saver[m].hash)
           h == saver[m].hash
           s == [saver[m] EXCEPT !.pc = "link"]
<1>3. cas \in [Contents -> File \cup {Nil}] /\ cas' = [cas EXCEPT ![h] = f]
  BY DEF Inv1, TypeOK, WriteEntry
<1>4. Moves(m, s)
  BY <1>1 DEF WriteEntry, Goto, Moves, SaverState, PreSwap
<1>5. f \in File /\ f.says = h /\ f.id > 0 /\ h \in Contents
  BY <1>1, <1>2
<1> HIDE DEF f, h, s
<1>6. cas' \in [Contents -> File \cup {Nil}] /\ \A c \in Contents : cas'[c] = IF c = h THEN f ELSE cas[c]
  BY <1>3, <1>5
<1>7. EntriesWhole' /\ EntriesShared'
  BY <1>5, <1>6 DEF Inv1, EntriesWhole, EntriesShared
<1> QED BY <1>4, <1>6, <1>7, EntryMove DEF WriteEntry

LEMMA GcRemoveKeeps == ASSUME Inv1, NEW m \in Models, GcRemove(m) PROVE Inv1'
<1>1. saver[m] \in SaverState /\ cas \in [Contents -> File \cup {Nil}]
  BY DEF Inv1, TypeOK
<1> DEFINE s == [saver[m] EXCEPT !.pc = "gc", !.hash = Nil]
<1>2. s \in SaverState /\ s.pc = "gc" /\ saver' = [saver EXCEPT ![m] = s]
  <2>1. s \in SaverState /\ s.pc = "gc"
    BY <1>1 DEF SaverState
  <2>2. saver' = [saver EXCEPT ![m] = s]
    BY DEF GcRemove
  <2> QED BY <2>1, <2>2
<1>3. cas' \in [Contents -> File \cup {Nil}] /\ \A c \in Contents : cas'[c] \in {cas[c], Nil}
  BY <1>1 DEF GcRemove
<1>4. EntriesWhole' /\ EntriesShared'
  BY <1>3 DEF Inv1, EntriesWhole, EntriesShared
<1> HIDE DEF s
<1>5. Moves(m, s)
  BY <1>2 DEF Moves, PreSwap
<1> QED BY <1>3, <1>4, <1>5, EntryMove DEF GcRemove

LEMMA SwapKeeps == ASSUME Inv1, NEW m \in Models, Swap(m) PROVE Inv1'
<1> USE DEF Inv1
<1>1. saver \in [Models -> SaverState] /\ saver[m] \in SaverState
      /\ active \in [Models -> -1 .. MaxSaves] /\ saves \in 0 .. MaxSaves
  BY DEF TypeOK
<1>2. active[m] + 2 <= saves /\ saves <= MaxSaves
  BY <1>1, CasAssumption DEF Budget, Swap, PreSwap
<1> DEFINE s == [saver[m] EXCEPT !.pc = "prune"]
<1>3. s \in SaverState /\ s.pc = "prune" /\ saver' = [saver EXCEPT ![m] = s]
  BY <1>1 DEF Swap, Goto, SaverState
<1>4. active[m] \in Int /\ active[m] + 1 \in -1 .. MaxSaves
  BY <1>1, <1>2, CasAssumption
<1>5. active' = [active EXCEPT ![m] = active[m] + 1]
  BY DEF Swap, Staging
<1> HIDE DEF s
<1>6. active' \in [Models -> -1 .. MaxSaves]
  BY <1>1, <1>4, <1>5
<1>7. \A q \in Models : q # m => active'[q] = active[q] /\ saver'[q] = saver[q] /\ Staged(q)' = Staged(q)
  BY <1>1, <1>3, <1>5 DEF Swap, Staged, Staging
<1>8. active'[m] = active[m] + 1 /\ saver'[m] = s
  BY <1>1, <1>3, <1>5
<1>9. TypeOK'
  BY <1>1, <1>3, <1>6 DEF TypeOK, Swap
<1>10. Budget'
  <2> SUFFICES ASSUME NEW q \in Models
               PROVE  active'[q] + 1 <= saves /\ (saver'[q].pc \in PreSwap => active'[q] + 2 <= saves)
    BY DEF Budget, Swap
  <2>1. CASE q = m
    BY <2>1, <1>2, <1>3, <1>4, <1>8, CasAssumption DEF PreSwap
  <2>2. CASE q # m
    BY <2>2, <1>7 DEF Budget
  <2> QED BY <2>1, <2>2
<1>11. EntriesWhole' /\ EntriesShared'
  BY DEF Swap, EntriesWhole, EntriesShared
<1>12. StagedInv'
  <2> SUFFICES ASSUME NEW q \in Models
               PROVE  /\ saver'[q].pc = "saving" => Staged(q)'.doc = Own(Torn)
                      /\ saver'[q].pc \in PreSwap \ {"saving"} =>
                           Staged(q)'.doc # Nil /\ Staged(q)'.doc.says \in Contents
                      /\ saver'[q].pc \in {"lock", "exists", "write", "link", "rename"} =>
                           saver'[q].hash = Staged(q)'.doc.says
                      /\ saver'[q].pc = "rename" =>
                           Staged(q)'.tmp # Nil /\ Staged(q)'.tmp.says = saver'[q].hash
                      /\ saver'[q].pc = "remove" => saver'[q].hash \in Contents
    BY DEF StagedInv, Own
  <2>1. CASE q # m
    BY <2>1, <1>7 DEF StagedInv
  <2>2. CASE q = m
    BY <2>2, <1>3, <1>8 DEF PreSwap
  <2> QED BY <2>1, <2>2
<1> QED BY <1>9, <1>10, <1>11, <1>12

\* Pruning empties versions below the active one, and stages nothing.
LEMMA PruneFrame ==
  ASSUME Inv1, NEW m \in Models, Prune(m)
  PROVE  /\ dir' \in [Models -> [Version -> Dir]]
         /\ \A q \in Models, v \in Version :
              dir'[q][v] = IF q = m /\ v < active[m] - Retention THEN NoDir ELSE dir[q][v]
<1>1. dir \in [Models -> [Version -> Dir]]
  BY DEF Inv1, TypeOK
<1> DEFINE left == [v \in Version |-> IF v < active[m] - Retention THEN NoDir ELSE dir[m][v]]
<1>2. left \in [Version -> Dir]
  BY <1>1 DEF Dir, NoDir
<1>3. dir' = [dir EXCEPT ![m] = left]
  BY DEF Prune
<1>4. \A v \in Version : left[v] = IF v < active[m] - Retention THEN NoDir ELSE dir[m][v]
  OBVIOUS
<1> HIDE DEF left
<1> QED BY <1>1, <1>2, <1>3, <1>4

LEMMA PruneKeeps == ASSUME Inv1, NEW m \in Models, Prune(m) PROVE Inv1'
<1> USE DEF Inv1
<1>1. saver \in [Models -> SaverState] /\ saver[m] \in SaverState
      /\ active \in [Models -> -1 .. MaxSaves] /\ saves \in 0 .. MaxSaves
  BY DEF TypeOK
<1> DEFINE s == [saver[m] EXCEPT !.pc = "gclock"]
<1>2. s \in SaverState /\ s.pc = "gclock" /\ saver' = [saver EXCEPT ![m] = s]
  BY <1>1 DEF Prune, Goto, SaverState
<1> HIDE DEF s
<1>3. saver'[m] = s /\ \A q \in Models : q # m => saver'[q] = saver[q]
  BY <1>1, <1>2
<1>4. TypeOK'
  BY <1>1, <1>2, PruneFrame DEF TypeOK, Prune
<1>5. Budget'
  BY <1>2, <1>3 DEF Budget, Prune, PreSwap
<1>6. EntriesWhole' /\ EntriesShared'
  BY DEF Prune, EntriesWhole, EntriesShared
<1>7. \A q \in Models : q # m => dir'[q] = dir[q] /\ Staged(q)' = Staged(q)
  BY DEF Prune, Staged, Staging, TypeOK
<1>8. StagedInv'
  <2> SUFFICES ASSUME NEW q \in Models
               PROVE  /\ saver'[q].pc = "saving" => Staged(q)'.doc = Own(Torn)
                      /\ saver'[q].pc \in PreSwap \ {"saving"} =>
                           Staged(q)'.doc # Nil /\ Staged(q)'.doc.says \in Contents
                      /\ saver'[q].pc \in {"lock", "exists", "write", "link", "rename"} =>
                           saver'[q].hash = Staged(q)'.doc.says
                      /\ saver'[q].pc = "rename" =>
                           Staged(q)'.tmp # Nil /\ Staged(q)'.tmp.says = saver'[q].hash
                      /\ saver'[q].pc = "remove" => saver'[q].hash \in Contents
    BY DEF StagedInv, Own
  <2>1. CASE q # m
    BY <2>1, <1>3, <1>7 DEF StagedInv
  <2>2. CASE q = m
    BY <2>2, <1>2, <1>3 DEF PreSwap
  <2> QED BY <2>1, <2>2
<1> QED BY <1>4, <1>5, <1>6, <1>8

LEMMA LockGoesStaleKeeps == ASSUME Inv1, LockGoesStale PROVE Inv1'
<1>1. EntriesWhole' /\ EntriesShared' /\ \A q : Staged(q)' = Staged(q)
  BY QuietFrame DEF Inv1, LockGoesStale, Quiet, names
<1>2. TypeOK' /\ Budget'
  BY DEF Inv1, LockGoesStale, names, TypeOK, Budget
<1>3. StagedInv'
  BY <1>1 DEF Inv1, LockGoesStale, StagedInv, Own
<1> QED BY <1>1, <1>2, <1>3 DEF Inv1

LEMMA StutterKeeps == ASSUME Inv1, UNCHANGED vars PROVE Inv1'
<1>1. EntriesWhole' /\ EntriesShared' /\ \A q : Staged(q)' = Staged(q)
  BY QuietFrame DEF Inv1, vars, Quiet
<1>2. TypeOK' /\ Budget'
  BY DEF Inv1, vars, TypeOK, Budget
<1>3. StagedInv'
  BY <1>1 DEF Inv1, vars, StagedInv, Own
<1> QED BY <1>1, <1>2, <1>3 DEF Inv1

LEMMA Inductive1 == Inv1 /\ [Next]_vars => Inv1'
<1> SUFFICES ASSUME Inv1, [Next]_vars PROVE Inv1'
  OBVIOUS
<1>1. CASE \E m \in Models : Save(m) \/ FinishSave(m) \/ Dedup(m) \/ Swap(m) \/ Prune(m) \/ Gc(m)
                              \/ SaveFails(m) \/ Crash(m)
  BY <1>1, SaveKeeps, FinishSaveKeeps, QuietSteps, WriteEntryKeeps, LinkEntryKeeps,
     RenameLinkKeeps, SwapKeeps, PruneKeeps, GcRemoveKeeps DEF Dedup, Gc
<1>2. CASE LockGoesStale
  BY <1>2, LockGoesStaleKeeps
<1>3. CASE UNCHANGED vars
  BY <1>3, StutterKeeps
<1> QED BY <1>1, <1>2, <1>3 DEF Next

LEMMA Inv1Always == Spec => []Inv1
BY Inv1Init, Inductive1, PTL DEF Spec

-----------------------------------------------------------------------------
(* Theorems                                                                *)

\* Every variable keeps its type, and version numbers stay below the bound on
\* saves: each swap has a save of its own.
THEOREM TypeCorrect == Spec => []TypeOK
<1>1. Inv1 => TypeOK
  BY DEF Inv1
<1> QED BY <1>1, Inv1Always, PTL

\* An entry of the shared directory says what its hash stands for, whatever
\* the interleaving of savers and whoever dies: dedupeDocstoreOnSave may link
\* to an entry that pathExists finds without reading it.
THEOREM EntriesAlwaysWhole == Spec => []EntriesWhole
<1>1. Inv1 => EntriesWhole
  BY DEF Inv1
<1> QED BY <1>1, Inv1Always, PTL

-----------------------------------------------------------------------------
(* Each model has a docstore of its own                                    *)

Docs == [m \in Models |-> [v \in Version |-> Docstore(m, v)]]

Says(d) == IF d.doc = Nil THEN Nil ELSE d.doc.says

\* What is staged is what the abstract docstore of the next version says.
LEMMA DocsStaged ==
  ASSUME Inv1, NEW m \in Models, NEW d \in Dir, Staging(m) \in Version, SetStaged(m, d), active' = active
  PROVE  Docs' = [Docs EXCEPT ![m][active[m] + 1] = Says(d)]
<1>1. \A q \in Models, v \in Version :
        dir'[q][v] = IF q = m /\ v = Staging(m) THEN d ELSE dir[q][v]
  BY SetStagedFrame
<1>2. Docs' = [q \in Models |-> [v \in Version |->
                 IF q = m /\ v = Staging(m) THEN Says(d) ELSE Docstore(q, v)]]
  BY <1>1 DEF Docs, Docstore, Says, Version
<1> QED BY <1>2 DEF Docs, Staging

\* Steps that change no version and no link.
LEMMA DocsStutter == ASSUME dir' = dir, active' = active
                     PROVE  UNCHANGED <<Docs, active>>
BY DEF Docs, Docstore, Version

LEMMA PrivateInit == Init => Private!Init
BY DEF Init, Private!Init, Docstore, NoDir

LEMMA PrivateStage == ASSUME Inv1, NEW m \in Models, Save(m) PROVE Private!Stage(m)
<1>1. Staging(m) \in Version
  BY CasAssumption DEF Inv1, TypeOK, Budget, Save, Staging, Version
<1>2. [doc |-> Own(Torn), tmp |-> Nil] \in Dir /\ Own(Torn) # Nil /\ Own(Torn).says = Torn
  BY OwnIsFile
<1>3. SetStaged(m, [doc |-> Own(Torn), tmp |-> Nil]) /\ active' = active
  BY DEF Save
<1>4. Docs' = [Docs EXCEPT ![m][active[m] + 1] = Torn]
  BY <1>1, <1>2, <1>3, DocsStaged DEF Says
<1> QED BY <1>1, <1>3, <1>4 DEF Private!Stage, Docs, Staging

LEMMA PrivateFill == ASSUME Inv1, NEW m \in Models, FinishSave(m) PROVE Private!Fill(m)
<1>1. saver[m].pc = "saving" /\ Staging(m) \in Version
  BY StagingInBounds DEF FinishSave, PreSwap
<1>2. PICK c \in Contents : SetStaged(m, [doc |-> Own(c), tmp |-> Nil])
  BY DEF FinishSave
<1>3. active' = active
  BY DEF FinishSave
<1>4. [doc |-> Own(c), tmp |-> Nil] \in Dir /\ Own(c) # Nil /\ Own(c).says = c
  BY OwnIsFile
<1>5. Docs' = [Docs EXCEPT ![m][active[m] + 1] = c]
  BY <1>1, <1>2, <1>3, <1>4, DocsStaged DEF Says
<1>6. Docs[m][active[m] + 1] = Torn
  <2>1. Staged(m).doc = Own(Torn) /\ Own(Torn) # Nil /\ Own(Torn).says = Torn
    BY <1>1, OwnIsFile DEF Inv1, StagedInv
  <2> QED BY <1>1, <2>1 DEF Docs, Docstore, Staged, Staging
<1> QED BY <1>1, <1>3, <1>5, <1>6 DEF Private!Fill, Docs, Staging

LEMMA PrivateActivate == ASSUME Inv1, NEW m \in Models, Swap(m) PROVE Private!Activate(m)
<1>1. Staging(m) \in Version /\ Staged(m).doc # Nil /\ Staged(m).doc.says \in Contents
  BY StagingInBounds DEF Swap, PreSwap, Inv1, StagedInv
<1>2. Docs[m][active[m] + 1] \in Contents
  BY <1>1 DEF Docs, Docstore, Staged, Staging
<1>3. Docs' = Docs
  BY DEF Swap, Docs, Docstore, Version
<1> QED BY <1>1, <1>2, <1>3 DEF Private!Activate, Docs, Staging, Swap

\* Below the first version there is nothing to prune.
LEMMA PrivatePrune ==
  ASSUME Inv1, NEW m \in Models, Prune(m)
  PROVE  Private!Prune(m) \/ UNCHANGED <<Docs, active>>
<1>1. \A q \in Models, v \in Version :
        dir'[q][v] = IF q = m /\ v < active[m] - Retention THEN NoDir ELSE dir[q][v]
  BY PruneFrame
<1>2. active[m] \in -1 .. MaxSaves /\ active' = active
  BY DEF Inv1, TypeOK, Prune
<1>3. Docs' = [q \in Models |-> [v \in Version |->
                 IF q = m /\ v < active[m] - Retention THEN Nil ELSE Docstore(q, v)]]
  BY <1>1 DEF Docs, Docstore, Version, NoDir
<1>4. CASE active[m] - Retention >= 0
  <2>1. active[m] - Retention \in Version /\ active[m] - Retention <= active[m]
    BY <1>2, <1>4, CasAssumption DEF Version
  <2>2. Docs' = [Docs EXCEPT ![m] = [v \in Version |->
                   IF v < active[m] - Retention THEN Nil ELSE Docs[m][v]]]
    BY <1>3 DEF Docs
  <2>3. Private!Prune(m)
    BY <1>2, <2>1, <2>2 DEF Private!Prune, Docs
  <2> QED BY <2>3
<1>5. CASE active[m] - Retention < 0
  <2>1. \A v \in Version : ~(v < active[m] - Retention)
    BY <1>2, <1>5, CasAssumption DEF Version
  <2> QED BY <1>2, <1>3, <2>1 DEF Docs
<1> QED BY <1>2, <1>4, <1>5, CasAssumption

\* A link beside the docstore changes no name that a reader opens, and what
\* is renamed over the docstore says the same.
LEMMA LinkStutters ==
  ASSUME Inv1, NEW m \in Models, LinkEntry(m) \/ RenameLink(m)
  PROVE  UNCHANGED <<Docs, active>>
<1>1. saver[m].pc \in {"link", "rename"} /\ Staging(m) \in Version /\ Staged(m) \in Dir /\ active' = active
  BY StagingInBounds DEF LinkEntry, RenameLink, PreSwap
<1>2. Docs[m] \in [Version -> {Docs[m][v] : v \in Version}] /\ Docs[m][active[m] + 1] = Says(Staged(m))
  BY <1>1 DEF Docs, Docstore, Says, Staged, Staging
<1>3. PICK d \in Dir : SetStaged(m, d) /\ Says(d) = Says(Staged(m))
  <2>1. CASE LinkEntry(m)
    <3>1. saver[m].hash = Staged(m).doc.says /\ Staged(m).doc.says \in Contents
      BY <2>1 DEF Inv1, StagedInv, LinkEntry, PreSwap
    <3>2. cas[saver[m].hash] \in File \cup {Nil}
      BY <3>1 DEF Inv1, TypeOK
    <3>3. [Staged(m) EXCEPT !.tmp = cas[saver[m].hash]] \in Dir
      BY <1>1, <3>2 DEF Dir
    <3>4. Says([Staged(m) EXCEPT !.tmp = cas[saver[m].hash]]) = Says(Staged(m))
      BY <1>1 DEF Says, Dir
    <3> QED BY <2>1, <3>3, <3>4 DEF LinkEntry
  <2>2. CASE RenameLink(m)
    <3>1. /\ Staged(m).doc # Nil /\ saver[m].hash = Staged(m).doc.says
          /\ Staged(m).tmp # Nil /\ Staged(m).tmp.says = saver[m].hash
      BY <2>2 DEF Inv1, StagedInv, RenameLink, PreSwap
    <3>2. [doc |-> Staged(m).tmp, tmp |-> Nil] \in Dir
      BY <1>1 DEF Dir
    <3>3. Says([doc |-> Staged(m).tmp, tmp |-> Nil]) = Says(Staged(m))
      BY <3>1 DEF Says
    <3> QED BY <2>2, <3>2, <3>3 DEF RenameLink
  <2> QED BY <2>1, <2>2
<1>4. Docs' = [Docs EXCEPT ![m][active[m] + 1] = Docs[m][active[m] + 1]]
  BY <1>1, <1>2, <1>3, DocsStaged
<1>5. Docs' = Docs
  BY <1>4 DEF Docs
<1> QED BY <1>1, <1>5

LEMMA PrivateStep == Inv1 /\ [Next]_vars => [Private!Next]_<<Docs, active>>
<1> SUFFICES ASSUME Inv1, [Next]_vars
             PROVE  Private!Next \/ UNCHANGED <<Docs, active>>
  OBVIOUS
<1>1. ASSUME NEW m \in Models,
             \/ SkipDedup(m) \/ Canonicalize(m) \/ DedupLock(m) \/ CheckEntry(m) \/ WriteEntry(m)
             \/ LinkRefused(m) \/ DedupFails(m) \/ DedupUnlock(m)
             \/ Gc(m) \/ SaveFails(m) \/ Crash(m)
      PROVE  UNCHANGED <<Docs, active>>
  BY <1>1, DocsStutter
     DEF SkipDedup, Canonicalize, DedupLock, CheckEntry, WriteEntry, LinkRefused, DedupFails,
         DedupUnlock, Gc, GcList, GcStat, GcRemove, GcUnlock, SaveFails, Crash, names
<1>2. CASE LockGoesStale \/ UNCHANGED vars
  BY <1>2, DocsStutter DEF LockGoesStale, vars, names
<1>3. ASSUME NEW m \in Models, Save(m) \/ FinishSave(m) \/ Swap(m) \/ Prune(m) \/ LinkEntry(m) \/ RenameLink(m)
      PROVE  Private!Next \/ UNCHANGED <<Docs, active>>
  BY <1>3, PrivateStage, PrivateFill, PrivateActivate, PrivatePrune, LinkStutters DEF Private!Next
<1> QED BY <1>1, <1>2, <1>3 DEF Next, Dedup

\* The shared directory is invisible to the models: whatever savers of other
\* models, the collection of entries and deaths do, in any order, the docstore
\* of a version says what its own save wrote until an inactive version is
\* pruned, and only whole versions become active (docstore-cas.ts and
\* saveFaissStoreAtomic).
THEOREM SharedDocstoresArePrivate == Spec => ImplementsPrivate
<1>1. Inv1 /\ [Next]_vars => [Private!Next]_(Private!vars)
  BY PrivateStep DEF Private!vars, Docs
<1> QED BY PrivateInit, <1>1, Inv1Always, PTL DEF Spec, ImplementsPrivate, Private!Spec

-----------------------------------------------------------------------------
(* While no lock has failed open                                           *)

\* Who works under the lock holds it, so that the entry is as it was found.
UnderLock(m) ==
  /\ saver[m].pc \in Locked => casLock = m
  /\ saver[m].pc = "link" => cas[saver[m].hash] # Nil
  /\ saver[m].pc = "write" => cas[saver[m].hash] = Nil
  /\ saver[m].pc = "remove" => cas[saver[m].hash] = Nil \/ ~Linked(cas[saver[m].hash])

LockInv == \A m \in Models : UnderLock(m)

\* A shared file that has a name beside its entry has its entry.
LinkedAreEntries ==
  \A f \in File : f.id > 0 /\ Linked(f) => f.says \in Contents /\ cas[f.says] = f

Inv2 == ~opened => LockInv /\ LinkedAreEntries

LEMMA FileIsNotNil == Nil \notin File
BY CasAssumption DEF File

\* Shared files get no new name.
NoNewLinks == \A f \in File : f.id > 0 /\ Linked(f)' => Linked(f)

LEMMA SameDirLinks == ASSUME dir' = dir
                      PROVE  \A f : Linked(f)' = Linked(f)
BY DEF Linked

\* A step of m keeps what others found, when it leaves their lock alone, and
\* entries and links too while another holds it.
LEMMA OthersKeepLock ==
  ASSUME Inv1, LockInv, NEW m \in Models, NEW s, saver' = [saver EXCEPT ![m] = s],
         \A q \in Models : q # m /\ casLock = q => casLock' = q /\ cas' = cas /\ NoNewLinks
  PROVE  \A q \in Models : q # m => UnderLock(q)'
<1> SUFFICES ASSUME NEW q \in Models, q # m
             PROVE  UnderLock(q)'
  OBVIOUS
<1>1. saver'[q] = saver[q]
  BY DEF Inv1, TypeOK
<1>2. UnderLock(q)
  BY DEF LockInv
<1>3. CASE saver[q].pc \notin Locked
  BY <1>1, <1>3 DEF UnderLock, Locked
<1>4. CASE saver[q].pc \in Locked
  <2>1. casLock' = q /\ cas' = cas /\ NoNewLinks
    BY <1>2, <1>4 DEF UnderLock
  <2>2. ASSUME saver[q].pc = "remove"
        PROVE  cas[saver[q].hash] = Nil \/ ~Linked(cas[saver[q].hash])'
    <3>1. saver[q].hash \in Contents
      BY <2>2 DEF Inv1, StagedInv
    <3>2. cas[saver[q].hash] # Nil => cas[saver[q].hash] \in File /\ cas[saver[q].hash].id > 0
      BY <3>1 DEF Inv1, TypeOK, EntriesShared
    <3>3. cas[saver[q].hash] # Nil => (Linked(cas[saver[q].hash])' => Linked(cas[saver[q].hash]))
      BY <2>1, <3>2 DEF NoNewLinks, Linked
    <3> QED BY <1>2, <2>2, <3>3 DEF UnderLock
  <2> QED BY <1>1, <1>2, <2>1, <2>2 DEF UnderLock, Linked
<1> QED BY <1>3, <1>4

\* Steps that change no name of a file.
LEMMA LockQuiet ==
  ASSUME Inv1, LockInv, LinkedAreEntries, NEW m \in Models, ~opened',
         \/ SkipDedup(m) \/ Canonicalize(m) \/ DedupLock(m) \/ CheckEntry(m)
         \/ LinkRefused(m) \/ DedupFails(m) \/ DedupUnlock(m)
         \/ Swap(m) \/ GcList(m) \/ GcStat(m) \/ GcUnlock(m) \/ SaveFails(m) \/ Crash(m)
  PROVE  LockInv' /\ LinkedAreEntries'
<1>1. dir' = dir /\ cas' = cas
  BY DEF SkipDedup, Canonicalize, DedupLock, CheckEntry, LinkRefused, DedupFails, DedupUnlock,
         Swap, GcList, GcStat, GcUnlock, SaveFails, Crash, names
<1>2. \A f : Linked(f)' = Linked(f)
  BY <1>1, SameDirLinks
<1>3. LinkedAreEntries'
  BY <1>1, <1>2 DEF LinkedAreEntries
<1>4. saver \in [Models -> SaverState] /\ saver[m] \in SaverState
  BY DEF Inv1, TypeOK
<1>5. PICK s : saver' = [saver EXCEPT ![m] = s]
  BY DEF SkipDedup, Canonicalize, DedupLock, CheckEntry, LinkRefused, DedupFails, DedupUnlock,
         Swap, GcList, GcStat, GcUnlock, SaveFails, Crash, Goto
<1>6. \A q \in Models : q # m /\ casLock = q => casLock' = q
  BY CasAssumption
     DEF SkipDedup, Canonicalize, DedupLock, CheckEntry, LinkRefused, DedupFails, DedupUnlock,
         Swap, GcList, GcStat, GcUnlock, SaveFails, Crash, TakeLock, ReleaseLock
<1>7. NoNewLinks
  BY <1>2 DEF NoNewLinks
<1>8. \A q \in Models : q # m => UnderLock(q)'
  BY <1>1, <1>5, <1>6, <1>7, OthersKeepLock
<1>9. UnderLock(m)
  BY DEF LockInv
<1>10. UnderLock(m)'
  <2>1. CASE SkipDedup(m) \/ Canonicalize(m) \/ DedupUnlock(m) \/ Swap(m) \/ GcUnlock(m)
             \/ SaveFails(m) \/ Crash(m)
    <3>1. saver'[m].pc \notin Locked
      BY <1>4, <2>1 DEF SkipDedup, Canonicalize, DedupUnlock, Swap, GcUnlock, SaveFails, Crash,
                        Goto, Locked, Idle, SaverState
    <3> QED BY <3>1 DEF UnderLock, Locked
  <2>2. CASE DedupLock(m) \/ GcList(m)
    <3>1. saver'[m].pc \in {"exists", "gc"}
      BY <1>4, <2>2 DEF DedupLock, GcList, Goto, SaverState
    <3>2. casLock' = m
      BY <2>2 DEF DedupLock, GcList, TakeLock
    <3> QED BY <3>1, <3>2 DEF UnderLock
  <2>3. CASE CheckEntry(m)
    <3>1. casLock' = m
      BY <1>9, <2>3 DEF CheckEntry, UnderLock, Locked
    <3>2. saver'[m] = [saver[m] EXCEPT !.pc = IF cas[saver[m].hash] # Nil THEN "link" ELSE "write"]
      BY <1>4, <2>3 DEF CheckEntry, Goto
    <3>3. saver'[m].hash = saver[m].hash
          /\ saver'[m].pc = IF cas[saver[m].hash] # Nil THEN "link" ELSE "write"
      BY <1>4, <3>2 DEF SaverState
    <3> QED BY <1>1, <3>1, <3>3 DEF UnderLock
  <2>4. CASE LinkRefused(m) \/ DedupFails(m)
    <3>1. casLock' = m
      BY <1>9, <2>4 DEF LinkRefused, DedupFails, UnderLock, Locked
    <3>2. saver'[m].pc = "unlock"
      BY <1>4, <2>4 DEF LinkRefused, DedupFails, Goto, SaverState
    <3> QED BY <3>1, <3>2 DEF UnderLock
  <2>5. CASE GcStat(m)
    <3>1. casLock' = m
      BY <1>9, <2>5 DEF GcStat, UnderLock, Locked
    <3>2. PICK c : saver'[m] = IF cas[c] # Nil /\ ~Linked(cas[c])
                     THEN [pc |-> "remove", hash |-> c, todo |-> saver[m].todo \ {c}]
                     ELSE [pc |-> "gc", hash |-> Nil, todo |-> saver[m].todo \ {c}]
      BY <1>4, <2>5 DEF GcStat
    <3>3. saver'[m].pc \in {"remove", "gc"}
          /\ (saver'[m].pc = "remove" => ~Linked(cas[saver'[m].hash]))
      BY <3>2
    <3>4. saver'[m].pc = "remove" => ~Linked(cas[saver[m].hash])'
      BY <1>1, <3>3 DEF Linked
    <3> QED BY <3>1, <3>3, <3>4 DEF UnderLock
  <2> QED BY <2>1, <2>2, <2>3, <2>4, <2>5
<1> QED BY <1>3, <1>8, <1>10 DEF LockInv

\* Steps outside the lock that stage a private docstore or drop versions.
LEMMA LockPrivate ==
  ASSUME Inv1, LockInv, LinkedAreEntries, NEW m \in Models,
         Save(m) \/ FinishSave(m) \/ Prune(m)
  PROVE  LockInv' /\ LinkedAreEntries'
<1>1. cas' = cas /\ casLock' = casLock
  BY DEF Save, FinishSave, Prune
<1>2. saver \in [Models -> SaverState] /\ saver[m] \in SaverState
  BY DEF Inv1, TypeOK
<1>3. NoNewLinks
  <2>1. CASE Prune(m)
    <3>1. \A q \in Models, v \in Version : dir'[q][v] \in {dir[q][v], NoDir}
      BY <2>1, PruneFrame
    <3> QED BY <3>1, FileIsNotNil DEF NoNewLinks, Linked, NoDir
  <2>2. CASE Save(m) \/ FinishSave(m)
    <3>1. Staging(m) \in Version
      <4>1. CASE Save(m)
        BY <4>1, CasAssumption DEF Inv1, TypeOK, Budget, Save, Staging, Version
      <4>2. CASE FinishSave(m)
        BY <4>2, StagingInBounds DEF FinishSave, PreSwap
      <4> QED BY <2>2, <4>1, <4>2
    <3>2. PICK c \in Contents \cup {Torn} : SetStaged(m, [doc |-> Own(c), tmp |-> Nil])
      BY <2>2 DEF Save, FinishSave
    <3>3. [doc |-> Own(c), tmp |-> Nil] \in Dir /\ Own(c).id = 0
      BY OwnIsFile
    <3>4. active' = active
      BY <2>2 DEF Save, FinishSave
    <3>5. \A q \in Models, v \in Version : dir'[q][v] \in {dir[q][v], [doc |-> Own(c), tmp |-> Nil]}
      BY <3>1, <3>2, <3>3, <3>4, SetStagedFrame
    <3>6. \A f \in File : f.id > 0 => f # Own(c) /\ f # Nil
      BY <3>3, FileIsNotNil
    <3> QED BY <3>5, <3>6 DEF NoNewLinks, Linked
  <2> QED BY <2>1, <2>2
<1>4. LinkedAreEntries'
  BY <1>1, <1>3 DEF LinkedAreEntries, NoNewLinks
<1>5. PICK s : saver' = [saver EXCEPT ![m] = s] /\ s.pc \in {"saving", "saved", "gclock"}
  BY <1>2 DEF Save, FinishSave, Prune, Goto, SaverState
<1>6. \A q \in Models : q # m => UnderLock(q)'
  BY <1>1, <1>3, <1>5, OthersKeepLock
<1>7. saver'[m].pc \notin Locked
  BY <1>2, <1>5 DEF Locked
<1>8. UnderLock(m)'
  BY <1>7 DEF UnderLock, Locked
<1> QED BY <1>4, <1>6, <1>8 DEF LockInv

\* Steps under the lock: nobody else holds it.
LEMMA AloneUnderLock ==
  ASSUME Inv1, LockInv, NEW m \in Models, saver[m].pc \in Locked, NEW s,
         saver' = [saver EXCEPT ![m] = s], casLock' = casLock
  PROVE  casLock = m /\ \A q \in Models : q # m => UnderLock(q)'
<1>1. casLock = m
  BY DEF LockInv, UnderLock
<1>2. \A q \in Models : q # m /\ casLock = q => casLock' = q /\ cas' = cas /\ NoNewLinks
  BY <1>1
<1> QED BY <1>1, <1>2, OthersKeepLock

LEMMA LockWriteEntry ==
  ASSUME Inv1, LockInv, LinkedAreEntries, NEW m \in Models, WriteEntry(m)
  PROVE  LockInv' /\ LinkedAreEntries'
<1> DEFINE h == saver[m].hash
           f == NewFile(saver[m].hash)
<1>1. saver \in [Models -> SaverState] /\ saver[m] \in SaverState /\ h \in Contents
  BY DEF Inv1, TypeOK, WriteEntry, StagedInv, PreSwap
<1>2. saver' = [saver EXCEPT ![m] = [saver[m] EXCEPT !.pc = "link"]] /\ casLock' = casLock
  BY <1>1 DEF WriteEntry, Goto
<1>3. casLock = m /\ \A q \in Models : q # m => UnderLock(q)'
  BY <1>2, AloneUnderLock DEF WriteEntry, Locked
<1>4. saver'[m].pc = "link" /\ saver'[m].hash = h
  BY <1>1, <1>2 DEF SaverState
<1>5. cas[h] = Nil
  BY DEF LockInv, UnderLock, WriteEntry
<1>6. f \in File
  BY <1>1, NewFileIsShared DEF WriteEntry
<1>7. \A c \in Contents : cas'[c] = IF c = h THEN f ELSE cas[c]
  BY DEF WriteEntry, Inv1, TypeOK
<1> HIDE DEF h, f
<1>8. UnderLock(m)'
  BY <1>1, <1>2, <1>3, <1>4, <1>6, <1>7, FileIsNotNil DEF UnderLock
<1>9. \A g : Linked(g)' = Linked(g)
  BY SameDirLinks DEF WriteEntry
<1>10. LinkedAreEntries'
  BY <1>5, <1>7, <1>9, FileIsNotNil DEF LinkedAreEntries
<1> QED BY <1>3, <1>8, <1>10 DEF LockInv

LEMMA LockGcRemove ==
  ASSUME Inv1, LockInv, LinkedAreEntries, NEW m \in Models, GcRemove(m)
  PROVE  LockInv' /\ LinkedAreEntries'
<1> DEFINE h == saver[m].hash
<1>1. saver \in [Models -> SaverState] /\ saver[m] \in SaverState /\ h \in Contents
  BY DEF Inv1, TypeOK, GcRemove, StagedInv
<1>2. saver' = [saver EXCEPT ![m] = [saver[m] EXCEPT !.pc = "gc", !.hash = Nil]] /\ casLock' = casLock
  BY <1>1 DEF GcRemove
<1>3. casLock = m /\ \A q \in Models : q # m => UnderLock(q)'
  BY <1>2, AloneUnderLock DEF GcRemove, Locked
<1>4. saver'[m].pc = "gc"
  BY <1>1, <1>2 DEF SaverState
<1>5. cas[h] = Nil \/ ~Linked(cas[h])
  BY DEF LockInv, UnderLock, GcRemove
<1>6. \A c \in Contents : cas'[c] = cas[c] \/ (c = h /\ cas'[c] = Nil)
  BY DEF GcRemove, Inv1, TypeOK
<1> HIDE DEF h
<1>7. UnderLock(m)'
  BY <1>2, <1>3, <1>4 DEF UnderLock
<1>8. \A g : Linked(g)' = Linked(g)
  BY SameDirLinks DEF GcRemove
<1>9. LinkedAreEntries'
  BY <1>5, <1>6, <1>8, FileIsNotNil DEF LinkedAreEntries
<1> QED BY <1>3, <1>7, <1>9 DEF LockInv

\* A link is to the entry, and a rename moves a link.
LEMMA LockLink ==
  ASSUME Inv1, LockInv, LinkedAreEntries, NEW m \in Models, LinkEntry(m) \/ RenameLink(m)
  PROVE  LockInv' /\ LinkedAreEntries'
<1>1. saver \in [Models -> SaverState] /\ saver[m] \in SaverState /\ saver[m].pc \in {"link", "rename"}
      /\ Staging(m) \in Version /\ Staged(m) \in Dir /\ active' = active /\ cas' = cas /\ casLock' = casLock
  BY StagingInBounds DEF Inv1, TypeOK, LinkEntry, RenameLink, PreSwap
<1>2. PICK s : saver' = [saver EXCEPT ![m] = s] /\ s.pc \in {"rename", "unlock"}
  BY <1>1 DEF LinkEntry, RenameLink, Goto, SaverState
<1>3. casLock = m /\ \A q \in Models : q # m => UnderLock(q)'
  BY <1>1, <1>2, AloneUnderLock DEF Locked
<1>4. UnderLock(m)'
  BY <1>1, <1>2, <1>3 DEF UnderLock
<1>5. PICK d \in Dir : /\ SetStaged(m, d)
                       /\ \A f \in {d.doc, d.tmp} :
                            f \in {Nil, Staged(m).doc, Staged(m).tmp}
                              \/ (saver[m].hash \in Contents /\ f = cas[saver[m].hash])
  <2>1. saver[m].hash \in Contents
    BY <1>1 DEF Inv1, StagedInv, PreSwap
  <2>2. cas[saver[m].hash] \in File \cup {Nil}
    BY <2>1 DEF Inv1, TypeOK
  <2>3. CASE LinkEntry(m)
    <3> DEFINE d == [Staged(m) EXCEPT !.tmp = cas[saver[m].hash]]
    <3>1. d \in Dir /\ d.doc = Staged(m).doc /\ d.tmp = cas[saver[m].hash]
      BY <1>1, <2>2 DEF Dir
    <3>2. SetStaged(m, d)
      BY <2>3 DEF LinkEntry
    <3> HIDE DEF d
    <3> QED BY <2>1, <3>1, <3>2
  <2>4. CASE RenameLink(m)
    <3> DEFINE d == [doc |-> Staged(m).tmp, tmp |-> Nil]
    <3>1. d \in Dir /\ d.doc = Staged(m).tmp /\ d.tmp = Nil
      BY <1>1 DEF Dir
    <3>2. SetStaged(m, d)
      BY <2>4 DEF RenameLink
    <3> HIDE DEF d
    <3> QED BY <3>1, <3>2
  <2> QED BY <2>3, <2>4
<1>6. \A q \in Models, v \in Version : dir'[q][v] = dir[q][v] \/ dir'[q][v] = d
  BY <1>1, <1>5, SetStagedFrame
<1>7. \A f \in File : Linked(f)' => Linked(f) \/ (saver[m].hash \in Contents /\ f = cas[saver[m].hash])
  <2> SUFFICES ASSUME NEW f \in File, Linked(f)'
               PROVE  Linked(f) \/ (saver[m].hash \in Contents /\ f = cas[saver[m].hash])
    OBVIOUS
  <2>1. PICK q \in Models, v \in Version : dir'[q][v].doc = f \/ dir'[q][v].tmp = f
    BY DEF Linked
  <2>2. CASE dir'[q][v] = dir[q][v]
    BY <2>1, <2>2 DEF Linked
  <2>3. CASE dir'[q][v] = d
    <3>1. f \in {Staged(m).doc, Staged(m).tmp} \/ (saver[m].hash \in Contents /\ f = cas[saver[m].hash])
      BY <1>5, <2>1, <2>3, FileIsNotNil
    <3> QED BY <1>1, <3>1 DEF Linked, Staged
  <2> QED BY <1>6, <2>2, <2>3
<1>8. LinkedAreEntries'
  BY <1>1, <1>7, FileIsNotNil DEF LinkedAreEntries, Inv1, EntriesWhole
<1> QED BY <1>3, <1>4, <1>8 DEF LockInv

LEMMA Inv2Init == Init => Inv2
BY FileIsNotNil DEF Init, Inv2, LockInv, UnderLock, Locked, Idle, LinkedAreEntries, Linked, NoDir

LEMMA Inductive2 == Inv1 /\ Inv2 /\ [Next]_vars => Inv2'
<1> SUFFICES ASSUME Inv1, Inv2, [Next]_vars, ~opened'
             PROVE  LockInv' /\ LinkedAreEntries'
  BY DEF Inv2
<1>1. ~opened
  BY DEF Inv1, TypeOK, Next, vars, Save, FinishSave, Dedup, Swap, Prune, Gc, SaveFails, Crash, LockGoesStale,
         SkipDedup, Canonicalize, DedupLock, CheckEntry, WriteEntry, LinkEntry, LinkRefused,
         DedupFails, RenameLink, DedupUnlock, GcList, GcStat, GcRemove, GcUnlock, TakeLock
<1>2. LockInv /\ LinkedAreEntries
  BY <1>1 DEF Inv2
<1>3. CASE \E m \in Models : Save(m) \/ FinishSave(m) \/ Dedup(m) \/ Swap(m) \/ Prune(m) \/ Gc(m)
                              \/ SaveFails(m) \/ Crash(m)
  BY <1>2, <1>3, LockQuiet, LockPrivate, LockWriteEntry, LockGcRemove, LockLink DEF Dedup, Gc
<1>4. CASE LockGoesStale
  <2>1. dir' = dir /\ cas' = cas /\ saver' = saver /\ casLock = Dead
    BY <1>4 DEF LockGoesStale, names
  <2>2. \A f : Linked(f)' = Linked(f)
    BY <2>1, SameDirLinks
  <2>3. \A m \in Models : saver[m].pc \notin Locked
    BY <1>2, <2>1, CasAssumption DEF LockInv, UnderLock
  <2> QED BY <1>2, <2>1, <2>2, <2>3 DEF LockInv, UnderLock, Locked, LinkedAreEntries
<1>5. CASE UNCHANGED vars
  BY <1>2, <1>5 DEF vars, LockInv, UnderLock, LinkedAreEntries, Linked
<1> QED BY <1>3, <1>4, <1>5 DEF Next

LEMMA Inv2Always == Spec => []Inv2
BY Inv1Always, Inv2Init, Inductive2, PTL DEF Spec

\* As long as no lock has failed open, an entry that a saver has found or
\* written under the lock is there when it links to it: no collection of
\* another model removes it in between (withCasLock around
\* dedupeDocstoreOnSave and gcDocstoreCas).
THEOREM NoLinkToRemovedEntry == Spec => []EntryAwaitsLink
<1>1. Inv2 => EntryAwaitsLink
  BY DEF Inv2, LockInv, UnderLock, EntryAwaitsLink
<1> QED BY <1>1, Inv2Always, PTL

\* As long as no lock has failed open, every version with the same shared
\* contents shares one file, the entry that a later save will find: the link
\* count that gcDocstoreCas reads is never stale when it removes.
THEOREM SharedOnce == Spec => []SharedIsEntry
<1>1. Inv1 /\ Inv2 => SharedIsEntry
  <2> SUFFICES ASSUME Inv1, Inv2, ~opened, NEW m \in Models, NEW v \in Version,
                      dir[m][v].doc # Nil, dir[m][v].doc.id > 0
               PROVE  cas[dir[m][v].doc.says] = dir[m][v].doc
    BY DEF SharedIsEntry
  <2>1. dir[m][v] \in Dir
    BY DEF Inv1, TypeOK
  <2>2. dir[m][v].doc \in File /\ Linked(dir[m][v].doc)
    BY <2>1 DEF Dir, Linked
  <2> QED BY <2>2 DEF Inv2, LinkedAreEntries
<1> QED BY <1>1, Inv1Always, Inv2Always, PTL
=============================================================================
