------------------------- MODULE IndexUpdateProofs -------------------------
(***************************************************************************)
(* Proofs about IndexUpdate.tla for any number of processes, models, files *)
(* and contents, any splitter, and any number of edits, faults and crashes.*)
(***************************************************************************)
EXTENDS IndexUpdateProps, SequenceTheorems, TLAPS

\* Where a process holds the write lock; a cold one holds it while it boots too.
Holding == {"undo", "undoSidecars", "redo", "redoChunks", "undone", "invalidate", "scan",
            "extract", "rebuild", "embed", "fallback", "persist", "save", "complete",
            "hashes", "chunks", "clear", "finish"}

Booting == {"load", "lost", "loaded"}

PC == Holding \cup Booting \cup {"off", "ready"}

Partial(T) == UNION {[S -> T] : S \in SUBSET Files}

Manager == [pc : PC, mem : Indexes \cup {Nil}]

Job == [scope : SUBSET Files, force : BOOLEAN, hadIndex : BOOLEAN, purgeIfEmpty : BOOLEAN,
        skipFallback : BOOLEAN, fromEmpty : BOOLEAN, failed : BOOLEAN, mutated : BOOLEAN,
        listed : SUBSET Files,
        scan : Partial([hash : Contents, stored : Contents \cup {Nil}]),
        deferred : SUBSET Files, touched : SUBSET Files,
        add : Partial(Seq(Chunk)), pending : Partial(Sidecar), left : SUBSET Files]

\* The sidecars that are still to be written are among the pending ones.
LeftInv == \A m \in Managers :
  mgr[m].pc \in {"save", "complete", "hashes", "chunks"} =>
    job[m].left \subseteq DOMAIN job[m].pending

\* TypeOK, with the types of what only one process sees.
Types ==
  /\ TypeOK
  /\ had \in [Files -> SUBSET Contents]
  /\ disk \in [Models -> Indexes \cup {Nil}]
  /\ mgr \in [Managers -> Manager]
  /\ job \in [Managers -> Job]
  /\ LeftInv

-----------------------------------------------------------------------------
(* The helpers of the model.                                               *)

\* A partial function on the files is a function on some of them.
LEMMA PartialFacts ==
  ASSUME NEW T, NEW x
  PROVE  x \in Partial(T) <=> DOMAIN x \subseteq Files /\ x \in [DOMAIN x -> T]
BY DEF Partial

\* The empty function is one, on no file.
LEMMA EmptyFacts ==
  ASSUME NEW T
  PROVE  Empty \in Partial(T) /\ DOMAIN Empty = {}
<1>1. Empty \in [{} -> T] /\ DOMAIN Empty = {}
  BY DEF Empty
<1>2. QED  BY <1>1, PartialFacts

\* The model of a process is a model, with a state of its own on disk.
LEMMA ModelFacts ==
  ASSUME NEW m \in Managers
  PROVE  Model(m) \in Models
BY UpdateAssumption DEF Model

\* The locals of a process without a refresh are well typed.
LEMMA NoJobTyped ==
  /\ NoJob \in Job /\ NoJob.left = {} /\ NoJob.add = Empty /\ NoJob.pending = Empty
  /\ NoJob.scan = Empty
<1>1. Empty \in Partial([hash : Contents, stored : Contents \cup {Nil}])
  BY EmptyFacts
<1>2. Empty \in Partial(Seq(Chunk)) /\ Empty \in Partial(Sidecar)
  BY EmptyFacts
<1>3. QED  BY <1>1, <1>2 DEF NoJob, Job

\* The chunks of a content are a sequence of chunks.
LEMMA ChunksTyped ==
  ASSUME NEW c \in Contents
  PROVE  /\ ChunksOf[c] \in Seq(Chunk) /\ ChunksOf[c] # Nil
         /\ ChunksOf[c] \in {ChunksOf[d] : d \in Contents}
BY UpdateAssumption

\* Adding chunks to an index gives an index.
LEMMA AppendedTyped ==
  ASSUME NEW x \in Indexes \cup {Nil}, NEW add \in Partial(Seq(Chunk))
  PROVE  Appended(x, add) \in Indexes /\ Appended(x, add) # Nil
<1>1. ASSUME NEW f \in Files
      PROVE  Held(x, f) \o (IF f \in DOMAIN add THEN add[f] ELSE <<>>) \in Seq(Chunk)
  <2>1. Held(x, f) \in Seq(Chunk)
    BY UpdateAssumption DEF Held, Indexes
  <2>2. (IF f \in DOMAIN add THEN add[f] ELSE <<>>) \in Seq(Chunk)
    BY PartialFacts
  <2>3. QED  BY <2>1, <2>2
<1>2. Appended(x, add) \in Indexes
  BY <1>1 DEF Appended, Indexes
<1>3. QED  BY <1>2, UpdateAssumption

\* One process moves on; its memory and the other processes stay as they are.
LEMMA GoFacts ==
  ASSUME mgr \in [Managers -> Manager], NEW m \in Managers, NEW p \in PC, Go(m, p)
  PROVE  /\ mgr' \in [Managers -> Manager]
         /\ mgr'[m].pc = p /\ mgr'[m].mem = mgr[m].mem
         /\ \A n \in Managers : n # m => mgr'[n] = mgr[n]
BY DEF Go, Manager

\* To move on is to move on with the same index in memory.
LEMMA GoBecomes ==
  ASSUME mgr \in [Managers -> Manager], NEW m \in Managers, NEW p, Go(m, p)
  PROVE  Become(m, p, mgr[m].mem) /\ mgr[m].mem \in Indexes \cup {Nil}
<1>1. mgr[m] \in Manager
  OBVIOUS
<1>2. mgr[m].mem \in Indexes \cup {Nil}
      /\ [mgr[m] EXCEPT !.pc = p] = [pc |-> p, mem |-> mgr[m].mem]
  BY <1>1 DEF Manager
<1>3. mgr' = [mgr EXCEPT ![m] = [mgr[m] EXCEPT !.pc = p]]
  BY DEF Go
<1>4. QED  BY <1>2, <1>3 DEF Become

\* One process moves on with another index in memory.
LEMMA BecomeFacts ==
  ASSUME mgr \in [Managers -> Manager], NEW m \in Managers, NEW p \in PC,
         NEW x \in Indexes \cup {Nil}, Become(m, p, x)
  PROVE  /\ mgr' \in [Managers -> Manager]
         /\ mgr'[m].pc = p /\ mgr'[m].mem = x
         /\ \A n \in Managers : n # m => mgr'[n] = mgr[n]
BY DEF Become, Manager

\* A refresh that ends leaves its process ready or off, without locals or lock.
LEMMA RestFacts ==
  ASSUME mgr \in [Managers -> Manager], job \in [Managers -> Job],
         NEW m \in Managers, NEW x \in Indexes \cup {Nil}, Rest(m, x)
  PROVE  /\ mgr' \in [Managers -> Manager] /\ job' \in [Managers -> Job]
         /\ mgr'[m].pc = (IF m \in Warm THEN "ready" ELSE "off")
         /\ mgr'[m].mem = (IF m \in Warm THEN x ELSE Nil)
         /\ job'[m] = NoJob
         /\ \A n \in Managers : n # m => mgr'[n] = mgr[n] /\ job'[n] = job[n]
<1>1. mgr' \in [Managers -> Manager]
  BY DEF Rest, Manager, PC, Off
<1>2. job' \in [Managers -> Job]
  BY NoJobTyped DEF Rest
<1>3. mgr'[m].pc = (IF m \in Warm THEN "ready" ELSE "off")
      /\ mgr'[m].mem = (IF m \in Warm THEN x ELSE Nil)
  BY DEF Rest, Off
<1>4. QED  BY <1>1, <1>2, <1>3 DEF Rest

-----------------------------------------------------------------------------
(* What the steps of a refresh do to its locals.                           *)

\* The files that are in their quiesce window when m looks at them.
PutOff(m) == IF m \in Quiesce THEN Present(job[m].scope) \cap hot ELSE {}

\* Scan: every present file is put off, unreadable or scanned.
LEMMA ScanFacts ==
  ASSUME Types, NEW m \in Managers, Scan(m)
  PROVE  \E bad \in SUBSET (Present(job[m].scope) \ PutOff(m)) :
           /\ UnreadableOf(Present(job[m].scope) \ PutOff(m), bad)
           /\ job' \in [Managers -> Job]
           /\ job'[m].scan = [f \in Present(job[m].scope) \ (PutOff(m) \cup bad) |->
                                [hash |-> file[f], stored |-> hash[f]]]
           /\ job'[m].fromEmpty = (mgr[m].mem = Nil)
           /\ job'[m].listed = Present(job[m].scope)
           /\ job'[m].deferred = PutOff(m)
           /\ job'[m].failed = (bad # {})
           /\ job'[m].scope = job[m].scope /\ job'[m].force = job[m].force
           /\ job'[m].hadIndex = job[m].hadIndex
           /\ job'[m].purgeIfEmpty = job[m].purgeIfEmpty
           /\ job'[m].skipFallback = job[m].skipFallback
           /\ job'[m].mutated = job[m].mutated
           /\ job'[m].add = job[m].add /\ job'[m].pending = job[m].pending
           /\ job'[m].left = job[m].left
           /\ \A n \in Managers : n # m => job'[n] = job[n]
<1> DEFINE present == Present(job[m].scope)
<1>1. present \subseteq Files /\ PutOff(m) \subseteq Files
      /\ \A f \in present : file[f] \in Contents
  BY DEF Types, TypeOK, Job, Present, PutOff
<1>2. PICK bad \in SUBSET (present \ PutOff(m)) :
        /\ UnreadableOf(present \ PutOff(m), bad)
        /\ job' = [job EXCEPT
               ![m].fromEmpty = mgr[m].mem = Nil,
               ![m].listed = present,
               ![m].deferred = PutOff(m),
               ![m].failed = bad # {},
               ![m].touched = {},
               ![m].scan = [f \in present \ (PutOff(m) \cup bad) |->
                              [hash |-> file[f], stored |-> hash[f]]]]
  BY DEF Scan, PutOff
<1> DEFINE scan == [f \in present \ (PutOff(m) \cup bad) |->
                      [hash |-> file[f], stored |-> hash[f]]]
<1>3. scan \in Partial([hash : Contents, stored : Contents \cup {Nil}])
  <2>1. scan \in [present \ (PutOff(m) \cup bad) ->
                    [hash : Contents, stored : Contents \cup {Nil}]]
    BY <1>1 DEF Types, TypeOK
  <2>2. QED  BY <1>1, <2>1, PartialFacts
<1>4. job' = [job EXCEPT
               ![m].fromEmpty = mgr[m].mem = Nil,
               ![m].listed = present,
               ![m].deferred = PutOff(m),
               ![m].failed = bad # {},
               ![m].touched = {},
               ![m].scan = scan]
  BY <1>2
<1> HIDE DEF scan
<1>5. job[m] \in Job
  BY DEF Types
<1> DEFINE n == [job[m] EXCEPT !.fromEmpty = mgr[m].mem = Nil, !.listed = present,
                   !.deferred = PutOff(m), !.failed = bad # {}, !.touched = {}, !.scan = scan]
<1>6. n \in Job
  BY <1>1, <1>3, <1>5 DEF Job
<1>11. job' = [job EXCEPT ![m] = n]
  BY <1>4
<1>12. /\ n.scan = scan /\ n.fromEmpty = (mgr[m].mem = Nil)
       /\ n.listed = present /\ n.deferred = PutOff(m) /\ n.failed = (bad # {})
       /\ n.scope = job[m].scope /\ n.force = job[m].force
       /\ n.hadIndex = job[m].hadIndex /\ n.purgeIfEmpty = job[m].purgeIfEmpty
       /\ n.skipFallback = job[m].skipFallback /\ n.mutated = job[m].mutated
       /\ n.add = job[m].add /\ n.pending = job[m].pending /\ n.left = job[m].left
  BY <1>5 DEF Job
<1> HIDE DEF n
<1>13. job'[m] = n
  BY <1>11 DEF Types
<1>7. job' \in [Managers -> Job]
  BY <1>6, <1>11 DEF Types
<1>8. \A q \in Managers : q # m => job'[q] = job[q]
  BY <1>11 DEF Types
<1>9. /\ job'[m].scan = scan
      /\ job'[m].fromEmpty = (mgr[m].mem = Nil)
      /\ job'[m].listed = Present(job[m].scope)
      /\ job'[m].deferred = PutOff(m)
      /\ job'[m].failed = (bad # {})
      /\ job'[m].scope = job[m].scope /\ job'[m].force = job[m].force
      /\ job'[m].hadIndex = job[m].hadIndex
      /\ job'[m].purgeIfEmpty = job[m].purgeIfEmpty
      /\ job'[m].skipFallback = job[m].skipFallback
      /\ job'[m].mutated = job[m].mutated
      /\ job'[m].add = job[m].add /\ job'[m].pending = job[m].pending
      /\ job'[m].left = job[m].left
  BY <1>12, <1>13
<1>10. QED  BY <1>2, <1>7, <1>8, <1>9 DEF scan

\* Of the changed files, those that fail, those put off and those loaded.
Failing(m, bad) == bad \cup Gone(Changed(job[m]))

PutOffNow(m, bad) == Moved(m, Changed(job[m]) \ Failing(m, bad))

LoadedNow(m, bad) == Changed(job[m]) \ (Failing(m, bad) \cup PutOffNow(m, bad))

GivesWay(m, deferred) == job[m].force /\ job[m].hadIndex /\ deferred # {}

\* What Extract leaves of the locals in every case.
Kept(m) ==
  /\ job' \in [Managers -> Job]
  /\ \A n \in Managers : n # m => job'[n] = job[n]
  /\ job'[m].scope = job[m].scope /\ job'[m].force = job[m].force
  /\ job'[m].hadIndex = job[m].hadIndex /\ job'[m].fromEmpty = job[m].fromEmpty
  /\ job'[m].mutated = job[m].mutated /\ job'[m].listed = job[m].listed
  /\ job'[m].scan = job[m].scan /\ job'[m].left = job[m].left

KeptPlan(m) ==
  /\ job'[m].add = job[m].add /\ job'[m].pending = job[m].pending
  /\ job'[m].purgeIfEmpty = job[m].purgeIfEmpty
  /\ job'[m].skipFallback = job[m].skipFallback

\* The four ways in which Extract may end.
Extracted(m, bad) ==
  LET deferred == job[m].deferred \cup PutOffNow(m, bad)
      loaded == LoadedNow(m, bad)
      rebuild == \E f \in loaded : NeedsRebuild(job[m], mgr[m].mem, f)
  IN \/ /\ GivesWay(m, deferred)
        /\ Become(m, "embed", disk[Model(m)])
        /\ job'[m].add = job[m].add /\ job'[m].pending = job[m].pending
        /\ job'[m].purgeIfEmpty = FALSE /\ job'[m].skipFallback = TRUE
     \/ /\ ~GivesWay(m, deferred)
        /\ rebuild /\ mgr[m].mem # Nil /\ deferred # {}
        /\ Go(m, "embed")
        /\ KeptPlan(m)
     \/ /\ ~GivesWay(m, deferred)
        /\ rebuild /\ ~(mgr[m].mem # Nil /\ deferred # {})
        /\ Become(m, "rebuild", Nil)
        /\ KeptPlan(m)
     \/ /\ ~GivesWay(m, deferred)
        /\ ~rebuild
        /\ Go(m, "embed")
        /\ job'[m].add = [f \in {g \in NonEmpty(loaded) : ToAppend(job[m], g) # <<>>} |->
                            ToAppend(job[m], f)]
        /\ job'[m].pending = [f \in NonEmpty(loaded) |-> SidecarOf(job[m], f)]
        /\ job'[m].purgeIfEmpty = job[m].purgeIfEmpty
        /\ job'[m].skipFallback = job[m].skipFallback

\* What the changed files call for does not depend on what was put off.
LEMMA PlanIndependent ==
  ASSUME NEW j \in Job, NEW j2 \in Job, NEW x, NEW f,
         j2.scan = j.scan, j2.fromEmpty = j.fromEmpty, j2.force = j.force
  PROVE  /\ NeedsRebuild(j2, x, f) <=> NeedsRebuild(j, x, f)
         /\ ToAppend(j2, f) = ToAppend(j, f)
         /\ SidecarOf(j2, f) = SidecarOf(j, f)
<1>1. Anew(j2) <=> Anew(j)
  BY DEF Anew
<1>2. Committed(j2, x, f) <=> Committed(j, x, f)
  BY DEF Committed
<1>3. QED  BY <1>1, <1>2 DEF NeedsRebuild, ToAppend, SidecarOf

\* What a loaded file adds to the index, and what is planned to be written to
\* its sidecars.
LEMMA LoadedFacts ==
  ASSUME Types, NEW m \in Managers, NEW bad
  PROVE  /\ Changed(job[m]) \subseteq DOMAIN job[m].scan /\ DOMAIN job[m].scan \subseteq Files
         /\ \A f \in LoadedNow(m, bad) :
              /\ f \in Files /\ file[f] \in Contents /\ f \in DOMAIN job[m].scan
              /\ ToAppend(job[m], f) \in Seq(Chunk)
              /\ SidecarOf(job[m], f) \in Sidecar
<1>1. DOMAIN job[m].scan \subseteq Files
      /\ job[m].scan \in [DOMAIN job[m].scan -> [hash : Contents, stored : Contents \cup {Nil}]]
  BY PartialFacts DEF Types, Job
<1>2. Changed(job[m]) \subseteq DOMAIN job[m].scan
  BY DEF Changed
<1>3. ASSUME NEW f \in LoadedNow(m, bad)
      PROVE  f \in DOMAIN job[m].scan /\ f \in Files /\ file[f] \in Contents
  BY <1>1, <1>2, <1>3 DEF LoadedNow, Failing, Gone, Present, Types, TypeOK
<1>4. ASSUME NEW f \in LoadedNow(m, bad)
      PROVE  ToAppend(job[m], f) \in Seq(Chunk)
  <2>1. ChunksOf[file[f]] \in Seq(Chunk)
    BY <1>3, ChunksTyped
  <2>2. CASE Anew(job[m]) \/ chunks[f] = Nil
    BY <2>1, <2>2 DEF ToAppend
  <2>3. CASE ~(Anew(job[m]) \/ chunks[f] = Nil)
    <3>1. chunks[f] \in Seq(Chunk)
      BY <1>3, <2>3, ChunksTyped DEF Types, TypeOK
    <3>2. SubSeq(ChunksOf[file[f]], Len(chunks[f]) + 1, Len(ChunksOf[file[f]])) \in Seq(Chunk)
      BY <2>1, <3>1
    <3>3. QED  BY <2>3, <3>2 DEF ToAppend
  <2>4. QED  BY <2>2, <2>3
<1>5. ASSUME NEW f \in LoadedNow(m, bad)
      PROVE  SidecarOf(job[m], f) \in Sidecar
  <2>1. job[m].scan[f].hash \in Contents
    BY <1>1, <1>3
  <2>2. ChunksOf[file[f]] \in {ChunksOf[d] : d \in Contents}
    BY <1>3, ChunksTyped
  <2>3. QED  BY <2>1, <2>2 DEF SidecarOf, Sidecar
<1>6. QED  BY <1>1, <1>2, <1>3, <1>4, <1>5

\* Extract: the four cases, and what they leave of the locals.
LEMMA ExtractFacts ==
  ASSUME Types, NEW m \in Managers, Extract(m)
  PROVE  \E bad \in SUBSET Present(Changed(job[m])) :
           /\ UnreadableOf(Present(Changed(job[m])), bad)
           /\ Kept(m)
           /\ job'[m].deferred = job[m].deferred \cup PutOffNow(m, bad)
           /\ job'[m].failed = (job[m].failed \/ Failing(m, bad) # {})
           /\ Extracted(m, bad)
<1> DEFINE J(bad) == [job[m] EXCEPT !.deferred = @ \cup PutOffNow(m, bad),
                                    !.failed = @ \/ Failing(m, bad) # {}]
           deferred(bad) == job[m].deferred \cup PutOffNow(m, bad)
           rebuild(bad) == \E f \in LoadedNow(m, bad) :
                              NeedsRebuild(J(bad), mgr[m].mem, f)
<1>1. PICK bad \in SUBSET Present(Changed(job[m])) :
        /\ UnreadableOf(Present(Changed(job[m])), bad)
        /\ \/ /\ J(bad).force /\ J(bad).hadIndex /\ J(bad).deferred # {}
              /\ Become(m, "embed", disk[Model(m)])
              /\ job' = [job EXCEPT ![m] =
                   [J(bad) EXCEPT !.purgeIfEmpty = FALSE, !.skipFallback = TRUE]]
           \/ /\ ~(J(bad).force /\ J(bad).hadIndex /\ J(bad).deferred # {})
              /\ rebuild(bad) /\ mgr[m].mem # Nil /\ J(bad).deferred # {}
              /\ Go(m, "embed")
              /\ job' = [job EXCEPT ![m] = J(bad)]
           \/ /\ ~(J(bad).force /\ J(bad).hadIndex /\ J(bad).deferred # {})
              /\ rebuild(bad) /\ ~(mgr[m].mem # Nil /\ J(bad).deferred # {})
              /\ Become(m, "rebuild", Nil)
              /\ job' = [job EXCEPT ![m] = J(bad)]
           \/ /\ ~(J(bad).force /\ J(bad).hadIndex /\ J(bad).deferred # {})
              /\ ~rebuild(bad)
              /\ Go(m, "embed")
              /\ job' = [job EXCEPT ![m] =
                   Plan(J(bad), [f \in {f \in NonEmpty(LoadedNow(m, bad)) :
                                          ToAppend(J(bad), f) # <<>>} |-> ToAppend(J(bad), f)],
                           [f \in NonEmpty(LoadedNow(m, bad)) |-> SidecarOf(J(bad), f)])]
  BY DEF Extract, Failing, PutOffNow, LoadedNow
<1>2. job[m] \in Job /\ PutOffNow(m, bad) \subseteq Files
  BY LoadedFacts DEF Types, PutOffNow, Moved
<1>3. PICK j : j = J(bad)
  OBVIOUS
<1>4. j \in Job
  BY <1>2, <1>3 DEF Job
<1>5. /\ j.deferred = deferred(bad) /\ j.failed = (job[m].failed \/ Failing(m, bad) # {})
      /\ j.scope = job[m].scope /\ j.force = job[m].force
      /\ j.hadIndex = job[m].hadIndex /\ j.fromEmpty = job[m].fromEmpty
      /\ j.mutated = job[m].mutated /\ j.listed = job[m].listed
      /\ j.scan = job[m].scan /\ j.left = job[m].left
      /\ j.add = job[m].add /\ j.pending = job[m].pending
      /\ j.purgeIfEmpty = job[m].purgeIfEmpty /\ j.skipFallback = job[m].skipFallback
  BY <1>2, <1>3 DEF Job
<1>6. \A f : /\ NeedsRebuild(j, mgr[m].mem, f) <=> NeedsRebuild(job[m], mgr[m].mem, f)
             /\ ToAppend(j, f) = ToAppend(job[m], f)
             /\ SidecarOf(j, f) = SidecarOf(job[m], f)
  BY <1>2, <1>4, <1>5, PlanIndependent
<1> DEFINE add == [f \in {g \in NonEmpty(LoadedNow(m, bad)) : ToAppend(job[m], g) # <<>>} |->
                      ToAppend(job[m], f)]
           pending == [f \in NonEmpty(LoadedNow(m, bad)) |-> SidecarOf(job[m], f)]
           some == \E f \in LoadedNow(m, bad) : NeedsRebuild(job[m], mgr[m].mem, f)
<1>7. \/ /\ GivesWay(m, deferred(bad))
         /\ Become(m, "embed", disk[Model(m)])
         /\ job' = [job EXCEPT ![m] = [j EXCEPT !.purgeIfEmpty = FALSE, !.skipFallback = TRUE]]
      \/ /\ ~GivesWay(m, deferred(bad))
         /\ some /\ mgr[m].mem # Nil /\ deferred(bad) # {}
         /\ Go(m, "embed")
         /\ job' = [job EXCEPT ![m] = j]
      \/ /\ ~GivesWay(m, deferred(bad))
         /\ some /\ ~(mgr[m].mem # Nil /\ deferred(bad) # {})
         /\ Become(m, "rebuild", Nil)
         /\ job' = [job EXCEPT ![m] = j]
      \/ /\ ~GivesWay(m, deferred(bad))
         /\ ~some
         /\ Go(m, "embed")
         /\ job' = [job EXCEPT ![m] = Plan(j, add, pending)]
  <2>1. j.force = job[m].force /\ j.hadIndex = job[m].hadIndex /\ j.deferred = deferred(bad)
    BY <1>5
  <2>2. rebuild(bad) <=> some
    BY <1>3, <1>6
  <2>3. [f \in {f \in NonEmpty(LoadedNow(m, bad)) : ToAppend(j, f) # <<>>} |-> ToAppend(j, f)]
          = add
    BY <1>6
  <2>4. [f \in NonEmpty(LoadedNow(m, bad)) |-> SidecarOf(j, f)] = pending
    BY <1>6
  <2> HIDE DEF J, rebuild, some, add, pending, deferred
  <2>5. QED  BY <1>1, <1>3, <2>1, <2>2, <2>3, <2>4 DEF GivesWay
<1>8. add \in Partial(Seq(Chunk)) /\ pending \in Partial(Sidecar)
  <2>1. add \in [DOMAIN add -> Seq(Chunk)] /\ DOMAIN add \subseteq Files
    BY LoadedFacts DEF NonEmpty
  <2>2. pending \in [DOMAIN pending -> Sidecar] /\ DOMAIN pending \subseteq Files
    BY LoadedFacts DEF NonEmpty
  <2>3. QED  BY <2>1, <2>2, PartialFacts
<1> HIDE DEF J, rebuild, some, add, pending, deferred
<1>9. CASE GivesWay(m, deferred(bad))
  <2> DEFINE n == [j EXCEPT !.purgeIfEmpty = FALSE, !.skipFallback = TRUE]
  <2>1. n \in Job
    BY <1>4 DEF Job
  <2>2. /\ n.deferred = j.deferred /\ n.failed = j.failed
        /\ n.scope = j.scope /\ n.force = j.force
        /\ n.hadIndex = j.hadIndex /\ n.fromEmpty = j.fromEmpty
        /\ n.mutated = j.mutated /\ n.listed = j.listed
        /\ n.scan = j.scan /\ n.left = j.left
        /\ n.add = j.add /\ n.pending = j.pending
        /\ n.purgeIfEmpty = FALSE /\ n.skipFallback = TRUE
    BY <1>4 DEF Job
  <2> HIDE DEF n
  <2>3. Become(m, "embed", disk[Model(m)]) /\ job' = [job EXCEPT ![m] = n]
    BY <1>7, <1>9 DEF n
  <2>4. job'[m] = n /\ job' \in [Managers -> Job] /\ \A q \in Managers : q # m => job'[q] = job[q]
    BY <2>1, <2>3 DEF Types
  <2>5. Kept(m) /\ job'[m].deferred = deferred(bad)
        /\ job'[m].failed = (job[m].failed \/ Failing(m, bad) # {})
    BY <1>5, <2>2, <2>4 DEF Kept
  <2>6. /\ job'[m].add = job[m].add /\ job'[m].pending = job[m].pending
        /\ job'[m].purgeIfEmpty = FALSE /\ job'[m].skipFallback = TRUE
    BY <1>5, <2>2, <2>4
  <2>7. Extracted(m, bad)
    BY <1>9, <2>3, <2>6 DEF Extracted, deferred
  <2>8. QED  BY <1>1, <2>5, <2>7 DEF deferred
<1>10. CASE ~GivesWay(m, deferred(bad)) /\ some
  <2>1. job'[m] = j /\ job' \in [Managers -> Job] /\ \A q \in Managers : q # m => job'[q] = job[q]
    BY <1>4, <1>7, <1>10 DEF Types
  <2>2. Kept(m) /\ KeptPlan(m) /\ job'[m].deferred = deferred(bad)
        /\ job'[m].failed = (job[m].failed \/ Failing(m, bad) # {})
    BY <1>5, <2>1 DEF Kept, KeptPlan
  <2>3. QED  BY <1>1, <1>7, <1>10, <2>2 DEF Extracted, some, deferred
<1>11. CASE ~GivesWay(m, deferred(bad)) /\ ~some
  <2> DEFINE n == Plan(j, add, pending)
  <2>1. n \in Job
    BY <1>4, <1>8 DEF Plan, Job
  <2>2. /\ n.deferred = j.deferred /\ n.failed = j.failed
        /\ n.scope = j.scope /\ n.force = j.force
        /\ n.hadIndex = j.hadIndex /\ n.fromEmpty = j.fromEmpty
        /\ n.mutated = j.mutated /\ n.listed = j.listed
        /\ n.scan = j.scan /\ n.left = j.left
        /\ n.add = add /\ n.pending = pending
        /\ n.purgeIfEmpty = j.purgeIfEmpty /\ n.skipFallback = j.skipFallback
    BY <1>4 DEF Plan, Job
  <2>3. Go(m, "embed") /\ job' = [job EXCEPT ![m] = n]
    BY <1>7, <1>11
  <2> HIDE DEF n
  <2>4. job'[m] = n /\ job' \in [Managers -> Job] /\ \A q \in Managers : q # m => job'[q] = job[q]
    BY <2>1, <2>3 DEF Types
  <2>5. Kept(m) /\ job'[m].deferred = deferred(bad)
        /\ job'[m].failed = (job[m].failed \/ Failing(m, bad) # {})
    BY <1>5, <2>2, <2>4 DEF Kept
  <2>6. Extracted(m, bad)
    BY <1>5, <1>11, <2>2, <2>3, <2>4 DEF Extracted, some, add, pending, deferred
  <2>7. QED  BY <1>1, <2>5, <2>6 DEF deferred
<1>12. QED  BY <1>9, <1>10, <1>11

\* Of the scanned files, those that a full rebuild fails to load, puts off, adds.
RFailing(m, bad) == bad \cup Gone(DOMAIN job[m].scan)

RPutOff(m, bad) == Moved(m, DOMAIN job[m].scan \ RFailing(m, bad)) \ job[m].deferred

RLoaded(m, bad) == NonEmpty(DOMAIN job[m].scan \ (RFailing(m, bad) \cup RPutOff(m, bad)))

\* A file that has text is a present one, and its chunks are some.
LEMMA NonEmptyFacts ==
  ASSUME TypeOK, NEW S \in SUBSET Files, NEW f \in NonEmpty(S)
  PROVE  /\ f \in S /\ f \in Files /\ file[f] \in Contents
         /\ ChunksOf[file[f]] \in Seq(Chunk) /\ ChunksOf[file[f]] # <<>>
         /\ ChunksOf[file[f]] \in {ChunksOf[d] : d \in Contents}
BY ChunksTyped DEF NonEmpty, TypeOK

\* Rebuild: it gives way to a file that moved, or plans every scanned file.
LEMMA RebuildFacts ==
  ASSUME Types, NEW m \in Managers, Rebuild(m)
  PROVE  \E bad \in SUBSET Present(DOMAIN job[m].scan) :
           /\ UnreadableOf(Present(DOMAIN job[m].scan), bad)
           /\ Kept(m)
           /\ job'[m].purgeIfEmpty = job[m].purgeIfEmpty
           /\ job'[m].skipFallback = job[m].skipFallback
           /\ job'[m].deferred = job[m].deferred \cup RPutOff(m, bad)
           /\ job'[m].failed = (job[m].failed \/ RFailing(m, bad) # {})
           /\ \/ /\ RPutOff(m, bad) # {}
                 /\ Become(m, "embed", disk[Model(m)])
                 /\ job'[m].add = job[m].add /\ job'[m].pending = job[m].pending
              \/ /\ RPutOff(m, bad) = {}
                 /\ Go(m, "embed")
                 /\ job'[m].add = [f \in RLoaded(m, bad) |-> ChunksOf[file[f]]]
                 /\ job'[m].pending = [f \in RLoaded(m, bad) |-> SidecarOf(job[m], f)]
<1> DEFINE J(bad) == [job[m] EXCEPT !.deferred = @ \cup RPutOff(m, bad),
                                    !.failed = @ \/ RFailing(m, bad) # {}]
<1>1. PICK bad \in SUBSET Present(DOMAIN job[m].scan) :
        /\ UnreadableOf(Present(DOMAIN job[m].scan), bad)
        /\ \/ /\ RPutOff(m, bad) # {}
              /\ Become(m, "embed", disk[Model(m)])
              /\ job' = [job EXCEPT ![m] = J(bad)]
           \/ /\ RPutOff(m, bad) = {}
              /\ Go(m, "embed")
              /\ job' = [job EXCEPT ![m] =
                   Plan(J(bad), [f \in RLoaded(m, bad) |-> ChunksOf[file[f]]],
                                [f \in RLoaded(m, bad) |-> SidecarOf(J(bad), f)])]
  BY DEF Rebuild, RFailing, RPutOff, RLoaded
<1>2. /\ job[m] \in Job /\ DOMAIN job[m].scan \subseteq Files
      /\ job[m].scan \in [DOMAIN job[m].scan -> [hash : Contents, stored : Contents \cup {Nil}]]
  BY PartialFacts DEF Types, Job
<1>3. RPutOff(m, bad) \subseteq Files
  BY <1>2 DEF RPutOff, Moved
<1>4. PICK j : j = J(bad)
  OBVIOUS
<1>5. j \in Job
  BY <1>2, <1>3, <1>4 DEF Job
<1>6. /\ j.deferred = job[m].deferred \cup RPutOff(m, bad)
      /\ j.failed = (job[m].failed \/ RFailing(m, bad) # {})
      /\ j.scope = job[m].scope /\ j.force = job[m].force
      /\ j.hadIndex = job[m].hadIndex /\ j.fromEmpty = job[m].fromEmpty
      /\ j.mutated = job[m].mutated /\ j.listed = job[m].listed
      /\ j.scan = job[m].scan /\ j.left = job[m].left
      /\ j.add = job[m].add /\ j.pending = job[m].pending
      /\ j.purgeIfEmpty = job[m].purgeIfEmpty /\ j.skipFallback = job[m].skipFallback
  BY <1>2, <1>4 DEF Job
<1>7. \A f : SidecarOf(j, f) = SidecarOf(job[m], f)
  BY <1>6 DEF SidecarOf
<1> DEFINE add == [f \in RLoaded(m, bad) |-> ChunksOf[file[f]]]
           pending == [f \in RLoaded(m, bad) |-> SidecarOf(job[m], f)]
<1>8. \/ /\ RPutOff(m, bad) # {}
         /\ Become(m, "embed", disk[Model(m)])
         /\ job' = [job EXCEPT ![m] = j]
      \/ /\ RPutOff(m, bad) = {}
         /\ Go(m, "embed")
         /\ job' = [job EXCEPT ![m] = Plan(j, add, pending)]
  <2>1. [f \in RLoaded(m, bad) |-> SidecarOf(j, f)] = pending
    BY <1>7
  <2> HIDE DEF add, pending
  <2>2. [f \in RLoaded(m, bad) |-> ChunksOf[file[f]]] = add
    BY DEF add
  <2> HIDE DEF J
  <2>3. QED  BY <1>1, <1>4, <2>1, <2>2
<1>9. add \in Partial(Seq(Chunk)) /\ pending \in Partial(Sidecar)
  <2>1. \A f \in RLoaded(m, bad) :
          /\ f \in Files /\ f \in DOMAIN job[m].scan
          /\ ChunksOf[file[f]] \in Seq(Chunk)
          /\ ChunksOf[file[f]] \in {ChunksOf[d] : d \in Contents}
    BY <1>2, NonEmptyFacts DEF RLoaded, Types
  <2>2. \A f \in RLoaded(m, bad) : SidecarOf(job[m], f) \in Sidecar
    BY <1>2, <2>1 DEF SidecarOf, Sidecar
  <2>3. add \in [DOMAIN add -> Seq(Chunk)] /\ DOMAIN add \subseteq Files
    BY <2>1
  <2>4. pending \in [DOMAIN pending -> Sidecar] /\ DOMAIN pending \subseteq Files
    BY <2>1, <2>2
  <2>5. QED  BY <2>3, <2>4, PartialFacts
<1> HIDE DEF J, add, pending
<1>10. CASE RPutOff(m, bad) # {}
  <2>1. job'[m] = j /\ job' \in [Managers -> Job] /\ \A q \in Managers : q # m => job'[q] = job[q]
    BY <1>5, <1>8, <1>10 DEF Types
  <2>2. QED  BY <1>1, <1>6, <1>8, <1>10, <2>1 DEF Kept
<1>11. CASE RPutOff(m, bad) = {}
  <2> DEFINE n == Plan(j, add, pending)
  <2>1. n \in Job
    BY <1>5, <1>9 DEF Plan, Job
  <2>2. /\ n.deferred = j.deferred /\ n.failed = j.failed
        /\ n.scope = j.scope /\ n.force = j.force
        /\ n.hadIndex = j.hadIndex /\ n.fromEmpty = j.fromEmpty
        /\ n.mutated = j.mutated /\ n.listed = j.listed
        /\ n.scan = j.scan /\ n.left = j.left
        /\ n.add = add /\ n.pending = pending
        /\ n.purgeIfEmpty = j.purgeIfEmpty /\ n.skipFallback = j.skipFallback
    BY <1>5 DEF Plan, Job
  <2>3. Go(m, "embed") /\ job' = [job EXCEPT ![m] = n]
    BY <1>8, <1>11
  <2> HIDE DEF n
  <2>4. job'[m] = n /\ job' \in [Managers -> Job] /\ \A q \in Managers : q # m => job'[q] = job[q]
    BY <2>1, <2>3 DEF Types
  <2>5. QED  BY <1>1, <1>6, <1>11, <2>2, <2>3, <2>4 DEF Kept, add, pending
<1>12. QED  BY <1>10, <1>11

\* Embed: what was planned is in the index in memory.
Extended(index, add) == IF add = Empty THEN index ELSE Appended(index, add)

Outcome(m) == Extended(mgr[m].mem, job[m].add)

\* What the embedding step leaves behind: the outcome in memory, and the plan in
\* the locals marked as done.
LEMMA EmbedFacts ==
  ASSUME Types, NEW m \in Managers, Embed(m)
  PROVE  /\ Outcome(m) \in Indexes \cup {Nil}
         /\ Become(m, "fallback", Outcome(m))
         /\ job' \in [Managers -> Job]
         /\ \A n \in Managers : n # m => job'[n] = job[n]
         /\ job'[m].add = Empty /\ job'[m].mutated = (job[m].add # Empty)
         /\ job'[m].pending = job[m].pending /\ job'[m].failed = job[m].failed
         /\ job'[m].purgeIfEmpty = job[m].purgeIfEmpty
         /\ job'[m].skipFallback = job[m].skipFallback
         /\ job'[m].listed = job[m].listed /\ job'[m].deferred = job[m].deferred
<1>1. job[m] \in Job /\ job[m].add \in Partial(Seq(Chunk))
      /\ mgr[m].mem \in Indexes \cup {Nil} /\ Empty \in Partial(Seq(Chunk))
  BY EmptyFacts DEF Types, Job, Manager
<1>2. Outcome(m) \in Indexes \cup {Nil}
  BY <1>1, AppendedTyped DEF Outcome, Extended
<1>3. job' = [job EXCEPT ![m].add = Empty, ![m].mutated = (job[m].add # Empty)]
  BY DEF Embed
<1>4. job'[m] \in Job
  BY <1>1, <1>3 DEF Types, Job
<1>5. job' \in [Managers -> Job]
  BY <1>3, <1>4 DEF Types
<1>6. \A n \in Managers : n # m => job'[n] = job[n]
  BY <1>3 DEF Types
<1>7. /\ job'[m].add = Empty /\ job'[m].mutated = (job[m].add # Empty)
      /\ job'[m].pending = job[m].pending /\ job'[m].failed = job[m].failed
      /\ job'[m].purgeIfEmpty = job[m].purgeIfEmpty
      /\ job'[m].skipFallback = job[m].skipFallback
      /\ job'[m].listed = job[m].listed /\ job'[m].deferred = job[m].deferred
  BY <1>1, <1>3 DEF Types, Job
<1>8. Become(m, "fallback", Outcome(m))
  BY DEF Embed, Outcome, Extended
<1>9. QED  BY <1>2, <1>5, <1>6, <1>7, <1>8

\* The files that a fallback build fails to load, and those it adds.
FFailing(m, bad) == bad \cup Gone(job[m].listed \ job[m].deferred)

FBuilt(m, bad) == NonEmpty((job[m].listed \ job[m].deferred) \ FFailing(m, bad))

FIndex(m, bad) ==
  IF FBuilt(m, bad) = {} THEN Nil
  ELSE Appended(Nil, [f \in FBuilt(m, bad) |-> ChunksOf[file[f]]])

\* FallbackBuild: the index of the listed files that are not put off.
LEMMA FallbackBuildFacts ==
  ASSUME Types, NEW m \in Managers, FallbackBuild(m)
  PROVE  \E bad \in SUBSET Present(job[m].listed \ job[m].deferred),
            unhashed \in SUBSET Present(job[m].listed \ job[m].deferred) :
           /\ FIndex(m, bad) \in Indexes \cup {Nil}
           /\ Become(m, "persist", FIndex(m, bad))
           /\ job' \in [Managers -> Job]
           /\ \A n \in Managers : n # m => job'[n] = job[n]
           /\ job'[m].failed = (job[m].failed \/ FFailing(m, bad) # {})
           /\ job'[m].mutated = (job[m].mutated \/ FBuilt(m, bad) # {})
           /\ DOMAIN job'[m].pending = (FBuilt(m, bad) \ unhashed) \cup DOMAIN job[m].pending
           /\ \A f \in FBuilt(m, bad) \ unhashed :
                job'[m].pending[f] = [hash |-> file[f], chunks |-> ChunksOf[file[f]]]
           /\ job'[m].purgeIfEmpty = job[m].purgeIfEmpty
<1>1. PICK bad \in SUBSET Present(job[m].listed \ job[m].deferred),
           unhashed \in SUBSET Present(job[m].listed \ job[m].deferred) :
        /\ Become(m, "persist", FIndex(m, bad))
        /\ job' = [job EXCEPT
             ![m].failed = @ \/ FFailing(m, bad) # {},
             ![m].mutated = @ \/ FBuilt(m, bad) # {},
             ![m].pending = [f \in (FBuilt(m, bad) \ unhashed) \cup DOMAIN @ |->
                        IF f \in FBuilt(m, bad) \ unhashed
                        THEN [hash |-> file[f], chunks |-> ChunksOf[file[f]]]
                        ELSE @[f]]]
  BY DEF FallbackBuild, FFailing, FBuilt, FIndex
<1> DEFINE built == FBuilt(m, bad)
           hashed == built \ unhashed
           pending == [f \in hashed \cup DOMAIN job[m].pending |->
                         IF f \in hashed THEN [hash |-> file[f], chunks |-> ChunksOf[file[f]]]
                         ELSE job[m].pending[f]]
<1>2. job' = [job EXCEPT ![m].failed = job[m].failed \/ FFailing(m, bad) # {},
                         ![m].mutated = job[m].mutated \/ built # {},
                         ![m].pending = pending]
  BY <1>1
<1>3. job[m] \in Job /\ job[m].listed \subseteq Files
      /\ DOMAIN job[m].pending \subseteq Files
      /\ job[m].pending \in [DOMAIN job[m].pending -> Sidecar]
  BY PartialFacts DEF Types, Job
<1>4. \A f \in built : /\ f \in Files /\ file[f] \in Contents
                       /\ ChunksOf[file[f]] \in Seq(Chunk)
                       /\ ChunksOf[file[f]] \in {ChunksOf[d] : d \in Contents}
  BY <1>3, NonEmptyFacts DEF FBuilt, Types
<1>5. pending \in Partial(Sidecar)
  <2>1. \A f \in built : [hash |-> file[f], chunks |-> ChunksOf[file[f]]] \in Sidecar
    BY <1>4 DEF Sidecar
  <2>2. pending \in [DOMAIN pending -> Sidecar] /\ DOMAIN pending \subseteq Files
    BY <1>3, <1>4, <2>1
  <2>3. QED  BY <2>2, PartialFacts
<1>6. /\ DOMAIN pending = hashed \cup DOMAIN job[m].pending
      /\ \A f \in hashed : pending[f] = [hash |-> file[f], chunks |-> ChunksOf[file[f]]]
  OBVIOUS
<1>7. FIndex(m, bad) \in Indexes \cup {Nil}
  <2> DEFINE added == [f \in built |-> ChunksOf[file[f]]]
  <2>1. added \in [DOMAIN added -> Seq(Chunk)] /\ DOMAIN added \subseteq Files
    BY <1>4
  <2>2. added \in Partial(Seq(Chunk))
    BY <2>1, PartialFacts
  <2>3. QED  BY <2>2, AppendedTyped DEF FIndex
<1> HIDE DEF built, hashed, pending
<1> DEFINE n == [job[m] EXCEPT !.failed = job[m].failed \/ FFailing(m, bad) # {},
                   !.mutated = job[m].mutated \/ built # {}, !.pending = pending]
<1>8. n \in Job
  BY <1>3, <1>5 DEF Job
<1>13. job' = [job EXCEPT ![m] = n]
  BY <1>2
<1>14. /\ n.failed = (job[m].failed \/ FFailing(m, bad) # {})
       /\ n.mutated = (job[m].mutated \/ built # {})
       /\ n.pending = pending /\ n.purgeIfEmpty = job[m].purgeIfEmpty
  BY <1>3 DEF Job
<1> HIDE DEF n
<1>15. job'[m] = n
  BY <1>13 DEF Types
<1>9. job' \in [Managers -> Job]
  BY <1>8, <1>13 DEF Types
<1>10. \A q \in Managers : q # m => job'[q] = job[q]
  BY <1>13 DEF Types
<1>11. /\ job'[m].failed = (job[m].failed \/ FFailing(m, bad) # {})
       /\ job'[m].mutated = (job[m].mutated \/ built # {})
       /\ job'[m].pending = pending
       /\ job'[m].purgeIfEmpty = job[m].purgeIfEmpty
  BY <1>14, <1>15
<1>16. /\ job'[m].mutated = (job[m].mutated \/ FBuilt(m, bad) # {})
       /\ DOMAIN job'[m].pending = (FBuilt(m, bad) \ unhashed) \cup DOMAIN job[m].pending
       /\ \A f \in FBuilt(m, bad) \ unhashed :
            job'[m].pending[f] = [hash |-> file[f], chunks |-> ChunksOf[file[f]]]
  BY <1>6, <1>11 DEF built, hashed
<1>17. QED  BY <1>1, <1>7, <1>9, <1>10, <1>11, <1>16, ZenonT(60)

\* Persist: every pending sidecar is left to be written.
LEMMA PersistFacts ==
  ASSUME Types, NEW m \in Managers, Persist(m)
  PROVE  /\ job' \in [Managers -> Job]
         /\ \A n \in Managers : n # m => job'[n] = job[n]
         /\ job'[m].left = DOMAIN job[m].pending
         /\ job'[m].pending = job[m].pending /\ job'[m].failed = job[m].failed
         /\ job'[m].mutated = job[m].mutated
         /\ job'[m].purgeIfEmpty = job[m].purgeIfEmpty
<1>1. job' = [job EXCEPT ![m].left = DOMAIN job[m].pending, ![m].scan = Empty, ![m].listed = {}]
  BY DEF Persist
<1>2. job[m] \in Job /\ DOMAIN job[m].pending \subseteq Files
      /\ Empty \in Partial([hash : Contents, stored : Contents \cup {Nil}])
  BY PartialFacts, EmptyFacts DEF Types, Job
<1>3. job'[m] \in Job
  BY <1>1, <1>2 DEF Types, Job
<1>4. job' \in [Managers -> Job]
  BY <1>1, <1>3 DEF Types
<1>5. \A n \in Managers : n # m => job'[n] = job[n]
  BY <1>1 DEF Types
<1>6. /\ job'[m].left = DOMAIN job[m].pending
      /\ job'[m].pending = job[m].pending /\ job'[m].failed = job[m].failed
      /\ job'[m].mutated = job[m].mutated
      /\ job'[m].purgeIfEmpty = job[m].purgeIfEmpty
  BY <1>1, <1>2 DEF Types, Job
<1>7. QED  BY <1>4, <1>5, <1>6

\* Writing a sidecar changes only which are left.
LEMMA LeftFacts ==
  ASSUME Types, NEW m \in Managers, NEW S \in SUBSET Files,
         job' = [job EXCEPT ![m].left = S]
  PROVE  /\ job' \in [Managers -> Job]
         /\ \A n \in Managers : n # m => job'[n] = job[n]
         /\ job'[m].left = S
         /\ job'[m].pending = job[m].pending /\ job'[m].failed = job[m].failed
         /\ job'[m].mutated = job[m].mutated
         /\ job'[m].purgeIfEmpty = job[m].purgeIfEmpty
<1>1. job[m] \in Job
  BY DEF Types
<1>2. job'[m] \in Job
  BY <1>1 DEF Types, Job
<1>3. job' \in [Managers -> Job]
  BY <1>2 DEF Types
<1>4. \A n \in Managers : n # m => job'[n] = job[n]
  BY DEF Types
<1>5. /\ job'[m].left = S
      /\ job'[m].pending = job[m].pending /\ job'[m].failed = job[m].failed
      /\ job'[m].mutated = job[m].mutated
      /\ job'[m].purgeIfEmpty = job[m].purgeIfEmpty
  BY <1>1 DEF Types, Job
<1>6. QED  BY <1>3, <1>4, <1>5

\* A refresh begins with the locals of none, but for what it is asked for.
Fresh(m) ==
  /\ job' \in [Managers -> Job]
  /\ \A n \in Managers : n # m => job'[n] = job[n]
  /\ job'[m].add = Empty /\ job'[m].pending = Empty /\ job'[m].left = {}
  /\ job'[m].mutated = FALSE /\ job'[m].skipFallback = FALSE

\* Begin: over everything and to be purged when the index is stale.
LEMMA BeginFacts ==
  ASSUME Types, NEW m \in Managers, NEW S \in Scopes, Begin(m, S)
  PROVE  /\ Fresh(m) /\ job'[m].force = FALSE
         /\ job'[m].scope = (IF Stale(m) THEN Files ELSE S)
         /\ job'[m].purgeIfEmpty = Stale(m)
         /\ IF Stale(m) THEN Become(m, "invalidate", Nil) ELSE Go(m, "scan")
<1> DEFINE n == [NoJob EXCEPT !.scope = IF Stale(m) THEN Files ELSE S, !.purgeIfEmpty = Stale(m)]
<1>1. n \in Job
  <2>1. PICK scope, stale : scope = (IF Stale(m) THEN Files ELSE S) /\ stale = Stale(m)
    OBVIOUS
  <2>2. scope \in SUBSET Files /\ stale \in BOOLEAN
    BY <2>1, UpdateAssumption DEF Stale
  <2>3. [NoJob EXCEPT !.scope = scope, !.purgeIfEmpty = stale] \in Job
    BY <2>2, NoJobTyped DEF Job
  <2>4. QED  BY <2>1, <2>3
<1>2. /\ n.add = Empty /\ n.pending = Empty /\ n.left = {} /\ n.mutated = FALSE
      /\ n.skipFallback = FALSE /\ n.force = FALSE
      /\ n.scope = (IF Stale(m) THEN Files ELSE S) /\ n.purgeIfEmpty = Stale(m)
  BY DEF NoJob
<1>3. job' = [job EXCEPT ![m] = n]
  BY DEF Begin
<1> HIDE DEF n
<1>4. job'[m] = n /\ job' \in [Managers -> Job] /\ \A q \in Managers : q # m => job'[q] = job[q]
  BY <1>1, <1>3 DEF Types
<1>5. QED  BY <1>2, <1>4 DEF Fresh, Begin

\* BeginForced: over everything, and to be purged.
LEMMA BeginForcedFacts ==
  ASSUME Types, NEW m \in Managers, BeginForced(m)
  PROVE  /\ Fresh(m) /\ job'[m].force = TRUE
         /\ job'[m].scope = Files /\ job'[m].purgeIfEmpty = TRUE
         /\ job'[m].hadIndex = (disk[Model(m)] # Nil)
<1> DEFINE n == [NoJob EXCEPT !.scope = Files, !.purgeIfEmpty = TRUE,
                              !.force = TRUE, !.hadIndex = disk[Model(m)] # Nil]
<1>1. n \in Job
  BY NoJobTyped DEF Job
<1>2. /\ n.add = Empty /\ n.pending = Empty /\ n.left = {} /\ n.mutated = FALSE
      /\ n.skipFallback = FALSE /\ n.force = TRUE
      /\ n.scope = Files /\ n.purgeIfEmpty = TRUE /\ n.hadIndex = (disk[Model(m)] # Nil)
  BY DEF NoJob
<1>3. job' = [job EXCEPT ![m] = n]
  BY DEF BeginForced
<1> HIDE DEF n
<1>4. job'[m] = n /\ job' \in [Managers -> Job] /\ \A q \in Managers : q # m => job'[q] = job[q]
  BY <1>1, <1>3 DEF Types
<1>5. QED  BY <1>2, <1>4 DEF Fresh

\* An edit or a deletion only adds to what a refresh knows as touched.
SameButTouched(n) ==
  /\ job'[n].scope = job[n].scope /\ job'[n].force = job[n].force
  /\ job'[n].hadIndex = job[n].hadIndex /\ job'[n].purgeIfEmpty = job[n].purgeIfEmpty
  /\ job'[n].skipFallback = job[n].skipFallback /\ job'[n].fromEmpty = job[n].fromEmpty
  /\ job'[n].failed = job[n].failed /\ job'[n].mutated = job[n].mutated
  /\ job'[n].listed = job[n].listed /\ job'[n].scan = job[n].scan
  /\ job'[n].deferred = job[n].deferred /\ job'[n].add = job[n].add
  /\ job'[n].pending = job[n].pending /\ job'[n].left = job[n].left

\* An edit is noted by the refreshes that run, in nothing but their touched set.
LEMMA TouchFacts ==
  ASSUME Types, NEW f \in Files, Touch(f)
  PROVE  /\ job' \in [Managers -> Job] /\ hot' \subseteq Files
         /\ \A n \in Managers : SameButTouched(n)
<1>1. hot' \subseteq Files
  BY DEF Types, TypeOK, Touch
<1>2. ASSUME NEW n \in Managers
      PROVE  job'[n] \in Job /\ SameButTouched(n)
  <2>1. job[n] \in Job
    BY DEF Types
  <2>2. job'[n] = IF job[n] = NoJob THEN NoJob ELSE [job[n] EXCEPT !.touched = @ \cup {f}]
    BY DEF Touch
  <2>3. CASE job[n] = NoJob
    BY <2>1, <2>2, <2>3 DEF SameButTouched
  <2>4. CASE job[n] # NoJob
    <3>1. job'[n] = [job[n] EXCEPT !.touched = @ \cup {f}]
      BY <2>2, <2>4
    <3>2. job'[n] \in Job
      BY <2>1, <3>1 DEF Job
    <3>3. QED  BY <2>1, <3>1, <3>2 DEF SameButTouched, Job
  <2>5. QED  BY <2>3, <2>4
<1>3. job' \in [Managers -> Job]
  BY <1>2 DEF Touch
<1>4. QED  BY <1>1, <1>2, <1>3

-----------------------------------------------------------------------------
(* The lock, and the journal under it.                                     *)

Holds(m) == mgr[m].pc \in Holding \/ (m \notin Warm /\ mgr[m].pc # "off")

\* Who is past the lock has it.
LockInv == \A m \in Managers : Holds(m) => lock[Model(m)] = m

UnderJournal(m) ==
  /\ journal[Model(m)] # Nil
  /\ journal[Model(m)].phase = "save-started"
  /\ journal[Model(m)].owner = m

\* A save with sidecars to follow runs under the journal of its process, a
\* recovery finds a journal.
UnderInv == \A m \in Managers :
  /\ mgr[m].pc \in {"save", "complete"} /\ Journaled(m) => UnderJournal(m)
  /\ mgr[m].pc \in {"redo", "redoChunks"} => journal[Model(m)] # Nil

TypeInv == Types /\ LockInv /\ UnderInv

\* What a step of m may do to the lock and the journal, which others use too.
OwnStep(m) ==
  /\ \A n \in Managers : n # m => mgr'[n] = mgr[n] /\ job'[n] = job[n]
  /\ \A k \in Models : k # Model(m) => lock'[k] = lock[k]
  /\ lock'[Model(m)] # lock[Model(m)] => lock[Model(m)] \in {m, Nil}
  /\ \/ journal' = Orphaned(m)
     \/ /\ \A k \in Models : k # Model(m) => journal'[k] = journal[k]
        /\ journal'[Model(m)] # journal[Model(m)] => lock[Model(m)] = m

\* A journal that loses its owner stays a journal.
LEMMA OrphanedFacts ==
  ASSUME journal \in [Models -> Journal \cup {Nil}], NEW m \in Managers
  PROVE  /\ Orphaned(m) \in [Models -> Journal \cup {Nil}]
         /\ \A k \in Models :
              /\ Orphaned(m)[k] = Nil <=> journal[k] = Nil
              /\ journal[k] # Nil =>
                   /\ Orphaned(m)[k].phase = journal[k].phase
                   /\ Orphaned(m)[k].writes = journal[k].writes
                   /\ journal[k].owner # m => Orphaned(m)[k].owner = journal[k].owner
                   /\ journal[k].owner = m => Orphaned(m)[k].owner = Nil
<1>1. ASSUME NEW k \in Models, journal[k] # Nil
      PROVE  /\ Orphaned(m)[k] \in Journal
             /\ Orphaned(m)[k].phase = journal[k].phase
             /\ Orphaned(m)[k].writes = journal[k].writes
             /\ journal[k].owner # m => Orphaned(m)[k].owner = journal[k].owner
             /\ journal[k].owner = m => Orphaned(m)[k].owner = Nil
  <2>1. journal[k] \in Journal
    BY <1>1
  <2>2. CASE journal[k].owner = m
    <3>1. Orphaned(m)[k] = [journal[k] EXCEPT !.owner = Nil]
      BY <1>1, <2>2 DEF Orphaned
    <3>2. QED  BY <2>1, <2>2, <3>1 DEF Journal
  <2>3. CASE journal[k].owner # m
    BY <2>1, <2>3 DEF Orphaned
  <2>4. QED  BY <2>2, <2>3
<1>2. \A k \in Models : journal[k] = Nil => Orphaned(m)[k] = Nil
  BY DEF Orphaned
<1>3. Nil \notin Journal
  BY UpdateAssumption
<1>4. Orphaned(m) \in [Models -> Journal \cup {Nil}]
  BY <1>1, <1>2 DEF Orphaned
<1>5. QED  BY <1>1, <1>2, <1>3, <1>4

\* A step that respects what others hold keeps their part of the invariant.
LEMMA OwnStepKeeps ==
  ASSUME TypeInv, NEW m \in Managers, OwnStep(m),
         Holds(m)' => lock'[Model(m)] = m,
         mgr'[m].pc \in {"save", "complete"} /\ Journaled(m)' => UnderJournal(m)',
         mgr'[m].pc \in {"redo", "redoChunks"} => journal'[Model(m)] # Nil,
         mgr'[m].pc \in {"save", "complete", "hashes", "chunks"} =>
           job'[m].left \subseteq DOMAIN job'[m].pending
  PROVE  LockInv' /\ UnderInv' /\ LeftInv'
<1>1. LeftInv'
  BY DEF TypeInv, Types, LeftInv, OwnStep
<1>2. ASSUME NEW n \in Managers, n # m, Holds(n)
      PROVE  /\ lock[Model(n)] = n /\ lock'[Model(n)] = n
             /\ journal' = Orphaned(m) \/ journal'[Model(n)] = journal[Model(n)]
  <2>1. lock[Model(n)] = n /\ n # Nil /\ Model(n) \in Models
    BY <1>2, UpdateAssumption, ModelFacts DEF TypeInv, LockInv
  <2>2. QED  BY <1>2, <2>1 DEF OwnStep
<1>3. LockInv'
  BY <1>2 DEF LockInv, Holds, OwnStep, Model
<1>4. ASSUME NEW n \in Managers, n # m,
             mgr'[n].pc \in {"save", "complete", "redo", "redoChunks"}
      PROVE  /\ mgr'[n].pc \in {"save", "complete"} /\ Journaled(n)' => UnderJournal(n)'
             /\ mgr'[n].pc \in {"redo", "redoChunks"} => journal'[Model(n)] # Nil
  <2>1. mgr'[n] = mgr[n] /\ Holds(n) /\ (Journaled(n)' <=> Journaled(n))
    BY <1>4 DEF OwnStep, Holds, Holding, Journaled
  <2>2. CASE journal'[Model(n)] = journal[Model(n)]
    BY <1>4, <2>1, <2>2 DEF TypeInv, UnderInv, UnderJournal, Model
  <2>3. CASE journal' = Orphaned(m)
    BY <1>4, <2>1, <2>3, OrphanedFacts, ModelFacts
       DEF TypeInv, Types, TypeOK, UnderInv, UnderJournal, Model
  <2>4. QED  BY <1>2, <1>4, <2>1, <2>2, <2>3
<1>5. UnderInv'
  BY <1>4 DEF UnderInv, UnderJournal, Model
<1>6. QED  BY <1>1, <1>3, <1>5

\* The next state of what processes change is well typed.
DisksTyped ==
  /\ hash' \in [Files -> Contents \cup {Nil}]
  /\ chunks' \in [Files -> {ChunksOf[c] : c \in Contents} \cup {Nil}]
  /\ disk' \in [Models -> Indexes \cup {Nil}]
  /\ fresh' \subseteq {k \in Models : disk'[k] # Nil}

ProcessesTyped ==
  /\ journal' \in [Models -> Journal \cup {Nil}]
  /\ lock' \in [Models -> Managers \cup {Nil}]
  /\ mgr' \in [Managers -> Manager]
  /\ job' \in [Managers -> Job]

\* A step of one process keeps the type invariant if what it writes is of its
\* kind, if it holds the lock where it needs it, and if it saves under a journal.
LEMMA OwnStepTyped ==
  ASSUME TypeInv, NEW m \in Managers, OwnStep(m), UNCHANGED world, DisksTyped, ProcessesTyped,
         Holds(m)' => lock'[Model(m)] = m,
         mgr'[m].pc \in {"save", "complete"} /\ Journaled(m)' => UnderJournal(m)',
         mgr'[m].pc \in {"redo", "redoChunks"} => journal'[Model(m)] # Nil,
         mgr'[m].pc \in {"save", "complete", "hashes", "chunks"} =>
           job'[m].left \subseteq DOMAIN job'[m].pending
  PROVE  TypeInv'
<1>1. LockInv' /\ UnderInv' /\ LeftInv'
  BY OwnStepKeeps
<1>2. TypeOK'
  <2>1. /\ file' \in [Files -> Contents \cup {Nil}]
        /\ hot' \subseteq Files
    BY DEF TypeInv, Types, TypeOK, world
  <2>2. DOMAIN disk' = Models /\ \A k \in Models : IsIndex(disk[k])'
    BY DEF DisksTyped, IsIndex
  <2>3. DOMAIN mgr' = Managers /\ \A n \in Managers : IsIndex(mgr[n].mem)'
    BY DEF ProcessesTyped, IsIndex, Manager
  <2>4. QED  BY <2>1, <2>2, <2>3 DEF TypeOK, DisksTyped, ProcessesTyped, IsIndex
<1>3. had' \in [Files -> SUBSET Contents]
  BY DEF TypeInv, Types, world
<1>4. Types'
  BY <1>1, <1>2, <1>3 DEF Types, DisksTyped, ProcessesTyped
<1>5. QED  BY <1>1, <1>4 DEF TypeInv

\* The types of a state, as the steps need them.
LEMMA TypeFacts ==
  ASSUME TypeInv
  PROVE  /\ Types
         /\ file \in [Files -> Contents \cup {Nil}]
         /\ hash \in [Files -> Contents \cup {Nil}]
         /\ chunks \in [Files -> {ChunksOf[c] : c \in Contents} \cup {Nil}]
         /\ disk \in [Models -> Indexes \cup {Nil}]
         /\ fresh \subseteq {k \in Models : disk[k] # Nil}
         /\ journal \in [Models -> Journal \cup {Nil}]
         /\ lock \in [Models -> Managers \cup {Nil}]
         /\ mgr \in [Managers -> Manager]
         /\ job \in [Managers -> Job]
BY DEF TypeInv, Types, TypeOK

\* Without sidecars the sidecars are well typed.
LEMMA PurgedTyped ==
  ASSUME PurgeAllSidecars
  PROVE  /\ hash' \in [Files -> Contents \cup {Nil}]
         /\ chunks' \in [Files -> {ChunksOf[c] : c \in Contents} \cup {Nil}]
         /\ \A f \in Files : hash'[f] = Nil /\ chunks'[f] = Nil
BY DEF PurgeAllSidecars

\* Edits, deletions and the clock keep types, lock and journals.
LEMMA WorldTypes ==
  ASSUME TypeInv, NEW f \in Files, Edit(f) \/ Delete(f) \/ Cool(f)
  PROVE  TypeInv'
<1>1. /\ job' \in [Managers -> Job] /\ hot' \subseteq Files
      /\ \A n \in Managers : SameButTouched(n)
  <2>1. CASE Edit(f) \/ Delete(f)
    BY <2>1, TouchFacts DEF Edit, Delete, TypeInv
  <2>2. CASE Cool(f)
    BY <2>2 DEF Cool, TypeInv, Types, TypeOK, SameButTouched
  <2>3. QED  BY <2>1, <2>2
<1>2. UNCHANGED <<sidecars, disks, lock, mgr>>
  BY DEF Edit, Delete, Cool
<1>3. /\ file' \in [Files -> Contents \cup {Nil}]
      /\ had' \in [Files -> SUBSET Contents]
  BY DEF TypeInv, Types, TypeOK, Edit, Delete, Cool
<1>4. LeftInv'
  BY <1>1, <1>2 DEF TypeInv, Types, LeftInv, SameButTouched
<1>5. TypeOK'
  BY <1>1, <1>2, <1>3 DEF TypeInv, Types, TypeOK, sidecars, disks, IsIndex
<1>6. Types'
  BY <1>1, <1>2, <1>3, <1>4, <1>5 DEF TypeInv, Types, disks
<1>7. LockInv' /\ UnderInv'
  <2>1. \A n \in Managers : Journaled(n)' <=> Journaled(n)
    BY <1>1 DEF Journaled, SameButTouched
  <2>2. QED
    BY <1>2, <2>1 DEF TypeInv, LockInv, UnderInv, Holds, UnderJournal, disks, Model
<1>8. QED  BY <1>6, <1>7 DEF TypeInv

\* A crash gives the lock back and leaves the journal without an owner.
LEMMA CrashTypes ==
  ASSUME TypeInv, NEW m \in Managers, Crash(m)
  PROVE  TypeInv'
<1> USE TypeFacts
<1>1. DisksTyped
  BY DEF Crash, DisksTyped, sidecars
<1>2. /\ mgr' \in [Managers -> Manager] /\ job' \in [Managers -> Job]
      /\ mgr'[m] = Off /\ job'[m] = NoJob
      /\ \A n \in Managers : n # m => mgr'[n] = mgr[n] /\ job'[n] = job[n]
  BY NoJobTyped DEF Crash, Off, Manager, PC
<1>3. ProcessesTyped
  BY <1>2, OrphanedFacts DEF Crash, ProcessesTyped
<1>4. OwnStep(m)
  BY <1>2 DEF Crash, OwnStep
<1>5. mgr'[m].pc = "off"
  BY <1>2 DEF Off
<1>6. ~Holds(m)'
  BY <1>5 DEF Holds, Holding
<1>7. UNCHANGED world
  BY DEF Crash
<1>8. QED  BY <1>1, <1>3, <1>4, <1>5, <1>6, <1>7, OwnStepTyped

\* ToLoad: the lock is Nil for a warm process and its own for a cold one.
LEMMA ToLoadFacts ==
  ASSUME TypeInv, NEW m \in Managers, ToLoad(m), lock[Model(m)] \in {m, Nil}
  PROVE  /\ mgr' \in [Managers -> Manager]
         /\ mgr'[m].pc = "load" /\ mgr'[m].mem = mgr[m].mem
         /\ \A n \in Managers : n # m => mgr'[n] = mgr[n]
         /\ lock' \in [Models -> Managers \cup {Nil}]
         /\ \A k \in Models : k # Model(m) => lock'[k] = lock[k]
         /\ m \notin Warm => lock'[Model(m)] = m
         /\ Holds(m)' => lock'[Model(m)] = m
<1>1. /\ mgr' \in [Managers -> Manager]
      /\ mgr'[m].pc = "load" /\ mgr'[m].mem = mgr[m].mem
      /\ \A n \in Managers : n # m => mgr'[n] = mgr[n]
  BY TypeFacts, GoFacts DEF ToLoad, PC, Booting
<1>2. /\ lock' \in [Models -> Managers \cup {Nil}]
      /\ \A k \in Models : k # Model(m) => lock'[k] = lock[k]
      /\ m \notin Warm => lock'[Model(m)] = m
  BY TypeFacts, ModelFacts DEF ToLoad
<1>3. QED  BY <1>1, <1>2 DEF Holds, Holding

\* A start takes the free lock, or goes on without it as a warm process may.
LEMMA StartTypes ==
  ASSUME TypeInv, NEW m \in Managers, Start(m)
  PROVE  TypeInv'
<1> USE TypeFacts, ModelFacts
<1>1. /\ UNCHANGED <<world, sidecars, disks, job>>
      /\ lock[Model(m)] = Nil
  BY DEF Start
<1>2. DisksTyped
  BY <1>1 DEF DisksTyped, sidecars, disks
<1>3. CASE Recovery(Model(m)) = "none"
  <2>1. ToLoad(m)
    BY <1>3 DEF Start
  <2>2. OwnStep(m) /\ ProcessesTyped
    BY <1>1, <2>1, ToLoadFacts DEF OwnStep, ProcessesTyped, disks
  <2>3. Holds(m)' => lock'[Model(m)] = m
    BY <1>1, <2>1, ToLoadFacts
  <2>4. mgr'[m].pc = "load"
    BY <1>1, <2>1, ToLoadFacts
  <2>5. QED  BY <1>1, <1>2, <2>2, <2>3, <2>4, OwnStepTyped
<1>4. CASE Recovery(Model(m)) # "none"
  <2>1. /\ journal[Model(m)] # Nil
        /\ Recovery(Model(m)) \in {"undo", "redo"}
    BY <1>4 DEF Recovery, Journal
  <2>2. Go(m, Recovery(Model(m))) /\ lock' = [lock EXCEPT ![Model(m)] = m]
    BY <1>4 DEF Start
  <2>3. /\ mgr' \in [Managers -> Manager]
        /\ mgr'[m].pc = Recovery(Model(m))
        /\ \A n \in Managers : n # m => mgr'[n] = mgr[n]
    BY <2>1, <2>2, GoFacts DEF PC, Holding
  <2>4. OwnStep(m) /\ ProcessesTyped
    BY <1>1, <2>2, <2>3 DEF OwnStep, ProcessesTyped, disks
  <2>5. lock'[Model(m)] = m /\ journal'[Model(m)] # Nil
    BY <1>1, <2>1, <2>2 DEF disks
  <2>6. mgr'[m].pc \notin {"save", "complete", "hashes", "chunks"}
    BY <2>1, <2>3
  <2>7. QED  BY <1>1, <1>2, <2>4, <2>5, <2>6, OwnStepTyped
<1>5. QED  BY <1>3, <1>4

\* The steps of a recovery keep types, lock and journals.
LEMMA RecoveryTypes ==
  ASSUME TypeInv, NEW m \in Managers,
         UndoStore(m) \/ UndoSidecars(m) \/ RedoHashes(m) \/ RedoChunks(m)
  PROVE  TypeInv'
<1> USE TypeFacts, ModelFacts
<1>1. /\ UNCHANGED <<world, journal, lock, job>>
      /\ lock[Model(m)] = m
  BY DEF UndoStore, UndoSidecars, RedoHashes, RedoChunks, disks, TypeInv, LockInv, Holds, Holding
<1>2. PICK p \in {"undoSidecars", "undone", "redoChunks"} :
        Go(m, p) /\ (p = "redoChunks" => mgr[m].pc = "redo")
  BY DEF UndoStore, UndoSidecars, RedoHashes, RedoChunks
<1>3. /\ mgr' \in [Managers -> Manager] /\ mgr'[m].pc = p
      /\ \A n \in Managers : n # m => mgr'[n] = mgr[n]
  BY <1>2, GoFacts DEF PC, Holding
<1>4. OwnStep(m) /\ ProcessesTyped
  BY <1>1, <1>3 DEF OwnStep, ProcessesTyped
<1>5. /\ Holds(m)' => lock'[Model(m)] = m
      /\ mgr'[m].pc \in {"redo", "redoChunks"} => journal'[Model(m)] # Nil
      /\ mgr'[m].pc \notin {"save", "complete", "hashes", "chunks"}
  BY <1>1, <1>2, <1>3 DEF TypeInv, UnderInv
<1>6. DisksTyped
  <2>1. CASE UndoStore(m)
    BY <2>1 DEF UndoStore, DisksTyped, sidecars
  <2>2. CASE UndoSidecars(m)
    BY <2>2, PurgedTyped DEF UndoSidecars, DisksTyped, disks
  <2>3. ASSUME RedoHashes(m) \/ RedoChunks(m)
        PROVE  \A f \in DOMAIN journal[Model(m)].writes :
                 journal[Model(m)].writes[f] \in Sidecar
    <3>1. journal[Model(m)] \in Journal
      BY <2>3 DEF RedoHashes, RedoChunks, TypeInv, UnderInv
    <3>2. journal[Model(m)].writes \in Partial(Sidecar)
      BY <3>1 DEF Journal, Partial
    <3>3. QED  BY <3>2, PartialFacts
  <2>4. CASE RedoHashes(m)
    BY <2>3, <2>4 DEF RedoHashes, DisksTyped, disks, Sidecar
  <2>5. CASE RedoChunks(m)
    BY <2>3, <2>5 DEF RedoChunks, DisksTyped, disks, Sidecar
  <2>6. QED  BY <2>1, <2>2, <2>4, <2>5
<1>7. QED  BY <1>1, <1>4, <1>5, <1>6, OwnStepTyped

\* The steps of a start after its recovery keep types, lock and journals.
LEMMA LoadTypes ==
  ASSUME TypeInv, NEW m \in Managers,
         Load(m) \/ PurgeForLostStore(m) \/ Initialized(m)
  PROVE  TypeInv'
<1> USE TypeFacts, ModelFacts
<1>1. UNCHANGED <<world, journal, lock, job>>
  BY DEF Load, PurgeForLostStore, Initialized, disks
<1>2. PICK p \in {"lost", "loaded", "ready"}, x \in Indexes \cup {Nil} : Become(m, p, x)
  <2>1. CASE Load(m)
    BY <2>1 DEF Load
  <2>2. CASE PurgeForLostStore(m) \/ Initialized(m)
    BY <2>2 DEF PurgeForLostStore, Initialized, Go, Become, Manager
  <2>3. QED  BY <2>1, <2>2
<1>3. /\ mgr' \in [Managers -> Manager] /\ mgr'[m].pc = p
      /\ \A n \in Managers : n # m => mgr'[n] = mgr[n]
  BY <1>2, BecomeFacts DEF PC, Booting
<1>4. OwnStep(m) /\ ProcessesTyped
  BY <1>1, <1>3 DEF OwnStep, ProcessesTyped
<1>5. mgr[m].pc # "off"
  BY DEF Load, PurgeForLostStore, Initialized
<1>6. Holds(m)' => lock'[Model(m)] = m
  BY <1>1, <1>3, <1>5 DEF TypeInv, LockInv, Holds, Holding
<1>7. mgr'[m].pc \notin {"save", "complete", "redo", "redoChunks", "hashes", "chunks"}
  BY <1>3
<1>8. DisksTyped
  <2>1. CASE Load(m)
    BY <2>1 DEF Load, DisksTyped, sidecars
  <2>2. CASE PurgeForLostStore(m)
    BY <2>2, PurgedTyped DEF PurgeForLostStore, DisksTyped, disks
  <2>3. CASE Initialized(m)
    BY <2>3 DEF Initialized, DisksTyped, disks, sidecars
  <2>4. QED  BY <2>1, <2>2, <2>3
<1>9. QED  BY <1>1, <1>4, <1>6, <1>7, <1>8, OwnStepTyped

\* The removal of a journal that was undone or redone keeps the types.
LEMMA RecoveredTypes ==
  ASSUME TypeInv, NEW m \in Managers, Recovered(m)
  PROVE  TypeInv'
<1> USE TypeFacts, ModelFacts
<1>1. lock[Model(m)] = m /\ ToLoad(m)
  BY DEF Recovered, TypeInv, LockInv, Holds, Holding
<1>2. ProcessesTyped
  BY <1>1, ToLoadFacts DEF Recovered, ProcessesTyped
<1>3. OwnStep(m)
  BY <1>1, ToLoadFacts DEF Recovered, OwnStep
<1>4. DisksTyped
  BY DEF Recovered, DisksTyped, sidecars
<1>5. UNCHANGED world
  BY DEF Recovered
<1>6. Holds(m)' => lock'[Model(m)] = m
  BY <1>1, ToLoadFacts
<1>7. mgr'[m].pc = "load"
  BY <1>1, ToLoadFacts
<1>8. QED  BY <1>2, <1>3, <1>4, <1>5, <1>6, <1>7, OwnStepTyped

\* A refresh is begun under the lock.
LEMMA BeginTypes ==
  ASSUME TypeInv, NEW m \in Managers,
         BeginForced(m) \/ \E S \in Scopes : Begin(m, S)
  PROVE  TypeInv'
<1> USE TypeFacts, ModelFacts
<1>1. /\ UNCHANGED <<world, sidecars, disks>>
      /\ lock[Model(m)] \in {m, Nil} /\ lock' = [lock EXCEPT ![Model(m)] = m]
      /\ job' \in [Managers -> Job] /\ \A n \in Managers : n # m => job'[n] = job[n]
  BY BeginFacts, BeginForcedFacts DEF Begin, BeginForced, HasLock, Fresh
<1>2. PICK p \in {"invalidate", "scan"}, x \in Indexes \cup {Nil} : Become(m, p, x)
  BY GoBecomes DEF Begin, BeginForced
<1>3. /\ mgr' \in [Managers -> Manager] /\ mgr'[m].pc = p
      /\ \A n \in Managers : n # m => mgr'[n] = mgr[n]
  BY <1>2, BecomeFacts DEF PC, Holding
<1>4. OwnStep(m) /\ ProcessesTyped
  BY <1>1, <1>3 DEF OwnStep, ProcessesTyped, disks
<1>5. DisksTyped
  BY <1>1 DEF DisksTyped, sidecars, disks
<1>6. lock'[Model(m)] = m
      /\ mgr'[m].pc \notin {"save", "complete", "redo", "redoChunks", "hashes", "chunks"}
  BY <1>1, <1>3
<1>7. QED  BY <1>1, <1>4, <1>5, <1>6, OwnStepTyped

\* The steps of a refresh that change neither disk nor journal nor lock.
LEMMA QuietTypes ==
  ASSUME TypeInv, NEW m \in Managers,
         \/ Invalidate(m) \/ Scan(m) \/ Extract(m) \/ Rebuild(m)
         \/ Embed(m) \/ Fallback(m) \/ FallbackBuild(m)
  PROVE  TypeInv'
<1> USE TypeFacts, ModelFacts
<1>1. /\ UNCHANGED <<world, disks, lock>>
      /\ lock[Model(m)] = m
  BY DEF Invalidate, Scan, Extract, Rebuild, Embed, Fallback, FallbackBuild,
         TypeInv, LockInv, Holds, Holding
<1>2. job' \in [Managers -> Job] /\ \A n \in Managers : n # m => job'[n] = job[n]
  <2>1. CASE Invalidate(m) \/ Fallback(m)
    BY <2>1 DEF Invalidate, Fallback
  <2>2. CASE Scan(m)
    BY <2>2, ScanFacts
  <2>3. CASE Extract(m)
    BY <2>3, ExtractFacts DEF Kept
  <2>4. CASE Rebuild(m)
    BY <2>4, RebuildFacts DEF Kept
  <2>5. CASE Embed(m)
    BY <2>5, EmbedFacts
  <2>6. CASE FallbackBuild(m)
    BY <2>6, FallbackBuildFacts
  <2>7. QED  BY <2>1, <2>2, <2>3, <2>4, <2>5, <2>6
<1>3. PICK p \in {"scan", "extract", "rebuild", "embed", "fallback", "persist"},
           x \in Indexes \cup {Nil} : Become(m, p, x)
  <2>1. CASE Invalidate(m) \/ Scan(m) \/ Fallback(m)
    BY <2>1, GoBecomes DEF Invalidate, Scan, Fallback
  <2>2. CASE Extract(m)
    <3>1. \E p \in {"embed", "rebuild"} : Go(m, p) \/ Become(m, p, Nil) \/ Become(m, p, disk[Model(m)])
      BY <2>2, ExtractFacts DEF Extracted
    <3>2. QED  BY <3>1, GoBecomes
  <2>3. CASE Rebuild(m)
    <3>1. Go(m, "embed") \/ Become(m, "embed", disk[Model(m)])
      BY <2>3, RebuildFacts
    <3>2. QED  BY <3>1, GoBecomes
  <2>4. CASE Embed(m)
    BY <2>4, EmbedFacts
  <2>5. CASE FallbackBuild(m)
    BY <2>5, FallbackBuildFacts
  <2>6. QED  BY <2>1, <2>2, <2>3, <2>4, <2>5
<1>4. /\ mgr' \in [Managers -> Manager] /\ mgr'[m].pc = p
      /\ \A n \in Managers : n # m => mgr'[n] = mgr[n]
  BY <1>3, BecomeFacts DEF PC, Holding
<1>5. OwnStep(m) /\ ProcessesTyped
  BY <1>1, <1>2, <1>4 DEF OwnStep, ProcessesTyped, disks
<1>6. DisksTyped
  <2>1. CASE Invalidate(m)
    BY <1>1, <2>1, PurgedTyped DEF Invalidate, DisksTyped, disks
  <2>2. CASE ~Invalidate(m)
    BY <1>1, <2>2
       DEF Scan, Extract, Rebuild, Embed, Fallback, FallbackBuild, DisksTyped, disks, sidecars
  <2>3. QED  BY <2>1, <2>2
<1>7. /\ Holds(m)' => lock'[Model(m)] = m
      /\ mgr'[m].pc \notin {"save", "complete", "redo", "redoChunks", "hashes", "chunks"}
  BY <1>1, <1>4
<1>8. QED  BY <1>1, <1>5, <1>6, <1>7, OwnStepTyped

\* A refresh that ends gives back a lock that it holds.
LEMMA RestTypes ==
  ASSUME TypeInv, NEW m \in Managers, NEW x \in Indexes \cup {Nil}, Rest(m, x),
         mgr[m].pc \in Holding, UNCHANGED world, DisksTyped,
         \/ journal' = journal
         \/ journal' = Orphaned(m)
         \/ journal' = [journal EXCEPT ![Model(m)] = Nil]
  PROVE  TypeInv'
<1> USE TypeFacts, ModelFacts
<1>1. lock[Model(m)] = m
  BY DEF TypeInv, LockInv, Holds
<1>2. /\ mgr' \in [Managers -> Manager] /\ job' \in [Managers -> Job]
      /\ mgr'[m].pc = (IF m \in Warm THEN "ready" ELSE "off")
      /\ \A n \in Managers : n # m => mgr'[n] = mgr[n] /\ job'[n] = job[n]
  BY RestFacts
<1>3. lock' = [lock EXCEPT ![Model(m)] = Nil]
  BY DEF Rest, Unlock
<1>4. OwnStep(m)
  BY <1>1, <1>2, <1>3 DEF OwnStep
<1>5. ProcessesTyped
  BY <1>2, <1>3, OrphanedFacts DEF ProcessesTyped
<1>6. ~Holds(m)'
      /\ mgr'[m].pc \notin {"save", "complete", "redo", "redoChunks", "hashes", "chunks"}
  BY <1>2 DEF Holds, Holding
<1>7. QED  BY <1>4, <1>5, <1>6, OwnStepTyped

\* Only chunks of files are embedded.
LEMMA BatchTyped ==
  ASSUME TypeInv, NEW m \in Managers
  PROVE  Batch(m) \in Partial(Seq(Chunk))
<1> USE TypeFacts, ModelFacts
<1>1. CASE mgr[m].pc = "embed"
  BY <1>1 DEF Batch, Job
<1>2. CASE mgr[m].pc = "fallback" /\ NeedsFallback(m)
  <2> DEFINE files == NonEmpty(job[m].listed \ job[m].deferred)
             chunked == [f \in files |-> ChunksOf[file[f]]]
  <2>1. job[m].listed \ job[m].deferred \in SUBSET Files
    BY DEF Job
  <2>2. \A f \in files : f \in Files /\ ChunksOf[file[f]] \in Seq(Chunk)
    BY <2>1, NonEmptyFacts DEF TypeInv, Types
  <2>3. chunked \in [DOMAIN chunked -> Seq(Chunk)] /\ DOMAIN chunked \subseteq Files
    BY <2>2
  <2>4. chunked \in Partial(Seq(Chunk))
    BY <2>3, PartialFacts
  <2>5. Batch(m) = chunked
    BY <1>2 DEF Batch
  <2>6. QED  BY <2>4, <2>5
<1>3. CASE ~(mgr[m].pc = "embed") /\ ~(mgr[m].pc = "fallback" /\ NeedsFallback(m))
  BY <1>3, PartialFacts DEF Batch, Empty
<1>4. QED  BY <1>1, <1>2, <1>3

\* Every way in which a refresh fails ends it.
LEMMA FailureTypes ==
  ASSUME TypeInv, NEW m \in Managers, Failure(m)
  PROVE  TypeInv'
<1> USE TypeFacts, ModelFacts
<1>1. mgr[m].pc \in Holding /\ mgr[m].mem \in Indexes \cup {Nil}
  BY DEF Failure, EmbedFails, Batch, JournalFails, SaveFails, CompleteFails,
         SidecarFails, Holding, Manager
<1>2. UNCHANGED <<world, sidecars, disk, fresh>>
  BY DEF Failure, EmbedFails, JournalFails, SaveFails, CompleteFails,
         SidecarFails
<1>3. DisksTyped
  BY <1>2 DEF DisksTyped, sidecars
<1>4. CASE EmbedFails(m)
  <2> DEFINE batch == Batch(m)
  <2>1. batch \in Partial(Seq(Chunk))
    BY BatchTyped
  <2>2. batch \in [DOMAIN batch -> Seq(Chunk)] /\ DOMAIN batch \subseteq Files
    BY <2>1, PartialFacts
  <2> HIDE DEF batch
  <2>3. PICK done \in SUBSET DOMAIN batch :
          Rest(m, IF done = {} THEN mgr[m].mem
                  ELSE Appended(mgr[m].mem, [f \in done |-> batch[f]]))
    BY <1>4 DEF EmbedFails, batch
  <2> DEFINE part == [f \in done |-> batch[f]]
  <2>4. part \in [DOMAIN part -> Seq(Chunk)] /\ DOMAIN part \subseteq Files
    BY <2>2
  <2>5. part \in Partial(Seq(Chunk))
    BY <2>4, PartialFacts
  <2>6. (IF done = {} THEN mgr[m].mem ELSE Appended(mgr[m].mem, part)) \in Indexes \cup {Nil}
    BY <1>1, <2>5, AppendedTyped
  <2> HIDE DEF part
  <2>7. journal' = journal \/ journal' = Orphaned(m)
    BY <1>4 DEF EmbedFails
  <2>8. QED  BY <1>1, <1>2, <1>3, <2>3, <2>6, <2>7, RestTypes DEF part
<1>5. CASE JournalFails(m) \/ SaveFails(m) \/ CompleteFails(m)
  <2>1. Abort(m)
    BY <1>5 DEF JournalFails, SaveFails, CompleteFails
  <2>2. QED  BY <1>1, <1>2, <1>3, <2>1, RestTypes DEF Abort
<1>6. CASE SidecarFails(m)
  BY <1>1, <1>2, <1>3, <1>6, RestTypes DEF SidecarFails
<1>7. QED  BY <1>4, <1>5, <1>6 DEF Failure

\* The journal of a refresh is written, completed and cleared by its process,
\* which also writes the sidecars.
LEMMA CommitTypes ==
  ASSUME TypeInv, NEW m \in Managers,
         Persist(m) \/ Save(m) \/ Complete(m) \/ WriteHash(m) \/ WriteChunks(m) \/ ClearJournal(m)
  PROVE  TypeInv'
<1> USE TypeFacts, ModelFacts
<1>1. /\ UNCHANGED <<world, lock>>
      /\ lock[Model(m)] = m
  BY DEF Persist, Save, Complete, WriteHash, WriteChunks, ClearJournal,
         TypeInv, LockInv, Holds, Holding
<1>2. /\ job[m].pending \in [DOMAIN job[m].pending -> Sidecar]
      /\ DOMAIN job[m].pending \subseteq Files /\ job[m].left \subseteq Files
      /\ job[m].pending \in Partial(Sidecar)
  BY PartialFacts DEF Job
<1>3. CASE Persist(m)
  <2>1. PICK p \in {"save", "hashes", "finish"} :
          Go(m, p) /\ (p = "save" => job[m].mutated)
    BY <1>3 DEF Persist
  <2>2. /\ mgr' \in [Managers -> Manager] /\ mgr'[m].pc = p
        /\ \A n \in Managers : n # m => mgr'[n] = mgr[n]
    BY <2>1, GoFacts DEF PC, Holding
  <2>3. Started(m) \in Journal
    BY <1>2, UpdateAssumption DEF Started, Journal, Partial
  <2>4. journal' = IF job[m].mutated /\ Journaled(m) THEN [journal EXCEPT ![Model(m)] = Started(m)] ELSE journal
    BY <1>3 DEF Persist
  <2>5. ProcessesTyped
    BY <1>1, <1>3, <2>2, <2>3, <2>4, PersistFacts DEF ProcessesTyped
  <2>6. OwnStep(m)
    BY <1>1, <1>3, <2>2, <2>4, PersistFacts DEF OwnStep
  <2>7. mgr'[m].pc \in {"save", "complete"} /\ Journaled(m)' => UnderJournal(m)'
    <3>1. SUFFICES ASSUME p = "save", Journaled(m)
                   PROVE  UnderJournal(m)'
      BY <1>3, <2>2, PersistFacts DEF Journaled
    <3>2. journal'[Model(m)] = Started(m)
      BY <2>1, <2>4, <3>1
    <3>3. Started(m) # Nil /\ Started(m).phase = "save-started" /\ Started(m).owner = m
      BY <2>3, UpdateAssumption DEF Started
    <3>4. QED  BY <3>2, <3>3 DEF UnderJournal, Model
  <2>8. job'[m].left \subseteq DOMAIN job'[m].pending
    BY <1>3, PersistFacts
  <2>9. DisksTyped
    BY <1>3 DEF Persist, DisksTyped, sidecars
  <2>10. mgr'[m].pc \notin {"redo", "redoChunks"} /\ lock'[Model(m)] = m
    BY <1>1, <2>2
  <2>11. QED  BY <1>1, <2>5, <2>6, <2>7, <2>8, <2>9, <2>10, OwnStepTyped
<1>4. CASE Save(m)
  <2>1. /\ mgr' \in [Managers -> Manager] /\ mgr'[m].pc = "complete"
        /\ \A n \in Managers : n # m => mgr'[n] = mgr[n]
    BY <1>4, GoFacts DEF Save, PC, Holding
  <2>2. UNCHANGED <<journal, job>>
    BY <1>4 DEF Save
  <2>3. ProcessesTyped /\ OwnStep(m)
    BY <1>1, <2>1, <2>2 DEF ProcessesTyped, OwnStep
  <2>4. DisksTyped
    BY <1>4 DEF Save, DisksTyped, sidecars, Manager
  <2>5. Journaled(m)' => UnderJournal(m)'
    BY <1>4, <2>2 DEF Save, TypeInv, UnderInv, UnderJournal, Journaled, Model
  <2>6. job'[m].left \subseteq DOMAIN job'[m].pending
    BY <1>4, <2>2 DEF Save, Types, LeftInv
  <2>7. QED  BY <1>1, <2>1, <2>3, <2>4, <2>5, <2>6, OwnStepTyped
<1>5. CASE Complete(m)
  <2>1. PICK p \in {"hashes", "finish"} : Go(m, p)
    BY <1>5 DEF Complete
  <2>2. /\ mgr' \in [Managers -> Manager] /\ mgr'[m].pc = p
        /\ \A n \in Managers : n # m => mgr'[n] = mgr[n]
    BY <2>1, GoFacts DEF PC, Holding
  <2>3. /\ journal' \in [Models -> Journal \cup {Nil}]
        /\ \A k \in Models : k # Model(m) => journal'[k] = journal[k]
    <3>1. CASE Journaled(m)
      <4>1. journal[Model(m)] \in Journal
        BY <1>5, <3>1 DEF Complete, TypeInv, UnderInv, UnderJournal
      <4>2. [journal[Model(m)] EXCEPT !.phase = "save-complete"] \in Journal
        BY <4>1 DEF Journal
      <4>3. journal' =
              [journal EXCEPT ![Model(m)] = [journal[Model(m)] EXCEPT !.phase = "save-complete"]]
        BY <1>5, <3>1 DEF Complete
      <4>4. QED  BY <4>2, <4>3
    <3>2. CASE ~Journaled(m)
      BY <1>5, <3>2 DEF Complete
    <3>3. QED  BY <3>1, <3>2
  <2>4. job' = job
    BY <1>5 DEF Complete
  <2>5. ProcessesTyped
    BY <1>1, <2>2, <2>3, <2>4 DEF ProcessesTyped
  <2>6. OwnStep(m)
    BY <1>1, <2>2, <2>3, <2>4 DEF OwnStep
  <2>7. DisksTyped
    BY <1>5 DEF Complete, DisksTyped, sidecars
  <2>8. job'[m].left \subseteq DOMAIN job'[m].pending
    BY <1>5, <2>4 DEF Complete, Types, LeftInv
  <2>9. QED  BY <1>1, <2>2, <2>5, <2>6, <2>7, <2>8, OwnStepTyped
<1>6. CASE WriteHash(m) \/ WriteChunks(m)
  <2>1. PICK f \in job[m].left :
          /\ \/ hash' = [hash EXCEPT ![f] = job[m].pending[f].hash] /\ chunks' = chunks
             \/ chunks' = [chunks EXCEPT ![f] = job[m].pending[f].chunks] /\ hash' = hash
          /\ \/ /\ job' = [job EXCEPT ![m].left = DOMAIN job[m].pending]
                /\ Go(m, "chunks")
             \/ /\ job' = [job EXCEPT ![m].left = job[m].left \ {f}]
                /\ \E p \in {"hashes", "chunks", "clear"} : Go(m, p)
    BY <1>6 DEF WriteHash, WriteChunks
  <2>2. job[m].left \subseteq DOMAIN job[m].pending
    BY <1>6 DEF WriteHash, WriteChunks, Types, LeftInv
  <2>3. PICK S \in SUBSET DOMAIN job[m].pending : job' = [job EXCEPT ![m].left = S]
    BY <2>1, <2>2
  <2>4. /\ job' \in [Managers -> Job] /\ \A n \in Managers : n # m => job'[n] = job[n]
        /\ job'[m].left = S /\ job'[m].pending = job[m].pending
    BY <1>2, <2>3, LeftFacts
  <2>5. PICK p \in {"hashes", "chunks", "clear"} : Go(m, p)
    BY <2>1
  <2>6. /\ mgr' \in [Managers -> Manager] /\ mgr'[m].pc = p
        /\ \A n \in Managers : n # m => mgr'[n] = mgr[n]
    BY <2>5, GoFacts DEF PC, Holding
  <2>7. UNCHANGED disks
    BY <1>6 DEF WriteHash, WriteChunks
  <2>8. ProcessesTyped /\ OwnStep(m)
    BY <1>1, <2>4, <2>6, <2>7 DEF ProcessesTyped, OwnStep, disks
  <2>9. job[m].pending[f] \in Sidecar /\ f \in Files
    BY <1>2, <2>2
  <2>10. DisksTyped
    BY <2>1, <2>7, <2>9 DEF DisksTyped, disks, Sidecar
  <2>11. job'[m].left \subseteq DOMAIN job'[m].pending
    BY <2>4
  <2>12. lock'[Model(m)] = m
         /\ mgr'[m].pc \notin {"save", "complete", "redo", "redoChunks"}
    BY <1>1, <2>6
  <2>13. QED  BY <1>1, <2>8, <2>10, <2>11, <2>12, OwnStepTyped
<1>7. CASE ClearJournal(m)
  <2>1. /\ mgr' \in [Managers -> Manager] /\ mgr'[m].pc = "finish"
        /\ \A n \in Managers : n # m => mgr'[n] = mgr[n]
    BY <1>7, GoFacts DEF ClearJournal, PC, Holding
  <2>2. ProcessesTyped /\ OwnStep(m)
    BY <1>1, <1>7, <2>1 DEF ClearJournal, ProcessesTyped, OwnStep
  <2>3. DisksTyped
    BY <1>7 DEF ClearJournal, DisksTyped, sidecars
  <2>4. QED  BY <1>1, <2>1, <2>2, <2>3, OwnStepTyped
<1>8. QED  BY <1>3, <1>4, <1>5, <1>6, <1>7

\* Finish ends the refresh; it certifies only an index that is there.
LEMMA FinishTypes ==
  ASSUME TypeInv, NEW m \in Managers, Finish(m)
  PROVE  TypeInv'
<1> USE TypeFacts, ModelFacts
<1>1. /\ mgr[m].pc \in Holding /\ mgr[m].mem \in Indexes \cup {Nil}
      /\ Rest(m, mgr[m].mem) /\ UNCHANGED <<world, sidecars>>
      /\ journal' = journal \/ journal' = Orphaned(m)
  BY DEF Finish, Holding, Manager
<1>2. DisksTyped
  BY DEF Finish, DisksTyped, sidecars, Certified
<1>3. QED  BY <1>1, <1>2, RestTypes

-----------------------------------------------------------------------------
\* Before the first start everything is of its kind.
LEMMA TypesInit == Init => TypeInv
<1> SUFFICES ASSUME Init
             PROVE  TypeInv
  OBVIOUS
<1>1. /\ file \in [Files -> Contents \cup {Nil}] /\ had \in [Files -> SUBSET Contents]
      /\ disk \in [Models -> Indexes \cup {Nil}]
      /\ \A m \in Managers : mgr[m] = Off
  BY UpdateAssumption DEF Init
<1>2. mgr \in [Managers -> Manager] /\ \A m \in Managers : mgr[m].pc = "off"
  BY <1>1 DEF Init, Off, Manager, PC
<1>3. job \in [Managers -> Job]
  BY NoJobTyped DEF Init
<1>4. TypeOK
  BY <1>1, <1>2 DEF Init, TypeOK, IsIndex, Off
<1>5. LockInv /\ UnderInv /\ LeftInv
  BY <1>2 DEF LockInv, UnderInv, LeftInv, Holds, Holding
<1>6. QED  BY <1>1, <1>2, <1>3, <1>4, <1>5 DEF TypeInv, Types

\* Every step keeps the types, the lock and the journal under a save.
LEMMA TypesStep == TypeInv /\ [Next]_vars => TypeInv'
<1> SUFFICES ASSUME TypeInv, [Next]_vars
             PROVE  TypeInv'
  OBVIOUS
<1>1. ASSUME NEW m \in Managers, Initialize(m)
      PROVE  TypeInv'
  BY <1>1, StartTypes, RecoveryTypes, LoadTypes, RecoveredTypes DEF Initialize
<1>2. ASSUME NEW m \in Managers, Refresh(m)
      PROVE  TypeInv'
  BY <1>2, QuietTypes, CommitTypes, FinishTypes DEF Refresh
<1>3. ASSUME NEW m \in Managers,
             BeginForced(m) \/ Failure(m) \/ Crash(m) \/ \E S \in Scopes : Begin(m, S)
      PROVE  TypeInv'
  BY <1>3, BeginTypes, FailureTypes, CrashTypes
<1>4. ASSUME NEW f \in Files, Edit(f) \/ Delete(f) \/ Cool(f)
      PROVE  TypeInv'
  BY <1>4, WorldTypes
<1>5. CASE UNCHANGED vars
  BY <1>5 DEF vars, TypeInv, Types, TypeOK, LeftInv, LockInv, UnderInv, Holds, UnderJournal,
              Journaled, IsIndex, Model
<1>6. QED  BY <1>1, <1>2, <1>3, <1>4, <1>5 DEF Next

\* The type invariant is one.
LEMMA TypesAlways == Spec => []TypeInv
BY TypesInit, TypesStep, PTL DEF Spec

\* Type correctness: every variable holds a value of its kind, and a freshness
\* manifest matches only an index that is there.
THEOREM TypeCorrect == Spec => []TypeOK
<1>1. TypeInv => TypeOK
  BY DEF TypeInv, Types
<1>2. QED  BY <1>1, TypesAlways, PTL

\* An index that appears on disk with sidecars to follow appears under a
\* save-started journal of the process that holds the model's lock (updateIndex
\* before atomicSave).
LEMMA CommitUnderJournal ==
  ASSUME TypeInv, [Next]_vars, NEW k \in Models, disk'[k] \notin {disk[k], Nil},
         job[lock[k]].pending # Empty
  PROVE  /\ journal[k] # Nil /\ journal[k].phase = "save-started"
         /\ journal[k].owner = lock[k]
<1> USE TypeFacts, ModelFacts
<1>1. disk' # disk
  OBVIOUS
<1>2. PICK m \in Managers : UndoStore(m) \/ Load(m) \/ Save(m) \/ Finish(m)
  <2>1. ASSUME NEW m \in Managers, Initialize(m)
        PROVE  UndoStore(m) \/ Load(m)
    BY <1>1, <2>1 DEF Initialize, Start, UndoSidecars, RedoHashes, RedoChunks, Recovered,
                      PurgeForLostStore, Initialized, disks
  <2>2. ASSUME NEW m \in Managers, Refresh(m)
        PROVE  Save(m) \/ Finish(m)
    BY <1>1, <2>2 DEF Refresh, Invalidate, Scan, Extract, Rebuild, Embed, Fallback,
                      FallbackBuild, Persist, Complete, WriteHash, WriteChunks, ClearJournal,
                      disks
  <2>3. \A m \in Managers : ~Failure(m) /\ ~Crash(m)
    BY <1>1 DEF Failure, EmbedFails, JournalFails, SaveFails, CompleteFails,
                SidecarFails, Crash
  <2>4. \A m \in Managers : ~BeginForced(m) /\ \A S \in Scopes : ~Begin(m, S)
    BY <1>1 DEF Begin, BeginForced, disks
  <2>5. \A f \in Files : ~Edit(f) /\ ~Delete(f) /\ ~Cool(f)
    BY <1>1 DEF Edit, Delete, Cool, disks
  <2>6. ~UNCHANGED vars
    BY <1>1 DEF vars
  <2>7. QED  BY <2>1, <2>2, <2>3, <2>4, <2>5, <2>6 DEF Next
<1>3. ~UndoStore(m) /\ ~Load(m) /\ ~Finish(m)
  BY DEF UndoStore, Load, Finish
<1>4. Save(m)
  BY <1>2, <1>3
<1>5. k = Model(m)
  BY <1>4 DEF Save
<1>6. lock[k] = m
  BY <1>4, <1>5 DEF Save, TypeInv, LockInv, Holds, Holding
<1>7. QED  BY <1>4, <1>5, <1>6 DEF Save, TypeInv, UnderInv, UnderJournal, Journaled

\* Every commit of an index with sidecars to follow is journaled by the process
\* that makes it.
THEOREM CommitsJournaled == Spec => CommitsAreJournaled
<1>1. TypeInv /\ [Next]_vars =>
        [\A k \in Models : disk'[k] \notin {disk[k], Nil} /\ job[lock[k]].pending # Empty =>
           /\ journal[k] # Nil
           /\ journal[k].phase = "save-started"
           /\ journal[k].owner = lock[k]]_vars
  BY CommitUnderJournal
<1>2. QED  BY <1>1, TypesAlways, PTL DEF Spec, CommitsAreJournaled

-----------------------------------------------------------------------------
(* No false "unchanged": CLI commands that refresh all files of one model. *)

\* Every process is cold and works on the same model, a refresh is of all
\* files, and a content does not come back.
Setting ==
  /\ Warm = {}
  /\ \A k, l \in Models : k = l
  /\ Scopes \subseteq {Files}
  /\ Restores = FALSE

\* Files can always be read and a journal can always be completed.
Careful == "load" \notin Faults /\ "complete" \notin Faults

Text(f) == file[f] # Nil /\ ChunksOf[file[f]] # <<>>

\* What the past of a file says of it: a file with text has always had some.
History == \A f \in Files :
  /\ file[f] # Nil => file[f] \in had[f]
  /\ Text(f) => \A c \in had[f] : ChunksOf[c] # <<>>

\* h is the hash of a text that f has had.
Hashed(h, f) == h \in had[f] /\ ChunksOf[h] # <<>>

SidecarInv == \A f \in Files :
  /\ hash[f] # Nil => Hashed(hash[f], f)
  /\ chunks[f] # Nil => had[f] # {}

\* The sidecars of f say what index x holds of it.
Tied(x, f) ==
  Text(f) => /\ chunks[f] # Nil => Held(x, f) = chunks[f]
             /\ hash[f] = file[f] => Held(x, f) = ChunksOf[file[f]]

AllTied(x) == \A f \in Files : Tied(x, f)

\* The sidecars w, once written, will say what index x holds of f.
Fits(x, f, w) ==
  /\ Hashed(w.hash, f)
  /\ Text(f) => /\ Held(x, f) = w.chunks
                /\ w.hash = file[f] => w.chunks = ChunksOf[file[f]]

Clean == \A f \in Files : hash[f] = Nil /\ chunks[f] = Nil

\* Whatever an index holds of f, its sidecars do not contradict it.
Moot(f) == ~Text(f) \/ (hash[f] = Nil /\ chunks[f] = Nil)

\* The next refresh will not take the index of k for stale, or it is right in
\* any case.
Believed(k) == k \in fresh \/ Careful

\* An index that will be believed has what the sidecars say, whenever the
\* process that works on it dies.
DiskInv == \A k \in Models :
  /\ journal[k] = Nil \/ \E m \in Managers : mgr[m].pc = "save"
  /\ disk[k] # Nil
  /\ Believed(k)
  => AllTied(disk[k])

\* A journal at save-complete has the sidecars that the index lacks.
Completed(k) ==
  /\ k \notin fresh
  /\ disk[k] # Nil
  /\ \A f \in DOMAIN journal[k].writes : Fits(disk[k], f, journal[k].writes[f])
  /\ Careful => \A f \in Files \ DOMAIN journal[k].writes : Tied(disk[k], f)

HasPhase(k, phase) == journal[k] # Nil /\ journal[k].phase = phase

JournalInv == \A k \in Models :
  /\ journal[k] # Nil /\ journal[k].owner # Nil => mgr[journal[k].owner].pc # "off"
  /\ HasPhase(k, "save-complete") => Completed(k)

\* The hashes, and the chunk manifests, of the files in S are those in w.
Written(w, S) == \A f \in S : hash[f] = w[f].hash

Manifested(w, S) == \A f \in S : chunks[f] = w[f].chunks

-----------------------------------------------------------------------------
(* What a process knows at each point of a start and of a refresh.         *)

RecoverInv(m) ==
  LET k == Model(m)
      w == journal[k].writes
  IN /\ mgr[m].pc = "undo" => HasPhase(k, "save-started")
     /\ mgr[m].pc = "undoSidecars" => HasPhase(k, "save-started") /\ disk[k] = Nil
     /\ mgr[m].pc = "redo" => HasPhase(k, "save-complete")
     /\ mgr[m].pc = "redoChunks" => HasPhase(k, "save-complete") /\ Written(w, DOMAIN w)
     /\ mgr[m].pc = "undone" =>
          \/ HasPhase(k, "save-started") /\ disk[k] = Nil
          \/ /\ HasPhase(k, "save-complete")
             /\ Written(w, DOMAIN w) /\ Manifested(w, DOMAIN w)

LoadInv(m) ==
  LET k == Model(m)
  IN /\ mgr[m].pc \in Booting \cup {"ready"} => journal[k] = Nil
     /\ mgr[m].pc = "lost" => disk[k] = Nil /\ mgr[m].mem = Nil
     /\ mgr[m].pc \in {"loaded", "ready"} => mgr[m].mem = disk[k] /\ (disk[k] = Nil => Clean)

\* Files were unreadable, and the code does go on without them.
Blind(m) == job[m].failed /\ ~Careful

\* What a refresh starts from: the index on disk, which is believed, or none.
Basis(m) ==
  /\ mgr[m].mem # Nil =>
       ~job[m].force /\ mgr[m].mem = disk[Model(m)] /\ Believed(Model(m))
  /\ mgr[m].mem = Nil =>
       /\ Clean \/ (job[m].force /\ job[m].hadIndex)
       /\ disk[Model(m)] # Nil => job[m].purgeIfEmpty
  /\ job[m].force /\ job[m].hadIndex => disk[Model(m)] # Nil

Unplanned(m) ==
  /\ journal[Model(m)] = Nil
  /\ job[m].add = Empty /\ job[m].pending = Empty
  /\ ~job[m].mutated /\ ~job[m].skipFallback
  /\ job[m].force => m \in Forcing

\* The scan saw every file whose sidecars say something.
Scanned(m) ==
  /\ m \notin Quiesce => job[m].deferred = {}
  /\ DOMAIN job[m].scan \subseteq job[m].listed
  /\ \A f \in DOMAIN job[m].scan :
       job[m].scan[f].hash \in had[f] /\ job[m].scan[f].stored = hash[f]
  /\ \A f \in Files : f \in job[m].listed \/ Moot(f)
  /\ Blind(m) \/ job[m].listed \subseteq DOMAIN job[m].scan \cup job[m].deferred

ScanInv(m) ==
  /\ mgr[m].pc \in {"invalidate", "scan", "extract", "rebuild"} => Unplanned(m)
  /\ mgr[m].pc = "invalidate" =>
       mgr[m].mem = Nil /\ job[m].purgeIfEmpty /\ ~job[m].force /\ job[m].scope = Files
  /\ mgr[m].pc \in {"scan", "extract"} => job[m].scope = Files /\ Basis(m)
  /\ mgr[m].pc = "extract" => Scanned(m) /\ (job[m].fromEmpty <=> mgr[m].mem = Nil)
  /\ mgr[m].pc = "rebuild" =>
       /\ Scanned(m) /\ job[m].deferred = {}
       /\ mgr[m].mem = Nil /\ disk[Model(m)] # Nil /\ Believed(Model(m))

\* Index x is what the pending sidecars and those of the other files say.
Good(m, x) ==
  /\ \A f \in DOMAIN job[m].pending : Fits(x, f, job[m].pending[f])
  /\ \A f \in Files \ DOMAIN job[m].pending : Tied(x, f) \/ Blind(m)

\* An index is still there that may stay: it is purged if it may not.
Settled(m) == disk[Model(m)] # Nil => job[m].purgeIfEmpty \/ Believed(Model(m))

\* Nothing was found to put into an index.
Nothing(m) ==
  /\ job[m].pending = Empty
  /\ Settled(m)
  /\ \A f \in Files : Moot(f) \/ Blind(m)

\* The index x that a refresh is about to have, changed or not.
Built(m, x, mutated) ==
  /\ x = Nil => ~mutated /\ Nothing(m)
  /\ x # Nil => Good(m, x) /\ (mutated \/ (x = disk[Model(m)] /\ Believed(Model(m))))

BuildInv(m) ==
  /\ mgr[m].pc \in {"embed", "fallback", "persist"} => journal[Model(m)] = Nil
  /\ mgr[m].pc = "embed" => Built(m, Outcome(m), job[m].add # Empty)
  /\ mgr[m].pc \in {"fallback", "persist"} => Built(m, mgr[m].mem, job[m].mutated)

CommitInv(m) ==
  LET k == Model(m)
      p == job[m].pending
  IN /\ mgr[m].pc \in {"save", "complete"} =>
          /\ journal[k] = (IF Journaled(m) THEN Started(m) ELSE Nil) /\ job[m].left = DOMAIN p
          /\ mgr[m].mem # Nil /\ job[m].mutated /\ Good(m, mgr[m].mem)
     /\ mgr[m].pc \in {"complete", "hashes", "chunks", "clear"} =>
          disk[k] = mgr[m].mem /\ mgr[m].mem # Nil
     /\ mgr[m].pc = "complete" => k \notin fresh
     /\ mgr[m].pc \in {"hashes", "chunks", "clear"} =>
          /\ Good(m, disk[k])
          /\ job[m].mutated => HasPhase(k, "save-complete") /\ journal[k].writes = p
          /\ ~job[m].mutated => journal[k] = Nil /\ Believed(k)
     /\ mgr[m].pc = "hashes" => Written(p, DOMAIN p \ job[m].left)
     /\ mgr[m].pc \in {"chunks", "clear"} => Written(p, DOMAIN p)
     /\ mgr[m].pc = "chunks" => Manifested(p, DOMAIN p \ job[m].left)
     /\ mgr[m].pc = "clear" => Manifested(p, DOMAIN p)

FinishInv(m) ==
  mgr[m].pc = "finish" =>
    /\ journal[Model(m)] = Nil
    /\ mgr[m].mem = Nil => Settled(m)
    /\ mgr[m].mem # Nil =>
         \/ Believed(Model(m))
         \/ \A f \in Files : Tied(disk[Model(m)], f) \/ Blind(m)

RunInv(m) ==
  /\ RecoverInv(m) /\ LoadInv(m) /\ ScanInv(m)
  /\ BuildInv(m) /\ CommitInv(m) /\ FinishInv(m)

Inv ==
  /\ TypeInv
  /\ History
  /\ SidecarInv
  /\ DiskInv
  /\ JournalInv
  /\ \A m \in Managers : RunInv(m)

-----------------------------------------------------------------------------
(* Edits, deletions and the clock.                                         *)

\* A file stays, goes, or gets a content it never had, if it has text or has
\* never been there.
Changes(f) ==
  \/ file'[f] = file[f] /\ had'[f] = had[f]
  \/ file'[f] = Nil /\ had'[f] = had[f]
  \/ /\ file'[f] \in Contents /\ file'[f] \notin had[f]
     /\ had'[f] = had[f] \cup {file'[f]}
     /\ Text(f) \/ had[f] = {}

\* Without restores, edits and deletions change a file in these ways only.
LEMMA WorldChanges ==
  ASSUME Setting, TypeInv, History, NEW e \in Files, Edit(e) \/ Delete(e) \/ Cool(e),
         NEW f \in Files
  PROVE  Changes(f)
<1>1. file \in [Files -> Contents \cup {Nil}] /\ had \in [Files -> SUBSET Contents]
  BY TypeFacts DEF Types
<1>2. CASE Edit(e)
  <2>1. PICK c \in Contents \ {file[e]} :
          /\ ~Restores => c \notin had[e] /\ ~Withdrawn(e)
          /\ file' = [file EXCEPT ![e] = c]
          /\ had' = [had EXCEPT ![e] = @ \cup {c}]
    BY <1>2 DEF Edit
  <2>2. c \notin had[e] /\ ~Withdrawn(e)
    BY <2>1 DEF Setting
  <2>3. Text(e) \/ had[e] = {}
    BY <2>2 DEF Withdrawn, Text
  <2>4. QED  BY <1>1, <2>1, <2>2, <2>3 DEF Changes
<1>3. CASE Delete(e)
  BY <1>1, <1>3 DEF Delete, Changes
<1>4. CASE Cool(e)
  BY <1>4 DEF Cool, Changes
<1>5. QED  BY <1>2, <1>3, <1>4

\* What is said of a file stays true when the file changes.
LEMMA ChangeKeeps ==
  ASSUME TypeInv, History, SidecarInv, UNCHANGED sidecars, NEW f \in Files, Changes(f)
  PROVE  /\ \A h : h \in had[f] => (h \in had[f])'
         /\ \A h : Hashed(h, f) => Hashed(h, f)'
         /\ \A x : Tied(x, f) => Tied(x, f)'
         /\ \A x, w : Fits(x, f, w) => Fits(x, f, w)'
         /\ Moot(f) => Moot(f)'
         /\ file'[f] # Nil => file'[f] \in had'[f]
         /\ Text(f)' => \A c \in had'[f] : ChunksOf[c] # <<>>
         /\ (hash[f] # Nil => Hashed(hash[f], f))'
         /\ (chunks[f] # Nil => had[f] # {})'
<1>1. /\ hash' = hash /\ chunks' = chunks
      /\ file[f] # Nil => file[f] \in had[f]
      /\ Text(f) => \A c \in had[f] : ChunksOf[c] # <<>>
      /\ hash[f] # Nil => Hashed(hash[f], f)
      /\ chunks[f] # Nil => had[f] # {}
  BY DEF sidecars, History, SidecarInv
<1>2. CASE file'[f] = file[f] /\ had'[f] = had[f]
  <2>1. (Text(f)' <=> Text(f)) /\ \A h : Hashed(h, f)' <=> Hashed(h, f)
    BY <1>2 DEF Text, Hashed
  <2>2. \A x : Tied(x, f) => Tied(x, f)'
    BY <1>1, <1>2, <2>1 DEF Tied, Held
  <2>3. \A x, w : Fits(x, f, w) => Fits(x, f, w)'
    BY <1>2, <2>1 DEF Fits, Held
  <2>4. Moot(f) => Moot(f)'
    BY <1>1, <2>1 DEF Moot
  <2>5. \A h : h \in had[f] => (h \in had[f])'
    BY <1>2
  <2>6. Text(f)' => \A c \in had'[f] : ChunksOf[c] # <<>>
    BY <1>1, <1>2, <2>1
  <2>7. QED  BY <1>1, <1>2, <2>1, <2>2, <2>3, <2>4, <2>5, <2>6
<1>3. CASE file'[f] = Nil /\ had'[f] = had[f]
  <2>1. ~Text(f)' /\ \A h : Hashed(h, f) => Hashed(h, f)'
    BY <1>3 DEF Text, Hashed
  <2>2. (\A x : Tied(x, f)') /\ Moot(f)'
    BY <2>1 DEF Tied, Moot
  <2>3. \A x, w : Fits(x, f, w) => Fits(x, f, w)'
    BY <2>1 DEF Fits
  <2>4. \A h : h \in had[f] => (h \in had[f])'
    BY <1>3
  <2>5. QED  BY <1>1, <1>3, <2>1, <2>2, <2>3, <2>4
<1>4. CASE /\ file'[f] \in Contents /\ file'[f] \notin had[f]
           /\ had'[f] = had[f] \cup {file'[f]}
           /\ Text(f) \/ had[f] = {}
  <2>1. \A h : Hashed(h, f) => Hashed(h, f)' /\ h # file'[f]
    BY <1>4 DEF Hashed
  <2>2. \A x : Tied(x, f) => Tied(x, f)'
    <3>1. hash[f] # file'[f]
      BY <1>1, <1>4, UpdateAssumption DEF Hashed
    <3>2. chunks[f] # Nil => Text(f)
      BY <1>1, <1>4
    <3>3. QED  BY <1>1, <3>1, <3>2 DEF Tied, Held
  <2>3. \A x, w : Fits(x, f, w) => Fits(x, f, w)'
    <3>1. ASSUME NEW x, NEW w, Fits(x, f, w)
          PROVE  Fits(x, f, w)'
      <4>1. Hashed(w.hash, f)' /\ w.hash # file'[f]
        BY <2>1, <3>1 DEF Fits
      <4>2. Text(f)
        BY <1>4, <3>1 DEF Fits, Hashed
      <4>3. QED  BY <3>1, <4>1, <4>2 DEF Fits, Held
    <3>2. QED  BY <3>1
  <2>4. Moot(f) => Moot(f)'
    BY <1>1, <1>4 DEF Moot, Hashed
  <2>5. Text(f)' => \A c \in had'[f] : ChunksOf[c] # <<>>
    <3>1. SUFFICES ASSUME Text(f)', NEW c \in had'[f]
                   PROVE  ChunksOf[c] # <<>>
      OBVIOUS
    <3>2. CASE c = file'[f]
      BY <3>1, <3>2 DEF Text
    <3>3. CASE c \in had[f]
      BY <1>1, <1>4, <3>3
    <3>4. QED  BY <1>4, <3>2, <3>3
  <2>6. QED  BY <1>1, <1>4, <2>1, <2>2, <2>3, <2>4, <2>5
<1>5. QED  BY <1>2, <1>3, <1>4 DEF Changes

\* What a process knows does not depend on a change of the files.
LEMMA WorldKeepsRun ==
  ASSUME TypeInv, History, SidecarInv, \A f \in Files : Changes(f),
         UNCHANGED <<sidecars, disks, lock, mgr>>,
         NEW m \in Managers, SameButTouched(m), RunInv(m)
  PROVE  RunInv(m)'
<1>1. /\ hash' = hash /\ chunks' = chunks /\ disk' = disk /\ fresh' = fresh
      /\ journal' = journal /\ mgr' = mgr /\ Model(m)' = Model(m)
  BY DEF sidecars, disks, Model
<1>2. \A f \in Files :
        /\ \A h : h \in had[f] => (h \in had[f])'
        /\ \A x : Tied(x, f) => Tied(x, f)'
        /\ \A x, w : Fits(x, f, w) => Fits(x, f, w)'
        /\ Moot(f) => Moot(f)'
  BY ChangeKeeps
<1>3. (Clean' <=> Clean) /\ (Blind(m)' <=> Blind(m)) /\ (Settled(m)' <=> Settled(m))
      /\ (Believed(Model(m))' <=> Believed(Model(m)))
  BY <1>1 DEF Clean, Blind, Settled, Believed, SameButTouched
<1>4. /\ DOMAIN job[m].pending \subseteq Files /\ DOMAIN job[m].scan \subseteq Files
      /\ job[m].listed \subseteq Files
  BY TypeFacts, PartialFacts DEF Job
<1>5. ASSUME NEW x, Good(m, x)
      PROVE  Good(m, x)'
  <2>1. PICK p : p = job[m].pending
    OBVIOUS
  <2>2. job'[m].pending = p
    BY <2>1 DEF SameButTouched
  <2>3. \A f \in DOMAIN p : Fits(x, f, p[f])'
    BY <1>2, <1>4, <1>5, <2>1 DEF Good
  <2>4. \A f \in Files \ DOMAIN p : Tied(x, f)' \/ Blind(m)'
    BY <1>2, <1>3, <1>5, <2>1 DEF Good
  <2>5. QED  BY <2>2, <2>3, <2>4 DEF Good
<1>6. Nothing(m) => Nothing(m)'
  BY <1>2, <1>3 DEF Nothing, SameButTouched
<1>7. ASSUME Scanned(m)
      PROVE  Scanned(m)'
  <2>1. /\ job'[m].scan = job[m].scan /\ job'[m].listed = job[m].listed
        /\ job'[m].deferred = job[m].deferred
    BY DEF SameButTouched
  <2>2. \A f \in DOMAIN job[m].scan :
          (job[m].scan[f].hash \in had'[f]) /\ job[m].scan[f].stored = hash'[f]
    BY <1>1, <1>2, <1>4, <1>7 DEF Scanned
  <2>3. \A f \in Files : f \in job[m].listed \/ Moot(f)'
    BY <1>2, <1>7 DEF Scanned
  <2>4. QED  BY <1>3, <1>7, <2>1, <2>2, <2>3 DEF Scanned
<1>8. RecoverInv(m)' /\ LoadInv(m)'
  BY <1>1, <1>3 DEF RunInv, RecoverInv, LoadInv, HasPhase, Written, Manifested
<1>9. ScanInv(m)'
  BY <1>1, <1>3, <1>7 DEF RunInv, ScanInv, Unplanned, Basis, SameButTouched
<1>10. \A x, b : Built(m, x, b) => Built(m, x, b)'
  BY <1>1, <1>3, <1>5, <1>6 DEF Built
<1>11. Outcome(m)' = Outcome(m)
  BY <1>1 DEF Outcome, Extended, Appended, Held, SameButTouched
<1>12. BuildInv(m)'
  BY <1>1, <1>10, <1>11 DEF RunInv, BuildInv, SameButTouched
<1>13. CommitInv(m)'
  BY <1>1, <1>3, <1>5
     DEF RunInv, CommitInv, SameButTouched, Started, Journaled, HasPhase, Written, Manifested
<1>14. FinishInv(m)'
  BY <1>1, <1>2, <1>3 DEF RunInv, FinishInv
<1>15. QED  BY <1>8, <1>9, <1>12, <1>13, <1>14 DEF RunInv

\* Edits, deletions and the clock keep the invariant.
LEMMA WorldKeeps ==
  ASSUME Setting, Inv, NEW e \in Files, Edit(e) \/ Delete(e) \/ Cool(e)
  PROVE  Inv'
<1>1. TypeInv /\ TypeInv' /\ History /\ SidecarInv /\ DiskInv /\ JournalInv
      /\ \A m \in Managers : RunInv(m)
  BY WorldTypes DEF Inv
<1>2. \A f \in Files : Changes(f)
  BY <1>1, WorldChanges
<1>3. UNCHANGED <<sidecars, disks, lock, mgr>>
  BY DEF Edit, Delete, Cool
<1>4. \A m \in Managers : SameButTouched(m)
  <2>1. CASE Edit(e) \/ Delete(e)
    BY <1>1, <2>1, TouchFacts DEF Edit, Delete, TypeInv
  <2>2. CASE Cool(e)
    BY <2>2 DEF Cool, SameButTouched
  <2>3. QED  BY <2>1, <2>2
<1>5. \A f \in Files :
        /\ \A x : Tied(x, f) => Tied(x, f)'
        /\ \A x, w : Fits(x, f, w) => Fits(x, f, w)'
        /\ file'[f] # Nil => file'[f] \in had'[f]
        /\ Text(f)' => \A c \in had'[f] : ChunksOf[c] # <<>>
        /\ (hash[f] # Nil => Hashed(hash[f], f))'
        /\ (chunks[f] # Nil => had[f] # {})'
  BY <1>1, <1>2, <1>3, ChangeKeeps
<1>6. History' /\ SidecarInv'
  BY <1>5 DEF History, SidecarInv
<1>7. \A x : AllTied(x) => AllTied(x)'
  BY <1>5 DEF AllTied
<1>8. DiskInv'
  BY <1>1, <1>3, <1>7 DEF DiskInv, Believed, disks
<1>9. ASSUME NEW k \in Models, HasPhase(k, "save-complete")'
      PROVE  Completed(k)'
  <2>1. Completed(k) /\ journal[k] # Nil
    BY <1>1, <1>3, <1>9 DEF JournalInv, HasPhase, disks
  <2>2. journal[k].writes \in Partial(Sidecar)
    BY <1>1, <2>1, TypeFacts DEF Journal, Partial
  <2>3. DOMAIN journal[k].writes \subseteq Files
    BY <2>2, PartialFacts
  <2>4. QED  BY <1>3, <1>5, <2>1, <2>3 DEF Completed, disks
<1>10. JournalInv'
  BY <1>1, <1>3, <1>9 DEF JournalInv, disks
<1>11. \A m \in Managers : RunInv(m)'
  BY <1>1, <1>2, <1>3, <1>4, WorldKeepsRun
<1>12. QED  BY <1>1, <1>6, <1>8, <1>10, <1>11 DEF Inv

-----------------------------------------------------------------------------
(* One process at a time: the invariant from the side of the one that works. *)

DiskOf(m) ==
  /\ journal[Model(m)] = Nil \/ mgr[m].pc = "save"
  /\ disk[Model(m)] # Nil
  /\ Believed(Model(m))
  => AllTied(disk[Model(m)])

OwnerOf(m) ==
  journal[Model(m)] # Nil /\ journal[Model(m)].owner # Nil =>
    journal[Model(m)].owner = m /\ mgr[m].pc # "off"

CompletedOf(m) == HasPhase(Model(m), "save-complete") => Completed(Model(m))

\* Who has the lock, or finds it free, is the only one at work.
LEMMA Alone ==
  ASSUME Setting, TypeInv, NEW m \in Managers,
         lock[Model(m)] \in {m, Nil} \/ mgr[m].pc # "off"
  PROVE  \A n \in Managers : n # m => mgr[n].pc = "off"
<1>1. SUFFICES ASSUME NEW n \in Managers, n # m, mgr[n].pc # "off"
               PROVE  FALSE
  OBVIOUS
<1>2. Model(n) = Model(m) /\ n # Nil
  BY ModelFacts, UpdateAssumption DEF Setting
<1>3. lock[Model(n)] = n
  BY <1>1 DEF Setting, TypeInv, LockInv, Holds
<1>4. mgr[m].pc # "off" => lock[Model(m)] = m
  BY DEF Setting, TypeInv, LockInv, Holds
<1>5. QED  BY <1>1, <1>2, <1>3, <1>4

\* What the invariant says of the only process at work.
LEMMA InvOwn ==
  ASSUME Setting, Inv, NEW m \in Managers, \A n \in Managers : n # m => mgr[n].pc = "off"
  PROVE  DiskOf(m) /\ OwnerOf(m) /\ CompletedOf(m) /\ RunInv(m)
<1>1. TypeInv /\ Model(m) \in Models
  BY ModelFacts DEF Inv
<1>2. DiskOf(m) /\ CompletedOf(m) /\ RunInv(m)
  BY <1>1 DEF Inv, DiskInv, DiskOf, JournalInv, CompletedOf
<1>3. OwnerOf(m)
  <2>1. SUFFICES ASSUME journal[Model(m)] # Nil, journal[Model(m)].owner # Nil
                 PROVE  journal[Model(m)].owner = m /\ mgr[m].pc # "off"
    BY DEF OwnerOf
  <2>2. mgr[journal[Model(m)].owner].pc # "off"
    BY <1>1, <2>1 DEF Inv, JournalInv
  <2>3. journal[Model(m)] \in Journal
    BY <1>1, <2>1, TypeFacts
  <2>4. journal[Model(m)].owner \in Managers
    BY <2>1, <2>3 DEF Journal
  <2>5. QED  BY <2>2, <2>4
<1>4. QED  BY <1>2, <1>3

\* The invariant holds if it does for the only process at work.
LEMMA OwnInv ==
  ASSUME Setting, NEW m \in Managers, \A n \in Managers : n # m => mgr'[n].pc = "off",
         TypeInv', History', SidecarInv',
         DiskOf(m)', OwnerOf(m)', CompletedOf(m)', RunInv(m)'
  PROVE  Inv'
<1>1. \A k \in Models : k = Model(m)
  BY ModelFacts DEF Setting
<1>2. ASSUME NEW n \in Managers, n # m
      PROVE  RunInv(n)'
  <2>1. mgr'[n].pc = "off"
    BY <1>2
  <2>2. RecoverInv(n)' /\ LoadInv(n)' /\ ScanInv(n)'
    BY <2>1 DEF RecoverInv, LoadInv, ScanInv, Booting
  <2>3. BuildInv(n)' /\ CommitInv(n)' /\ FinishInv(n)'
    BY <2>1 DEF BuildInv, CommitInv, FinishInv
  <2>4. QED  BY <2>2, <2>3 DEF RunInv
<1>3. DiskInv'
  <2>1. \A n \in Managers : mgr'[n].pc = "save" => n = m
    OBVIOUS
  <2>2. Model(m)' = Model(m)
    BY DEF Model
  <2>3. QED  BY <1>1, <2>1, <2>2 DEF DiskInv, DiskOf
<1>4. JournalInv'
  <2>1. Model(m)' = Model(m)
    BY DEF Model
  <2>2. QED  BY <1>1, <2>1 DEF JournalInv, OwnerOf, CompletedOf
<1>5. QED  BY <1>2, <1>3, <1>4 DEF Inv

\* Of what a process knows, only what its place calls for has to be shown.
LEMMA RunByPlace ==
  ASSUME NEW m \in Managers,
         \/ mgr'[m].pc = "off"
         \/ mgr'[m].pc \in {"undo", "undoSidecars", "redo", "redoChunks", "undone"}
            /\ RecoverInv(m)'
         \/ mgr'[m].pc \in Booting \cup {"ready"} /\ LoadInv(m)'
         \/ mgr'[m].pc \in {"invalidate", "scan", "extract", "rebuild"} /\ ScanInv(m)'
         \/ mgr'[m].pc \in {"embed", "fallback", "persist"} /\ BuildInv(m)'
         \/ mgr'[m].pc \in {"save", "complete", "hashes", "chunks", "clear"} /\ CommitInv(m)'
         \/ mgr'[m].pc = "finish" /\ FinishInv(m)'
  PROVE  RunInv(m)'
<1>1. CASE mgr'[m].pc = "off"
  BY <1>1 DEF RunInv, RecoverInv, LoadInv, ScanInv, BuildInv, CommitInv, FinishInv, Booting
<1>2. CASE mgr'[m].pc \in {"undo", "undoSidecars", "redo", "redoChunks", "undone"}
           /\ RecoverInv(m)'
  BY <1>2 DEF RunInv, LoadInv, ScanInv, BuildInv, CommitInv, FinishInv, Booting
<1>3. CASE mgr'[m].pc \in Booting \cup {"ready"} /\ LoadInv(m)'
  BY <1>3 DEF RunInv, RecoverInv, ScanInv, BuildInv, CommitInv, FinishInv, Booting
<1>4. CASE mgr'[m].pc \in {"invalidate", "scan", "extract", "rebuild"} /\ ScanInv(m)'
  BY <1>4 DEF RunInv, RecoverInv, LoadInv, BuildInv, CommitInv, FinishInv, Booting
<1>5. CASE mgr'[m].pc \in {"embed", "fallback", "persist"} /\ BuildInv(m)'
  BY <1>5 DEF RunInv, RecoverInv, LoadInv, ScanInv, CommitInv, FinishInv, Booting
<1>6. CASE mgr'[m].pc \in {"save", "complete", "hashes", "chunks", "clear"} /\ CommitInv(m)'
  BY <1>6 DEF RunInv, RecoverInv, LoadInv, ScanInv, BuildInv, FinishInv, Booting
<1>7. CASE mgr'[m].pc = "finish" /\ FinishInv(m)'
  BY <1>7 DEF RunInv, RecoverInv, LoadInv, ScanInv, BuildInv, CommitInv, Booting
<1>8. QED  BY <1>1, <1>2, <1>3, <1>4, <1>5, <1>6, <1>7

\* What is said of the files and their sidecars while nobody changes them.
LEMMA StillFiles ==
  ASSUME UNCHANGED world
  PROVE  /\ \A f : (Text(f)' <=> Text(f)) /\ \A h : Hashed(h, f)' <=> Hashed(h, f)
         /\ \A x, f, w : Fits(x, f, w)' <=> Fits(x, f, w)
         /\ History => History'
<1>1. file' = file /\ had' = had
  BY DEF world
<1>2. \A f : (Text(f)' <=> Text(f)) /\ \A h : Hashed(h, f)' <=> Hashed(h, f)
  BY <1>1 DEF Text, Hashed
<1>3. \A x, f, w : Fits(x, f, w)' <=> Fits(x, f, w)
  BY <1>1, <1>2 DEF Fits, Held
<1>4. History => History'
  BY <1>1, <1>2 DEF History
<1>5. QED  BY <1>2, <1>3, <1>4

\* What is said of the sidecars does not change while they and the files stay.
LEMMA StillSidecars ==
  ASSUME UNCHANGED <<world, sidecars>>
  PROVE  /\ \A x, f : Tied(x, f)' <=> Tied(x, f)
         /\ \A x : AllTied(x)' <=> AllTied(x)
         /\ \A f : Moot(f)' <=> Moot(f)
         /\ Clean' <=> Clean
         /\ SidecarInv => SidecarInv'
<1>1. file' = file /\ had' = had /\ hash' = hash /\ chunks' = chunks
  BY DEF world, sidecars
<1>2. \A f : (Text(f)' <=> Text(f)) /\ \A h : Hashed(h, f)' <=> Hashed(h, f)
  BY StillFiles
<1>3. \A x, f : Tied(x, f)' <=> Tied(x, f)
  BY <1>1, <1>2 DEF Tied, Held
<1>4. \A x : AllTied(x)' <=> AllTied(x)
  BY <1>3 DEF AllTied
<1>5. (\A f : Moot(f)' <=> Moot(f)) /\ (Clean' <=> Clean)
  BY <1>1, <1>2 DEF Moot, Clean
<1>6. SidecarInv => SidecarInv'
  BY <1>1, <1>2 DEF SidecarInv
<1>7. QED  BY <1>3, <1>4, <1>5, <1>6

\* Without sidecars no index contradicts them.
LEMMA CleanTied ==
  ASSUME TypeInv', Clean'
  PROVE  SidecarInv' /\ (\A x : AllTied(x)') /\ \A f \in Files : Moot(f)'
<1>1. \A f \in Files : hash'[f] = Nil /\ chunks'[f] = Nil
  BY DEF Clean
<1>2. SidecarInv' /\ \A f \in Files : Moot(f)'
  BY <1>1 DEF SidecarInv, Moot
<1>3. \A x, f : f \in Files => Tied(x, f)'
  BY <1>1 DEF Tied, Text
<1>4. QED  BY <1>2, <1>3 DEF AllTied

\* What the one process at work has of the invariant.
LEMMA Working ==
  ASSUME Setting, Inv, NEW m \in Managers, mgr[m].pc # "off" \/ lock[Model(m)] = Nil
  PROVE  /\ TypeInv /\ Types /\ History /\ SidecarInv /\ Model(m) \in Models
         /\ \A n \in Managers : n # m => mgr[n].pc = "off"
         /\ DiskOf(m) /\ OwnerOf(m) /\ CompletedOf(m) /\ RunInv(m)
<1>1. TypeInv /\ Types /\ History /\ SidecarInv /\ Model(m) \in Models
  BY ModelFacts DEF Inv, TypeInv
<1>2. \A n \in Managers : n # m => mgr[n].pc = "off"
  BY <1>1, Alone
<1>3. QED  BY <1>1, <1>2, InvOwn

\* What is said of a model's disk and journal while neither changes.
LEMMA StillDisks ==
  ASSUME NEW m \in Managers, UNCHANGED <<world, disks>>
  PROVE  /\ disk'[Model(m)'] = disk[Model(m)] /\ journal'[Model(m)'] = journal[Model(m)]
         /\ Model(m)' = Model(m)
         /\ Believed(Model(m))' <=> Believed(Model(m))
         /\ \A p : HasPhase(Model(m), p)' <=> HasPhase(Model(m), p)
<1>1. disk' = disk /\ journal' = journal /\ fresh' = fresh /\ Model(m)' = Model(m)
  BY DEF disks, Model
<1>2. \A p : HasPhase(Model(m), p)' <=> HasPhase(Model(m), p)
  BY <1>1 DEF HasPhase
<1>3. QED  BY <1>1, <1>2 DEF Believed

\* A step that only moves its process keeps the invariant if the process knows
\* what its new place calls for.
LEMMA QuietKeeps ==
  ASSUME Setting, Inv, TypeInv', NEW m \in Managers,
         mgr[m].pc # "off" \/ lock[Model(m)] = Nil,
         UNCHANGED <<world, sidecars, disks>>,
         \A n \in Managers : n # m => mgr'[n] = mgr[n],
         mgr'[m].pc \notin {"off", "save"}, RunInv(m)'
  PROVE  Inv'
<1> USE Working, StillDisks
<1>1. \A n \in Managers : n # m => mgr'[n].pc = "off"
  OBVIOUS
<1>2. History' /\ SidecarInv'
  BY StillFiles, StillSidecars
<1>3. DiskOf(m)'
  <2>1. AllTied(disk[Model(m)]) => AllTied(disk[Model(m)])'
    <3>1. PICK x : x = disk[Model(m)]
      OBVIOUS
    <3>2. AllTied(x)' <=> AllTied(x)
      BY StillSidecars
    <3>3. disk'[Model(m)'] = x
      BY <3>1
    <3>4. QED  BY <3>1, <3>2, <3>3
  <2>2. QED  BY <2>1 DEF DiskOf
<1>4. OwnerOf(m)'
  <2>1. mgr[m].pc = "off" => journal[Model(m)] = Nil \/ journal[Model(m)].owner = Nil
    BY DEF OwnerOf
  <2>2. QED  BY <2>1 DEF OwnerOf
<1>5. CompletedOf(m)'
  <2>1. PICK k : k = Model(m)
    OBVIOUS
  <2>2. disk'[k] = disk[k] /\ journal'[k] = journal[k] /\ fresh' = fresh
    BY <2>1 DEF disks
  <2>3. Completed(k) => Completed(k)'
    BY <2>2, StillFiles, StillSidecars DEF Completed
  <2>4. QED  BY <2>1, <2>3 DEF CompletedOf
<1>6. QED  BY <1>1, <1>2, <1>3, <1>4, <1>5, OwnInv

\* A step that also purges the sidecars keeps it too.
LEMMA PurgeKeeps ==
  ASSUME Setting, Inv, TypeInv', NEW m \in Managers, mgr[m].pc # "off",
         UNCHANGED <<world, disks>>, PurgeAllSidecars,
         \A n \in Managers : n # m => mgr'[n] = mgr[n],
         mgr'[m].pc \notin {"off", "save"}, RunInv(m)',
         ~HasPhase(Model(m), "save-complete")
  PROVE  Inv'
<1> USE Working, StillDisks
<1>1. \A n \in Managers : n # m => mgr'[n].pc = "off"
  OBVIOUS
<1>2. Clean'
  BY PurgedTyped DEF Clean
<1>3. History' /\ SidecarInv' /\ \A x : AllTied(x)'
  BY <1>2, StillFiles, CleanTied
<1>4. DiskOf(m)'
  BY <1>3 DEF DiskOf
<1>5. OwnerOf(m)'
  BY DEF OwnerOf
<1>6. CompletedOf(m)'
  BY DEF CompletedOf
<1>7. QED  BY <1>1, <1>3, <1>4, <1>5, <1>6, OwnInv

-----------------------------------------------------------------------------
(* A start keeps the invariant.                                            *)

\* Only a journal of a process that is gone is found at a start, so that a
\* process that finds no recovery to do finds no journal.
LEMMA StartKeeps ==
  ASSUME Setting, Inv, NEW m \in Managers, Start(m)
  PROVE  Inv'
<1> USE Working, StillDisks
<1>1. /\ mgr[m].pc = "off" /\ lock[Model(m)] = Nil
      /\ UNCHANGED <<world, sidecars, disks, job>>
  BY DEF Start
<1>2. TypeInv' /\ mgr \in [Managers -> Manager] /\ journal[Model(m)] \in Journal \cup {Nil}
  BY <1>1, StartTypes, TypeFacts
<1>3. journal[Model(m)] = Nil \/ journal[Model(m)].owner = Nil
  BY <1>1 DEF OwnerOf
<1>4. CASE Recovery(Model(m)) = "none"
  <2>1. journal[Model(m)] = Nil
    BY <1>2, <1>3, <1>4 DEF Recovery, Journal
  <2>2. /\ mgr'[m].pc = "load" /\ \A n \in Managers : n # m => mgr'[n] = mgr[n]
    BY <1>1, <1>2, <1>4, GoFacts DEF Start, ToLoad, PC, Booting
  <2>3. LoadInv(m)'
    BY <1>1, <2>1, <2>2 DEF LoadInv
  <2>4. RunInv(m)'
    BY <2>2, <2>3, RunByPlace DEF Booting
  <2>5. QED  BY <1>1, <1>2, <2>2, <2>4, QuietKeeps
<1>5. CASE Recovery(Model(m)) # "none"
  <2>1. \/ Recovery(Model(m)) = "undo" /\ HasPhase(Model(m), "save-started")
        \/ Recovery(Model(m)) = "redo" /\ HasPhase(Model(m), "save-complete")
    BY <1>2, <1>5 DEF Recovery, HasPhase, Journal
  <2>2. Go(m, Recovery(Model(m)))
    BY <1>5 DEF Start
  <2>3. /\ mgr'[m].pc = Recovery(Model(m))
        /\ \A n \in Managers : n # m => mgr'[n] = mgr[n]
    BY <1>2, <2>1, <2>2, GoFacts DEF PC, Holding
  <2>4. RecoverInv(m)'
    BY <1>1, <2>1, <2>3 DEF RecoverInv
  <2>5. RunInv(m)'
    BY <2>1, <2>3, <2>4, RunByPlace
  <2>6. QED  BY <1>1, <1>2, <2>1, <2>3, <2>5, QuietKeeps
<1>6. QED  BY <1>4, <1>5

\* A save that was interrupted is undone: no index, then no sidecars.
LEMMA UndoKeeps ==
  ASSUME Setting, Inv, NEW m \in Managers, UndoStore(m) \/ UndoSidecars(m)
  PROVE  Inv'
<1> USE Working, StillDisks
<1>1. mgr[m].pc \in {"undo", "undoSidecars"} /\ UNCHANGED world
  BY DEF UndoStore, UndoSidecars
<1>2. TypeInv' /\ mgr \in [Managers -> Manager] /\ disk \in [Models -> Indexes \cup {Nil}]
  BY <1>1, RecoveryTypes, TypeFacts
<1>3. CASE UndoStore(m)
  <2>1. /\ mgr'[m].pc = "undoSidecars" /\ \A n \in Managers : n # m => mgr'[n] = mgr[n]
    BY <1>2, <1>3, GoFacts DEF UndoStore, PC, Holding
  <2>2. /\ disk'[Model(m)'] = Nil /\ journal' = journal /\ Model(m)' = Model(m)
        /\ UNCHANGED sidecars
    BY <1>2, <1>3 DEF UndoStore, Model
  <2>3. HasPhase(Model(m), "save-started")
    BY <1>3 DEF UndoStore, RunInv, RecoverInv
  <2>4. DiskOf(m)' /\ OwnerOf(m)'
    BY <1>1, <2>1, <2>2 DEF DiskOf, OwnerOf
  <2>5. CompletedOf(m)'
    BY <2>2, <2>3 DEF CompletedOf, HasPhase
  <2>6. RecoverInv(m)'
    BY <2>1, <2>2, <2>3 DEF RecoverInv, HasPhase
  <2>7. RunInv(m)'
    BY <2>1, <2>6, RunByPlace
  <2>8. History' /\ SidecarInv'
    BY <1>1, <2>2, StillFiles, StillSidecars
  <2>9. \A n \in Managers : n # m => mgr'[n].pc = "off"
    BY <1>1, <2>1
  <2>10. QED  BY <1>2, <2>4, <2>5, <2>7, <2>8, <2>9, OwnInv
<1>4. CASE UndoSidecars(m)
  <2>1. /\ mgr'[m].pc = "undone" /\ \A n \in Managers : n # m => mgr'[n] = mgr[n]
    BY <1>2, <1>4, GoFacts DEF UndoSidecars, PC, Holding
  <2>2. HasPhase(Model(m), "save-started") /\ disk[Model(m)] = Nil /\ UNCHANGED disks
    BY <1>4 DEF UndoSidecars, RunInv, RecoverInv
  <2>3. RecoverInv(m)'
    BY <1>1, <2>1, <2>2 DEF RecoverInv
  <2>4. RunInv(m)'
    BY <2>1, <2>3, RunByPlace
  <2>5. ~HasPhase(Model(m), "save-complete")
    BY <2>2 DEF HasPhase
  <2>6. PurgeAllSidecars
    BY <1>4 DEF UndoSidecars
  <2>7. QED  BY <1>1, <1>2, <2>1, <2>2, <2>4, <2>5, <2>6, PurgeKeeps
<1>5. QED  BY <1>3, <1>4

\* The sidecars of a journal are sidecars of files.
LEMMA WritesTyped ==
  ASSUME TypeInv, NEW k \in Models, journal[k] # Nil
  PROVE  /\ DOMAIN journal[k].writes \subseteq Files
         /\ \A f \in DOMAIN journal[k].writes : journal[k].writes[f] \in Sidecar
<1>1. journal[k] \in Journal
  BY TypeFacts
<1>2. journal[k].writes \in Partial(Sidecar)
  BY <1>1 DEF Journal, Partial
<1>3. QED  BY <1>2, PartialFacts

\* Writing one of the two sidecars of a file as an index needs them keeps what
\* they say of it.
LEMMA WritingTies ==
  ASSUME UNCHANGED world, NEW f \in Files, NEW x, NEW w \in Sidecar, Fits(x, f, w),
         \/ hash'[f] = w.hash /\ chunks'[f] = chunks[f]
         \/ hash'[f] = hash[f] /\ chunks'[f] = w.chunks
  PROVE  /\ Tied(x, f) => Tied(x, f)'
         /\ (hash[f] # Nil => Hashed(hash[f], f)) => (hash'[f] # Nil => Hashed(hash[f], f)')
         /\ (chunks[f] # Nil => had[f] # {}) => (chunks'[f] # Nil => had'[f] # {})
<1>1. file' = file /\ had' = had /\ (Text(f)' <=> Text(f))
      /\ \A h : Hashed(h, f)' <=> Hashed(h, f)
  BY StillFiles DEF world
<1>2. Hashed(w.hash, f) /\ had[f] # {}
  BY DEF Fits, Hashed
<1>3. ASSUME Tied(x, f)
      PROVE  Tied(x, f)'
  <2>1. SUFFICES ASSUME Text(f)
                 PROVE  /\ chunks'[f] # Nil => Held(x, f) = chunks'[f]
                        /\ hash'[f] = file[f] => Held(x, f) = ChunksOf[file[f]]
    BY <1>1 DEF Tied, Held
  <2>2. Held(x, f) = w.chunks /\ (w.hash = file[f] => w.chunks = ChunksOf[file[f]])
    BY <2>1 DEF Fits
  <2>3. /\ chunks[f] # Nil => Held(x, f) = chunks[f]
        /\ hash[f] = file[f] => Held(x, f) = ChunksOf[file[f]]
    BY <1>3, <2>1 DEF Tied
  <2>4. QED  BY <2>2, <2>3
<1>4. (hash[f] # Nil => Hashed(hash[f], f)) => (hash'[f] # Nil => Hashed(hash[f], f)')
  BY <1>1, <1>2 DEF Hashed
<1>5. QED  BY <1>1, <1>2, <1>3, <1>4

\* An index that has what the written sidecars of f need is tied to them.
LEMMA FitsTied ==
  ASSUME NEW f, NEW x, NEW w, Fits(x, f, w), hash[f] = w.hash, chunks[f] = w.chunks
  PROVE  Tied(x, f)
BY DEF Fits, Tied

\* What is said of a file whose sidecars stay.
LEMMA StillFile ==
  ASSUME UNCHANGED world, NEW f, hash'[f] = hash[f], chunks'[f] = chunks[f]
  PROVE  /\ \A x : Tied(x, f)' <=> Tied(x, f)
         /\ (hash[f] # Nil => Hashed(hash[f], f)) => (hash'[f] # Nil => Hashed(hash[f], f)')
         /\ (chunks[f] # Nil => had[f] # {}) => (chunks'[f] # Nil => had'[f] # {})
<1>1. file' = file /\ had' = had /\ (Text(f)' <=> Text(f))
      /\ \A h : Hashed(h, f)' <=> Hashed(h, f)
  BY StillFiles DEF world
<1>2. QED  BY <1>1 DEF Tied, Held

\* Redoing the sidecars that a journal lists keeps what they say.
LEMMA RedoKeeps ==
  ASSUME Setting, Inv, NEW m \in Managers, RedoHashes(m) \/ RedoChunks(m)
  PROVE  Inv'
<1> USE Working, StillDisks
<1>1. mgr[m].pc \in {"redo", "redoChunks"} /\ UNCHANGED <<world, disks>>
  BY DEF RedoHashes, RedoChunks
<1>2. TypeInv' /\ mgr \in [Managers -> Manager]
  BY <1>1, RecoveryTypes, TypeFacts
<1>3. PICK k \in Models : k = Model(m)
  BY <1>1
<1>4. PICK w : w = journal[k].writes
  OBVIOUS
<1>5. HasPhase(k, "save-complete") /\ Completed(k)
  BY <1>1, <1>3 DEF RunInv, RecoverInv, CompletedOf
<1>6. /\ DOMAIN w \subseteq Files
      /\ \A f \in DOMAIN w : w[f] \in Sidecar /\ Fits(disk[k], f, w[f])
  BY <1>1, <1>4, <1>5, WritesTyped DEF HasPhase, Completed
<1>7. /\ disk' = disk /\ journal' = journal /\ fresh' = fresh
  BY <1>1 DEF disks
<1>8. PICK p \in {"redoChunks", "undone"} :
        /\ Go(m, p)
        /\ p = "redoChunks" <=> mgr[m].pc = "redo"
  BY DEF RedoHashes, RedoChunks
<1>9. mgr'[m].pc = p /\ \A n \in Managers : n # m => mgr'[n] = mgr[n]
  BY <1>2, <1>8, GoFacts DEF PC, Holding
<1>10. \A f \in Files :
         \/ hash'[f] = hash[f] /\ chunks'[f] = chunks[f] /\ f \notin DOMAIN w
         \/ f \in DOMAIN w /\ hash'[f] = w[f].hash /\ chunks'[f] = chunks[f] /\ p = "redoChunks"
         \/ f \in DOMAIN w /\ hash'[f] = hash[f] /\ chunks'[f] = w[f].chunks /\ p = "undone"
  <2>1. CASE RedoHashes(m)
    BY <1>3, <1>4, <1>8, <2>1 DEF RedoHashes
  <2>2. CASE RedoChunks(m)
    BY <1>3, <1>4, <1>8, <2>2 DEF RedoChunks
  <2>3. QED  BY <2>1, <2>2
<1>11. ASSUME NEW f \in Files
       PROVE  /\ (hash[f] # Nil => Hashed(hash[f], f))'
              /\ (chunks[f] # Nil => had[f] # {})'
  <2>1. /\ hash[f] # Nil => Hashed(hash[f], f)
        /\ chunks[f] # Nil => had[f] # {}
    BY <1>1 DEF SidecarInv
  <2>2. CASE f \notin DOMAIN w
    <3>1. hash'[f] = hash[f] /\ chunks'[f] = chunks[f]
      BY <1>10, <2>2
    <3>2. QED  BY <1>1, <2>1, <3>1, StillFile
  <2>3. CASE f \in DOMAIN w
    <3>1. \/ hash'[f] = w[f].hash /\ chunks'[f] = chunks[f]
          \/ hash'[f] = hash[f] /\ chunks'[f] = w[f].chunks
      BY <1>10, <2>3
    <3>2. QED  BY <1>1, <1>6, <2>1, <2>3, <3>1, WritingTies
  <2>4. QED  BY <2>2, <2>3
<1>12. History' /\ SidecarInv'
  BY <1>1, <1>11, StillFiles DEF SidecarInv
<1>13. DiskOf(m)' /\ OwnerOf(m)'
  BY <1>1, <1>3, <1>5, <1>7, <1>9 DEF DiskOf, OwnerOf, HasPhase
<1>14. CompletedOf(m)'
  <2>1. ASSUME NEW f \in Files \ DOMAIN w, Tied(disk[k], f)
        PROVE  Tied(disk[k], f)'
    <3>1. hash'[f] = hash[f] /\ chunks'[f] = chunks[f]
      BY <1>10
    <3>2. PICK x : x = disk[k]
      OBVIOUS
    <3>3. Tied(x, f)'
      BY <1>1, <2>1, <3>1, <3>2, StillFile
    <3>4. QED  BY <1>7, <3>2, <3>3
  <2>2. \A f \in DOMAIN w : Fits(disk[k], f, w[f])'
    BY <1>1, <1>6, <1>7, StillFiles
  <2>3. Completed(k)'
    BY <1>4, <1>5, <1>7, <2>1, <2>2 DEF Completed
  <2>4. QED  BY <1>1, <1>3, <2>3 DEF CompletedOf
<1>15. RecoverInv(m)'
  <2>1. CASE RedoHashes(m)
    <3>1. p = "redoChunks" /\ \A f \in DOMAIN w : hash'[f] = w[f].hash
      BY <1>6, <1>8, <1>10, <2>1 DEF RedoHashes
    <3>2. Written(w, DOMAIN w)'
      BY <3>1 DEF Written
    <3>3. QED  BY <1>1, <1>3, <1>4, <1>5, <1>7, <1>9, <3>1, <3>2 DEF RecoverInv
  <2>2. CASE RedoChunks(m)
    <3>1. /\ p = "undone" /\ \A f \in DOMAIN w : chunks'[f] = w[f].chunks
          /\ Written(w, DOMAIN w) /\ hash' = hash
      BY <1>1, <1>3, <1>4, <1>6, <1>8, <1>10, <2>2 DEF RedoChunks, RunInv, RecoverInv
    <3>2. Written(w, DOMAIN w)' /\ Manifested(w, DOMAIN w)'
      BY <3>1 DEF Written, Manifested
    <3>3. QED  BY <1>1, <1>3, <1>4, <1>5, <1>7, <1>9, <3>1, <3>2 DEF RecoverInv
  <2>3. QED  BY <2>1, <2>2
<1>16. RunInv(m)'
  BY <1>9, <1>15, RunByPlace
<1>17. \A n \in Managers : n # m => mgr'[n].pc = "off"
  BY <1>1, <1>9
<1>18. QED  BY <1>2, <1>12, <1>13, <1>14, <1>16, <1>17, OwnInv

\* A journal that was undone or redone is removed: without it an index that
\* will be believed has what the sidecars say.
LEMMA RecoveredKeeps ==
  ASSUME Setting, Inv, NEW m \in Managers, Recovered(m)
  PROVE  Inv'
<1> USE Working
<1>1. mgr[m].pc = "undone" /\ UNCHANGED <<world, sidecars, disk, fresh>>
  BY DEF Recovered
<1>2. TypeInv' /\ mgr \in [Managers -> Manager] /\ journal \in [Models -> Journal \cup {Nil}]
  BY <1>1, RecoveredTypes, TypeFacts
<1>3. PICK k \in Models : k = Model(m)
  BY <1>1
<1>4. Model(m)' = k /\ journal'[k] = Nil /\ (Believed(k)' <=> Believed(k))
  BY <1>1, <1>2, <1>3 DEF Recovered, Model, Believed
<1>5. mgr'[m].pc = "load" /\ \A n \in Managers : n # m => mgr'[n] = mgr[n]
  BY <1>2, GoFacts DEF Recovered, ToLoad, PC, Booting
<1>6. ASSUME disk[k] # Nil, Believed(k)
      PROVE  AllTied(disk[k])
  <2> DEFINE w == journal[k].writes
  <2>1. /\ HasPhase(k, "save-complete")
        /\ Written(w, DOMAIN w) /\ Manifested(w, DOMAIN w)
    BY <1>1, <1>3, <1>6 DEF RunInv, RecoverInv
  <2>2. Completed(k)
    BY <1>1, <1>3, <2>1 DEF CompletedOf
  <2>3. Careful
    BY <1>6, <2>2 DEF Believed, Completed
  <2>4. \A f \in DOMAIN w : Tied(disk[k], f)
    BY <2>1, <2>2, FitsTied DEF Completed, Written, Manifested
  <2>5. \A f \in Files \ DOMAIN w : Tied(disk[k], f)
    BY <2>2, <2>3 DEF Completed
  <2>6. QED  BY <2>4, <2>5 DEF AllTied
<1>7. History' /\ SidecarInv'
  BY <1>1, StillFiles, StillSidecars
<1>8. DiskOf(m)'
  <2>1. PICK x : x = disk[k]
    OBVIOUS
  <2>2. disk'[k] = x /\ (AllTied(x)' <=> AllTied(x))
    BY <1>1, <2>1, StillSidecars
  <2>3. QED  BY <1>4, <1>6, <2>1, <2>2 DEF DiskOf
<1>9. OwnerOf(m)' /\ CompletedOf(m)'
  BY <1>4 DEF OwnerOf, CompletedOf, HasPhase
<1>10. LoadInv(m)'
  BY <1>4, <1>5 DEF LoadInv
<1>11. RunInv(m)'
  BY <1>5, <1>10, RunByPlace DEF Booting
<1>12. \A n \in Managers : n # m => mgr'[n].pc = "off"
  BY <1>1, <1>5
<1>13. QED  BY <1>2, <1>7, <1>8, <1>9, <1>11, <1>12, OwnInv

\* An index that is loaded is the one on disk; without one nothing is tied to
\* any once the sidecars are purged.
LEMMA LoadKeeps ==
  ASSUME Setting, Inv, NEW m \in Managers,
         Load(m) \/ PurgeForLostStore(m) \/ Initialized(m)
  PROVE  Inv'
<1> USE Working
<1>1. mgr[m].pc \in {"load", "lost", "loaded"} /\ UNCHANGED <<world, journal>>
  BY DEF Load, PurgeForLostStore, Initialized, disks
<1>2. /\ TypeInv' /\ mgr \in [Managers -> Manager] /\ disk \in [Models -> Indexes \cup {Nil}]
  BY <1>1, LoadTypes, TypeFacts
<1>3. PICK k \in Models : k = Model(m)
  BY <1>1
<1>4. Model(m)' = k /\ journal[k] = Nil
  BY <1>1, <1>3 DEF RunInv, LoadInv, Booting, Model
<1>5. ASSUME NEW p \in {"lost", "loaded", "ready"}, NEW x \in Indexes \cup {Nil},
             Become(m, p, x)
      PROVE  /\ mgr'[m].pc = p /\ mgr'[m].mem = x
             /\ \A n \in Managers : n # m => mgr'[n] = mgr[n]
             /\ LoadInv(m)' => RunInv(m)'
  <2>1. /\ mgr'[m].pc = p /\ mgr'[m].mem = x
        /\ \A n \in Managers : n # m => mgr'[n] = mgr[n]
    BY <1>2, <1>5, BecomeFacts DEF PC, Booting
  <2>2. QED  BY <2>1, RunByPlace DEF Booting
<1>6. CASE Load(m) /\ UNCHANGED <<disk, fresh>>
  <2>1. Become(m, IF disk[k] = Nil THEN "lost" ELSE "loaded", disk[k])
    <3>1. disk[k] = Nil \/ disk' # [disk EXCEPT ![k] = Nil]
      BY <1>2, <1>3, <1>6
    <3>2. QED  BY <1>3, <1>6, <3>1 DEF Load
  <2>2. PICK p \in {"lost", "loaded", "ready"} :
          p = (IF disk[k] = Nil THEN "lost" ELSE "loaded") /\ Become(m, p, disk[k])
    BY <2>1
  <2>3. /\ mgr'[m].pc = p /\ mgr'[m].mem = disk[k]
        /\ \A n \in Managers : n # m => mgr'[n] = mgr[n]
        /\ LoadInv(m)' => RunInv(m)'
    BY <1>2, <1>5, <2>2
  <2>4. LoadInv(m)'
    BY <1>1, <1>4, <1>6, <2>2, <2>3 DEF LoadInv
  <2>5. UNCHANGED <<world, sidecars, disks>>
    BY <1>1, <1>6 DEF Load, disks
  <2>6. QED  BY <1>1, <1>2, <2>2, <2>3, <2>4, <2>5, QuietKeeps
<1>7. CASE Load(m) /\ ~UNCHANGED <<disk, fresh>>
  <2>1. /\ disk' = [disk EXCEPT ![k] = Nil] /\ Become(m, "lost", Nil) /\ UNCHANGED sidecars
    BY <1>3, <1>7 DEF Load
  <2>2. /\ mgr'[m].pc = "lost" /\ mgr'[m].mem = Nil
        /\ \A n \in Managers : n # m => mgr'[n] = mgr[n]
        /\ LoadInv(m)' => RunInv(m)'
    BY <1>5, <2>1
  <2>3. disk'[k] = Nil /\ journal'[k] = Nil
    BY <1>1, <1>2, <1>4, <2>1
  <2>4. LoadInv(m)'
    BY <1>4, <2>2, <2>3 DEF LoadInv
  <2>5. DiskOf(m)' /\ OwnerOf(m)' /\ CompletedOf(m)'
    BY <1>4, <2>3 DEF DiskOf, OwnerOf, CompletedOf, HasPhase
  <2>6. History' /\ SidecarInv'
    BY <1>1, <2>1, StillFiles, StillSidecars
  <2>7. \A n \in Managers : n # m => mgr'[n].pc = "off"
    BY <1>1, <2>2
  <2>8. QED  BY <1>2, <2>2, <2>4, <2>5, <2>6, <2>7, OwnInv
<1>8. CASE PurgeForLostStore(m)
  <2>1. Become(m, "loaded", mgr[m].mem) /\ mgr[m].mem \in Indexes \cup {Nil}
    BY <1>2, <1>8, GoBecomes DEF PurgeForLostStore
  <2>2. /\ mgr'[m].pc = "loaded" /\ mgr'[m].mem = mgr[m].mem
        /\ \A n \in Managers : n # m => mgr'[n] = mgr[n]
        /\ LoadInv(m)' => RunInv(m)'
    BY <1>5, <2>1
  <2>3. disk[k] = Nil /\ mgr[m].mem = Nil
    BY <1>3, <1>8 DEF PurgeForLostStore, RunInv, LoadInv
  <2>4. UNCHANGED disks /\ PurgeAllSidecars
    BY <1>8 DEF PurgeForLostStore
  <2>5. Clean'
    BY <2>4, PurgedTyped DEF Clean
  <2>6. LoadInv(m)'
    BY <1>4, <2>2, <2>3, <2>4, <2>5 DEF LoadInv, disks
  <2>7. ~HasPhase(Model(m), "save-complete")
    BY <1>3, <1>4 DEF HasPhase
  <2>8. QED  BY <1>1, <1>2, <2>2, <2>4, <2>6, <2>7, PurgeKeeps
<1>9. CASE Initialized(m)
  <2>1. Become(m, "ready", mgr[m].mem) /\ mgr[m].mem \in Indexes \cup {Nil}
    BY <1>2, <1>9, GoBecomes DEF Initialized
  <2>2. /\ mgr'[m].pc = "ready" /\ mgr'[m].mem = mgr[m].mem
        /\ \A n \in Managers : n # m => mgr'[n] = mgr[n]
        /\ LoadInv(m)' => RunInv(m)'
    BY <1>5, <2>1
  <2>3. mgr[m].mem = disk[k] /\ (disk[k] = Nil => Clean)
    BY <1>3, <1>9 DEF Initialized, RunInv, LoadInv
  <2>4. UNCHANGED <<world, sidecars, disks>>
    BY <1>9 DEF Initialized
  <2>5. LoadInv(m)'
    BY <1>4, <2>2, <2>3, <2>4, StillSidecars DEF LoadInv, disks
  <2>6. QED  BY <1>1, <1>2, <2>2, <2>4, <2>5, QuietKeeps
<1>10. QED  BY <1>6, <1>7, <1>8, <1>9

\* Initialization keeps the invariant.
LEMMA InitializeKeeps ==
  ASSUME Setting, Inv, NEW m \in Managers, Initialize(m)
  PROVE  Inv'
BY StartKeeps, UndoKeeps, RedoKeeps, RecoveredKeeps, LoadKeeps DEF Initialize

-----------------------------------------------------------------------------
(* A refresh that looks at the files keeps the invariant.                  *)

\* A refresh begins from an index that is believed, or from none.
LEMMA BeginKeeps ==
  ASSUME Setting, Inv, NEW m \in Managers,
         BeginForced(m) \/ \E S \in Scopes : Begin(m, S)
  PROVE  Inv'
<1> USE Working
<1>1. mgr[m].pc = "ready" /\ UNCHANGED <<world, sidecars, disks>>
  BY DEF Begin, BeginForced
<1>2. TypeInv' /\ mgr \in [Managers -> Manager] /\ mgr[m].mem \in Indexes \cup {Nil}
  BY <1>1, BeginTypes, TypeFacts DEF Manager
<1>3. PICK k \in Models : k = Model(m)
  BY <1>1
<1>4. /\ journal[k] = Nil /\ mgr[m].mem = disk[k] /\ (disk[k] = Nil => Clean)
      /\ Model(m)' = k /\ journal'[k] = Nil /\ disk'[k] = disk[k]
      /\ (Believed(k)' <=> Believed(k)) /\ (Clean' <=> Clean)
  BY <1>1, <1>3, StillSidecars DEF RunInv, LoadInv, Model, disks, Believed
<1>5. ASSUME NEW p \in {"invalidate", "scan"}, NEW x \in Indexes \cup {Nil}, Become(m, p, x)
      PROVE  /\ mgr'[m].pc = p /\ mgr'[m].mem = x
             /\ \A n \in Managers : n # m => mgr'[n] = mgr[n]
  BY <1>2, <1>5, BecomeFacts DEF PC, Holding
<1>6. CASE BeginForced(m)
  <2>1. Become(m, "scan", Nil) /\ m \in Forcing
    BY <1>6 DEF BeginForced
  <2>2. /\ mgr'[m].pc = "scan" /\ mgr'[m].mem = Nil
        /\ \A n \in Managers : n # m => mgr'[n] = mgr[n]
    BY <1>5, <2>1
  <2>3. /\ Fresh(m) /\ job'[m].force /\ job'[m].scope = Files /\ job'[m].purgeIfEmpty
        /\ job'[m].hadIndex = (disk[k] # Nil)
    BY <1>1, <1>3, <1>6, BeginForcedFacts
  <2>4. Unplanned(m)'
    BY <1>4, <2>1, <2>3 DEF Unplanned, Fresh
  <2>5. Basis(m)'
    BY <1>4, <2>2, <2>3 DEF Basis
  <2>6. ScanInv(m)'
    BY <2>2, <2>3, <2>4, <2>5 DEF ScanInv
  <2>7. RunInv(m)'
    BY <2>2, <2>6, RunByPlace
  <2>8. QED  BY <1>1, <1>2, <2>2, <2>7, QuietKeeps
<1>7. ASSUME NEW S \in Scopes, Begin(m, S)
      PROVE  Inv'
  <2>1. /\ Fresh(m) /\ job'[m].force = FALSE
        /\ job'[m].scope = Files
        /\ job'[m].purgeIfEmpty = Stale(m)
        /\ IF Stale(m) THEN Become(m, "invalidate", Nil) ELSE Go(m, "scan")
    BY <1>1, <1>7, BeginFacts DEF Setting
  <2>2. Unplanned(m)'
    BY <1>4, <2>1 DEF Unplanned, Fresh
  <2>3. CASE Stale(m)
    <3>1. /\ mgr'[m].pc = "invalidate" /\ mgr'[m].mem = Nil
          /\ \A n \in Managers : n # m => mgr'[n] = mgr[n]
      BY <1>5, <2>1, <2>3
    <3>2. job'[m].purgeIfEmpty
      BY <2>1, <2>3
    <3>3. ScanInv(m)'
      BY <2>1, <2>2, <3>1, <3>2 DEF ScanInv
    <3>4. RunInv(m)'
      BY <3>1, <3>3, RunByPlace
    <3>5. QED  BY <1>1, <1>2, <3>1, <3>4, QuietKeeps
  <2>4. CASE ~Stale(m)
    <3>1. Become(m, "scan", disk[k])
      BY <1>2, <1>4, <2>1, <2>4, GoBecomes
    <3>2. /\ mgr'[m].pc = "scan" /\ mgr'[m].mem = disk[k]
          /\ \A n \in Managers : n # m => mgr'[n] = mgr[n]
      BY <1>2, <1>4, <1>5, <3>1
    <3>3. disk[k] # Nil => k \in fresh
      BY <1>3, <1>4, <2>4 DEF Stale
    <3>4. Basis(m)'
      BY <1>4, <2>1, <3>2, <3>3 DEF Basis, Believed
    <3>5. ScanInv(m)'
      BY <2>1, <2>2, <3>2, <3>4 DEF ScanInv
    <3>6. RunInv(m)'
      BY <3>2, <3>5, RunByPlace
    <3>7. QED  BY <1>1, <1>2, <3>2, <3>6, QuietKeeps
  <2>5. QED  BY <2>3, <2>4
<1>8. QED  BY <1>6, <1>7

\* A stale index is given up together with the sidecars.
LEMMA InvalidateKeeps ==
  ASSUME Setting, Inv, NEW m \in Managers, Invalidate(m)
  PROVE  Inv'
<1> USE Working
<1>1. /\ mgr[m].pc = "invalidate" /\ UNCHANGED <<world, disks, job>> /\ PurgeAllSidecars
  BY DEF Invalidate
<1>2. TypeInv' /\ mgr \in [Managers -> Manager]
  BY <1>1, QuietTypes, TypeFacts
<1>3. /\ mgr'[m].pc = "scan" /\ mgr'[m].mem = mgr[m].mem
      /\ \A n \in Managers : n # m => mgr'[n] = mgr[n]
  BY <1>2, GoFacts DEF Invalidate, PC, Holding
<1>4. /\ Unplanned(m) /\ mgr[m].mem = Nil /\ job[m].purgeIfEmpty
      /\ ~job[m].force /\ job[m].scope = Files
  BY <1>1 DEF RunInv, ScanInv
<1>5. Clean' /\ Model(m)' = Model(m) /\ disk' = disk /\ journal' = journal /\ job' = job
  BY <1>1, PurgedTyped DEF Clean, Model, disks
<1>6. Unplanned(m)' /\ Basis(m)'
  BY <1>3, <1>4, <1>5 DEF Unplanned, Basis
<1>7. ScanInv(m)'
  BY <1>3, <1>4, <1>5, <1>6 DEF ScanInv
<1>8. RunInv(m)'
  BY <1>3, <1>7, RunByPlace
<1>9. ~HasPhase(Model(m), "save-complete")
  BY <1>4 DEF Unplanned, HasPhase
<1>10. QED  BY <1>1, <1>2, <1>3, <1>8, <1>9, PurgeKeeps

\* The scan of all files sees every file whose sidecars say something.
LEMMA ScanKeeps ==
  ASSUME Setting, Inv, NEW m \in Managers, Scan(m)
  PROVE  Inv'
<1> USE Working
<1>1. mgr[m].pc = "scan" /\ UNCHANGED <<world, sidecars, disks>>
  BY DEF Scan
<1>2. /\ TypeInv' /\ mgr \in [Managers -> Manager]
      /\ file \in [Files -> Contents \cup {Nil}]
  BY <1>1, QuietTypes, TypeFacts
<1>3. /\ mgr'[m].pc = "extract" /\ mgr'[m].mem = mgr[m].mem
      /\ \A n \in Managers : n # m => mgr'[n] = mgr[n]
  BY <1>2, GoFacts DEF Scan, PC, Holding
<1>4. Unplanned(m) /\ job[m].scope = Files /\ Basis(m)
  BY <1>1 DEF RunInv, ScanInv
<1>5. PICK bad \in SUBSET (Present(Files) \ PutOff(m)) :
        /\ UnreadableOf(Present(Files) \ PutOff(m), bad)
        /\ job'[m].scan = [f \in Present(Files) \ (PutOff(m) \cup bad) |->
                             [hash |-> file[f], stored |-> hash[f]]]
        /\ job'[m].fromEmpty = (mgr[m].mem = Nil)
        /\ job'[m].listed = Present(Files)
        /\ job'[m].deferred = PutOff(m)
        /\ job'[m].failed = (bad # {})
        /\ job'[m].scope = Files /\ job'[m].force = job[m].force
        /\ job'[m].hadIndex = job[m].hadIndex
        /\ job'[m].purgeIfEmpty = job[m].purgeIfEmpty
        /\ job'[m].skipFallback = job[m].skipFallback
        /\ job'[m].mutated = job[m].mutated
        /\ job'[m].add = job[m].add /\ job'[m].pending = job[m].pending
  BY <1>1, <1>4, ScanFacts
<1>6. /\ Model(m)' = Model(m) /\ disk' = disk /\ journal' = journal
      /\ (Believed(Model(m))' <=> Believed(Model(m))) /\ (Clean' <=> Clean)
      /\ hash' = hash /\ had' = had
  BY <1>1, StillSidecars DEF Model, disks, Believed, world, sidecars
<1>7. Unplanned(m)'
  BY <1>4, <1>5, <1>6 DEF Unplanned
<1>8. Basis(m)'
  BY <1>3, <1>4, <1>5, <1>6 DEF Basis
<1>9. Scanned(m)'
  <2>1. m \notin Quiesce => job'[m].deferred = {}
    BY <1>5 DEF PutOff
  <2>2. DOMAIN job'[m].scan \subseteq job'[m].listed
    BY <1>5
  <2>3. \A f \in DOMAIN job'[m].scan :
          (job'[m].scan[f].hash \in had'[f]) /\ job'[m].scan[f].stored = hash'[f]
    <3>1. SUFFICES ASSUME NEW f \in DOMAIN job'[m].scan
                   PROVE  (job'[m].scan[f].hash \in had'[f]) /\ job'[m].scan[f].stored = hash'[f]
      OBVIOUS
    <3>2. job'[m].scan[f] = [hash |-> file[f], stored |-> hash[f]] /\ f \in Present(Files)
      BY <1>5, <3>1
    <3>3. file[f] \in had[f]
      BY <1>1, <3>2 DEF History, Present
    <3>4. QED  BY <1>6, <3>2, <3>3
  <2>4. \A f \in Files : f \in job'[m].listed \/ Moot(f)'
    <3>1. \A f \in Files : f \in Present(Files) \/ Moot(f)
      BY DEF Present, Moot, Text
    <3>2. QED  BY <1>1, <1>5, <3>1, StillSidecars
  <2>5. Blind(m)' \/ job'[m].listed \subseteq DOMAIN job'[m].scan \cup job'[m].deferred
    <3>1. CASE bad = {}
      BY <1>5, <3>1
    <3>2. CASE bad # {}
      BY <1>5, <3>2 DEF UnreadableOf, Fails, Blind, Careful
    <3>3. QED  BY <3>1, <3>2
  <2>6. QED  BY <2>1, <2>2, <2>3, <2>4, <2>5 DEF Scanned
<1>10. job'[m].fromEmpty <=> mgr'[m].mem = Nil
  BY <1>3, <1>5
<1>11. ScanInv(m)'
  BY <1>3, <1>5, <1>7, <1>8, <1>9, <1>10 DEF ScanInv
<1>12. RunInv(m)'
  BY <1>3, <1>11, RunByPlace
<1>13. QED  BY <1>1, <1>2, <1>3, <1>12, QuietKeeps

-----------------------------------------------------------------------------
(* What a refresh builds.                                                  *)

\* What an index holds of a file once chunks were added, if any were.
LEMMA AddedHeld ==
  ASSUME NEW x \in Indexes \cup {Nil}, NEW add \in Partial(Seq(Chunk))
  PROVE  /\ Extended(x, add) = Nil <=> add = Empty /\ x = Nil
         /\ \A f \in Files :
              /\ f \in DOMAIN add => Held(Extended(x, add), f) = Held(x, f) \o add[f]
              /\ f \notin DOMAIN add => Held(Extended(x, add), f) = Held(x, f)
<1> DEFINE y == Extended(x, add)
<1>0. y = IF add = Empty THEN x ELSE Appended(x, add)
  BY DEF Extended
<1> HIDE DEF y
<1>1. CASE add = Empty
  BY <1>0, <1>1, EmptyFacts DEF y
<1>2. CASE add # Empty
  <2>1. y = Appended(x, add) /\ y # Nil
    BY <1>0, <1>2, AppendedTyped
  <2>2. ASSUME NEW f \in Files
        PROVE  /\ f \in DOMAIN add => Held(y, f) = Held(x, f) \o add[f]
               /\ f \notin DOMAIN add => Held(y, f) = Held(x, f)
    <3>1. Held(y, f) = Held(x, f) \o (IF f \in DOMAIN add THEN add[f] ELSE <<>>)
      BY <2>1 DEF Held, Appended
    <3>2. Held(x, f) \in Seq(Chunk)
      BY UpdateAssumption DEF Held, Indexes
    <3>3. QED  BY <3>1, <3>2
  <2>3. QED  BY <1>2, <2>1, <2>2 DEF y
<1>3. QED  BY <1>1, <1>2

\* A sequence that extends another is that and the rest.
LEMMA Extending ==
  ASSUME NEW next \in Seq(Chunk), NEW prev \in Seq(Chunk), Extends(next, prev)
  PROVE  prev \o SubSeq(next, Len(prev) + 1, Len(next)) = next
<1>1. /\ Len(prev) \in Nat /\ Len(next) \in Nat /\ Len(prev) <= Len(next)
      /\ SubSeq(next, 1, Len(prev)) = prev
  BY DEF Extends
<1>2. SubSeq(next, 1, Len(prev)) \o SubSeq(next, Len(prev) + 1, Len(next))
        = SubSeq(next, 1, Len(next))
  <2>1. /\ 1 \in 1 .. Len(next) + 1
        /\ Len(prev) \in 1 - 1 .. Len(next)
        /\ Len(next) \in Len(prev) .. Len(next)
    BY <1>1
  <2>2. QED  BY <2>1, ConcatAdjacentSubSeq
<1>3. SubSeq(next, 1, Len(next)) = next
  BY SubSeqFull
<1>4. QED  BY <1>1, <1>2, <1>3

\* A loaded file with text, of which the index keeps what it has, has exactly
\* its chunks in the index once those to append are added.
LEMMA PlannedHeld ==
  ASSUME TypeInv, NEW m \in Managers, Basis(m), job[m].fromEmpty <=> mgr[m].mem = Nil,
         mgr[m].mem # Nil => AllTied(mgr[m].mem),
         NEW bad, NEW f \in LoadedNow(m, bad), Text(f),
         ~NeedsRebuild(job[m], mgr[m].mem, f)
  PROVE  Held(mgr[m].mem, f) \o ToAppend(job[m], f) = ChunksOf[file[f]]
<1>1. f \in Files /\ file[f] \in Contents /\ Types
  BY LoadedFacts, TypeFacts
<1>2. PICK next : next = ChunksOf[file[f]]
  OBVIOUS
<1>3. next \in Seq(Chunk) /\ next # <<>>
  BY <1>1, <1>2, ChunksTyped DEF Text
<1>4. CASE Anew(job[m])
  <2>1. mgr[m].mem = Nil
    BY <1>4 DEF Anew, Basis
  <2>2. Held(mgr[m].mem, f) = <<>>
    BY <2>1 DEF Held
  <2>3. ToAppend(job[m], f) = next
    BY <1>2, <1>4 DEF ToAppend
  <2>4. QED  BY <1>2, <1>3, <2>2, <2>3
<1>5. CASE ~Anew(job[m]) /\ chunks[f] = Nil
  <2>1. Held(mgr[m].mem, f) = <<>>
    BY <1>5 DEF NeedsRebuild, Committed
  <2>2. ToAppend(job[m], f) = next
    BY <1>2, <1>5 DEF ToAppend
  <2>3. QED  BY <1>2, <1>3, <2>1, <2>2
<1>6. CASE ~Anew(job[m]) /\ chunks[f] # Nil
  <2>1. chunks[f] \in Seq(Chunk)
    BY <1>1, <1>6, ChunksTyped, TypeFacts
  <2>2. Extends(next, chunks[f])
    BY <1>2, <1>3, <1>6 DEF NeedsRebuild
  <2>3. mgr[m].mem # Nil
    BY <1>6 DEF Anew
  <2>4. Held(mgr[m].mem, f) = chunks[f]
    BY <1>1, <1>6, <2>3 DEF AllTied, Tied
  <2>5. ToAppend(job[m], f) = SubSeq(next, Len(chunks[f]) + 1, Len(next))
    BY <1>2, <1>6 DEF ToAppend
  <2>6. QED  BY <1>2, <1>3, <2>1, <2>2, <2>4, <2>5, Extending
<1>7. QED  BY <1>4, <1>5, <1>6

\* What a refresh that puts its plan off goes on with is the index on disk.
LEMMA PutOffKeeps ==
  ASSUME Setting, Inv, TypeInv', NEW m \in Managers, mgr[m].pc # "off",
         UNCHANGED <<world, sidecars, disks>>,
         \A n \in Managers : n # m => mgr'[n] = mgr[n],
         mgr'[m].pc = "embed", job'[m].add = Empty, job'[m].pending = Empty,
         mgr'[m].mem = disk[Model(m)], disk[Model(m)] # Nil, journal[Model(m)] = Nil,
         Believed(Model(m))
  PROVE  Inv'
<1> USE Working, StillDisks
<1>1. PICK x : x = disk[Model(m)]
  OBVIOUS
<1>2. AllTied(x)
  BY <1>1 DEF DiskOf
<1>3. Outcome(m)' = x
  BY <1>1 DEF Outcome, Extended
<1>4. \A f \in Files : Tied(x, f)'
  BY <1>2, StillSidecars DEF AllTied
<1>5. Good(m, x)'
  BY <1>4, EmptyFacts DEF Good
<1>6. BuildInv(m)'
  BY <1>1, <1>3, <1>5 DEF BuildInv, Built
<1>7. RunInv(m)'
  BY <1>6, RunByPlace
<1>8. QED  BY <1>7, QuietKeeps

\* A refresh goes on with what it planned if that is what the sidecars, the
\* pending ones included, will say.
LEMMA PlanKeeps ==
  ASSUME Setting, Inv, TypeInv', NEW m \in Managers, mgr[m].pc # "off",
         UNCHANGED <<world, sidecars, disks>>,
         \A n \in Managers : n # m => mgr'[n] = mgr[n],
         mgr'[m].pc = "embed", journal[Model(m)] = Nil,
         NEW y, y = Outcome(m)',
         \A f \in DOMAIN job'[m].pending : Fits(y, f, job'[m].pending[f]),
         \A f \in Files \ DOMAIN job'[m].pending : Tied(y, f) \/ Blind(m)',
         y # Nil => job'[m].add # Empty \/ (y = disk[Model(m)] /\ Believed(Model(m))),
         y = Nil => /\ job'[m].add = Empty /\ job'[m].pending = Empty
                    /\ disk[Model(m)] # Nil => job'[m].purgeIfEmpty \/ Believed(Model(m))
                    /\ \A f \in Files : Moot(f) \/ Blind(m)'
  PROVE  Inv'
<1> USE Working, StillDisks
<1>1. Good(m, y)'
  BY StillFiles, StillSidecars DEF Good
<1>2. y = Nil => Nothing(m)'
  BY StillSidecars DEF Nothing, Settled
<1>3. PICK b \in BOOLEAN : b = (job'[m].add # Empty)
  OBVIOUS
<1>4. Built(m, y, b)'
  BY <1>1, <1>2, <1>3 DEF Built
<1>5. BuildInv(m)'
  BY <1>3, <1>4 DEF BuildInv
<1>6. RunInv(m)'
  BY <1>5, RunByPlace
<1>7. QED  BY <1>6, QuietKeeps

\* With no index to start from, a file that is not planned to be indexed is
\* one whose sidecars say nothing, or one that could not be read.
LEMMA LeftOut ==
  ASSUME TypeInv, NEW m \in Managers, Scanned(m), Basis(m),
         job[m].fromEmpty <=> mgr[m].mem = Nil, mgr[m].mem = Nil,
         NEW bad \in SUBSET Present(Changed(job[m])),
         UnreadableOf(Present(Changed(job[m])), bad),
         ~GivesWay(m, job[m].deferred \cup PutOffNow(m, bad)),
         job'[m].failed = (job[m].failed \/ Failing(m, bad) # {}),
         NEW f \in Files, f \notin NonEmpty(LoadedNow(m, bad))
  PROVE  Moot(f) \/ Blind(m)'
<1>1. CASE Clean
  BY <1>1 DEF Clean, Moot
<1>2. CASE job[m].force /\ job[m].hadIndex
  <2>1. job[m].deferred = {} /\ PutOffNow(m, bad) = {}
    BY <1>2 DEF GivesWay
  <2>2. Changed(job[m]) = DOMAIN job[m].scan
    BY <1>2 DEF Changed, Anew
  <2>3. SUFFICES ASSUME ~Moot(f), ~Blind(m)
                 PROVE  Blind(m)'
    BY DEF Blind
  <2>4. f \in Changed(job[m])
    BY <2>1, <2>2, <2>3 DEF Scanned
  <2>5. file[f] # Nil /\ ChunksOf[file[f]] # <<>>
    BY <2>3 DEF Moot, Text
  <2>6. f \notin LoadedNow(m, bad)
    BY <2>5 DEF NonEmpty
  <2>7. f \in bad
    BY <2>1, <2>4, <2>5, <2>6 DEF LoadedNow, Failing, Gone, Present
  <2>8. "load" \in Faults /\ job'[m].failed
    BY <2>7 DEF UnreadableOf, Fails, Failing
  <2>9. QED  BY <2>8 DEF Blind, Careful
<1>3. QED  BY <1>1, <1>2 DEF Basis

\* Reading and splitting the changed files: what is planned, put off or found
\* to have no text fits the index that the refresh started from.  A forced
\* rebuild that is put off goes on with the index on disk, so it has to be one
\* that is believed.
LEMMA ExtractKeeps ==
  ASSUME Setting, Careful \/ Quiesce \cap Forcing = {},
         Inv, NEW m \in Managers, Extract(m)
  PROVE  Inv'
<1> USE Working
<1>1. mgr[m].pc = "extract" /\ UNCHANGED <<world, sidecars, disks>>
  BY DEF Extract
<1>2. /\ TypeInv' /\ mgr \in [Managers -> Manager] /\ job \in [Managers -> Job]
      /\ disk \in [Models -> Indexes \cup {Nil}] /\ mgr[m].mem \in Indexes \cup {Nil}
  BY <1>1, QuietTypes, TypeFacts DEF Manager
<1>3. /\ Unplanned(m) /\ job[m].scope = Files /\ Basis(m) /\ Scanned(m)
      /\ job[m].fromEmpty <=> mgr[m].mem = Nil
  BY <1>1 DEF RunInv, ScanInv
<1>4. PICK bad \in SUBSET Present(Changed(job[m])) :
        /\ UnreadableOf(Present(Changed(job[m])), bad)
        /\ Kept(m)
        /\ job'[m].deferred = job[m].deferred \cup PutOffNow(m, bad)
        /\ job'[m].failed = (job[m].failed \/ Failing(m, bad) # {})
        /\ Extracted(m, bad)
  BY <1>1, ExtractFacts
<1>5. PICK k \in Models : k = Model(m)
  BY <1>1
<1>6. /\ journal[k] = Nil
      /\ mgr[m].mem # Nil => mgr[m].mem = disk[k] /\ Believed(k)
  BY <1>3, <1>5 DEF Unplanned, Basis
<1> DEFINE deferred == job[m].deferred \cup PutOffNow(m, bad)
           some == \E f \in LoadedNow(m, bad) : NeedsRebuild(job[m], mgr[m].mem, f)
<1>7. ASSUME NEW p \in {"embed", "rebuild"}, NEW x \in Indexes \cup {Nil}, Become(m, p, x)
      PROVE  /\ mgr'[m].pc = p /\ mgr'[m].mem = x
             /\ \A n \in Managers : n # m => mgr'[n] = mgr[n]
  BY <1>2, <1>7, BecomeFacts DEF PC, Holding
<1>8. Go(m, "embed") => Become(m, "embed", mgr[m].mem)
  BY <1>2, GoBecomes
<1>9. m \notin Quiesce => deferred = {}
  BY <1>3 DEF Scanned, PutOffNow, Moved
<1>10. CASE GivesWay(m, deferred)
  <2>1. /\ Become(m, "embed", disk[k])
        /\ job'[m].add = job[m].add /\ job'[m].pending = job[m].pending
    BY <1>4, <1>5, <1>10 DEF Extracted
  <2>2. /\ mgr'[m].pc = "embed" /\ mgr'[m].mem = disk[k]
        /\ \A n \in Managers : n # m => mgr'[n] = mgr[n]
    BY <1>2, <1>7, <2>1
  <2>3. disk[k] # Nil
    BY <1>3, <1>5, <1>10 DEF GivesWay, Basis
  <2>4. m \in Quiesce /\ m \in Forcing
    BY <1>3, <1>9, <1>10 DEF GivesWay, Unplanned
  <2>5. Believed(k)
    BY <2>4 DEF Believed
  <2>6. job'[m].add = Empty /\ job'[m].pending = Empty /\ journal[k] = Nil
    BY <1>3, <1>5, <2>1 DEF Unplanned
  <2>7. QED  BY <1>1, <1>2, <1>5, <2>2, <2>3, <2>5, <2>6, PutOffKeeps
<1>11. CASE ~GivesWay(m, deferred) /\ some /\ mgr[m].mem # Nil /\ deferred # {}
  <2>1. Go(m, "embed") /\ KeptPlan(m)
    BY <1>4, <1>11 DEF Extracted
  <2>2. /\ mgr'[m].pc = "embed" /\ mgr'[m].mem = disk[k]
        /\ \A n \in Managers : n # m => mgr'[n] = mgr[n]
    BY <1>2, <1>6, <1>7, <1>8, <1>11, <2>1
  <2>3. job'[m].add = Empty /\ job'[m].pending = Empty /\ journal[k] = Nil
    BY <1>3, <1>5, <2>1 DEF Unplanned, KeptPlan
  <2>4. disk[k] # Nil /\ Believed(k)
    BY <1>6, <1>11
  <2>5. QED  BY <1>1, <1>2, <1>5, <2>2, <2>3, <2>4, PutOffKeeps
<1>12. CASE ~GivesWay(m, deferred) /\ some /\ ~(mgr[m].mem # Nil /\ deferred # {})
  <2>1. Become(m, "rebuild", Nil) /\ KeptPlan(m)
    BY <1>4, <1>12 DEF Extracted
  <2>2. /\ mgr'[m].pc = "rebuild" /\ mgr'[m].mem = Nil
        /\ \A n \in Managers : n # m => mgr'[n] = mgr[n]
    BY <1>7, <2>1
  <2>3. mgr[m].mem # Nil
    BY <1>3, <1>12 DEF NeedsRebuild, Anew
  <2>4. deferred = {} /\ disk[k] # Nil /\ Believed(k)
    BY <1>6, <1>12, <2>3
  <2>5. /\ Model(m)' = k /\ disk' = disk /\ journal' = journal
        /\ (Believed(k)' <=> Believed(k)) /\ hash' = hash /\ had' = had
    BY <1>1, <1>5 DEF Model, disks, Believed, world, sidecars
  <2>6. Unplanned(m)'
    BY <1>3, <1>4, <1>5, <2>1, <2>5 DEF Unplanned, Kept, KeptPlan
  <2>7. Scanned(m)'
    <3>1. /\ job'[m].deferred = {} /\ job[m].deferred = {}
          /\ job'[m].scan = job[m].scan /\ job'[m].listed = job[m].listed
          /\ Blind(m) => Blind(m)'
      BY <1>4, <2>4 DEF Kept, Blind
    <3>2. \A f \in Files : f \in job[m].listed \/ Moot(f)'
      BY <1>1, <1>3, StillSidecars DEF Scanned
    <3>3. QED  BY <1>3, <2>5, <3>1, <3>2 DEF Scanned
  <2>8. ScanInv(m)'
    BY <1>4, <2>2, <2>4, <2>5, <2>6, <2>7 DEF ScanInv
  <2>9. RunInv(m)'
    BY <2>2, <2>8, RunByPlace
  <2>10. QED  BY <1>1, <1>2, <2>2, <2>9, QuietKeeps
<1>13. CASE ~GivesWay(m, deferred) /\ ~some
  <2> DEFINE N == NonEmpty(LoadedNow(m, bad))
  <2>1. /\ Go(m, "embed")
        /\ job'[m].add = [f \in {g \in N : ToAppend(job[m], g) # <<>>} |-> ToAppend(job[m], f)]
        /\ job'[m].pending = [f \in N |-> SidecarOf(job[m], f)]
        /\ job'[m].purgeIfEmpty = job[m].purgeIfEmpty
    BY <1>4, <1>13 DEF Extracted
  <2>2. /\ mgr'[m].pc = "embed" /\ mgr'[m].mem = mgr[m].mem
        /\ \A n \in Managers : n # m => mgr'[n] = mgr[n]
    BY <1>2, <1>7, <1>8, <2>1
  <2>3. PICK x, add, pending, y :
          /\ x = mgr[m].mem /\ add = job'[m].add /\ pending = job'[m].pending
          /\ y = Outcome(m)'
    OBVIOUS
  <2>4. y = Extended(x, add)
    BY <2>2, <2>3 DEF Outcome
  <2>5. add \in Partial(Seq(Chunk)) /\ x \in Indexes \cup {Nil}
    BY <1>2, <2>3, TypeFacts DEF TypeInv, Types, Job
  <2>6. /\ y = Nil <=> add = Empty /\ x = Nil
        /\ \A f \in Files : /\ f \in DOMAIN add => Held(y, f) = Held(x, f) \o add[f]
                            /\ f \notin DOMAIN add => Held(y, f) = Held(x, f)
    BY <2>4, <2>5, AddedHeld
  <2>7. x # Nil => AllTied(x)
    <3>1. SUFFICES ASSUME x # Nil
                   PROVE  AllTied(x)
      OBVIOUS
    <3>2. x = disk[k] /\ Believed(k) /\ journal[k] = Nil
      BY <1>6, <2>3, <3>1
    <3>3. DiskOf(m)
      BY <1>1
    <3>4. AllTied(disk[k])
      BY <1>5, <3>1, <3>2, <3>3 DEF DiskOf
    <3>5. QED  BY <3>2, <3>4
  <2>8. ASSUME NEW f \in N
        PROVE  /\ f \in Files /\ Text(f) /\ f \in DOMAIN job[m].scan
               /\ Held(x, f) \o ToAppend(job[m], f) = ChunksOf[file[f]]
               /\ ToAppend(job[m], f) \in Seq(Chunk) /\ Held(x, f) \in Seq(Chunk)
    <3>1. /\ f \in LoadedNow(m, bad) /\ Text(f)
      BY DEF NonEmpty, Text
    <3>2. f \in Files /\ f \in DOMAIN job[m].scan /\ ToAppend(job[m], f) \in Seq(Chunk)
      BY <1>1, <3>1, LoadedFacts
    <3>3. ~NeedsRebuild(job[m], mgr[m].mem, f)
      BY <1>13, <3>1
    <3>4. Held(x, f) \o ToAppend(job[m], f) = ChunksOf[file[f]]
      BY <1>1, <1>3, <2>3, <2>7, <3>1, <3>3, PlannedHeld
    <3>5. Held(x, f) \in Seq(Chunk)
      BY <2>5, <3>2, UpdateAssumption DEF Held, Indexes
    <3>6. QED  BY <3>1, <3>2, <3>4, <3>5
  <2>9. ASSUME NEW f \in N
        PROVE  Held(y, f) = ChunksOf[file[f]]
    <3>1. CASE ToAppend(job[m], f) = <<>>
      <4>1. f \notin DOMAIN add
        BY <2>1, <2>3, <3>1
      <4>2. Held(y, f) = Held(x, f)
        BY <2>6, <2>8, <4>1
      <4>3. Held(x, f) \o <<>> = Held(x, f)
        BY <2>8
      <4>4. QED  BY <2>8, <3>1, <4>2, <4>3
    <3>2. CASE ToAppend(job[m], f) # <<>>
      <4>1. f \in DOMAIN add /\ add[f] = ToAppend(job[m], f)
        BY <2>1, <2>3, <3>2
      <4>2. QED  BY <2>6, <2>8, <4>1
    <3>3. QED  BY <3>1, <3>2
  <2>10. ASSUME NEW f \in N
         PROVE  Fits(y, f, pending[f])
    <3>1. pending[f] = SidecarOf(job[m], f)
      BY <2>1, <2>3
    <3>2. pending[f].hash = job[m].scan[f].hash /\ pending[f].chunks = ChunksOf[file[f]]
      BY <3>1 DEF SidecarOf
    <3>3. Hashed(pending[f].hash, f)
      BY <1>1, <1>3, <2>8, <3>2 DEF Scanned, Hashed, History
    <3>4. QED  BY <2>9, <3>2, <3>3 DEF Fits
  <2>11. DOMAIN pending = N /\ DOMAIN add \subseteq N
    BY <2>1, <2>3
  <2>12. ASSUME NEW f \in Files \ N, x = Nil
         PROVE  Moot(f) \/ Blind(m)'
    BY <1>1, <1>3, <1>4, <1>13, <2>3, <2>12, LeftOut
  <2>13. ASSUME NEW f \in Files \ N
         PROVE  Tied(y, f) \/ Blind(m)'
    <3>1. Held(y, f) = Held(x, f)
      BY <2>6, <2>11
    <3>2. CASE x # Nil
      BY <2>7, <3>1, <3>2 DEF AllTied, Tied
    <3>3. CASE x = Nil
      <4>1. Moot(f) => Tied(y, f)
        <5>1. file[f] # Nil /\ hash[f] = Nil => hash[f] # file[f]
          OBVIOUS
        <5>2. QED  BY <5>1 DEF Moot, Tied, Text
      <4>2. QED  BY <2>12, <3>3, <4>1
    <3>4. QED  BY <3>2, <3>3
  <2>14. ASSUME y = Nil
         PROVE  N = {} /\ add = Empty /\ pending = Empty
    <3>1. x = Nil /\ add = Empty
      BY <2>6, <2>14
    <3>2. \A f \in N : ToAppend(job[m], f) = ChunksOf[file[f]] /\ ChunksOf[file[f]] # <<>>
      BY <1>3, <2>3, <2>8, <3>1 DEF ToAppend, Anew, Text
    <3>3. DOMAIN add = {}
      BY <3>1, EmptyFacts
    <3>4. N = {}
      BY <2>1, <2>3, <3>2, <3>3
    <3>5. pending = Empty
      BY <2>1, <2>3, <3>4 DEF Empty
    <3>6. QED  BY <3>1, <3>4, <3>5
  <2>15. y = Nil => /\ job'[m].add = Empty /\ job'[m].pending = Empty
                    /\ disk[Model(m)] # Nil => job'[m].purgeIfEmpty
                    /\ \A f \in Files : Moot(f) \/ Blind(m)'
    <3>1. SUFFICES ASSUME y = Nil
                   PROVE  /\ disk[Model(m)] # Nil => job'[m].purgeIfEmpty
                          /\ \A f \in Files : Moot(f) \/ Blind(m)'
      BY <2>3, <2>14
    <3>2. x = Nil
      BY <2>6, <3>1
    <3>3. QED  BY <1>3, <2>1, <2>3, <2>12, <2>14, <3>1, <3>2 DEF Basis
  <2>16. y # Nil => add # Empty \/ (y = disk[k] /\ Believed(k))
    BY <1>6, <2>3, <2>4, <2>6 DEF Extended
  <2> HIDE DEF N
  <2>17. QED
    BY <1>1, <1>2, <1>5, <1>6, <2>2, <2>3, <2>10, <2>11, <2>13, <2>15, <2>16, PlanKeeps
<1>14. QED  BY <1>10, <1>11, <1>12, <1>13

\* An index without vectors of a file contradicts no sidecars that say nothing.
LEMMA MootTied ==
  ASSUME NEW f, NEW x, Moot(f), Held(x, f) = <<>>
  PROVE  Tied(x, f)
<1>1. file[f] # Nil /\ hash[f] = Nil => hash[f] # file[f]
  OBVIOUS
<1>2. QED  BY <1>1 DEF Moot, Tied, Text

\* What is put into a new index is what it holds.
LEMMA NewIndex ==
  ASSUME Types, NEW S \in SUBSET Files, NEW y,
         y = IF S = {} THEN Nil ELSE Appended(Nil, [f \in S |-> ChunksOf[file[f]]]),
         \A f \in S : file[f] \in Contents
  PROVE  /\ y = Nil <=> S = {}
         /\ \A f \in S : Held(y, f) = ChunksOf[file[f]]
         /\ \A f \in Files \ S : Held(y, f) = <<>>
<1> DEFINE add == [f \in S |-> ChunksOf[file[f]]]
<1>1. \A f \in S : ChunksOf[file[f]] \in Seq(Chunk)
  BY ChunksTyped
<1>2. add \in [S -> Seq(Chunk)] /\ DOMAIN add = S
  BY <1>1
<1>3. add \in Partial(Seq(Chunk))
  BY <1>2, PartialFacts
<1>4. \A f : Held(Nil, f) = <<>>
  BY DEF Held
<1>5. CASE S = {}
  BY <1>4, <1>5
<1>6. CASE S # {}
  <2>1. y = Appended(Nil, add)
    BY <1>6
  <2> HIDE DEF add
  <2>2. y # Nil
    BY <1>3, <2>1, AppendedTyped
  <2>3. ASSUME NEW f \in Files
        PROVE  Held(y, f) = IF f \in S THEN ChunksOf[file[f]] ELSE <<>>
    <3>1. Held(y, f) = <<>> \o (IF f \in S THEN add[f] ELSE <<>>)
      BY <1>2, <1>4, <2>1, <2>2 DEF Held, Appended
    <3>2. CASE f \in S
      BY <1>1, <3>1, <3>2 DEF add
    <3>3. CASE f \notin S
      BY <3>1, <3>3
    <3>4. QED  BY <3>2, <3>3
  <2>4. QED  BY <1>6, <2>2, <2>3
<1>7. QED  BY <1>5, <1>6

\* The full rebuild has every scanned file that could be read.
LEMMA RebuildKeeps ==
  ASSUME Setting, Inv, NEW m \in Managers, Rebuild(m)
  PROVE  Inv'
<1> USE Working
<1>1. mgr[m].pc = "rebuild" /\ UNCHANGED <<world, sidecars, disks>>
  BY DEF Rebuild
<1>2. /\ TypeInv' /\ mgr \in [Managers -> Manager] /\ TypeOK
      /\ disk \in [Models -> Indexes \cup {Nil}] /\ mgr[m].mem \in Indexes \cup {Nil}
  BY <1>1, QuietTypes, TypeFacts DEF Manager, Types
<1>3. PICK k \in Models : k = Model(m)
  BY <1>1
<1>4. /\ Unplanned(m) /\ Scanned(m) /\ job[m].deferred = {} /\ mgr[m].mem = Nil
      /\ disk[k] # Nil /\ Believed(k)
  BY <1>1, <1>3 DEF RunInv, ScanInv
<1>5. PICK bad \in SUBSET Present(DOMAIN job[m].scan) :
        /\ UnreadableOf(Present(DOMAIN job[m].scan), bad)
        /\ job'[m].failed = (job[m].failed \/ RFailing(m, bad) # {})
        /\ \/ /\ RPutOff(m, bad) # {}
              /\ Become(m, "embed", disk[k])
              /\ job'[m].add = job[m].add /\ job'[m].pending = job[m].pending
           \/ /\ RPutOff(m, bad) = {}
              /\ Go(m, "embed")
              /\ job'[m].add = [f \in RLoaded(m, bad) |-> ChunksOf[file[f]]]
              /\ job'[m].pending = [f \in RLoaded(m, bad) |-> SidecarOf(job[m], f)]
  BY <1>1, <1>3, RebuildFacts
<1>6. ASSUME NEW x \in Indexes \cup {Nil}, Become(m, "embed", x)
      PROVE  /\ mgr'[m].pc = "embed" /\ mgr'[m].mem = x
             /\ \A n \in Managers : n # m => mgr'[n] = mgr[n]
  BY <1>2, <1>6, BecomeFacts DEF PC, Holding
<1>7. journal[k] = Nil /\ job[m].add = Empty /\ job[m].pending = Empty
  BY <1>3, <1>4 DEF Unplanned
<1>8. CASE RPutOff(m, bad) # {}
  <2>1. /\ mgr'[m].pc = "embed" /\ mgr'[m].mem = disk[k]
        /\ \A n \in Managers : n # m => mgr'[n] = mgr[n]
    BY <1>2, <1>5, <1>6, <1>8
  <2>2. job'[m].add = Empty /\ job'[m].pending = Empty
    BY <1>5, <1>7, <1>8
  <2>3. QED  BY <1>1, <1>2, <1>3, <1>4, <1>7, <2>1, <2>2, PutOffKeeps
<1>9. CASE RPutOff(m, bad) = {}
  <2> DEFINE N == RLoaded(m, bad)
  <2>1. /\ Go(m, "embed")
        /\ job'[m].add = [f \in N |-> ChunksOf[file[f]]]
        /\ job'[m].pending = [f \in N |-> SidecarOf(job[m], f)]
    BY <1>5, <1>9
  <2>2. /\ mgr'[m].pc = "embed" /\ mgr'[m].mem = Nil
        /\ \A n \in Managers : n # m => mgr'[n] = mgr[n]
    BY <1>2, <1>4, <1>6, <2>1, GoBecomes
  <2>3. DOMAIN job[m].scan \subseteq Files
    BY <1>1, LoadedFacts
  <2>4. ASSUME NEW f \in N
        PROVE  /\ f \in Files /\ Text(f) /\ f \in DOMAIN job[m].scan /\ file[f] \in Contents
    BY <1>2, <2>3, NonEmptyFacts DEF RLoaded, NonEmpty, Text
  <2>5. PICK y : y = Outcome(m)'
    OBVIOUS
  <2>6. job'[m].add = Empty <=> N = {}
    BY <2>1, EmptyFacts DEF Empty
  <2>7. y = IF N = {} THEN Nil ELSE Appended(Nil, [f \in N |-> ChunksOf[file[f]]])
    BY <2>1, <2>2, <2>5, <2>6 DEF Outcome, Extended
  <2>8. /\ y = Nil <=> N = {}
        /\ \A f \in N : Held(y, f) = ChunksOf[file[f]]
        /\ \A f \in Files \ N : Held(y, f) = <<>>
    <3>1. N \in SUBSET Files /\ \A f \in N : file[f] \in Contents
      BY <2>4
    <3>2. PICK S \in SUBSET Files : S = N
      BY <3>1
    <3>3. y = IF S = {} THEN Nil ELSE Appended(Nil, [f \in S |-> ChunksOf[file[f]]])
      BY <2>7, <3>2
    <3>4. Types /\ \A f \in S : file[f] \in Contents
      BY <1>1, <3>1, <3>2
    <3> HIDE DEF N
    <3>5. /\ y = Nil <=> S = {}
          /\ \A f \in S : Held(y, f) = ChunksOf[file[f]]
          /\ \A f \in Files \ S : Held(y, f) = <<>>
      BY <3>3, <3>4, NewIndex
    <3>6. QED  BY <3>2, <3>5
  <2>9. ASSUME NEW f \in N
        PROVE  Fits(y, f, job'[m].pending[f])
    <3>1. PICK w : w = SidecarOf(job[m], f)
      OBVIOUS
    <3>2. /\ job'[m].pending[f] = w
          /\ w.hash = job[m].scan[f].hash /\ w.chunks = ChunksOf[file[f]]
      BY <2>1, <3>1 DEF SidecarOf
    <3>3. Hashed(w.hash, f)
      BY <1>1, <1>4, <2>4, <3>2 DEF Scanned, Hashed, History
    <3>4. QED  BY <2>8, <3>2, <3>3 DEF Fits
  <2>10. ASSUME NEW f \in Files \ N
         PROVE  Moot(f) \/ Blind(m)'
    <3>1. SUFFICES ASSUME ~Moot(f), ~Blind(m)
                   PROVE  Blind(m)'
      BY <1>5 DEF Blind
    <3>2. f \in DOMAIN job[m].scan
      BY <1>4, <3>1 DEF Scanned
    <3>3. file[f] # Nil /\ ChunksOf[file[f]] # <<>>
      BY <3>1 DEF Moot, Text
    <3>4. f \in RFailing(m, bad)
      BY <1>9, <3>2, <3>3 DEF RLoaded, NonEmpty
    <3>5. f \in bad
      BY <3>2, <3>3, <3>4 DEF RFailing, Gone, Present
    <3>6. "load" \in Faults /\ job'[m].failed
      BY <1>5, <3>4, <3>5 DEF UnreadableOf, Fails
    <3>7. QED  BY <3>6 DEF Blind, Careful
  <2>11. \A f \in Files \ N : Tied(y, f) \/ Blind(m)'
    BY <2>8, <2>10, MootTied
  <2>12. DOMAIN job'[m].pending = N
    BY <2>1
  <2>13. N = {} => job'[m].pending = Empty
    BY <2>1 DEF Empty
  <2> HIDE DEF N
  <2>14. y # Nil => job'[m].add # Empty
    BY <2>6, <2>8
  <2>15. y = Nil => /\ job'[m].add = Empty /\ job'[m].pending = Empty
                    /\ disk[Model(m)] # Nil => job'[m].purgeIfEmpty \/ Believed(Model(m))
                    /\ \A f \in Files : Moot(f) \/ Blind(m)'
    BY <1>3, <1>4, <2>6, <2>8, <2>10, <2>13
  <2>16. QED
    BY <1>1, <1>2, <1>3, <1>7, <2>2, <2>5, <2>9, <2>11, <2>12, <2>14, <2>15, PlanKeeps
<1>10. QED  BY <1>8, <1>9

\* What is built stays what it is while the plan stays.
LEMMA BuiltStays ==
  ASSUME UNCHANGED <<world, sidecars, disks>>, NEW m \in Managers,
         job'[m].pending = job[m].pending, job'[m].failed = job[m].failed,
         job'[m].purgeIfEmpty = job[m].purgeIfEmpty
  PROVE  \A x, b : Built(m, x, b) => Built(m, x, b)'
<1> USE StillDisks
<1>1. Blind(m)' <=> Blind(m)
  BY DEF Blind
<1>2. \A x : Good(m, x) => Good(m, x)'
  BY <1>1, StillFiles, StillSidecars DEF Good
<1>3. Nothing(m) => Nothing(m)'
  BY <1>1, StillSidecars DEF Nothing, Settled
<1>4. QED  BY <1>2, <1>3 DEF Built

\* What was planned is built.
LEMMA EmbedKeeps ==
  ASSUME Setting, Inv, NEW m \in Managers, Embed(m) \/ Fallback(m)
  PROVE  Inv'
<1> USE Working, StillDisks
<1>1. mgr[m].pc \in {"embed", "fallback"} /\ UNCHANGED <<world, sidecars, disks>>
  BY DEF Embed, Fallback
<1>2. TypeInv' /\ mgr \in [Managers -> Manager]
  BY <1>1, QuietTypes, TypeFacts
<1>3. journal[Model(m)] = Nil
  BY <1>1 DEF RunInv, BuildInv
<1>4. CASE Embed(m)
  <2>1. /\ Outcome(m) \in Indexes \cup {Nil}
        /\ Become(m, "fallback", Outcome(m))
        /\ job'[m].mutated = (job[m].add # Empty)
        /\ job'[m].pending = job[m].pending /\ job'[m].failed = job[m].failed
        /\ job'[m].purgeIfEmpty = job[m].purgeIfEmpty
    BY <1>1, <1>4, EmbedFacts
  <2>2. /\ mgr'[m].pc = "fallback" /\ mgr'[m].mem = Outcome(m)
        /\ \A n \in Managers : n # m => mgr'[n] = mgr[n]
    BY <1>2, <2>1, BecomeFacts DEF PC, Holding
  <2>3. PICK x, b : x = Outcome(m) /\ b = (job[m].add # Empty)
    OBVIOUS
  <2>4. Built(m, x, b)
    BY <1>1, <1>4, <2>3 DEF Embed, RunInv, BuildInv
  <2>5. Built(m, x, b)'
    BY <1>1, <2>1, <2>4, BuiltStays
  <2>6. BuildInv(m)'
    BY <1>1, <1>3, <2>1, <2>2, <2>3, <2>5 DEF BuildInv
  <2>7. RunInv(m)'
    BY <2>2, <2>6, RunByPlace
  <2>8. QED  BY <1>1, <1>2, <2>2, <2>7, QuietKeeps
<1>5. CASE Fallback(m)
  <2>1. /\ mgr'[m].pc = "persist" /\ mgr'[m].mem = mgr[m].mem
        /\ \A n \in Managers : n # m => mgr'[n] = mgr[n]
    BY <1>2, <1>5, GoFacts DEF Fallback, PC, Holding
  <2>2. job' = job
    BY <1>5 DEF Fallback
  <2>3. PICK x, b : x = mgr[m].mem /\ b = job[m].mutated
    OBVIOUS
  <2>4. Built(m, x, b)
    BY <1>1, <1>5, <2>3 DEF Fallback, RunInv, BuildInv
  <2>5. Built(m, x, b)'
    BY <1>1, <2>2, <2>4, BuiltStays
  <2>6. BuildInv(m)'
    BY <1>1, <1>3, <2>1, <2>2, <2>3, <2>5 DEF BuildInv
  <2>7. RunInv(m)'
    BY <2>1, <2>6, RunByPlace
  <2>8. QED  BY <1>1, <1>2, <2>1, <2>7, QuietKeeps
<1>6. QED  BY <1>4, <1>5

\* Without sidecars a file is in agreement with any index.
LEMMA UnknownTied ==
  ASSUME NEW f, NEW x, hash[f] = Nil, chunks[f] = Nil
  PROVE  Tied(x, f)
BY DEF Tied, Text

\* The index of a fallback build has every listed file that could be read and
\* is not put off; those that could not be hashed, and the others, have no
\* sidecars that say something.
LEMMA FallbackBuildKeeps ==
  ASSUME Setting, Inv, NEW m \in Managers, FallbackBuild(m)
  PROVE  Inv'
<1> USE Working, StillDisks
<1>1. /\ mgr[m].pc = "fallback" /\ mgr[m].mem = Nil
      /\ UNCHANGED <<world, sidecars, disks>>
  BY DEF FallbackBuild, NeedsFallback
<1>2. TypeInv' /\ mgr \in [Managers -> Manager] /\ TypeOK
  BY <1>1, QuietTypes, TypeFacts DEF Types
<1>3. journal[Model(m)] = Nil /\ ~job[m].mutated /\ Nothing(m)
  BY <1>1 DEF RunInv, BuildInv, Built
<1>4. PICK bad \in SUBSET Present(job[m].listed \ job[m].deferred),
           unhashed \in SUBSET Present(job[m].listed \ job[m].deferred) :
        /\ FIndex(m, bad) \in Indexes \cup {Nil}
        /\ Become(m, "persist", FIndex(m, bad))
        /\ job' \in [Managers -> Job]
        /\ job'[m].failed = (job[m].failed \/ FFailing(m, bad) # {})
        /\ job'[m].mutated = (job[m].mutated \/ FBuilt(m, bad) # {})
        /\ DOMAIN job'[m].pending = (FBuilt(m, bad) \ unhashed) \cup DOMAIN job[m].pending
        /\ \A f \in FBuilt(m, bad) \ unhashed :
             job'[m].pending[f] = [hash |-> file[f], chunks |-> ChunksOf[file[f]]]
        /\ job'[m].purgeIfEmpty = job[m].purgeIfEmpty
  BY <1>1, FallbackBuildFacts
<1>5. /\ mgr'[m].pc = "persist" /\ mgr'[m].mem = FIndex(m, bad)
      /\ \A n \in Managers : n # m => mgr'[n] = mgr[n]
  <2> HIDE Working, StillDisks
  <2>1. "persist" \in PC /\ FIndex(m, bad) \in Indexes \cup {Nil}
    BY <1>4 DEF PC, Holding
  <2>2. mgr \in [Managers -> Manager] /\ Become(m, "persist", FIndex(m, bad))
    BY <1>2, <1>4
  <2>3. QED  BY <2>1, <2>2, BecomeFacts
<1>6. PICK N, S, x, p :
        /\ N = FBuilt(m, bad) /\ S = FBuilt(m, bad) \ unhashed
        /\ x = FIndex(m, bad) /\ p = job'[m].pending
  OBVIOUS
<1>7. ASSUME NEW f \in N
      PROVE  f \in Files /\ Text(f) /\ file[f] \in Contents /\ file[f] \in had[f]
  <2>1. f \in Files /\ Text(f) /\ file[f] \in Contents
    <3>1. job[m].listed \subseteq Files
      BY <1>1, TypeFacts DEF Job
    <3>2. QED  BY <1>2, <1>6, <3>1, NonEmptyFacts DEF FBuilt, NonEmpty, Text
  <2>2. file[f] \in had[f]
    BY <1>1, <2>1 DEF History, Text
  <2>3. QED  BY <2>1, <2>2
<1>8. /\ x = Nil <=> N = {}
      /\ \A f \in N : Held(x, f) = ChunksOf[file[f]]
      /\ \A f \in Files \ N : Held(x, f) = <<>>
  <2>1. x = IF N = {} THEN Nil ELSE Appended(Nil, [f \in N |-> ChunksOf[file[f]]])
    BY <1>6 DEF FIndex
  <2>2. N \in SUBSET Files /\ \A f \in N : file[f] \in Contents
    BY <1>7
  <2>3. Types
    BY <1>1, TypeFacts
  <2> HIDE Working, StillDisks
  <2>4. QED  BY <2>1, <2>2, <2>3, NewIndex
<1>9. Blind(m) => Blind(m)'
  BY <1>4 DEF Blind
<1>10. \A f \in S : Fits(x, f, p[f])
  <2>1. SUFFICES ASSUME NEW f \in S
                 PROVE  Fits(x, f, p[f])
    OBVIOUS
  <2>2. f \in N /\ Hashed(file[f], f)
    BY <1>6, <1>7 DEF Hashed, Text
  <2>3. p[f] = [hash |-> file[f], chunks |-> ChunksOf[file[f]]]
    BY <1>4, <1>6
  <2>4. p[f].hash = file[f] /\ p[f].chunks = ChunksOf[file[f]]
    BY <2>3
  <2>5. Held(x, f) = ChunksOf[file[f]]
    BY <1>8, <2>2
  <2>6. QED  BY <2>2, <2>4, <2>5 DEF Fits
<1>11. \A f \in Files \ S : Tied(x, f) \/ Blind(m)'
  <2>1. \A f \in Files \ N : Tied(x, f) \/ Blind(m)'
    BY <1>3, <1>8, <1>9, MootTied DEF Nothing
  <2>2. \A f \in N : Tied(x, f) \/ Blind(m)'
    BY <1>3, <1>7, <1>9, UnknownTied DEF Nothing, Moot
  <2>3. QED  BY <2>1, <2>2
<1>12. DOMAIN p = S
  BY <1>3, <1>4, <1>6, EmptyFacts DEF Nothing
<1>13. Good(m, x)'
  BY <1>1, <1>6, <1>10, <1>11, <1>12, StillFiles, StillSidecars DEF Good
<1>14. x = Nil => Nothing(m)'
  <2>1. SUFFICES ASSUME N = {}
                 PROVE  Nothing(m)'
    BY <1>8
  <2>2. p \in [DOMAIN p -> Sidecar]
    BY <1>4, <1>6, PartialFacts DEF Job
  <2>3. p = Empty
    BY <1>6, <1>12, <2>1, <2>2 DEF Empty
  <2>4. Settled(m)'
    BY <1>1, <1>3, <1>4 DEF Nothing, Settled
  <2>5. \A f \in Files : Moot(f)' \/ Blind(m)'
    BY <1>1, <1>3, <1>9, StillSidecars DEF Nothing
  <2>6. QED  BY <1>6, <2>3, <2>4, <2>5 DEF Nothing
<1>15. PICK b \in BOOLEAN : b = (N # {})
  OBVIOUS
<1>16. Built(m, x, b)'
  BY <1>8, <1>13, <1>14, <1>15 DEF Built
<1>17. job'[m].mutated = b
  BY <1>3, <1>4, <1>6, <1>15
<1>18. BuildInv(m)'
  BY <1>1, <1>3, <1>5, <1>6, <1>16, <1>17 DEF BuildInv
<1>19. RunInv(m)'
  BY <1>5, <1>18, RunByPlace
<1>20. QED  BY <1>1, <1>2, <1>5, <1>19, QuietKeeps

-----------------------------------------------------------------------------
(* Refreshes that end, in failure or not.                                  *)

\* A process that ends leaves a journal without an owner, and the sidecars of
\* an index that will be believed are those of that index.
LEMMA EndKeeps ==
  ASSUME Setting, Inv, TypeInv', NEW m \in Managers, mgr[m].pc # "off",
         UNCHANGED <<world, sidecars>>,
         \A n \in Managers : n # m => mgr'[n] = mgr[n],
         mgr'[m].pc = "off", DiskOf(m)', CompletedOf(m)',
         journal'[Model(m)] = Nil \/ journal'[Model(m)].owner = Nil
  PROVE  Inv'
<1> USE Working
<1>1. \A n \in Managers : n # m => mgr'[n].pc = "off"
  OBVIOUS
<1>2. History' /\ SidecarInv'
  BY StillFiles, StillSidecars
<1>3. OwnerOf(m)'
  BY DEF OwnerOf, Model
<1>4. RunInv(m)'
  BY RunByPlace
<1>5. QED  BY <1>1, <1>2, <1>3, <1>4, OwnInv

\* A process that dies, or fails and leaves the index as it is.
LEMMA OffKeeps ==
  ASSUME Setting, Inv, TypeInv', NEW m \in Managers, mgr[m].pc # "off",
         UNCHANGED <<world, sidecars, disk, fresh>>,
         \A n \in Managers : n # m => mgr'[n] = mgr[n],
         mgr'[m].pc = "off",
         \/ journal' = Orphaned(m)
         \/ /\ journal' = [journal EXCEPT ![Model(m)] = Nil]
            /\ disk[Model(m)] # Nil /\ Believed(Model(m)) => AllTied(disk[Model(m)])
  PROVE  Inv'
<1> USE Working
<1>1. PICK k \in Models : k = Model(m) /\ Model(m)' = k
  BY DEF Model
<1>2. journal \in [Models -> Journal \cup {Nil}]
  BY TypeFacts
<1>3. (Believed(k)' <=> Believed(k)) /\ \A x : AllTied(x)' <=> AllTied(x)
  BY StillSidecars DEF Believed
<1>4. AllTied(disk[k]) => AllTied(disk[k])'
  <2>1. PICK x : x = disk[k] /\ x = disk'[k]
    OBVIOUS
  <2>2. QED  BY <1>3, <2>1
<1>5. CASE journal' = Orphaned(m)
  <2>1. /\ journal'[k] = Nil <=> journal[k] = Nil
        /\ journal[k] # Nil => /\ journal'[k].phase = journal[k].phase
                               /\ journal'[k].writes = journal[k].writes
                               /\ journal'[k].owner = Nil
    BY <1>1, <1>2, <1>5, OrphanedFacts DEF OwnerOf
  <2>2. DiskOf(m)'
    BY <1>1, <1>3, <1>4, <2>1 DEF DiskOf
  <2>3. CompletedOf(m)'
    <3>1. SUFFICES ASSUME HasPhase(k, "save-complete")'
                   PROVE  Completed(k)'
      BY <1>1 DEF CompletedOf
    <3>2. Completed(k)
      BY <1>1, <2>1, <3>1 DEF HasPhase, CompletedOf
    <3>3. PICK x, w : x = disk[k] /\ w = journal[k].writes
      OBVIOUS
    <3>4. x = disk'[k] /\ w = journal'[k].writes
      BY <2>1, <3>1, <3>3 DEF HasPhase
    <3>5. QED  BY <3>2, <3>3, <3>4, StillFiles, StillSidecars DEF Completed
  <2>4. QED  BY <1>1, <2>1, <2>2, <2>3, EndKeeps
<1>6. CASE /\ journal' = [journal EXCEPT ![k] = Nil]
           /\ disk[k] # Nil /\ Believed(k) => AllTied(disk[k])
  <2>1. journal'[k] = Nil
    BY <1>2, <1>6
  <2>2. DiskOf(m)' /\ CompletedOf(m)'
    BY <1>1, <1>3, <1>4, <1>6, <2>1 DEF DiskOf, CompletedOf, HasPhase
  <2>3. QED  BY <1>1, <2>1, <2>2, EndKeeps
<1>7. QED  BY <1>1, <1>5, <1>6

\* A crash keeps the invariant.
LEMMA CrashKeeps ==
  ASSUME Setting, Inv, NEW m \in Managers, Crash(m)
  PROVE  Inv'
<1> USE Working
<1>1. /\ mgr[m].pc # "off" /\ UNCHANGED <<world, sidecars, disk, fresh>>
      /\ journal' = Orphaned(m)
  BY DEF Crash
<1>2. TypeInv' /\ mgr \in [Managers -> Manager]
  BY <1>1, CrashTypes, TypeFacts
<1>3. mgr'[m].pc = "off" /\ \A n \in Managers : n # m => mgr'[n] = mgr[n]
  BY <1>2 DEF Crash, Off
<1>4. QED  BY <1>1, <1>2, <1>3, OffKeeps

\* A failure at any step of a refresh keeps the invariant: the index on disk
\* is still the one of its sidecars, or the journal says otherwise, or the
\* freshness manifest does not match it.
LEMMA FailureKeeps ==
  ASSUME Setting, Inv, NEW m \in Managers, Failure(m)
  PROVE  Inv'
<1> USE Working
<1>1. /\ mgr[m].pc \in {"embed", "fallback", "persist", "save", "complete", "hashes", "chunks",
                        "clear"}
      /\ UNCHANGED <<world, sidecars, disk, fresh>>
  BY DEF Failure, EmbedFails, Batch, JournalFails, SaveFails, CompleteFails,
         SidecarFails
<1>2. TypeInv' /\ mgr \in [Managers -> Manager] /\ job \in [Managers -> Job]
      /\ mgr[m].mem \in Indexes \cup {Nil} /\ m \notin Warm
  BY <1>1, FailureTypes, TypeFacts DEF Manager, Setting
<1>3. mgr'[m].pc = "off" /\ \A n \in Managers : n # m => mgr'[n] = mgr[n]
  BY <1>2 DEF Failure, EmbedFails, JournalFails, SaveFails, CompleteFails,
              SidecarFails, Abort, Rest, Off
<1>4. CASE EmbedFails(m) \/ SidecarFails(m)
  <2>1. journal' = Orphaned(m)
    BY <1>2, <1>4 DEF EmbedFails, SidecarFails
  <2>2. QED  BY <1>1, <1>2, <1>3, <2>1, OffKeeps
<1>5. CASE JournalFails(m) \/ SaveFails(m) \/ CompleteFails(m)
  <2>1. journal' = Orphaned(m) \/ journal' = [journal EXCEPT ![Model(m)] = Nil]
    BY <1>2, <1>5 DEF JournalFails, SaveFails, CompleteFails, Abort
  <2>2. disk[Model(m)] # Nil /\ Believed(Model(m)) => AllTied(disk[Model(m)])
    <3>1. CASE JournalFails(m)
      <4>1. journal[Model(m)] = Nil
        BY <1>1, <3>1 DEF JournalFails, RunInv, BuildInv
      <4>2. DiskOf(m)
        BY <1>1
      <4>3. QED  BY <4>1, <4>2 DEF DiskOf
    <3>2. CASE SaveFails(m)
      <4>1. mgr[m].pc = "save" /\ DiskOf(m)
        BY <1>1, <3>2 DEF SaveFails
      <4>2. QED  BY <4>1 DEF DiskOf
    <3>3. CASE CompleteFails(m)
      <4>1. Model(m) \notin fresh /\ "complete" \in Faults
        BY <1>1, <3>3 DEF CompleteFails, Fails, RunInv, CommitInv
      <4>2. QED  BY <4>1 DEF Believed, Careful
    <3>4. QED  BY <1>5, <3>1, <3>2, <3>3
  <2>3. QED  BY <1>1, <1>2, <1>3, <2>1, <2>2, OffKeeps
<1>6. QED  BY <1>4, <1>5 DEF Failure

\* A refresh certifies only an index that its sidecars agree with.
LEMMA FinishKeeps ==
  ASSUME Setting, Inv, NEW m \in Managers, Finish(m)
  PROVE  Inv'
<1> USE Working
<1>1. mgr[m].pc = "finish" /\ UNCHANGED <<world, sidecars>>
  BY DEF Finish
<1>2. /\ TypeInv' /\ mgr \in [Managers -> Manager] /\ m \notin Warm
      /\ journal \in [Models -> Journal \cup {Nil}] /\ disk \in [Models -> Indexes \cup {Nil}]
  BY <1>1, FinishTypes, TypeFacts DEF Setting
<1>3. mgr'[m].pc = "off" /\ \A n \in Managers : n # m => mgr'[n] = mgr[n]
  BY <1>2 DEF Finish, Rest, Off
<1>4. PICK k \in Models : k = Model(m) /\ Model(m)' = k
  BY <1>1 DEF Model
<1>5. /\ journal[k] = Nil
      /\ mgr[m].mem = Nil => Settled(m)
      /\ mgr[m].mem # Nil => \/ Believed(k)
                             \/ \A f \in Files : Tied(disk[k], f) \/ Blind(m)
  BY <1>1, <1>4 DEF RunInv, FinishInv
<1>6. journal'[k] = Nil
  <2>1. journal' = Orphaned(m)
    BY <1>2 DEF Finish
  <2>2. QED  BY <1>2, <1>5, <2>1, OrphanedFacts
<1>7. disk[k] # Nil /\ Believed(k) => AllTied(disk[k])
  <2>1. DiskOf(m)
    BY <1>1
  <2>2. QED  BY <1>4, <1>5, <2>1 DEF DiskOf
<1>8. DiskOf(m)'
  <2>1. CASE mgr[m].mem = Nil /\ job[m].purgeIfEmpty
    <3>1. disk'[k] = Nil
      BY <1>2, <1>4, <2>1 DEF Finish
    <3>2. QED  BY <1>4, <3>1 DEF DiskOf
  <2>2. CASE ~(mgr[m].mem = Nil /\ job[m].purgeIfEmpty)
    <3>1. disk' = disk /\ (fresh' = fresh \/ fresh' = Certified(m))
      BY <2>2 DEF Finish
    <3>2. SUFFICES ASSUME disk[k] # Nil, Believed(k)'
                   PROVE  AllTied(disk[k])
      <4>1. PICK x : x = disk[k]
        OBVIOUS
      <4>2. AllTied(x)' <=> AllTied(x)
        BY <1>1, StillSidecars
      <4>3. QED  BY <1>4, <3>1, <4>1, <4>2 DEF DiskOf
    <3>3. CASE Believed(k)
      BY <1>7, <3>2, <3>3
    <3>4. CASE ~Believed(k)
      <4>1. k \notin fresh /\ k \in fresh'
        BY <3>2, <3>4 DEF Believed
      <4>2. ~job[m].failed
        BY <3>1, <4>1 DEF Certified
      <4>3. mgr[m].mem # Nil
        BY <1>4, <1>5, <2>2, <3>2, <3>4 DEF Settled
      <4>4. \A f \in Files : Tied(disk[k], f)
        BY <1>5, <3>4, <4>2, <4>3 DEF Blind
      <4>5. QED  BY <4>4 DEF AllTied
    <3>5. QED  BY <3>3, <3>4
  <2>3. QED  BY <2>1, <2>2
<1>9. CompletedOf(m)'
  BY <1>4, <1>6 DEF CompletedOf, HasPhase
<1>10. QED  BY <1>1, <1>2, <1>3, <1>4, <1>6, <1>8, <1>9, EndKeeps

-----------------------------------------------------------------------------
(* The commit: save, journal, sidecars.                                    *)

\* The pending sidecars are sidecars of files.
LEMMA PendingTyped ==
  ASSUME Types, NEW m \in Managers
  PROVE  /\ DOMAIN job[m].pending \subseteq Files
         /\ \A f \in DOMAIN job[m].pending : job[m].pending[f] \in Sidecar
<1>1. job[m].pending \in Partial(Sidecar)
  BY DEF Types, Job
<1>2. QED  BY <1>1, PartialFacts

\* What is said of an index does not change while the files, the sidecars and
\* what is pending stay.
LEMMA StillGood ==
  ASSUME UNCHANGED <<world, sidecars>>, NEW m \in Managers,
         job'[m].pending = job[m].pending, job'[m].failed = job[m].failed
  PROVE  /\ \A x : Good(m, x)' <=> Good(m, x)
         /\ Blind(m)' <=> Blind(m)
<1>1. Blind(m)' <=> Blind(m)
  BY DEF Blind
<1>2. QED  BY <1>1, StillFiles, StillSidecars DEF Good

\* The save begins under a journal; without a change there is none, and the
\* index on disk is the one that the pending sidecars describe.
LEMMA PersistKeeps ==
  ASSUME Setting, Inv, NEW m \in Managers, Persist(m)
  PROVE  Inv'
<1> USE Working
<1>1. mgr[m].pc = "persist" /\ UNCHANGED <<world, sidecars, disk, fresh>>
  BY DEF Persist
<1>2. /\ TypeInv' /\ mgr \in [Managers -> Manager]
      /\ journal \in [Models -> Journal \cup {Nil}]
  BY <1>1, CommitTypes, TypeFacts
<1>3. PICK k \in Models : k = Model(m) /\ Model(m)' = k
  BY <1>1 DEF Model
<1>4. journal[k] = Nil /\ Built(m, mgr[m].mem, job[m].mutated)
  BY <1>1, <1>3 DEF RunInv, BuildInv
<1>5. /\ job'[m].left = DOMAIN job[m].pending
      /\ job'[m].pending = job[m].pending /\ job'[m].failed = job[m].failed
      /\ job'[m].mutated = job[m].mutated
      /\ job'[m].purgeIfEmpty = job[m].purgeIfEmpty
  BY <1>1, PersistFacts
<1>6. PICK p \in {"save", "hashes", "finish"} :
        /\ Go(m, p)
        /\ p = IF job[m].mutated THEN "save"
               ELSE IF job[m].pending # Empty THEN "hashes" ELSE "finish"
  BY DEF Persist
<1>7. /\ mgr'[m].pc = p /\ mgr'[m].mem = mgr[m].mem
      /\ \A n \in Managers : n # m => mgr'[n] = mgr[n]
  BY <1>2, <1>6, GoFacts DEF PC, Holding
<1>8. PICK x : x = mgr[m].mem
  OBVIOUS
<1>9. CASE job[m].mutated
  <2>1. /\ journal' = IF Journaled(m) THEN [journal EXCEPT ![k] = Started(m)] ELSE journal
        /\ p = "save"
    BY <1>3, <1>6, <1>9 DEF Persist
  <2>2. /\ journal'[k] = IF Journaled(m) THEN Started(m) ELSE Nil
        /\ Started(m)' = Started(m) /\ (Journaled(m)' <=> Journaled(m))
    BY <1>2, <1>4, <1>5, <2>1 DEF Started, Journaled
  <2>3. x # Nil /\ Good(m, x)
    BY <1>4, <1>8, <1>9 DEF Built
  <2>4. Good(m, x)'
    BY <1>1, <1>5, <2>3, StillGood
  <2>5. CommitInv(m)'
    BY <1>3, <1>5, <1>7, <1>8, <1>9, <2>1, <2>2, <2>3, <2>4 DEF CommitInv
  <2>6. RunInv(m)'
    BY <1>7, <2>1, <2>5, RunByPlace
  <2>7. DiskOf(m)'
    <3>1. PICK y : y = disk[k] /\ y = disk'[k]
      BY <1>1
    <3>2. (Believed(k)' <=> Believed(k)) /\ (AllTied(y)' <=> AllTied(y))
      BY <1>1, StillSidecars DEF Believed
    <3>3. DiskOf(m)
      BY <1>1
    <3>4. QED  BY <1>3, <1>4, <3>1, <3>2, <3>3 DEF DiskOf
  <2>8. OwnerOf(m)' /\ CompletedOf(m)'
    BY <1>3, <1>7, <2>1, <2>2 DEF OwnerOf, CompletedOf, HasPhase, Started
  <2>9. History' /\ SidecarInv'
    BY <1>1, StillFiles, StillSidecars
  <2>10. \A n \in Managers : n # m => mgr'[n].pc = "off"
    BY <1>1, <1>7
  <2>11. QED  BY <1>2, <2>6, <2>7, <2>8, <2>9, <2>10, OwnInv
<1>10. CASE ~job[m].mutated
  <2>1. journal' = journal /\ UNCHANGED <<world, sidecars, disks>>
    BY <1>1, <1>10 DEF Persist, disks
  <2>2. Believed(k)' <=> Believed(k)
    BY <1>1 DEF Believed
  <2>3. x # Nil => Good(m, x) /\ x = disk[k] /\ Believed(k)
    BY <1>3, <1>4, <1>8, <1>10 DEF Built
  <2>4. x = Nil => job[m].pending = Empty /\ Settled(m)
    BY <1>4, <1>8 DEF Built, Nothing
  <2>5. CASE job[m].pending # Empty
    <3>1. p = "hashes" /\ x # Nil
      BY <1>6, <1>10, <2>4, <2>5
    <3>2. Good(m, x)'
      BY <1>1, <1>5, <2>3, <3>1, StillGood
    <3>3. \A w : Written(w, {})'
      BY DEF Written
    <3>4. DOMAIN job'[m].pending \ job'[m].left = {}
      BY <1>5
    <3>5. Written(job[m].pending, DOMAIN job[m].pending \ job[m].left)'
      BY <3>3, <3>4 DEF Written
    <3>6. CommitInv(m)'
      BY <1>1, <1>3, <1>4, <1>5, <1>7, <1>8, <1>10, <2>1, <2>2, <2>3, <3>1, <3>2, <3>5
         DEF CommitInv
    <3>7. RunInv(m)'
      BY <1>7, <3>1, <3>6, RunByPlace
    <3>8. QED  BY <1>1, <1>2, <1>7, <2>1, <3>1, <3>7, QuietKeeps
  <2>6. CASE job[m].pending = Empty
    <3>1. p = "finish"
      BY <1>6, <1>10, <2>6
    <3>2. x = Nil => Settled(m)'
      BY <1>1, <1>3, <1>5, <2>2, <2>4 DEF Settled
    <3>3. FinishInv(m)'
      BY <1>3, <1>4, <1>7, <1>8, <2>1, <2>2, <2>3, <3>1, <3>2 DEF FinishInv
    <3>4. RunInv(m)'
      BY <1>7, <3>1, <3>3, RunByPlace
    <3>5. QED  BY <1>1, <1>2, <1>7, <2>1, <3>1, <3>4, QuietKeeps
  <2>7. QED  BY <2>5, <2>6
<1>11. QED  BY <1>9, <1>10

\* With nothing pending the sidecars already say what a good index holds, if
\* every file could be read.
LEMMA NothingPending ==
  ASSUME NEW m \in Managers, NEW x, Good(m, x), ~Journaled(m)
  PROVE  /\ \A f \in Files : Tied(x, f) \/ Blind(m)
         /\ Careful => AllTied(x)
<1>1. DOMAIN job[m].pending = {}
  BY DEF Journaled, Empty
<1>2. QED  BY <1>1 DEF Good, Blind, AllTied

\* The new index is on disk, under the journal and without a freshness
\* manifest that matches it.
LEMMA SaveKeeps ==
  ASSUME Setting, Inv, NEW m \in Managers, Save(m)
  PROVE  Inv'
<1> USE Working
<1>1. mgr[m].pc = "save" /\ UNCHANGED <<world, sidecars, journal, job>>
  BY DEF Save
<1>2. TypeInv' /\ mgr \in [Managers -> Manager] /\ disk \in [Models -> Indexes \cup {Nil}]
  BY <1>1, CommitTypes, TypeFacts
<1>3. PICK k \in Models : k = Model(m) /\ Model(m)' = k
  BY <1>1 DEF Model
<1>4. /\ mgr'[m].pc = "complete" /\ mgr'[m].mem = mgr[m].mem
      /\ \A n \in Managers : n # m => mgr'[n] = mgr[n]
  BY <1>2, GoFacts DEF Save, PC, Holding
<1>5. PICK x : x = mgr[m].mem
  OBVIOUS
<1>6. /\ journal[k] = (IF Journaled(m) THEN Started(m) ELSE Nil) /\ job[m].left = DOMAIN job[m].pending
      /\ x # Nil /\ job[m].mutated /\ Good(m, x)
  BY <1>1, <1>3, <1>5 DEF RunInv, CommitInv
<1>7. /\ disk'[k] = x /\ k \notin fresh' /\ Started(m)' = Started(m)
      /\ Journaled(m)' <=> Journaled(m)
  BY <1>1, <1>2, <1>3, <1>5 DEF Save, Started, Journaled
<1>8. Good(m, x)'
  BY <1>1, <1>6, StillGood
<1>9. CommitInv(m)'
  BY <1>1, <1>3, <1>4, <1>5, <1>6, <1>7, <1>8 DEF CommitInv
<1>10. RunInv(m)'
  BY <1>4, <1>9, RunByPlace
<1>11. /\ journal'[k] = journal[k]
       /\ Journaled(m) => journal[k] = Started(m) /\ journal[k] # Nil
       /\ ~Journaled(m) => journal[k] = Nil
  <2>1. Journaled(m) => journal[k] # Nil
    BY <1>1, <1>3 DEF TypeInv, UnderInv, UnderJournal
  <2>2. QED  BY <1>1, <1>6, <2>1
<1>12. DiskOf(m)'
  <2>1. CASE Journaled(m)
    BY <1>3, <1>4, <1>11, <2>1 DEF DiskOf
  <2>2. CASE ~Journaled(m)
    <3>1. Believed(k)' => Careful
      BY <1>7 DEF Believed
    <3>2. Careful => AllTied(x)'
      BY <1>1, <1>6, <2>2, NothingPending, StillSidecars
    <3>3. QED  BY <1>3, <1>7, <3>1, <3>2 DEF DiskOf
  <2>3. QED  BY <2>1, <2>2
<1>13. OwnerOf(m)' /\ CompletedOf(m)'
  BY <1>3, <1>4, <1>11 DEF OwnerOf, CompletedOf, HasPhase, Started
<1>14. History' /\ SidecarInv'
  BY <1>1, StillFiles, StillSidecars
<1>15. \A n \in Managers : n # m => mgr'[n].pc = "off"
  BY <1>1, <1>4
<1>16. QED  BY <1>2, <1>10, <1>12, <1>13, <1>14, <1>15, OwnInv

\* From here on the journal has the sidecars that the index lacks.
LEMMA CompleteKeeps ==
  ASSUME Setting, Inv, NEW m \in Managers, Complete(m)
  PROVE  Inv'
<1> USE Working
<1>1. mgr[m].pc = "complete" /\ UNCHANGED <<world, sidecars, disk, fresh, job>>
  BY DEF Complete
<1>2. /\ TypeInv' /\ mgr \in [Managers -> Manager]
      /\ journal \in [Models -> Journal \cup {Nil}]
  BY <1>1, CommitTypes, TypeFacts
<1>3. PICK k \in Models : k = Model(m) /\ Model(m)' = k
  BY <1>1 DEF Model
<1>4. PICK x, p : x = mgr[m].mem /\ p = job[m].pending
  OBVIOUS
<1>5. /\ journal[k] = (IF Journaled(m) THEN Started(m) ELSE Nil) /\ job[m].left = DOMAIN p
      /\ x # Nil /\ job[m].mutated /\ Good(m, x) /\ disk[k] = x /\ k \notin fresh
  BY <1>1, <1>3, <1>4 DEF RunInv, CommitInv
<1>6. History' /\ SidecarInv'
  BY <1>1, StillFiles, StillSidecars
<1>7. CASE Journaled(m)
  <2>1. /\ mgr'[m].pc = "hashes" /\ mgr'[m].mem = mgr[m].mem
        /\ \A n \in Managers : n # m => mgr'[n] = mgr[n]
    BY <1>2, <1>7, GoFacts DEF Complete, PC, Holding
  <2>2. journal[k] = Started(m) /\ journal[k] # Nil
    BY <1>1, <1>3, <1>5, <1>7 DEF TypeInv, UnderInv, UnderJournal
  <2>3. /\ journal'[k] # Nil /\ journal'[k].phase = "save-complete"
        /\ journal'[k].owner = m /\ journal'[k].writes = p
    <3>1. journal'[k] = [Started(m) EXCEPT !.phase = "save-complete"]
      BY <1>2, <1>3, <1>7, <2>2 DEF Complete
    <3>2. Started(m) \in Journal
      BY <1>2, <2>2
    <3>3. journal'[k] \in Journal
      BY <3>1, <3>2 DEF Journal
    <3>4. QED  BY <1>4, <3>1, <3>2, <3>3, UpdateAssumption DEF Started, Journal
  <2>4. Good(m, x)'
    BY <1>1, <1>5, StillGood
  <2>5. Written(job[m].pending, DOMAIN job[m].pending \ job[m].left)'
    BY <1>1, <1>4, <1>5 DEF Written
  <2>6. CommitInv(m)'
    BY <1>1, <1>3, <1>4, <1>5, <2>1, <2>3, <2>4, <2>5 DEF CommitInv, HasPhase
  <2>7. RunInv(m)'
    BY <2>1, <2>6, RunByPlace
  <2>8. Completed(k)'
    <3>1. /\ \A f \in DOMAIN p : Fits(x, f, p[f])
          /\ Careful => \A f \in Files \ DOMAIN p : Tied(x, f)
      BY <1>4, <1>5 DEF Good, Blind
    <3>2. /\ \A f \in DOMAIN p : Fits(x, f, p[f])'
          /\ Careful => \A f \in Files \ DOMAIN p : Tied(x, f)'
      BY <1>1, <3>1, StillFiles, StillSidecars
    <3>3. disk'[k] = x /\ k \notin fresh'
      BY <1>1, <1>5
    <3>4. QED  BY <1>5, <2>3, <3>2, <3>3 DEF Completed
  <2>9. DiskOf(m)' /\ OwnerOf(m)' /\ CompletedOf(m)'
    BY <1>3, <2>1, <2>3, <2>8 DEF DiskOf, OwnerOf, CompletedOf
  <2>10. \A n \in Managers : n # m => mgr'[n].pc = "off"
    BY <1>1, <2>1
  <2>11. QED  BY <1>2, <1>6, <2>7, <2>9, <2>10, OwnInv
<1>8. CASE ~Journaled(m)
  <2>1. /\ mgr'[m].pc = "finish" /\ mgr'[m].mem = mgr[m].mem
        /\ \A n \in Managers : n # m => mgr'[n] = mgr[n]
    BY <1>2, <1>8, GoFacts DEF Complete, PC, Holding
  <2>2. journal' = journal /\ journal[k] = Nil
    BY <1>5, <1>8 DEF Complete
  <2>3. \A f \in Files : Tied(x, f)' \/ Blind(m)'
    <3>1. \A f \in Files : Tied(x, f) \/ Blind(m)
      BY <1>5, <1>8, NothingPending
    <3>2. Blind(m)' <=> Blind(m)
      BY <1>1 DEF Blind
    <3>3. QED  BY <1>1, <3>1, <3>2, StillSidecars
  <2>4. disk'[k] = x
    BY <1>1, <1>5
  <2>5. FinishInv(m)'
    BY <1>3, <1>4, <1>5, <2>1, <2>2, <2>3, <2>4 DEF FinishInv
  <2>6. RunInv(m)'
    BY <2>1, <2>5, RunByPlace
  <2>7. UNCHANGED <<world, sidecars, disks>>
    BY <1>1, <2>2 DEF disks
  <2>8. QED  BY <1>1, <1>2, <2>1, <2>6, <2>7, QuietKeeps
<1>9. QED  BY <1>7, <1>8

\* The sidecars that are already written, at each place of the commit.
Progress(m) ==
  LET p == job[m].pending
  IN /\ mgr[m].pc = "hashes" => Written(p, DOMAIN p \ job[m].left)
     /\ mgr[m].pc \in {"chunks", "clear"} => Written(p, DOMAIN p)
     /\ mgr[m].pc = "chunks" => Manifested(p, DOMAIN p \ job[m].left)
     /\ mgr[m].pc = "clear" => Manifested(p, DOMAIN p)

\* One sidecar of one file is written as the journal, or the index on disk, has
\* it: no other file is concerned, and the index stays what the sidecars say.
LEMMA SidecarKeeps ==
  ASSUME Setting, Inv, TypeInv', NEW m \in Managers, mgr[m].pc \in {"hashes", "chunks"},
         UNCHANGED <<world, disks>>,
         NEW f \in DOMAIN job[m].pending,
         \/ hash'[f] = job[m].pending[f].hash /\ chunks'[f] = chunks[f]
         \/ hash'[f] = hash[f] /\ chunks'[f] = job[m].pending[f].chunks,
         \A g \in Files : g # f => hash'[g] = hash[g] /\ chunks'[g] = chunks[g],
         job'[m].pending = job[m].pending, job'[m].failed = job[m].failed,
         job'[m].mutated = job[m].mutated,
         mgr'[m].pc \in {"hashes", "chunks", "clear"}, mgr'[m].mem = mgr[m].mem,
         \A n \in Managers : n # m => mgr'[n] = mgr[n],
         Progress(m)'
  PROVE  Inv'
<1> USE Working
<1>1. PICK k \in Models : k = Model(m) /\ Model(m)' = k
  BY DEF Model
<1>2. PICK x, p : x = disk[k] /\ p = job[m].pending
  OBVIOUS
<1>3. /\ DOMAIN p \subseteq Files /\ f \in Files /\ f \in DOMAIN p
      /\ \A g \in DOMAIN p : p[g] \in Sidecar
  BY <1>2, PendingTyped
<1>4. /\ disk' = disk /\ journal' = journal /\ fresh' = fresh
      /\ (Believed(k)' <=> Believed(k))
  BY DEF disks, Believed
<1>5. /\ disk[k] = mgr[m].mem /\ mgr[m].mem # Nil /\ Good(m, x)
      /\ job[m].mutated => HasPhase(k, "save-complete") /\ journal[k].writes = p
      /\ ~job[m].mutated => journal[k] = Nil /\ Believed(k)
  BY <1>1, <1>2 DEF RunInv, CommitInv
<1>6. Fits(x, f, p[f])
  BY <1>2, <1>3, <1>5 DEF Good
<1>7. ASSUME NEW g \in Files
      PROVE  /\ Tied(x, g) => Tied(x, g)'
             /\ (hash[g] # Nil => Hashed(hash[g], g))'
             /\ (chunks[g] # Nil => had[g] # {})'
  <2>1. /\ hash[g] # Nil => Hashed(hash[g], g)
        /\ chunks[g] # Nil => had[g] # {}
    BY DEF SidecarInv
  <2>2. CASE g # f
    <3>1. hash'[g] = hash[g] /\ chunks'[g] = chunks[g]
      BY <2>2
    <3>2. QED  BY <2>1, <3>1, StillFile
  <2>3. CASE g = f
    <3>1. PICK w \in Sidecar : w = p[f]
      BY <1>3
    <3>2. \/ hash'[f] = w.hash /\ chunks'[f] = chunks[f]
          \/ hash'[f] = hash[f] /\ chunks'[f] = w.chunks
      BY <1>2, <3>1
    <3>3. Fits(x, f, w)
      BY <1>6, <3>1
    <3>4. QED  BY <1>3, <2>1, <2>3, <3>2, <3>3, WritingTies
  <2>4. QED  BY <2>2, <2>3
<1>8. History' /\ SidecarInv'
  BY <1>7, StillFiles DEF SidecarInv
<1>9. Blind(m)' <=> Blind(m)
  BY DEF Blind
<1>10. Good(m, x)'
  <2>1. \A g \in DOMAIN p : Fits(x, g, p[g])'
    BY <1>2, <1>5, StillFiles DEF Good
  <2>2. \A g \in Files \ DOMAIN p : Tied(x, g)' \/ Blind(m)'
    BY <1>2, <1>5, <1>7, <1>9 DEF Good
  <2>3. QED  BY <1>2, <2>1, <2>2 DEF Good
<1>11. CommitInv(m)'
  <2>1. /\ HasPhase(k, "save-complete")' <=> HasPhase(k, "save-complete")
        /\ Good(m, disk[k])'
    BY <1>2, <1>4, <1>10 DEF HasPhase
  <2>2. QED  BY <1>1, <1>2, <1>4, <1>5, <2>1 DEF CommitInv, Progress
<1>12. RunInv(m)'
  BY <1>11, RunByPlace
<1>13. DiskOf(m)'
  <2>1. CASE job[m].mutated
    BY <1>1, <1>4, <1>5, <2>1 DEF DiskOf, HasPhase
  <2>2. CASE ~job[m].mutated
    <3>1. DiskOf(m)
      OBVIOUS
    <3>2. Believed(k) => AllTied(x)
      BY <1>1, <1>2, <1>5, <2>2, <3>1 DEF DiskOf
    <3>3. Believed(k) => AllTied(x)'
      BY <1>7, <3>2 DEF AllTied
    <3>4. QED  BY <1>1, <1>2, <1>4, <3>3 DEF DiskOf
  <2>3. QED  BY <2>1, <2>2
<1>14. OwnerOf(m)'
  <2>1. OwnerOf(m)
    OBVIOUS
  <2>2. QED  BY <1>1, <1>4, <2>1 DEF OwnerOf
<1>15. CompletedOf(m)'
  <2>1. CompletedOf(m)
    OBVIOUS
  <2>2. CASE job[m].mutated
    <3>1. Completed(k) /\ journal[k].writes = p
      BY <1>1, <1>5, <2>1, <2>2 DEF CompletedOf
    <3>2. \A g \in DOMAIN p : Fits(x, g, p[g])'
      BY <1>2, <3>1, StillFiles DEF Completed
    <3>3. Careful => \A g \in Files \ DOMAIN p : Tied(x, g)'
      BY <1>2, <1>7, <3>1 DEF Completed
    <3>4. Completed(k)'
      BY <1>2, <1>4, <3>1, <3>2, <3>3 DEF Completed
    <3>5. QED  BY <1>1, <3>4 DEF CompletedOf
  <2>3. CASE ~job[m].mutated
    BY <1>1, <1>4, <1>5, <2>3 DEF CompletedOf, HasPhase
  <2>4. QED  BY <2>2, <2>3
<1>16. \A n \in Managers : n # m => mgr'[n].pc = "off"
  <2>1. \A n \in Managers : n # m => mgr[n].pc = "off"
    OBVIOUS
  <2>2. QED  BY <2>1
<1>17. QED  BY <1>8, <1>12, <1>13, <1>14, <1>15, <1>16, OwnInv


\* Writing the hash of one file, or its chunk manifest.
LEMMA WriteKeeps ==
  ASSUME Setting, Inv, NEW m \in Managers, WriteHash(m) \/ WriteChunks(m)
  PROVE  Inv'
<1> USE Working
<1>1. mgr[m].pc \in {"hashes", "chunks"} /\ UNCHANGED <<world, disks>>
  BY DEF WriteHash, WriteChunks
<1>2. /\ TypeInv' /\ mgr \in [Managers -> Manager]
      /\ hash \in [Files -> Contents \cup {Nil}] /\ DOMAIN chunks = Files
  BY <1>1, CommitTypes, TypeFacts
<1>3. PICK p, L : p = job[m].pending /\ L = job[m].left
  OBVIOUS
<1>4. DOMAIN p \subseteq Files /\ L \subseteq DOMAIN p
  BY <1>1, <1>3, PendingTyped DEF Types, LeftInv
<1>5. CommitInv(m)
  BY <1>1 DEF RunInv
<1>6. CASE WriteHash(m)
  <2>1. PICK f \in L :
          /\ hash' = [hash EXCEPT ![f] = p[f].hash]
          /\ job' = [job EXCEPT ![m].left = IF L \ {f} = {} THEN DOMAIN p ELSE L \ {f}]
          /\ Go(m, IF L \ {f} = {} THEN "chunks" ELSE "hashes")
    BY <1>3, <1>6 DEF WriteHash
  <2>2. mgr[m].pc = "hashes" /\ chunks' = chunks /\ f \in DOMAIN p /\ f \in Files
    BY <1>4, <1>6 DEF WriteHash
  <2>3. PICK S \in SUBSET Files : S = IF L \ {f} = {} THEN DOMAIN p ELSE L \ {f}
    BY <1>4
  <2>4. /\ job'[m].left = S /\ job'[m].pending = p /\ job'[m].failed = job[m].failed
        /\ job'[m].mutated = job[m].mutated
    BY <1>1, <1>3, <2>1, <2>3, LeftFacts
  <2>5. PICK q \in {"hashes", "chunks"} : q = IF L \ {f} = {} THEN "chunks" ELSE "hashes"
    OBVIOUS
  <2>6. /\ mgr'[m].pc = q /\ mgr'[m].mem = mgr[m].mem
        /\ \A n \in Managers : n # m => mgr'[n] = mgr[n]
    BY <1>2, <2>1, <2>5, GoFacts DEF PC, Holding
  <2>7. hash'[f] = p[f].hash /\ \A g \in Files : g # f => hash'[g] = hash[g]
    BY <1>2, <2>1, <2>2
  <2>8. Written(p, DOMAIN p \ L)
    BY <1>3, <1>5, <2>2 DEF CommitInv
  <2>9. Written(p, DOMAIN p \ (L \ {f}))'
    <3>1. ASSUME NEW g \in DOMAIN p \ (L \ {f})
          PROVE  hash'[g] = p[g].hash
      BY <1>4, <2>7, <2>8, <3>1 DEF Written
    <3>2. QED  BY <3>1 DEF Written
  <2>10. Progress(m)'
    <3>1. CASE L \ {f} = {}
      <4>1. q = "chunks" /\ S = DOMAIN p
        BY <2>3, <2>5, <3>1
      <4>2. DOMAIN p \ (L \ {f}) = DOMAIN p /\ DOMAIN p \ S = {}
        BY <3>1, <4>1
      <4>3. Written(p, DOMAIN p)' /\ Manifested(p, DOMAIN p \ S)'
        BY <2>9, <4>2 DEF Written, Manifested
      <4>4. QED  BY <2>4, <2>6, <4>1, <4>3 DEF Progress
    <3>2. CASE L \ {f} # {}
      <4>1. q = "hashes" /\ S = L \ {f}
        BY <2>3, <2>5, <3>2
      <4>2. QED  BY <2>4, <2>6, <2>9, <4>1 DEF Progress
    <3>3. QED  BY <3>1, <3>2
  <2>11. QED
    BY <1>1, <1>2, <1>3, <2>2, <2>4, <2>6, <2>7, <2>10, SidecarKeeps
<1>7. CASE WriteChunks(m)
  <2>1. PICK f \in L :
          /\ chunks' = [chunks EXCEPT ![f] = p[f].chunks]
          /\ job' = [job EXCEPT ![m].left = L \ {f}]
          /\ Go(m, IF L \ {f} = {} THEN "clear" ELSE "chunks")
    BY <1>3, <1>7 DEF WriteChunks
  <2>2. mgr[m].pc = "chunks" /\ hash' = hash /\ f \in DOMAIN p /\ f \in Files
    BY <1>4, <1>7 DEF WriteChunks
  <2>3. PICK S \in SUBSET Files : S = L \ {f}
    BY <1>4
  <2>4. /\ job'[m].left = S /\ job'[m].pending = p /\ job'[m].failed = job[m].failed
        /\ job'[m].mutated = job[m].mutated
    BY <1>1, <1>3, <2>1, <2>3, LeftFacts
  <2>5. PICK q \in {"chunks", "clear"} : q = IF L \ {f} = {} THEN "clear" ELSE "chunks"
    OBVIOUS
  <2>6. /\ mgr'[m].pc = q /\ mgr'[m].mem = mgr[m].mem
        /\ \A n \in Managers : n # m => mgr'[n] = mgr[n]
    BY <1>2, <2>1, <2>5, GoFacts DEF PC, Holding
  <2>7. chunks'[f] = p[f].chunks /\ \A g \in Files : g # f => chunks'[g] = chunks[g]
    BY <1>2, <2>1, <2>2
  <2>8. Written(p, DOMAIN p) /\ Manifested(p, DOMAIN p \ L)
    BY <1>3, <1>5, <2>2 DEF CommitInv
  <2>9. Written(p, DOMAIN p)'
    BY <2>2, <2>8 DEF Written
  <2>10. Manifested(p, DOMAIN p \ S)'
    <3>1. ASSUME NEW g \in DOMAIN p \ S
          PROVE  chunks'[g] = p[g].chunks
      BY <1>4, <2>3, <2>7, <2>8, <3>1 DEF Manifested
    <3>2. QED  BY <3>1 DEF Manifested
  <2>11. Progress(m)'
    <3>1. CASE S = {}
      <4>1. q = "clear" /\ DOMAIN p \ S = DOMAIN p
        BY <2>3, <2>5, <3>1
      <4>2. Manifested(p, DOMAIN p)'
        BY <2>10, <4>1 DEF Manifested
      <4>3. QED  BY <2>4, <2>6, <2>9, <4>1, <4>2 DEF Progress
    <3>2. CASE S # {}
      <4>1. q = "chunks"
        BY <2>3, <2>5, <3>2
      <4>2. QED  BY <2>4, <2>6, <2>9, <2>10, <4>1 DEF Progress
    <3>3. QED  BY <3>1, <3>2
  <2>12. QED
    BY <1>1, <1>2, <1>3, <2>2, <2>4, <2>6, <2>7, <2>11, SidecarKeeps
<1>8. QED  BY <1>6, <1>7

\* With all sidecars written the journal goes: what it stood for is now in the
\* sidecars.
LEMMA ClearKeeps ==
  ASSUME Setting, Inv, NEW m \in Managers, ClearJournal(m)
  PROVE  Inv'
<1> USE Working
<1>1. mgr[m].pc = "clear" /\ UNCHANGED <<world, sidecars, disk, fresh, job>>
  BY DEF ClearJournal
<1>2. /\ TypeInv' /\ mgr \in [Managers -> Manager]
      /\ journal \in [Models -> Journal \cup {Nil}]
  BY <1>1, CommitTypes, TypeFacts
<1>3. PICK k \in Models : k = Model(m) /\ Model(m)' = k
  BY <1>1 DEF Model
<1>4. /\ mgr'[m].pc = "finish" /\ mgr'[m].mem = mgr[m].mem
      /\ \A n \in Managers : n # m => mgr'[n] = mgr[n]
  BY <1>2, GoFacts DEF ClearJournal, PC, Holding
<1>5. PICK x, p : x = disk[k] /\ p = job[m].pending
  OBVIOUS
<1>6. /\ disk[k] = mgr[m].mem /\ x # Nil /\ Good(m, x)
      /\ job[m].mutated => HasPhase(k, "save-complete")
      /\ ~job[m].mutated => journal[k] = Nil /\ Believed(k)
      /\ Written(p, DOMAIN p) /\ Manifested(p, DOMAIN p)
  BY <1>1, <1>3, <1>5 DEF RunInv, CommitInv
<1>7. journal'[k] = Nil
  BY <1>2, <1>3, <1>6 DEF ClearJournal
<1>8. \A f \in Files : Tied(x, f) \/ Blind(m)
  <2>1. ASSUME NEW f \in DOMAIN p
        PROVE  Tied(x, f)
    <3>1. PICK w : w = p[f]
      OBVIOUS
    <3>2. Fits(x, f, w) /\ hash[f] = w.hash /\ chunks[f] = w.chunks
      BY <1>5, <1>6, <3>1 DEF Good, Written, Manifested
    <3>3. QED  BY <3>2, FitsTied
  <2>2. QED  BY <1>5, <1>6, <2>1 DEF Good
<1>9. (\A f : Tied(x, f)' <=> Tied(x, f)) /\ (AllTied(x)' <=> AllTied(x))
  BY <1>1, StillSidecars
<1>10. (Blind(m)' <=> Blind(m)) /\ (Believed(k)' <=> Believed(k)) /\ disk'[k] = x
  BY <1>1, <1>5 DEF Blind, Believed
<1>11. FinishInv(m)'
  <2>1. \A f \in Files : Tied(x, f)' \/ Blind(m)'
    BY <1>8, <1>9, <1>10
  <2>2. mgr'[m].mem # Nil
    BY <1>4, <1>5, <1>6
  <2>3. QED  BY <1>3, <1>7, <1>10, <2>1, <2>2 DEF FinishInv
<1>12. RunInv(m)'
  BY <1>4, <1>11, RunByPlace
<1>13. DiskOf(m)'
  <2>1. Believed(k) => AllTied(x)
    <3>1. CASE job[m].mutated
      <4>1. CompletedOf(m)
        BY <1>1
      <4>2. k \notin fresh
        BY <1>3, <1>6, <3>1, <4>1 DEF CompletedOf, Completed
      <4>3. QED  BY <1>8, <4>2 DEF Believed, Blind, AllTied
    <3>2. CASE ~job[m].mutated
      <4>1. DiskOf(m)
        BY <1>1
      <4>2. QED  BY <1>3, <1>5, <1>6, <3>2, <4>1 DEF DiskOf
    <3>3. QED  BY <3>1, <3>2
  <2>2. QED  BY <1>3, <1>9, <1>10, <2>1 DEF DiskOf
<1>14. OwnerOf(m)' /\ CompletedOf(m)'
  BY <1>3, <1>7 DEF OwnerOf, CompletedOf, HasPhase
<1>15. History' /\ SidecarInv'
  BY <1>1, StillFiles, StillSidecars
<1>16. \A n \in Managers : n # m => mgr'[n].pc = "off"
  BY <1>1, <1>4
<1>17. QED  BY <1>2, <1>12, <1>13, <1>14, <1>15, <1>16, OwnInv


-----------------------------------------------------------------------------
(* The invariant, and what it says at rest.                                *)

\* Before the first start there are only files.
LEMMA InvInit ==
  ASSUME Setting
  PROVE  Init => Inv
<1> SUFFICES ASSUME Init
             PROVE  Inv
  OBVIOUS
<1>1. TypeInv
  BY TypesInit
<1>2. /\ \A f \in Files : had[f] = {file[f]} \ {Nil} /\ hash[f] = Nil /\ chunks[f] = Nil
      /\ \A k \in Models : disk[k] = Nil /\ journal[k] = Nil
      /\ \A m \in Managers : mgr[m].pc = "off"
  BY DEF Init, Off
<1>3. History /\ SidecarInv
  BY <1>2 DEF History, SidecarInv, Text
<1>4. DiskInv /\ JournalInv
  BY <1>2 DEF DiskInv, JournalInv, HasPhase
<1>5. ASSUME NEW m \in Managers
      PROVE  RunInv(m)
  <2>1. mgr[m].pc = "off"
    BY <1>2
  <2>2. RecoverInv(m) /\ LoadInv(m) /\ ScanInv(m)
    BY <2>1 DEF RecoverInv, LoadInv, ScanInv, Booting
  <2>3. BuildInv(m) /\ CommitInv(m) /\ FinishInv(m)
    BY <2>1 DEF BuildInv, CommitInv, FinishInv
  <2>4. QED  BY <2>2, <2>3 DEF RunInv
<1>6. QED  BY <1>1, <1>3, <1>4, <1>5 DEF Inv

\* A step in which nothing happens.
LEMMA StutterKeeps ==
  ASSUME Inv, UNCHANGED vars
  PROVE  Inv'
<1>1. /\ UNCHANGED <<world, sidecars, disks, lock, mgr, job>>
      /\ TypeInv /\ History /\ SidecarInv /\ DiskInv /\ JournalInv
  BY DEF vars, world, sidecars, disks, Inv
<1>2. disk' = disk /\ journal' = journal /\ fresh' = fresh /\ mgr' = mgr /\ job' = job
  BY <1>1 DEF disks
<1>3. TypeInv' /\ History' /\ SidecarInv'
  BY <1>1, TypesStep, StillFiles, StillSidecars
<1>4. /\ \A x, f : Tied(x, f)' <=> Tied(x, f)
      /\ \A x : AllTied(x)' <=> AllTied(x)
      /\ \A f : Moot(f)' <=> Moot(f)
      /\ Clean' <=> Clean
      /\ \A x, f, w : Fits(x, f, w)' <=> Fits(x, f, w)
      /\ \A k : Believed(k)' <=> Believed(k)
  BY <1>1, <1>2, StillFiles, StillSidecars DEF Believed
<1>5. DiskInv'
  <2>1. ASSUME NEW k \in Models, AllTied(disk[k])
        PROVE  AllTied(disk[k])'
    <3>1. PICK x : x = disk[k]
      OBVIOUS
    <3>2. QED  BY <1>2, <1>4, <2>1, <3>1
  <2>2. QED  BY <1>1, <1>2, <1>4, <2>1 DEF DiskInv
<1>6. JournalInv'
  <2>1. ASSUME NEW k \in Models, Completed(k)
        PROVE  Completed(k)'
    <3>1. PICK x, w : x = disk[k] /\ w = journal[k].writes
      OBVIOUS
    <3>2. QED  BY <1>2, <1>4, <2>1, <3>1 DEF Completed
  <2>2. QED  BY <1>1, <1>2, <2>1 DEF JournalInv, HasPhase
<1>7. ASSUME NEW m \in Managers
      PROVE  RunInv(m)'
  <2>1. RunInv(m)
    BY DEF Inv
  <2>2. UNCHANGED <<file, hot, hash, chunks, disk, fresh, journal, mgr, job, had>>
    BY <1>1 DEF world, sidecars, disks
  <2>3. RecoverInv(m)' /\ LoadInv(m)'
    BY <2>1, <2>2 DEF RunInv, RecoverInv, LoadInv, HasPhase, Written, Manifested, Clean, Model
  <2>4. ScanInv(m)'
    BY <2>1, <2>2 DEF RunInv, ScanInv, Unplanned, Basis, Scanned, Believed, Blind, Moot, Text,
                      Clean, Model
  <2>5. \A x, b : Built(m, x, b)' <=> Built(m, x, b)
    BY <2>2 DEF Built, Nothing, Settled, Good, Fits, Tied, Moot, Text, Hashed, Held, Believed,
                Blind, Model
  <2>6. BuildInv(m)'
    BY <2>1, <2>2 DEF RunInv, BuildInv, Outcome, Extended, Built, Nothing, Settled, Good, Fits, Tied, Moot,
                      Text, Hashed, Held, Believed, Blind, Model
  <2>7. CommitInv(m)' /\ FinishInv(m)'
    BY <2>1, <2>2 DEF RunInv, CommitInv, FinishInv, Started, Journaled, Good, Fits, Tied,
                      Text, Hashed, Held, Believed, Blind, HasPhase, Written, Manifested, Settled, Model
  <2>8. QED  BY <2>3, <2>4, <2>6, <2>7 DEF RunInv
<1>8. QED  BY <1>3, <1>5, <1>6, <1>7 DEF Inv

\* Every step keeps the invariant, unless a forced rebuild can be put off and
\* files can be unreadable: the index that is then kept was not believed.
LEMMA InvStep ==
  ASSUME Setting, Careful \/ Quiesce \cap Forcing = {}
  PROVE  Inv /\ [Next]_vars => Inv'
<1> SUFFICES ASSUME Inv, [Next]_vars
             PROVE  Inv'
  OBVIOUS
<1>1. ASSUME NEW m \in Managers, Initialize(m)
      PROVE  Inv'
  BY <1>1, InitializeKeeps
<1>2. ASSUME NEW m \in Managers, Refresh(m)
      PROVE  Inv'
  <2>1. CASE Invalidate(m) \/ Scan(m) \/ Extract(m) \/ Rebuild(m)
    BY <2>1, InvalidateKeeps, ScanKeeps, ExtractKeeps, RebuildKeeps
  <2>2. CASE Embed(m) \/ Fallback(m) \/ FallbackBuild(m)
    BY <2>2, EmbedKeeps, FallbackBuildKeeps
  <2>3. CASE Persist(m) \/ Save(m) \/ Complete(m)
    BY <2>3, PersistKeeps, SaveKeeps, CompleteKeeps
  <2>4. CASE WriteHash(m) \/ WriteChunks(m) \/ ClearJournal(m) \/ Finish(m)
    BY <2>4, WriteKeeps, ClearKeeps, FinishKeeps
  <2>5. QED  BY <1>2, <2>1, <2>2, <2>3, <2>4 DEF Refresh
<1>3. ASSUME NEW m \in Managers, BeginForced(m) \/ \E S \in Scopes : Begin(m, S)
      PROVE  Inv'
  BY <1>3, BeginKeeps
<1>4. ASSUME NEW m \in Managers, Failure(m) \/ Crash(m)
      PROVE  Inv'
  BY <1>4, FailureKeeps, CrashKeeps
<1>5. ASSUME NEW f \in Files, Edit(f) \/ Delete(f) \/ Cool(f)
      PROVE  Inv'
  BY <1>5, WorldKeeps
<1>6. CASE UNCHANGED vars
  BY <1>6, StutterKeeps
<1>7. QED  BY <1>1, <1>2, <1>3, <1>4, <1>5, <1>6 DEF Next

\* At rest and without a journal, a believed index has what the sidecars say.
LEMMA RestTied ==
  ASSUME Setting, Inv, NEW k \in Models, AtRest(k), journal[k] = Nil, disk[k] # Nil, Believed(k)
  PROVE  AllTied(disk[k])
BY DEF Inv, DiskInv

\* A file that the next refresh takes for unchanged has text, and a believed
\* index has exactly its chunks.
LEMMA ClaimedExact ==
  ASSUME Setting, Inv, NEW k \in Models, Trusted(k), NEW f \in Files, Claimed(f)
  PROVE  Exact(disk[k], f)
<1>1. AllTied(disk[k])
  BY RestTied DEF Trusted, Believed
<1>2. hash[f] = file[f] /\ file[f] # Nil
  BY DEF Claimed
<1>3. ChunksOf[file[f]] # <<>>
  BY <1>2 DEF Inv, SidecarInv, Hashed
<1>4. Tied(disk[k], f) /\ Text(f)
  BY <1>1, <1>2, <1>3 DEF AllTied, Text
<1>5. QED  BY <1>2, <1>4 DEF Tied, Exact

\* ADR 0002 for commands on one model that refresh everything, whatever the
\* splitter, the files, the edits, the failures and the crashes: a file that
\* the next refresh takes for unchanged has exactly its chunks in the index
\* (updateIndex and saveFaissStoreAtomic, and the journal they recover from).
THEOREM NeverFalselyUnchanged ==
  ASSUME Setting, Careful \/ Quiesce \cap Forcing = {}
  PROVE  Spec => []NoFalseUnchanged
<1>1. Init => Inv
  BY InvInit
<1>2. Inv /\ [Next]_vars => Inv'
  BY InvStep
<1>3. Inv => NoFalseUnchanged
  <2>1. SUFFICES ASSUME Inv
                 PROVE  NoFalseUnchanged
    OBVIOUS
  <2>2. CommitsExact
    BY <2>1, ClaimedExact DEF CommitsExact
  <2>3. ASSUME NEW m \in Managers, Trusted(Model(m)), mgr[m].pc = "ready"
        PROVE  FALSE
    <3>1. lock[Model(m)] = m
      BY <2>1, <2>3 DEF Inv, TypeInv, LockInv, Holds, Setting
    <3>2. lock[Model(m)] = Nil
      BY <2>3 DEF Trusted, AtRest
    <3>3. QED  BY <3>1, <3>2, UpdateAssumption
  <2>4. QED  BY <2>2, <2>3 DEF NoFalseUnchanged
<1>4. QED  BY <1>1, <1>2, <1>3, PTL DEF Spec

\* For the same commands, and if files can always be read and journals
\* completed: at rest and without a journal, the chunk manifest of a file is
\* what the index holds of it, on which the next append counts.
THEOREM ManifestsAgree ==
  ASSUME Setting, Careful
  PROVE  Spec => []SidecarsAgree
<1>1. Init => Inv
  BY InvInit
<1>2. Inv /\ [Next]_vars => Inv'
  BY InvStep
<1>3. Inv => SidecarsAgree
  <2>1. SUFFICES ASSUME Inv, NEW k \in Models, AtRest(k), journal[k] = Nil, disk[k] # Nil,
                        NEW f \in NonEmpty(Files), chunks[f] # Nil
                 PROVE  disk[k][f] = chunks[f]
    BY DEF SidecarsAgree
  <2>2. f \in Files /\ Text(f)
    BY DEF NonEmpty, Present, Text
  <2>3. Tied(disk[k], f)
    BY <2>1, <2>2, RestTied DEF Believed, AllTied
  <2>4. QED  BY <2>1, <2>2, <2>3 DEF Tied, Held
<1>4. QED  BY <1>1, <1>2, <1>3, PTL DEF Spec
=============================================================================
