---------------------------- MODULE LexicalCache ----------------------------
(***************************************************************************)
(* The lexical index of one knowledge base in a long-lived process: the    *)
(* cache of parsed indexes (src/lexical-index-cache.ts), the requests that *)
(* read through it and refresh the index (runLexicalLeg of                 *)
(* src/hybrid-retrieval.ts, the lexical mode of src/cli-search.ts), and    *)
(* the file index.json that other processes replace too.                   *)
(*                                                                         *)
(* An index is what it knows: of each file of the knowledge base, the      *)
(* version its entry was built from, 0 when it has none.  A refresh goes   *)
(* around the files it fails to hash, load or chunk and leaves them the    *)
(* entry they had.  The cache tells index.json apart by its stamp, mtime   *)
(* and size.  A save gives a new stamp, but one that follows another       *)
(* within the clock's grain may not; two processes never do that to each   *)
(* other here.  Stamp 0 is that of a missing file.                         *)
(*                                                                         *)
(* Requests interleave wherever the code awaits; between two awaits a      *)
(* request runs alone.  A parsed index is an object that the cache and     *)
(* several requests may hold; it is named by the request that parsed it.   *)
(***************************************************************************)
EXTENDS Integers

CONSTANTS
  Requests,  \* searches in this process; each runs once
  Files,     \* files of the knowledge base
  Attempts,  \* parses whose stamp may have changed before the last one
  MaxEdits,  \* bound: a file has versions 1 .. MaxEdits + 1
  MaxStamp,  \* bound: other processes save up to this stamp
  Nil        \* no entry, no parse in flight, no holder, no object

ASSUME LexicalAssumption ==
  /\ Files # {}
  /\ Attempts \in Nat
  /\ MaxEdits \in Nat
  /\ MaxStamp \in Nat
  /\ Nil \notin Requests
  /\ Nil \notin [v : [Files -> Nat], dirty : BOOLEAN]
  /\ Nil \notin [owner : Requests, stamp : Nat]

VARIABLES
  corpus,    \* [Files -> version]
  file,      \* index.json: [v, stamp]
  lock,      \* holder of the write lock of the lexical directory, or Nil
  obj,       \* [Requests -> [v, dirty]]: what each parsed for the cache
  entry,     \* entries: [obj, stamp], or Nil
  inFlight,  \* inFlight: [owner, stamp], or Nil
  valid,     \* requests whose token is valid
  mode,      \* [Requests -> [path, refresh]]: what each is asked to do
  req        \* [Requests -> Request]

\* Observations that only the properties read.
VARIABLES
  floor,     \* [Files -> version]: what the cache has been told that the file holds
  need,      \* [Requests -> what floor was at the call, or has fallen to since]
  asked,     \* [Requests -> what corpus was at the call that refreshes]
  skipped,   \* [Requests -> the files that its refresh went around]
  answer     \* [Requests -> what the index knew that it was answered from]

cache == <<obj, entry, inFlight, valid>>
told == <<floor, need, asked, skipped, answer>>
vars == <<corpus, file, lock, obj, entry, inFlight, valid, mode, req,
          floor, need, asked, skipped, answer>>

Versions == [Files -> Nat]
Nothing == [f \in Files |-> 0]

Index == [v : Versions, dirty : BOOLEAN]
NoIndex == [v |-> Nothing, dirty |-> FALSE]

\* pc of a request, the stamp its parse is based on and the one it saw last,
\* the attempts it has used, the object or the promise it waits for, and the
\* index it loaded for itself.
Request ==
  [pc : {"new", "stat", "lookup", "parse", "restat", "settle", "join", "loaded", "fresh",
         "refresh", "inplace", "save", "invalidate", "unlock", "query", "done", "failed"},
   base : Nat, seen : Nat, tries : Nat,
   holds : Requests \cup {Nil}, awaits : Requests \cup {Nil}, own : Index \cup {Nil}]

NewRequest == [pc |-> "new", base |-> 0, seen |-> 0, tries |-> 0,
               holds |-> Nil, awaits |-> Nil, own |-> Nil]

Goto(r, pc) == req' = [req EXCEPT ![r].pc = pc]

\* The index a request works on.
Uses(r) == IF req[r].own # Nil THEN req[r].own ELSE obj[req[r].holds]

\* What is on disk as an index.
OnDisk == [v |-> file.v, dirty |-> file.stamp = 0]

-----------------------------------------------------------------------------
(* The world outside                                                       *)

Edit ==
  /\ \E f \in Files : corpus[f] <= MaxEdits /\ corpus' = [corpus EXCEPT ![f] = @ + 1]
  /\ UNCHANGED <<file, lock, cache, mode, req, told>>

\* The file now holds the versions v: what may be asked of searches that run.
Lower(u, v) == [f \in Files |-> IF v[f] < u[f] THEN v[f] ELSE u[f]]
Tell(v) == floor' = v /\ need' = [r \in Requests |-> Lower(need[r], v)]

\* Another process saves an index under the write lock.  It too goes around
\* files, so that any entry may be an old one.
ExternalSave ==
  /\ lock = Nil
  /\ file.stamp < MaxStamp
  /\ \E v \in {u \in [Files -> 0 .. MaxEdits + 1] : \A f \in Files : u[f] <= corpus[f]} :
       /\ v # file.v
       /\ file' = [v |-> v, stamp |-> file.stamp + 1]
       /\ Tell(v)
  /\ UNCHANGED <<corpus, lock, cache, mode, req, asked, skipped, answer>>

\* Loads of other knowledge bases push the entry out.
Evict ==
  /\ entry # Nil
  /\ entry' = Nil
  /\ UNCHANGED <<corpus, file, lock, obj, inFlight, valid, mode, req, told>>

-----------------------------------------------------------------------------
(* LexicalIndexCache.load                                                  *)

Call(r) ==
  /\ req[r].pc = "new"
  /\ Goto(r, "stat")
  /\ need' = [need EXCEPT ![r] = floor]
  /\ asked' = [asked EXCEPT ![r] = IF mode[r].refresh THEN corpus ELSE Nothing]
  /\ UNCHANGED <<corpus, file, lock, cache, mode, floor, skipped, answer>>

\* Mutant: a missing file has a stamp below all others.
StatBelow(r) ==
  /\ LET stamp == IF file.stamp = 0 THEN -1 ELSE file.stamp
     IN \/ req[r].pc = "stat" /\ req' = [req EXCEPT ![r].pc = "lookup", ![r].seen = stamp]
        \/ req[r].pc = "restat" /\ req' = [req EXCEPT ![r].pc = "settle", ![r].seen = stamp]
  /\ UNCHANGED <<corpus, file, lock, cache, mode, told>>

\* readMetadata, before the lookup and after a parse.
Stat(r) ==
  /\ \/ req[r].pc = "stat" /\ req' = [req EXCEPT ![r].pc = "lookup", ![r].seen = file.stamp]
     \/ req[r].pc = "restat" /\ req' = [req EXCEPT ![r].pc = "settle", ![r].seen = file.stamp]
  /\ UNCHANGED <<corpus, file, lock, cache, mode, told>>

\* The finally clause of load; the token of a load that is over is garbage.
Forget(r) ==
  /\ inFlight' = IF inFlight # Nil /\ inFlight.owner = r THEN Nil ELSE inFlight
  /\ valid' = valid \ {r}

\* A load is over with the object o; a request is over with the object o.
LoadedWith(r, o) == req' = [req EXCEPT ![r] = [NewRequest EXCEPT !.pc = "loaded", !.holds = o]]
Over(r, pc) == req' = [req EXCEPT ![r] = [NewRequest EXCEPT !.pc = pc, !.holds = req[r].holds]]

Hit(r) == entry # Nil /\ entry.stamp = req[r].seen
Pending(r) == inFlight # Nil /\ inFlight.stamp = req[r].seen

LookupHits(r) ==
  /\ req[r].pc = "lookup"
  /\ Hit(r)
  /\ LoadedWith(r, entry.obj)
  /\ UNCHANGED <<corpus, file, lock, cache, mode, told>>

LookupJoins(r) ==
  /\ req[r].pc = "lookup"
  /\ ~Hit(r) /\ Pending(r)
  /\ req' = [req EXCEPT ![r].pc = "join", ![r].awaits = inFlight.owner]
  /\ UNCHANGED <<corpus, file, lock, cache, mode, told>>

\* A parse begins; one in flight for another stamp is retired.
LookupParses(r) ==
  /\ req[r].pc = "lookup"
  /\ ~Hit(r) /\ ~Pending(r)
  /\ valid' = (valid \ IF inFlight = Nil THEN {} ELSE {inFlight.owner}) \cup {r}
  /\ inFlight' = [owner |-> r, stamp |-> req[r].seen]
  /\ req' = [req EXCEPT ![r].pc = "parse", ![r].base = req[r].seen, ![r].tries = 0]
  /\ UNCHANGED <<corpus, file, lock, obj, entry, mode, told>>

\* LexicalIndex.load reads the file once; a rename replaces it whole.
Parse(r) ==
  /\ req[r].pc = "parse"
  /\ obj' = [obj EXCEPT ![r] = OnDisk]
  /\ Goto(r, "restat")
  /\ UNCHANGED <<corpus, file, lock, entry, inFlight, valid, mode, told>>

\* stat or the parse throws.
LoadFails(r) ==
  /\ req[r].pc \in {"stat", "parse", "restat"}
  /\ Over(r, "failed")
  /\ Forget(r)
  /\ UNCHANGED <<corpus, file, lock, obj, entry, mode, told>>

\* The token was retired: the load starts over, for those who wait on it too.
SettleRetired(r) ==
  /\ req[r].pc = "settle"
  /\ r \notin valid
  /\ Goto(r, "stat")
  /\ UNCHANGED <<corpus, file, lock, cache, mode, told>>

\* The file was replaced meanwhile: parse it again.
SettleAgain(r) ==
  /\ req[r].pc = "settle"
  /\ r \in valid
  /\ req[r].seen # req[r].base
  /\ req[r].tries < Attempts
  /\ req' = [req EXCEPT ![r].pc = "parse", ![r].base = req[r].seen, ![r].tries = @ + 1]
  /\ UNCHANGED <<corpus, file, lock, cache, mode, told>>

\* Mutant: what was parsed is remembered under the stamp of after the parse.
SettleUnchecked(r) ==
  /\ req[r].pc = "settle"
  /\ r \in valid
  /\ entry' = [obj |-> r, stamp |-> req[r].seen]
  /\ LoadedWith(r, r)
  /\ Forget(r)
  /\ UNCHANGED <<corpus, file, lock, obj, mode, told>>

\* The parse is over; it is remembered when its stamp was stable, the file
\* exists and the index is not empty.
Settle(r) ==
  /\ req[r].pc = "settle"
  /\ r \in valid
  /\ req[r].seen = req[r].base \/ req[r].tries = Attempts
  /\ entry' = IF req[r].seen = req[r].base /\ req[r].seen # 0 /\ obj[r].v # Nothing
                THEN [obj |-> r, stamp |-> req[r].seen] ELSE entry
  /\ LoadedWith(r, r)
  /\ Forget(r)
  /\ UNCHANGED <<corpus, file, lock, obj, mode, told>>

\* Mutant: a failure does not reach those who joined.
JoinSuccess(r) ==
  /\ req[r].pc = "join"
  /\ req[req[r].awaits].holds # Nil
  /\ LoadedWith(r, req[req[r].awaits].holds)
  /\ UNCHANGED <<corpus, file, lock, cache, mode, told>>

\* The promise that r waits on is settled.
Join(r) ==
  /\ req[r].pc = "join"
  /\ LET o == req[r].awaits
     IN \/ /\ req[o].holds # Nil
           /\ LoadedWith(r, req[o].holds)
        \/ /\ req[o].holds = Nil /\ req[o].pc = "failed"
           /\ Over(r, "failed")
  /\ UNCHANGED <<corpus, file, lock, cache, mode, told>>

-----------------------------------------------------------------------------
(* Refresh under the write lock                                            *)

MustRefresh(r) == mode[r].refresh \/ Uses(r).v = Nothing

\* Mutant: refreshes are not serialized.
LockNothing(r) ==
  /\ req[r].pc = "loaded"
  /\ MustRefresh(r)
  /\ lock' = r
  /\ Goto(r, IF mode[r].path = "leg" THEN "fresh" ELSE "inplace")
  /\ UNCHANGED <<corpus, file, cache, mode, told>>

\* The leg loads an index of its own; the lexical mode refreshes the one it
\* was given.
Lock(r) ==
  /\ req[r].pc = "loaded"
  /\ MustRefresh(r)
  /\ lock = Nil
  /\ lock' = r
  /\ Goto(r, IF mode[r].path = "leg" THEN "fresh" ELSE "inplace")
  /\ UNCHANGED <<corpus, file, cache, mode, told>>

LockContends(r) ==
  /\ req[r].pc = "loaded"
  /\ MustRefresh(r)
  /\ lock # Nil
  /\ Over(r, "failed")
  /\ UNCHANGED <<corpus, file, lock, cache, mode, told>>

LoadFresh(r) ==
  /\ req[r].pc = "fresh"
  /\ req' = [req EXCEPT ![r].own = OnDisk,
               ![r].pc = IF mode[r].refresh \/ file.v = Nothing THEN "refresh" ELSE "unlock"]
  /\ UNCHANGED <<corpus, file, lock, cache, mode, told>>

\* LexicalIndex.refresh of the index i, around the files that it fails to
\* hash, to load or to chunk.
Refreshed(i, skip) ==
  LET v == [f \in Files |-> IF f \in skip THEN i.v[f] ELSE corpus[f]]
  IN [v |-> v, dirty |-> i.dirty \/ v # i.v]

Refresh(r) ==
  /\ req[r].pc = "refresh"
  /\ \E skip \in SUBSET Files :
       /\ req' = [req EXCEPT ![r].pc = "save", ![r].own = Refreshed(req[r].own, skip)]
       /\ skipped' = [skipped EXCEPT ![r] = skip]
  /\ UNCHANGED <<corpus, file, lock, cache, mode, floor, need, asked, answer>>

RefreshInPlace(r) ==
  /\ req[r].pc = "inplace"
  /\ \E skip \in SUBSET Files :
       /\ obj' = [obj EXCEPT ![req[r].holds] = Refreshed(@, skip)]
       /\ skipped' = [skipped EXCEPT ![r] = skip]
  /\ Goto(r, "save")
  /\ UNCHANGED <<corpus, file, lock, entry, inFlight, valid, mode, floor, need, asked, answer>>

AfterSave(r) == IF mode[r].path = "leg" THEN "invalidate" ELSE "unlock"

\* LexicalIndex.save writes nothing when nothing changed.
SaveNothing(r) ==
  /\ req[r].pc = "save"
  /\ ~Uses(r).dirty
  /\ Goto(r, AfterSave(r))
  /\ UNCHANGED <<corpus, file, lock, cache, mode, told>>

Save(r) ==
  /\ req[r].pc = "save"
  /\ Uses(r).dirty
  /\ \E stamp \in {file.stamp, file.stamp + 1} \ {0} :
       /\ file' = [v |-> Uses(r).v, stamp |-> stamp]
       /\ Tell(IF stamp > file.stamp THEN Uses(r).v ELSE Lower(floor, Uses(r).v))
  /\ IF req[r].own # Nil
     THEN /\ req' = [req EXCEPT ![r].pc = AfterSave(r), ![r].own.dirty = FALSE]
          /\ obj' = obj
     ELSE /\ req' = [req EXCEPT ![r].pc = AfterSave(r)]
          /\ obj' = [obj EXCEPT ![req[r].holds].dirty = FALSE]
  /\ UNCHANGED <<corpus, lock, entry, inFlight, valid, mode, asked, skipped, answer>>

\* A step under the lock throws.
RefreshFails(r) ==
  /\ req[r].pc \in {"fresh", "refresh", "inplace", "save"}
  /\ Over(r, "failed")
  /\ lock' = Nil
  /\ UNCHANGED <<corpus, file, cache, mode, told>>

\* Mutant: the parse in flight is not retired.
InvalidateEntryOnly(r) ==
  /\ req[r].pc = "invalidate"
  /\ entry' = Nil
  /\ floor' = Uses(r).v
  /\ Goto(r, "unlock")
  /\ UNCHANGED <<corpus, file, lock, obj, inFlight, valid, mode, need, asked, skipped, answer>>

\* LexicalIndexCache.invalidate.
Invalidate(r) ==
  /\ req[r].pc = "invalidate"
  /\ entry' = Nil
  /\ inFlight' = Nil
  /\ valid' = valid \ IF inFlight = Nil THEN {} ELSE {inFlight.owner}
  /\ floor' = Uses(r).v
  /\ Goto(r, "unlock")
  /\ UNCHANGED <<corpus, file, lock, obj, mode, need, asked, skipped, answer>>

Unlock(r) ==
  /\ req[r].pc = "unlock"
  /\ lock' = Nil
  /\ Goto(r, "query")
  /\ UNCHANGED <<corpus, file, cache, mode, told>>

Query(r) ==
  /\ \/ req[r].pc = "query"
     \/ req[r].pc = "loaded" /\ ~MustRefresh(r)
  /\ answer' = [answer EXCEPT ![r] = Uses(r).v]
  /\ Over(r, "done")
  /\ UNCHANGED <<corpus, file, lock, cache, mode, floor, need, asked, skipped>>
-----------------------------------------------------------------------------
Unused ==
  /\ corpus = [f \in Files |-> 1]
  /\ file \in {[v |-> Nothing, stamp |-> 0]} \cup {[v |-> corpus, stamp |-> s] : s \in 1 .. MaxStamp}
  /\ lock = Nil
  /\ obj = [r \in Requests |-> NoIndex]
  /\ entry = Nil /\ inFlight = Nil /\ valid = {}
  /\ mode \in [Requests -> [path : {"leg", "lexical"}, refresh : BOOLEAN]]
  /\ floor = file.v
  /\ need = [r \in Requests |-> Nothing]
  /\ asked = [r \in Requests |-> Nothing]
  /\ skipped = [r \in Requests |-> {}]
  /\ answer = [r \in Requests |-> Nothing]

Init == Unused /\ req = [r \in Requests |-> NewRequest]

Load(r) ==
  \/ Stat(r) \/ LookupHits(r) \/ LookupJoins(r) \/ LookupParses(r) \/ Parse(r)
  \/ LoadFails(r) \/ SettleRetired(r) \/ SettleAgain(r) \/ Settle(r) \/ Join(r)

RefreshStep(r) ==
  \/ Lock(r) \/ LockContends(r)
  \/ LoadFresh(r) \/ Refresh(r) \/ RefreshInPlace(r) \/ SaveNothing(r) \/ Save(r)
  \/ RefreshFails(r) \/ Invalidate(r) \/ Unlock(r)

Search(r) == Load(r) \/ RefreshStep(r) \/ Query(r)

Next ==
  \/ Edit \/ ExternalSave \/ Evict
  \/ \E r \in Requests : Call(r) \/ Search(r)

Spec == Init /\ [][Next]_vars

\* Calls into the file system return and continuations run.
Fairness == \A r \in Requests : WF_vars(Search(r))

FairSpec == Spec /\ Fairness
=============================================================================
