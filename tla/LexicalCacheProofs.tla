------------------------- MODULE LexicalCacheProofs -------------------------
(***************************************************************************)
(* Proofs about LexicalCache, for every number of searches of every kind,  *)
(* of files, of edits and of repeated parses, whatever files the refreshes *)
(* go around: types, when the file may go back, the entry that is never    *)
(* stale, and the answers.                                                 *)
(***************************************************************************)
EXTENDS LexicalCacheProps, TLAPS

Loading == {"new", "stat", "lookup", "parse", "restat", "settle", "join"}
Under == {"fresh", "refresh", "inplace", "save", "invalidate", "unlock"}
Holding == {"loaded", "query", "done"} \cup Under

\* What a request holds, and where it is in the refresh under the lock.
HoldInv(r) ==
  /\ req[r].pc \in Loading => req[r].holds = Nil /\ req[r].own = Nil
  /\ req[r].pc \in Holding => req[r].holds # Nil
  /\ req[r].holds # Nil => req[req[r].holds].pc \notin Loading
  /\ req[r].pc = "join" => req[r].awaits # Nil
  /\ req[r].pc \in Under => lock = r
  /\ req[r].pc \in {"loaded", "fresh"} => req[r].own = Nil
  /\ req[r].pc \in {"fresh", "refresh", "invalidate"} => mode[r].path = "leg"
  /\ req[r].pc = "inplace" => mode[r].path = "lexical"
  /\ req[r].pc \in {"refresh", "save", "invalidate", "unlock", "query"} /\ mode[r].path = "leg" =>
       req[r].own # Nil
  /\ mode[r].path = "lexical" => req[r].own = Nil

\* The proofs follow one file f of the knowledge base: every comparison of
\* versions below is of the entries of f.

\* Under the lock a request knows the file; only a lexical search that went
\* around f may be about to save an older entry of it.
LockInv(r, f) ==
  /\ req[r].pc = "refresh" => req[r].own.v[f] = file.v[f]
  /\ req[r].pc = "save" =>
       /\ Uses(r).v[f] <= corpus[f]
       /\ mode[r].path = "leg" \/ f \notin skipped[r] => Uses(r).v[f] >= file.v[f]
       /\ mode[r].path = "leg" /\ ~Uses(r).dirty => Uses(r).v[f] = file.v[f]
  /\ req[r].pc = "invalidate" => Uses(r).v[f] = file.v[f]

\* A parse that is not retired is the one in flight, and what it parsed is
\* new enough for its stamp.
ParseInv(r, f) ==
  /\ req[r].base <= file.stamp /\ req[r].seen <= file.stamp
  /\ req[r].pc = "settle" => req[r].base <= req[r].seen
  /\ r \in valid =>
       /\ inFlight # Nil /\ inFlight.owner = r
       /\ req[r].pc \in {"parse", "restat", "settle"}
       /\ inFlight.stamp <= req[r].base
       /\ req[r].pc \in {"restat", "settle"} /\ req[r].base = file.stamp => obj[r].v[f] >= floor[f]

ReqInv(r, f) == HoldInv(r) /\ LockInv(r, f) /\ ParseInv(r, f)

FileInv(f) ==
  /\ floor[f] <= file.v[f] /\ file.v[f] <= corpus[f]
  /\ \A r \in Requests : obj[r].v[f] <= corpus[f]

NoStale(f) ==
  entry # Nil /\ entry.stamp = file.stamp => obj[entry.obj].v[f] >= floor[f]

EntryInv ==
  entry # Nil => /\ entry.stamp <= file.stamp
                 /\ req[entry.obj].pc \notin Loading

FlightInv ==
  inFlight # Nil => inFlight.owner \in valid /\ inFlight.stamp <= file.stamp

InvA(f) ==
  /\ TypeOK
  /\ \A r \in Requests : ReqInv(r, f)
  /\ FileInv(f) /\ EntryInv /\ FlightInv
  /\ NoStale(f)

\* The observations have their types.
ToldOK ==
  /\ floor \in Versions
  /\ need \in [Requests -> Versions]
  /\ asked \in [Requests -> Versions]
  /\ skipped \in [Requests -> SUBSET Files]
  /\ answer \in [Requests -> Versions]

LEMMA VersionsFacts == ASSUME NEW f \in Files, NEW v \in Versions PROVE v[f] \in Nat
BY DEF Versions

LEMMA IndexFacts ==
  ASSUME NEW f \in Files, NEW i \in Index
  PROVE  i.v \in Versions /\ i.v[f] \in Nat /\ i.dirty \in BOOLEAN /\ i # Nil
BY LexicalAssumption DEF Index, Versions

LEMMA InvAInit == ASSUME NEW f \in Files PROVE Init => InvA(f)
<1> SUFFICES ASSUME Init PROVE InvA(f)
  OBVIOUS
<1> USE DEF Init, Unused
<1>1. \A r \in Requests : /\ req[r] = NewRequest /\ req[r].pc = "new" /\ req[r].holds = Nil /\ req[r].own = Nil
                          /\ req[r].base = 0 /\ req[r].seen = 0
  BY DEF NewRequest
<1>2. NewRequest \in Request
  BY DEF NewRequest, Request
<1>3. Nothing \in Versions /\ corpus \in [Files -> 1 .. MaxEdits + 1] /\ corpus \in Versions /\ NoIndex \in Index
  BY LexicalAssumption DEF Nothing, Versions, NoIndex, Index
<1>4. file \in [v : Versions, stamp : Nat] /\ floor = file.v /\ file.v \in Versions
  BY <1>3
<1>5. TypeOK
  <2>1. req \in [Requests -> Request] /\ obj \in [Requests -> Index]
    BY <1>2, <1>3
  <2> QED BY <1>3, <1>4, <2>1, LexicalAssumption DEF TypeOK
<1>6. /\ file.stamp \in Nat /\ file.v[f] \in 0 .. 1 /\ corpus[f] = 1
      /\ \A r \in Requests : obj[r].v[f] = 0
  BY <1>4 DEF Nothing, NoIndex
<1>7. \A r \in Requests : ReqInv(r, f)
  <2> SUFFICES ASSUME NEW r \in Requests PROVE ReqInv(r, f)
    OBVIOUS
  <2>1. valid = {} /\ 0 <= file.stamp
    BY <1>6
  <2>2. HoldInv(r) /\ LockInv(r, f)
    BY <1>1 DEF HoldInv, LockInv, Loading, Holding, Under
  <2>3. ParseInv(r, f)
    BY <1>1, <2>1 DEF ParseInv
  <2> QED BY <2>2, <2>3 DEF ReqInv
<1>8. FileInv(f) /\ EntryInv /\ FlightInv /\ NoStale(f)
  BY <1>4, <1>6 DEF FileInv, EntryInv, FlightInv, NoStale
<1> QED BY <1>5, <1>7, <1>8 DEF InvA

LEMMA CleanFacts ==
  ASSUME NEW i \in Index
  PROVE  [i EXCEPT !.dirty = FALSE] \in Index /\ [i EXCEPT !.dirty = FALSE].v = i.v
BY DEF Index

\* The types of what a step of a request works with.
LEMMA ReqFacts ==
  ASSUME NEW f \in Files, InvA(f), NEW r \in Requests
  PROVE  /\ req \in [Requests -> Request] /\ req[r] \in Request /\ ReqInv(r, f)
         /\ file.v[f] \in Nat /\ file.stamp \in Nat /\ floor[f] \in Nat /\ corpus[f] \in Nat
         /\ file.v \in Versions /\ floor \in Versions /\ corpus \in Versions /\ ToldOK
         /\ obj \in [Requests -> Index]
         /\ Nil \notin Requests /\ Nil \notin Index
         /\ OnDisk \in Index /\ OnDisk.v = file.v /\ OnDisk.dirty = (file.stamp = 0)
<1>1. file \in [v : Versions, stamp : Nat] /\ corpus \in [Files -> 1 .. MaxEdits + 1] /\ ToldOK
      /\ req \in [Requests -> Request] /\ obj \in [Requests -> Index] /\ ReqInv(r, f)
  BY DEF InvA, TypeOK, ToldOK
<1>2. corpus \in Versions /\ floor \in Versions
  BY <1>1, LexicalAssumption DEF Versions, ToldOK
<1>3. OnDisk \in Index /\ OnDisk.v = file.v /\ OnDisk.dirty = (file.stamp = 0)
  BY <1>1 DEF OnDisk, Index
<1>4. Nil \notin Requests /\ Nil \notin Index
  BY LexicalAssumption DEF Index, Versions
<1> QED BY <1>1, <1>2, <1>3, <1>4, VersionsFacts

\* What holds of the others after a step of r.
LEMMA OthersKeep ==
  ASSUME NEW f \in Files, InvA(f), NEW r \in Requests, NEW s, req' = [req EXCEPT ![r] = s],
         mode' = mode, corpus' = corpus, file' \in [v : Versions, stamp : Nat], floor'[f] \in Nat,
         req[r].pc \notin Loading => s.pc \notin Loading,
         file'.stamp >= file.stamp,
         \A q \in Requests \ {r} :
           /\ lock = q => lock' = q /\ file'.v[f] = file.v[f]
           /\ skipped'[q] = skipped[q]
           /\ lock = q /\ req[q].holds # Nil => obj'[req[q].holds] = obj[req[q].holds]
           /\ req[q].pc \in Loading => obj'[q] = obj[q]
           /\ q \in valid' => q \in valid /\ inFlight' = inFlight
           /\ q \in valid' /\ file'.stamp = file.stamp => floor'[f] <= floor[f]
  PROVE  \A q \in Requests \ {r} : ReqInv(q, f)'
<1> SUFFICES ASSUME NEW q \in Requests \ {r}
             PROVE  ReqInv(q, f)'
  OBVIOUS
<1>1. req'[q] = req[q] /\ req'[r] = s /\ \A o \in Requests : o # r => req'[o] = req[o]
  BY ReqFacts
<1>2. HoldInv(q) /\ LockInv(q, f) /\ ParseInv(q, f) /\ req[q] \in Request
  BY ReqFacts DEF ReqInv
<1>3. HoldInv(q)'
  <2>1. req[q].holds # Nil => req'[req[q].holds].pc \notin Loading
    BY <1>1, <1>2 DEF HoldInv, Request
  <2>2. req[q].pc \in Under => lock' = q
    BY <1>2 DEF HoldInv
  <2> QED BY <1>1, <1>2, <2>1, <2>2 DEF HoldInv
<1>4. LockInv(q, f)'
  <2>1. CASE req[q].pc \notin {"refresh", "save", "invalidate"}
    BY <2>1, <1>1 DEF LockInv
  <2>2. CASE req[q].pc \in {"refresh", "save", "invalidate"}
    <3>1. lock = q /\ req[q].holds # Nil
      BY <2>2, <1>2 DEF HoldInv, Under, Holding
    <3>2. file'.v[f] = file.v[f] /\ obj'[req[q].holds] = obj[req[q].holds] /\ skipped'[q] = skipped[q]
      BY <3>1
    <3>3. Uses(q)' = Uses(q)
      BY <1>1, <3>2 DEF Uses
    <3> QED BY <1>1, <1>2, <3>2, <3>3 DEF LockInv
  <2> QED BY <2>1, <2>2
<1>5. ParseInv(q, f)'
  <2>1. file.stamp \in Nat /\ req[q].base \in Nat /\ req[q].seen \in Nat /\ file'.stamp \in Nat
    BY <1>2, ReqFacts DEF Request
  <2>2. req[q].base <= file'.stamp /\ req[q].seen <= file'.stamp
    BY <1>2, <2>1 DEF ParseInv
  <2>3. ASSUME q \in valid'
        PROVE  /\ inFlight' # Nil /\ inFlight'.owner = q
               /\ req[q].pc \in {"parse", "restat", "settle"}
               /\ inFlight'.stamp <= req[q].base
               /\ req[q].pc \in {"restat", "settle"} /\ req[q].base = file'.stamp => obj'[q].v[f] >= floor'[f]
    <3>1. q \in valid /\ inFlight' = inFlight /\ (file'.stamp = file.stamp => floor'[f] <= floor[f])
      BY <2>3
    <3>2. req[q].pc \in Loading
      BY <1>2, <3>1 DEF ParseInv, Loading
    <3>3. obj'[q] = obj[q]
      BY <3>2
    <3>4. req[q].base = file'.stamp => file'.stamp = file.stamp
      BY <1>2, <2>1 DEF ParseInv
    <3>5. obj[q].v[f] \in Nat /\ floor[f] \in Nat
      BY ReqFacts, IndexFacts
    <3> QED BY <1>2, <3>1, <3>3, <3>4, <3>5 DEF ParseInv
  <2> QED BY <1>1, <1>2, <2>2, <2>3 DEF ParseInv
<1> QED BY <1>3, <1>4, <1>5 DEF ReqInv

-----------------------------------------------------------------------------
(* Steps that leave the file and the parsed indexes alone                  *)

LEMMA MoveKeeps ==
  ASSUME NEW f \in Files, InvA(f), NEW r \in Requests, NEW s \in Request, req' = [req EXCEPT ![r] = s],
         UNCHANGED <<corpus, file, obj, mode, floor>>,
         req[r].pc \notin Loading => s.pc \notin Loading,
         lock' \in Requests \cup {Nil}, lock' = lock \/ lock \in {r, Nil},
         ToldOK', \A q \in Requests \ {r} : skipped'[q] = skipped[q],
         \/ UNCHANGED <<entry, inFlight, valid>>
         \/ /\ \/ entry' = entry
               \/ /\ entry' = [obj |-> r, stamp |-> req[r].base]
                  /\ r \in valid /\ req[r].pc = "settle" /\ s.pc \notin Loading
            /\ valid' \subseteq valid \cup {r}
            /\ inFlight' \in [owner : Requests, stamp : Nat] \cup {Nil}
            /\ \A q \in valid' : q # r => inFlight' = inFlight
            /\ inFlight' # Nil => inFlight'.owner \in valid' /\ inFlight'.stamp <= file.stamp,
         ReqInv(r, f)'
  PROVE  InvA(f)'
<1>1. req'[r] = s /\ \A q \in Requests : q # r => req'[q] = req[q]
  BY ReqFacts
<1>2. ReqInv(r, f) /\ file \in [v : Versions, stamp : Nat] /\ floor[f] \in Nat
      /\ file.stamp \in Nat /\ Nil \notin Requests /\ req \in [Requests -> Request] /\ req[r] \in Request
  BY ReqFacts DEF InvA, TypeOK, ToldOK
<1>3. \A q \in Requests \ {r} : ReqInv(q, f)'
  <2>1. \A q \in Requests \ {r} : lock = q => lock' = q
    BY <1>2
  <2>2. \A q \in Requests \ {r} : q \in valid' => q \in valid /\ inFlight' = inFlight
    <3>1. CASE UNCHANGED <<entry, inFlight, valid>>
      BY <3>1
    <3>2. CASE valid' \subseteq valid \cup {r} /\ \A q \in valid' : q # r => inFlight' = inFlight
      BY <3>2
    <3> QED BY <3>1, <3>2
  <2>3. file' \in [v : Versions, stamp : Nat] /\ floor'[f] \in Nat /\ file'.stamp >= file.stamp
        /\ mode' = mode /\ corpus' = corpus /\ obj' = obj /\ file'.v[f] = file.v[f]
        /\ floor'[f] <= floor[f]
    BY <1>2
  <2> QED BY <2>1, <2>2, <2>3, OthersKeep
<1>4. r \in valid => inFlight # Nil /\ inFlight.owner = r
  BY <1>2 DEF ReqInv, ParseInv
<1>5. entry' \in [obj : Requests, stamp : Nat] \cup {Nil}
  BY <1>2 DEF InvA, TypeOK, ToldOK, Request
<1>6. TypeOK'
  <2>1. req' \in [Requests -> Request]
    BY <1>2
  <2>2. /\ inFlight' \in [owner : Requests, stamp : Nat] \cup {Nil}
        /\ valid' \subseteq Requests
    BY DEF InvA, TypeOK, ToldOK
  <2> QED BY <1>5, <2>1, <2>2 DEF InvA, TypeOK, ToldOK
<1>7. EntryInv' /\ NoStale(f)'
  <2>1. CASE entry' = entry
    <3>1. entry # Nil => entry.obj \in Requests
      BY DEF InvA, TypeOK, ToldOK
    <3>2. entry # Nil => req'[entry.obj].pc \notin Loading
      BY <1>1, <3>1 DEF InvA, EntryInv
    <3> QED BY <2>1, <3>2 DEF InvA, EntryInv, NoStale
  <2>2. CASE /\ entry' = [obj |-> r, stamp |-> req[r].base]
             /\ r \in valid /\ req[r].pc = "settle" /\ s.pc \notin Loading
    <3>1. entry'.obj = r /\ entry'.stamp = req[r].base
      BY <2>2
    <3>2. req[r].base <= file.stamp /\ (req[r].base = file.stamp => obj[r].v[f] >= floor[f])
      BY <1>2, <2>2 DEF ReqInv, ParseInv
    <3> QED BY <1>1, <2>2, <3>1, <3>2 DEF EntryInv, NoStale
  <2> QED BY <2>1, <2>2
<1>8. FlightInv'
  BY DEF InvA, FlightInv
<1>9. FileInv(f)'
  BY DEF InvA, FileInv
<1>10. \A q \in Requests : ReqInv(q, f)'
  BY <1>3
<1> QED BY <1>6, <1>7, <1>8, <1>9, <1>10 DEF InvA

\* Steps of a request that change nothing but the request.
LEMMA PlainMove ==
  ASSUME NEW f \in Files, InvA(f), NEW r \in Requests, NEW s \in Request, req' = [req EXCEPT ![r] = s],
         UNCHANGED <<corpus, file, cache, mode, floor>>,
         req[r].pc \notin Loading => s.pc \notin Loading,
         lock' \in Requests \cup {Nil}, lock' = lock \/ lock \in {r, Nil},
         ToldOK', \A q \in Requests \ {r} : skipped'[q] = skipped[q],
         ReqInv(r, f)'
  PROVE  InvA(f)'
BY MoveKeeps DEF cache

\* Before and while it loads, a request holds nothing and is not under the
\* lock.
LEMMA LoadingMove ==
  ASSUME NEW f \in Files, InvA(f), NEW r \in Requests, NEW s \in Request, req' = [req EXCEPT ![r] = s],
         UNCHANGED <<corpus, file, lock, cache, mode, floor, skipped>>, ToldOK',
         req[r].pc \in Loading, s.pc \in Loading, s.holds = Nil, s.own = Nil,
         s.pc = "join" => s.awaits # Nil,
         s.base <= file.stamp, s.seen <= file.stamp, s.pc = "settle" => s.base <= s.seen,
         r \in valid => /\ s.pc \in {"parse", "restat", "settle"}
                        /\ req[r].base <= s.base
                        /\ s.pc \in {"restat", "settle"} =>
                             s.base = req[r].base /\ req[r].pc \in {"restat", "settle"}
  PROVE  InvA(f)'
<1>1. req'[r] = s /\ req[r] \in Request /\ ReqInv(r, f)
  BY ReqFacts
<1>2. HoldInv(r)'
  BY <1>1 DEF HoldInv, Loading, Holding, Under
<1>3. LockInv(r, f)'
  BY <1>1 DEF LockInv, Loading
<1>4. ParseInv(r, f)'
  <2>1. r \in valid => inFlight.stamp \in Nat
    BY <1>1 DEF InvA, TypeOK, ToldOK, ReqInv, ParseInv
  <2>2. req[r].base \in Nat /\ s.base \in Nat
    BY <1>1 DEF Request
  <2> QED BY <1>1, <2>1, <2>2 DEF ReqInv, ParseInv, cache
<1>5. lock \in Requests \cup {Nil}
  BY DEF InvA, TypeOK, ToldOK
<1> QED BY <1>2, <1>3, <1>4, <1>5, PlainMove DEF ReqInv

LEMMA LoadingSteps ==
  ASSUME NEW f \in Files, InvA(f), NEW r \in Requests,
         Call(r) \/ Stat(r) \/ LookupJoins(r) \/ SettleRetired(r) \/ SettleAgain(r)
  PROVE  InvA(f)'
<1>1. req[r] \in Request /\ ReqInv(r, f) /\ file.stamp \in Nat /\ ToldOK /\ corpus \in Versions
  BY ReqFacts DEF InvA, TypeOK, ToldOK
<1>2. UNCHANGED <<corpus, file, lock, cache, mode, floor, skipped>> /\ ToldOK'
  <2>1. CASE Call(r)
    <3>1. Nothing \in Versions
      BY DEF Nothing, Versions
    <3> QED BY <1>1, <2>1, <3>1 DEF Call, ToldOK
  <2>2. CASE Stat(r) \/ LookupJoins(r) \/ SettleRetired(r) \/ SettleAgain(r)
    BY <1>1, <2>2 DEF Stat, LookupJoins, SettleRetired, SettleAgain, told, ToldOK
  <2> QED BY <2>1, <2>2
<1>3. req[r].pc \in Loading => /\ req[r].holds = Nil /\ req[r].own = Nil
                               /\ req[r].base <= file.stamp /\ req[r].seen <= file.stamp
  BY <1>1 DEF ReqInv, HoldInv, ParseInv
<1>4. r \in valid => req[r].pc \in {"parse", "restat", "settle"}
  BY <1>1 DEF ReqInv, ParseInv
<1>5. CASE Call(r)
  <2> DEFINE s == [req[r] EXCEPT !.pc = "stat"]
  <2>1. s \in Request /\ s.pc = "stat" /\ s.holds = req[r].holds /\ s.own = req[r].own
        /\ s.base = req[r].base /\ s.seen = req[r].seen
    BY <1>1 DEF Request
  <2>2. req' = [req EXCEPT ![r] = s] /\ req[r].pc = "new"
    BY <1>5 DEF Call, Goto
  <2> HIDE DEF s
  <2> QED BY <1>2, <1>3, <1>4, <2>1, <2>2, LoadingMove DEF Loading
<1>6. CASE Stat(r)
  <2>1. PICK pc \in {"lookup", "settle"} :
          /\ req[r].pc = (IF pc = "lookup" THEN "stat" ELSE "restat")
          /\ req' = [req EXCEPT ![r].pc = pc, ![r].seen = file.stamp]
    BY <1>6 DEF Stat
  <2> DEFINE s == [req[r] EXCEPT !.pc = pc, !.seen = file.stamp]
  <2>2. s \in Request /\ s.pc = pc /\ s.holds = req[r].holds /\ s.own = req[r].own
        /\ s.base = req[r].base /\ s.seen = file.stamp
    BY <1>1 DEF Request
  <2>3. req' = [req EXCEPT ![r] = s]
    BY <2>1
  <2>4. req[r].base \in Nat /\ req[r].pc \in Loading /\ s.pc \in Loading
    BY <1>1, <2>1, <2>2 DEF Request, Loading
  <2>5. /\ s.base <= file.stamp /\ s.seen <= file.stamp /\ s.base <= s.seen
        /\ s.holds = Nil /\ s.own = Nil
    BY <1>1, <1>3, <2>2, <2>4
  <2>6. r \in valid => s.pc = "settle" /\ req[r].pc = "restat" /\ req[r].base <= s.base /\ s.base = req[r].base
    BY <1>4, <2>1, <2>2, <2>4
  <2> HIDE DEF s
  <2> QED BY <1>2, <2>2, <2>3, <2>4, <2>5, <2>6, LoadingMove
<1>7. CASE LookupJoins(r)
  <2> DEFINE s == [req[r] EXCEPT !.pc = "join", !.awaits = inFlight.owner]
  <2>1. inFlight.owner \in Requests /\ inFlight.owner # Nil
    BY <1>7, ReqFacts DEF LookupJoins, Pending, InvA, TypeOK, ToldOK
  <2>2. s \in Request /\ s.pc = "join" /\ s.awaits = inFlight.owner /\ s.holds = req[r].holds /\ s.own = req[r].own
        /\ s.base = req[r].base /\ s.seen = req[r].seen
    BY <1>1, <2>1 DEF Request
  <2>3. req' = [req EXCEPT ![r] = s] /\ req[r].pc = "lookup"
    BY <1>7 DEF LookupJoins
  <2> HIDE DEF s
  <2> QED BY <1>2, <1>3, <1>4, <2>1, <2>2, <2>3, LoadingMove DEF Loading
<1>8. CASE SettleRetired(r)
  <2> DEFINE s == [req[r] EXCEPT !.pc = "stat"]
  <2>1. s \in Request /\ s.pc = "stat" /\ s.holds = req[r].holds /\ s.own = req[r].own
        /\ s.base = req[r].base /\ s.seen = req[r].seen
    BY <1>1 DEF Request
  <2>2. req' = [req EXCEPT ![r] = s] /\ req[r].pc = "settle" /\ r \notin valid
    BY <1>8 DEF SettleRetired, Goto
  <2> HIDE DEF s
  <2> QED BY <1>2, <1>3, <2>1, <2>2, LoadingMove DEF Loading
<1>9. CASE SettleAgain(r)
  <2> DEFINE s == [req[r] EXCEPT !.pc = "parse", !.base = req[r].seen, !.tries = req[r].tries + 1]
  <2>0. req[r].tries + 1 \in Nat /\ req[r].seen \in Nat
    BY <1>1 DEF Request
  <2>1. s \in Request /\ s.pc = "parse" /\ s.holds = req[r].holds /\ s.own = req[r].own
        /\ s.base = req[r].seen /\ s.seen = req[r].seen
    BY <1>1, <2>0 DEF Request
  <2>2. req' = [req EXCEPT ![r] = s] /\ req[r].pc = "settle"
    BY <1>9 DEF SettleAgain
  <2>3. req[r].base <= req[r].seen
    BY <1>1, <2>2 DEF ReqInv, ParseInv
  <2> HIDE DEF s
  <2> QED BY <1>2, <1>3, <1>4, <2>1, <2>2, <2>3, LoadingMove DEF Loading
<1> QED BY <1>5, <1>6, <1>7, <1>8, <1>9

\* A load or a request is over.
Ended(pc, o) == [NewRequest EXCEPT !.pc = pc, !.holds = o]

LEMMA EndInv ==
  ASSUME NEW f \in Files, InvA(f), NEW r \in Requests, NEW pc \in {"loaded", "done", "failed"}, NEW o \in Requests \cup {Nil},
         req' = [req EXCEPT ![r] = Ended(pc, o)], mode' = mode, file' = file, r \notin valid',
         o # Nil \/ pc = "failed", o # Nil => o = r \/ req[o].pc \notin Loading
  PROVE  /\ Ended(pc, o) \in Request
         /\ Ended(pc, o).pc = pc /\ pc \notin Loading
         /\ ReqInv(r, f)'
<1> DEFINE s == Ended(pc, o)
<1>1. s \in Request /\ s.pc = pc /\ s.holds = o /\ s.own = Nil /\ s.base = 0 /\ s.seen = 0 /\ pc \notin Loading
  BY DEF Ended, NewRequest, Request, Loading
<1>2. req'[r] = s /\ \A q \in Requests : q # r => req'[q] = req[q]
  BY ReqFacts
<1> HIDE DEF s
<1>3. HoldInv(r)'
  <2>1. o # Nil => req'[o].pc \notin Loading
    BY <1>1, <1>2
  <2> QED BY <1>1, <1>2, <2>1 DEF HoldInv, Loading, Holding, Under
<1>4. LockInv(r, f)'
  BY <1>1, <1>2 DEF LockInv
<1>5. ParseInv(r, f)'
  BY <1>1, <1>2, ReqFacts DEF ParseInv
<1> QED BY <1>1, <1>3, <1>4, <1>5 DEF ReqInv, s

\* The end of a load or a request that no longer has a parse in flight.
LEMMA EndMove ==
  ASSUME NEW f \in Files, InvA(f), NEW r \in Requests, NEW pc \in {"loaded", "done", "failed"}, NEW o \in Requests \cup {Nil},
         req' = [req EXCEPT ![r] = Ended(pc, o)], r \notin valid,
         UNCHANGED <<corpus, file, cache, mode, floor>>,
         lock' \in Requests \cup {Nil}, lock' = lock \/ lock \in {r, Nil},
         ToldOK', skipped' = skipped,
         o # Nil \/ pc = "failed", o # Nil => o = r \/ req[o].pc \notin Loading
  PROVE  InvA(f)'
<1>1. valid' = valid
  BY DEF cache
<1>2. Ended(pc, o) \in Request /\ Ended(pc, o).pc \notin Loading /\ ReqInv(r, f)'
  BY <1>1, EndInv
<1> DEFINE s == Ended(pc, o)
<1>4. s \in Request /\ s.pc \notin Loading /\ req' = [req EXCEPT ![r] = s]
  BY <1>2
<1> HIDE DEF s
<1> QED BY <1>2, <1>4, PlainMove

LEMMA LookupHitsKeeps == ASSUME NEW f \in Files, InvA(f), NEW r \in Requests, LookupHits(r) PROVE InvA(f)'
<1>1. entry # Nil /\ entry.obj \in Requests /\ req[entry.obj].pc \notin Loading /\ entry.obj # Nil
  BY ReqFacts DEF LookupHits, Hit, InvA, TypeOK, ToldOK, EntryInv
<1>2. r \notin valid
  BY ReqFacts DEF LookupHits, ReqInv, ParseInv
<1>3. req' = [req EXCEPT ![r] = Ended("loaded", entry.obj)]
  BY DEF LookupHits, LoadedWith, Ended
<1>4. lock \in Requests \cup {Nil} /\ ToldOK
  BY DEF InvA, TypeOK, ToldOK
<1> QED BY <1>1, <1>2, <1>3, <1>4, EndMove DEF LookupHits, told, ToldOK

LEMMA JoinKeeps == ASSUME NEW f \in Files, InvA(f), NEW r \in Requests, Join(r) PROVE InvA(f)'
<1>1. Nil \notin Requests /\ req[r] \in Request /\ req \in [Requests -> Request]
  BY ReqFacts
<1>2. r \notin valid /\ req[r].holds = Nil /\ req[r].awaits \in Requests
  BY <1>1, ReqFacts DEF Join, ReqInv, ParseInv, HoldInv, Loading, Request
<1>3. lock \in Requests \cup {Nil} /\ ToldOK
  BY DEF InvA, TypeOK, ToldOK
<1> DEFINE o == req[req[r].awaits].holds
<1>4. o \in Requests \cup {Nil} /\ (o # Nil => req[o].pc \notin Loading)
  <2>1. req[req[r].awaits] \in Request /\ HoldInv(req[r].awaits)
    BY <1>1, <1>2 DEF InvA, ReqInv
  <2> QED BY <2>1 DEF HoldInv, Request
<1>5. /\ UNCHANGED <<corpus, file, lock, cache, mode, told>>
      /\ \/ o # Nil /\ req' = [req EXCEPT ![r] = Ended("loaded", o)]
         \/ req' = [req EXCEPT ![r] = Ended("failed", Nil)]
  BY <1>2 DEF Join, LoadedWith, Over, Ended
<1> HIDE DEF o
<1>6. CASE o # Nil /\ req' = [req EXCEPT ![r] = Ended("loaded", o)]
  BY <1>2, <1>3, <1>4, <1>5, <1>6, EndMove DEF told, ToldOK
<1>7. CASE req' = [req EXCEPT ![r] = Ended("failed", Nil)]
  BY <1>2, <1>3, <1>5, <1>7, EndMove DEF told, ToldOK
<1> QED BY <1>5, <1>6, <1>7

\* Requests that end outside a load.
LEMMA OverKeeps ==
  ASSUME NEW f \in Files, InvA(f), NEW r \in Requests, LockContends(r) \/ RefreshFails(r) \/ Query(r)
  PROVE  InvA(f)'
<1>1. req[r] \in Request /\ ReqInv(r, f) /\ Nil \notin Requests
  BY ReqFacts
<1>2. req[r].pc \in Holding /\ req[r].pc \notin Loading
  BY DEF LockContends, RefreshFails, Query, Holding, Under, Loading
<1>3. /\ r \notin valid /\ req[r].holds \in Requests /\ req[r].holds # Nil
      /\ req[req[r].holds].pc \notin Loading
  BY <1>1, <1>2 DEF ReqInv, HoldInv, ParseInv, Request, Holding, Under
<1>4. lock' \in Requests \cup {Nil} /\ (lock' = lock \/ lock \in {r, Nil})
  BY <1>1 DEF LockContends, RefreshFails, Query, InvA, TypeOK, ToldOK, ReqInv, HoldInv, Under
<1>5. ToldOK'
  <2>1. Uses(r).v \in Versions
    <3>1. req[r].own # Nil => req[r].own \in Index
      BY <1>1 DEF Request
    <3>2. obj[req[r].holds] \in Index
      BY <1>3, ReqFacts
    <3> QED BY <3>1, <3>2, IndexFacts DEF Uses
  <2> QED BY <2>1 DEF LockContends, RefreshFails, Query, InvA, TypeOK, ToldOK, told
<1>6. /\ UNCHANGED <<corpus, file, cache, mode, floor, skipped>>
      /\ \E pc \in {"done", "failed"} : req' = [req EXCEPT ![r] = Ended(pc, req[r].holds)]
  BY DEF LockContends, RefreshFails, Query, told, Over, Ended
<1>7. PICK pc \in {"done", "failed"} : req' = [req EXCEPT ![r] = Ended(pc, req[r].holds)]
  BY <1>6
<1> QED BY <1>3, <1>4, <1>5, <1>6, <1>7, EndMove

LEMMA LoadFailsKeeps == ASSUME NEW f \in Files, InvA(f), NEW r \in Requests, LoadFails(r) PROVE InvA(f)'
<1>1. req[r] \in Request /\ ReqInv(r, f) /\ Nil \notin Requests
  BY ReqFacts
<1>2. req[r].holds = Nil /\ req[r].pc \in Loading
  BY <1>1 DEF LoadFails, ReqInv, HoldInv, Loading
<1>3. req' = [req EXCEPT ![r] = Ended("failed", Nil)] /\ valid' = valid \ {r} /\ r \notin valid'
  BY <1>2 DEF LoadFails, Over, Ended, Forget
<1>4. Ended("failed", Nil) \in Request /\ Ended("failed", Nil).pc \notin Loading /\ ReqInv(r, f)'
  BY <1>3, EndInv DEF LoadFails
<1>5. /\ inFlight' \in [owner : Requests, stamp : Nat] \cup {Nil}
      /\ \A q \in valid' : q # r => inFlight' = inFlight
      /\ inFlight' # Nil => inFlight'.owner \in valid' /\ inFlight'.stamp <= file.stamp
  <2>1. \A q \in valid : inFlight # Nil /\ inFlight.owner = q
    BY DEF InvA, TypeOK, ToldOK, ReqInv, ParseInv
  <2>2. inFlight # Nil => inFlight.owner \in valid /\ inFlight.stamp <= file.stamp
    BY DEF InvA, FlightInv
  <2>3. inFlight \in [owner : Requests, stamp : Nat] \cup {Nil}
    BY DEF InvA, TypeOK, ToldOK
  <2> QED BY <1>3, <2>1, <2>2, <2>3 DEF LoadFails, Forget
<1>6. lock \in Requests \cup {Nil} /\ ToldOK
  BY DEF InvA, TypeOK, ToldOK
<1> QED BY <1>2, <1>3, <1>4, <1>5, <1>6, MoveKeeps DEF LoadFails, told, ToldOK

LEMMA SettleKeeps == ASSUME NEW f \in Files, InvA(f), NEW r \in Requests, Settle(r) PROVE InvA(f)'
<1>1. req[r] \in Request /\ ReqInv(r, f) /\ Nil \notin Requests
  BY ReqFacts
<1>2. r \in valid /\ req[r].pc = "settle" /\ r # Nil
  BY <1>1 DEF Settle
<1>3. req' = [req EXCEPT ![r] = Ended("loaded", r)] /\ valid' = valid \ {r} /\ r \notin valid'
  BY DEF Settle, LoadedWith, Ended, Forget
<1>4. Ended("loaded", r) \in Request /\ Ended("loaded", r).pc \notin Loading /\ ReqInv(r, f)'
  BY <1>2, <1>3, EndInv DEF Settle
<1>5. /\ inFlight' \in [owner : Requests, stamp : Nat] \cup {Nil}
      /\ \A q \in valid' : q # r => inFlight' = inFlight
      /\ inFlight' # Nil => inFlight'.owner \in valid' /\ inFlight'.stamp <= file.stamp
  <2>1. \A q \in valid : inFlight # Nil /\ inFlight.owner = q
    BY DEF InvA, TypeOK, ToldOK, ReqInv, ParseInv
  <2>2. inFlight # Nil => inFlight.owner \in valid /\ inFlight.stamp <= file.stamp
    BY DEF InvA, FlightInv
  <2>3. inFlight \in [owner : Requests, stamp : Nat] \cup {Nil}
    BY DEF InvA, TypeOK, ToldOK
  <2> QED BY <1>3, <2>1, <2>2, <2>3 DEF Settle, Forget
<1>6. lock \in Requests \cup {Nil} /\ ToldOK
  BY DEF InvA, TypeOK, ToldOK
<1>7. entry' = entry \/ entry' = [obj |-> r, stamp |-> req[r].base]
  BY DEF Settle
<1> QED BY <1>2, <1>3, <1>4, <1>5, <1>6, <1>7, MoveKeeps DEF Settle, told, ToldOK

LEMMA LookupParsesKeeps == ASSUME NEW f \in Files, InvA(f), NEW r \in Requests, LookupParses(r) PROVE InvA(f)'
<1>1. req[r] \in Request /\ ReqInv(r, f) /\ Nil \notin Requests
  BY ReqFacts
<1> DEFINE s == [req[r] EXCEPT !.pc = "parse", !.base = req[r].seen, !.tries = 0]
<1>2. /\ s \in Request /\ s.pc = "parse" /\ s.holds = req[r].holds /\ s.own = req[r].own
      /\ s.base = req[r].seen /\ s.seen = req[r].seen /\ req[r].seen \in Nat
  BY <1>1 DEF Request
<1>3. req' = [req EXCEPT ![r] = s] /\ req[r].pc = "lookup"
  BY DEF LookupParses
<1> HIDE DEF s
<1>4. /\ inFlight' = [owner |-> r, stamp |-> req[r].seen] /\ inFlight' # Nil
      /\ inFlight'.owner = r /\ inFlight'.stamp = req[r].seen
  BY <1>2, LexicalAssumption DEF LookupParses
<1>5. valid' = {r}
  <2>1. \A q \in valid : inFlight # Nil /\ inFlight.owner = q
    BY DEF InvA, TypeOK, ToldOK, ReqInv, ParseInv
  <2> QED BY <2>1 DEF LookupParses
<1>6. req[r].seen <= file.stamp /\ req[r].holds = Nil /\ req[r].own = Nil
  BY <1>1, <1>3 DEF ReqInv, HoldInv, ParseInv, Loading
<1>7. req'[r] = s
  BY <1>3, ReqFacts
<1>8. ReqInv(r, f)'
  <2>1. HoldInv(r)'
    BY <1>2, <1>6, <1>7 DEF HoldInv, Loading, Holding, Under
  <2>2. LockInv(r, f)'
    BY <1>2, <1>7 DEF LockInv
  <2>3. ParseInv(r, f)'
    BY <1>2, <1>4, <1>6, <1>7 DEF ParseInv, LookupParses
  <2> QED BY <2>1, <2>2, <2>3 DEF ReqInv
<1>9. lock \in Requests \cup {Nil} /\ ToldOK
  BY DEF InvA, TypeOK, ToldOK
<1>10. inFlight' \in [owner : Requests, stamp : Nat] \cup {Nil} /\ valid' \subseteq valid \cup {r}
  BY <1>2, <1>4, <1>5
<1> QED BY <1>2, <1>3, <1>4, <1>5, <1>6, <1>8, <1>9, <1>10, MoveKeeps DEF LookupParses, told, ToldOK, Loading

-----------------------------------------------------------------------------
(* Under the lock                                                          *)

LEMMA LockedMove ==
  ASSUME NEW f \in Files, InvA(f), NEW r \in Requests, NEW s \in Request, req' = [req EXCEPT ![r] = s],
         UNCHANGED <<corpus, file, cache, mode, floor>>,
         ToldOK', \A q \in Requests \ {r} : skipped'[q] = skipped[q],
         req[r].pc \in {"loaded"} \cup Under, s.pc \in {"query"} \cup Under,
         s.holds = req[r].holds, s.base = req[r].base, s.seen = req[r].seen,
         lock' \in Requests \cup {Nil}, lock' = lock \/ lock \in {r, Nil},
         s.pc \in Under => lock' = r,
         s.pc = "fresh" => s.own = Nil,
         mode[r].path = "lexical" => s.own = Nil,
         s.pc \in {"fresh", "refresh", "invalidate"} => mode[r].path = "leg",
         s.pc = "inplace" => mode[r].path = "lexical",
         s.pc \in {"refresh", "save", "invalidate", "unlock", "query"} /\ mode[r].path = "leg" =>
           s.own # Nil,
         LockInv(r, f)'
  PROVE  InvA(f)'
<1>1. req[r] \in Request /\ ReqInv(r, f) /\ Nil \notin Requests
  BY ReqFacts
<1>2. req'[r] = s /\ \A q \in Requests : q # r => req'[q] = req[q]
  BY ReqFacts
<1>3. req[r].pc \notin Loading /\ s.pc \notin Loading /\ req[r].pc \in Holding /\ s.pc \in Holding
  BY DEF Loading, Under, Holding
<1>4. HoldInv(r)'
  <2>1. s.holds # Nil /\ s.holds \in Requests /\ req[s.holds].pc \notin Loading
    BY <1>1, <1>3 DEF ReqInv, HoldInv, Request
  <2>2. req'[s.holds].pc \notin Loading
    BY <1>2, <1>3, <2>1
  <2> QED BY <1>2, <1>3, <2>1, <2>2 DEF HoldInv, Loading, Under
<1>5. ParseInv(r, f)'
  <2>1. r \notin valid
    BY <1>1, <1>3 DEF ReqInv, ParseInv, Loading
  <2> QED BY <1>1, <1>2, <1>3, <2>1 DEF ReqInv, ParseInv, cache, Loading
<1> QED BY <1>3, <1>4, <1>5, PlainMove DEF ReqInv

LEMMA LockKeeps == ASSUME NEW f \in Files, InvA(f), NEW r \in Requests, Lock(r) PROVE InvA(f)'
<1>1. req[r] \in Request /\ ReqInv(r, f) /\ mode[r].path \in {"leg", "lexical"}
  BY ReqFacts DEF InvA, TypeOK, ToldOK
<1> DEFINE s == [req[r] EXCEPT !.pc = IF mode[r].path = "leg" THEN "fresh" ELSE "inplace"]
<1>2. /\ s \in Request /\ s.pc = (IF mode[r].path = "leg" THEN "fresh" ELSE "inplace")
      /\ s.holds = req[r].holds /\ s.own = req[r].own /\ s.base = req[r].base /\ s.seen = req[r].seen
  BY <1>1 DEF Request
<1>3. req' = [req EXCEPT ![r] = s] /\ req[r].pc = "loaded" /\ req[r].own = Nil
  BY <1>1 DEF Lock, Goto, ReqInv, HoldInv
<1> HIDE DEF s
<1>4. LockInv(r, f)'
  BY <1>2, <1>3, ReqFacts DEF LockInv
<1> QED BY <1>1, <1>2, <1>3, <1>4, ReqFacts, LockedMove DEF Lock, Under, told, ToldOK

LEMMA LoadFreshKeeps == ASSUME NEW f \in Files, InvA(f), NEW r \in Requests, LoadFresh(r) PROVE InvA(f)'
<1>1. req[r] \in Request /\ ReqInv(r, f) /\ OnDisk \in Index /\ OnDisk.v = file.v /\ OnDisk # Nil
  BY ReqFacts
<1> DEFINE s == [req[r] EXCEPT !.own = OnDisk,
                   !.pc = IF mode[r].refresh \/ file.v = Nothing THEN "refresh" ELSE "unlock"]
<1>2. /\ s \in Request /\ s.pc \in {"refresh", "unlock"} /\ s.own = OnDisk
      /\ s.holds = req[r].holds /\ s.base = req[r].base /\ s.seen = req[r].seen
  BY <1>1 DEF Request
<1>3. req' = [req EXCEPT ![r] = s] /\ req[r].pc = "fresh"
  BY DEF LoadFresh
<1> HIDE DEF s
<1>4. lock = r /\ mode[r].path = "leg" /\ lock \in Requests \cup {Nil}
  BY <1>1, <1>3 DEF ReqInv, HoldInv, Under, InvA, TypeOK, ToldOK
<1>5. LockInv(r, f)'
  BY <1>1, <1>2, <1>3, ReqFacts DEF LockInv, LoadFresh
<1> QED BY <1>1, <1>2, <1>3, <1>4, <1>5, ReqFacts, LockedMove DEF LoadFresh, Under, told, ToldOK

LEMMA RefreshedFacts ==
  ASSUME NEW f \in Files, InvA(f), NEW i \in Index, NEW skip \in SUBSET Files
  PROVE  /\ Refreshed(i, skip) \in Index
         /\ Refreshed(i, skip).v[f] = IF f \in skip THEN i.v[f] ELSE corpus[f]
         /\ ~Refreshed(i, skip).dirty => Refreshed(i, skip).v = i.v
<1> DEFINE v == [g \in Files |-> IF g \in skip THEN i.v[g] ELSE corpus[g]]
           dirty == i.dirty \/ v # i.v
<1>1. corpus \in Versions /\ i.v \in Versions /\ i.dirty \in BOOLEAN
  <2>1. corpus \in [Files -> 1 .. MaxEdits + 1]
    BY DEF InvA, TypeOK
  <2> QED BY <2>1, LexicalAssumption DEF Index, Versions
<1>2. v \in Versions /\ v[f] = IF f \in skip THEN i.v[f] ELSE corpus[f]
  BY <1>1 DEF Versions
<1>3. dirty \in BOOLEAN /\ (~dirty => v = i.v)
  OBVIOUS
<1>4. Refreshed(i, skip) = [v |-> v, dirty |-> dirty]
  BY DEF Refreshed
<1> HIDE DEF v, dirty
<1> QED BY <1>2, <1>3, <1>4 DEF Index

LEMMA RefreshKeeps == ASSUME NEW f \in Files, InvA(f), NEW r \in Requests, Refresh(r) PROVE InvA(f)'
<1>1. req[r] \in Request /\ ReqInv(r, f) /\ req[r].pc = "refresh" /\ corpus[f] \in Nat /\ file.v[f] \in Nat
      /\ ToldOK
  BY ReqFacts DEF Refresh
<1>2. lock = r /\ mode[r].path = "leg" /\ lock \in Requests \cup {Nil} /\ req[r].own # Nil
      /\ req[r].own \in Index /\ req[r].own.v[f] = file.v[f]
  BY <1>1 DEF ReqInv, HoldInv, LockInv, Under, InvA, TypeOK, Request
<1>3. PICK skip \in SUBSET Files :
        /\ req' = [req EXCEPT ![r].pc = "save", ![r].own = Refreshed(req[r].own, skip)]
        /\ skipped' = [skipped EXCEPT ![r] = skip]
  BY DEF Refresh
<1> DEFINE i == Refreshed(req[r].own, skip)
           s == [req[r] EXCEPT !.pc = "save", !.own = i]
<1>4. /\ i \in Index /\ i # Nil /\ i.v[f] \in {file.v[f], corpus[f]}
      /\ ~i.dirty => i.v[f] = file.v[f]
  BY <1>2, RefreshedFacts, IndexFacts
<1> HIDE DEF i
<1>5. /\ s \in Request /\ s.pc = "save" /\ s.own = i
      /\ s.holds = req[r].holds /\ s.base = req[r].base /\ s.seen = req[r].seen
  BY <1>1, <1>4 DEF Request
<1>6. req' = [req EXCEPT ![r] = s]
  BY <1>3 DEF i
<1> HIDE DEF s
<1>7. LockInv(r, f)'
  <2>1. req'[r] = s
    BY <1>6, ReqFacts
  <2>2. Uses(r)' = i
    BY <1>4, <1>5, <2>1 DEF Uses
  <2>3. file.v[f] <= corpus[f] /\ corpus' = corpus /\ file' = file
    BY DEF InvA, FileInv, Refresh
  <2> QED BY <1>1, <1>4, <1>5, <2>1, <2>2, <2>3 DEF LockInv
<1>8. ToldOK' /\ \A q \in Requests \ {r} : skipped'[q] = skipped[q]
  BY <1>1, <1>3 DEF Refresh, ToldOK
<1> QED BY <1>1, <1>2, <1>4, <1>5, <1>6, <1>7, <1>8, LockedMove DEF Refresh, Under

LEMMA SaveNothingKeeps == ASSUME NEW f \in Files, InvA(f), NEW r \in Requests, SaveNothing(r) PROVE InvA(f)'
<1>1. req[r] \in Request /\ ReqInv(r, f) /\ req[r].pc = "save" /\ mode[r].path \in {"leg", "lexical"}
      /\ lock \in Requests \cup {Nil}
  BY ReqFacts DEF SaveNothing, InvA, TypeOK, ToldOK
<1> DEFINE s == [req[r] EXCEPT !.pc = AfterSave(r)]
<1>2. /\ s \in Request /\ s.pc = AfterSave(r) /\ s.own = req[r].own
      /\ s.holds = req[r].holds /\ s.base = req[r].base /\ s.seen = req[r].seen
  BY <1>1 DEF Request, AfterSave
<1>3. req' = [req EXCEPT ![r] = s]
  BY DEF SaveNothing, Goto
<1>4. /\ lock = r
      /\ mode[r].path = "leg" => req[r].own # Nil /\ Uses(r).v[f] = file.v[f] /\ s.pc = "invalidate"
      /\ mode[r].path = "lexical" => req[r].own = Nil /\ s.pc = "unlock"
  BY <1>1, <1>2 DEF ReqInv, HoldInv, LockInv, Under, SaveNothing, AfterSave
<1> HIDE DEF s
<1>5. LockInv(r, f)'
  <2>1. req'[r] = s /\ Uses(r)' = Uses(r)
    BY <1>2, <1>3, ReqFacts DEF Uses, SaveNothing, cache
  <2> QED BY <1>1, <1>2, <1>4, <2>1 DEF LockInv, SaveNothing
<1> QED BY <1>1, <1>2, <1>3, <1>4, <1>5, ReqFacts, LockedMove DEF SaveNothing, Under, told, ToldOK

LEMMA UnlockKeeps == ASSUME NEW f \in Files, InvA(f), NEW r \in Requests, Unlock(r) PROVE InvA(f)'
<1>1. req[r] \in Request /\ ReqInv(r, f) /\ req[r].pc = "unlock"
  BY ReqFacts DEF Unlock
<1> DEFINE s == [req[r] EXCEPT !.pc = "query"]
<1>2. /\ s \in Request /\ s.pc = "query" /\ s.own = req[r].own
      /\ s.holds = req[r].holds /\ s.base = req[r].base /\ s.seen = req[r].seen
  BY <1>1 DEF Request
<1>3. req' = [req EXCEPT ![r] = s]
  BY DEF Unlock, Goto
<1> HIDE DEF s
<1>4. /\ lock = r /\ lock' = Nil
      /\ mode[r].path = "leg" => req[r].own # Nil
      /\ mode[r].path = "lexical" => req[r].own = Nil
  BY <1>1 DEF ReqInv, HoldInv, Under, Unlock
<1>5. LockInv(r, f)'
  BY <1>2, <1>3, ReqFacts DEF LockInv
<1> QED BY <1>1, <1>2, <1>3, <1>4, <1>5, ReqFacts, LockedMove DEF Unlock, Under, told, ToldOK

-----------------------------------------------------------------------------
(* Steps that change the file, a parsed index or what the cache was told   *)

LEMMA ParseKeeps == ASSUME NEW f \in Files, InvA(f), NEW r \in Requests, Parse(r) PROVE InvA(f)'
<1>1. req[r] \in Request /\ ReqInv(r, f) /\ req[r].pc = "parse" /\ OnDisk \in Index /\ OnDisk.v = file.v
      /\ obj \in [Requests -> Index] /\ file.v[f] \in Nat /\ floor[f] \in Nat /\ file.stamp \in Nat
  BY ReqFacts DEF Parse
<1> DEFINE s == [req[r] EXCEPT !.pc = "restat"]
<1>2. /\ s \in Request /\ s.pc = "restat" /\ s.own = req[r].own
      /\ s.holds = req[r].holds /\ s.base = req[r].base /\ s.seen = req[r].seen
  BY <1>1 DEF Request
<1>3. req' = [req EXCEPT ![r] = s]
  BY DEF Parse, Goto
<1> HIDE DEF s
<1>4. obj'[r] = OnDisk /\ \A q \in Requests : q # r => obj'[q] = obj[q]
  BY <1>1 DEF Parse
<1>5. UNCHANGED <<corpus, file, lock, entry, inFlight, valid, mode, floor, skipped>> /\ ToldOK'
  BY ReqFacts DEF Parse, told, ToldOK
<1>6. \A q \in Requests : req[q].holds # Nil => req[q].holds \in Requests /\ req[q].holds # r
  BY <1>1 DEF InvA, ReqInv, HoldInv, TypeOK, ToldOK, Request, Loading
<1>7. \A q \in Requests \ {r} : ReqInv(q, f)'
  <2>1. file' \in [v : Versions, stamp : Nat] /\ floor'[f] \in Nat /\ file'.stamp >= file.stamp /\ req[r].pc \in Loading
          /\ floor'[f] <= floor[f]
    BY <1>1, <1>5 DEF InvA, TypeOK, ToldOK, Loading
  <2>2. \A q \in Requests \ {r} : req[q].holds # Nil => obj'[req[q].holds] = obj[req[q].holds]
    BY <1>4, <1>6
  <2> QED BY <1>3, <1>4, <1>5, <2>1, <2>2, OthersKeep
<1>8. req'[r] = s /\ \A q \in Requests : q # r => req'[q] = req[q]
  BY <1>3, ReqFacts
<1>9. ReqInv(r, f)'
  <2>1. req[r].holds = Nil /\ req[r].own = Nil
    BY <1>1 DEF ReqInv, HoldInv, Loading
  <2>2. HoldInv(r)' /\ LockInv(r, f)'
    BY <1>2, <1>8, <2>1 DEF HoldInv, LockInv, Loading, Holding, Under
  <2>3. floor[f] <= file.v[f]
    BY DEF InvA, FileInv
  <2>4. ParseInv(r, f)'
    BY <1>1, <1>2, <1>4, <1>5, <1>8, <2>3 DEF ReqInv, ParseInv
  <2> QED BY <2>2, <2>4 DEF ReqInv
<1>10. TypeOK'
  <2>1. obj' \in [Requests -> Index] /\ req' \in [Requests -> Request]
    BY <1>1, <1>2, <1>3, ReqFacts DEF Parse
  <2> QED BY <1>5, <2>1 DEF InvA, TypeOK, ToldOK
<1>11. EntryInv' /\ NoStale(f)'
  <2>1. entry # Nil => entry.obj \in Requests /\ entry.obj # r
    BY <1>1 DEF InvA, TypeOK, ToldOK, EntryInv, Loading
  <2> QED BY <1>4, <1>5, <1>8, <2>1 DEF InvA, EntryInv, NoStale
<1>12. FileInv(f)' /\ FlightInv'
  BY <1>1, <1>4, <1>5 DEF InvA, FileInv, FlightInv
<1> QED BY <1>7, <1>9, <1>10, <1>11, <1>12 DEF InvA

LEMMA RefreshInPlaceKeeps == ASSUME NEW f \in Files, InvA(f), NEW r \in Requests, RefreshInPlace(r) PROVE InvA(f)'
<1>1. req[r] \in Request /\ ReqInv(r, f) /\ req[r].pc = "inplace" /\ obj \in [Requests -> Index]
      /\ file.v[f] \in Nat /\ corpus[f] \in Nat /\ floor[f] \in Nat /\ file.stamp \in Nat
  BY ReqFacts DEF RefreshInPlace
<1>2. /\ lock = r /\ mode[r].path = "lexical" /\ req[r].own = Nil
      /\ req[r].holds \in Requests /\ req[r].holds # Nil /\ req[req[r].holds].pc \notin Loading
  BY <1>1 DEF ReqInv, HoldInv, Under, Holding, Request
<1>0. PICK skip \in SUBSET Files :
        /\ obj' = [obj EXCEPT ![req[r].holds] = Refreshed(@, skip)]
        /\ skipped' = [skipped EXCEPT ![r] = skip]
  BY DEF RefreshInPlace
<1> DEFINE o == req[r].holds
           i == Refreshed(obj[o], skip)
           s == [req[r] EXCEPT !.pc = "save"]
<1>3. /\ s \in Request /\ s.pc = "save" /\ s.own = req[r].own
      /\ s.holds = o /\ s.base = req[r].base /\ s.seen = req[r].seen
  BY <1>1 DEF Request
<1>4. req' = [req EXCEPT ![r] = s] /\ obj' = [obj EXCEPT ![o] = i]
  BY <1>0 DEF RefreshInPlace, Goto
<1>5. i \in Index /\ i.v[f] = (IF f \in skip THEN obj[o].v[f] ELSE corpus[f])
  BY <1>1, <1>2, RefreshedFacts
<1> HIDE DEF s, i
<1>6. obj'[o] = i /\ \A q \in Requests : q # o => obj'[q] = obj[q]
  BY <1>1, <1>2, <1>4
<1>7. /\ UNCHANGED <<corpus, file, lock, entry, inFlight, valid, mode, floor>> /\ ToldOK'
      /\ skipped'[r] = skip /\ \A q \in Requests \ {r} : skipped'[q] = skipped[q]
  BY <1>0, ReqFacts DEF RefreshInPlace, ToldOK
<1>8. req'[r] = s /\ \A q \in Requests : q # r => req'[q] = req[q]
  BY <1>4, ReqFacts
<1>9. /\ file.v[f] <= corpus[f] /\ floor[f] <= corpus[f]
      /\ \A q \in Requests : obj[q].v[f] \in Nat /\ obj[q].v[f] <= corpus[f]
      /\ i.v[f] \in Nat /\ obj[o].v[f] <= i.v[f] /\ i.v[f] <= corpus[f]
      /\ f \notin skip => i.v[f] = corpus[f]
  <2>1. file.v[f] <= corpus[f] /\ floor[f] <= corpus[f] /\ \A q \in Requests : obj[q].v[f] <= corpus[f]
    BY <1>1 DEF InvA, FileInv
  <2>2. \A q \in Requests : obj[q].v[f] \in Nat
    BY <1>1, IndexFacts
  <2> QED BY <1>1, <1>2, <1>5, <2>1, <2>2
<1>10. \A q \in Requests \ {r} : ReqInv(q, f)'
  <2>1. file' \in [v : Versions, stamp : Nat] /\ floor'[f] \in Nat /\ file'.stamp >= file.stamp /\ s.pc \notin Loading
          /\ floor'[f] <= floor[f]
    BY <1>1, <1>3, <1>7 DEF InvA, TypeOK, ToldOK, Loading
  <2>2. \A q \in Requests \ {r} : req[q].pc \in Loading => obj'[q] = obj[q]
    BY <1>2, <1>6
  <2> QED BY <1>2, <1>4, <1>7, <2>1, <2>2, OthersKeep
<1>11. ReqInv(r, f)'
  <2>1. o # Nil /\ o \in Requests /\ req'[o].pc \notin Loading
    BY <1>2, <1>3, <1>8 DEF Loading
  <2>2. HoldInv(r)'
    BY <1>2, <1>3, <1>7, <1>8, <2>1 DEF HoldInv, Loading, Holding, Under
  <2>3. LockInv(r, f)'
    <3>1. Uses(r)' = i
      BY <1>2, <1>3, <1>6, <1>8 DEF Uses
    <3> QED BY <1>1, <1>2, <1>3, <1>5, <1>7, <1>8, <1>9, <3>1 DEF LockInv
  <2>4. ParseInv(r, f)'
    BY <1>1, <1>3, <1>7, <1>8 DEF ReqInv, ParseInv
  <2> QED BY <2>2, <2>3, <2>4 DEF ReqInv
<1>12. TypeOK'
  <2>1. obj' \in [Requests -> Index] /\ req' \in [Requests -> Request]
    BY <1>1, <1>3, <1>4, <1>5, ReqFacts
  <2> QED BY <1>7, <2>1 DEF InvA, TypeOK, ToldOK
<1>13. EntryInv' /\ NoStale(f)'
  <2>1. entry # Nil => entry.obj \in Requests /\ req[entry.obj].pc \notin Loading
    BY DEF InvA, TypeOK, ToldOK, EntryInv
  <2>2. entry # Nil => req'[entry.obj].pc \notin Loading
    BY <1>3, <1>8, <2>1 DEF Loading
  <2>3. entry # Nil /\ entry.stamp = file.stamp => obj'[entry.obj].v[f] >= floor[f]
    BY <1>5, <1>6, <1>9, <2>1 DEF InvA, NoStale
  <2> QED BY <1>7, <2>2, <2>3 DEF InvA, EntryInv, NoStale
<1>14. FileInv(f)' /\ FlightInv'
  <2>1. \A q \in Requests : obj'[q].v[f] <= corpus[f]
    BY <1>6, <1>9
  <2> QED BY <1>7, <2>1 DEF InvA, FileInv, FlightInv
<1> QED BY <1>10, <1>11, <1>12, <1>13, <1>14 DEF InvA

LEMMA LowerFacts ==
  ASSUME NEW f \in Files, NEW u \in Versions, NEW v \in Versions
  PROVE  /\ Lower(u, v) \in Versions
         /\ Lower(u, v)[f] <= u[f] /\ Lower(u, v)[f] <= v[f] /\ Lower(u, v)[f] \in {u[f], v[f]}
BY DEF Lower, Versions

\* What the cache and the searches are told.
LEMMA TellFacts ==
  ASSUME NEW f \in Files, ToldOK, NEW v \in Versions, Tell(v), UNCHANGED <<asked, skipped, answer>>
  PROVE  /\ floor' = v /\ ToldOK'
         /\ \A q \in Requests : need'[q][f] <= need[q][f] /\ need'[q][f] <= v[f]
                                 /\ need'[q][f] \in {need[q][f], v[f]}
<1>1. \A q \in Requests : need[q] \in Versions
  BY DEF ToldOK
<1>2. \A q \in Requests : need'[q] = Lower(need[q], v)
  BY DEF Tell
<1>3. need' \in [Requests -> Versions]
  <2>1. need' = [q \in Requests |-> Lower(need[q], v)]
    BY DEF Tell
  <2> QED BY <1>1, <2>1, LowerFacts
<1> QED BY <1>1, <1>2, <1>3, LowerFacts DEF Tell, ToldOK

\* A save writes what the request refreshed, which is as new as the file but
\* for what a lexical search went around.
LEMMA SaveFacts ==
  ASSUME NEW f \in Files, InvA(f), NEW r \in Requests, Save(r)
  PROVE  /\ lock = r /\ req[r].pc = "save"
         /\ req[r].holds \in Requests /\ req[r].holds # Nil /\ req[req[r].holds].pc \notin Loading
         /\ Uses(r) \in Index /\ Uses(r).v[f] <= corpus[f]
         /\ mode[r].path = "leg" \/ f \notin skipped[r] => Uses(r).v[f] >= file.v[f]
         /\ mode[r].path = "leg" => req[r].own # Nil
         /\ mode[r].path = "lexical" => req[r].own = Nil
         /\ file'.v = Uses(r).v /\ file' \in [v : Versions, stamp : Nat]
         /\ file'.stamp >= file.stamp
         /\ file'.stamp = file.stamp => floor'[f] <= floor[f]
         /\ ToldOK' /\ floor'[f] \in Nat /\ floor'[f] <= file'.v[f]
         /\ \A q \in Requests : need'[q][f] <= need[q][f] /\ need'[q][f] <= floor'[f]
                                 /\ need'[q][f] \in {need[q][f], floor'[f]}
<1>1. req[r] \in Request /\ ReqInv(r, f) /\ req[r].pc = "save" /\ obj \in [Requests -> Index]
      /\ file.v[f] \in Nat /\ corpus[f] \in Nat /\ floor \in Versions /\ file.stamp \in Nat /\ ToldOK
  BY ReqFacts DEF Save
<1>2. /\ lock = r /\ req[r].holds \in Requests /\ req[r].holds # Nil /\ req[req[r].holds].pc \notin Loading
      /\ mode[r].path = "leg" => req[r].own # Nil
      /\ mode[r].path = "lexical" => req[r].own = Nil
      /\ mode[r].path = "leg" \/ f \notin skipped[r] => Uses(r).v[f] >= file.v[f]
      /\ Uses(r).v[f] <= corpus[f]
  BY <1>1 DEF ReqInv, HoldInv, LockInv, Under, Holding, Request
<1>3. Uses(r) \in Index
  BY <1>1, <1>2 DEF Uses, Request
<1>4. Uses(r).v \in Versions /\ Uses(r).v[f] \in Nat /\ floor[f] \in Nat
  BY <1>1, <1>3, IndexFacts, VersionsFacts
<1> DEFINE low == Lower(floor, Uses(r).v)
<1>5. PICK stamp \in {file.stamp, file.stamp + 1} \ {0} :
        /\ file' = [v |-> Uses(r).v, stamp |-> stamp]
        /\ Tell(IF stamp > file.stamp THEN Uses(r).v ELSE low)
  BY DEF Save
<1>6. stamp \in Nat /\ stamp >= file.stamp /\ file'.v = Uses(r).v /\ file'.stamp = stamp
  BY <1>1, <1>5
<1>7. low \in Versions /\ low[f] <= floor[f] /\ low[f] <= Uses(r).v[f]
  BY <1>1, <1>4, LowerFacts
<1>8. file' \in [v : Versions, stamp : Nat]
  BY <1>4, <1>5, <1>6
<1> HIDE DEF low
<1>9. PICK v \in Versions : /\ Tell(v) /\ v[f] <= Uses(r).v[f]
                            /\ stamp = file.stamp => v[f] <= floor[f]
  <2>1. CASE stamp > file.stamp
    <3>1. Tell(Uses(r).v) /\ stamp # file.stamp
      BY <1>1, <1>5, <1>6, <2>1
    <3> QED BY <1>4, <3>1
  <2>2. CASE ~(stamp > file.stamp)
    <3>1. Tell(low)
      BY <1>5, <2>2
    <3> QED BY <1>7, <3>1
  <2> QED BY <2>1, <2>2
<1>10. /\ floor' = v /\ ToldOK'
       /\ \A q \in Requests : need'[q][f] <= need[q][f] /\ need'[q][f] <= v[f]
                               /\ need'[q][f] \in {need[q][f], v[f]}
  BY <1>1, <1>9, TellFacts DEF Save
<1>11. floor'[f] \in Nat /\ floor'[f] <= file'.v[f] /\ (file'.stamp = file.stamp => floor'[f] <= floor[f])
  BY <1>6, <1>9, <1>10, VersionsFacts
<1> QED BY <1>1, <1>2, <1>3, <1>6, <1>8, <1>10, <1>11

LEMMA SaveKeeps == ASSUME NEW f \in Files, InvA(f), NEW r \in Requests, Save(r) PROVE InvA(f)'
<1>1. req[r] \in Request /\ ReqInv(r, f) /\ obj \in [Requests -> Index] /\ req \in [Requests -> Request]
      /\ file.v[f] \in Nat /\ corpus[f] \in Nat /\ floor[f] \in Nat /\ file.stamp \in Nat /\ Nil \notin Index
      /\ mode[r].path \in {"leg", "lexical"}
  BY ReqFacts DEF InvA, TypeOK, ToldOK
<1> DEFINE o == req[r].holds
<1>2. PICK s \in Request, i \in Index :
        /\ req' = [req EXCEPT ![r] = s] /\ s.pc = AfterSave(r)
        /\ s.holds = o /\ s.base = req[r].base /\ s.seen = req[r].seen
        /\ obj' = [obj EXCEPT ![o] = i] /\ i.v[f] = obj[o].v[f]
        /\ req[r].own # Nil => s.own # Nil /\ s.own.v[f] = req[r].own.v[f]
        /\ req[r].own = Nil => s.own = Nil
  <2>1. CASE req[r].own # Nil
    <3> DEFINE own == [req[r].own EXCEPT !.dirty = FALSE]
               s == [req[r] EXCEPT !.pc = AfterSave(r), !.own = own]
    <3>1. own \in Index /\ own # Nil /\ own.v[f] = req[r].own.v[f]
      BY <1>1, <2>1 DEF Request, Index
    <3> HIDE DEF own
    <3>2. /\ s \in Request /\ s.pc = AfterSave(r) /\ s.own = own
          /\ s.holds = req[r].holds /\ s.base = req[r].base /\ s.seen = req[r].seen
      BY <1>1, <3>1 DEF Request, AfterSave
    <3>3. obj' = obj
      BY <2>1 DEF Save
    <3>4. req' = [req EXCEPT ![r].pc = AfterSave(r), ![r].own.dirty = FALSE]
      BY <2>1 DEF Save
    <3>5. req' = [req EXCEPT ![r] = s]
      BY <3>4 DEF own
    <3>6. obj' = [obj EXCEPT ![o] = obj[o]] /\ obj[o] \in Index
      BY <1>1, <3>3, SaveFacts
    <3> HIDE DEF s
    <3> QED BY <2>1, <3>1, <3>2, <3>5, <3>6
  <2>2. CASE req[r].own = Nil
    <3> DEFINE i == [obj[o] EXCEPT !.dirty = FALSE]
               s == [req[r] EXCEPT !.pc = AfterSave(r)]
    <3>1. i \in Index /\ i.v[f] = obj[o].v[f]
      BY <1>1, SaveFacts, CleanFacts
    <3>2. /\ s \in Request /\ s.pc = AfterSave(r) /\ s.own = req[r].own
          /\ s.holds = req[r].holds /\ s.base = req[r].base /\ s.seen = req[r].seen
      BY <1>1 DEF Request, AfterSave
    <3>3. req' = [req EXCEPT ![r] = s] /\ obj' = [obj EXCEPT ![o] = i]
      BY <2>2 DEF Save
    <3> HIDE DEF s, i
    <3> QED BY <2>2, <3>1, <3>2, <3>3
  <2> QED BY <2>1, <2>2
<1>3. obj'[o].v[f] = obj[o].v[f] /\ \A q \in Requests : q # o => obj'[q] = obj[q]
  BY <1>1, <1>2, SaveFacts
<1>4. UNCHANGED <<corpus, lock, entry, inFlight, valid, mode, skipped>>
  BY DEF Save
<1>5. req'[r] = s /\ \A q \in Requests : q # r => req'[q] = req[q]
  BY <1>1, <1>2
<1>6. s.pc \in {"invalidate", "unlock"} /\ (s.pc = "invalidate" <=> mode[r].path = "leg")
  BY <1>1, <1>2 DEF AfterSave
<1> HIDE DEF o
<1>7. o \in Requests /\ o # Nil /\ req[o].pc \notin Loading /\ o = req[r].holds
  BY SaveFacts DEF o
<1>8. \A q \in Requests \ {r} : ReqInv(q, f)'
  <2>1. s.pc \notin Loading
    BY <1>6 DEF Loading
  <2>2. \A q \in Requests \ {r} : req[q].pc \in Loading => obj'[q] = obj[q]
    BY <1>3, <1>7
  <2> QED BY <1>2, <1>4, <2>1, <2>2, SaveFacts, OthersKeep
<1>9. ReqInv(r, f)'
  <2>1. req'[o].pc \notin Loading
    BY <1>5, <1>6, <1>7 DEF Loading
  <2>2. HoldInv(r)'
    BY <1>2, <1>4, <1>5, <1>6, <1>7, <2>1, SaveFacts DEF HoldInv, Loading, Holding, Under
  <2>3. Uses(r)'.v[f] = Uses(r).v[f]
    BY <1>2, <1>3, <1>5, <1>7 DEF Uses
  <2>4. LockInv(r, f)'
    BY <1>5, <1>6, <2>3, SaveFacts DEF LockInv
  <2>5. r \notin valid
    BY <1>1, SaveFacts DEF ReqInv, ParseInv
  <2>6. req[r].base \in Nat /\ req[r].seen \in Nat /\ file'.stamp \in Nat
    BY <1>1, SaveFacts DEF Request
  <2>7. ParseInv(r, f)'
    BY <1>1, <1>2, <1>4, <1>5, <1>6, <2>5, <2>6, SaveFacts DEF ReqInv, ParseInv
  <2> QED BY <2>2, <2>4, <2>7 DEF ReqInv
<1>10. TypeOK'
  <2>1. obj' \in [Requests -> Index] /\ req' \in [Requests -> Request]
    BY <1>1, <1>2
  <2> QED BY <1>4, <2>1, SaveFacts DEF InvA, TypeOK, ToldOK
<1>11. EntryInv' /\ NoStale(f)'
  <2>1. entry # Nil => /\ entry.obj \in Requests /\ req[entry.obj].pc \notin Loading
                       /\ entry.stamp \in Nat /\ entry.stamp <= file.stamp
    BY DEF InvA, TypeOK, EntryInv
  <2>2. entry # Nil => req'[entry.obj].pc \notin Loading
    BY <1>5, <1>6, <2>1 DEF Loading
  <2>3. entry # Nil => obj'[entry.obj].v[f] = obj[entry.obj].v[f] /\ obj[entry.obj].v[f] \in Nat
    BY <1>1, <1>3, <2>1, IndexFacts
  <2>4. file'.stamp \in Nat
    BY SaveFacts
  <2> QED BY <1>1, <1>4, <2>1, <2>2, <2>3, <2>4, SaveFacts DEF InvA, EntryInv, NoStale
<1>12. FileInv(f)'
  <2>1. \A q \in Requests : obj'[q].v[f] <= corpus[f]
    BY <1>3, <1>7 DEF InvA, FileInv
  <2> QED BY <1>1, <1>4, <2>1, SaveFacts DEF FileInv
<1>13. FlightInv'
  <2>1. inFlight # Nil => inFlight.stamp \in Nat /\ inFlight.stamp <= file.stamp
    BY DEF InvA, TypeOK, ToldOK, FlightInv
  <2>2. file'.stamp \in Nat
    BY SaveFacts
  <2> QED BY <1>1, <1>4, <2>1, <2>2, SaveFacts DEF InvA, FlightInv
<1> QED BY <1>8, <1>9, <1>10, <1>11, <1>12, <1>13 DEF InvA

LEMMA InvalidateKeeps == ASSUME NEW f \in Files, InvA(f), NEW r \in Requests, Invalidate(r) PROVE InvA(f)'
<1>1. req[r] \in Request /\ ReqInv(r, f) /\ req[r].pc = "invalidate" /\ obj \in [Requests -> Index]
      /\ file.v[f] \in Nat /\ corpus[f] \in Nat /\ floor[f] \in Nat /\ file.stamp \in Nat
  BY ReqFacts DEF Invalidate
<1>2. /\ lock = r /\ req[r].holds \in Requests /\ req[r].holds # Nil /\ req[req[r].holds].pc \notin Loading
      /\ mode[r].path = "leg" /\ req[r].own # Nil /\ Uses(r).v[f] = file.v[f]
  BY <1>1 DEF ReqInv, HoldInv, LockInv, Under, Holding, Request
<1> DEFINE s == [req[r] EXCEPT !.pc = "unlock"]
<1>3. /\ s \in Request /\ s.pc = "unlock" /\ s.own = req[r].own
      /\ s.holds = req[r].holds /\ s.base = req[r].base /\ s.seen = req[r].seen
  BY <1>1 DEF Request
<1>4. req' = [req EXCEPT ![r] = s]
  BY DEF Invalidate, Goto
<1> HIDE DEF s
<1>5. req'[r] = s /\ \A q \in Requests : q # r => req'[q] = req[q]
  BY <1>4, ReqFacts
<1>6. /\ UNCHANGED <<corpus, file, lock, obj, mode, skipped>>
      /\ entry' = Nil /\ inFlight' = Nil /\ floor'[f] = file.v[f] /\ ToldOK'
  <2>1. floor' = Uses(r).v
    BY DEF Invalidate
  <2>2. Uses(r).v \in Versions
    BY <1>1, <1>2, IndexFacts DEF Uses, Request
  <2> QED BY <1>2, <2>1, <2>2, ReqFacts DEF Invalidate, ToldOK
<1>7. valid' = {}
  <2>1. \A q \in valid : inFlight # Nil /\ inFlight.owner = q
    BY DEF InvA, TypeOK, ToldOK, ReqInv, ParseInv
  <2> QED BY <2>1 DEF Invalidate
<1>8. \A q \in Requests \ {r} : ReqInv(q, f)'
  <2>1. file' \in [v : Versions, stamp : Nat] /\ floor'[f] \in Nat /\ file'.stamp >= file.stamp /\ s.pc \notin Loading
    BY <1>1, <1>3, <1>6 DEF InvA, TypeOK, ToldOK, Loading
  <2> QED BY <1>4, <1>6, <1>7, <2>1, OthersKeep
<1>9. ReqInv(r, f)'
  <2>1. req'[req[r].holds].pc \notin Loading
    BY <1>2, <1>3, <1>5 DEF Loading
  <2>2. HoldInv(r)'
    BY <1>2, <1>3, <1>5, <1>6, <2>1 DEF HoldInv, Loading, Holding, Under
  <2>3. LockInv(r, f)'
    BY <1>3, <1>5 DEF LockInv
  <2>4. ParseInv(r, f)'
    BY <1>1, <1>3, <1>5, <1>6, <1>7 DEF ReqInv, ParseInv
  <2> QED BY <2>2, <2>3, <2>4 DEF ReqInv
<1>10. TypeOK'
  <2>1. req' \in [Requests -> Request]
    BY <1>3, <1>4, ReqFacts
  <2> QED BY <1>1, <1>6, <1>7, <2>1 DEF InvA, TypeOK, ToldOK
<1>11. EntryInv' /\ NoStale(f)' /\ FlightInv'
  BY <1>6 DEF EntryInv, NoStale, FlightInv
<1>12. FileInv(f)'
  BY <1>1, <1>6 DEF InvA, FileInv
<1> QED BY <1>8, <1>9, <1>10, <1>11, <1>12 DEF InvA

LEMMA EvictKeeps == ASSUME NEW f \in Files, InvA(f), Evict PROVE InvA(f)'
<1>1. entry' = Nil /\ UNCHANGED <<corpus, file, lock, obj, inFlight, valid, mode, req, told>>
  BY DEF Evict
<1>2. \A r \in Requests : ReqInv(r, f)'
  BY <1>1 DEF InvA, ReqInv, HoldInv, LockInv, ParseInv, Uses, told
<1> QED BY <1>1, <1>2 DEF InvA, TypeOK, FileInv, FlightInv, EntryInv, NoStale, told

LEMMA EditKeeps == ASSUME NEW f \in Files, InvA(f), Edit PROVE InvA(f)'
<1>1. /\ UNCHANGED <<file, lock, obj, entry, inFlight, valid, mode, req, told>>
      /\ \E g \in Files : corpus[g] <= MaxEdits /\ corpus' = [corpus EXCEPT ![g] = @ + 1]
  BY DEF Edit, cache
<1>2. /\ corpus \in [Files -> 1 .. MaxEdits + 1] /\ corpus' \in [Files -> 1 .. MaxEdits + 1]
      /\ corpus[f] \in Nat /\ corpus'[f] \in Nat /\ corpus[f] <= corpus'[f] /\ file.v[f] \in Nat
      /\ obj \in [Requests -> Index]
  <2>1. corpus \in [Files -> 1 .. MaxEdits + 1] /\ file \in [v : Versions, stamp : Nat] /\ obj \in [Requests -> Index]
    BY DEF InvA, TypeOK
  <2> QED BY <1>1, <2>1, LexicalAssumption, VersionsFacts
<1>3. \A r \in Requests : ReqInv(r, f)'
  <2> SUFFICES ASSUME NEW r \in Requests PROVE ReqInv(r, f)'
    OBVIOUS
  <2>1. ReqInv(r, f) /\ req[r] \in Request
    BY ReqFacts
  <2>2. Uses(r)' = Uses(r)
    BY <1>1 DEF Uses
  <2>3. req[r].pc = "save" => Uses(r).v[f] \in Nat
    <3>1. req[r].pc = "save" => req[r].holds \in Requests
      BY <2>1 DEF ReqInv, HoldInv, Holding, Under, Request
    <3>2. req[r].pc = "save" => Uses(r) \in Index
      BY <2>1, <3>1, ReqFacts DEF Uses, Request
    <3> QED BY <3>2, IndexFacts
  <2>4. LockInv(r, f)'
    BY <1>1, <1>2, <2>1, <2>2, <2>3 DEF ReqInv, LockInv, told
  <2>5. HoldInv(r)' /\ ParseInv(r, f)'
    BY <1>1, <2>1 DEF ReqInv, HoldInv, ParseInv, told
  <2> QED BY <2>4, <2>5 DEF ReqInv
<1>4. FileInv(f)'
  <2>1. \A r \in Requests : obj[r].v[f] \in Nat
    BY <1>2, IndexFacts
  <2>2. floor[f] <= file.v[f] /\ file.v[f] <= corpus[f] /\ \A r \in Requests : obj[r].v[f] <= corpus[f]
    BY DEF InvA, FileInv
  <2> QED BY <1>1, <1>2, <2>1, <2>2 DEF FileInv, told
<1>5. EntryInv' /\ NoStale(f)' /\ FlightInv'
  BY <1>1 DEF InvA, EntryInv, NoStale, FlightInv, told
<1>6. TypeOK'
  BY <1>1, <1>2 DEF InvA, TypeOK, told
<1> QED BY <1>3, <1>4, <1>5, <1>6 DEF InvA

LEMMA ExternalSaveFacts ==
  ASSUME NEW f \in Files, InvA(f), ExternalSave
  PROVE  /\ UNCHANGED <<corpus, lock, obj, entry, inFlight, valid, mode, req, asked, skipped, answer>>
         /\ lock = Nil /\ file' \in [v : Versions, stamp : Nat] /\ file'.stamp = file.stamp + 1
         /\ file'.v[f] <= corpus[f] /\ floor' = file'.v /\ floor'[f] \in Nat /\ ToldOK'
         /\ \A q \in Requests : need'[q][f] <= need[q][f] /\ need'[q][f] <= floor'[f]
                                 /\ need'[q][f] \in {need[q][f], floor'[f]}
<1>1. file.stamp \in Nat /\ ToldOK
  BY DEF InvA, TypeOK, ToldOK
<1>2. PICK v \in [Files -> 0 .. MaxEdits + 1] :
        /\ \A g \in Files : v[g] <= corpus[g]
        /\ file' = [v |-> v, stamp |-> file.stamp + 1]
        /\ Tell(v)
  BY DEF ExternalSave
<1>3. v \in Versions
  BY LexicalAssumption DEF Versions
<1>4. file' \in [v : Versions, stamp : Nat] /\ file'.v = v /\ file'.stamp = file.stamp + 1
  BY <1>1, <1>2, <1>3
<1>5. /\ floor' = v /\ ToldOK'
      /\ \A q \in Requests : need'[q][f] <= need[q][f] /\ need'[q][f] <= v[f]
                              /\ need'[q][f] \in {need[q][f], v[f]}
  BY <1>1, <1>2, <1>3, TellFacts DEF ExternalSave
<1> QED BY <1>2, <1>3, <1>4, <1>5, VersionsFacts DEF ExternalSave, cache

LEMMA ExternalSaveKeeps == ASSUME NEW f \in Files, InvA(f), ExternalSave PROVE InvA(f)'
<1>1. /\ UNCHANGED <<corpus, lock, obj, entry, inFlight, valid, mode, req, skipped>> /\ lock = Nil
  BY ExternalSaveFacts
<1>2. corpus[f] \in Nat /\ file.stamp \in Nat /\ Nil \notin Requests
  <2>1. corpus \in [Files -> 1 .. MaxEdits + 1] /\ file.stamp \in Nat
    BY DEF InvA, TypeOK
  <2> QED BY <2>1, LexicalAssumption
<1>3. /\ file' \in [v : Versions, stamp : Nat] /\ file'.stamp = file.stamp + 1 /\ file'.v[f] <= corpus[f]
      /\ floor' = file'.v /\ floor'[f] \in Nat /\ ToldOK'
  BY ExternalSaveFacts
<1>4. \A r \in Requests : ReqInv(r, f)'
  <2> SUFFICES ASSUME NEW r \in Requests PROVE ReqInv(r, f)'
    OBVIOUS
  <2>1. ReqInv(r, f) /\ req[r] \in Request /\ r # Nil
    BY ReqFacts
  <2>2. HoldInv(r)'
    BY <1>1, <2>1 DEF ReqInv, HoldInv
  <2>3. req[r].pc \notin Under
    BY <1>1, <2>1 DEF ReqInv, HoldInv
  <2>4. LockInv(r, f)'
    BY <1>1, <2>3 DEF LockInv, Under
  <2>5. req[r].base \in Nat /\ req[r].seen \in Nat
    BY <2>1 DEF Request
  <2>6. ParseInv(r, f)'
    BY <1>1, <1>2, <1>3, <2>1, <2>5 DEF ReqInv, ParseInv
  <2> QED BY <2>2, <2>4, <2>6 DEF ReqInv
<1>5. FileInv(f)'
  BY <1>1, <1>2, <1>3 DEF InvA, FileInv
<1>6. EntryInv' /\ NoStale(f)'
  <2>1. entry # Nil => entry.stamp \in Nat /\ entry.stamp <= file.stamp
    BY DEF InvA, TypeOK, ToldOK, EntryInv
  <2> QED BY <1>1, <1>2, <1>3, <2>1 DEF InvA, EntryInv, NoStale
<1>7. FlightInv'
  <2>1. inFlight # Nil => inFlight.stamp \in Nat
    BY DEF InvA, TypeOK, ToldOK
  <2> QED BY <1>1, <1>2, <1>3, <2>1 DEF InvA, FlightInv
<1>8. TypeOK'
  BY <1>1, <1>3 DEF InvA, TypeOK, ToldOK
<1> QED BY <1>4, <1>5, <1>6, <1>7, <1>8 DEF InvA

LEMMA InductiveA == ASSUME NEW f \in Files PROVE InvA(f) /\ [Next]_vars => InvA(f)'
<1> SUFFICES ASSUME InvA(f), [Next]_vars PROVE InvA(f)'
  OBVIOUS
<1>1. CASE UNCHANGED vars
  <2>1. /\ corpus' = corpus /\ file' = file /\ lock' = lock /\ obj' = obj /\ entry' = entry
        /\ inFlight' = inFlight /\ valid' = valid /\ mode' = mode /\ req' = req
        /\ floor' = floor /\ need' = need /\ asked' = asked /\ skipped' = skipped /\ answer' = answer
    BY <1>1 DEF vars
  <2>2. \A r \in Requests : ReqInv(r, f)'
    BY <2>1 DEF InvA, ReqInv, HoldInv, LockInv, ParseInv, Uses
  <2> QED BY <2>1, <2>2 DEF InvA, TypeOK, FileInv, FlightInv, EntryInv, NoStale
<1>2. CASE Edit \/ ExternalSave \/ Evict
  BY <1>2, EditKeeps, ExternalSaveKeeps, EvictKeeps
<1>3. ASSUME NEW r \in Requests, Call(r) \/ Search(r)
      PROVE  InvA(f)'
  BY <1>3, LoadingSteps, LookupHitsKeeps, LookupParsesKeeps, ParseKeeps, LoadFailsKeeps, SettleKeeps,
     JoinKeeps, LockKeeps, OverKeeps, LoadFreshKeeps, RefreshKeeps, RefreshInPlaceKeeps,
     SaveNothingKeeps, SaveKeeps, InvalidateKeeps, UnlockKeeps
     DEF Search, Load, RefreshStep
<1> QED BY <1>1, <1>2, <1>3 DEF Next

InvAll == \A f \in Files : InvA(f)

LEMMA InvAlways == Spec => []InvAll
<1>1. Init => InvAll
  BY InvAInit DEF InvAll
<1>2. InvAll /\ [Next]_vars => InvAll'
  BY InductiveA DEF InvAll
<1> QED BY <1>1, <1>2, PTL DEF Spec

\* Types of every variable of the cache, the file and the requests, for any
\* number of them (LexicalIndexCache, LexicalIndex).
THEOREM TypeCorrect == Spec => []TypeOK
<1>1. InvAll => TypeOK
  BY LexicalAssumption DEF InvAll, InvA
<1> QED BY <1>1, InvAlways, PTL

\* No cached index that a lookup would hit has an older entry of any file than
\* what the cache has been told of (loadStable, the tokens and invalidate of
\* src/lexical-index-cache.ts), whatever requests interleave, whatever
\* refreshes go around and whatever other processes save.
THEOREM EntryNeverStale == Spec => []NoStaleEntry
<1>1. InvAll => NoStaleEntry
  BY DEF InvAll, InvA, NoStale, NoStaleEntry
<1> QED BY <1>1, InvAlways, PTL

\* A save of this process that puts an older entry of a file over a newer one
\* is that of a lexical search, and of a file that its refresh went around
\* (LexicalIndex.refresh and save under the write lock of the lexical
\* directory, src/cli-search.ts, src/hybrid-retrieval.ts).
THEOREM FileNeverGoesBack == Spec => FileAdvances
<1> DEFINE Back(f) == lock = Nil \/ (mode[lock].path = "lexical" /\ f \in skipped[lock])
           Kept == \A f \in Files : file'.v[f] < file.v[f] => Back(f)
<1>1. ASSUME InvAll, [Next]_vars
      PROVE  Kept \/ UNCHANGED vars
  <2> SUFFICES ASSUME NEW f \in Files, Next, file'.v[f] < file.v[f]
               PROVE  Back(f)
    BY <1>1
  <2>1. InvA(f)
    BY <1>1 DEF InvAll
  <2>2. file.v[f] \in Nat
    <3>1. file \in [v : Versions, stamp : Nat]
      BY <2>1 DEF InvA, TypeOK
    <3> QED BY <3>1, VersionsFacts
  <2>3. file' # file
    BY <2>2
  <2>4. CASE ExternalSave
    BY <2>4 DEF ExternalSave
  <2>5. ASSUME NEW r \in Requests, Save(r)
        PROVE  Back(f)
    <3>1. /\ lock = r /\ file'.v = Uses(r).v /\ Uses(r).v[f] \in Nat
          /\ mode[r].path = "leg" \/ f \notin skipped[r] => Uses(r).v[f] >= file.v[f]
      BY <2>1, <2>5, SaveFacts, IndexFacts
    <3>2. mode[r].path \in {"leg", "lexical"}
      BY <2>1 DEF InvA, TypeOK
    <3> QED BY <2>2, <3>1, <3>2
  <2>6. ~(Edit \/ Evict)
    BY <2>3 DEF Edit, Evict
  <2>7. \A r \in Requests : ~(Call(r) \/ Load(r) \/ Query(r))
    BY <2>3 DEF Call, Load, Query, Stat, LookupHits, LookupJoins, LookupParses, Parse,
         LoadFails, SettleRetired, SettleAgain, Settle, Join
  <2>8. \A r \in Requests : RefreshStep(r) => Save(r)
    BY <2>3 DEF RefreshStep, Lock, LockContends, LoadFresh, Refresh, RefreshInPlace, SaveNothing,
         RefreshFails, Invalidate, Unlock
  <2> QED BY <2>4, <2>5, <2>6, <2>7, <2>8 DEF Next, Search
<1>2. InvAll /\ [Next]_vars => [Kept]_vars
  BY <1>1
<1> QED BY <1>2, InvAlways, PTL DEF Spec, FileAdvances
-----------------------------------------------------------------------------
(* The answers                                                             *)

\* E[r] is an entry of f that r may count on: what the cache had been told of
\* when r was called, or more when a later request relies on the parse of r,
\* or less when a save has put an older one in its place.
Fresh(E, r, f) ==
  /\ E[r] <= floor[f] /\ need[r][f] <= E[r] /\ asked[r][f] <= corpus[f]
  /\ req[r].pc = "join" => E[r] <= E[req[r].awaits]
  /\ req[r].pc = "lookup" =>
       /\ Hit(r) => obj[entry.obj].v[f] >= E[r]
       /\ \A q \in valid : req[q].pc \in {"restat", "settle"} /\ req[q].base >= req[r].seen =>
            obj[q].v[f] >= E[r]
  /\ r \in valid /\ req[r].pc \in {"restat", "settle"} => obj[r].v[f] >= E[r]
  /\ req[r].holds # Nil => obj[req[r].holds].v[f] >= E[r]
  /\ req[r].own # Nil => req[r].own.v[f] >= E[r]
  /\ mode[r].refresh /\ f \notin skipped[r] =>
       /\ req[r].pc \in {"save", "invalidate", "unlock", "query"} => Uses(r).v[f] >= asked[r][f]
       /\ req[r].pc = "done" => answer[r][f] >= asked[r][f]
  /\ req[r].pc = "done" => answer[r][f] >= need[r][f]

InvB(E, f) == \A r \in Requests : Fresh(E, r, f)

InvAB(f) == InvA(f) /\ \E E \in [Requests -> Nat] : InvB(E, f)

\* F is what is left of E when the cache is told of other entries, and no more
\* is asked than before.
Told(E, F, f) ==
  /\ floor'[f] \in Nat
  /\ \A q \in Requests : /\ F[q] <= E[q] /\ F[q] <= floor'[f]
                         /\ need'[q][f] \in Nat /\ need'[q][f] <= F[q] /\ need'[q][f] <= need[q][f]
                         /\ \A o \in Requests : E[q] <= E[o] => F[q] <= F[o]

\* Numbers that the steps of a request compare.
LEMMA FreshFacts ==
  ASSUME NEW f \in Files, InvA(f), NEW E \in [Requests -> Nat], InvB(E, f), NEW r \in Requests
  PROVE  /\ req[r] \in Request /\ ReqInv(r, f) /\ Fresh(E, r, f)
         /\ E[r] \in Nat /\ E[r] <= floor[f] /\ need[r][f] \in Nat /\ need[r][f] <= E[r]
         /\ asked[r][f] \in Nat /\ asked[r][f] <= corpus[f]
         /\ floor[f] \in Nat /\ file.v[f] \in Nat /\ file.stamp \in Nat /\ corpus[f] \in Nat
         /\ floor[f] <= file.v[f] /\ file.v[f] <= corpus[f]
         /\ obj \in [Requests -> Index] /\ \A o \in Requests : obj[o].v[f] \in Nat /\ obj[o].v[f] <= corpus[f]
         /\ req[r].own # Nil => req[r].own \in Index /\ req[r].own.v[f] \in Nat
         /\ valid \subseteq Requests /\ ToldOK /\ answer[r][f] \in Nat
<1>1. /\ floor[f] <= file.v[f] /\ file.v[f] <= corpus[f] /\ \A o \in Requests : obj[o].v[f] <= corpus[f]
      /\ valid \subseteq Requests /\ ToldOK
  BY DEF InvA, TypeOK, ToldOK, FileInv
<1>2. Fresh(E, r, f)
  BY DEF InvB
<1>3. need[r][f] \in Nat /\ asked[r][f] \in Nat /\ answer[r][f] \in Nat
  BY <1>1, VersionsFacts DEF ToldOK
<1>4. \A o \in Requests : obj[o].v[f] \in Nat
  BY IndexFacts, ReqFacts
<1>5. req[r] \in Request
  BY ReqFacts
<1>6. req[r].own # Nil => req[r].own \in Index /\ req[r].own.v[f] \in Nat
  BY <1>5, IndexFacts DEF Request
<1> QED BY <1>1, <1>2, <1>3, <1>4, <1>5, <1>6, ReqFacts DEF Fresh

\* When the cache is told of newer entries only, what E counts on stays.
LEMMA ToldSame ==
  ASSUME NEW f \in Files, InvA(f), NEW E \in [Requests -> Nat], InvB(E, f),
         need' = need, floor'[f] \in Nat, floor'[f] >= floor[f]
  PROVE  Told(E, E, f)
<1> SUFFICES ASSUME NEW q \in Requests
             PROVE  E[q] <= floor'[f] /\ need[q][f] \in Nat /\ need[q][f] <= E[q] /\ E[q] \in Nat
  BY DEF Told
<1> QED BY FreshFacts

\* When it is told of others, what is left of E is the lower of both.
LEMMA ToldLower ==
  ASSUME NEW f \in Files, InvA(f), NEW E \in [Requests -> Nat], InvB(E, f), floor'[f] \in Nat,
         \A q \in Requests : /\ need'[q][f] <= need[q][f] /\ need'[q][f] <= floor'[f]
                             /\ need'[q][f] \in {need[q][f], floor'[f]}
  PROVE  \E F \in [Requests -> Nat] : Told(E, F, f)
<1> DEFINE F == [q \in Requests |-> IF E[q] <= floor'[f] THEN E[q] ELSE floor'[f]]
<1>1. \A q \in Requests : E[q] \in Nat /\ need[q][f] \in Nat /\ need[q][f] <= E[q]
  BY FreshFacts
<1>2. F \in [Requests -> Nat] /\ \A q \in Requests : F[q] = IF E[q] <= floor'[f] THEN E[q] ELSE floor'[f]
  BY <1>1
<1> HIDE DEF F
<1>3. ASSUME NEW q \in Requests
      PROVE  /\ F[q] <= E[q] /\ F[q] <= floor'[f]
             /\ need'[q][f] \in Nat /\ need'[q][f] <= F[q] /\ need'[q][f] <= need[q][f]
  BY <1>1, <1>2
<1>4. ASSUME NEW q \in Requests, NEW o \in Requests, E[q] <= E[o]
      PROVE  F[q] <= F[o]
  BY <1>1, <1>2, <1>4
<1> QED BY <1>2, <1>3, <1>4 DEF Told

\* What a step keeps of a request that it does not move: an object changes
\* for the better, or is one that nobody holds yet; an entry that appears is
\* that of a parse that ends.
LEMMA FreshOthers ==
  ASSUME NEW f \in Files, InvA(f), NEW E \in [Requests -> Nat], NEW F \in [Requests -> Nat],
         InvB(E, f), Told(E, F, f),
         NEW r \in Requests, req'[r] = req[r], asked'[r] = asked[r], skipped'[r] = skipped[r],
         answer'[r] = answer[r], mode' = mode, corpus'[f] \in Nat, corpus'[f] >= corpus[f],
         obj' \in [Requests -> Index],
         \A o \in Requests :
           \/ obj'[o].v[f] >= obj[o].v[f]
           \/ req[o].pc \in Loading /\ obj'[o].v[f] >= floor[f],
         \/ entry' = entry \/ entry' = Nil
         \/ \E o \in valid : /\ entry' = [obj |-> o, stamp |-> req[o].base]
                             /\ req[o].pc = "settle" /\ obj'[o] = obj[o],
         r \in valid' => r \in valid, valid' \subseteq Requests,
         \A o \in valid' : req'[o].pc \in {"restat", "settle"} =>
           \/ obj'[o].v[f] >= floor[f]
           \/ o \in valid /\ req[o].pc \in {"restat", "settle"} /\ req'[o].base = req[o].base
  PROVE  Fresh(F, r, f)'
<1>1. /\ req[r] \in Request /\ ReqInv(r, f) /\ Fresh(E, r, f) /\ E[r] \in Nat /\ E[r] <= floor[f]
      /\ floor[f] \in Nat /\ corpus[f] \in Nat /\ asked[r][f] \in Nat /\ asked[r][f] <= corpus[f]
      /\ need[r][f] \in Nat /\ answer[r][f] \in Nat
  BY FreshFacts
<1>2. \A o \in Requests : obj[o].v[f] \in Nat /\ obj'[o].v[f] \in Nat
  BY FreshFacts, IndexFacts
<1>3. /\ F[r] \in Nat /\ F[r] <= E[r] /\ F[r] <= floor'[f] /\ need'[r][f] <= F[r] /\ need'[r][f] <= need[r][f]
      /\ need'[r][f] \in Nat
  BY DEF Told
<1>4. \A o \in Requests : obj[o].v[f] >= E[r] => obj'[o].v[f] >= F[r]
  BY <1>1, <1>2, <1>3
<1>5. \A o \in Requests : req[o].pc \notin Loading /\ obj[o].v[f] >= asked[r][f] => obj'[o].v[f] >= asked[r][f]
  BY <1>1, <1>2
<1>6. req[r].pc = "lookup" /\ Hit(r)' => obj'[entry'.obj].v[f] >= F[r]
  <2> SUFFICES ASSUME req[r].pc = "lookup", entry' # Nil, entry'.stamp = req[r].seen
               PROVE  obj'[entry'.obj].v[f] >= F[r]
    BY DEF Hit
  <2>1. CASE entry' = entry
    <3>1. entry.obj \in Requests
      BY <2>1 DEF InvA, TypeOK
    <3> QED BY <1>1, <1>4, <2>1, <3>1 DEF Fresh, Hit
  <2>2. ASSUME NEW o \in valid, entry' = [obj |-> o, stamp |-> req[o].base],
               req[o].pc = "settle", obj'[o] = obj[o]
        PROVE  obj'[entry'.obj].v[f] >= F[r]
    <3>1. entry'.obj = o /\ req[o].base = req[r].seen /\ req[r].seen \in Nat /\ o \in Requests
      BY <2>2, <1>1 DEF Request, InvA, TypeOK
    <3> QED BY <1>1, <1>4, <2>2, <3>1 DEF Fresh
  <2> QED BY <2>1, <2>2
<1>7. req[r].pc = "lookup" =>
        \A q \in valid' : req'[q].pc \in {"restat", "settle"} /\ req'[q].base >= req[r].seen =>
          obj'[q].v[f] >= F[r]
  <2> SUFFICES ASSUME req[r].pc = "lookup", NEW q \in valid',
                      req'[q].pc \in {"restat", "settle"}, req'[q].base >= req[r].seen
               PROVE  obj'[q].v[f] >= F[r]
    OBVIOUS
  <2>1. q \in Requests
    OBVIOUS
  <2>2. CASE q \in valid /\ req[q].pc \in {"restat", "settle"} /\ req'[q].base = req[q].base
    BY <1>1, <1>4, <2>1, <2>2 DEF Fresh
  <2>3. CASE obj'[q].v[f] >= floor[f]
    BY <1>1, <1>2, <1>3, <2>1, <2>3
  <2> QED BY <2>2, <2>3
<1>8. r \in valid' /\ req[r].pc \in {"restat", "settle"} => obj'[r].v[f] >= F[r]
  BY <1>1, <1>4 DEF Fresh
<1>9. /\ req[r].holds # Nil => obj'[req[r].holds].v[f] >= F[r]
      /\ req[r].own # Nil => req[r].own.v[f] >= F[r]
  <2>1. req[r].holds # Nil => obj'[req[r].holds].v[f] >= F[r]
    BY <1>1, <1>4 DEF Fresh, Request
  <2>2. req[r].own # Nil => req[r].own.v[f] \in Nat /\ req[r].own.v[f] >= E[r]
    BY FreshFacts DEF Fresh
  <2> QED BY <1>1, <1>3, <2>1, <2>2
<1>10. mode[r].refresh /\ f \notin skipped[r] /\ req[r].pc \in {"save", "invalidate", "unlock", "query"} =>
         Uses(r)'.v[f] >= asked[r][f]
  <2> SUFFICES ASSUME mode[r].refresh, f \notin skipped[r], req[r].pc \in {"save", "invalidate", "unlock", "query"}
               PROVE  Uses(r)'.v[f] >= asked[r][f]
    OBVIOUS
  <2>1. req[r].holds \in Requests /\ req[req[r].holds].pc \notin Loading
    BY <1>1 DEF ReqInv, HoldInv, Holding, Under, Request
  <2>2. Uses(r).v[f] >= asked[r][f]
    BY <1>1 DEF Fresh
  <2> QED BY <1>5, <2>1, <2>2 DEF Uses
<1>11. req[r].pc = "join" => F[r] <= F[req[r].awaits]
  <2>1. req[r].pc = "join" => req[r].awaits \in Requests /\ E[r] <= E[req[r].awaits]
    BY <1>1 DEF Fresh, ReqInv, HoldInv, Request
  <2> QED BY <2>1 DEF Told
<1>12. /\ mode[r].refresh /\ f \notin skipped[r] /\ req[r].pc = "done" => answer[r][f] >= asked[r][f]
       /\ req[r].pc = "done" => answer[r][f] >= need'[r][f]
  BY <1>1, <1>3 DEF Fresh
<1>13. asked[r][f] <= corpus'[f]
  BY <1>1
<1> QED BY <1>3, <1>6, <1>7, <1>8, <1>9, <1>10, <1>11, <1>12, <1>13 DEF Fresh

\* A step of r that leaves the file, the cache and what it was told alone.
LEMMA PlainFresh ==
  ASSUME NEW f \in Files, InvA(f), NEW E \in [Requests -> Nat], InvB(E, f),
         NEW r \in Requests, NEW s \in Request, req' = [req EXCEPT ![r] = s],
         UNCHANGED <<corpus, file, cache, mode, floor, need, asked>>,
         \A q \in Requests \ {r} : answer'[q] = answer[q] /\ skipped'[q] = skipped[q],
         s.pc \in {"restat", "settle"} => req[r].pc \in {"restat", "settle"} /\ s.base = req[r].base,
         s.pc = "join" => E[r] <= E[s.awaits],
         s.pc = "lookup" =>
           /\ entry # Nil /\ entry.stamp = s.seen => obj[entry.obj].v[f] >= E[r]
           /\ \A q \in valid : req[q].pc \in {"restat", "settle"} /\ req[q].base >= s.seen =>
                obj[q].v[f] >= E[r],
         s.holds # Nil => obj[s.holds].v[f] >= E[r],
         s.own # Nil => s.own.v[f] >= E[r],
         mode[r].refresh /\ f \notin skipped'[r] /\ s.pc \in {"save", "invalidate", "unlock", "query"} =>
           IF s.own # Nil THEN s.own.v[f] >= asked[r][f] ELSE obj[s.holds].v[f] >= asked[r][f],
         s.pc = "done" =>
           /\ answer'[r][f] >= need[r][f]
           /\ mode[r].refresh /\ f \notin skipped'[r] => answer'[r][f] >= asked[r][f]
  PROVE  InvB(E, f)'
<1>1. req'[r] = s /\ \A q \in Requests : q # r => req'[q] = req[q]
  BY ReqFacts
<1>2. /\ corpus' = corpus /\ file' = file /\ mode' = mode /\ floor' = floor /\ need' = need /\ asked' = asked
      /\ obj' = obj /\ entry' = entry /\ inFlight' = inFlight /\ valid' = valid
  BY DEF cache
<1>3. /\ corpus[f] \in Nat /\ floor[f] \in Nat /\ obj \in [Requests -> Index]
      /\ \A o \in Requests : obj[o].v[f] \in Nat
  BY FreshFacts
<1>4. valid \subseteq Requests
  BY DEF InvA, TypeOK
<1>5. \A o \in valid' : req'[o].pc \in {"restat", "settle"} =>
        o \in valid /\ req[o].pc \in {"restat", "settle"} /\ req'[o].base = req[o].base
  BY <1>1, <1>2, <1>4
<1>6. \A o \in Requests : obj'[o].v[f] >= obj[o].v[f]
  BY <1>2, <1>3
<1>7. corpus'[f] \in Nat /\ corpus'[f] >= corpus[f] /\ floor'[f] \in Nat /\ floor'[f] >= floor[f]
  BY <1>2, <1>3
<1>8. ASSUME NEW q \in Requests \ {r}
      PROVE  Fresh(E, q, f)'
  <2>1. Told(E, E, f)
    BY <1>2, <1>7, ToldSame
  <2>2. req'[q] = req[q] /\ asked'[q] = asked[q] /\ skipped'[q] = skipped[q] /\ answer'[q] = answer[q]
        /\ (q \in valid' => q \in valid) /\ valid' \subseteq Requests /\ obj' \in [Requests -> Index]
    BY <1>1, <1>2, <1>3, <1>4
  <2> QED BY <1>2, <1>5, <1>6, <1>7, <2>1, <2>2, FreshOthers
<1>9. Fresh(E, r, f)'
  <2>1. Fresh(E, r, f)
    BY DEF InvB
  <2>2. Hit(r)' => entry # Nil /\ entry.stamp = s.seen
    BY <1>1, <1>2 DEF Hit
  <2>3. s.pc = "lookup" =>
          \A q \in valid : req'[q].pc \in {"restat", "settle"} /\ req'[q].base >= s.seen => obj[q].v[f] >= E[r]
    BY <1>1, <1>4
  <2>4. mode[r].refresh /\ f \notin skipped'[r] /\ s.pc \in {"save", "invalidate", "unlock", "query"} =>
          Uses(r)'.v[f] >= asked[r][f]
    BY <1>1, <1>2 DEF Uses
  <2>5. r \in valid /\ s.pc \in {"restat", "settle"} => obj[r].v[f] >= E[r]
    BY <2>1 DEF Fresh
  <2> QED BY <1>1, <1>2, <2>1, <2>2, <2>3, <2>4, <2>5 DEF Fresh
<1> QED BY <1>8, <1>9 DEF InvB

LEMMA StatFresh ==
  ASSUME NEW f \in Files, InvA(f), NEW E \in [Requests -> Nat], InvB(E, f), NEW r \in Requests, Stat(r)
  PROVE  InvB(E, f)'
<1>1. PICK pc \in {"lookup", "settle"} :
        /\ req[r].pc = (IF pc = "lookup" THEN "stat" ELSE "restat")
        /\ req' = [req EXCEPT ![r].pc = pc, ![r].seen = file.stamp]
  BY DEF Stat
<1> DEFINE s == [req[r] EXCEPT !.pc = pc, !.seen = file.stamp]
<1>2. /\ s \in Request /\ s.pc = pc /\ s.holds = req[r].holds /\ s.own = req[r].own
      /\ s.base = req[r].base /\ s.seen = file.stamp /\ req' = [req EXCEPT ![r] = s]
  <2>1. req[r] \in Request /\ file.stamp \in Nat
    BY FreshFacts
  <2>2. s \in Request
    BY <2>1 DEF Request
  <2>3. /\ s.pc = pc /\ s.holds = req[r].holds /\ s.own = req[r].own /\ s.base = req[r].base
        /\ s.seen = file.stamp
    BY <2>1 DEF Request
  <2>4. req' = [req EXCEPT ![r] = s]
    BY <1>1
  <2> QED BY <2>2, <2>3, <2>4
<1>3. UNCHANGED <<corpus, file, cache, mode, floor, need, asked, skipped, answer>>
  BY DEF Stat, told
<1>4. entry # Nil /\ entry.stamp = file.stamp => obj[entry.obj].v[f] >= E[r]
  <2>1. entry # Nil => entry.obj \in Requests
    BY DEF InvA, TypeOK
  <2> QED BY <2>1, FreshFacts DEF InvA, NoStale
<1>5. ASSUME NEW q \in valid, req[q].pc \in {"restat", "settle"}, req[q].base >= file.stamp
      PROVE  obj[q].v[f] >= E[r]
  <2>1. q \in Requests
    BY DEF InvA, TypeOK
  <2>2. ReqInv(q, f) /\ req[q].base \in Nat /\ file.stamp \in Nat
    BY <2>1, ReqFacts DEF Request
  <2>3. req[q].base = file.stamp
    BY <1>5, <2>2 DEF ReqInv, ParseInv
  <2> QED BY <1>5, <2>1, <2>2, <2>3, FreshFacts DEF ReqInv, ParseInv
<1>6. s.holds = Nil /\ s.own = Nil
  BY <1>1, <1>2, FreshFacts DEF ReqInv, HoldInv, Loading
<1> HIDE DEF s
<1>7. /\ s.pc \in {"restat", "settle"} => req[r].pc \in {"restat", "settle"} /\ s.base = req[r].base
      /\ s.pc # "join" /\ s.pc \notin {"save", "invalidate", "unlock", "query"} /\ s.pc # "done"
  BY <1>1, <1>2
<1> QED BY <1>2, <1>3, <1>4, <1>5, <1>6, <1>7, PlainFresh

LEMMA LookupHitsFresh ==
  ASSUME NEW f \in Files, InvA(f), NEW E \in [Requests -> Nat], InvB(E, f), NEW r \in Requests, LookupHits(r)
  PROVE  InvB(E, f)'
<1> DEFINE s == [NewRequest EXCEPT !.pc = "loaded", !.holds = entry.obj]
<1>1. entry.obj \in Requests
  BY DEF LookupHits, Hit, InvA, TypeOK, ToldOK
<1>2. /\ s \in Request /\ s.pc = "loaded" /\ s.holds = entry.obj /\ s.own = Nil
      /\ req' = [req EXCEPT ![r] = s] /\ UNCHANGED <<corpus, file, cache, mode, floor, need, asked, skipped, answer>>
  BY <1>1 DEF LookupHits, LoadedWith, NewRequest, Request, told
<1>3. obj[entry.obj].v[f] >= E[r]
  BY FreshFacts DEF LookupHits, Fresh
<1> HIDE DEF s
<1> QED BY <1>2, <1>3, PlainFresh

LEMMA SettleMovesFresh ==
  ASSUME NEW f \in Files, InvA(f), NEW E \in [Requests -> Nat], InvB(E, f), NEW r \in Requests,
         SettleRetired(r) \/ SettleAgain(r)
  PROVE  InvB(E, f)'
<1>1. PICK s \in Request :
        /\ req' = [req EXCEPT ![r] = s] /\ s.pc \in {"stat", "parse"}
        /\ s.holds = req[r].holds /\ s.own = req[r].own
  <2>1. CASE SettleRetired(r)
    <3> DEFINE s == [req[r] EXCEPT !.pc = "stat"]
    <3>1. s \in Request /\ s.pc = "stat" /\ s.holds = req[r].holds /\ s.own = req[r].own
          /\ req' = [req EXCEPT ![r] = s]
      BY <2>1, FreshFacts DEF SettleRetired, Goto, Request
    <3> QED BY <3>1
  <2>2. CASE SettleAgain(r)
    <3> DEFINE s == [req[r] EXCEPT !.pc = "parse", !.base = req[r].seen, !.tries = @ + 1]
    <3>1. req[r] \in Request /\ req[r].tries + 1 \in Nat
      BY FreshFacts DEF Request
    <3>2. s \in Request /\ s.pc = "parse" /\ s.holds = req[r].holds /\ s.own = req[r].own
      BY <3>1 DEF Request
    <3>3. req' = [req EXCEPT ![r] = s]
      BY <2>2 DEF SettleAgain
    <3> QED BY <3>2, <3>3
  <2> QED BY <2>1, <2>2
<1>2. UNCHANGED <<corpus, file, cache, mode, floor, need, asked, skipped, answer>>
  BY DEF SettleRetired, SettleAgain, told
<1>3. s.holds = Nil /\ s.own = Nil
  BY <1>1, FreshFacts DEF SettleRetired, SettleAgain, ReqInv, HoldInv, Loading
<1> QED BY <1>1, <1>2, <1>3, PlainFresh

\* A request that is over keeps what it held.
LEMMA OverFresh ==
  ASSUME NEW f \in Files, InvA(f), NEW E \in [Requests -> Nat], InvB(E, f), NEW r \in Requests,
         NEW pc \in {"failed", "done"}, Over(r, pc),
         UNCHANGED <<corpus, file, cache, mode, floor, need, asked, skipped>>,
         \A q \in Requests \ {r} : answer'[q] = answer[q],
         pc = "done" =>
           /\ answer'[r][f] >= need[r][f]
           /\ mode[r].refresh /\ f \notin skipped[r] => answer'[r][f] >= asked[r][f]
  PROVE  InvB(E, f)'
<1> DEFINE s == [NewRequest EXCEPT !.pc = pc, !.holds = req[r].holds]
<1>1. req[r].holds \in Requests \cup {Nil}
  BY FreshFacts DEF Request
<1>2. s \in Request /\ s.pc = pc /\ s.holds = req[r].holds /\ s.own = Nil /\ req' = [req EXCEPT ![r] = s]
  BY <1>1 DEF Over, NewRequest, Request
<1>3. s.holds # Nil => obj[s.holds].v[f] >= E[r]
  BY <1>2, FreshFacts DEF Fresh
<1> HIDE DEF s
<1> QED BY <1>2, <1>3, PlainFresh

LEMMA JoinFresh ==
  ASSUME NEW f \in Files, InvA(f), NEW E \in [Requests -> Nat], InvB(E, f), NEW r \in Requests, Join(r)
  PROVE  InvB(E, f)'
<1>1. UNCHANGED <<corpus, file, cache, mode, floor, need, asked, skipped, answer>> /\ req[r].pc = "join"
  BY DEF Join, told
<1> DEFINE o == req[r].awaits
<1>2. o \in Requests /\ E[r] <= E[o]
  BY <1>1, FreshFacts DEF ReqInv, HoldInv, Request, Fresh
<1>3. CASE Over(r, "failed")
  BY <1>1, <1>3, OverFresh
<1>4. CASE req[o].holds # Nil /\ LoadedWith(r, req[o].holds)
  <2> DEFINE s == [NewRequest EXCEPT !.pc = "loaded", !.holds = req[o].holds]
  <2>1. req[o].holds \in Requests
    BY <1>2, <1>4, FreshFacts DEF Request
  <2>2. s \in Request /\ s.pc = "loaded" /\ s.holds = req[o].holds /\ s.own = Nil /\ req' = [req EXCEPT ![r] = s]
    BY <1>4, <2>1 DEF LoadedWith, NewRequest, Request
  <2>3. obj[req[o].holds].v[f] >= E[o] /\ E[o] \in Nat /\ obj[req[o].holds].v[f] \in Nat
    BY <1>2, <1>4, <2>1, FreshFacts DEF Fresh
  <2> HIDE DEF s
  <2>4. obj[req[o].holds].v[f] >= E[r]
    BY <1>2, <2>3
  <2>5. obj[s.holds].v[f] >= E[r]
    BY <2>2, <2>4
  <2> QED BY <1>1, <2>2, <2>5, PlainFresh
<1> QED BY <1>3, <1>4 DEF Join

\* Steps of a refresh under the lock that leave the file and the cache alone.
LEMMA RefreshStepsFresh ==
  ASSUME NEW f \in Files, InvA(f), NEW E \in [Requests -> Nat], InvB(E, f), NEW r \in Requests,
         \/ Lock(r) \/ LockContends(r) \/ LoadFresh(r)
         \/ SaveNothing(r) \/ RefreshFails(r) \/ Unlock(r)
  PROVE  InvB(E, f)'
<1>1. UNCHANGED <<corpus, file, cache, mode, floor, need, asked, skipped, answer>>
  BY DEF Lock, LockContends, LoadFresh, SaveNothing, RefreshFails, Unlock, told
<1>2. req[r].holds # Nil => obj[req[r].holds].v[f] >= E[r]
  BY FreshFacts DEF Fresh
<1>3. req[r].own # Nil => req[r].own.v[f] >= E[r]
  BY FreshFacts DEF Fresh
<1>4. CASE LockContends(r) \/ RefreshFails(r)
  BY <1>1, <1>4, OverFresh DEF LockContends, RefreshFails
<1>5. CASE Lock(r) \/ SaveNothing(r) \/ Unlock(r)
  <2>1. PICK pc \in {"fresh", "inplace", "invalidate", "unlock", "query"} :
          /\ req' = [req EXCEPT ![r].pc = pc]
          /\ pc \in {"invalidate", "unlock", "query"} => req[r].pc \in {"save", "unlock"}
    BY <1>5 DEF Lock, SaveNothing, AfterSave, Unlock, Goto
  <2> DEFINE s == [req[r] EXCEPT !.pc = pc]
  <2>2. /\ s \in Request /\ s.pc = pc /\ s.holds = req[r].holds /\ s.own = req[r].own
        /\ req' = [req EXCEPT ![r] = s]
    BY <2>1, FreshFacts DEF Request
  <2>3. mode[r].refresh /\ f \notin skipped[r] /\ pc \in {"invalidate", "unlock", "query"} =>
          Uses(r).v[f] >= asked[r][f]
    BY <2>1, FreshFacts DEF Fresh
  <2>4. mode[r].refresh /\ f \notin skipped'[r] /\ s.pc \in {"save", "invalidate", "unlock", "query"} =>
          IF s.own # Nil THEN s.own.v[f] >= asked[r][f] ELSE obj[s.holds].v[f] >= asked[r][f]
    BY <1>1, <2>2, <2>3 DEF Uses
  <2> HIDE DEF s
  <2> QED BY <1>1, <1>2, <1>3, <2>2, <2>4, PlainFresh
<1>6. CASE LoadFresh(r)
  <2> DEFINE pc == IF mode[r].refresh \/ file.v = Nothing THEN "refresh" ELSE "unlock"
             s == [req[r] EXCEPT !.own = OnDisk, !.pc = pc]
  <2>1. OnDisk \in Index /\ OnDisk.v[f] = file.v[f]
    BY ReqFacts
  <2>2. req' = [req EXCEPT ![r] = s]
    BY <1>6 DEF LoadFresh
  <2>3. pc \in {"refresh", "unlock"} /\ (pc = "unlock" => ~mode[r].refresh)
    OBVIOUS
  <2>4. req[r] \in Request
    BY FreshFacts
  <2> HIDE DEF pc
  <2>5. s \in Request /\ s.pc = pc /\ s.holds = req[r].holds /\ s.own = OnDisk
    BY <2>1, <2>3, <2>4 DEF Request
  <2>6. s.own.v[f] >= E[r]
    BY <2>1, <2>5, FreshFacts
  <2> HIDE DEF s
  <2> QED BY <1>1, <1>2, <2>2, <2>3, <2>5, <2>6, PlainFresh
<1> QED BY <1>4, <1>5, <1>6

\* A refresh yields the corpus, but for what it goes around.
LEMMA RefreshFresh ==
  ASSUME NEW f \in Files, InvA(f), NEW E \in [Requests -> Nat], InvB(E, f), NEW r \in Requests, Refresh(r)
  PROVE  InvB(E, f)'
<1>1. PICK skip \in SUBSET Files :
        /\ req' = [req EXCEPT ![r].pc = "save", ![r].own = Refreshed(req[r].own, skip)]
        /\ skipped' = [skipped EXCEPT ![r] = skip]
  BY DEF Refresh
<1> DEFINE i == Refreshed(req[r].own, skip)
           s == [req[r] EXCEPT !.pc = "save", !.own = i]
<1>2. UNCHANGED <<corpus, file, cache, mode, floor, need, asked, answer>> /\ req[r].pc = "refresh"
  BY DEF Refresh
<1>3. /\ skipped'[r] = skip /\ \A q \in Requests \ {r} : skipped'[q] = skipped[q] /\ answer'[q] = answer[q]
  BY <1>1, <1>2, ReqFacts DEF ToldOK
<1>4. req[r].own # Nil /\ req[r].own \in Index
  BY <1>2, FreshFacts DEF ReqInv, HoldInv
<1>5. i \in Index /\ i # Nil /\ i.v[f] = IF f \in skip THEN req[r].own.v[f] ELSE corpus[f]
  BY <1>4, RefreshedFacts, IndexFacts
<1> HIDE DEF i
<1>6. /\ s \in Request /\ s.pc = "save" /\ s.holds = req[r].holds /\ s.own = i
  BY <1>5, FreshFacts DEF Request
<1>7. req' = [req EXCEPT ![r] = s]
  BY <1>1 DEF i
<1> HIDE DEF s
<1>8. E[r] <= corpus[f] /\ req[r].own.v[f] >= E[r] /\ (req[r].holds # Nil => obj[req[r].holds].v[f] >= E[r])
      /\ asked[r][f] <= corpus[f]
  BY <1>4, FreshFacts DEF Fresh
<1>9. s.own # Nil /\ s.own.v[f] >= E[r] /\ (f \notin skipped'[r] => s.own.v[f] >= asked[r][f])
  BY <1>3, <1>5, <1>6, <1>8
<1>10. s.holds # Nil => obj[s.holds].v[f] >= E[r]
  BY <1>6, <1>8
<1> QED BY <1>2, <1>3, <1>6, <1>7, <1>9, <1>10, PlainFresh

LEMMA QueryFresh ==
  ASSUME NEW f \in Files, InvA(f), NEW E \in [Requests -> Nat], InvB(E, f), NEW r \in Requests, Query(r)
  PROVE  InvB(E, f)'
<1>1. /\ UNCHANGED <<corpus, file, cache, mode, floor, need, asked, skipped>> /\ Over(r, "done")
      /\ answer' = [answer EXCEPT ![r] = Uses(r).v] /\ answer \in [Requests -> Versions]
  BY DEF Query, InvA, TypeOK
<1>2. Uses(r).v[f] >= need[r][f]
  <2>1. req[r].holds \in Requests
    BY FreshFacts DEF Query, ReqInv, HoldInv, Holding, Request
  <2>2. Uses(r).v[f] >= E[r] /\ Uses(r).v[f] \in Nat
    <3>1. /\ obj[req[r].holds].v[f] >= E[r] /\ obj[req[r].holds].v[f] \in Nat
          /\ req[r].own # Nil => req[r].own.v[f] >= E[r] /\ req[r].own.v[f] \in Nat
      BY <2>1, FreshFacts, LexicalAssumption DEF Fresh
    <3> QED BY <3>1 DEF Uses
  <2> QED BY <2>2, FreshFacts
<1>3. mode[r].refresh /\ f \notin skipped[r] => Uses(r).v[f] >= asked[r][f]
  BY FreshFacts DEF Query, MustRefresh, Fresh
<1>4. answer'[r] = Uses(r).v /\ \A q \in Requests \ {r} : answer'[q] = answer[q]
  BY <1>1
<1> QED BY <1>1, <1>2, <1>3, <1>4, OverFresh

\* Steps of r that change the cache, the file or what the cache was told.
LEMMA CacheFresh ==
  ASSUME NEW f \in Files, InvA(f), NEW E \in [Requests -> Nat], NEW F \in [Requests -> Nat],
         InvB(E, f), Told(E, F, f), NEW r \in Requests,
         NEW s, req' = [req EXCEPT ![r] = s], s.pc \notin {"restat", "settle", "join", "lookup", "done"},
         UNCHANGED <<corpus, mode, asked, answer>>,
         \A q \in Requests \ {r} : skipped'[q] = skipped[q],
         obj' \in [Requests -> Index],
         \A o \in Requests : obj'[o].v[f] >= obj[o].v[f],
         \/ entry' = entry \/ entry' = Nil
         \/ /\ r \in valid /\ entry' = [obj |-> r, stamp |-> req[r].base]
            /\ req[r].pc = "settle" /\ obj'[r] = obj[r],
         valid' \subseteq valid \cup {r},
         s.holds # Nil => obj'[s.holds].v[f] >= F[r],
         s.own # Nil => s.own.v[f] >= F[r],
         mode[r].refresh /\ f \notin skipped'[r] /\ s.pc \in {"save", "invalidate", "unlock", "query"} =>
           IF s.own # Nil THEN s.own.v[f] >= asked[r][f] ELSE obj'[s.holds].v[f] >= asked[r][f]
  PROVE  InvB(F, f)'
<1>1. req'[r] = s /\ \A q \in Requests : q # r => req'[q] = req[q]
  BY ReqFacts
<1>2. corpus[f] \in Nat /\ valid \subseteq Requests
  BY ReqFacts DEF InvA, TypeOK
<1>3. \A o \in valid' : req'[o].pc \in {"restat", "settle"} =>
        o \in valid /\ req[o].pc \in {"restat", "settle"} /\ req'[o].base = req[o].base
  BY <1>1, <1>2
<1>4. corpus'[f] \in Nat /\ corpus'[f] >= corpus[f] /\ mode' = mode /\ asked' = asked /\ answer' = answer
      /\ corpus' = corpus
  BY <1>2
<1>5. \/ entry' = entry \/ entry' = Nil
      \/ \E o \in valid : /\ entry' = [obj |-> o, stamp |-> req[o].base]
                          /\ req[o].pc = "settle" /\ obj'[o] = obj[o]
  OBVIOUS
<1>6. ASSUME NEW q \in Requests \ {r}
      PROVE  Fresh(F, q, f)'
  <2>1. req'[q] = req[q] /\ asked'[q] = asked[q] /\ answer'[q] = answer[q] /\ skipped'[q] = skipped[q]
        /\ (q \in valid' => q \in valid) /\ valid' \subseteq Requests
    BY <1>1, <1>2, <1>4
  <2> QED BY <1>3, <1>4, <1>5, <2>1, FreshOthers
<1>7. Fresh(F, r, f)'
  <2>1. F[r] <= floor'[f] /\ need'[r][f] <= F[r]
    BY DEF Told
  <2>2. asked'[r][f] <= corpus'[f]
    BY <1>4, FreshFacts
  <2>3. mode[r].refresh /\ f \notin skipped'[r] /\ s.pc \in {"save", "invalidate", "unlock", "query"} =>
          Uses(r)'.v[f] >= asked[r][f]
    BY <1>1 DEF Uses
  <2> QED BY <1>1, <1>4, <2>1, <2>2, <2>3 DEF Fresh
<1> QED BY <1>6, <1>7 DEF InvB

LEMMA LookupParsesFresh ==
  ASSUME NEW f \in Files, InvA(f), NEW E \in [Requests -> Nat], InvB(E, f), NEW r \in Requests, LookupParses(r)
  PROVE  InvB(E, f)'
<1> DEFINE s == [req[r] EXCEPT !.pc = "parse", !.base = req[r].seen, !.tries = 0]
<1>1. /\ s.pc = "parse" /\ s.holds = req[r].holds /\ s.own = req[r].own
      /\ req' = [req EXCEPT ![r] = s]
  BY FreshFacts DEF LookupParses, Request
<1>2. s.holds = Nil /\ s.own = Nil
  BY <1>1, FreshFacts DEF LookupParses, ReqInv, HoldInv, Loading
<1>3. /\ UNCHANGED <<corpus, mode, floor, need, asked, skipped, answer, obj, entry>>
      /\ valid' \subseteq valid \cup {r}
  BY DEF LookupParses, told
<1>4. \A o \in Requests : obj'[o].v[f] >= obj[o].v[f]
  BY <1>3, FreshFacts
<1>5. obj' \in [Requests -> Index] /\ Told(E, E, f)
  BY <1>3, FreshFacts, ToldSame
<1> HIDE DEF s
<1> QED BY <1>1, <1>2, <1>3, <1>4, <1>5, CacheFresh

LEMMA LoadFailsFresh ==
  ASSUME NEW f \in Files, InvA(f), NEW E \in [Requests -> Nat], InvB(E, f), NEW r \in Requests, LoadFails(r)
  PROVE  InvB(E, f)'
<1> DEFINE s == [NewRequest EXCEPT !.pc = "failed", !.holds = req[r].holds]
<1>1. /\ s.pc = "failed" /\ s.holds = req[r].holds /\ s.own = Nil /\ req' = [req EXCEPT ![r] = s]
  BY DEF LoadFails, Over, NewRequest
<1>2. s.holds = Nil
  BY <1>1, FreshFacts DEF LoadFails, ReqInv, HoldInv, Loading
<1>3. /\ UNCHANGED <<corpus, mode, floor, need, asked, skipped, answer, obj, entry>> /\ valid' \subseteq valid
  BY DEF LoadFails, Forget, told
<1>4. \A o \in Requests : obj'[o].v[f] >= obj[o].v[f]
  BY <1>3, FreshFacts
<1>5. obj' \in [Requests -> Index] /\ Told(E, E, f)
  BY <1>3, FreshFacts, ToldSame
<1> HIDE DEF s
<1> QED BY <1>1, <1>2, <1>3, <1>4, <1>5, CacheFresh

LEMMA SettleFresh ==
  ASSUME NEW f \in Files, InvA(f), NEW E \in [Requests -> Nat], InvB(E, f), NEW r \in Requests, Settle(r)
  PROVE  InvB(E, f)'
<1> DEFINE s == [NewRequest EXCEPT !.pc = "loaded", !.holds = r]
<1>1. /\ s.pc = "loaded" /\ s.holds = r /\ s.own = Nil /\ req' = [req EXCEPT ![r] = s]
  BY DEF Settle, LoadedWith, NewRequest
<1>2. /\ UNCHANGED <<corpus, mode, floor, need, asked, skipped, answer, obj>> /\ valid' \subseteq valid
      /\ r \in valid /\ req[r].pc = "settle"
      /\ entry' = entry \/ entry' = [obj |-> r, stamp |-> req[r].base]
  BY DEF Settle, Forget, told
<1>3. \A o \in Requests : obj'[o].v[f] >= obj[o].v[f]
  BY <1>2, FreshFacts
<1>4. obj' \in [Requests -> Index] /\ Told(E, E, f)
  BY <1>2, FreshFacts, ToldSame
<1>5. obj'[r].v[f] >= E[r] /\ obj'[r] = obj[r]
  BY <1>2, FreshFacts DEF Fresh
<1> HIDE DEF s
<1> QED BY <1>1, <1>2, <1>3, <1>4, <1>5, CacheFresh

LEMMA RefreshInPlaceFresh ==
  ASSUME NEW f \in Files, InvA(f), NEW E \in [Requests -> Nat], InvB(E, f), NEW r \in Requests, RefreshInPlace(r)
  PROVE  InvB(E, f)'
<1>1. PICK skip \in SUBSET Files :
        /\ obj' = [obj EXCEPT ![req[r].holds] = Refreshed(@, skip)]
        /\ skipped' = [skipped EXCEPT ![r] = skip]
  BY DEF RefreshInPlace
<1> DEFINE o == req[r].holds
           i == Refreshed(obj[o], skip)
           s == [req[r] EXCEPT !.pc = "save"]
<1>2. o \in Requests /\ req[r].own = Nil
  <2>1. req[r].pc = "inplace" /\ ReqInv(r, f) /\ req[r] \in Request /\ mode[r].path \in {"leg", "lexical"}
    BY FreshFacts DEF RefreshInPlace, InvA, TypeOK
  <2> QED BY <2>1 DEF ReqInv, HoldInv, Holding, Under, Request
<1>3. obj[o] \in Index /\ obj \in [Requests -> Index]
  BY <1>2, FreshFacts
<1>4. i \in Index /\ i.v[f] = IF f \in skip THEN obj[o].v[f] ELSE corpus[f]
  BY <1>3, RefreshedFacts
<1>5. obj' = [obj EXCEPT ![o] = i]
  BY <1>1, <1>2
<1>6. /\ s.pc = "save" /\ s.holds = o /\ s.own = Nil /\ req' = [req EXCEPT ![r] = s]
  BY <1>2, FreshFacts DEF RefreshInPlace, Goto, Request
<1>7. o # Nil
  BY <1>2, LexicalAssumption
<1> HIDE DEF i, s
<1>8. UNCHANGED <<corpus, mode, floor, need, asked, answer, entry, valid>>
  BY DEF RefreshInPlace
<1>9. /\ skipped'[r] = skip /\ \A q \in Requests \ {r} : skipped'[q] = skipped[q]
  BY <1>1, ReqFacts DEF ToldOK
<1>10. /\ obj' \in [Requests -> Index] /\ obj'[o].v[f] = IF f \in skip THEN obj[o].v[f] ELSE corpus[f]
       /\ \A q \in Requests : q # o => obj'[q] = obj[q]
  BY <1>2, <1>3, <1>4, <1>5
<1>11. /\ corpus[f] \in Nat /\ \A q \in Requests : obj[q].v[f] \in Nat /\ obj[q].v[f] <= corpus[f]
       /\ obj[o].v[f] >= E[r] /\ E[r] \in Nat /\ E[r] <= corpus[f] /\ asked[r][f] <= corpus[f]
  BY <1>7, FreshFacts DEF Fresh
<1>12. \A q \in Requests : obj'[q].v[f] >= obj[q].v[f]
  <2> SUFFICES ASSUME NEW q \in Requests PROVE obj'[q].v[f] >= obj[q].v[f]
    OBVIOUS
  <2> QED BY <1>10, <1>11
<1>13. obj'[o].v[f] >= E[r] /\ (f \notin skipped'[r] => obj'[o].v[f] >= asked[r][f])
  BY <1>2, <1>9, <1>10, <1>11
<1>14. Told(E, E, f)
  BY <1>8, FreshFacts, ToldSame
<1>15. /\ s.holds # Nil => obj'[s.holds].v[f] >= E[r]
       /\ mode[r].refresh /\ f \notin skipped'[r] => obj'[s.holds].v[f] >= asked[r][f]
  BY <1>6, <1>13
<1> QED BY <1>6, <1>8, <1>9, <1>10, <1>12, <1>14, <1>15, CacheFresh

\* A save may put older entries into the file: what is left to count on is
\* the lower of both.
LEMMA SaveFresh ==
  ASSUME NEW f \in Files, InvA(f), NEW E \in [Requests -> Nat], InvB(E, f), NEW r \in Requests, Save(r)
  PROVE  \E F \in [Requests -> Nat] : InvB(F, f)'
<1> DEFINE o == req[r].holds
<1>1. /\ o \in Requests /\ o # Nil /\ req[r].pc = "save"
      /\ AfterSave(r) \in {"invalidate", "unlock"} /\ req[r] \in Request
  BY SaveFacts, ReqFacts DEF AfterSave
<1>2. PICK s \in Request, i \in Index :
        /\ req' = [req EXCEPT ![r] = s] /\ s.pc = AfterSave(r) /\ s.holds = o
        /\ obj' = [obj EXCEPT ![o] = i] /\ i.v[f] = obj[o].v[f]
        /\ req[r].own # Nil => s.own # Nil /\ s.own.v[f] = req[r].own.v[f]
        /\ req[r].own = Nil => s.own = Nil
  <2>1. CASE req[r].own # Nil
    <3> DEFINE own == [req[r].own EXCEPT !.dirty = FALSE]
               s == [req[r] EXCEPT !.pc = AfterSave(r), !.own = own]
    <3>1. own \in Index /\ own # Nil /\ own.v[f] = req[r].own.v[f]
      BY <2>1, FreshFacts, ReqFacts DEF Index, Versions
    <3> HIDE DEF own
    <3>2. s \in Request /\ s.pc = AfterSave(r) /\ s.own = own /\ s.holds = o
      BY <1>1, <3>1 DEF Request
    <3>3. obj' = obj
      BY <2>1 DEF Save
    <3>4. req' = [req EXCEPT ![r].pc = AfterSave(r), ![r].own.dirty = FALSE]
      BY <2>1 DEF Save
    <3>5. req' = [req EXCEPT ![r] = s]
      BY <3>4 DEF own
    <3>6. obj' = [obj EXCEPT ![o] = obj[o]] /\ obj[o] \in Index
      BY <1>1, <3>3, FreshFacts
    <3> HIDE DEF s
    <3> QED BY <2>1, <3>1, <3>2, <3>5, <3>6
  <2>2. CASE req[r].own = Nil
    <3> DEFINE i == [obj[o] EXCEPT !.dirty = FALSE]
               s == [req[r] EXCEPT !.pc = AfterSave(r)]
    <3>1. i \in Index /\ i.v[f] = obj[o].v[f]
      BY <1>1, FreshFacts DEF Index, Versions
    <3>2. s \in Request /\ s.pc = AfterSave(r) /\ s.own = req[r].own /\ s.holds = o
      BY <1>1 DEF Request
    <3>3. req' = [req EXCEPT ![r] = s] /\ obj' = [obj EXCEPT ![o] = i]
      BY <2>2 DEF Save
    <3> HIDE DEF s, i
    <3> QED BY <2>2, <3>1, <3>2, <3>3
  <2> QED BY <2>1, <2>2
<1> HIDE DEF o
<1>3. obj'[o].v[f] = obj[o].v[f] /\ obj' \in [Requests -> Index] /\ \A q \in Requests : q # o => obj'[q] = obj[q]
  BY <1>1, <1>2, FreshFacts
<1>4. \A q \in Requests : obj'[q].v[f] >= obj[q].v[f]
  <2>1. ASSUME NEW q \in Requests PROVE obj'[q].v[f] = obj[q].v[f] /\ obj[q].v[f] \in Nat
    BY <1>3, FreshFacts
  <2> QED BY <2>1
<1>5. UNCHANGED <<corpus, entry, valid, mode, asked, skipped, answer>>
  BY DEF Save
<1>6. /\ obj[o].v[f] >= E[r] /\ obj[o].v[f] \in Nat /\ E[r] \in Nat
      /\ req[r].own # Nil => req[r].own.v[f] >= E[r] /\ req[r].own.v[f] \in Nat
  BY <1>1, FreshFacts DEF Fresh, o
<1>7. mode[r].refresh /\ f \notin skipped[r] => Uses(r).v[f] >= asked[r][f]
  BY <1>1, FreshFacts DEF Fresh
<1>8. mode[r].refresh /\ f \notin skipped'[r] =>
        IF s.own # Nil THEN s.own.v[f] >= asked[r][f] ELSE obj'[o].v[f] >= asked[r][f]
  BY <1>2, <1>3, <1>5, <1>7 DEF Uses, o
<1>9. PICK F \in [Requests -> Nat] : Told(E, F, f)
  BY SaveFacts, ToldLower
<1>10. F[r] <= E[r] /\ F[r] \in Nat
  BY <1>9 DEF Told
<1>11. obj'[s.holds].v[f] >= F[r] /\ (s.own # Nil => s.own.v[f] >= F[r])
  BY <1>2, <1>3, <1>6, <1>10
<1>12. InvB(F, f)'
  <2>1. \A q \in Requests \ {r} : skipped'[q] = skipped[q]
    BY <1>5
  <2>2. s.pc \notin {"restat", "settle", "join", "lookup", "done"}
    BY <1>1, <1>2
  <2> QED BY <1>2, <1>3, <1>4, <1>5, <1>8, <1>9, <1>11, <2>1, <2>2, CacheFresh
<1> QED BY <1>12

LEMMA InvalidateFresh ==
  ASSUME NEW f \in Files, InvA(f), NEW E \in [Requests -> Nat], InvB(E, f), NEW r \in Requests, Invalidate(r)
  PROVE  InvB(E, f)'
<1> DEFINE s == [req[r] EXCEPT !.pc = "unlock"]
<1>1. s.pc = "unlock" /\ s.holds = req[r].holds /\ s.own = req[r].own /\ req' = [req EXCEPT ![r] = s]
  BY FreshFacts DEF Invalidate, Goto, Request
<1>2. /\ UNCHANGED <<corpus, mode, need, asked, skipped, answer, obj>> /\ entry' = Nil /\ valid' \subseteq valid
      /\ floor' = Uses(r).v /\ req[r].pc = "invalidate"
  BY DEF Invalidate
<1>3. floor'[f] = file.v[f]
  BY <1>2, FreshFacts DEF ReqInv, LockInv
<1>4. obj' \in [Requests -> Index] /\ Told(E, E, f)
  BY <1>2, <1>3, FreshFacts, ToldSame
<1>5. \A o \in Requests : obj'[o].v[f] >= obj[o].v[f]
  BY <1>2, FreshFacts
<1>6. /\ req[r].holds # Nil => obj'[req[r].holds].v[f] >= E[r]
      /\ req[r].own # Nil => req[r].own.v[f] >= E[r]
  BY <1>2, FreshFacts DEF Fresh
<1>7. mode[r].refresh /\ f \notin skipped'[r] =>
        IF s.own # Nil THEN s.own.v[f] >= asked[r][f] ELSE obj'[s.holds].v[f] >= asked[r][f]
  BY <1>1, <1>2, FreshFacts DEF Fresh, Uses
<1>8. \A q \in Requests \ {r} : skipped'[q] = skipped[q]
  BY <1>2
<1> HIDE DEF s
<1> QED BY <1>1, <1>2, <1>4, <1>5, <1>6, <1>7, <1>8, CacheFresh

LEMMA ParseFresh ==
  ASSUME NEW f \in Files, InvA(f), NEW E \in [Requests -> Nat], InvB(E, f), NEW r \in Requests, Parse(r)
  PROVE  InvB(E, f)'
<1> DEFINE s == [req[r] EXCEPT !.pc = "restat"]
<1>1. /\ s.pc = "restat" /\ s.holds = req[r].holds /\ s.own = req[r].own /\ s.base = req[r].base
      /\ req' = [req EXCEPT ![r] = s]
  BY FreshFacts DEF Parse, Goto, Request
<1>2. s.holds = Nil /\ s.own = Nil /\ req[r].pc \in Loading
  BY <1>1, FreshFacts DEF Parse, ReqInv, HoldInv, Loading
<1> HIDE DEF s
<1>3. req'[r] = s /\ \A q \in Requests : q # r => req'[q] = req[q]
  BY <1>1, ReqFacts
<1>4. /\ UNCHANGED <<corpus, mode, floor, need, asked, skipped, answer, entry, valid>>
      /\ obj' = [obj EXCEPT ![r] = OnDisk] /\ OnDisk \in Index /\ OnDisk.v[f] = file.v[f]
  BY ReqFacts DEF Parse, told
<1>5. /\ obj' \in [Requests -> Index] /\ obj'[r].v[f] = file.v[f]
      /\ \A q \in Requests : q # r => obj'[q] = obj[q]
  BY <1>4, FreshFacts
<1>6. \A o \in Requests : \/ obj'[o].v[f] >= obj[o].v[f]
                          \/ req[o].pc \in Loading /\ obj'[o].v[f] >= floor[f]
  BY <1>2, <1>5, FreshFacts
<1>7. /\ corpus'[f] \in Nat /\ corpus'[f] >= corpus[f] /\ valid' \subseteq Requests
      /\ obj'[r].v[f] >= floor[f] /\ obj'[r].v[f] >= E[r]
  BY <1>4, <1>5, FreshFacts
<1>8. \A o \in valid' : req'[o].pc \in {"restat", "settle"} =>
        \/ obj'[o].v[f] >= floor[f]
        \/ o \in valid /\ req[o].pc \in {"restat", "settle"} /\ req'[o].base = req[o].base
  BY <1>3, <1>4, <1>7
<1>9. Told(E, E, f)
  BY <1>4, FreshFacts, ToldSame
<1>10. ASSUME NEW q \in Requests \ {r}
       PROVE  Fresh(E, q, f)'
  <2>1. /\ req'[q] = req[q] /\ asked'[q] = asked[q] /\ skipped'[q] = skipped[q] /\ answer'[q] = answer[q]
        /\ (q \in valid' => q \in valid) /\ mode' = mode /\ entry' = entry
    BY <1>3, <1>4
  <2> QED BY <1>5, <1>6, <1>7, <1>8, <1>9, <2>1, FreshOthers
<1>11. Fresh(E, r, f)'
  <2>1. Fresh(E, r, f)
    BY FreshFacts
  <2> QED BY <1>1, <1>2, <1>3, <1>4, <1>7, <2>1 DEF Fresh
<1> QED BY <1>10, <1>11 DEF InvB

\* The corpus grows, entries go, and other processes save what they like.
LEMMA WorldFresh ==
  ASSUME NEW f \in Files, InvA(f), NEW E \in [Requests -> Nat], InvB(E, f), Edit \/ ExternalSave \/ Evict
  PROVE  \E F \in [Requests -> Nat] : InvB(F, f)'
<1>1. /\ corpus \in Versions /\ corpus[f] \in Nat /\ floor[f] \in Nat /\ valid \subseteq Requests
      /\ obj \in [Requests -> Index] /\ \A o \in Requests : obj[o].v[f] \in Nat
  <2>1. corpus \in [Files -> 1 .. MaxEdits + 1] /\ floor \in Versions
    BY DEF InvA, TypeOK
  <2>2. obj \in [Requests -> Index] /\ valid \subseteq Requests
    BY DEF InvA, TypeOK
  <2> QED BY <2>1, <2>2, LexicalAssumption, IndexFacts, VersionsFacts DEF Versions
<1>2. UNCHANGED <<obj, valid, mode, req, asked, skipped, answer>> /\ (entry' = entry \/ entry' = Nil)
  BY DEF Edit, ExternalSave, Evict, cache, told
<1>3. corpus'[f] \in Nat /\ corpus'[f] >= corpus[f]
  <2>1. CASE Edit
    <3>1. PICK g \in Files : corpus' = [corpus EXCEPT ![g] = @ + 1]
      BY <2>1 DEF Edit
    <3>2. corpus'[f] = IF f = g THEN corpus[f] + 1 ELSE corpus[f]
      BY <1>1, <3>1 DEF Versions
    <3> QED BY <1>1, <3>2
  <2>2. CASE ExternalSave \/ Evict
    BY <1>1, <2>2 DEF ExternalSave, Evict
  <2> QED BY <2>1, <2>2
<1>4. \E F \in [Requests -> Nat] : Told(E, F, f)
  <2>1. CASE Edit \/ Evict
    <3>1. floor' = floor /\ need' = need
      BY <2>1 DEF Edit, Evict, told
    <3> QED BY <1>1, <3>1, ToldSame
  <2>2. CASE ExternalSave
    BY <2>2, ExternalSaveFacts, ToldLower
  <2> QED BY <2>1, <2>2
<1>5. PICK F \in [Requests -> Nat] : Told(E, F, f)
  BY <1>4
<1>6. ASSUME NEW q \in Requests
      PROVE  Fresh(F, q, f)'
  <2>1. \A o \in Requests : obj'[o].v[f] >= obj[o].v[f]
    BY <1>1, <1>2
  <2>2. \A o \in valid' : req'[o].pc \in {"restat", "settle"} =>
          o \in valid /\ req[o].pc \in {"restat", "settle"} /\ req'[o].base = req[o].base
    BY <1>2
  <2>3. req'[q] = req[q] /\ asked'[q] = asked[q] /\ skipped'[q] = skipped[q] /\ answer'[q] = answer[q]
        /\ (q \in valid' => q \in valid) /\ valid' \subseteq Requests /\ obj' \in [Requests -> Index]
        /\ mode' = mode
    BY <1>1, <1>2
  <2> QED BY <1>2, <1>3, <1>5, <2>1, <2>2, <2>3, FreshOthers
<1> QED BY <1>6 DEF InvB

\* Two bounds are equal but for those that a step raises.
LEMMA Raised ==
  ASSUME NEW f \in Files, InvA(f), NEW E \in [Requests -> Nat], NEW F \in [Requests -> Nat], NEW r \in Requests,
         Fresh(E, r, f), F[r] = E[r], \A q \in Requests : F[q] >= E[q]
  PROVE  Fresh(F, r, f)
<1>1. req[r].pc = "join" => req[r].awaits \in Requests
  BY ReqFacts DEF ReqInv, HoldInv, Request
<1>2. req[r].pc = "join" => F[r] <= F[req[r].awaits]
  <2>1. req[r].pc = "join" => E[r] <= E[req[r].awaits] /\ F[req[r].awaits] >= E[req[r].awaits]
    BY <1>1 DEF Fresh
  <2> QED BY <1>1, <2>1
<1> QED BY <1>2 DEF Fresh

\* A request that is called counts on what the cache has been told of by now.
LEMMA CallFresh ==
  ASSUME NEW f \in Files, InvA(f), NEW E \in [Requests -> Nat], InvB(E, f), NEW r \in Requests, Call(r)
  PROVE  \E F \in [Requests -> Nat] : InvB(F, f)'
<1>1. PICK F \in [Requests -> Nat] : F[r] = floor[f] /\ \A q \in Requests : q # r => F[q] = E[q]
  <2> DEFINE F == [E EXCEPT ![r] = floor[f]]
  <2>1. F \in [Requests -> Nat] /\ F[r] = floor[f] /\ \A q \in Requests : q # r => F[q] = E[q]
    BY FreshFacts
  <2> HIDE DEF F
  <2> QED BY <2>1
<1> DEFINE s == [req[r] EXCEPT !.pc = "stat"]
<1>2. \A q \in Requests : F[q] >= E[q]
  <2> SUFFICES ASSUME NEW q \in Requests PROVE F[q] >= E[q]
    OBVIOUS
  <2>1. floor[f] >= E[r] /\ E[q] \in Nat
    BY FreshFacts
  <2>2. CASE q = r
    BY <1>1, <2>1, <2>2
  <2>3. CASE q # r
    BY <1>1, <2>1, <2>3
  <2> QED BY <2>2, <2>3
<1>3. /\ s.pc = "stat" /\ s.holds = req[r].holds /\ s.own = req[r].own /\ req' = [req EXCEPT ![r] = s]
  BY FreshFacts DEF Call, Goto, Request
<1>4. req[r].pc = "new" /\ s.holds = Nil /\ s.own = Nil
  BY <1>3, FreshFacts DEF Call, ReqInv, HoldInv, Loading
<1> HIDE DEF s
<1>5. req'[r] = s /\ \A q \in Requests : q # r => req'[q] = req[q]
  BY <1>3, ReqFacts
<1>6. /\ corpus' = corpus /\ mode' = mode /\ floor' = floor /\ skipped' = skipped /\ answer' = answer
      /\ entry' = entry /\ valid' = valid /\ obj' = obj
  BY DEF Call, cache
<1>7. /\ need'[r] = floor /\ asked'[r] \in {corpus, Nothing}
      /\ \A q \in Requests : q # r => need'[q] = need[q] /\ asked'[q] = asked[q]
  BY FreshFacts DEF Call, ToldOK
<1>8. ASSUME NEW q \in Requests \ {r}
      PROVE  Fresh(F, q, f)'
  <2>1. Fresh(F, q, f)
    BY <1>1, <1>2, Raised DEF InvB
  <2>2. req'[q] = req[q] /\ need'[q] = need[q] /\ asked'[q] = asked[q] /\ valid \subseteq Requests
    BY <1>5, <1>7 DEF InvA, TypeOK
  <2>3. req[q].pc = "lookup" =>
          \A o \in valid : req'[o].pc \in {"restat", "settle"} /\ req'[o].base >= req[q].seen => obj[o].v[f] >= F[q]
    BY <1>3, <1>5, <2>1, <2>2 DEF Fresh
  <2>4. Hit(q)' = Hit(q) /\ Uses(q)' = Uses(q)
    BY <1>6, <2>2 DEF Hit, Uses
  <2> QED BY <1>6, <2>1, <2>2, <2>3, <2>4 DEF Fresh
<1>9. Fresh(F, r, f)'
  <2>1. F[r] <= floor[f] /\ need'[r][f] <= F[r] /\ asked'[r][f] <= corpus[f]
    <3>1. floor[f] \in Nat /\ corpus[f] \in Nat /\ Nothing[f] = 0
      BY FreshFacts DEF Nothing
    <3> QED BY <1>1, <1>7, <3>1
  <2> QED BY <1>3, <1>4, <1>5, <1>6, <2>1 DEF Fresh
<1> QED BY <1>8, <1>9 DEF InvB

\* The owner of a parse that others join counts on what they count on.
LEMMA LookupJoinsFresh ==
  ASSUME NEW f \in Files, InvA(f), NEW E \in [Requests -> Nat], InvB(E, f), NEW r \in Requests, LookupJoins(r)
  PROVE  \E F \in [Requests -> Nat] : InvB(F, f)'
<1> DEFINE o == inFlight.owner
           s == [req[r] EXCEPT !.pc = "join", !.awaits = o]
<1>1. /\ o \in Requests /\ o \in valid /\ inFlight # Nil /\ inFlight.stamp = req[r].seen
      /\ req[r].pc = "lookup" /\ inFlight.stamp \in Nat
  BY DEF LookupJoins, Pending, InvA, TypeOK, FlightInv
<1>2. /\ req[o].pc \in {"parse", "restat", "settle"} /\ inFlight.stamp <= req[o].base
      /\ req[o].holds = Nil /\ req[o].own = Nil /\ req[o].base \in Nat /\ o # r
  BY <1>1, FreshFacts DEF ReqInv, HoldInv, ParseInv, Loading, Request
<1>3. /\ s \in Request /\ s.pc = "join" /\ s.awaits = o /\ s.holds = req[r].holds /\ s.own = req[r].own
      /\ req' = [req EXCEPT ![r] = s]
  <2>1. req' = [req EXCEPT ![r] = s]
    BY DEF LookupJoins
  <2>2. req[r] \in Request
    BY FreshFacts
  <2>3. s \in Request /\ s.pc = "join" /\ s.awaits = o /\ s.holds = req[r].holds /\ s.own = req[r].own
    BY <1>1, <2>2 DEF Request
  <2> QED BY <2>1, <2>3
<1>4. s.holds = Nil /\ s.own = Nil
  BY <1>1, <1>3, FreshFacts DEF ReqInv, HoldInv, Loading
<1>5. UNCHANGED <<corpus, file, cache, mode, floor, need, asked, skipped, answer>>
  BY DEF LookupJoins, told
<1>6. PICK F \in [Requests -> Nat] :
        /\ F[o] >= E[r] /\ F[o] \in {E[o], E[r]} /\ F[r] = E[r]
        /\ \A q \in Requests : F[q] >= E[q] /\ (q # o => F[q] = E[q])
  <2> DEFINE F == [E EXCEPT ![o] = IF E[o] >= E[r] THEN E[o] ELSE E[r]]
  <2>1. /\ F \in [Requests -> Nat] /\ F[o] >= E[r] /\ F[o] \in {E[o], E[r]} /\ F[r] = E[r]
        /\ \A q \in Requests : F[q] >= E[q] /\ (q # o => F[q] = E[q])
    BY <1>1, <1>2, FreshFacts
  <2> HIDE DEF F
  <2> QED BY <2>1
<1> HIDE DEF s, o
<1>7. ASSUME NEW q \in Requests \ {o}
      PROVE  Fresh(F, q, f)
  BY <1>6, Raised DEF InvB
<1>8. Fresh(F, o, f)
  <2>1. Fresh(E, o, f) /\ Fresh(E, r, f) /\ E[o] \in Nat /\ E[r] \in Nat /\ floor[f] \in Nat
    BY <1>1, FreshFacts
  <2>2. F[o] <= floor[f] /\ need[o][f] <= F[o]
    <3>1. E[o] <= floor[f] /\ E[r] <= floor[f] /\ need[o][f] <= E[o] /\ need[o][f] \in Nat
          /\ F[o] >= E[o] /\ F[o] \in Nat
      BY <1>1, <1>6, <2>1, FreshFacts
    <3> QED BY <1>6, <2>1, <3>1
  <2>3. req[o].pc \in {"restat", "settle"} => obj[o].v[f] >= E[o] /\ obj[o].v[f] >= E[r]
    BY <1>1, <1>2, <2>1 DEF Fresh
  <2>4. req[o].pc \in {"restat", "settle"} => obj[o].v[f] >= F[o]
    BY <1>6, <2>3
  <2> QED BY <1>2, <2>1, <2>2, <2>4 DEF Fresh
<1>9. InvB(F, f)
  BY <1>7, <1>8 DEF InvB
<1>10. F[r] <= F[s.awaits]
  BY <1>3, <1>6
<1>11. InvB(F, f)'
  BY <1>3, <1>4, <1>5, <1>6, <1>9, <1>10, PlainFresh
<1> QED BY <1>6, <1>11

LEMMA InvABInit == ASSUME NEW f \in Files PROVE Init => InvAB(f)
<1> SUFFICES ASSUME Init PROVE InvAB(f)
  OBVIOUS
<1> DEFINE zero == [r \in Requests |-> 0]
<1>1. zero \in [Requests -> Nat] /\ \A r \in Requests : zero[r] = 0
  OBVIOUS
<1>2. InvA(f)
  BY InvAInit
<1>3. floor[f] \in Nat /\ valid = {} /\ corpus[f] = 1
  <2>1. floor[f] \in Nat
    BY <1>2, VersionsFacts DEF InvA, TypeOK
  <2> QED BY <2>1 DEF Init, Unused
<1>4. \A r \in Requests : /\ req[r].pc = "new" /\ req[r].holds = Nil /\ req[r].own = Nil
                          /\ need[r][f] = 0 /\ asked[r][f] = 0
  BY DEF Init, Unused, NewRequest, Nothing
<1> HIDE DEF zero
<1>5. ASSUME NEW r \in Requests
      PROVE  Fresh(zero, r, f)
  <2>1. zero[r] <= floor[f] /\ need[r][f] <= zero[r] /\ asked[r][f] <= corpus[f]
    BY <1>1, <1>3, <1>4
  <2> QED BY <1>3, <1>4, <2>1 DEF Fresh
<1> QED BY <1>1, <1>2, <1>5 DEF InvAB, InvB

LEMMA InductiveAB == ASSUME NEW f \in Files PROVE InvAB(f) /\ [Next]_vars => InvAB(f)'
<1> SUFFICES ASSUME InvA(f), NEW E \in [Requests -> Nat], InvB(E, f), [Next]_vars
             PROVE  \E F \in [Requests -> Nat] : InvB(F, f)'
  <2>1. ASSUME InvAB(f), [Next]_vars PROVE InvA(f)'
    BY <2>1, InductiveA DEF InvAB
  <2> QED BY <2>1 DEF InvAB
<1>1. CASE UNCHANGED vars
  <2>1. /\ corpus' = corpus /\ obj' = obj /\ entry' = entry /\ valid' = valid /\ mode' = mode /\ req' = req
        /\ floor' = floor /\ need' = need /\ asked' = asked /\ skipped' = skipped /\ answer' = answer
    BY <1>1 DEF vars
  <2>2. InvB(E, f)'
    BY <2>1 DEF InvB, Fresh, Hit, Uses
  <2> QED BY <2>2
<1>2. CASE Edit \/ ExternalSave \/ Evict
  BY <1>2, WorldFresh
<1>3. ASSUME NEW r \in Requests, Call(r) \/ Search(r)
      PROVE  \E F \in [Requests -> Nat] : InvB(F, f)'
  <2>1. CASE Call(r)
    BY <2>1, CallFresh
  <2>2. CASE LookupJoins(r)
    BY <2>2, LookupJoinsFresh
  <2>3. CASE Load(r) /\ ~LookupJoins(r)
    BY <2>3, StatFresh, LookupHitsFresh, LookupParsesFresh, ParseFresh, LoadFailsFresh,
       SettleMovesFresh, SettleFresh, JoinFresh DEF Load
  <2>4. CASE Save(r)
    BY <2>4, SaveFresh
  <2>5. CASE RefreshStep(r) /\ ~Save(r)
    BY <2>5, RefreshStepsFresh, RefreshFresh, RefreshInPlaceFresh, InvalidateFresh DEF RefreshStep
  <2>6. CASE Query(r)
    BY <2>6, QueryFresh
  <2> QED BY <1>3, <2>1, <2>2, <2>3, <2>4, <2>5, <2>6 DEF Search
<1> QED BY <1>1, <1>2, <1>3 DEF Next

InvABAll == \A f \in Files : InvAB(f)

\* A search that succeeds is answered from an index that has, of every file,
\* an entry at least as new as what the cache had been told of when it was
\* called, or as what a save has put in its place since; one that refreshes,
\* from the corpus of when it was called or from a later one, but for the
\* files its refresh went around (runLexicalLeg, the lexical mode of
\* src/cli-search.ts and LexicalIndexCache.load).
THEOREM AnswersNeverGoBack == Spec => []AnswersAreFresh
<1>1. InvABAll => AnswersAreFresh
  BY DEF InvABAll, InvAB, InvB, Fresh, AnswersAreFresh
<1>2. Init => InvABAll
  BY InvABInit DEF InvABAll
<1>3. InvABAll /\ [Next]_vars => InvABAll'
  BY InductiveAB DEF InvABAll
<1> QED BY <1>1, <1>2, <1>3, PTL DEF Spec
=============================================================================
