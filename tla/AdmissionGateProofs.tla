------------------------- MODULE AdmissionGateProofs -------------------------
(***************************************************************************)
(* The daemon's admission gate keeps its account for every number of       *)
(* requests, cap and queue length.  The account is inductive once the      *)
(* queue is known to hold nobody twice.                                    *)
(***************************************************************************)
EXTENDS AdmissionGate, FiniteSetTheorems, TLAPS

Held == In("granted") \cup In("running")

NobodyTwice == \A i, j \in DOMAIN waiters : waiters[i] = waiters[j] => i = j

GateInv == GateConstants /\ TypeOK /\ SlotsAccounted /\ NobodyTwice

\* The sets that are counted are finite, so adding and taking away one request
\* changes their size by one.
LEMMA Sizes ==
  ASSUME GateConstants, NEW S, S \subseteq Requests
  PROVE  /\ IsFiniteSet(S)
         /\ Cardinality(S) \in Nat
         /\ \A r \in Requests \ S : Cardinality(S \cup {r}) = Cardinality(S) + 1
         /\ \A r \in S : Cardinality(S \ {r}) = Cardinality(S) - 1
<1>1. IsFiniteSet(S)
  BY FS_Subset DEF GateConstants
<1>2. \A r \in Requests \ S : Cardinality(S \cup {r}) = Cardinality(S) + 1
  BY <1>1, FS_AddElement
<1>3. \A r \in S : Cardinality(S \ {r}) = Cardinality(S) - 1
  BY <1>1, FS_RemoveElement
<1>4. QED
  BY <1>1, <1>2, <1>3, FS_CardinalityType

LEMMA InitGate ==
  ASSUME GateConstants, Init
  PROVE  GateInv
<1>1. TypeOK
  <2>1. <<>> \in Seq(Requests)
    OBVIOUS
  <2>2. QED
    BY <2>1 DEF Init, TypeOK, Phase
<1>2. Held = {} /\ In("queued") = {}
  BY DEF Init, Held, In
<1>3. SlotsAccounted
  <2>1. Cardinality({}) = 0
    BY FS_EmptySet
  <2>2. {waiters[i] : i \in DOMAIN waiters} = {}
    BY DEF Init
  <2>3. Len(waiters) = 0
    BY DEF Init
  <2>4. running = 0 /\ waiters = <<>> /\ ~idleWaiting
    BY DEF Init
  <2>5. running <= MaxConcurrency /\ Len(waiters) <= QueueMax
    BY <2>3, <2>4 DEF GateConstants
  <2>6. running = Cardinality(Held) /\ Len(waiters) = Cardinality(In("queued"))
    BY <1>2, <2>1, <2>3, <2>4
  <2>7. QED
    BY <1>2, <2>2, <2>4, <2>5, <2>6 DEF SlotsAccounted, Held
<1>4. NobodyTwice
  BY DEF Init, NobodyTwice
<1>5. QED
  BY <1>1, <1>3, <1>4 DEF GateInv

LEMMA RunTakesSlot ==
  ASSUME GateInv, NEW r \in Requests, Run(r), running < MaxConcurrency
  PROVE  GateInv'
<1> USE DEF GateInv, GateConstants
<1>1. waiters = <<>>
  BY DEF SlotsAccounted, TypeOK
<1>2. /\ running' = running + 1
      /\ phase' = [phase EXCEPT ![r] = "granted"]
      /\ UNCHANGED <<waiters, closed, idleWaiting>>
      /\ phase[r] = "out"
  BY DEF Run, TypeOK
<1>3. TypeOK'
  BY <1>2 DEF TypeOK, Phase
<1>4. Held' = Held \cup {r} /\ r \notin Held /\ In("queued")' = In("queued")
  BY <1>2 DEF Held, In, TypeOK
<1>5. Cardinality(Held') = Cardinality(Held) + 1
  BY <1>4, Sizes, Held \subseteq Requests DEF Held, In
<1>6. SlotsAccounted'
  BY <1>1, <1>2, <1>4, <1>5 DEF SlotsAccounted, Held, InFlight, TypeOK
<1>7. NobodyTwice'
  BY <1>2 DEF NobodyTwice
<1>8. QED
  BY <1>3, <1>6, <1>7

LEMMA RunQueues ==
  ASSUME GateInv, NEW r \in Requests, Run(r), running >= MaxConcurrency
  PROVE  GateInv'
<1> USE DEF GateInv, GateConstants
<1>1. /\ waiters' = Append(waiters, r)
      /\ phase' = [phase EXCEPT ![r] = "queued"]
      /\ UNCHANGED <<running, closed, idleWaiting>>
      /\ phase[r] = "out"
      /\ Len(waiters) < QueueMax
  BY DEF Run, Full, TypeOK
<1>2. TypeOK'
  BY <1>1 DEF TypeOK, Phase
<1>3. Held' = Held /\ In("queued")' = In("queued") \cup {r} /\ r \notin In("queued")
  BY <1>1 DEF Held, In, TypeOK
<1>4. Cardinality(In("queued")') = Cardinality(In("queued")) + 1
  BY <1>3, Sizes, In("queued") \subseteq Requests DEF In
<1>5. /\ Len(waiters') = Len(waiters) + 1
      /\ \A i \in DOMAIN waiters : waiters'[i] = waiters[i]
      /\ waiters'[Len(waiters) + 1] = r
      /\ DOMAIN waiters = 1..Len(waiters)
      /\ DOMAIN waiters' = 1..(Len(waiters) + 1)
  BY <1>1 DEF TypeOK
<1>6. {waiters'[i] : i \in DOMAIN waiters'} = {waiters[i] : i \in DOMAIN waiters} \cup {r}
  BY <1>5, Len(waiters) \in Nat DEF TypeOK
<1>7. running = MaxConcurrency
  BY DEF SlotsAccounted, TypeOK
<1>8. SlotsAccounted'
  <2>1. running' = Cardinality(Held')
    BY <1>1, <1>3 DEF SlotsAccounted, Held
  <2>2. {waiters'[i] : i \in DOMAIN waiters'} = In("queued")'
    BY <1>3, <1>6 DEF SlotsAccounted
  <2>3. Len(waiters') = Cardinality(In("queued")') /\ Len(waiters') <= QueueMax
    BY <1>1, <1>4, <1>5 DEF SlotsAccounted, TypeOK
  <2>4. InFlight' > 0
    BY <1>1, <1>5, <1>7 DEF InFlight, TypeOK
  <2>5. QED
    BY <1>1, <1>7, <2>1, <2>2, <2>3, <2>4 DEF SlotsAccounted, Held
<1>9. NobodyTwice'
  <2>1. \A i \in DOMAIN waiters : waiters[i] # r
    BY <1>3 DEF SlotsAccounted
  <2>2. QED
    BY <2>1, <1>5, Len(waiters) \in Nat DEF NobodyTwice, TypeOK
<1>10. QED
  BY <1>2, <1>8, <1>9

LEMMA SettleHandsOver ==
  ASSUME GateInv, NEW r \in Requests, Settle(r), waiters # <<>>
  PROVE  GateInv'
<1> USE DEF GateInv, GateConstants
<1> DEFINE h == Head(waiters)
<1>1. /\ waiters' = Tail(waiters)
      /\ phase' = [phase EXCEPT ![r] = "out", ![h] = "granted"]
      /\ UNCHANGED <<running, closed, idleWaiting>>
      /\ phase[r] = "running"
  BY DEF Settle
<1>2. /\ Len(waiters) \in Nat \ {0}
      /\ DOMAIN waiters = 1..Len(waiters)
      /\ Len(waiters') = Len(waiters) - 1
      /\ DOMAIN waiters' = 1..(Len(waiters) - 1)
      /\ \A i \in DOMAIN waiters' : waiters'[i] = waiters[i + 1]
      /\ h = waiters[1]
      /\ waiters' \in Seq(Requests)
  BY <1>1 DEF TypeOK
<1>3. h \in In("queued")
  BY <1>2 DEF SlotsAccounted
<1>4. h \in Requests /\ phase[h] = "queued" /\ h # r
  BY <1>1, <1>3 DEF In
<1>5. TypeOK'
  BY <1>1, <1>2, <1>4 DEF TypeOK, Phase
<1>6. /\ Held' = (Held \ {r}) \cup {h}
      /\ r \in Held /\ h \notin Held \ {r}
      /\ In("queued")' = In("queued") \ {h}
  BY <1>1, <1>4 DEF Held, In, TypeOK
<1>7. Cardinality(Held') = Cardinality(Held)
  <2>1. Held \subseteq Requests /\ Held \ {r} \subseteq Requests
    BY DEF Held, In
  <2>2. Cardinality(Held \ {r}) = Cardinality(Held) - 1 /\ Cardinality(Held) \in Nat
    BY <2>1, <1>6, Sizes
  <2>3. Cardinality(Held') = Cardinality(Held \ {r}) + 1
    BY <2>1, <1>4, <1>6, Sizes
  <2>4. QED
    BY <2>2, <2>3
<1>8. Cardinality(In("queued")') = Cardinality(In("queued")) - 1
  BY <1>3, <1>6, Sizes, In("queued") \subseteq Requests DEF In
<1>9. {waiters'[i] : i \in DOMAIN waiters'} = {waiters[i] : i \in DOMAIN waiters} \ {h}
  <2>1. ASSUME NEW i \in DOMAIN waiters'
        PROVE  waiters'[i] \in {waiters[j] : j \in DOMAIN waiters} \ {h}
    BY <1>2 DEF NobodyTwice
  <2>2. ASSUME NEW j \in DOMAIN waiters, waiters[j] # h
        PROVE  waiters[j] \in {waiters'[i] : i \in DOMAIN waiters'}
    <3>1. j - 1 \in DOMAIN waiters' /\ waiters'[j - 1] = waiters[j]
      BY <1>2, <2>2
    <3>2. QED
      BY <3>1
  <2>3. QED
    BY <2>1, <2>2
<1>10. running = MaxConcurrency
  BY DEF SlotsAccounted
<1>11. SlotsAccounted'
  <2>1. running' = Cardinality(Held')
    BY <1>1, <1>7 DEF SlotsAccounted, Held
  <2>2. {waiters'[i] : i \in DOMAIN waiters'} = In("queued")'
    BY <1>6, <1>9 DEF SlotsAccounted
  <2>3. Len(waiters') = Cardinality(In("queued")') /\ Len(waiters') <= QueueMax
    BY <1>2, <1>8 DEF SlotsAccounted
  <2>4. InFlight' > 0
    BY <1>1, <1>2, <1>10 DEF InFlight
  <2>5. QED
    BY <1>1, <1>10, <2>1, <2>2, <2>3, <2>4 DEF SlotsAccounted, Held
<1>12. NobodyTwice'
  BY <1>2 DEF NobodyTwice
<1>13. QED
  BY <1>5, <1>11, <1>12

LEMMA SettleLast ==
  ASSUME GateInv, NEW r \in Requests, Settle(r), waiters = <<>>
  PROVE  GateInv'
<1> USE DEF GateInv, GateConstants
<1>1. /\ running' = running - 1
      /\ phase' = [phase EXCEPT ![r] = "out"]
      /\ idleWaiting' = (idleWaiting /\ running' > 0)
      /\ UNCHANGED <<waiters, closed>>
      /\ phase[r] = "running"
  BY DEF Settle
<1>2. Held' = Held \ {r} /\ r \in Held /\ In("queued")' = In("queued")
  BY <1>1 DEF Held, In, TypeOK
<1>3. Cardinality(Held') = Cardinality(Held) - 1 /\ Cardinality(Held') \in Nat
  BY <1>2, Sizes, Held \subseteq Requests DEF Held, In
<1>4. running' \in Nat
  BY <1>1, <1>3 DEF SlotsAccounted, Held, TypeOK
<1>5. TypeOK'
  BY <1>1, <1>4 DEF TypeOK, Phase
<1>6. SlotsAccounted'
  <2>1. running' = Cardinality(Held') /\ running' <= MaxConcurrency
    BY <1>1, <1>3 DEF SlotsAccounted, Held, TypeOK
  <2>2. /\ {waiters'[i] : i \in DOMAIN waiters'} = In("queued")'
        /\ Len(waiters') = Cardinality(In("queued")')
        /\ Len(waiters') <= QueueMax
    BY <1>1, <1>2 DEF SlotsAccounted
  <2>3. Len(waiters') = 0 /\ waiters' = <<>>
    BY <1>1
  <2>4. idleWaiting' => InFlight' > 0
    <3>1. idleWaiting' => running' > 0
      BY <1>1, Zenon
    <3>2. running' = running - 1 /\ running \in Nat /\ Len(waiters') = 0
      BY <1>1, <2>3 DEF TypeOK
    <3>3. InFlight' = running' + Len(waiters')
      BY DEF InFlight
    <3>4. QED
      BY <3>1, <3>2, <3>3
  <2>5. QED
    BY <2>1, <2>2, <2>3, <2>4 DEF SlotsAccounted, Held
<1>7. NobodyTwice'
  BY <1>1 DEF NobodyTwice
<1>8. QED
  BY <1>5, <1>6, <1>7

LEMMA StepGate == GateInv /\ [Next]_vars => GateInv'
<1> SUFFICES ASSUME GateInv, [Next]_vars PROVE GateInv'
  OBVIOUS
<1> USE DEF GateInv, GateConstants
<1>1. ASSUME NEW r \in Requests, Run(r) PROVE GateInv'
  BY <1>1, RunTakesSlot, RunQueues DEF TypeOK
<1>2. ASSUME NEW r \in Requests, StartJob(r) PROVE GateInv'
  <2>1. TypeOK' /\ NobodyTwice'
    BY <1>2 DEF StartJob, TypeOK, Phase, NobodyTwice
  <2>2. Held' = Held /\ In("queued")' = In("queued")
    BY <1>2 DEF StartJob, Held, In, TypeOK
  <2>3. SlotsAccounted'
    BY <1>2, <2>2 DEF StartJob, SlotsAccounted, Held, InFlight
  <2>4. QED
    BY <2>1, <2>3
<1>3. ASSUME NEW r \in Requests, Settle(r) PROVE GateInv'
  BY <1>3, SettleHandsOver, SettleLast
<1>4. CASE CloseAndDrain
  <2>1. In("queued")' = In("queued") /\ Held' = Held
    BY <1>4 DEF CloseAndDrain, Held, In
  <2>2. TypeOK' /\ NobodyTwice'
    BY <1>4 DEF CloseAndDrain, TypeOK, NobodyTwice
  <2>3. SlotsAccounted'
    BY <1>4, <2>1 DEF CloseAndDrain, SlotsAccounted, Held, InFlight
  <2>4. QED
    BY <2>2, <2>3
<1>5. CASE UNCHANGED vars
  BY <1>5 DEF vars, TypeOK, SlotsAccounted, NobodyTwice, In, InFlight
<1>6. QED
  BY <1>1, <1>2, <1>3, <1>4, <1>5 DEF Next

\* The account and the types hold throughout (DaemonAdmissionGate).
LEMMA GateInvariance ==
  ASSUME GateConstants
  PROVE  Spec => [](TypeOK /\ SlotsAccounted)
<1>1. Init => GateInv
  BY InitGate
<1>2. GateInv => TypeOK /\ SlotsAccounted
  BY DEF GateInv
<1>3. QED
  BY <1>1, <1>2, StepGate, PTL DEF Spec

\* The gate never exceeds its cap or its queue, loses no slot in a hand-over,
\* lets nobody wait beside a free slot, and always wakes whoever awaits its
\* idleness, for every cap, queue bound and set of requests.
THEOREM GateKeepsAccount ==
  ASSUME GateConstants
  PROVE  Spec => []SlotsAccounted
  BY GateInvariance, PTL
=============================================================================
