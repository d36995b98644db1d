---------------------------- MODULE DaemonProofs ----------------------------
(***************************************************************************)
(* The daemon uses its gate and its breaker as they are meant to be used:  *)
(* every step of the daemon is a step of each or leaves it alone.  What    *)
(* holds of the gate and of the breaker by themselves, for every number of *)
(* requests, cap, queue and threshold, therefore holds in the daemon; and  *)
(* on top of it, a graceful end keeps the answers that clients wait for.   *)
(***************************************************************************)
EXTENDS DaemonProps, FiniteSetTheorems, TLAPS

GateFacts == INSTANCE AdmissionGateProofs

-----------------------------------------------------------------------------
(* The breaker by itself                                                   *)

BreakerInv == Breaker!TypeOK /\ Breaker!NeverStuck

LEMMA InitBreaker ==
  ASSUME Breaker!Init
  PROVE  BreakerInv
<1>1. 0 \in 0..Threshold /\ 0 < Threshold
  BY DaemonAssumption DEF Breaker!BreakerConstants
<1>2. QED
  BY <1>1 DEF Breaker!Init, BreakerInv, Breaker!TypeOK, Breaker!NeverStuck

\* The state of the circuit and its probe agree after every answer, in
\* whatever order the answers of overlapping calls arrive.
LEMMA StepBreaker == BreakerInv /\ [Breaker!Next]_breaker => BreakerInv'
<1> SUFFICES ASSUME BreakerInv, [Breaker!Next]_breaker PROVE BreakerInv'
  OBVIOUS
<1> USE DEF BreakerInv, Breaker!TypeOK, Breaker!NeverStuck
<1>0. Threshold \in Nat \ {0}
  BY DaemonAssumption DEF Breaker!BreakerConstants
<1>1. ASSUME NEW c \in Requests, Breaker!Call(c) PROVE BreakerInv'
  <2>1. CASE circuit = "closed"
    BY <1>1, <2>1 DEF Breaker!Call
  <2>2. CASE circuit # "closed"
    BY <1>1, <2>2 DEF Breaker!Call
  <2>3. QED
    BY <2>1, <2>2
<1>2. ASSUME NEW c \in Requests, Breaker!Success(c) PROVE BreakerInv'
  <2>1. 0 \in 0..Threshold /\ 0 < Threshold
    BY <1>0
  <2>2. QED
    BY <1>2, <2>1 DEF Breaker!Success
<1>3. ASSUME NEW c \in Requests, Breaker!Failure(c) PROVE BreakerInv'
  <2>1. failures' \in 0..Threshold
    BY <1>0, <1>3 DEF Breaker!Failure
  <2>2. CASE circuit = "half-open" \/ failures' >= Threshold
    BY <1>3, <2>1, <2>2 DEF Breaker!Failure
  <2>3. CASE circuit # "half-open" /\ failures' < Threshold
    BY <1>3, <2>1, <2>3 DEF Breaker!Failure
  <2>4. QED
    BY <1>3, <2>2, <2>3 DEF Breaker!Failure
<1>4. CASE Breaker!CoolDown
  BY <1>4 DEF Breaker!CoolDown
<1>5. CASE UNCHANGED breaker
  BY <1>5 DEF breaker
<1>6. QED
  BY <1>1, <1>2, <1>3, <1>4, <1>5 DEF Breaker!Next

\* A half-open circuit of ProviderBreakerRegistry always has a probe in flight,
\* a closed one is below the threshold, and only a half-open one refuses
\* because of a probe: for every threshold and set of overlapping calls.
THEOREM BreakerNeverStuck == Breaker!Spec => []Breaker!NeverStuck
<1>1. BreakerInv => Breaker!NeverStuck
  BY DEF BreakerInv
<1>2. BreakerInv /\ [Breaker!Next]_(Breaker!vars) => BreakerInv'
  BY StepBreaker DEF Breaker!vars, breaker
<1>3. QED
  BY <1>1, <1>2, InitBreaker, PTL DEF Breaker!Spec

-----------------------------------------------------------------------------
(* The daemon's use of both                                                *)

LEMMA StepUsesGate == [Next]_vars => [Gate!Next]_gate
<1> SUFFICES ASSUME [Next]_vars PROVE [Gate!Next]_gate
  OBVIOUS
<1>1. ASSUME NEW r \in Requests, Submit(r) PROVE [Gate!Next]_gate
  BY <1>1 DEF Submit, Gate!Next
<1>2. ASSUME NEW r \in Requests, Begin(r) PROVE [Gate!Next]_gate
  BY <1>2 DEF Begin, Gate!Next
<1>3. ASSUME NEW r \in Requests, Respond(r) PROVE [Gate!Next]_gate
  BY <1>3 DEF Respond, Gate!Next
<1>4. CASE Signal
  BY <1>4 DEF Signal, Gate!Next
<1>5. ASSUME NEW r \in Requests,
             Connect(r) \/ Leave(r) \/ ProviderAnswers(r) \/ ProviderFails(r)
      PROVE  [Gate!Next]_gate
  BY <1>5 DEF Connect, Leave, ProviderAnswers, ProviderFails
<1>6. CASE CoolDown \/ ProviderChanges \/ Drained \/ DrainTimeout
           \/ IdleTimeout \/ Closed \/ ForceExit
  BY <1>6 DEF CoolDown, ProviderChanges, Drained, DrainTimeout, IdleTimeout, Closed, ForceExit
<1>7. CASE UNCHANGED vars
  BY <1>7 DEF vars
<1>8. QED
  BY <1>1, <1>2, <1>3, <1>4, <1>5, <1>6, <1>7 DEF Next

LEMMA StepUsesBreaker == [Next]_vars => [Breaker!Next]_breaker
<1> SUFFICES ASSUME [Next]_vars PROVE [Breaker!Next]_breaker
  OBVIOUS
<1>1. ASSUME NEW r \in Requests, Begin(r) PROVE [Breaker!Next]_breaker
  BY <1>1 DEF Begin, Breaker!Next, Breaker!Refuse, Breaker!vars, breaker
<1>2. ASSUME NEW r \in Requests, ProviderAnswers(r) \/ ProviderFails(r)
      PROVE  [Breaker!Next]_breaker
  BY <1>2 DEF ProviderAnswers, ProviderFails, Breaker!Next
<1>3. CASE CoolDown
  BY <1>3 DEF CoolDown, Breaker!Next
<1>4. ASSUME NEW r \in Requests, Connect(r) \/ Submit(r) \/ Leave(r) \/ Respond(r)
      PROVE  [Breaker!Next]_breaker
  BY <1>4 DEF Connect, Submit, Leave, Respond
<1>5. CASE ProviderChanges \/ Signal \/ Drained \/ DrainTimeout
           \/ IdleTimeout \/ Closed \/ ForceExit
  BY <1>5 DEF ProviderChanges, Signal, Drained, DrainTimeout, IdleTimeout, Closed, ForceExit
<1>6. CASE UNCHANGED vars
  BY <1>6 DEF vars
<1>7. QED
  BY <1>1, <1>2, <1>3, <1>4, <1>5, <1>6 DEF Next

\* The daemon's gate behaves as the gate does by itself.
LEMMA GateInDaemon == Spec => [](Gate!TypeOK /\ Gate!SlotsAccounted)
<1>1. Spec => GateFacts!Spec
  <2>1. Init => GateFacts!Init
    BY DEF Init, Gate!Init, GateFacts!Init
  <2>2. [Next]_vars => [GateFacts!Next]_(GateFacts!vars)
    BY StepUsesGate
       DEF gate, GateFacts!vars, Gate!Next, GateFacts!Next, Gate!Run, GateFacts!Run,
           Gate!StartJob, GateFacts!StartJob, Gate!Settle, GateFacts!Settle,
           Gate!CloseAndDrain, GateFacts!CloseAndDrain, Gate!Full, GateFacts!Full,
           Gate!InFlight, GateFacts!InFlight
  <2>3. QED
    BY <2>1, <2>2, PTL DEF Spec, GateFacts!Spec
<1>2. GateFacts!GateConstants
  BY DaemonAssumption
     DEF Gate!GateConstants, GateFacts!GateConstants, Gate!IsFiniteSet, GateFacts!IsFiniteSet
<1>3. GateFacts!Spec => [](GateFacts!TypeOK /\ GateFacts!SlotsAccounted)
  BY <1>2, GateFacts!GateInvariance
<1>4. GateFacts!SlotsAccounted <=> Gate!SlotsAccounted
  BY DEF Gate!SlotsAccounted, GateFacts!SlotsAccounted,
         Gate!In, GateFacts!In, Gate!InFlight, GateFacts!InFlight,
         Gate!Cardinality, GateFacts!Cardinality
<1>5. GateFacts!TypeOK <=> Gate!TypeOK
  BY DEF Gate!TypeOK, GateFacts!TypeOK, Gate!Phase, GateFacts!Phase
<1>6. QED
  BY <1>1, <1>3, <1>4, <1>5, PTL

\* In the daemon, with every signal, timer, client and provider failure in
\* between, the gate's account of its slots stays right.
THEOREM DaemonKeepsAccount == Spec => []SlotsAccounted
<1>1. Gate!SlotsAccounted => SlotsAccounted
  BY DEF SlotsAccounted
<1>2. QED
  BY <1>1, GateInDaemon, PTL

\* The daemon's breaker behaves as the breaker does by itself.
LEMMA BreakerInDaemon == Spec => []BreakerInv
<1>1. Init => BreakerInv
  BY InitBreaker DEF Init
<1>2. BreakerInv /\ [Next]_vars => BreakerInv'
  BY StepUsesBreaker, StepBreaker
<1>3. QED
  BY <1>1, <1>2, PTL DEF Spec

\* In the daemon the breaker never gets stuck.
THEOREM DaemonNeverStuck == Spec => []NeverStuck
<1>1. BreakerInv => NeverStuck
  BY DEF BreakerInv, NeverStuck
<1>2. QED
  BY <1>1, BreakerInDaemon, PTL

-----------------------------------------------------------------------------
(* The end of the daemon                                                   *)

\* The server's own state is of its kind.
ServerTypes ==
  /\ healthy \in BOOLEAN
  /\ conn \in [Requests -> Conn]
  /\ listener \in Listener
  /\ drain \in Drain

\* The gate is closed by the drain and by nothing else; once it is closed and
\* nobody awaits its idleness, no request is left in it; only a drain that has
\* ended stops the listener.
DrainInv ==
  /\ closed <=> drain # "no"
  /\ closed /\ ~idleWaiting => Gate!InFlight = 0
  /\ drain = "drained" => ~idleWaiting
  /\ listener = "stopping" => drain \in {"drained", "timedOut"}

\* A client that waits for an answer has its request in the gate, and a daemon
\* that runs.
ClientInv ==
  \A r \in Requests :
    conn[r] = "open" => phase[r] # "out" /\ listener # "exited"

DaemonInv == ServerTypes /\ DrainInv /\ ClientInv

GateInv == Gate!TypeOK /\ Gate!SlotsAccounted

\* A gate that has nothing in flight has no request in it.
LEMMA IdleGateIsEmpty ==
  ASSUME GateInv, Gate!InFlight = 0
  PROVE  \A r \in Requests : phase[r] = "out"
<1> DEFINE held == Gate!In("granted") \cup Gate!In("running")
           queued == Gate!In("queued")
<1>1. running \in Nat /\ waiters \in Seq(Requests) /\ Len(waiters) \in Nat
  BY DEF GateInv, Gate!TypeOK
<1>2. running = 0 /\ Len(waiters) = 0
  BY <1>1 DEF Gate!InFlight
<1>3. IsFiniteSet(held) /\ IsFiniteSet(queued)
  <2>1. held \subseteq Requests /\ queued \subseteq Requests
    BY DEF Gate!In
  <2>2. IsFiniteSet(Requests)
    BY DaemonAssumption DEF Gate!GateConstants, Gate!IsFiniteSet, IsFiniteSet
  <2> QED BY <2>1, <2>2, FS_Subset
<1>4. Cardinality(held) = 0 /\ Cardinality(queued) = 0
  BY <1>2 DEF GateInv, Gate!SlotsAccounted, Gate!Cardinality, Cardinality
<1>5. held = {} /\ queued = {}
  BY <1>3, <1>4, FS_EmptySet
<1> QED BY <1>5 DEF GateInv, Gate!TypeOK, Gate!Phase, Gate!In

LEMMA DaemonInvInit == Init => DaemonInv
BY DEF Init, Gate!Init, Breaker!Init, DaemonInv, ServerTypes, DrainInv, ClientInv,
       Conn, Listener, Drain

LEMMA DaemonInvStep == DaemonInv /\ GateInv /\ [Next]_vars => DaemonInv'
<1> SUFFICES ASSUME DaemonInv, GateInv, [Next]_vars PROVE DaemonInv'
  OBVIOUS
<1> USE DEF DaemonInv
<1> DEFINE Set(r, c) == conn' = [conn EXCEPT ![r] = c]
<1>0. conn \in [Requests -> Conn] /\ running \in Nat /\ Len(waiters) \in Nat
      /\ phase \in [Requests -> Gate!Phase] /\ closed \in BOOLEAN /\ idleWaiting \in BOOLEAN
  BY DEF ServerTypes, GateInv, Gate!TypeOK
<1>1. ASSUME NEW r \in Requests, Connect(r) PROVE DaemonInv'
  BY <1>0, <1>1 DEF Connect, Become, ServerTypes, DrainInv, ClientInv, Conn, gate, Gate!InFlight
<1>2. ASSUME NEW r \in Requests, Submit(r) PROVE DaemonInv'
  <2>1. CASE conn' = [conn EXCEPT ![r] = "none"] /\ UNCHANGED gate
    BY <1>0, <1>2, <2>1 DEF Submit, ServerTypes, DrainInv, ClientInv, Conn, gate, Gate!InFlight
  <2>2. CASE ~closed /\ conn' = [conn EXCEPT ![r] = "open"] /\ Gate!Run(r)
    <3>1. /\ closed' = closed
          /\ idleWaiting' = idleWaiting
          /\ phase'[r] # "out"
          /\ \A q \in Requests : q # r => phase'[q] = phase[q]
      BY <1>0, <2>2 DEF Gate!Run
    <3> QED BY <1>0, <1>2, <2>2, <3>1 DEF Submit, ServerTypes, DrainInv, ClientInv, Conn, Alive
  <2> QED BY <1>2, <2>1, <2>2 DEF Submit, Become, Conclude
<1>3. ASSUME NEW r \in Requests, Leave(r) PROVE DaemonInv'
  BY <1>0, <1>3 DEF Leave, Conclude, Become, ServerTypes, DrainInv, ClientInv, Conn, gate, Gate!InFlight
<1>4. ASSUME NEW r \in Requests, Begin(r) PROVE DaemonInv'
  BY <1>0, <1>4 DEF Begin, Gate!StartJob, ServerTypes, DrainInv, ClientInv, Gate!InFlight, Gate!Phase
<1>5. ASSUME NEW r \in Requests, ProviderAnswers(r) \/ ProviderFails(r) PROVE DaemonInv'
  BY <1>5 DEF ProviderAnswers, ProviderFails, ServerTypes, DrainInv, ClientInv, gate, Gate!InFlight
<1>6. ASSUME NEW r \in Requests, Respond(r) PROVE DaemonInv'
  <2>1. Gate!Settle(r) /\ phase[r] = "running"
    BY <1>6 DEF Respond, Gate!Settle
  <2>2. Gate!InFlight # 0
    BY <2>1, IdleGateIsEmpty
  <2>3. closed => idleWaiting
    BY <2>2 DEF DrainInv
  <2>4. ServerTypes'
    BY <1>0, <1>6 DEF Respond, Conclude, Become, ServerTypes, Conn
  <2>5. DrainInv'
    <3>1. CASE waiters # <<>>
      BY <1>6, <2>1, <2>3, <3>1 DEF Respond, Gate!Settle, DrainInv
    <3>2. CASE waiters = <<>>
      <4>1. /\ running' = running - 1 /\ waiters' = <<>> /\ closed' = closed
            /\ idleWaiting' = (idleWaiting /\ running' > 0)
        BY <2>1, <3>2 DEF Gate!Settle
      <4>2. running # 0
        BY <1>0, <2>2, <3>2 DEF Gate!InFlight
      <4>3. closed' /\ ~idleWaiting' => Gate!InFlight' = 0
        <5>1. Len(waiters') = 0 /\ running - 1 \in Nat
          BY <1>0, <4>1, <4>2
        <5>2. closed' /\ ~idleWaiting' => ~(running' > 0)
          BY <2>3, <4>1
        <5> QED BY <4>1, <5>1, <5>2 DEF Gate!InFlight
      <4>4. drain' = drain /\ listener' = listener
        BY <1>6 DEF Respond
      <4> QED BY <4>1, <4>3, <4>4 DEF DrainInv
    <3> QED BY <3>1, <3>2
  <2>6. ClientInv'
    <3>1. \A q \in Requests : q # r /\ phase[q] # "out" => phase'[q] # "out"
      BY <1>0, <2>1 DEF Gate!Settle
    <3>2. conn'[r] # "open" /\ \A q \in Requests : q # r => conn'[q] = conn[q]
      BY <1>0, <1>6 DEF Respond, Conclude, Become
    <3> QED BY <1>6, <3>1, <3>2 DEF Respond, ClientInv
  <2> QED BY <2>4, <2>5, <2>6
<1>7. CASE CoolDown \/ ProviderChanges
  <2>1. UNCHANGED <<gate, conn, listener, drain>>
    BY <1>7 DEF CoolDown, ProviderChanges
  <2>2. healthy' \in BOOLEAN
    BY <1>7 DEF CoolDown, ProviderChanges, ServerTypes
  <2> QED BY <2>1, <2>2 DEF ServerTypes, DrainInv, ClientInv, gate, Gate!InFlight
<1>8. CASE Signal
  <2>1. /\ drain' = "waiting" /\ closed' = TRUE
        /\ UNCHANGED <<healthy, conn, listener, running, waiters, phase>>
        /\ idleWaiting' = (Gate!InFlight > 0)
        /\ drain = "no"
    BY <1>8 DEF Signal, Gate!CloseAndDrain
  <2>2. Gate!InFlight' = Gate!InFlight /\ Gate!InFlight \in Nat
    BY <1>0, <2>1 DEF Gate!InFlight
  <2>3. ~idleWaiting' => ~(Gate!InFlight > 0)
    BY <2>1
  <2>4. closed' /\ ~idleWaiting' => Gate!InFlight' = 0
    BY <2>2, <2>3
  <2> QED BY <2>1, <2>4 DEF ServerTypes, DrainInv, ClientInv, Drain
<1>9. CASE Drained
  BY <1>9 DEF Drained, StopListening, Alive, ServerTypes, DrainInv, ClientInv, Drain, Listener, gate, Gate!InFlight
<1>10. CASE DrainTimeout
  BY <1>0, <1>10 DEF DrainTimeout, StopListening, Severed, Alive, ServerTypes, DrainInv, ClientInv,
     Conn, Drain, Listener, gate, Gate!InFlight
<1>11. CASE IdleTimeout
  BY <1>11 DEF IdleTimeout, ServerTypes, DrainInv, ClientInv, Listener, gate, Gate!InFlight
<1>12. CASE Closed
  BY <1>12 DEF Closed, Connected, ServerTypes, DrainInv, ClientInv, Listener, gate, Gate!InFlight
<1>13. CASE ForceExit
  BY <1>0, <1>13 DEF ForceExit, Severed, Connected, ServerTypes, DrainInv, ClientInv, Conn, Listener,
     gate, Gate!InFlight
<1>14. CASE UNCHANGED vars
  BY <1>14 DEF vars, ServerTypes, DrainInv, ClientInv, gate, Gate!InFlight
<1> QED
  BY <1>1, <1>2, <1>3, <1>4, <1>5, <1>6, <1>7, <1>8, <1>9, <1>10, <1>11, <1>12, <1>13, <1>14
     DEF Next

LEMMA DaemonInvariance == Spec => [](DaemonInv /\ GateInv)
<1>1. Gate!TypeOK /\ Gate!SlotsAccounted <=> GateInv
  BY DEF GateInv
<1> QED BY <1>1, DaemonInvInit, DaemonInvStep, GateInDaemon, PTL DEF Spec

\* Every variable of the daemon, its gate and its breaker keeps its type
\* (src/cli-serve.ts).
THEOREM TypeCorrect == Spec => []TypeOK
<1>1. DaemonInv /\ GateInv /\ BreakerInv => TypeOK
  BY DEF DaemonInv, GateInv, BreakerInv, ServerTypes, TypeOK
<1> QED BY <1>1, DaemonInvariance, BreakerInDaemon, PTL

\* gracefulDrain, the force-exit timer and the idle timer cut no client that
\* waits for its answer, unless the drain budget ran out: the force-exit timer
\* that stop() sets finds no such client after a drain that ended in time.
THEOREM AnswersSurviveDrain == Spec => AnswersAreKept
<1> DEFINE Kept == \A r \in Requests :
             conn[r] = "open" =>
               /\ conn'[r] = "severed" => drain' = "timedOut"
               /\ listener' = "exited" => conn'[r] # "open"
<1>1. ASSUME DaemonInv, GateInv, [Next]_vars PROVE [Kept]_vars
  <2> SUFFICES ASSUME NEW r \in Requests, conn[r] = "open", Next
               PROVE  /\ conn'[r] = "severed" => drain' = "timedOut"
                      /\ listener' = "exited" => conn'[r] # "open"
    BY <1>1
  <2>0. conn \in [Requests -> Conn] /\ listener # "exited" /\ phase[r] # "out"
    BY <1>1 DEF DaemonInv, ServerTypes, ClientInv
  <2>1. CASE \E q \in Requests : Connect(q) \/ Submit(q) \/ Leave(q) \/ Begin(q)
                \/ ProviderAnswers(q) \/ ProviderFails(q) \/ Respond(q)
    <3>1. PICK q \in Requests : Connect(q) \/ Submit(q) \/ Leave(q) \/ Begin(q)
                \/ ProviderAnswers(q) \/ ProviderFails(q) \/ Respond(q)
      BY <2>1
    <3>2. listener' = listener
      BY <3>1 DEF Connect, Submit, Leave, Begin, ProviderAnswers, ProviderFails, Respond
    <3>3. conn' = conn \/ \E c \in {"none", "uploading", "open"} : conn' = [conn EXCEPT ![q] = c]
      BY <3>1 DEF Connect, Submit, Leave, Begin, ProviderAnswers, ProviderFails, Respond,
         Conclude, Become
    <3> QED BY <2>0, <3>2, <3>3
  <2>2. CASE CoolDown \/ ProviderChanges \/ Signal \/ Drained \/ IdleTimeout
    BY <2>0, <2>2 DEF CoolDown, ProviderChanges, Signal, Drained, StopListening, IdleTimeout
  <2>3. CASE DrainTimeout
    BY <2>0, <2>3 DEF DrainTimeout, StopListening
  <2>4. CASE Closed
    BY <2>4 DEF Closed, Connected
  <2>5. CASE ForceExit
    <3>1. drain \in {"drained", "timedOut"} /\ drain' = drain
      BY <1>1, <2>5 DEF ForceExit, DaemonInv, DrainInv
    <3>2. drain # "drained"
      BY <1>1, <2>0, IdleGateIsEmpty DEF DaemonInv, DrainInv
    <3>3. conn'[r] = "severed"
      BY <2>5 DEF ForceExit, Severed, Connected
    <3> QED BY <3>1, <3>2, <3>3
  <2> QED BY <2>1, <2>2, <2>3, <2>4, <2>5 DEF Next
<1>2. [][Kept]_vars => AnswersAreKept
  BY DEF AnswersAreKept
<1> QED BY <1>1, <1>2, DaemonInvariance, PTL DEF Spec
=============================================================================
