---------------------------- MODULE AdmissionGate ----------------------------
(***************************************************************************)
(* DaemonAdmissionGate (src/daemon-admission.ts): at most MaxConcurrency   *)
(* jobs run, at most QueueMax wait in arrival order, the rest is turned    *)
(* away.  A slot that becomes free is handed to the first waiter.          *)
(*                                                                         *)
(* The gate runs on one event loop, so each method is one step; a promise  *)
(* that is resolved in a step continues in a later one.  A request whose   *)
(* slot was granted is therefore not running yet.                          *)
(***************************************************************************)
EXTENDS Naturals, Sequences, FiniteSets

CONSTANTS
  Requests,
  MaxConcurrency,  \* KB_DAEMON_MAX_CONCURRENCY, at least 1
  QueueMax         \* KB_DAEMON_QUEUE_MAX, 0 for no queue

GateConstants ==
  /\ IsFiniteSet(Requests)
  /\ MaxConcurrency \in Nat \ {0}
  /\ QueueMax \in Nat

VARIABLES
  running,      \* slots held
  waiters,      \* requests that wait for a slot, first come first
  closed,       \* no new work, for the shutdown
  idleWaiting,  \* the shutdown awaits whenIdle()
  phase         \* [Requests -> where the request is in run()]

vars == <<running, waiters, closed, idleWaiting, phase>>

Phase == {"out", "queued", "granted", "running"}

InFlight == running + Len(waiters)

Init ==
  /\ running = 0
  /\ waiters = <<>>
  /\ closed = FALSE
  /\ idleWaiting = FALSE
  /\ phase = [r \in Requests |-> "out"]

Full == running >= MaxConcurrency /\ Len(waiters) >= QueueMax

\* run: take a slot, or the last place of the queue.
Run(r) ==
  /\ phase[r] = "out"
  /\ ~Full
  /\ \/ /\ running < MaxConcurrency
        /\ running' = running + 1
        /\ phase' = [phase EXCEPT ![r] = "granted"]
        /\ UNCHANGED waiters
     \/ /\ running >= MaxConcurrency
        /\ waiters' = Append(waiters, r)
        /\ phase' = [phase EXCEPT ![r] = "queued"]
        /\ UNCHANGED running
  /\ UNCHANGED <<closed, idleWaiting>>

StartJob(r) ==
  /\ phase[r] = "granted"
  /\ phase' = [phase EXCEPT ![r] = "running"]
  /\ UNCHANGED <<running, waiters, closed, idleWaiting>>

\* Mutant: the freed slot is not handed over but counted down.
SettleWithoutHandOver(r) ==
  /\ phase[r] = "running"
  /\ running' = running - 1
  /\ phase' = [phase EXCEPT ![r] = "out"]
  /\ idleWaiting' = (idleWaiting /\ InFlight # 1)
  /\ UNCHANGED <<waiters, closed>>

\* Mutant: the last job is released in the error path and once more at the end.
SettleTwice(r) ==
  /\ phase[r] = "running"
  /\ running' = running - 2
  /\ phase' = [phase EXCEPT ![r] = "out"]
  /\ idleWaiting' = (idleWaiting /\ running' > 0)
  /\ UNCHANGED <<waiters, closed>>

\* release: the slot goes to the first waiter; the last job wakes the shutdown.
Settle(r) ==
  /\ phase[r] = "running"
  /\ \/ /\ waiters # <<>>
        /\ waiters' = Tail(waiters)
        /\ phase' = [phase EXCEPT ![r] = "out", ![Head(waiters)] = "granted"]
        /\ UNCHANGED <<running, idleWaiting>>
     \/ /\ waiters = <<>>
        /\ running' = running - 1
        /\ phase' = [phase EXCEPT ![r] = "out"]
        /\ idleWaiting' = (idleWaiting /\ running' > 0)
        /\ UNCHANGED waiters
  /\ UNCHANGED closed

\* close, then whenIdle, which resolves at once when nothing is in flight.
CloseAndDrain ==
  /\ ~closed
  /\ closed' = TRUE
  /\ idleWaiting' = (InFlight > 0)
  /\ UNCHANGED <<running, waiters, phase>>

Next ==
  \/ \E r \in Requests : Run(r) \/ StartJob(r) \/ Settle(r)
  \/ CloseAndDrain

Spec == Init /\ [][Next]_vars

-----------------------------------------------------------------------------
TypeOK ==
  /\ running \in Nat
  /\ waiters \in Seq(Requests)
  /\ closed \in BOOLEAN
  /\ idleWaiting \in BOOLEAN
  /\ phase \in [Requests -> Phase]

In(p) == {r \in Requests : phase[r] = p}

\* No slot is lost, invented or shared across hand-overs: the count is that of
\* the requests that hold one and within the cap; the queue holds the waiting
\* requests once each, within its bound, and only while every slot is taken;
\* and whoever awaits whenIdle has something in flight that will wake it
\* (run, acquire, release and whenIdle of DaemonAdmissionGate).
SlotsAccounted ==
  /\ running = Cardinality(In("granted") \cup In("running"))
  /\ running <= MaxConcurrency
  /\ {waiters[i] : i \in DOMAIN waiters} = In("queued")
  /\ Len(waiters) = Cardinality(In("queued"))
  /\ Len(waiters) <= QueueMax
  /\ waiters # <<>> => running = MaxConcurrency
  /\ idleWaiting => InFlight > 0
=============================================================================
