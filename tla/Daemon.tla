------------------------------- MODULE Daemon -------------------------------
(***************************************************************************)
(* The resident daemon of `kb serve' (src/cli-serve.ts): requests that are *)
(* uploaded, admitted by the gate, run as jobs that call the embedding     *)
(* provider through its breaker, and answered; and the daemon's end, by a  *)
(* signal (gracefulDrain and the force-exit timer of runServe) or by the   *)
(* idle timer.  AdmissionGate and ProviderBreaker take their steps inside  *)
(* the steps of this module.                                               *)
(*                                                                         *)
(* Time: a timer may fire at any moment once it is set; the force-exit     *)
(* timer fires after the drain budget, so after the drain has ended.       *)
(* The HTTP server is Node's: close() stops listening and completes when   *)
(* no request is on a connection any more; the process then exits.         *)
(***************************************************************************)
EXTENDS Naturals, Sequences, FiniteSets

CONSTANTS
  Requests,        \* requests at a time; an ended one may be followed by another
  Wedged,          \* requests whose job never ends
  MaxConcurrency, QueueMax, Threshold

VARIABLES running, waiters, closed, idleWaiting, phase   \* the gate
VARIABLES circuit, failures, probing, cooled, calls      \* the breaker
VARIABLES
  healthy,   \* the provider answers
  conn,      \* [Requests -> the connection of the request]
  listener,  \* the HTTP server
  drain      \* gracefulDrain

gate == <<running, waiters, closed, idleWaiting, phase>>
breaker == <<circuit, failures, probing, cooled, calls>>
vars == <<gate, breaker, healthy, conn, listener, drain>>

Gate == INSTANCE AdmissionGate
Breaker == INSTANCE ProviderBreaker WITH Calls <- Requests

ASSUME DaemonAssumption ==
  /\ Wedged \subseteq Requests
  /\ Gate!GateConstants
  /\ Breaker!BreakerConstants

\* none (not there yet, or concluded by a response or by the client), uploading
\* the body, open (admitted), severed (cut by the daemon).
Conn == {"none", "uploading", "open", "severed"}

\* stopping: closed by stop(), with the force-exit timer set; idle: closed by
\* the idle timer, which sets no such timer.
Listener == {"open", "stopping", "idle", "exited"}

Drain == {"no", "waiting", "drained", "timedOut"}

Connected(r) == conn[r] \in {"uploading", "open"}

Alive == listener # "exited"

Init ==
  /\ Gate!Init
  /\ Breaker!Init
  /\ healthy = TRUE
  /\ conn = [r \in Requests |-> "none"]
  /\ listener = "open"
  /\ drain = "no"

Become(r, c) == conn' = [conn EXCEPT ![r] = c]

\* The response is sent, or the client left: nobody waits.
Conclude(r) == Become(r, "none")

-----------------------------------------------------------------------------
(* Requests: handleRequest.                                                *)

Connect(r) ==
  /\ listener = "open"
  /\ ~Connected(r)
  /\ phase[r] = "out"
  /\ Become(r, "uploading")
  /\ UNCHANGED <<gate, breaker, healthy, listener, drain>>

\* Mutant: the gate is asked whether it is closed before the body is read.
SubmitUnchecked(r) ==
  /\ Alive
  /\ conn[r] = "uploading"
  /\ \/ Gate!Full /\ Conclude(r) /\ UNCHANGED gate
     \/ ~Gate!Full /\ Become(r, "open") /\ Gate!Run(r)
  /\ UNCHANGED <<breaker, healthy, listener, drain>>

\* The body is read: answer 503 in a shutdown, 429 under load, or admit.
Submit(r) ==
  /\ Alive
  /\ conn[r] = "uploading"
  /\ \/ closed /\ Conclude(r) /\ UNCHANGED gate
     \/ ~closed /\ Gate!Full /\ Conclude(r) /\ UNCHANGED gate
     \/ ~closed /\ ~Gate!Full /\ Become(r, "open") /\ Gate!Run(r)
  /\ UNCHANGED <<breaker, healthy, listener, drain>>

\* The client goes away; an admitted job goes on without it.
Leave(r) ==
  /\ Alive
  /\ Connected(r)
  /\ Conclude(r)
  /\ UNCHANGED <<gate, breaker, healthy, listener, drain>>

\* The job starts and calls the provider, if the breaker lets it.
Begin(r) ==
  /\ Alive
  /\ Gate!StartJob(r)
  /\ Breaker!Call(r) \/ Breaker!Refuse
  /\ UNCHANGED <<healthy, conn, listener, drain>>

\* An answer or an error that is not the provider's fault.
ProviderAnswers(r) ==
  /\ Alive
  /\ Breaker!Success(r)
  /\ UNCHANGED <<gate, healthy, conn, listener, drain>>

\* An error or the deadline of the call.
ProviderFails(r) ==
  /\ Alive
  /\ ~healthy
  /\ Breaker!Failure(r)
  /\ UNCHANGED <<gate, healthy, conn, listener, drain>>

\* The job ends: answer, if there is somebody, and release the slot.
Respond(r) ==
  /\ Alive
  /\ r \notin calls \cup Wedged
  /\ Gate!Settle(r)
  /\ IF conn[r] = "open" THEN Conclude(r) ELSE UNCHANGED conn
  /\ UNCHANGED <<breaker, healthy, listener, drain>>

-----------------------------------------------------------------------------
(* The provider and its clock.                                             *)

CoolDown ==
  /\ Alive
  /\ Breaker!CoolDown
  /\ UNCHANGED <<gate, healthy, conn, listener, drain>>

ProviderChanges ==
  /\ Alive
  /\ healthy' = ~healthy
  /\ UNCHANGED <<gate, breaker, conn, listener, drain>>

-----------------------------------------------------------------------------
(* The end.                                                                *)

\* SIGINT or SIGTERM, the first one.
Signal ==
  /\ Alive
  /\ drain = "no"
  /\ drain' = "waiting"
  /\ Gate!CloseAndDrain
  /\ UNCHANGED <<breaker, healthy, conn, listener>>

\* stop() resolves at once when the server is not listening any more.
StopListening == listener' = IF listener = "open" THEN "stopping" ELSE listener

Drained ==
  /\ Alive
  /\ drain = "waiting"
  /\ ~idleWaiting
  /\ drain' = "drained"
  /\ StopListening
  /\ UNCHANGED <<gate, breaker, healthy, conn>>

Severed == [r \in Requests |-> IF Connected(r) THEN "severed" ELSE conn[r]]

\* The budget is over: closeAllConnections, then stop().
DrainTimeout ==
  /\ Alive
  /\ drain = "waiting"
  /\ idleWaiting
  /\ drain' = "timedOut"
  /\ conn' = Severed
  /\ StopListening
  /\ UNCHANGED <<gate, breaker, healthy>>

\* The idle timer is set again by admitted work only, and never cleared while
\* that work runs.
IdleTimeout ==
  /\ listener = "open"
  /\ listener' = "idle"
  /\ UNCHANGED <<gate, breaker, healthy, conn, drain>>

\* The server's close event.
Closed ==
  /\ listener \in {"stopping", "idle"}
  /\ \A r \in Requests : ~Connected(r)
  /\ listener' = "exited"
  /\ UNCHANGED <<gate, breaker, healthy, conn, drain>>

\* Mutant: the timer is cleared when the drain has ended, not after stop().
ForceExitCleared ==
  /\ listener = "stopping"
  /\ drain = "waiting"
  /\ listener' = "exited"
  /\ conn' = Severed
  /\ UNCHANGED <<gate, breaker, healthy, drain>>

ForceExit ==
  /\ listener = "stopping"
  /\ listener' = "exited"
  /\ conn' = Severed
  /\ UNCHANGED <<gate, breaker, healthy, drain>>

-----------------------------------------------------------------------------
Next ==
  \/ \E r \in Requests :
       \/ Connect(r) \/ Submit(r) \/ Leave(r) \/ Begin(r)
       \/ ProviderAnswers(r) \/ ProviderFails(r) \/ Respond(r)
  \/ CoolDown \/ ProviderChanges
  \/ Signal \/ Drained \/ DrainTimeout \/ IdleTimeout \/ Closed \/ ForceExit

Spec == Init /\ [][Next]_vars

\* The event loop runs what is ready; provider calls end, by their deadline at
\* the latest; a timer that stays set fires.  Clients owe nothing ...
Fairness ==
  /\ \A r \in Requests :
       WF_vars(Begin(r)) /\ WF_vars(ProviderAnswers(r) \/ ProviderFails(r)) /\ WF_vars(Respond(r))
  /\ WF_vars(CoolDown) /\ WF_vars(Drained) /\ WF_vars(DrainTimeout)
  /\ WF_vars(Closed) /\ WF_vars(ForceExit)

\* ... except where a property needs some that keep coming.
Clients == \A r \in Requests : WF_vars(Connect(r)) /\ SF_vars(Submit(r))

FairSpec == Spec /\ Fairness
=============================================================================
