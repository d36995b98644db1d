----------------------------- MODULE DaemonProps -----------------------------
(***************************************************************************)
(* What the resident daemon of Daemon.tla must guarantee.                  *)
(***************************************************************************)
EXTENDS Daemon

\* Every variable holds a value of its kind (src/cli-serve.ts,
\* src/daemon-admission.ts, src/provider-breaker.ts).
TypeOK ==
  /\ Gate!TypeOK
  /\ Breaker!TypeOK
  /\ healthy \in BOOLEAN
  /\ conn \in [Requests -> Conn]
  /\ listener \in Listener
  /\ drain \in Drain

\* The gate's account of its slots is right and no wake-up is lost, in the
\* daemon that uses it (DaemonAdmissionGate).
SlotsAccounted == Gate!SlotsAccounted

\* The breaker of the daemon's provider never turns every call away without a
\* probe under way (ProviderBreakerRegistry).
NeverStuck == Breaker!NeverStuck

\* A graceful end loses no admitted request: the connection of a client that
\* waits for its answer is cut only after the drain budget ran out, and the
\* process does not end before the answer (gracefulDrain, runServe and the idle
\* timer of startDaemonServer).
AnswersAreKept ==
  [][\A r \in Requests :
       conn[r] = "open" =>
         /\ conn'[r] = "severed" => drain' = "timedOut"
         /\ listener' = "exited" => conn'[r] # "open"]_vars

\* An admitted request is answered, if its own job ends, although other jobs
\* hang: unless its client leaves or it is cut (DaemonAdmissionGate.release).
Answered == \A r \in Requests \ Wedged : conn[r] = "open" ~> conn[r] # "open"

\* After a signal the daemon exits, whatever jobs and clients do (gracefulDrain
\* and the force-exit timer of runServe), but for one case: the idle timer
\* closed the server before stop() could, and a client does not finish its
\* upload.
Stops ==
  drain # "no" ~> \/ listener = "exited"
                  \/ listener = "idle" /\ \E r \in Requests : conn[r] = "uploading"

\* Once the provider is well again for good and clients keep asking, the
\* circuit closes, again after every late failure (ProviderBreakerRegistry).
Recovers ==
  Clients /\ <>[]healthy => []<>(circuit = "closed" \/ listener # "open" \/ closed)
=============================================================================
